-------------------------- MODULE PrelinkInfoProofs --------------------------
(***************************************************************************)
(* Proofs about PrelinkInfo, for every section, every base and number of   *)
(* digits, and every sequence of loads: the numbers that format_hex writes *)
(* are the ones that are read back, the search finds the closing tags that *)
(* the last insertion left, and the text always holds one dictionary for   *)
(* each kernel extension that was loaded.                                  *)
(***************************************************************************)
EXTENDS PrelinkInfo, SequenceTheorems, WellFoundedInduction, TLAPS

-----------------------------------------------------------------------------
(* Numbers.                                                                *)

\* A number that is not 0 is no smaller than a factor.
LEMMA ProductBound ==
    ASSUME NEW p \in Nat, NEW d \in Nat, d >= 1
    PROVE  p * d \in Nat /\ p * d >= p
<1>1. p * d = p * (d - 1) + p /\ d - 1 \in Nat
  OBVIOUS
<1>2. p * (d - 1) \in Nat
  BY <1>1
<1> QED
  BY <1>1, <1>2

\* Division with remainder.
LEMMA Division ==
    ASSUME NEW x \in Nat, NEW p \in Nat \ {0}
    PROVE  /\ x \div p \in Nat /\ x % p \in 0 .. p - 1
           /\ x = p * (x \div p) + (x % p)
<1>1. x % p \in 0 .. p - 1
  OBVIOUS
<1>2. x \div p \in Int
  OBVIOUS
<1>3. x = p * (x \div p) + (x % p)
  OBVIOUS
<1>4. x \div p >= 0
  <2> DEFINE q == x \div p
             r == x % p
  <2>1. q \in Int /\ r \in 0 .. p - 1 /\ x = p * q + r
    BY <1>1, <1>2, <1>3
  <2> HIDE DEF q, r
  <2> SUFFICES ASSUME ~(q >= 0) PROVE FALSE
    BY DEF q
  <2>2. -q \in Nat /\ -q >= 1
    BY <2>1
  <2>3. p * (-q) >= p /\ p * (-q) = -(p * q)
    BY <2>1, <2>2, ProductBound
  <2> QED
    BY <2>1, <2>3
<1> QED
  BY <1>1, <1>2, <1>3, <1>4

\* Quotient and remainder are the only ones.
LEMMA DivisionUnique ==
    ASSUME NEW x \in Nat, NEW p \in Nat \ {0}, NEW q \in Nat, NEW r \in 0 .. p - 1,
           x = p * q + r
    PROVE  x \div p = q /\ x % p = r
<1> DEFINE q0 == x \div p
           r0 == x % p
<1>1. q0 \in Nat /\ r0 \in 0 .. p - 1 /\ x = p * q0 + r0
  BY Division
<1> HIDE DEF q0, r0
<1>2. ~(q0 < q)
  <2> SUFFICES ASSUME q0 < q PROVE FALSE
    OBVIOUS
  <2> DEFINE d == q - q0
  <2>1. d \in Nat /\ d >= 1 /\ q = q0 + d
    BY <1>1
  <2> HIDE DEF d
  <2>2. p * q = p * q0 + p * d
    BY <1>1, <2>1
  <2>3. p * d \in Nat /\ p * d >= p
    BY <2>1, ProductBound
  <2>4. p * q0 \in Nat /\ p * q \in Nat
    BY <1>1
  <2> QED
    BY <1>1, <2>2, <2>3, <2>4
<1>3. ~(q < q0)
  <2> SUFFICES ASSUME q < q0 PROVE FALSE
    OBVIOUS
  <2> DEFINE d == q0 - q
  <2>1. d \in Nat /\ d >= 1 /\ q0 = q + d
    BY <1>1
  <2> HIDE DEF d
  <2>2. p * q0 = p * q + p * d
    BY <1>1, <2>1
  <2>3. p * d \in Nat /\ p * d >= p
    BY <2>1, ProductBound
  <2>4. p * q0 \in Nat /\ p * q \in Nat
    BY <1>1
  <2> QED
    BY <1>1, <2>2, <2>3, <2>4
<1>4. q0 = q
  BY <1>1, <1>2, <1>3
<1>5. r0 = r
  <2>1. p * q \in Nat
    OBVIOUS
  <2> QED
    BY <1>1, <1>4, <2>1
<1> QED
  BY <1>4, <1>5 DEF q0, r0

\* Dividing twice is dividing by the product.
LEMMA DivisionTwice ==
    ASSUME NEW x \in Nat, NEW p \in Nat \ {0}, NEW b \in Nat \ {0}
    PROVE  x \div (b * p) = (x \div p) \div b
<1> DEFINE q == x \div p
           r == x % p
           q2 == q \div b
           r2 == q % b
<1>1. q \in Nat /\ r \in 0 .. p - 1 /\ x = p * q + r
  BY Division
<1> HIDE DEF q, r
<1>2. q2 \in Nat /\ r2 \in 0 .. b - 1 /\ q = b * q2 + r2
  BY <1>1, Division
<1> HIDE DEF q2, r2
<1> DEFINE s == p * r2 + r
<1>3. s \in 0 .. b * p - 1
  <2>1. p * r2 \in Nat
    BY <1>2
  <2>2. p * (b - 1 - r2) \in Nat
    <3>1. b - 1 - r2 \in Nat
      BY <1>2
    <3> QED
      BY <3>1
  <2>3. b * p = p * r2 + p * (b - 1 - r2) + p
    BY <1>2
  <2> QED
    BY <1>1, <2>1, <2>2, <2>3
<1>4. x = (b * p) * q2 + s
  <2>1. p * q = p * (b * q2) + p * r2
    BY <1>1, <1>2
  <2>2. p * (b * q2) = (b * p) * q2
    BY <1>2
  <2>3. p * r2 \in Nat /\ (b * p) * q2 \in Nat
    BY <1>2
  <2> QED
    BY <1>1, <2>1, <2>2, <2>3
<1>5. b * p \in Nat \ {0}
  <2>1. b * p >= b
    BY ProductBound
  <2> QED
    BY <2>1
<1> HIDE DEF s
<1>6. x \div (b * p) = q2
  BY <1>2, <1>3, <1>4, <1>5, DivisionUnique
<1> QED
  BY <1>6 DEF q, q2

\* The lowest digits of a number: those of its quotient and its last one.
LEMMA ModuloTwice ==
    ASSUME NEW z \in Nat, NEW p \in Nat \ {0}, NEW b \in Nat \ {0}
    PROVE  z % (b * p) = ((z \div b) % p) * b + (z % b)
<1> DEFINE q == z \div b
           r == z % b
           q2 == q \div p
           r2 == q % p
<1>1. q \in Nat /\ r \in 0 .. b - 1 /\ z = b * q + r
  BY Division
<1> HIDE DEF q, r
<1>2. q2 \in Nat /\ r2 \in 0 .. p - 1 /\ q = p * q2 + r2
  BY <1>1, Division
<1> HIDE DEF q2, r2
<1> DEFINE s == b * r2 + r
<1>3. s \in 0 .. b * p - 1
  <2>1. b * r2 \in Nat
    BY <1>2
  <2>2. b * (p - 1 - r2) \in Nat
    <3>1. p - 1 - r2 \in Nat
      BY <1>2
    <3> QED
      BY <3>1
  <2>3. b * p = b * r2 + b * (p - 1 - r2) + b
    BY <1>2
  <2> QED
    BY <1>1, <2>1, <2>2, <2>3
<1>4. z = (b * p) * q2 + s
  <2>1. b * q = b * (p * q2) + b * r2
    BY <1>1, <1>2
  <2>2. b * (p * q2) = (b * p) * q2
    BY <1>2
  <2>3. b * r2 \in Nat /\ (b * p) * q2 \in Nat
    BY <1>2
  <2> QED
    BY <1>1, <2>1, <2>2, <2>3
<1>5. b * p \in Nat \ {0}
  <2>1. b * p >= b
    BY ProductBound
  <2> QED
    BY <2>1
<1>6. s = r2 * b + r
  BY <1>1, <1>2
<1> HIDE DEF s
<1>7. z % (b * p) = s
  BY <1>2, <1>3, <1>4, <1>5, DivisionUnique
<1> QED
  BY <1>6, <1>7 DEF q, r, r2

\* The least element of a set of naturals.
LEMMA MinExists ==
    ASSUME NEW S \in SUBSET Nat, S # {}
    PROVE  Min(S) \in S /\ \A p \in S : Min(S) <= p
<1> DEFINE R == {ss \in Nat \X Nat : ss[1] < ss[2]}
<1>0. IsWellFoundedOn(R, Nat)
  BY NatLessThanWellFounded DEF OpToRel
<1>1. \E o \in S : \A p \in S : ~(<<p, o>> \in R)
  <2> HIDE DEF R
  <2> QED BY <1>0, WFMin
<1>2. PICK o \in S : \A p \in S : ~(<<p, o>> \in R)
  BY <1>1
<1>3. \A p \in S : o <= p
  <2> TAKE p \in S
  <2>1. <<p, o>> \in Nat \X Nat
    OBVIOUS
  <2>2. ~(p < o)
    BY <1>2, <2>1
  <2> QED
    BY <2>2
<1> QED
  BY <1>3 DEF Min

\* The greatest element of a set of naturals that is bounded.
LEMMA MaxExists ==
    ASSUME NEW n \in Nat, NEW S \in SUBSET (0 .. n), S # {}
    PROVE  Max(S) \in S /\ \A p \in S : Max(S) >= p
<1> DEFINE T == {n - x : x \in S}
<1>1. T \in SUBSET Nat /\ T # {}
  <2>1. \A x \in S : n - x \in Nat
    OBVIOUS
  <2> QED
    BY <2>1
<1>2. Min(T) \in T /\ \A p \in T : Min(T) <= p
  BY <1>1, MinExists
<1>3. PICK x \in S : Min(T) = n - x
  BY <1>2
<1>4. \A y \in S : x >= y
  <2> TAKE y \in S
  <2>1. n - x <= n - y
    BY <1>2, <1>3
  <2> QED
    BY <2>1
<1> QED
  BY <1>4 DEF Max

\* Reading the digits of a number yields the number, modulo what they can hold.
LEMMA ValueOfDigits ==
    ASSUME NEW N \in 0 .. Digits + IdDigits, NEW x \in Nat
    PROVE  Value(format_hex(N, x)) = x % Base ^ N
<1> DEFINE d == format_hex(N, x)
           v[n \in 0 .. Len(d)] == IF n = 0 THEN 0 ELSE v[n - 1] * Base + d[n]
           W(n) == (x \div Base ^ (N - n)) % Base ^ n
           Step(f) == [n \in 0 .. N |-> IF n = 0 THEN 0 ELSE f[n - 1] * Base + d[n]]
           w == [n \in 0 .. N |-> W(n)]
<1>0. /\ Base \in Nat \ {0} /\ N \in Nat /\ Base ^ 0 = 1
      /\ \A n \in 0 .. N : Base ^ n \in Nat \ {0}
      /\ \A n \in 1 .. N : Base ^ n = Base * Base ^ (n - 1)
  BY NumbersAssumption, PowersAssumption
<1>1. Len(d) = N /\ \A n \in 1 .. N : d[n] = (x \div Base ^ (N - n)) % Base
  BY <1>0 DEF format_hex
<1>2. v = CHOOSE f : f = Step(f)
  BY <1>1
<1>3. Value(d) = v[N]
  BY <1>1 DEF Value
<1> HIDE DEF d, v
<1>4. W(0) = 0 /\ W(N) = x % Base ^ N
  <2>1. x \div 1 = x
    BY DivisionUnique
  <2>2. \A y \in Nat : y % 1 = 0
    OBVIOUS
  <2>3. x \div Base ^ N \in Nat
    BY <1>0, Division
  <2> QED
    BY <1>0, <2>1, <2>2, <2>3
<1>5. \A n \in 1 .. N : W(n) = W(n - 1) * Base + d[n]
  <2> TAKE n \in 1 .. N
  <2> DEFINE z == x \div Base ^ (N - n)
  <2>1. z \in Nat
    <3>1. N - n \in 0 .. N
      BY <1>0
    <3>2. Base ^ (N - n) \in Nat \ {0}
      BY <1>0, <3>1
    <3> QED
      BY <3>2, Division
  <2>2. x \div Base ^ (N - (n - 1)) = z \div Base
    <3> DEFINE m == N - (n - 1)
    <3>1. m \in 1 .. N /\ m - 1 = N - n /\ N - n \in 0 .. N
      BY <1>0
    <3> HIDE DEF m
    <3>2. Base ^ m = Base * Base ^ (N - n) /\ Base ^ (N - n) \in Nat \ {0}
      BY <1>0, <3>1
    <3>3. x \div (Base * Base ^ (N - n)) = (x \div Base ^ (N - n)) \div Base
      BY <1>0, <3>2, DivisionTwice
    <3> QED
      BY <3>2, <3>3 DEF m
  <2>3. Base ^ n = Base * Base ^ (n - 1) /\ Base ^ (n - 1) \in Nat \ {0}
    BY <1>0
  <2>4. d[n] = z % Base
    BY <1>1
  <2> HIDE DEF z
  <2>5. z % (Base * Base ^ (n - 1)) = ((z \div Base) % Base ^ (n - 1)) * Base + (z % Base)
    BY <1>0, <2>1, <2>3, ModuloTwice
  <2>6. W(n) = z % Base ^ n /\ W(n - 1) = (z \div Base) % Base ^ (n - 1)
    BY <2>2 DEF z
  <2> QED
    BY <2>3, <2>4, <2>5, <2>6
<1> HIDE DEF W
<1>6. w = Step(w)
  BY <1>0, <1>4, <1>5
<1>7. v = Step(v)
  <2> HIDE DEF w, Step
  <2> QED
    BY <1>2, <1>6
<1>8. \A n \in 0 .. N : v[n] = IF n = 0 THEN 0 ELSE v[n - 1] * Base + d[n]
  BY <1>7
<1>9. \A n \in 0 .. N : v[n] = W(n)
  <2> SUFFICES ASSUME {n \in 0 .. N : v[n] # W(n)} # {} PROVE FALSE
    OBVIOUS
  <2> DEFINE S == {n \in 0 .. N : v[n] # W(n)}
  <2>1. S \in SUBSET Nat /\ S # {}
    BY <1>0
  <2>2. PICK m \in S : \A p \in S : m <= p
    BY <2>1, MinExists
  <2>3. m \in 0 .. N /\ v[m] # W(m)
    BY <2>2
  <2>4. m # 0
    BY <1>4, <1>8, <2>3
  <2>5. m \in 1 .. N /\ m - 1 \in 0 .. N /\ ~(m <= m - 1)
    BY <1>0, <2>3, <2>4
  <2>6. v[m - 1] = W(m - 1)
    BY <2>2, <2>5
  <2> QED
    BY <1>5, <1>8, <2>3, <2>4, <2>5, <2>6
<1> QED
  BY <1>0, <1>3, <1>4, <1>9 DEF d

-----------------------------------------------------------------------------
(* The layout of the text.                                                 *)

\* The length of the template, in cells.
T == 7

\* The dictionary of a kernel extension.
Dictionary(id, info) ==
    << Cell("<dict>"),
       Number("NNN0", format_hex(IdDigits, id)),
       Number("NNN1", format_hex(IdDigits, id)),
       Number("ADDRESS", format_hex(Digits, info.address)),
       Number("SIZE", format_hex(Digits, info.size)),
       Number("KMODINFO", format_hex(Digits, info.kmodinfo)),
       Cell("</dict>") >>

\* Where the text ends after n insertions.
TextEnd(n) == Len(sec.text) + T * n

CountInv ==
    /\ sec \in Sections
    /\ mem \in Seq(Cells) /\ Len(mem) = Len(Whole(sec))
    /\ loaded \in Seq(Info)
    /\ failed \in Nat
    /\ Len(loaded) + failed <= MaxInserts
    /\ kext_id = Len(loaded)
    /\ size = Len(sec.text) + sec.pad + T * Len(loaded)

\* The text that was there, up to the closing tags.
BeforeInv == \A i \in 1 .. Len(sec.text) - 1 : mem[i] = sec.text[i]

\* The dictionaries, in the order of the loads.
LoadedInv ==
    \A k \in DOMAIN loaded : \A j \in 1 .. T :
        mem[TextEnd(k - 1) - 1 + j] = Dictionary(k - 1, loaded[k])[j]

\* The closing tags, a NUL, and what was there before.
BehindInv ==
    /\ mem[TextEnd(Len(loaded))] = Last(sec.text)
    /\ mem[TextEnd(Len(loaded)) + 1] = Nul
    /\ \A i \in TextEnd(Len(loaded)) + 2 .. Len(mem) : mem[i] = Whole(sec)[i]

\* Insertions all happen, or none does.
OutcomeInv ==
    /\ loaded # <<>> => Closed
    /\ failed > 0 => ~Closed

IInv ==
    /\ CountInv
    /\ BeforeInv
    /\ LoadedInv
    /\ BehindInv
    /\ OutcomeInv

\* The digits that format_hex writes.
LEMMA DigitFacts ==
    ASSUME NEW n \in {Digits, IdDigits}, NEW x \in Nat
    PROVE  format_hex(n, x) \in Seq(0 .. Base - 1)
<1> DEFINE e(i) == (x \div Base ^ (n - i)) % Base
<1>1. n \in Nat /\ Base \in Nat \ {0} /\ \A i \in 0 .. n : Base ^ i \in Nat \ {0}
  BY NumbersAssumption, PowersAssumption
<1>2. \A i \in 1 .. n : e(i) \in 0 .. Base - 1
  <2> TAKE i \in 1 .. n
  <2>1. Base ^ (n - i) \in Nat \ {0}
    <3>1. n - i \in 0 .. n
      BY <1>1
    <3> QED
      BY <1>1, <3>1
  <2>2. x \div Base ^ (n - i) \in Nat
    BY <2>1, Division
  <2> QED
    BY <1>1, <2>2, Division
<1>3. format_hex(n, x) = [i \in 1 .. n |-> e(i)]
  BY DEF format_hex
<1> HIDE DEF e
<1> QED
  BY <1>1, <1>2, <1>3

\* Cells of the text, and which of them differ.
LEMMA CellFacts ==
    /\ Nul \in Cells /\ End \in Cells /\ Nul # End
    /\ Nul.kind = "NUL" /\ End.kind = "</array></dict>"
    /\ \A kind \in Kinds : Cell(kind) \in Cells /\ Cell(kind).kind = kind
    /\ \A kind \in Kinds, digits \in Seq(0 .. Base - 1) :
         /\ Number(kind, digits) \in Cells
         /\ Number(kind, digits).kind = kind /\ Number(kind, digits).val = digits
<1>1. <<>> \in Seq(0 .. Base - 1)
  BY EmptySeq
<1>2. ASSUME NEW kind \in Kinds, NEW digits \in Seq(0 .. Base - 1)
      PROVE  /\ Number(kind, digits) \in Cells
             /\ Number(kind, digits).kind = kind /\ Number(kind, digits).val = digits
  BY DEF Cells, Number
<1>3. \A kind : Cell(kind) = Number(kind, <<>>)
  BY DEF Cell, Number
<1>4. ASSUME NEW kind \in Kinds
      PROVE  Cell(kind) \in Cells /\ Cell(kind).kind = kind
  BY <1>1, <1>2, <1>3
<1>5. "NUL" \in Kinds /\ "</array></dict>" \in Kinds /\ "NUL" # "</array></dict>"
  BY KindsAssumption
<1> QED
  BY <1>2, <1>4, <1>5 DEF Nul, End

\* The template.
LEMMA TemplateFacts ==
    /\ prelink_info_str \in Seq(Cells) /\ Len(prelink_info_str) = T /\ T = 7
    /\ prelink_info_str[1] = Cell("<dict>") /\ prelink_info_str[2] = Cell("NNN0")
    /\ prelink_info_str[3] = Cell("NNN1") /\ prelink_info_str[4] = Cell("ADDRESS")
    /\ prelink_info_str[5] = Cell("SIZE") /\ prelink_info_str[6] = Cell("KMODINFO")
    /\ prelink_info_str[7] = Cell("</dict>")
<1>1. /\ Cell("<dict>") \in Cells /\ Cell("NNN0") \in Cells /\ Cell("NNN1") \in Cells
      /\ Cell("ADDRESS") \in Cells /\ Cell("SIZE") \in Cells /\ Cell("KMODINFO") \in Cells
      /\ Cell("</dict>") \in Cells
  <2>1. /\ "<dict>" \in Kinds /\ "NNN0" \in Kinds /\ "NNN1" \in Kinds /\ "ADDRESS" \in Kinds
        /\ "SIZE" \in Kinds /\ "KMODINFO" \in Kinds /\ "</dict>" \in Kinds
    BY KindsAssumption
  <2> QED
    BY <2>1, CellFacts, Zenon
<1> QED
  BY <1>1 DEF prelink_info_str, T

\* What is known of a section and the memory behind it.
LEMMA SectionFacts ==
    ASSUME NEW s \in Sections
    PROVE  /\ s.text \in Seq(Cells) /\ Len(s.text) \in Nat \ {0}
           /\ \A i \in 1 .. Len(s.text) : s.text[i] \in Cells /\ s.text[i] # Nul
           /\ s.pad \in Nat /\ Len(s.behind) \in Nat /\ MaxInserts \in Nat
           /\ Len(s.behind) > MaxInserts * T
           /\ Whole(s) \in Seq(Cells) /\ Len(Whole(s)) = Len(s.text) + s.pad + Len(s.behind)
           /\ \A i \in 1 .. Len(s.text) : Whole(s)[i] = s.text[i]
           /\ Whole(s)[Len(s.text) + 1] = Nul
           /\ \A i \in 1 .. Len(Whole(s)) : i > Len(s.text) => Whole(s)[i] # End
<1> DEFINE t == s.text
           z == [i \in 1 .. s.pad |-> Nul]
           b == s.behind
<1>1. /\ t \in Seq(Cells) /\ s.pad \in Nat /\ b \in Seq(Cells) /\ t # <<>>
      /\ \A i \in 1 .. Len(t) : t[i] # Nul
      /\ \A i \in 1 .. Len(b) : b[i] # End
      /\ Len(b) > MaxInserts * T /\ MaxInserts \in Nat
      /\ s.pad > 0 \/ Head(b) = Nul
  BY SectionsAssumption, NumbersAssumption, TemplateFacts DEF Contains
<1>2. z \in Seq(Cells) /\ Len(z) = s.pad /\ \A i \in 1 .. s.pad : z[i] = Nul
  <2>1. Nul \in Cells
    BY CellFacts
  <2>2. PICK n \in Nat : n = s.pad
    BY <1>1
  <2>3. PICK c \in Cells : c = Nul
    BY <2>1
  <2>4. [i \in 1 .. n |-> c] \in Seq(Cells) /\ Len([i \in 1 .. n |-> c]) = n
    OBVIOUS
  <2> QED
    BY <2>2, <2>3, <2>4
<1>3. Whole(s) = (t \o z) \o b
  BY DEF Whole
<1> HIDE DEF t, z, b
<1>4. /\ Len(t) \in Nat \ {0} /\ Len(b) \in Nat
      /\ \A i \in 1 .. Len(t) : t[i] \in Cells
  BY <1>1, LenProperties, EmptySeq, ElementOfSeq
<1> DEFINE a == t \o z
<1>5. /\ a \in Seq(Cells) /\ Len(a) = Len(t) + s.pad
      /\ \A i \in 1 .. Len(t) : a[i] = t[i]
      /\ \A i \in 1 .. s.pad : a[Len(t) + i] = Nul
  <2>1. /\ a \in Seq(Cells) /\ Len(a) = Len(t) + Len(z)
        /\ \A i \in 1 .. Len(t) + Len(z) : a[i] = IF i <= Len(t) THEN t[i] ELSE z[i - Len(t)]
    BY <1>1, <1>2, ConcatProperties
  <2> HIDE DEF a
  <2>2. \A i \in 1 .. Len(t) : a[i] = t[i]
    <3> TAKE i \in 1 .. Len(t)
    <3>1. i \in 1 .. Len(t) + Len(z) /\ i <= Len(t)
      BY <1>1, <1>2, <1>4
    <3> QED
      BY <2>1, <3>1
  <2>3. \A i \in 1 .. s.pad : a[Len(t) + i] = Nul
    <3> TAKE i \in 1 .. s.pad
    <3> DEFINE k == Len(t) + i
    <3>1. k \in 1 .. Len(t) + Len(z) /\ ~(k <= Len(t)) /\ k - Len(t) = i
      BY <1>1, <1>2, <1>4
    <3> HIDE DEF k
    <3>2. a[k] = z[i]
      BY <2>1, <3>1
    <3> QED
      BY <1>2, <3>2 DEF k
  <2> QED
    BY <1>2, <2>1, <2>2, <2>3
<1> HIDE DEF a
<1>6. /\ Whole(s) \in Seq(Cells) /\ Len(Whole(s)) = Len(a) + Len(b)
      /\ \A i \in 1 .. Len(a) + Len(b) :
           Whole(s)[i] = IF i <= Len(a) THEN a[i] ELSE b[i - Len(a)]
  <2>1. a \in Seq(Cells) /\ b \in Seq(Cells) /\ Whole(s) = a \o b
    BY <1>1, <1>3, <1>5 DEF a
  <2> QED
    BY <2>1, ConcatProperties
<1> DEFINE w == Whole(s)
<1> HIDE DEF w
<1>7. /\ w \in Seq(Cells) /\ Len(w) = Len(t) + s.pad + Len(b)
      /\ \A i \in 1 .. Len(t) : w[i] = t[i]
      /\ \A i \in 1 .. s.pad : w[Len(t) + i] = Nul
      /\ \A i \in 1 .. Len(b) : w[Len(t) + s.pad + i] = b[i]
  <2>1. \A i \in 1 .. Len(t) : w[i] = t[i]
    <3> TAKE i \in 1 .. Len(t)
    <3>1. i \in 1 .. Len(a) + Len(b) /\ i <= Len(a)
      BY <1>1, <1>4, <1>5
    <3> QED
      BY <1>5, <1>6, <3>1 DEF w
  <2>2. \A i \in 1 .. s.pad : w[Len(t) + i] = Nul
    <3> TAKE i \in 1 .. s.pad
    <3>1. Len(t) + i \in 1 .. Len(a) + Len(b) /\ Len(t) + i <= Len(a)
      BY <1>1, <1>4, <1>5
    <3> QED
      BY <1>5, <1>6, <3>1 DEF w
  <2>3. \A i \in 1 .. Len(b) : w[Len(t) + s.pad + i] = b[i]
    <3> TAKE i \in 1 .. Len(b)
    <3> DEFINE k == Len(t) + s.pad + i
    <3>1. k \in 1 .. Len(a) + Len(b) /\ ~(k <= Len(a)) /\ k - Len(a) = i
      <4>1. k = Len(a) + i /\ Len(a) \in Nat
        BY <1>1, <1>4, <1>5
      <4> HIDE DEF k
      <4> QED
        BY <1>4, <4>1
    <3> HIDE DEF k
    <3>2. w[k] = b[i]
      BY <1>6, <3>1 DEF w
    <3> QED
      BY <3>2 DEF k
  <2> QED
    BY <1>5, <1>6, <2>1, <2>2, <2>3 DEF w
<1>8. w[Len(t) + 1] = Nul
  <2>1. CASE s.pad > 0
    BY <1>1, <1>7, <2>1
  <2>2. CASE s.pad = 0
    <3>1. Len(b) >= 1 /\ Head(b) = b[1]
      BY <1>1, <1>4, <2>2 DEF T
    <3>2. w[Len(t) + s.pad + 1] = b[1] /\ Len(t) + s.pad + 1 = Len(t) + 1
      BY <1>4, <1>7, <2>2, <3>1
    <3> QED
      BY <1>1, <2>2, <3>1, <3>2
  <2> QED
    BY <1>1, <2>1, <2>2
<1>9. \A i \in 1 .. Len(w) : i > Len(t) => w[i] # End
  <2> SUFFICES ASSUME NEW i \in 1 .. Len(w), i > Len(t) PROVE w[i] # End
    OBVIOUS
  <2>1. CASE i <= Len(t) + s.pad
    <3>1. i - Len(t) \in 1 .. s.pad /\ Len(t) + (i - Len(t)) = i
      BY <1>1, <1>4, <1>7, <2>1
    <3>2. w[i] = Nul
      BY <1>7, <3>1
    <3> QED
      BY <3>2, CellFacts
  <2>2. CASE i > Len(t) + s.pad
    <3> DEFINE k == i - (Len(t) + s.pad)
    <3>1. k \in 1 .. Len(b) /\ Len(t) + s.pad + k = i
      BY <1>1, <1>4, <1>7, <2>2
    <3> HIDE DEF k
    <3>2. w[i] = b[k]
      BY <1>7, <3>1
    <3> QED
      BY <1>1, <3>1, <3>2
  <2> QED
    BY <1>1, <1>4, <1>7, <2>1, <2>2
<1> QED
  BY <1>1, <1>4, <1>7, <1>8, <1>9 DEF t, b, w

-----------------------------------------------------------------------------
(* One insertion.                                                          *)

\* c is m with a string of n cells and its NUL at p.
Copied(c, m, p, s, n) ==
    /\ c \in Seq(Cells) /\ Len(c) = Len(m)
    /\ \A j \in 1 .. n : c[p - 1 + j] = s[j]
    /\ c[p + n] = Nul
    /\ \A i \in 1 .. Len(m) : i < p \/ i > p + n => c[i] = m[i]

\* A string and its NUL replace as many cells; the others stay.
LEMMA StrcpyFacts ==
    ASSUME NEW m \in Seq(Cells), NEW p \in Nat \ {0}, NEW s \in Seq(Cells),
           p + Len(s) <= Len(m)
    PROVE  Copied(strcpy(m, p, s), m, p, s, Len(s))
<1> DEFINE c == strcpy(m, p, s)
           z == Append(s, Nul)
           e(i) == IF i >= p /\ i + 1 - p \in DOMAIN z THEN z[i + 1 - p] ELSE m[i]
<1>1. /\ Len(m) \in Nat /\ DOMAIN m = 1 .. Len(m) /\ Len(s) \in Nat
      /\ \A i \in 1 .. Len(m) : m[i] \in Cells
  BY LenProperties, ElementOfSeq
<1>2. /\ z \in Seq(Cells) /\ Len(z) = Len(s) + 1 /\ DOMAIN z = 1 .. Len(s) + 1
      /\ \A j \in 1 .. Len(s) : z[j] = s[j]
      /\ z[Len(s) + 1] = Nul
  <2>1. Nul \in Cells
    BY CellFacts
  <2> QED
    BY <2>1, AppendProperties, LenProperties
<1>3. c = [i \in DOMAIN m |-> e(i)]
  BY DEF strcpy
<1> HIDE DEF z, c
<1>4. \A i \in 1 .. Len(m) : e(i) \in Cells
  BY <1>1, <1>2, ElementOfSeq
<1>5. \A j \in 1 .. Len(s) + 1 : p - 1 + j \in 1 .. Len(m) /\ e(p - 1 + j) = z[j]
  <2> TAKE j \in 1 .. Len(s) + 1
  <2>1. p - 1 + j \in 1 .. Len(m) /\ p - 1 + j >= p /\ (p - 1 + j) + 1 - p = j
    BY <1>1
  <2> QED
    BY <1>2, <2>1
<1>6. \A i \in 1 .. Len(m) : i < p \/ i > p + Len(s) => e(i) = m[i]
  BY <1>1, <1>2
<1> HIDE DEF e
<1>7. c \in Seq(Cells) /\ Len(c) = Len(m) /\ \A i \in 1 .. Len(m) : c[i] = e(i)
  BY <1>1, <1>3, <1>4
<1>8. \A j \in 1 .. Len(s) + 1 : c[p - 1 + j] = z[j]
  BY <1>5, <1>7
<1>9. c[p + Len(s)] = Nul
  <2>1. Len(s) + 1 \in 1 .. Len(s) + 1 /\ p - 1 + (Len(s) + 1) = p + Len(s)
    BY <1>1
  <2>2. c[p - 1 + (Len(s) + 1)] = z[Len(s) + 1]
    BY <1>8, <2>1
  <2> QED
    BY <1>2, <2>1, <2>2
<1>10. \A j \in 1 .. Len(s) : c[p - 1 + j] = s[j]
  <2>1. \A j \in 1 .. Len(s) : j \in 1 .. Len(s) + 1
    BY <1>1
  <2> QED
    BY <1>2, <1>8, <2>1
<1> QED
  BY <1>6, <1>7, <1>9, <1>10 DEF c, Copied

\* The j-th cell from p on is the first of that kind.
FirstOf(m, p, j, name) ==
    m[p - 1 + j].kind = name /\ \A i \in 1 .. j - 1 : m[p - 1 + i].kind # name

\* c is m with another cell at a.
Changed(c, m, a, cell) ==
    /\ c \in Seq(Cells) /\ Len(c) = Len(m) /\ c[a] = cell
    /\ \A i \in 1 .. Len(m) : i # a => c[i] = m[i]

\* A number replaces the first placeholder of its name.
LEMMA PatchFacts ==
    ASSUME NEW m \in Seq(Cells), NEW p \in Nat \ {0}, p + T - 1 <= Len(m),
           NEW name \in Kinds, NEW digits \in Seq(0 .. Base - 1), NEW j \in 1 .. T,
           FirstOf(m, p, j, name)
    PROVE  Changed(Patch(m, p, name, digits), m, p - 1 + j, Number(name, digits))
<1> DEFINE Is(i) == m[i].kind = name /\ \A k \in p .. i - 1 : m[k].kind # name
           at == CHOOSE i \in p .. p + T - 1 : Is(i)
           a == p - 1 + j
           new == Number(name, digits)
<1>0. Len(m) \in Nat /\ T \in Nat /\ new \in Cells
  BY LenProperties, CellFacts DEF T
<1>1. a \in p .. p + T - 1 /\ a \in 1 .. Len(m) /\ p - 1 + j = a
  BY <1>0
<1>2. m[a].kind = name /\ \A k \in p .. a - 1 : m[k].kind # name
  <2>1. \A k \in p .. a - 1 : k - (p - 1) \in 1 .. j - 1 /\ p - 1 + (k - (p - 1)) = k
    BY <1>0
  <2> QED
    BY <2>1 DEF FirstOf
<1> HIDE DEF a, new
<1>3. \A i \in p .. p + T - 1 : Is(i) => i = a
  <2> SUFFICES ASSUME NEW i \in p .. p + T - 1, Is(i), i # a PROVE FALSE
    OBVIOUS
  <2>1. CASE i < a
    BY <1>0, <1>1, <1>2, <2>1
  <2>2. CASE a < i
    <3>1. a \in p .. i - 1
      BY <1>0, <1>1, <2>2
    <3> QED
      BY <1>2, <3>1
  <2> QED
    BY <1>0, <1>1, <2>1, <2>2
<1>4. Is(a)
  BY <1>2
<1> HIDE DEF Is
<1>5. at = a
  BY <1>1, <1>3, <1>4
<1>6. Patch(m, p, name, digits) = [m EXCEPT ![at] = new]
  BY TemplateFacts DEF Patch, Is, new
<1> HIDE DEF at
<1>7. LET c == [m EXCEPT ![a] = new] IN
        /\ c \in Seq(Cells) /\ Len(c) = Len(m)
        /\ \A i \in 1 .. Len(m) : c[i] = IF i = a THEN new ELSE m[i]
  BY <1>0, <1>1, ExceptSeq
<1> QED
  BY <1>1, <1>5, <1>6, <1>7 DEF a, new, Changed

\* Values fit in a register.
LEMMA ValueFacts ==
    ASSUME NEW x \in Values
    PROVE  x \in Nat /\ x < Base ^ Digits /\ Base ^ Digits \in Nat \ {0}
<1>1. Base ^ Digits \in Nat \ {0}
  <2>1. CASE Digits = 0
    BY <2>1, PowersAssumption
  <2>2. CASE Digits # 0
    <3>1. Digits \in 1 .. Digits + IdDigits
      BY <2>2, NumbersAssumption
    <3> QED
      BY <3>1, PowersAssumption
  <2> QED
    BY <2>1, <2>2
<1>2. x \in 0 .. Base ^ Digits - 1
  BY NumbersAssumption
<1> QED
  BY <1>1, <1>2

\* The cells of the template, of the closing tags and of the NUL.
LEMMA IndexFacts ==
    ASSUME NEW p \in Nat \ {0}, NEW n \in Nat, p + T + 1 <= n
    PROVE  /\ \A i \in 1 .. T : p - 1 + i \in 1 .. n /\ p - 1 + i < p + T
           /\ p + T \in Nat \ {0} /\ p + T + 1 \in 1 .. n /\ p + T \in 1 .. n /\ p + T - 1 <= n
           /\ \A i \in 1 .. n : i < p \/ i > p + T + 1 =>
                /\ i < p + T \/ i > p + T + 1
                /\ i < p \/ i > p + T
                /\ i < p \/ i > p + T - 1
  BY DEF T

\* The template with other cells for its placeholders.
Filled(x2, x3, x4, x5, x6) == <<Cell("<dict>"), x2, x3, x4, x5, x6, Cell("</dict>")>>

\* From p on, m holds the cells d of a template.
Holds(m, p, d) == \A i \in 1 .. T : m[p - 1 + i] = d[i]

\* m and c differ from p on only, and no further than the template reaches.
Within(c, m, p) == \A i \in 1 .. Len(m) : i < p \/ i > p + T - 1 => c[i] = m[i]

\* The placeholder j of the template d is filled in, which yields e.
Fills(d, e, j, name, digits) ==
    /\ d[j].kind = name /\ \A i \in 1 .. j - 1 : d[i].kind # name
    /\ e[j] = Number(name, digits) /\ \A i \in 1 .. T : i # j => e[i] = d[i]

\* One of the placeholders is filled in.
LEMMA FieldFacts ==
    ASSUME NEW m \in Seq(Cells), NEW p \in Nat \ {0}, p + T - 1 <= Len(m),
           NEW name \in Kinds, NEW digits \in Seq(0 .. Base - 1), NEW j \in 1 .. T,
           NEW d, NEW e, Holds(m, p, d), Fills(d, e, j, name, digits)
    PROVE  LET c == Patch(m, p, name, digits) IN
           /\ c \in Seq(Cells) /\ Len(c) = Len(m)
           /\ Holds(c, p, e) /\ Within(c, m, p)
<1> DEFINE c == Patch(m, p, name, digits)
<1>0. Len(m) \in Nat /\ T = 7
  BY LenProperties DEF T
<1>1. FirstOf(m, p, j, name)
  <2>1. \A i \in 1 .. j - 1 : i \in 1 .. T
    BY <1>0
  <2> QED
    BY <2>1 DEF FirstOf, Holds, Fills
<1>2. Changed(c, m, p - 1 + j, Number(name, digits))
  BY <1>1, PatchFacts
<1> HIDE DEF c
<1>3. ASSUME NEW i \in 1 .. T
      PROVE  c[p - 1 + i] = e[i]
  <2>1. CASE i = j
    BY <1>2, <2>1 DEF Changed, Fills
  <2>2. CASE i # j
    <3>1. p - 1 + i \in 1 .. Len(m) /\ p - 1 + i # p - 1 + j
      BY <1>0, <2>2
    <3>2. c[p - 1 + i] = m[p - 1 + i]
      BY <1>2, <3>1 DEF Changed
    <3> QED
      BY <2>2, <3>2 DEF Holds, Fills
  <2> QED
    BY <2>1, <2>2
<1>4. Within(c, m, p)
  <2>1. \A i \in 1 .. Len(m) : i < p \/ i > p + T - 1 => i # p - 1 + j
    BY <1>0
  <2> QED
    BY <1>2, <2>1 DEF Changed, Within
<1> QED
  BY <1>2, <1>3, <1>4 DEF c, Changed, Holds

\* What kext_insert writes: a dictionary in place of the closing tags, the closing
\* tags behind it, and a NUL.
LEMMA InsertedFacts ==
    ASSUME NEW m \in Seq(Cells), NEW p \in Nat \ {0}, p + T + 1 <= Len(m),
           kext_id \in Nat, NEW info \in Info
    PROVE  LET c == Inserted(m, p, info) IN
           /\ c \in Seq(Cells) /\ Len(c) = Len(m)
           /\ \A j \in 1 .. T : c[p - 1 + j] = Dictionary(kext_id, info)[j]
           /\ c[p + T] = End /\ c[p + T + 1] = Nul
           /\ \A i \in 1 .. Len(m) : i < p \/ i > p + T + 1 => c[i] = m[i]
<1> DEFINE ad == format_hex(Digits, info.address)
           si == format_hex(Digits, info.size)
           km == format_hex(Digits, info.kmodinfo)
           id == format_hex(IdDigits, kext_id)
           m1 == strcpy(m, p, prelink_info_str)
           m2 == strcpy(m1, p + Len(prelink_info_str), <<End>>)
           m3 == Patch(m2, p, "ADDRESS", ad)
           m4 == Patch(m3, p, "SIZE", si)
           m5 == Patch(m4, p, "KMODINFO", km)
           m6 == Patch(m5, p, "NNN0", id)
           m7 == Patch(m6, p, "NNN1", id)
           Others(c) == \A i \in 1 .. Len(m) : i < p \/ i > p + T + 1 => c[i] = m[i]
           Framed(c) == /\ c \in Seq(Cells) /\ Len(c) = Len(m)
                        /\ c[p + T] = End /\ c[p + T + 1] = Nul /\ Others(c)
<1>0. /\ T = 7 /\ Len(m) \in Nat
      /\ ad \in Seq(0 .. Base - 1) /\ si \in Seq(0 .. Base - 1)
      /\ km \in Seq(0 .. Base - 1) /\ id \in Seq(0 .. Base - 1)
  <2>1. info.address \in Nat /\ info.size \in Nat /\ info.kmodinfo \in Nat
    BY ValueFacts DEF Info
  <2> QED
    BY <2>1, DigitFacts, LenProperties DEF T
<1>1. Inserted(m, p, info) = m7
  BY DEF Inserted
<1> HIDE DEF ad, si, km, id
<1>2. /\ "ADDRESS" \in Kinds /\ "SIZE" \in Kinds /\ "KMODINFO" \in Kinds
      /\ "NNN0" \in Kinds /\ "NNN1" \in Kinds /\ "<dict>" \in Kinds
  BY KindsAssumption
<1> DEFINE x2 == Cell("NNN0")
           x3 == Cell("NNN1")
           x4 == Cell("ADDRESS")
           x5 == Cell("SIZE")
           x6 == Cell("KMODINFO")
           y2 == Number("NNN0", id)
           y3 == Number("NNN1", id)
           y4 == Number("ADDRESS", ad)
           y5 == Number("SIZE", si)
           y6 == Number("KMODINFO", km)
<1>3. /\ Cell("<dict>").kind = "<dict>"
      /\ x2.kind = "NNN0" /\ x3.kind = "NNN1" /\ x4.kind = "ADDRESS"
      /\ x5.kind = "SIZE" /\ x6.kind = "KMODINFO"
      /\ y2.kind = "NNN0" /\ y3.kind = "NNN1" /\ y4.kind = "ADDRESS"
      /\ y5.kind = "SIZE" /\ y6.kind = "KMODINFO"
  BY <1>0, <1>2, CellFacts
<1>4. Copied(m1, m, p, prelink_info_str, T)
  <2>1. prelink_info_str \in Seq(Cells) /\ Len(prelink_info_str) = T
    BY TemplateFacts
  <2>2. p + Len(prelink_info_str) <= Len(m)
    BY <1>0, <2>1
  <2>3. Copied(m1, m, p, prelink_info_str, Len(prelink_info_str))
    BY <2>1, <2>2, StrcpyFacts
  <2> QED
    BY <2>1, <2>3
<1> HIDE DEF m1, x2, x3, x4, x5, x6, y2, y3, y4, y5, y6
<1>5. Framed(m2) /\ Holds(m2, p, Filled(x2, x3, x4, x5, x6))
  <2> DEFINE q == p + T
             s == <<End>>
  <2>1. m2 = strcpy(m1, q, s)
    BY TemplateFacts
  <2>2. s \in Seq(Cells) /\ Len(s) = 1 /\ s[1] = End
    <3>1. End \in Cells
      BY CellFacts
    <3> QED
      BY <3>1
  <2>3. q \in Nat \ {0} /\ q + 1 <= Len(m1) /\ q - 1 + 1 = q
    <3>1. Len(m1) = Len(m)
      BY <1>4 DEF Copied
    <3> QED
      BY <1>0, <3>1
  <2> HIDE DEF q, m2, s
  <2>4. Copied(m2, m1, q, s, 1)
    <3>1. m1 \in Seq(Cells) /\ q + Len(s) <= Len(m1)
      BY <1>4, <2>2, <2>3 DEF Copied
    <3>2. Copied(strcpy(m1, q, s), m1, q, s, Len(s))
      BY <2>2, <2>3, <3>1, StrcpyFacts
    <3> QED
      BY <2>1, <2>2, <3>2
  <2>5. ASSUME NEW i \in 1 .. T
        PROVE  m2[p - 1 + i] = prelink_info_str[i]
    <3>1. p - 1 + i \in 1 .. Len(m) /\ p - 1 + i < q
      BY <1>0, IndexFacts, Zenon DEF q
    <3>2. m2[p - 1 + i] = m1[p - 1 + i]
      BY <1>4, <2>4, <3>1 DEF Copied
    <3> QED
      BY <1>4, <3>2 DEF Copied
  <2>6. ASSUME NEW i \in 1 .. Len(m), i < p \/ i > p + T + 1
        PROVE  m2[i] = m[i]
    <3>1. (i < q \/ i > q + 1) /\ (i < p \/ i > p + T)
      BY <1>0, <2>6, IndexFacts, Zenon DEF q
    <3>2. m1[i] = m[i] /\ Len(m1) = Len(m)
      BY <1>4, <3>1 DEF Copied
    <3>3. m2[i] = m1[i]
      BY <2>4, <3>1, <3>2 DEF Copied
    <3> QED
      BY <3>2, <3>3
  <2>7. prelink_info_str = Filled(x2, x3, x4, x5, x6)
    BY DEF prelink_info_str, Filled, x2, x3, x4, x5, x6
  <2>8. m2[p + T] = End /\ m2[p + T + 1] = Nul
    <3>1. m2[q - 1 + 1] = s[1] /\ m2[q + 1] = Nul
      BY <2>4 DEF Copied
    <3> QED
      BY <2>2, <2>3, <3>1 DEF q
  <2>9. m2 \in Seq(Cells) /\ Len(m2) = Len(m)
    BY <1>4, <2>4 DEF Copied
  <2>10. Framed(m2)
    BY <2>6, <2>8, <2>9
  <2>11. Holds(m2, p, Filled(x2, x3, x4, x5, x6))
    BY <2>5, <2>7 DEF Holds
  <2> QED
    BY <2>10, <2>11
<1> HIDE DEF m2
<1>6. ASSUME NEW c, NEW c2, Framed(c), c2 \in Seq(Cells), Len(c2) = Len(c), Within(c2, c, p)
      PROVE  Framed(c2)
  <2>1. p + T \in 1 .. Len(m) /\ p + T + 1 \in 1 .. Len(m) /\ p + T > p + T - 1 /\ p + T + 1 > p + T - 1
    BY <1>0
  <2>2. c2[p + T] = End /\ c2[p + T + 1] = Nul
    BY <1>6, <2>1 DEF Within
  <2>3. Others(c2)
    <3>1. \A i \in 1 .. Len(m) : i > p + T + 1 => i > p + T - 1
      BY <1>0
    <3> QED
      BY <1>6, <3>1 DEF Within
  <2> QED
    BY <1>6, <2>2, <2>3
<1>7. ASSUME NEW c, Framed(c)
      PROVE  c \in Seq(Cells) /\ p + T - 1 <= Len(c)
  BY <1>0, <1>7
<1> HIDE DEF Framed
<1>8. Framed(m3) /\ Holds(m3, p, Filled(x2, x3, y4, x5, x6))
  <2> DEFINE d == Filled(x2, x3, x4, x5, x6)
             e == Filled(x2, x3, y4, x5, x6)
  <2>1. Fills(d, e, 4, "ADDRESS", ad)
    BY <1>0, <1>3 DEF Filled, Fills, y4
  <2>2. m2 \in Seq(Cells) /\ p + T - 1 <= Len(m2) /\ 4 \in 1 .. T
    BY <1>0, <1>5, <1>7
  <2>3. Holds(m2, p, d)
    BY <1>5
  <2> HIDE DEF d, e
  <2>4. /\ m3 \in Seq(Cells) /\ Len(m3) = Len(m2) /\ Holds(m3, p, e)
        /\ Within(m3, m2, p)
    BY <1>0, <1>2, <2>1, <2>2, <2>3, FieldFacts
  <2> QED
    BY <1>5, <1>6, <2>4 DEF e
<1> HIDE DEF m3
<1>9. Framed(m4) /\ Holds(m4, p, Filled(x2, x3, y4, y5, x6))
  <2> DEFINE d == Filled(x2, x3, y4, x5, x6)
             e == Filled(x2, x3, y4, y5, x6)
  <2>1. Fills(d, e, 5, "SIZE", si)
    BY <1>0, <1>3 DEF Filled, Fills, y5
  <2>2. m3 \in Seq(Cells) /\ p + T - 1 <= Len(m3) /\ 5 \in 1 .. T
    BY <1>0, <1>8, <1>7
  <2>3. Holds(m3, p, d)
    BY <1>8
  <2> HIDE DEF d, e
  <2>4. /\ m4 \in Seq(Cells) /\ Len(m4) = Len(m3) /\ Holds(m4, p, e)
        /\ Within(m4, m3, p)
    BY <1>0, <1>2, <2>1, <2>2, <2>3, FieldFacts
  <2> QED
    BY <1>8, <1>6, <2>4 DEF e
<1> HIDE DEF m4
<1>10. Framed(m5) /\ Holds(m5, p, Filled(x2, x3, y4, y5, y6))
  <2> DEFINE d == Filled(x2, x3, y4, y5, x6)
             e == Filled(x2, x3, y4, y5, y6)
  <2>1. Fills(d, e, 6, "KMODINFO", km)
    BY <1>0, <1>3 DEF Filled, Fills, y6
  <2>2. m4 \in Seq(Cells) /\ p + T - 1 <= Len(m4) /\ 6 \in 1 .. T
    BY <1>0, <1>9, <1>7
  <2>3. Holds(m4, p, d)
    BY <1>9
  <2> HIDE DEF d, e
  <2>4. /\ m5 \in Seq(Cells) /\ Len(m5) = Len(m4) /\ Holds(m5, p, e)
        /\ Within(m5, m4, p)
    BY <1>0, <1>2, <2>1, <2>2, <2>3, FieldFacts
  <2> QED
    BY <1>9, <1>6, <2>4 DEF e
<1> HIDE DEF m5
<1>11. Framed(m6) /\ Holds(m6, p, Filled(y2, x3, y4, y5, y6))
  <2> DEFINE d == Filled(x2, x3, y4, y5, y6)
             e == Filled(y2, x3, y4, y5, y6)
  <2>1. Fills(d, e, 2, "NNN0", id)
    BY <1>0, <1>3 DEF Filled, Fills, y2
  <2>2. m5 \in Seq(Cells) /\ p + T - 1 <= Len(m5) /\ 2 \in 1 .. T
    BY <1>0, <1>10, <1>7
  <2>3. Holds(m5, p, d)
    BY <1>10
  <2> HIDE DEF d, e
  <2>4. /\ m6 \in Seq(Cells) /\ Len(m6) = Len(m5) /\ Holds(m6, p, e)
        /\ Within(m6, m5, p)
    BY <1>0, <1>2, <2>1, <2>2, <2>3, FieldFacts
  <2> QED
    BY <1>10, <1>6, <2>4 DEF e
<1> HIDE DEF m6
<1>12. Framed(m7) /\ Holds(m7, p, Filled(y2, y3, y4, y5, y6))
  <2> DEFINE d == Filled(y2, x3, y4, y5, y6)
             e == Filled(y2, y3, y4, y5, y6)
  <2>1. Fills(d, e, 3, "NNN1", id)
    BY <1>0, <1>3 DEF Filled, Fills, y3
  <2>2. m6 \in Seq(Cells) /\ p + T - 1 <= Len(m6) /\ 3 \in 1 .. T
    BY <1>0, <1>11, <1>7
  <2>3. Holds(m6, p, d)
    BY <1>11
  <2> HIDE DEF d, e
  <2>4. /\ m7 \in Seq(Cells) /\ Len(m7) = Len(m6) /\ Holds(m7, p, e)
        /\ Within(m7, m6, p)
    BY <1>0, <1>2, <2>1, <2>2, <2>3, FieldFacts
  <2> QED
    BY <1>11, <1>6, <2>4 DEF e
<1> HIDE DEF m7
<1>13. Filled(y2, y3, y4, y5, y6) = Dictionary(kext_id, info)
  BY DEF Filled, Dictionary, y2, y3, y4, y5, y6, ad, si, km, id
<1> QED
  BY <1>1, <1>12, <1>13 DEF Framed, Holds

-----------------------------------------------------------------------------
(* The invariant.                                                          *)

\* The sizes and positions in a state of the invariant.
LEMMA PlaceNumbers ==
    ASSUME IInv
    PROVE  LET t == Len(sec.text)
               n == Len(loaded)
               e == TextEnd(n)
           IN  /\ t \in Nat \ {0} /\ n \in Nat /\ failed \in Nat /\ MaxInserts \in Nat
               /\ Len(mem) \in Nat /\ DOMAIN mem = 1 .. Len(mem) /\ T = 7
               /\ e \in Nat \ {0} /\ e = t + T * n /\ t <= e
               /\ n <= MaxInserts /\ failed <= MaxInserts
               /\ size \in Nat /\ e <= size /\ size < Len(mem) /\ e + 1 <= Len(mem)
               /\ n + failed < MaxInserts => e + T + 1 <= Len(mem)
               /\ \A i \in 1 .. t : sec.text[i] # Nul
               /\ \A i \in 1 .. Len(mem) : i > t => Whole(sec)[i] # End
               /\ DOMAIN loaded = 1 .. n /\ loaded \in Seq(Info) /\ mem \in Seq(Cells)
<1> DEFINE t == Len(sec.text)
           n == Len(loaded)
           b == Len(sec.behind)
<1>1. /\ t \in Nat \ {0} /\ sec.pad \in Nat /\ b \in Nat /\ MaxInserts \in Nat /\ b > MaxInserts * T
      /\ \A i \in 1 .. t : sec.text[i] # Nul
      /\ Len(Whole(sec)) = t + sec.pad + b
      /\ \A i \in 1 .. Len(Whole(sec)) : i > t => Whole(sec)[i] # End
  BY SectionFacts DEF IInv, CountInv
<1>2. /\ n \in Nat /\ failed \in Nat /\ n + failed <= MaxInserts /\ DOMAIN loaded = 1 .. n
      /\ loaded \in Seq(Info) /\ mem \in Seq(Cells)
      /\ Len(mem) = t + sec.pad + b /\ DOMAIN mem = 1 .. Len(mem)
      /\ size = t + sec.pad + T * n
  BY <1>1, LenProperties DEF IInv, CountInv
<1>3. T = 7 /\ TextEnd(n) = t + T * n
  BY DEF T, TextEnd
<1> HIDE DEF t, n, b
<1>4. /\ t + T * n \in Nat \ {0} /\ t <= t + T * n
      /\ n <= MaxInserts /\ failed <= MaxInserts
      /\ size \in Nat /\ t + T * n <= size /\ size < Len(mem) /\ t + T * n + 1 <= Len(mem)
      /\ n + failed < MaxInserts => t + T * n + T + 1 <= Len(mem)
  <2>1. PICK m : m = Len(mem)
    OBVIOUS
  <2>2. T * n = 7 * n /\ MaxInserts * T = 7 * MaxInserts
    BY <1>1, <1>2, <1>3
  <2>3. /\ t \in Nat \ {0} /\ sec.pad \in Nat /\ b \in Nat /\ n \in Nat /\ failed \in Nat
        /\ MaxInserts \in Nat /\ b > 7 * MaxInserts /\ n + failed <= MaxInserts
        /\ m = t + sec.pad + b /\ size = t + sec.pad + 7 * n
    BY <1>1, <1>2, <2>1, <2>2
  <2>4. n <= MaxInserts /\ failed <= MaxInserts
    BY <2>3
  <2>5. 7 * n \in Nat /\ 7 * n <= 7 * MaxInserts
    BY <2>3, <2>4
  <2>6. t + 7 * n \in Nat \ {0} /\ t <= t + 7 * n /\ size \in Nat /\ t + 7 * n <= size
    BY <2>3, <2>5
  <2>7. size < m /\ t + 7 * n + 1 <= m
    BY <2>3, <2>5
  <2>8. ASSUME n + failed < MaxInserts PROVE t + 7 * n + 7 + 1 <= m
    <3>1. 7 * n + 7 <= 7 * MaxInserts
      BY <2>3, <2>8
    <3> QED
      BY <2>3, <2>5, <3>1
  <2> QED
    BY <1>3, <2>1, <2>2, <2>4, <2>6, <2>7, <2>8
<1>5. \A i \in 1 .. Len(mem) : i > t => Whole(sec)[i] # End
  BY <1>1, <1>2
<1>6. Len(mem) \in Nat
  BY <1>1, <1>2
<1> QED
  BY <1>1, <1>2, <1>3, <1>4, <1>5, <1>6 DEF t, n

\* Behind the closing tags there are none.
LEMMA NoEndBehind ==
    ASSUME IInv, NEW q \in 1 .. Len(mem), q > TextEnd(Len(loaded))
    PROVE  ~IsEnd(mem, q)
<1> DEFINE t == Len(sec.text)
           e == TextEnd(Len(loaded))
<1>1. /\ t \in Nat /\ e \in Nat /\ t <= e /\ Len(mem) \in Nat
      /\ \A i \in 1 .. Len(mem) : i > t => Whole(sec)[i] # End
  BY PlaceNumbers
<1>2. mem[e + 1] = Nul /\ \A i \in e + 2 .. Len(mem) : mem[i] = Whole(sec)[i]
  BY DEF IInv, BehindInv
<1> HIDE DEF t, e
<1>3. q \in Nat /\ q > e
  BY <1>1 DEF e
<1>4. CASE q = e + 1
  BY <1>2, <1>4, CellFacts DEF IsEnd
<1>5. CASE q # e + 1
  <2>1. q \in e + 2 .. Len(mem) /\ q > t
    BY <1>1, <1>3, <1>5
  <2> QED
    BY <1>1, <1>2, <2>1 DEF IsEnd
<1> QED
  BY <1>4, <1>5

\* The search does not start before the closing tags.
LEMMA FirstTryFacts ==
    ASSUME IInv
    PROVE  /\ FirstTry(mem, size) \in Nat /\ FirstTry(mem, size) <= Len(mem)
           /\ FirstTry(mem, size) >= TextEnd(Len(loaded))
<1> DEFINE e == TextEnd(Len(loaded))
           I == {i \in 1 .. size : mem[i] # Nul}
<1>1. /\ e \in Nat \ {0} /\ size \in Nat /\ e <= size /\ size < Len(mem) /\ Len(mem) \in Nat
      /\ Len(sec.text) \in Nat \ {0}
      /\ \A i \in 1 .. Len(sec.text) : sec.text[i] # Nul
  BY PlaceNumbers
<1>2. mem[e] # Nul
  <2>1. mem[e] = sec.text[Len(sec.text)]
    BY DEF IInv, BehindInv, Last
  <2> QED
    BY <1>1, <2>1
<1>3. FirstTry(mem, size) = 1 + IF I # {} THEN Max(I) ELSE 0
  BY DEF FirstTry, SelectLastInSubSeq
<1>4. e \in I /\ I \in SUBSET (0 .. size) /\ I # {}
  BY <1>1, <1>2
<1> HIDE DEF I, e
<1>5. Max(I) \in I /\ \A i \in I : Max(I) >= i
  BY <1>1, <1>4, MaxExists
<1>6. Max(I) \in 0 .. size /\ Max(I) >= e
  BY <1>4, <1>5
<1>7. FirstTry(mem, size) = 1 + Max(I)
  BY <1>3, <1>4
<1> QED
  BY <1>1, <1>6, <1>7 DEF e

\* With closing tags, they are the place to insert at.
LEMMA PlaceIfClosed ==
    ASSUME IInv, Closed
    PROVE  \A p \in DOMAIN mem : IsPlace(mem, size, p) <=> p = TextEnd(Len(loaded))
<1> DEFINE e == TextEnd(Len(loaded))
           f == FirstTry(mem, size)
<1>1. e \in Nat \ {0} /\ e + 1 <= Len(mem) /\ Len(mem) \in Nat /\ DOMAIN mem = 1 .. Len(mem)
  BY PlaceNumbers
<1>2. f \in Nat /\ f <= Len(mem) /\ f >= e
  BY FirstTryFacts
<1>3. IsEnd(mem, e)
  <2>1. mem[e] = End /\ mem[e + 1] = Nul
    BY DEF IInv, BehindInv, Closed
  <2>2. e + 1 \in DOMAIN mem
    BY <1>1
  <2> QED
    BY <2>1, <2>2 DEF IsEnd
<1>4. \A q \in 1 .. Len(mem) : q > e => ~IsEnd(mem, q)
  BY NoEndBehind
<1> HIDE DEF e, f
<1>5. ASSUME NEW p \in DOMAIN mem
      PROVE  IsPlace(mem, size, p) <=> p = e
  <2>1. p \in 1 .. Len(mem) /\ p \in Nat
    BY <1>1
  <2>2. ASSUME IsPlace(mem, size, p) PROVE p = e
    <3>1. p \in 1 .. f /\ IsEnd(mem, p) /\ \A q \in p + 1 .. f : ~IsEnd(mem, q)
      BY <2>2 DEF IsPlace, f
    <3>2. ~(p > e)
      BY <1>4, <2>1, <3>1
    <3>3. ~(p < e)
      <4> SUFFICES ASSUME p < e PROVE FALSE
        OBVIOUS
      <4>1. e \in p + 1 .. f
        BY <1>1, <1>2, <2>1
      <4> QED
        BY <1>3, <3>1, <4>1
    <3> QED
      BY <1>1, <2>1, <3>2, <3>3
  <2>3. ASSUME p = e PROVE IsPlace(mem, size, p)
    <3>1. \A q \in p + 1 .. f : q \in 1 .. Len(mem) /\ q > e
      BY <1>1, <1>2, <2>3
    <3>2. p \in 1 .. f
      BY <1>1, <1>2, <2>3
    <3> QED
      BY <1>3, <1>4, <2>3, <3>1, <3>2 DEF IsPlace, f
  <2> QED
    BY <2>2, <2>3
<1> QED
  BY <1>5 DEF e

\* Without closing tags at the end of the text there is no place: those inside
\* of it are not followed by a NUL.
LEMMA NoPlaceIfOpen ==
    ASSUME IInv, ~Closed
    PROVE  \A p \in DOMAIN mem : ~IsPlace(mem, size, p)
<1> SUFFICES ASSUME NEW p \in DOMAIN mem, IsEnd(mem, p) PROVE FALSE
  BY DEF IsPlace
<1> DEFINE t == Len(sec.text)
<1>1. /\ t \in Nat \ {0} /\ Len(mem) \in Nat /\ DOMAIN mem = 1 .. Len(mem)
      /\ \A i \in 1 .. t : sec.text[i] # Nul
  BY PlaceNumbers
<1>2. TextEnd(Len(loaded)) = t
  <2>1. Len(loaded) = 0
    BY EmptySeq DEF IInv, OutcomeInv
  <2> QED
    BY <1>1, <2>1 DEF TextEnd, T
<1>3. mem[t] = sec.text[t] /\ sec.text[t] # End
  BY <1>2 DEF IInv, BehindInv, Closed, Last
<1>4. \A i \in 1 .. t : mem[i] = sec.text[i]
  BY <1>1, <1>3 DEF IInv, BeforeInv
<1>5. p \in 1 .. Len(mem) /\ ~(p > t)
  BY <1>1, <1>2, NoEndBehind
<1>6. p # t
  BY <1>3 DEF IsEnd
<1> HIDE DEF t
<1>7. p + 1 \in 1 .. t
  BY <1>1, <1>5, <1>6
<1> QED
  BY <1>1, <1>4, <1>7 DEF IsEnd

\* The invariant holds before any load.
LEMMA InitInv == Init => IInv
<1> SUFFICES ASSUME Init PROVE IInv
  OBVIOUS
<1>1. /\ sec \in Sections /\ mem = Whole(sec) /\ size = Len(sec.text) + sec.pad
      /\ kext_id = 0 /\ loaded = <<>> /\ failed = 0
  BY DEF Init
<1>2. /\ Len(sec.text) \in Nat \ {0} /\ sec.pad \in Nat /\ MaxInserts \in Nat
      /\ mem \in Seq(Cells) /\ Len(mem) \in Nat
      /\ \A i \in 1 .. Len(sec.text) : mem[i] = sec.text[i]
      /\ mem[Len(sec.text) + 1] = Nul
  BY <1>1, SectionFacts, LenProperties
<1>3. /\ loaded \in Seq(Info) /\ Len(loaded) = 0 /\ DOMAIN loaded = {}
      /\ TextEnd(Len(loaded)) = Len(sec.text) /\ T * Len(loaded) = 0
  BY <1>1, <1>2, EmptySeq DEF TextEnd, T
<1>4. CountInv
  BY <1>1, <1>2, <1>3 DEF CountInv
<1>5. BeforeInv
  BY <1>2 DEF BeforeInv
<1>6. LoadedInv
  BY <1>3 DEF LoadedInv
<1>7. BehindInv
  BY <1>1, <1>2, <1>3 DEF BehindInv, Last
<1>8. OutcomeInv
  BY <1>1 DEF OutcomeInv
<1> QED
  BY <1>4, <1>5, <1>6, <1>7, <1>8 DEF IInv

\* An insertion preserves it: what is written lies behind the dictionaries that
\* are there and no further than the new end of the text.
LEMMA InsertInv ==
    ASSUME IInv, Closed, NEW info \in Info, Len(loaded) + failed < MaxInserts,
           mem' = Inserted(mem, TextEnd(Len(loaded)), info),
           size' = Grow, kext_id' = kext_id + 1, loaded' = Append(loaded, info),
           failed' = failed, sec' = sec
    PROVE  IInv'
<1>1. PICK n : n = Len(loaded)
  OBVIOUS
<1>2. PICK e : e = TextEnd(n)
  OBVIOUS
<1>3. PICK t : t = Len(sec.text)
  OBVIOUS
<1>4. PICK l : l = Len(mem)
  OBVIOUS
<1>5. /\ t \in Nat \ {0} /\ n \in Nat /\ failed \in Nat /\ MaxInserts \in Nat /\ l \in Nat
      /\ DOMAIN mem = 1 .. l /\ T = 7 /\ e \in Nat \ {0} /\ e = t + T * n /\ t <= e
      /\ e + T + 1 <= l /\ DOMAIN loaded = 1 .. n /\ loaded \in Seq(Info) /\ mem \in Seq(Cells)
      /\ n + failed < MaxInserts
  BY <1>1, <1>2, <1>3, <1>4, PlaceNumbers
<1>6. kext_id = n /\ size = t + sec.pad + T * n /\ sec.pad \in Nat /\ l = Len(Whole(sec))
  BY <1>1, <1>3, <1>4, SectionFacts DEF IInv, CountInv
<1>7. /\ mem' \in Seq(Cells) /\ Len(mem') = l
      /\ \A j \in 1 .. T : mem'[e - 1 + j] = Dictionary(n, info)[j]
      /\ mem'[e + T] = End /\ mem'[e + T + 1] = Nul
      /\ \A i \in 1 .. l : i < e \/ i > e + T + 1 => mem'[i] = mem[i]
  <2>1. mem' = Inserted(mem, e, info)
    BY <1>1, <1>2
  <2>2. mem \in Seq(Cells) /\ e \in Nat \ {0} /\ e + T + 1 <= Len(mem) /\ kext_id \in Nat
    BY <1>4, <1>5, <1>6
  <2> DEFINE c == Inserted(mem, e, info)
  <2>3. /\ c \in Seq(Cells) /\ Len(c) = Len(mem)
        /\ \A j \in 1 .. T : c[e - 1 + j] = Dictionary(kext_id, info)[j]
        /\ c[e + T] = End /\ c[e + T + 1] = Nul
        /\ \A i \in 1 .. Len(mem) : i < e \/ i > e + T + 1 => c[i] = mem[i]
    BY <2>2, InsertedFacts
  <2>4. c = mem'
    BY <2>1
  <2> HIDE DEF c
  <2> QED
    BY <1>4, <1>6, <2>3, <2>4
<1>8. /\ loaded' \in Seq(Info) /\ Len(loaded') = n + 1 /\ DOMAIN loaded' = 1 .. n + 1
      /\ \A k \in 1 .. n : loaded'[k] = loaded[k]
      /\ loaded'[n + 1] = info
  BY <1>1, <1>5, AppendProperties
<1>9. \A k : TextEnd(k)' = t + T * k
  BY <1>3 DEF TextEnd, T
<1>10. e + T = t + T * (n + 1) /\ e + T = TextEnd(n + 1)'
  BY <1>5, <1>9
<1>11. CountInv'
  <2>1. size' = t + sec.pad + T * (n + 1)
    <3>1. size' = size + 7
      BY TemplateFacts DEF Grow
    <3>2. T * n = 7 * n /\ T * (n + 1) = 7 * n + 7
      BY <1>5
    <3>3. 7 * n \in Nat
      BY <1>5
    <3> QED
      BY <1>5, <1>6, <3>1, <3>2, <3>3
  <2>2. n + 1 + failed <= MaxInserts
    BY <1>5
  <2> QED
    BY <1>3, <1>5, <1>6, <1>7, <1>8, <2>1, <2>2 DEF IInv, CountInv
<1>12. BeforeInv'
  <2>1. \A i \in 1 .. t - 1 : i \in 1 .. l /\ i < e
    BY <1>5
  <2>2. \A i \in 1 .. t - 1 : mem[i] = sec.text[i]
    BY <1>3 DEF IInv, BeforeInv
  <2> QED
    BY <1>3, <1>7, <2>1, <2>2 DEF BeforeInv
<1>13. LoadedInv'
  <2> SUFFICES ASSUME NEW k \in 1 .. n + 1, NEW j \in 1 .. T
               PROVE  mem'[(t + T * (k - 1)) - 1 + j] = Dictionary(k - 1, loaded'[k])[j]
    <3>1. LoadedInv' = \A k \in DOMAIN loaded' : \A j \in 1 .. T :
            mem'[TextEnd(k - 1)' - 1 + j] = Dictionary(k - 1, loaded'[k])[j]
      BY DEF LoadedInv
    <3>2. \A k \in 1 .. n + 1 : TextEnd(k - 1)' = t + T * (k - 1)
      BY <1>9
    <3>3. \A k \in 1 .. n + 1 : \A j \in 1 .. T :
            mem'[TextEnd(k - 1)' - 1 + j] = Dictionary(k - 1, loaded'[k])[j]
      BY <3>2
    <3> QED
      BY <1>8, <3>1, <3>3, Zenon
  <2>1. CASE k = n + 1
    <3>1. (t + T * (k - 1)) - 1 + j = e - 1 + j /\ k - 1 = n
      BY <1>5, <2>1
    <3> QED
      BY <1>7, <1>8, <2>1, <3>1
  <2>2. CASE k # n + 1
    <3>1. k \in 1 .. n /\ k - 1 \in Nat /\ j \in Nat /\ j <= 7 /\ j >= 1
      BY <1>5, <2>2
    <3>2. 7 * (k - 1) \in Nat /\ 7 * (k - 1) + 7 <= 7 * n
      BY <1>5, <3>1
    <3>3. T * (k - 1) = 7 * (k - 1) /\ T * n = 7 * n
      BY <1>5, <3>1
    <3>4. (t + T * (k - 1)) - 1 + j \in 1 .. l /\ (t + T * (k - 1)) - 1 + j < e
      BY <1>5, <3>1, <3>2, <3>3
    <3>5. mem[(t + T * (k - 1)) - 1 + j] = Dictionary(k - 1, loaded[k])[j]
      <4>1. \A i \in 1 .. T :
              mem[TextEnd(k - 1) - 1 + i] = Dictionary(k - 1, loaded[k])[i]
        BY <1>5, <3>1 DEF IInv, LoadedInv
      <4>2. TextEnd(k - 1) = t + T * (k - 1)
        BY <1>3 DEF TextEnd
      <4>3. mem[TextEnd(k - 1) - 1 + j] = Dictionary(k - 1, loaded[k])[j]
        BY <4>1
      <4> HIDE DEF TextEnd
      <4> QED
        BY <4>2, <4>3, Zenon
    <3> QED
      BY <1>7, <1>8, <3>1, <3>4, <3>5
  <2> QED
    BY <2>1, <2>2
<1>14. BehindInv'
  <2>1. Last(sec.text) = End
    BY DEF Closed
  <2>2. ASSUME NEW i \in e + T + 2 .. l
        PROVE  mem'[i] = Whole(sec)[i]
    <3>1. i \in 1 .. l /\ i > e + T + 1 /\ i \in e + 2 .. l
      BY <1>5
    <3>2. mem[i] = Whole(sec)[i]
      BY <1>1, <1>2, <1>4, <3>1 DEF IInv, BehindInv
    <3> QED
      BY <1>7, <3>1, <3>2
  <2>3. TextEnd(Len(loaded))' = e + T
    BY <1>3, <1>8, <1>10 DEF TextEnd, T
  <2> QED
    BY <1>7, <2>1, <2>2, <2>3 DEF BehindInv
<1>15. OutcomeInv'
  BY DEF IInv, OutcomeInv, Closed
<1> QED
  BY <1>11, <1>12, <1>13, <1>14, <1>15 DEF IInv

\* Every step preserves it.
LEMMA NextInv ==
    ASSUME IInv, [Next]_vars
    PROVE  IInv'
<1>1. CASE UNCHANGED vars
  BY <1>1 DEF vars, IInv, CountInv, BeforeInv, LoadedInv, BehindInv, OutcomeInv, TextEnd, Closed
<1>2. ASSUME NEW info \in Info, kext_insert(info)
      PROVE  IInv'
  <2>1. Len(loaded) + failed < MaxInserts /\ sec' = sec
    BY <1>2 DEF kext_insert
  <2>2. ASSUME NEW p \in DOMAIN mem, IsPlace(mem, size, p), mem' = Inserted(mem, p, info),
               size' = Grow, kext_id' = kext_id + 1, loaded' = Append(loaded, info),
               failed' = failed
        PROVE  IInv'
    <3>1. Closed
      BY <2>2, NoPlaceIfOpen
    <3>2. p = TextEnd(Len(loaded))
      BY <2>2, <3>1, PlaceIfClosed
    <3>3. mem' = Inserted(mem, TextEnd(Len(loaded)), info)
      BY <2>2, <3>2
    <3> QED
      BY <2>1, <2>2, <3>1, <3>3, InsertInv
  <2>3. ASSUME ~\E p \in DOMAIN mem : IsPlace(mem, size, p), failed' = failed + 1,
               UNCHANGED <<mem, size, kext_id, loaded>>
        PROVE  IInv'
    <3>1. ~Closed
      <4>1. TextEnd(Len(loaded)) \in DOMAIN mem
        <5>1. PICK e : e = TextEnd(Len(loaded))
          OBVIOUS
        <5>2. e \in Nat \ {0} /\ e + 1 <= Len(mem) /\ Len(mem) \in Nat /\ DOMAIN mem = 1 .. Len(mem)
          BY <5>1, PlaceNumbers
        <5> QED
          BY <5>1, <5>2
      <4> QED
        BY <2>3, <4>1, PlaceIfClosed
    <3>2. failed' \in Nat /\ Len(loaded) + failed' <= MaxInserts
      <4>1. PICK n : n = Len(loaded)
        OBVIOUS
      <4>2. n \in Nat /\ failed \in Nat /\ MaxInserts \in Nat /\ n + failed < MaxInserts
        BY <2>1, <4>1, PlaceNumbers
      <4> QED
        BY <2>3, <4>1, <4>2
    <3>3. CountInv'
      BY <2>1, <2>3, <3>2 DEF IInv, CountInv
    <3>4. BeforeInv' /\ LoadedInv' /\ BehindInv'
      BY <2>1, <2>3 DEF IInv, BeforeInv, LoadedInv, BehindInv, TextEnd
    <3>5. OutcomeInv'
      BY <2>1, <2>3, <3>1 DEF IInv, OutcomeInv, Closed
    <3> QED
      BY <3>3, <3>4, <3>5 DEF IInv
  <2> QED
    BY <1>2, <2>2, <2>3 DEF kext_insert
<1> QED
  BY <1>1, <1>2 DEF Next

\* The layout of the text is kept by every sequence of loads.
THEOREM Invariance == Spec => []IInv
<1> QED
  BY InitInv, NextInv, PTL DEF Spec

\* Nothing is ever written behind the memory that kernel and section leave for
\* it, and the section never grows beyond that memory.
THEOREM TypeCorrect == Spec => []TypeOK
<1>1. IInv => TypeOK
  <2> SUFFICES ASSUME IInv PROVE TypeOK
    OBVIOUS
  <2>1. PICK n : n = Len(loaded)
    OBVIOUS
  <2>2. /\ size \in Nat /\ size < Len(mem) /\ Len(mem) \in Nat /\ n \in Nat /\ n <= MaxInserts
        /\ MaxInserts \in Nat /\ failed \in Nat /\ failed <= MaxInserts
        /\ loaded \in Seq(Info) /\ mem \in Seq(Cells)
        /\ TextEnd(n) \in Nat \ {0} /\ TextEnd(n) <= size
    BY <2>1, PlaceNumbers
  <2>3. kext_id = n /\ Len(mem) = Len(Whole(sec))
    BY <2>1 DEF IInv, CountInv
  <2>4. size \in 1 .. Len(mem)
    BY <2>2
  <2> QED
    BY <2>2, <2>3, <2>4 DEF TypeOK
<1> QED
  BY <1>1, Invariance, PTL

\* A load is dropped only when the text had no closing tags to begin with,
\* whatever the padding is and whatever lies behind the section.
THEOREM AlwaysInserts == Spec => []NeverGivesUp
<1>1. IInv => NeverGivesUp
  BY DEF IInv, OutcomeInv, NeverGivesUp
<1> QED
  BY <1>1, Invariance, PTL

-----------------------------------------------------------------------------
(* What XNU parses.                                                        *)

\* What the dictionary of a kernel extension says.
LEMMA DictionaryFacts ==
    ASSUME NEW id \in Nat, NEW info \in Info
    PROVE  LET d == Dictionary(id, info) IN
           /\ \A j \in 1 .. T : d[j] # Nul
           /\ d[1] = Cell("<dict>") /\ d[7] = Cell("</dict>")
           /\ Value(d[2].val) = id % Base ^ IdDigits /\ Value(d[3].val) = id % Base ^ IdDigits
           /\ Value(d[4].val) = info.address
           /\ Value(d[5].val) = info.size
           /\ Value(d[6].val) = info.kmodinfo
<1> DEFINE d == Dictionary(id, info)
<1>1. /\ d[1] = Cell("<dict>")
      /\ d[2] = Number("NNN0", format_hex(IdDigits, id))
      /\ d[3] = Number("NNN1", format_hex(IdDigits, id))
      /\ d[4] = Number("ADDRESS", format_hex(Digits, info.address))
      /\ d[5] = Number("SIZE", format_hex(Digits, info.size))
      /\ d[6] = Number("KMODINFO", format_hex(Digits, info.kmodinfo))
      /\ d[7] = Cell("</dict>")
  BY DEF Dictionary
<1> HIDE DEF d
<1>2. ASSUME NEW j \in 1 .. T
      PROVE  d[j] # Nul
  <2>1. j \in {1, 2, 3, 4, 5, 6, 7}
    BY DEF T
  <2>2. d[j].kind # "NUL"
    BY <1>1, <2>1 DEF Cell, Number
  <2> QED
    BY <2>2 DEF Nul, Cell
<1>3. Digits \in 0 .. Digits + IdDigits /\ IdDigits \in 0 .. Digits + IdDigits
  BY NumbersAssumption
<1>4. info.address \in Values /\ info.size \in Values /\ info.kmodinfo \in Values
  BY DEF Info
<1>5. ASSUME NEW x \in Values
      PROVE  Value(format_hex(Digits, x)) = x
  <2>1. x \in Nat /\ x < Base ^ Digits /\ Base ^ Digits \in Nat \ {0}
    BY ValueFacts
  <2>2. x % Base ^ Digits = x
    <3>1. PICK b : b = Base ^ Digits
      OBVIOUS
    <3>2. b \in Nat \ {0} /\ 0 \in Nat /\ x \in 0 .. b - 1 /\ x = b * 0 + x
      BY <2>1, <3>1
    <3>3. x % b = x
      BY <2>1, <3>2, DivisionUnique
    <3> QED
      BY <3>1, <3>3
  <2> QED
    BY <1>3, <2>1, <2>2, ValueOfDigits
<1>6. Value(format_hex(IdDigits, id)) = id % Base ^ IdDigits
  BY <1>3, ValueOfDigits
<1>7. \A kind, digits : Number(kind, digits).val = digits
  BY DEF Number
<1>8. /\ d[2].val = format_hex(IdDigits, id) /\ d[3].val = format_hex(IdDigits, id)
      /\ d[4].val = format_hex(Digits, info.address)
      /\ d[5].val = format_hex(Digits, info.size)
      /\ d[6].val = format_hex(Digits, info.kmodinfo)
  BY <1>1, <1>7
<1> QED
  BY <1>1, <1>2, <1>4, <1>5, <1>6, <1>8 DEF d

\* Where the cells of a dictionary are.
LEMMA DictionaryPlace ==
    ASSUME IInv, NEW k \in DOMAIN loaded, NEW j \in 1 .. T
    PROVE  LET i == Start(k) + j IN
           /\ i \in 1 .. TextEnd(Len(loaded))
           /\ mem[i] = Dictionary(k - 1, loaded[k])[j]
<1>1. PICK n : n = Len(loaded)
  OBVIOUS
<1>2. PICK t : t = Len(sec.text)
  OBVIOUS
<1>3. /\ t \in Nat \ {0} /\ n \in Nat /\ T = 7 /\ TextEnd(n) = t + T * n /\ DOMAIN loaded = 1 .. n
  BY <1>1, <1>2, PlaceNumbers
<1>4. k \in 1 .. n /\ j \in 1 .. 7 /\ k \in Nat /\ k - 1 \in Nat
  BY <1>3
<1>5. 7 * (k - 1) \in Nat /\ 7 * (k - 1) + 7 <= 7 * n
  BY <1>3, <1>4
<1>6. Start(k) + j = (t + 7 * (k - 1)) - 1 + j
  <2>1. Start(k) = (t - 1) + (k - 1) * 7
    BY <1>2, TemplateFacts DEF Start
  <2>2. (k - 1) * 7 = 7 * (k - 1)
    BY <1>4
  <2> QED
    BY <1>3, <1>4, <1>5, <2>1, <2>2
<1>7. (t + 7 * (k - 1)) - 1 + j \in 1 .. t + 7 * n
  <2>1. PICK a : a = 7 * (k - 1)
    OBVIOUS
  <2>2. PICK b : b = 7 * n
    OBVIOUS
  <2>3. a \in Nat /\ b \in Nat /\ a + 7 <= b
    BY <1>3, <1>5, <2>1, <2>2
  <2>4. (t + a) - 1 + j \in 1 .. t + b
    BY <1>3, <1>4, <2>3
  <2> QED
    BY <2>1, <2>2, <2>4
<1>8. mem[TextEnd(k - 1) - 1 + j] = Dictionary(k - 1, loaded[k])[j]
  BY DEF IInv, LoadedInv
<1>9. TextEnd(k - 1) = t + 7 * (k - 1)
  BY <1>2, <1>3 DEF TextEnd
<1> QED
  BY <1>1, <1>3, <1>6, <1>7, <1>8, <1>9

\* The text has no NUL before its end.
LEMMA NoNulInside ==
    ASSUME IInv, NEW i \in 1 .. TextEnd(Len(loaded))
    PROVE  mem[i] # Nul
<1>1. PICK n : n = Len(loaded)
  OBVIOUS
<1>2. PICK t : t = Len(sec.text)
  OBVIOUS
<1>3. /\ t \in Nat \ {0} /\ n \in Nat /\ T = 7 /\ TextEnd(n) = t + 7 * n /\ DOMAIN loaded = 1 .. n
      /\ \A j \in 1 .. t : sec.text[j] # Nul
      /\ loaded \in Seq(Info)
  BY <1>1, <1>2, PlaceNumbers
<1>4. i \in 1 .. t + 7 * n /\ i \in Nat /\ 7 * n \in Nat
  BY <1>1, <1>3
<1>5. CASE i < t
  <2>1. i \in 1 .. t - 1 /\ i \in 1 .. t
    BY <1>3, <1>4, <1>5
  <2> QED
    BY <1>2, <1>3, <2>1 DEF IInv, BeforeInv
<1>6. CASE i = t + 7 * n
  <2>1. mem[i] = sec.text[t]
    BY <1>1, <1>2, <1>3, <1>6 DEF IInv, BehindInv, Last
  <2> QED
    BY <1>3, <2>1
<1>7. CASE i >= t /\ i < t + 7 * n
  <2>1. PICK x : x = i - t
    OBVIOUS
  <2>2. x \in Nat /\ x < 7 * n /\ i = t + x
    BY <1>3, <1>4, <1>7, <2>1
  <2>3. PICK q : q = x \div 7
    OBVIOUS
  <2>4. PICK r : r = x % 7
    OBVIOUS
  <2>5. q \in Nat /\ r \in 0 .. 6 /\ x = 7 * q + r
    BY <2>2, <2>3, <2>4, Division
  <2>6. q < n /\ q + 1 \in 1 .. n /\ r + 1 \in 1 .. T /\ (q + 1) - 1 = q
    BY <1>3, <2>2, <2>5
  <2>7. mem[TextEnd((q + 1) - 1) - 1 + (r + 1)] = Dictionary((q + 1) - 1, loaded[q + 1])[r + 1]
    BY <1>3, <2>6 DEF IInv, LoadedInv
  <2>8. TextEnd((q + 1) - 1) = t + 7 * q
    BY <1>2, <1>3, <2>6 DEF TextEnd
  <2>9. (t + 7 * q) - 1 + (r + 1) = i
    BY <1>3, <2>2, <2>5
  <2>10. mem[i] = Dictionary(q, loaded[q + 1])[r + 1]
    BY <2>6, <2>7, <2>8, <2>9
  <2>11. loaded[q + 1] \in Info
    BY <1>1, <1>3, <2>6, ElementOfSeq
  <2> QED
    BY <2>5, <2>6, <2>10, <2>11, DictionaryFacts
<1> QED
  BY <1>3, <1>4, <1>5, <1>6, <1>7

\* The text is what lies before the end of the text.
LEMMA TextFacts ==
    ASSUME IInv
    PROVE  /\ Text \in Seq(Cells) /\ Len(Text) = TextEnd(Len(loaded))
           /\ \A i \in 1 .. TextEnd(Len(loaded)) : Text[i] = mem[i]
<1>1. PICK e : e = TextEnd(Len(loaded))
  OBVIOUS
<1> DEFINE I == {i \in 1 .. Len(mem) : mem[i] = Nul}
<1>2. e \in Nat \ {0} /\ e + 1 <= Len(mem) /\ Len(mem) \in Nat /\ mem \in Seq(Cells)
  BY <1>1, PlaceNumbers
<1>3. SelectInSeq(mem, LAMBDA c : c = Nul) = IF I # {} THEN Min(I) ELSE 0
  BY DEF SelectInSeq
<1>4. e + 1 \in I /\ I \in SUBSET Nat /\ I # {}
  <2>1. mem[e + 1] = Nul
    BY <1>1 DEF IInv, BehindInv
  <2> QED
    BY <1>2, <2>1
<1>5. Min(I) \in I /\ Min(I) <= e + 1
  BY <1>4, MinExists
<1>6. ~(Min(I) <= e)
  <2> SUFFICES ASSUME Min(I) <= e PROVE FALSE
    OBVIOUS
  <2>1. PICK i : i = Min(I)
    OBVIOUS
  <2>2. i \in 1 .. e /\ mem[i] = Nul
    BY <1>2, <1>5, <2>1
  <2> QED
    BY <1>1, <2>2, NoNulInside
<1>7. Min(I) - 1 = e
  <2>1. PICK i : i = Min(I)
    OBVIOUS
  <2>2. i \in Nat /\ i <= e + 1 /\ ~(i <= e)
    BY <1>4, <1>5, <1>6, <2>1
  <2> QED
    BY <1>2, <2>1, <2>2
<1>8. Text = SubSeq(mem, 1, e)
  BY <1>3, <1>4, <1>7 DEF Text
<1>9. \A i \in 1 .. e : mem[i] \in Cells
  BY <1>2, ElementOfSeq
<1>10. /\ SubSeq(mem, 1, e) \in Seq(Cells)
       /\ Len(SubSeq(mem, 1, e)) = IF 1 <= e THEN e - 1 + 1 ELSE 0
       /\ \A i \in 1 .. e - 1 + 1 : SubSeq(mem, 1, e)[i] = mem[1 + i - 1]
  BY <1>2, <1>9, SubSeqProperties
<1>11. 1 <= e /\ e - 1 + 1 = e /\ \A i \in 1 .. e : 1 + i - 1 = i
  BY <1>2
<1> QED
  BY <1>1, <1>8, <1>10, <1>11

\* After any sequence of loads XNU parses the dictionaries that were there, then
\* each loaded kernel extension, in order, with the numbers it was loaded with,
\* then the closing tags; the memory behind them is as it was.
THEOREM TextComplete == Spec => []TextHasAll
<1>1. IInv => TextHasAll
  <2> SUFFICES ASSUME IInv PROVE TextHasAll
    OBVIOUS
  <2>1. PICK n : n = Len(loaded)
    OBVIOUS
  <2>2. PICK t : t = Len(sec.text)
    OBVIOUS
  <2>3. PICK e : e = TextEnd(n)
    OBVIOUS
  <2>4. PICK x : x = Text
    OBVIOUS
  <2>5. /\ t \in Nat \ {0} /\ n \in Nat /\ e \in Nat \ {0} /\ T = 7 /\ e = t + T * n /\ t <= e
        /\ DOMAIN loaded = 1 .. n /\ loaded \in Seq(Info)
    BY <2>1, <2>2, <2>3, PlaceNumbers
  <2>6. x \in Seq(Cells) /\ Len(x) = e /\ \A i \in 1 .. e : x[i] = mem[i]
    BY <2>1, <2>3, <2>4, TextFacts
  <2>7. sec.text \in Seq(Cells) /\ \A i \in 1 .. t : sec.text[i] \in Cells
    BY <2>2, SectionFacts DEF IInv, CountInv
  <2>8. Len(x) = t + n * Len(prelink_info_str)
    <3>1. T * n = n * 7
      BY <2>5
    <3> QED
      BY <2>5, <2>6, <3>1, TemplateFacts
  <2>9. SubSeq(x, 1, t - 1) = Front(sec.text)
    <3>1. \A i \in 1 .. t - 1 : i \in 1 .. e /\ i \in 1 .. t /\ 1 + i - 1 = i
      BY <2>5
    <3>2. \A i \in 1 .. t - 1 : x[i] = sec.text[i] /\ x[i] \in Cells
      BY <2>2, <2>6, <2>7, <3>1 DEF IInv, BeforeInv
    <3>3. 1 \in Int /\ t - 1 \in Int /\ t - 1 - 1 + 1 = t - 1
      BY <2>5
    <3>4. /\ SubSeq(x, 1, t - 1) \in Seq(Cells)
          /\ Len(SubSeq(x, 1, t - 1)) = IF 1 <= t - 1 THEN t - 1 - 1 + 1 ELSE 0
          /\ \A i \in 1 .. t - 1 - 1 + 1 : SubSeq(x, 1, t - 1)[i] = x[1 + i - 1]
      BY <3>2, <3>3, SubSeqProperties
    <3>5. /\ SubSeq(sec.text, 1, t - 1) \in Seq(Cells)
          /\ Len(SubSeq(sec.text, 1, t - 1)) = IF 1 <= t - 1 THEN t - 1 - 1 + 1 ELSE 0
          /\ \A i \in 1 .. t - 1 - 1 + 1 : SubSeq(sec.text, 1, t - 1)[i] = sec.text[1 + i - 1]
      BY <2>7, <3>1, <3>3, SubSeqProperties
    <3>6. Len(SubSeq(x, 1, t - 1)) = Len(SubSeq(sec.text, 1, t - 1)) /\ Len(SubSeq(x, 1, t - 1)) = t - 1
      BY <2>5, <3>4, <3>5
    <3>7. \A i \in 1 .. t - 1 : SubSeq(x, 1, t - 1)[i] = SubSeq(sec.text, 1, t - 1)[i]
      BY <3>1, <3>2, <3>3, <3>4, <3>5
    <3>8. SubSeq(x, 1, t - 1) = SubSeq(sec.text, 1, t - 1)
      BY <3>4, <3>5, <3>6, <3>7, SeqEqual
    <3> QED
      BY <2>2, <3>8 DEF Front
  <2>10. Last(x) = Last(sec.text)
    <3>1. x[e] = mem[e]
      BY <2>5, <2>6
    <3>2. mem[e] = Last(sec.text)
      BY <2>1, <2>3 DEF IInv, BehindInv
    <3> QED
      BY <2>6, <3>1, <3>2 DEF Last
  <2>11. ASSUME NEW k \in DOMAIN loaded
         PROVE  /\ x[Start(k) + 1] = Cell("<dict>") /\ x[Start(k) + 7] = Cell("</dict>")
                /\ Value(x[Start(k) + 2].val) = (k - 1) % Base ^ IdDigits
                /\ Value(x[Start(k) + 3].val) = (k - 1) % Base ^ IdDigits
                /\ Value(x[Start(k) + 4].val) = loaded[k].address
                /\ Value(x[Start(k) + 5].val) = loaded[k].size
                /\ Value(x[Start(k) + 6].val) = loaded[k].kmodinfo
    <3>1. k - 1 \in Nat /\ loaded[k] \in Info
      <4>1. k \in 1 .. n
        BY <2>5
      <4> QED
        BY <2>1, <2>5, <4>1, ElementOfSeq
    <3>2. \A j \in 1 .. T : x[Start(k) + j] = Dictionary(k - 1, loaded[k])[j]
      BY <2>1, <2>3, <2>6, DictionaryPlace
    <3>3. 1 \in 1 .. T /\ 2 \in 1 .. T /\ 3 \in 1 .. T /\ 4 \in 1 .. T /\ 5 \in 1 .. T /\ 6 \in 1 .. T /\ 7 \in 1 .. T
      BY <2>5
    <3>4. PICK d : d = Dictionary(k - 1, loaded[k])
      OBVIOUS
    <3>5. /\ d[1] = Cell("<dict>") /\ d[7] = Cell("</dict>")
          /\ Value(d[2].val) = (k - 1) % Base ^ IdDigits /\ Value(d[3].val) = (k - 1) % Base ^ IdDigits
          /\ Value(d[4].val) = loaded[k].address
          /\ Value(d[5].val) = loaded[k].size
          /\ Value(d[6].val) = loaded[k].kmodinfo
      BY <3>1, <3>4, DictionaryFacts
    <3>6. /\ x[Start(k) + 1] = d[1] /\ x[Start(k) + 2] = d[2] /\ x[Start(k) + 3] = d[3]
          /\ x[Start(k) + 4] = d[4] /\ x[Start(k) + 5] = d[5] /\ x[Start(k) + 6] = d[6]
          /\ x[Start(k) + 7] = d[7]
      BY <3>2, <3>3, <3>4
    <3> QED
      BY <3>5, <3>6
  <2>12. ASSUME NEW k \in DOMAIN loaded
         PROVE  /\ Text[Start(k) + 1] = Cell("<dict>") /\ Text[Start(k) + 7] = Cell("</dict>")
                /\ Field(k, 2) = (k - 1) % Base ^ IdDigits /\ Field(k, 3) = Field(k, 2)
                /\ [address |-> Field(k, 4), size |-> Field(k, 5), kmodinfo |-> Field(k, 6)] = loaded[k]
    <3>1. \A i : Field(k, i) = Value(x[Start(k) + i].val)
      BY <2>4 DEF Field
    <3>2. loaded[k] = [address |-> loaded[k].address, size |-> loaded[k].size, kmodinfo |-> loaded[k].kmodinfo]
      <4>1. loaded[k] \in Info
        BY <2>1, <2>5, ElementOfSeq
      <4> QED
        BY <4>1 DEF Info
    <3>3. /\ Field(k, 2) = (k - 1) % Base ^ IdDigits /\ Field(k, 3) = (k - 1) % Base ^ IdDigits
          /\ Field(k, 4) = loaded[k].address /\ Field(k, 5) = loaded[k].size
          /\ Field(k, 6) = loaded[k].kmodinfo
      BY <2>11, <3>1
    <3> QED
      BY <2>4, <2>11, <3>2, <3>3
  <2>13. \A i \in Len(x) + 2 .. Len(mem) : mem[i] = Whole(sec)[i]
    BY <2>1, <2>3, <2>6 DEF IInv, BehindInv
  <2> QED
    BY <2>1, <2>2, <2>4, <2>8, <2>9, <2>10, <2>12, <2>13 DEF TextHasAll
<1> QED
  BY <1>1, Invariance, PTL

=============================================================================
