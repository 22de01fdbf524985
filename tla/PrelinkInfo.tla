----------------------------- MODULE PrelinkInfo -----------------------------
(***************************************************************************)
(* kext_insert of kextload.c: the dictionary of a kernel extension is      *)
(* written into the text of the kernelcache's __PRELINK_INFO.__info        *)
(* section, which XNU parses at boot up to its first NUL.                  *)
(*                                                                         *)
(* A cell of memory is a piece of the text: a dictionary that was there,   *)
(* the closing "</array></dict>", a piece of the template, a number, a NUL *)
(* or something that is no text.  The same closing tags may also occur     *)
(* inside of the text.                                                     *)
(***************************************************************************)
EXTENDS Naturals, Sequences, SequencesExt

CONSTANTS
    Kinds,       \* the kinds of pieces that memory is made of
    Base,        \* 16
    Digits,      \* digits of an address or size: 16
    IdDigits,    \* digits of a bundle name: 4
    Values,      \* 64-bit values
    Sections,    \* the sections kernelcaches may have
    MaxInserts   \* bound on kextload commands

Cells        == [kind : Kinds, val : Seq(0 .. Base - 1)]
Cell(kind)   == [kind |-> kind, val |-> <<>>]
Number(k, d) == [kind |-> k, val |-> d]

Nul == Cell("NUL")
End == Cell("</array></dict>")
Old == Cell("old")

\* A kernel extension as kext_load_info describes it.
Info == [address : Values, size : Values, kmodinfo : Values]

\* A section: its text, the NULs up to its size, and the memory behind it.
Whole(sec) == sec.text \o [i \in 1 .. sec.pad |-> Nul] \o sec.behind

\* prelink_info_str, as far as it is patched.
prelink_info_str ==
    << Cell("<dict>"), Cell("NNN0"), Cell("NNN1"), Cell("ADDRESS"), Cell("SIZE"),
       Cell("KMODINFO"), Cell("</dict>") >>

ASSUME KindsAssumption ==
    {"NUL", "</array></dict>", "<dict>", "NNN0", "NNN1", "ADDRESS", "SIZE", "KMODINFO", "</dict>"}
        \subseteq Kinds
ASSUME NumbersAssumption ==
    /\ Base \in Nat \ {0, 1} /\ Digits \in Nat /\ IdDigits \in Nat
    /\ Values \subseteq 0 .. Base ^ Digits - 1
    /\ MaxInserts \in Nat
\* What powers are, as far as they are used here.
ASSUME PowersAssumption ==
    /\ Base ^ 0 = 1
    /\ \A n \in 1 .. Digits + IdDigits :
        /\ Base ^ n \in Nat \ {0}
        /\ Base ^ n = Base * Base ^ (n - 1)
\* "There is enough space at the end of the __PRELINK_INFO.__info section", the
\* text of a section ends at its first NUL, and no closing tags follow it.
ASSUME SectionsAssumption ==
    /\ Sections \subseteq [text : Seq(Cells), pad : Nat, behind : Seq(Cells)]
    /\ \A sec \in Sections :
        /\ sec.text # <<>> /\ ~Contains(sec.text, Nul)
        /\ Len(sec.behind) > MaxInserts * Len(prelink_info_str)
        /\ sec.pad > 0 \/ Head(sec.behind) = Nul
        /\ ~Contains(sec.behind, End)

VARIABLES
    sec,        \* the section as it was loaded
    mem,        \* memory from the start of the section on
    size,       \* prelink_info_section->size
    kext_id,    \* the id of the next kernel extension
    loaded,     \* history: the kernel extensions that were loaded
    failed      \* history: loads whose insertion was given up

vars == <<sec, mem, size, kext_id, loaded, failed>>

-----------------------------------------------------------------------------
\* Mutant: the digits are not masked.
Mut_format_hex(n, value) == [i \in 1 .. n |-> value \div Base ^ (n - i)]

\* The n lowest digits of a number.
format_hex(n, value) == [i \in 1 .. n |-> (value \div Base ^ (n - i)) % Base]

\* strcmp(p, "</array></dict>") == 0
IsEnd(m, p) == m[p] = End /\ p + 1 \in DOMAIN m /\ m[p + 1] = Nul

\* The search starts behind the last byte of the section that is not a NUL.
FirstTry(m, n) == 1 + SelectLastInSubSeq(m, 1, n, LAMBDA c : c # Nul)

\* The place to insert at: the nearest match, going backwards.
IsPlace(m, n, p) ==
    /\ p \in 1 .. FirstTry(m, n)
    /\ IsEnd(m, p)
    /\ \A q \in p + 1 .. FirstTry(m, n) : ~IsEnd(m, q)

\* Mutant: the terminating NUL is not copied.
Mut_strcpy(m, p, s) ==
    [i \in DOMAIN m |-> IF i >= p /\ i + 1 - p \in DOMAIN s THEN s[i + 1 - p] ELSE m[i]]

\* A string and its NUL are copied to p.
strcpy(m, p, s) ==
    LET z == Append(s, Nul)
    IN  [i \in DOMAIN m |-> IF i >= p /\ i + 1 - p \in DOMAIN z THEN z[i + 1 - p] ELSE m[i]]

\* A number is written over the first placeholder of its name behind p.
Patch(m, p, name, digits) ==
    LET at == CHOOSE i \in p .. p + Len(prelink_info_str) - 1 :
                /\ m[i].kind = name
                /\ \A j \in p .. i - 1 : m[j].kind # name
    IN  [m EXCEPT ![at] = Number(name, digits)]

\* The memory after an insertion at p: the template, the closing tags behind it,
\* then the five fields.
Inserted(m, p, info) ==
    LET m1 == strcpy(m, p, prelink_info_str)
        m2 == strcpy(m1, p + Len(prelink_info_str), <<End>>)
        m3 == Patch(m2, p, "ADDRESS", format_hex(Digits, info.address))
        m4 == Patch(m3, p, "SIZE", format_hex(Digits, info.size))
        m5 == Patch(m4, p, "KMODINFO", format_hex(Digits, info.kmodinfo))
        m6 == Patch(m5, p, "NNN0", format_hex(IdDigits, kext_id))
    IN  Patch(m6, p, "NNN1", format_hex(IdDigits, kext_id))

\* Mutant: the size of the section is not adjusted.
Mut_Grow == size

Grow == size + Len(prelink_info_str)

\* kext_insert.  When the closing tags are not found, the load has still
\* happened and nobody is told.
kext_insert(info) ==
    /\ Len(loaded) + failed < MaxInserts
    /\ \/ \E p \in DOMAIN mem :
            /\ IsPlace(mem, size, p)
            /\ mem' = Inserted(mem, p, info)
            /\ size' = Grow
            /\ kext_id' = kext_id + 1
            /\ loaded' = Append(loaded, info)
            /\ UNCHANGED failed
       \/ /\ ~\E p \in DOMAIN mem : IsPlace(mem, size, p)
          /\ failed' = failed + 1
          /\ UNCHANGED <<mem, size, kext_id, loaded>>
    /\ UNCHANGED sec

Init ==
    /\ sec \in Sections
    /\ mem = Whole(sec)
    /\ size = Len(sec.text) + sec.pad
    /\ kext_id = 0
    /\ loaded = <<>>
    /\ failed = 0

Next == \E info \in Info : kext_insert(info)

Spec == Init /\ [][Next]_vars

-----------------------------------------------------------------------------
(* Properties.                                                             *)

TypeOK ==
    /\ mem \in Seq(Cells) /\ Len(mem) = Len(Whole(sec))
    /\ size \in 1 .. Len(mem)
    /\ kext_id \in 0 .. MaxInserts
    /\ loaded \in Seq(Info)
    /\ failed \in 0 .. MaxInserts

\* The value of a number in the text.
Value(digits) ==
    LET v[n \in 0 .. Len(digits)] ==
            IF n = 0 THEN 0 ELSE v[n - 1] * Base + digits[n]
    IN  v[Len(digits)]

\* What XNU parses: the text up to its first NUL.
Text == SubSeq(mem, 1, SelectInSeq(mem, LAMBDA c : c = Nul) - 1)

\* Where the k-th inserted dictionary is in the text, and what it says.
Start(k)   == Len(sec.text) - 1 + (k - 1) * Len(prelink_info_str)
Field(k, i) == Value(Text[Start(k) + i].val)

Closed == Last(sec.text) = End

\* After any sequence of loads XNU parses the dictionaries that were there, then
\* each loaded kernel extension, in order, with its own address, size, kmod_info
\* and bundle name, then the closing tags; the memory behind them is as it was.
TextHasAll ==
    LET more == Len(loaded) * Len(prelink_info_str) IN
    /\ Len(Text) = Len(sec.text) + more
    /\ SubSeq(Text, 1, Len(sec.text) - 1) = Front(sec.text)
    /\ Last(Text) = Last(sec.text)
    /\ \A k \in DOMAIN loaded :
         /\ Text[Start(k) + 1] = Cell("<dict>") /\ Text[Start(k) + 7] = Cell("</dict>")
         /\ Field(k, 2) = (k - 1) % Base ^ IdDigits /\ Field(k, 3) = Field(k, 2)
         /\ [address |-> Field(k, 4), size |-> Field(k, 5), kmodinfo |-> Field(k, 6)] = loaded[k]
    /\ \A i \in Len(Text) + 2 .. Len(mem) : mem[i] = Whole(sec)[i]

\* An insertion is given up only when the text had no closing tags to begin
\* with: earlier insertions, padding and what lies behind the section never
\* hide them.
NeverGivesUp == failed > 0 => ~Closed

=============================================================================
