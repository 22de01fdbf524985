-------------------------- MODULE SymbolTableProofs --------------------------
(***************************************************************************)
(* Proofs about SymbolTable, for every set of names and every sequence of  *)
(* files that the host can collect in allocations below 4 GiB              *)
(* (HostMemoryAssumption): the generator stays inside of the blob it       *)
(* allocates and no 32-bit field of it is cut, the device accepts a blob   *)
(* that arrived whole and stays inside of the table it allocates (but for  *)
(* the case StoresFit leaves out), and a lookup yields what the files say. *)
(***************************************************************************)
EXTENDS SymbolTable, SequenceTheorems, WellFoundedInduction, TLAPS

Kernelcache == [uuid : Uuids, syms : Seq(Sym)]
Collecting  == {"dir", "lines"}
Bytes       == Char \cup {Null}

\* maxsymcnt bounds every list but the one that is growing.
CountsInv ==
    pc # "crashed" => \A i \in DOMAIN kcs :
        (pc = "lines" => i # kc) => Len(kcs[i].syms) <= maxsymcnt

\* Every symbol's string begins inside of the strings, which are one allocation
\* and end in a terminator.
StringsInv ==
    /\ \A i \in DOMAIN kcs : \A j \in DOMAIN kcs[i].syms :
         kcs[i].syms[j].off < Len(symstr)
    /\ symstr # <<>> => symstr[Len(symstr)] = Null
    /\ Len(symstr) <= HostMemory

\* A file that has been read, or is being read, has its kernelcache.
FilesInv ==
    \A f \in DOMAIN dir :
        dir[f].header /\ (f < file \/ (pc = "lines" /\ f = file))
            => \E i \in DOMAIN kcs : kcs[i].uuid = dir[f].uuid

\* The blob, as far as it is written.
WrittenInv ==
    /\ pc \in Collecting => descs = <<>> /\ arrays = <<>>
    /\ pc \in Collecting \cup {"write"} => count = 0
    /\ pc \notin Collecting \cup {"crashed"} =>
        /\ file > Len(dir)
        /\ Len(arrays) = Len(descs)
        /\ Len(descs) <= Len(kcs)
        /\ HeaderSize + Len(kcs) * DescSize <= offset
        /\ pc # "write" => Len(descs) = Len(kcs)
        /\ \A i \in DOMAIN descs :
            /\ descs[i].uuid = kcs[i].uuid
            /\ descs[i].offset = arrays[i].offset
            /\ arrays[i].syms = kcs[i].syms
            /\ arrays[i].offset + U32 + Len(kcs[i].syms) * SymSize <= offset
            /\ i = Len(descs) =>
                 arrays[i].offset + U32 + Len(kcs[i].syms) * SymSize = offset

\* The kernelcaches that are not written yet have their room in the blob.
Room(n, max) == n * (U32 + max * SymSize)

RoomInv ==
    /\ pc = "write" => offset + Room(Len(kcs) - Len(descs), maxsymcnt) + Len(symstr) <= size
    /\ pc \notin Collecting \cup {"crashed"} => size <= HostMemory
    /\ pc \notin Collecting \cup {"write", "crashed"} => BlobSize <= size

IInv ==
    /\ TypeOK
    /\ CountsInv
    /\ StringsInv
    /\ FilesInv
    /\ WrittenInv
    /\ RoomInv

\* A size that fits is not changed by its width.
LEMMA SmallModulo ==
    ASSUME NEW x \in Nat, NEW y \in Nat, x < y
    PROVE  x % y = x
  OBVIOUS

\* A set of naturals that is not empty has a least element.
LEMMA LeastExists ==
    ASSUME NEW S \in SUBSET Nat, S # {}
    PROVE  Least(S) \in S /\ \A p \in S : Least(S) <= p
<1> DEFINE R == {ss \in Nat \X Nat : ss[1] < ss[2]}
<1>0. IsWellFoundedOn(R, Nat)
  BY NatLessThanWellFounded DEF OpToRel
<1>1. \E o \in S : \A p \in S : ~(<<p, o>> \in R)
  <2> HIDE DEF R
  <2> QED BY <1>0, WFMin
<1>2. PICK o \in S : \A p \in S : ~(<<p, o>> \in R)
  BY <1>1
<1>3. \A p \in S : o <= p
  <2> TAKE p \in S
  <2>1. <<p, o>> \in Nat \X Nat
    OBVIOUS
  <2>2. ~(p < o)
    BY <1>2, <2>1
  <2> QED
    BY <2>2
<1> QED
  BY <1>3 DEF Least

\* A C string ends where the first terminator is.
LEMMA StringIs ==
    ASSUME NEW blob \in Seq(Bytes), NEW o \in Nat, NEW e \in o + 1 .. Len(blob),
           blob[e] = Null, \A i \in o + 1 .. e - 1 : blob[i] # Null
    PROVE  StringAt(blob, o) = SubSeq(blob, o + 1, e - 1)
<1> DEFINE S == {i \in o + 1 .. Len(blob) : blob[i] = Null}
<1>0. Len(blob) \in Nat /\ e \in Nat
  BY LenProperties
<1>1. e \in S /\ S \in SUBSET Nat /\ S # {}
  BY <1>0
<1>2. \A p \in S : e <= p
  BY <1>0
<1>3. Least(S) \in S /\ \A p \in S : Least(S) <= p
  BY <1>1, LeastExists
<1>4. StringAt(blob, o) = SubSeq(blob, o + 1, Least(S) - 1)
  BY DEF StringAt
<1> HIDE DEF S
<1>5. Least(S) = e
  <2>1. Least(S) \in Nat /\ e <= Least(S) /\ Least(S) <= e
    BY <1>1, <1>2, <1>3
  <2> QED
    BY <1>0, <2>1
<1> QED
  BY <1>4, <1>5

\* The string at an offset ends by the first terminator after it.
LEMMA StringEnd ==
    ASSUME NEW blob \in Seq(Bytes), NEW o \in Nat, NEW n \in Nat,
           o < n, n <= Len(blob), blob[n] = Null
    PROVE  \E e \in o + 1 .. n :
             blob[e] = Null /\ \A i \in o + 1 .. e - 1 : blob[i] # Null
<1> DEFINE S == {i \in o + 1 .. n : blob[i] = Null}
<1>1. n \in S /\ S \in SUBSET Nat /\ S # {}
  OBVIOUS
<1>2. Least(S) \in S /\ \A p \in S : Least(S) <= p
  BY <1>1, LeastExists
<1>3. Least(S) \in o + 1 .. n /\ blob[Least(S)] = Null
  BY <1>2
<1>4. \A p \in o + 1 .. n : blob[p] = Null => Least(S) <= p
  BY <1>2
<1> HIDE DEF S
<1> QED
  BY <1>3, <1>4

\* Two blobs that agree up to a terminator hold the same strings before it.
LEMMA StringSame ==
    ASSUME NEW a \in Seq(Bytes), NEW b \in Seq(Bytes), NEW o \in Nat, NEW n \in Nat,
           o < n, n <= Len(a), n <= Len(b), a[n] = Null,
           \A i \in 1 .. n : a[i] = b[i]
    PROVE  StringAt(a, o) = StringAt(b, o)
<1>0. Len(a) \in Nat /\ Len(b) \in Nat
  BY LenProperties
<1>1. PICK e \in o + 1 .. n :
        a[e] = Null /\ \A i \in o + 1 .. e - 1 : a[i] # Null
  BY StringEnd
<1>2. e \in o + 1 .. Len(a) /\ e \in o + 1 .. Len(b) /\ e \in Nat
  BY <1>0
<1>3. b[e] = Null /\ \A i \in o + 1 .. e - 1 : b[i] # Null
  BY <1>1, <1>2
<1>4. StringAt(a, o) = SubSeq(a, o + 1, e - 1)
  BY <1>1, <1>2, StringIs
<1>5. StringAt(b, o) = SubSeq(b, o + 1, e - 1)
  BY <1>2, <1>3, StringIs
<1>6. \A i \in o + 1 .. e - 1 : a[i] \in Bytes /\ b[i] \in Bytes
  <2> TAKE i \in o + 1 .. e - 1
  <2>1. i \in 1 .. Len(a) /\ i \in 1 .. Len(b)
    BY <1>0, <1>2
  <2> QED
    BY <2>1, ElementOfSeq
<1> DEFINE x == SubSeq(a, o + 1, e - 1)
           y == SubSeq(b, o + 1, e - 1)
<1>7. /\ x \in Seq(Bytes) /\ y \in Seq(Bytes) /\ Len(x) = Len(y) /\ Len(x) = e - 1 - o
      /\ \A i \in 1 .. e - 1 - o : x[i] = a[o + i] /\ y[i] = b[o + i]
  <2>1. /\ x \in Seq(Bytes) /\ y \in Seq(Bytes)
        /\ Len(x) = (IF o + 1 <= e - 1 THEN (e - 1) - (o + 1) + 1 ELSE 0)
        /\ Len(y) = (IF o + 1 <= e - 1 THEN (e - 1) - (o + 1) + 1 ELSE 0)
        /\ \A i \in 1 .. (e - 1) - (o + 1) + 1 : x[i] = a[o + 1 + i - 1] /\ y[i] = b[o + 1 + i - 1]
    BY <1>2, <1>6, SubSeqProperties
  <2> HIDE DEF x, y
  <2>2. (e - 1) - (o + 1) + 1 = e - 1 - o
    BY <1>2
  <2>3. \A i \in 1 .. e - 1 - o : o + 1 + i - 1 = o + i
    BY <1>2
  <2> QED
    BY <1>2, <2>1, <2>2, <2>3
<1> HIDE DEF x, y
<1>8. \A i \in 1 .. Len(x) : x[i] = y[i]
  <2> TAKE i \in 1 .. Len(x)
  <2>1. o + i \in 1 .. n
    BY <1>2, <1>7
  <2> QED
    BY <1>7, <2>1
<1>9. x = y
  BY <1>7, <1>8, SeqEqual
<1> QED
  BY <1>4, <1>5, <1>9 DEF x, y

\* A name that was found or stored with its terminator is read back.
LEMMA StringStored ==
    ASSUME NEW blob \in Seq(Bytes), NEW name \in Seq(Char), NEW o \in Nat,
           o + Len(name) + 1 <= Len(blob), blob[o + Len(name) + 1] = Null,
           \A i \in 1 .. Len(name) : blob[o + i] = name[i]
    PROVE  StringAt(blob, o) = name
<1> DEFINE e == o + Len(name) + 1
           x == SubSeq(blob, o + 1, e - 1)
<1>0. Len(blob) \in Nat /\ Len(name) \in Nat
  BY LenProperties
<1>1. e \in o + 1 .. Len(blob) /\ e \in Nat /\ e - 1 = o + Len(name)
  BY <1>0
<1>2. \A i \in o + 1 .. e - 1 : blob[i] # Null /\ blob[i] \in Char
  <2> TAKE i \in o + 1 .. e - 1
  <2>1. i - o \in 1 .. Len(name) /\ o + (i - o) = i
    BY <1>0
  <2>2. blob[i] = name[i - o] /\ name[i - o] \in Char
    BY <2>1, ElementOfSeq
  <2> QED
    BY <2>2, CharAssumption
<1>3. StringAt(blob, o) = x
  BY <1>1, <1>2, StringIs
<1>4. x \in Seq(Char) /\ Len(x) = Len(name) /\ \A i \in 1 .. Len(name) : x[i] = blob[o + i]
  <2>1. /\ x \in Seq(Char) /\ Len(x) = (IF o + 1 <= e - 1 THEN (e - 1) - (o + 1) + 1 ELSE 0)
        /\ \A i \in 1 .. (e - 1) - (o + 1) + 1 : x[i] = blob[o + 1 + i - 1]
    BY <1>0, <1>1, <1>2, SubSeqProperties
  <2> HIDE DEF x
  <2>2. (e - 1) - (o + 1) + 1 = Len(name)
    BY <1>0
  <2>3. \A i \in 1 .. Len(name) : o + 1 + i - 1 = o + i
    BY <1>0
  <2> QED
    BY <1>0, <2>1, <2>2, <2>3
<1> HIDE DEF x
<1>5. x = name
  BY <1>4, SeqEqual
<1> QED
  BY <1>3, <1>5

\* Where the second part of a concatenation is.
LEMMA ConcatSecond ==
    ASSUME NEW S, NEW a \in Seq(S), NEW b \in Seq(S)
    PROVE  \A i \in 1 .. Len(b) : (a \o b)[Len(a) + i] = b[i]
<1> TAKE i \in 1 .. Len(b)
<1>1. Len(a) \in Nat /\ Len(b) \in Nat
  BY LenProperties
<1> DEFINE k == Len(a) + i
<1>2. k \in 1 .. Len(a) + Len(b) /\ ~(k <= Len(a)) /\ k - Len(a) = i
  BY <1>1
<1> HIDE DEF k
<1>3. (a \o b)[k] = b[k - Len(a)]
  BY <1>2, ConcatProperties
<1> QED
  BY <1>2, <1>3 DEF k

\* The bytes are found inside of the blob.
LEMMA OccurrenceInside ==
    ASSUME NEW blob \in Seq(Bytes), NEW bytes \in Seq(Bytes),
           Occurrences(blob, bytes) # {}
    PROVE  LET o == Least(Occurrences(blob, bytes)) IN
           /\ o \in Nat /\ o + Len(bytes) <= Len(blob)
           /\ \A i \in 1 .. Len(bytes) : blob[o + i] = bytes[i]
<1> DEFINE o == Least(Occurrences(blob, bytes))
<1>0. Len(blob) \in Nat /\ Len(bytes) \in Nat
  BY LenProperties
<1>1. Occurrences(blob, bytes) \in SUBSET Nat
  BY <1>0 DEF Occurrences
<1>2. o \in Occurrences(blob, bytes)
  BY <1>1, LeastExists
<1>3. /\ o \in Nat /\ o + Len(bytes) <= Len(blob)
      /\ SubSeq(blob, o + 1, o + Len(bytes)) = bytes
  BY <1>1, <1>2 DEF Occurrences
<1> HIDE DEF o
<1>4. \A i \in 1 .. Len(bytes) : blob[o + i] = bytes[i]
  <2>1. \A i \in o + 1 .. o + Len(bytes) : blob[i] \in Bytes
    BY <1>0, <1>3, ElementOfSeq
  <2>2. \A i \in 1 .. (o + Len(bytes)) - (o + 1) + 1 :
          SubSeq(blob, o + 1, o + Len(bytes))[i] = blob[o + 1 + i - 1]
    BY <1>0, <1>3, <2>1, SubSeqProperties
  <2>3. (o + Len(bytes)) - (o + 1) + 1 = Len(bytes)
    BY <1>0, <1>3
  <2> TAKE i \in 1 .. Len(bytes)
  <2>4. o + 1 + i - 1 = o + i
    BY <1>0, <1>3
  <2> QED
    BY <1>3, <2>2, <2>3, <2>4
<1> QED
  BY <1>3, <1>4 DEF o

\* What the type invariant says of the collected state.
LEMMA CollectedFacts ==
    ASSUME TypeOK
    PROVE  /\ dir \in Seq(File) /\ Len(dir) \in Nat /\ DOMAIN dir = 1 .. Len(dir)
           /\ \A f \in DOMAIN dir : dir[f] \in File
           /\ kcs \in Seq(Kernelcache) /\ Len(kcs) \in Nat /\ DOMAIN kcs = 1 .. Len(kcs)
           /\ \A i \in DOMAIN kcs :
                /\ kcs[i] \in Kernelcache /\ kcs[i].syms \in Seq(Sym)
                /\ Len(kcs[i].syms) \in Nat /\ DOMAIN kcs[i].syms = 1 .. Len(kcs[i].syms)
                /\ \A j \in DOMAIN kcs[i].syms : kcs[i].syms[j].off \in Nat
           /\ symstr \in Seq(Char \cup {Null}) /\ Len(symstr) \in Nat
           /\ file \in Nat
<1>1. /\ dir \in Seq(File) /\ kcs \in Seq(Kernelcache) /\ symstr \in Seq(Char \cup {Null})
      /\ file \in 1 .. Len(dir) + 1
  BY DEF TypeOK, Kernelcache
<1>2. /\ Len(dir) \in Nat /\ DOMAIN dir = 1 .. Len(dir)
      /\ Len(kcs) \in Nat /\ DOMAIN kcs = 1 .. Len(kcs) /\ Len(symstr) \in Nat
  BY <1>1, LenProperties
<1>3. /\ \A f \in DOMAIN dir : dir[f] \in File
      /\ \A i \in DOMAIN kcs : kcs[i] \in Kernelcache
  BY <1>1, <1>2, ElementOfSeq
<1>4. \A i \in DOMAIN kcs : kcs[i].syms \in Seq(Sym)
  BY <1>3 DEF Kernelcache
<1>5. \A i \in DOMAIN kcs :
        /\ Len(kcs[i].syms) \in Nat /\ DOMAIN kcs[i].syms = 1 .. Len(kcs[i].syms)
        /\ \A j \in DOMAIN kcs[i].syms : kcs[i].syms[j] \in Sym
  BY <1>4, LenProperties, ElementOfSeq
<1>6. \A i \in DOMAIN kcs : \A j \in DOMAIN kcs[i].syms : kcs[i].syms[j].off \in Nat
  BY <1>5 DEF Sym
<1> QED
  BY <1>1, <1>2, <1>3, <1>4, <1>5, <1>6

\* Initially the invariant holds.
LEMMA InitInv == Init => IInv
<1> SUFFICES ASSUME Init PROVE IInv
  OBVIOUS
<1>1. TypeOK
  BY DirectoriesAssumption, EmptySeq DEF Init, TypeOK, BlobSize
<1>2. CountsInv /\ StringsInv /\ FilesInv /\ WrittenInv /\ RoomInv
  BY <1>1, HostMemoryAssumption DEF Init, TypeOK, CountsInv, StringsInv, FilesInv, WrittenInv, RoomInv, BlobSize, Collecting
<1> QED
  BY <1>1, <1>2 DEF IInv

\* A kernelcache is added for a new UUID; its list is empty.
LEMMA BeginFileInv ==
    ASSUME IInv, BeginFile
    PROVE  IInv'
<1>0. /\ dir \in Seq(File) /\ file \in DOMAIN dir /\ dir[file] \in File
      /\ kcs \in Seq(Kernelcache) /\ pc = "dir" /\ line \in Nat \ {0}
      /\ DOMAIN kcs = 1 .. Len(kcs) /\ Len(kcs) \in Nat
  BY DEF BeginFile, IInv, TypeOK, Kernelcache
<1>1. CASE ~dir[file].header
  <2>1. /\ file' = file + 1 /\ UNCHANGED <<kcs, kc, line, pc, dir, maxsymcnt, symstr>>
        /\ UNCHANGED <<size, offset, descs, arrays, count, uuid, tables>>
    BY <1>1 DEF BeginFile, blobVars, deviceVars
  <2>2. TypeOK'
    BY <1>0, <2>1 DEF IInv, TypeOK, BlobSize
  <2>3. CountsInv' /\ StringsInv' /\ WrittenInv' /\ RoomInv'
    BY <1>0, <2>1 DEF IInv, CountsInv, StringsInv, WrittenInv, RoomInv, BlobSize, Collecting
  <2>4. FilesInv'
    BY <1>0, <1>1, <2>1 DEF IInv, FilesInv
  <2> QED
    BY <2>2, <2>3, <2>4 DEF IInv
<1>2. CASE dir[file].header
  <2> DEFINE new == [uuid |-> dir[file].uuid, syms |-> <<>>]
  <2>1. /\ line' = 1 /\ pc' = "lines"
        /\ UNCHANGED <<file, dir, maxsymcnt, symstr, size, offset, descs, arrays, count, uuid, tables>>
    BY <1>2 DEF BeginFile, blobVars, deviceVars
  <2>2. \/ \E i \in DOMAIN kcs : kcs[i].uuid = dir[file].uuid /\ kc' = i /\ kcs' = kcs
        \/ kcs' = Append(kcs, new) /\ kc' = Len(kcs) + 1
    BY <1>2 DEF BeginFile
  <2>3. new \in Kernelcache /\ Len(new.syms) = 0
    BY <1>0, EmptySeq DEF Kernelcache, File
  <2> HIDE DEF new
  <2>4. /\ kcs' \in Seq(Kernelcache) /\ DOMAIN kcs' = 1 .. Len(kcs') /\ Len(kcs') \in Nat
        /\ Len(kcs) <= Len(kcs') /\ kc' \in DOMAIN kcs'
        /\ \A i \in DOMAIN kcs : kcs'[i] = kcs[i]
        /\ \A i \in DOMAIN kcs' : i \notin DOMAIN kcs => i = kc' /\ kcs'[i] = new
    <3>1. CASE \E i \in DOMAIN kcs : kcs[i].uuid = dir[file].uuid /\ kc' = i /\ kcs' = kcs
      BY <1>0, <3>1
    <3>2. CASE kcs' = Append(kcs, new) /\ kc' = Len(kcs) + 1
      BY <1>0, <2>3, <3>2, AppendProperties
    <3> QED
      BY <2>2, <3>1, <3>2
  <2>5. kcs'[kc'].uuid = dir[file].uuid
    BY <1>0, <2>2, <2>3 DEF new
  <2>6. TypeOK'
    BY <1>0, <2>1, <2>4 DEF IInv, TypeOK, BlobSize, Kernelcache
  <2>7. CountsInv'
    BY <1>0, <2>1, <2>4 DEF IInv, CountsInv
  <2>8. StringsInv'
    <3>1. \A i \in DOMAIN kcs' : \A j \in DOMAIN kcs'[i].syms : kcs'[i].syms[j].off < Len(symstr')
      <4> SUFFICES ASSUME NEW i \in DOMAIN kcs', NEW j \in DOMAIN kcs'[i].syms
                   PROVE  kcs'[i].syms[j].off < Len(symstr')
        OBVIOUS
      <4>1. CASE i \in DOMAIN kcs
        BY <4>1, <2>1, <2>4 DEF IInv, StringsInv
      <4>2. CASE i \notin DOMAIN kcs
        <5>1. kcs'[i].syms = <<>>
          BY <2>4, <4>2 DEF new
        <5> QED
          BY <5>1
      <4> QED
        BY <4>1, <4>2
    <3> QED
      BY <3>1, <2>1 DEF IInv, StringsInv
  <2>9. FilesInv'
    <3>1. \A i \in DOMAIN kcs : i \in DOMAIN kcs' /\ kcs'[i].uuid = kcs[i].uuid
      BY <1>0, <2>4
    <3> QED
      BY <1>0, <2>1, <2>4, <2>5, <3>1 DEF IInv, FilesInv
  <2>10. WrittenInv' /\ RoomInv'
    BY <1>0, <2>1 DEF IInv, WrittenInv, RoomInv, BlobSize, Collecting
  <2> QED
    BY <2>6, <2>7, <2>8, <2>9, <2>10 DEF IInv
<1> QED
  BY <1>1, <1>2

\* A name is stored, or found in the strings: both ways its symbol points to it,
\* and the strings that were there stay.
LEMMA InsertFacts ==
    ASSUME IInv, InsertSymbol
    PROVE  LET sym  == dir[file].lines[line]
               last == Len(kcs[kc].syms) + 1
               syms == kcs'[kc].syms
           IN  /\ pc = "lines" /\ line' = line + 1
               /\ UNCHANGED <<pc, dir, file, kc, maxsymcnt, size, offset, descs, arrays,
                              count, uuid, tables>>
               /\ sym \in Line /\ sym.ok
               /\ kcs' \in Seq(Kernelcache) /\ DOMAIN kcs' = DOMAIN kcs
               /\ \A i \in DOMAIN kcs : i # kc => kcs'[i] = kcs[i]
               /\ kcs'[kc].uuid = kcs[kc].uuid
               /\ Len(kcs[kc].syms) \in Nat /\ DOMAIN kcs[kc].syms = 1 .. last - 1
               /\ DOMAIN syms = 1 .. last
               /\ \A j \in DOMAIN kcs[kc].syms : syms[j] = kcs[kc].syms[j]
               /\ syms[last].addr = sym.addr
               /\ syms[last].off \in Nat /\ syms[last].off < Len(symstr')
               /\ StringAt(symstr', syms[last].off) = sym.name
               /\ symstr' \in Seq(Bytes) /\ Len(symstr') \in Nat /\ Len(symstr) <= Len(symstr')
               /\ \A i \in 1 .. Len(symstr) : symstr'[i] = symstr[i]
               /\ symstr' # <<>> => symstr'[Len(symstr')] = Null
               /\ Len(symstr') <= HostMemory
<1> DEFINE sym   == dir[file].lines[line]
           cstr  == Append(sym.name, Null)
           found == Occurrences(symstr, cstr)
           off   == IF found # {} THEN Least(found) ELSE Len(symstr)
           entry == [off |-> off % Space32, addr |-> sym.addr]
           list  == Append(kcs[kc].syms, entry)
           upd   == [kcs[kc] EXCEPT !.syms = list]
           len   == Len(sym.name)
<1>0. /\ dir \in Seq(File) /\ file \in DOMAIN dir /\ dir[file] \in File
      /\ kcs \in Seq(Kernelcache) /\ pc = "lines" /\ line \in Nat \ {0}
      /\ DOMAIN kcs = 1 .. Len(kcs) /\ Len(kcs) \in Nat /\ kc \in DOMAIN kcs
      /\ symstr \in Seq(Bytes) /\ Len(symstr) \in Nat
  BY CollectedFacts DEF InsertSymbol, AtSymbol, IInv, TypeOK, Bytes
<1>1. sym \in Line /\ sym.ok
  BY <1>0 DEF InsertSymbol, AtSymbol, File
<1>2. /\ sym.name \in Seq(Char) /\ len \in Nat
      /\ cstr \in Seq(Bytes) /\ Len(cstr) = len + 1 /\ cstr[len + 1] = Null
      /\ \A i \in 1 .. len : cstr[i] = sym.name[i]
  <2>1. sym.name \in Seq(Char)
    BY <1>1, NamesAssumption DEF Line
  <2>2. sym.name \in Seq(Bytes)
    BY <2>1, SeqMonotonic DEF Bytes
  <2> HIDE DEF sym
  <2>3. Null \in Bytes
    BY DEF Bytes
  <2> QED
    BY <2>1, <2>2, <2>3, AppendProperties, LenProperties
<1>3. /\ kcs' = [kcs EXCEPT ![kc] = upd] /\ line' = line + 1
      /\ symstr' = IF found # {} THEN symstr ELSE symstr \o cstr
      /\ Len(symstr') <= HostMemory
      /\ UNCHANGED <<pc, dir, file, kc, maxsymcnt, size, offset, descs, arrays, count, uuid, tables>>
  BY DEF InsertSymbol, Allocatable, blobVars, deviceVars
<1> HIDE DEF cstr, len
<1>4. /\ off \in Nat /\ off + len + 1 <= Len(symstr') /\ symstr' \in Seq(Bytes)
      /\ Len(symstr') \in Nat /\ Len(symstr) <= Len(symstr')
      /\ \A i \in 1 .. Len(symstr) : symstr'[i] = symstr[i]
      /\ \A i \in 1 .. len + 1 : symstr'[off + i] = cstr[i]
      /\ symstr' # <<>> => symstr'[Len(symstr')] = Null
  <2>1. CASE found # {}
    <3>1. off = Least(found) /\ symstr' = symstr
      BY <1>3, <2>1
    <3>2. /\ off \in Nat /\ off + Len(cstr) <= Len(symstr)
          /\ \A i \in 1 .. Len(cstr) : symstr[off + i] = cstr[i]
      BY <1>0, <1>2, <2>1, <3>1, OccurrenceInside
    <3>3. symstr # <<>> => symstr[Len(symstr)] = Null
      BY DEF IInv, StringsInv
    <3> HIDE DEF off, found, sym
    <3> QED
      BY <1>0, <1>2, <3>1, <3>2, <3>3
  <2>2. CASE found = {}
    <3>1. off = Len(symstr) /\ symstr' = symstr \o cstr
      BY <1>3, <2>2
    <3> HIDE DEF off, found
    <3>2. /\ symstr' \in Seq(Bytes) /\ Len(symstr') = Len(symstr) + (len + 1)
          /\ \A i \in 1 .. Len(symstr) + (len + 1) :
               symstr'[i] = IF i <= Len(symstr) THEN symstr[i] ELSE cstr[i - Len(symstr)]
      <4>1. cstr \in Seq(Bytes) /\ symstr \in Seq(Bytes) /\ Len(cstr) = len + 1
        BY <1>0, <1>2
      <4> HIDE DEF sym
      <4>2. /\ symstr \o cstr \in Seq(Bytes) /\ Len(symstr \o cstr) = Len(symstr) + Len(cstr)
            /\ \A i \in 1 .. Len(symstr) + Len(cstr) : (symstr \o cstr)[i] =
                 IF i <= Len(symstr) THEN symstr[i] ELSE cstr[i - Len(symstr)]
        BY <4>1, ConcatProperties
      <4> QED
        BY <3>1, <4>1, <4>2
    <3>3. \A i \in 1 .. len + 1 : symstr'[off + i] = cstr[i]
      <4>1. cstr \in Seq(Bytes) /\ symstr \in Seq(Bytes) /\ Len(cstr) = len + 1
        BY <1>0, <1>2
      <4> HIDE DEF sym
      <4> QED
        BY <3>1, <4>1, ConcatSecond
    <3>4. symstr'[Len(symstr')] = Null
      BY <1>0, <1>2, <3>1, <3>2, <3>3
    <3> QED
      BY <1>0, <1>2, <3>1, <3>2, <3>3, <3>4
  <2> QED
    BY <2>1, <2>2
<1> HIDE DEF off, found
<1>5. StringAt(symstr', off) = sym.name
  <2> HIDE DEF sym
  <2>1. /\ off + len + 1 <= Len(symstr') /\ symstr'[off + len + 1] = Null
        /\ \A i \in 1 .. len : symstr'[off + i] = sym.name[i]
    <3>1. len + 1 \in 1 .. len + 1 /\ off + (len + 1) = off + len + 1
      BY <1>2, <1>4
    <3>2. symstr'[off + (len + 1)] = Null
      BY <1>2, <1>4, <3>1
    <3>3. \A i \in 1 .. len : i \in 1 .. len + 1
      BY <1>2
    <3> QED
      BY <1>2, <1>4, <3>1, <3>2, <3>3
  <2> QED
    BY <1>2, <1>4, <2>1, StringStored DEF len
<1>6. entry \in Sym /\ entry.off = off /\ entry.addr = sym.addr
  <2>1. off < Space32 /\ Space32 \in Nat
    BY <1>2, <1>3, <1>4, HostMemoryAssumption, SpaceAssumption
  <2>2. off % Space32 = off
    BY <1>4, <2>1, SmallModulo
  <2> QED
    BY <1>1, <1>4, <2>2 DEF Sym, Line
<1>7. kcs[kc] \in Kernelcache /\ kcs[kc].syms \in Seq(Sym)
  BY <1>0, CollectedFacts DEF IInv
<1>8. /\ list \in Seq(Sym) /\ Len(list) = Len(kcs[kc].syms) + 1 /\ DOMAIN list = 1 .. Len(list)
      /\ Len(kcs[kc].syms) \in Nat /\ DOMAIN kcs[kc].syms = 1 .. Len(kcs[kc].syms)
      /\ \A j \in DOMAIN kcs[kc].syms : list[j] = kcs[kc].syms[j]
      /\ list[Len(list)] = entry
  <2> HIDE DEF entry
  <2> QED
    BY <1>6, <1>7, AppendProperties, LenProperties
<1> HIDE DEF entry, list
<1>9. upd \in Kernelcache /\ upd.syms = list /\ upd.uuid = kcs[kc].uuid
  BY <1>7, <1>8 DEF Kernelcache
<1> HIDE DEF upd
<1>10. /\ kcs' \in Seq(Kernelcache) /\ Len(kcs') = Len(kcs) /\ DOMAIN kcs' = DOMAIN kcs
       /\ \A i \in DOMAIN kcs : kcs'[i] = IF i = kc THEN upd ELSE kcs[i]
  BY <1>0, <1>3, <1>9, ExceptSeq
<1>11. kcs'[kc].syms = list /\ kcs'[kc].uuid = kcs[kc].uuid
  BY <1>0, <1>9, <1>10
<1>12. /\ DOMAIN list = 1 .. Len(kcs[kc].syms) + 1
       /\ DOMAIN kcs[kc].syms = 1 .. (Len(kcs[kc].syms) + 1) - 1
       /\ list[Len(kcs[kc].syms) + 1] = entry
  BY <1>8
<1>13. off < Len(symstr')
  BY <1>2, <1>4
<1> HIDE DEF sym
<1> QED
  BY <1>0, <1>1, <1>3, <1>4, <1>5, <1>6, <1>8, <1>10, <1>11, <1>12, <1>13 DEF sym

\* A name is stored, or found in the strings: both ways its symbol points inside.
LEMMA InsertSymbolInv ==
    ASSUME IInv, InsertSymbol
    PROVE  IInv'
<1> DEFINE last == Len(kcs[kc].syms) + 1
<1>0. /\ file \in DOMAIN dir /\ line \in Nat \ {0} /\ kc \in DOMAIN kcs /\ Len(symstr) \in Nat
  BY CollectedFacts DEF InsertSymbol, IInv, TypeOK
<1>1. /\ pc = "lines" /\ line' = line + 1
      /\ UNCHANGED <<pc, dir, file, kc, maxsymcnt, size, offset, descs, arrays, count, uuid, tables>>
      /\ kcs' \in Seq(Kernelcache) /\ DOMAIN kcs' = DOMAIN kcs
      /\ \A i \in DOMAIN kcs : i # kc => kcs'[i] = kcs[i]
      /\ kcs'[kc].uuid = kcs[kc].uuid
      /\ Len(kcs[kc].syms) \in Nat /\ DOMAIN kcs[kc].syms = 1 .. last - 1
      /\ DOMAIN kcs'[kc].syms = 1 .. last
      /\ \A j \in DOMAIN kcs[kc].syms : kcs'[kc].syms[j] = kcs[kc].syms[j]
      /\ kcs'[kc].syms[last].off < Len(symstr')
      /\ symstr' \in Seq(Bytes) /\ Len(symstr') \in Nat /\ Len(symstr) <= Len(symstr')
      /\ symstr' # <<>> => symstr'[Len(symstr')] = Null
      /\ Len(symstr') <= HostMemory
  BY InsertFacts
<1>2. TypeOK'
  <2>1. count' = 0 /\ offset' \in Nat /\ BlobSize' \in Nat
    <3>1. count = 0
      BY <1>1 DEF IInv, WrittenInv, Collecting
    <3>2. offset \in Nat
      BY DEF IInv, TypeOK
    <3>3. count' = count /\ offset' = offset /\ Len(symstr') \in Nat
      BY <1>1
    <3> QED
      BY <3>1, <3>2, <3>3 DEF BlobSize
  <2>2. count' \in 0 .. BlobSize'
    BY <2>1
  <2>3. kcs' \in Seq([uuid : Uuids, syms : Seq(Sym)]) /\ symstr' \in Seq(Char \cup {Null})
    BY <1>1 DEF Kernelcache, Bytes
  <2>4. /\ line' \in Nat \ {0} /\ kc' \in DOMAIN kcs' /\ file' \in DOMAIN dir' /\ pc' = pc
        /\ UNCHANGED <<dir, file, maxsymcnt, size, offset, descs, arrays, uuid, tables>>
    BY <1>0, <1>1
  <2> QED
    BY <2>2, <2>3, <2>4 DEF IInv, TypeOK
<1>3. CountsInv'
  BY <1>1 DEF IInv, CountsInv
<1>4. StringsInv'
  <2> SUFFICES ASSUME NEW i \in DOMAIN kcs', NEW j \in DOMAIN kcs'[i].syms
               PROVE  kcs'[i].syms[j].off < Len(symstr')
    BY <1>1 DEF StringsInv
  <2>1. CASE i = kc /\ j = last
    BY <1>1, <2>1
  <2>2. CASE ~(i = kc /\ j = last)
    <3>1. i \in DOMAIN kcs /\ j \in DOMAIN kcs[i].syms /\ kcs'[i].syms[j] = kcs[i].syms[j]
      <4>1. CASE i # kc
        BY <1>1, <4>1
      <4>2. CASE i = kc
        <5>1. j \in 1 .. last - 1
          BY <1>1, <2>2, <4>2
        <5> QED
          BY <1>0, <1>1, <4>2, <5>1
      <4> QED
        BY <4>1, <4>2
    <3>2. kcs[i].syms[j].off < Len(symstr) /\ kcs[i].syms[j].off \in Nat
      BY <3>1, CollectedFacts DEF IInv, StringsInv
    <3> QED
      BY <1>0, <1>1, <3>1, <3>2
  <2> QED
    BY <2>1, <2>2
<1>5. FilesInv'
  <2>1. \A i \in DOMAIN kcs : i \in DOMAIN kcs' /\ kcs'[i].uuid = kcs[i].uuid
    BY <1>1
  <2> QED
    BY <1>1, <2>1 DEF IInv, FilesInv
<1>6. WrittenInv' /\ RoomInv'
  BY <1>1 DEF IInv, WrittenInv, RoomInv, BlobSize, Collecting
<1> QED
  BY <1>2, <1>3, <1>4, <1>5, <1>6 DEF IInv

\* The list that was growing is counted.
LEMMA EndFileInv ==
    ASSUME IInv, EndFile
    PROVE  IInv'
<1>0. /\ pc = "lines" /\ file \in DOMAIN dir /\ file \in Nat /\ DOMAIN dir = 1 .. Len(dir) /\ Len(dir) \in Nat
      /\ kc \in DOMAIN kcs /\ maxsymcnt \in Nat
      /\ \A i \in DOMAIN kcs : Len(kcs[i].syms) \in Nat
  BY CollectedFacts DEF EndFile, IInv, TypeOK
<1>1. /\ maxsymcnt' = IF Len(kcs[kc].syms) > maxsymcnt THEN Len(kcs[kc].syms) ELSE maxsymcnt
      /\ file' = file + 1 /\ pc' = "dir"
      /\ UNCHANGED <<dir, line, kc, kcs, symstr, size, offset, descs, arrays, count, uuid, tables>>
  BY DEF EndFile, blobVars, deviceVars
<1>2. TypeOK'
  <2>1. maxsymcnt' \in Nat /\ file' \in 1 .. Len(dir') + 1
    BY <1>0, <1>1
  <2> QED
    BY <1>0, <1>1, <2>1 DEF IInv, TypeOK, BlobSize
<1>3. CountsInv'
  BY <1>0, <1>1 DEF IInv, CountsInv
<1>4. StringsInv' /\ WrittenInv' /\ RoomInv'
  BY <1>0, <1>1 DEF IInv, StringsInv, WrittenInv, RoomInv, BlobSize, Collecting
<1>5. FilesInv'
  BY <1>0, <1>1 DEF IInv, FilesInv
<1> QED
  BY <1>2, <1>3, <1>4, <1>5 DEF IInv

\* The blob has room for every kernelcache with the longest list.
LEMMA AllocateBlobInv ==
    ASSUME IInv, AllocateBlob
    PROVE  IInv'
<1>0. /\ pc = "dir" /\ file > Len(dir) /\ maxsymcnt \in Nat
      /\ descs = <<>> /\ arrays = <<>> /\ count = 0
      /\ Len(kcs) \in Nat /\ Len(symstr) \in Nat /\ Len(descs) = 0 /\ Len(arrays) = 0
  BY CollectedFacts, EmptySeq DEF AllocateBlob, IInv, TypeOK, WrittenInv, Collecting
<1>1. /\ offset' = HeaderSize + Len(kcs) * DescSize
      /\ size' = offset' + Room(Len(kcs), maxsymcnt) + Len(symstr)
      /\ pc' = "write" /\ size' <= HostMemory
      /\ UNCHANGED <<dir, file, line, kc, kcs, maxsymcnt, symstr, descs, arrays, count, uuid, tables>>
  BY DEF AllocateBlob, Allocatable, collectVars, deviceVars, Room
<1>2. offset' \in Nat /\ size' \in Nat /\ offset' + Len(symstr) \in Nat
  BY <1>0, <1>1 DEF HeaderSize, DescSize, SymSize, U32, Room
<1>3. TypeOK'
  <2>1. count' \in 0 .. BlobSize'
    BY <1>0, <1>1, <1>2 DEF BlobSize
  <2> QED
    BY <1>0, <1>1, <1>2, <2>1 DEF IInv, TypeOK
<1>4. CountsInv' /\ StringsInv' /\ FilesInv'
  BY <1>0, <1>1 DEF IInv, CountsInv, StringsInv, FilesInv
<1>5. WrittenInv'
  BY <1>0, <1>1, <1>2 DEF WrittenInv, Collecting
<1>6. RoomInv'
  <2>1. Len(kcs) - Len(descs) = Len(kcs)
    BY <1>0
  <2> QED
    BY <1>0, <1>1, <1>2, <2>1 DEF RoomInv, BlobSize, Collecting
<1> QED
  BY <1>3, <1>4, <1>5, <1>6 DEF IInv

\* Writing one kernelcache uses up at most the room of one.
LEMMA RoomOfOne ==
    ASSUME NEW n \in Nat, n > 0, NEW max \in Nat, NEW len \in Nat, len <= max
    PROVE  /\ Room(n, max) \in Nat /\ Room(n - 1, max) \in Nat
           /\ U32 + len * SymSize + Room(n - 1, max) <= Room(n, max)
<1> DEFINE x == U32 + max * SymSize
<1>1. x \in Nat /\ U32 + len * SymSize <= x
  BY DEF U32, SymSize
<1>2. Room(n, max) = n * x /\ Room(n - 1, max) = (n - 1) * x
  BY DEF Room
<1> HIDE DEF x
<1>3. n * x = (n - 1) * x + x /\ (n - 1) * x \in Nat
  BY <1>1
<1>4. U32 + len * SymSize \in Nat
  BY DEF U32, SymSize
<1> QED
  BY <1>1, <1>2, <1>3, <1>4

\* Where a symbols array ends.
LEMMA ArrayEnd ==
    ASSUME NEW a \in Nat, NEW len \in Nat
    PROVE  /\ U32 + len * SymSize \in Nat
           /\ a + U32 + len * SymSize \in Nat
           /\ a + U32 + len * SymSize = a + (U32 + len * SymSize)
  BY DEF U32, SymSize

\* What is written, or was uploaded, is a part of an allocation of the host: its
\* offsets are below 2^32, and the device's sum of its parts does not wrap around.
LEMMA BlobBelow ==
    ASSUME IInv, pc \in {"write", "parse"}
    PROVE  /\ BlobSize \in Nat /\ offset <= size /\ BlobSize <= size /\ size <= HostMemory
           /\ 32 + 2 * BlobSize < SizeSpace /\ BlobSize < SizeSpace
           /\ BlobSize < Space32 /\ StringsOffset = offset
<1> DEFINE n == Len(kcs) - Len(descs)
<1>1. /\ n \in Nat /\ maxsymcnt \in Nat /\ Len(symstr) \in Nat /\ offset \in Nat /\ size \in Nat
      /\ size <= HostMemory
  BY CollectedFacts, LenProperties DEF IInv, TypeOK, WrittenInv, RoomInv, Collecting
<1>2. BlobSize \in Nat /\ offset <= BlobSize
  BY <1>1 DEF BlobSize
<1>3. BlobSize <= size
  <2>1. CASE pc = "write"
    <3>1. offset + Room(n, maxsymcnt) + Len(symstr) <= size
      BY <2>1 DEF IInv, RoomInv
    <3> HIDE DEF n
    <3>2. Room(n, maxsymcnt) \in Nat
      BY <1>1 DEF Room, U32, SymSize
    <3> QED
      BY <1>1, <3>1, <3>2 DEF BlobSize
  <2>2. CASE pc = "parse"
    BY <2>2 DEF IInv, RoomInv, Collecting
  <2> QED
    BY <2>1, <2>2
<1> HIDE DEF n
<1>4. /\ offset <= size /\ 32 + 2 * BlobSize < SizeSpace /\ BlobSize < SizeSpace
      /\ BlobSize < Space32 /\ offset < Space32
  BY <1>1, <1>2, <1>3, HostMemoryAssumption, SpaceAssumption
<1>5. StringsOffset = offset
  BY <1>1, <1>4, SmallModulo, SpaceAssumption DEF StringsOffset
<1> QED
  BY <1>1, <1>2, <1>3, <1>4, <1>5

\* The array of a descriptor is the list of its kernelcache.
LEMMA ArrayFacts ==
    ASSUME IInv, pc \in {"write", "parse"}, NEW i \in DOMAIN descs
    PROVE  /\ i \in Nat /\ i \in DOMAIN kcs /\ DOMAIN descs = 1 .. Len(descs) /\ Len(descs) \in Nat
           /\ arrays[i].offset \in Nat /\ Len(kcs[i].syms) \in Nat
           /\ descs[i].offset = arrays[i].offset /\ arrays[i].syms = kcs[i].syms
           /\ arrays[i].offset + U32 + Len(kcs[i].syms) * SymSize <= offset
<1>1. DOMAIN descs = 1 .. Len(descs) /\ Len(descs) \in Nat
  BY LenProperties DEF IInv, TypeOK
<1>2. /\ Len(arrays) = Len(descs) /\ Len(descs) <= Len(kcs)
      /\ descs[i].offset = arrays[i].offset /\ arrays[i].syms = kcs[i].syms
      /\ arrays[i].offset + U32 + Len(kcs[i].syms) * SymSize <= offset
  BY DEF IInv, WrittenInv, Collecting
<1>3. i \in Nat /\ i \in DOMAIN kcs /\ i \in 1 .. Len(arrays)
  BY <1>1, <1>2, CollectedFacts DEF IInv
<1>4. arrays[i] \in [offset : Nat, syms : Seq(Sym)]
  BY <1>3, ElementOfSeq DEF IInv, TypeOK
<1> QED
  BY <1>1, <1>2, <1>3, <1>4, CollectedFacts DEF IInv

\* The next descriptor and its array follow what is written.
LEMMA WriteKernelcacheInv ==
    ASSUME IInv, WriteKernelcache
    PROVE  IInv'
<1> DEFINE k    == Len(descs) + 1
           used == U32 + Len(kcs[k].syms) * SymSize
           desc == [uuid |-> kcs[k].uuid, offset |-> offset % Space32]
           arr  == [offset |-> offset, syms |-> kcs[k].syms]
           Desc == [uuid : Uuids, offset : Nat]
           Arr  == [offset : Nat, syms : Seq(Sym)]
<1>0. /\ pc = "write" /\ offset \in Nat /\ maxsymcnt \in Nat /\ size \in Nat
      /\ descs \in Seq(Desc) /\ arrays \in Seq(Arr) /\ Len(descs) < Len(kcs)
      /\ count = 0 /\ Len(arrays) = Len(descs)
  BY DEF WriteKernelcache, IInv, TypeOK, WrittenInv, Collecting
<1>1. /\ Len(descs) \in Nat /\ DOMAIN descs = 1 .. Len(descs) /\ Len(kcs) \in Nat
      /\ DOMAIN arrays = 1 .. Len(arrays) /\ Len(symstr) \in Nat
  BY <1>0, CollectedFacts, LenProperties DEF IInv
<1>2. k \in DOMAIN kcs
  BY <1>0, <1>1, CollectedFacts DEF IInv
<1>3. kcs[k] \in Kernelcache /\ Len(kcs[k].syms) \in Nat
  BY <1>2, CollectedFacts DEF IInv
<1>4. Len(kcs[k].syms) <= maxsymcnt
  BY <1>0, <1>2 DEF IInv, CountsInv
<1>5. /\ descs' = Append(descs, desc) /\ arrays' = Append(arrays, arr)
      /\ offset' = offset + used
      /\ UNCHANGED <<pc, dir, file, line, kc, kcs, maxsymcnt, symstr, size, count, uuid, tables>>
  <2>1. offset' = offset + U32 + Len(kcs[k].syms) * SymSize
    BY DEF WriteKernelcache
  <2>2. offset' = offset + used
    BY <2>1, <1>0, <1>3, ArrayEnd
  <2> QED
    BY <2>2 DEF WriteKernelcache, collectVars, deviceVars
<1>14. offset % Space32 = offset
  BY <1>0, BlobBelow DEF StringsOffset
<1>6. desc \in Desc /\ arr \in Arr
  BY <1>0, <1>3, <1>14 DEF Kernelcache
<1>7. used \in Nat
  BY <1>3 DEF U32, SymSize
<1>8. /\ desc.uuid = kcs[k].uuid /\ desc.offset = offset
      /\ arr.offset = offset /\ arr.syms = kcs[k].syms
  BY <1>14
<1> HIDE DEF desc, arr, Desc, Arr
<1>9. /\ descs' \in Seq(Desc) /\ Len(descs') = k /\ descs'[k] = desc
      /\ arrays' \in Seq(Arr) /\ Len(arrays') = k /\ arrays'[k] = arr
      /\ \A i \in DOMAIN descs : descs'[i] = descs[i] /\ arrays'[i] = arrays[i]
  BY <1>0, <1>1, <1>5, <1>6, AppendProperties
<1>10. DOMAIN descs' = 1 .. k
  BY <1>9, LenProperties
<1>11. TypeOK'
  <2>1. count' \in 0 .. BlobSize' /\ offset' \in Nat
    BY <1>0, <1>1, <1>5, <1>7 DEF BlobSize
  <2> QED
    BY <1>5, <1>9, <2>1 DEF IInv, TypeOK, Desc, Arr
<1>12. CountsInv' /\ StringsInv' /\ FilesInv'
  BY <1>5 DEF IInv, CountsInv, StringsInv, FilesInv
<1>13. WrittenInv'
  <2>1. /\ file' > Len(dir') /\ Len(arrays') = Len(descs') /\ Len(descs') <= Len(kcs')
        /\ pc' = "write" /\ count' = 0
    BY <1>0, <1>1, <1>5, <1>9 DEF IInv, WrittenInv, Collecting
  <2>2. HeaderSize + Len(kcs') * DescSize <= offset'
    <3>1. HeaderSize + Len(kcs) * DescSize <= offset
      BY <1>0 DEF IInv, WrittenInv, Collecting
    <3> QED
      BY <3>1, <1>0, <1>1, <1>5, <1>7 DEF HeaderSize, DescSize, U32
  <2>3. ASSUME NEW i \in DOMAIN descs'
        PROVE  /\ descs'[i].uuid = kcs'[i].uuid
               /\ descs'[i].offset = arrays'[i].offset
               /\ arrays'[i].syms = kcs'[i].syms
               /\ arrays'[i].offset + U32 + Len(kcs'[i].syms) * SymSize <= offset'
               /\ i = Len(descs') =>
                    arrays'[i].offset + U32 + Len(kcs'[i].syms) * SymSize = offset'
    <3>1. CASE i \in DOMAIN descs
      <4>1. /\ descs[i].uuid = kcs[i].uuid /\ arrays[i].syms = kcs[i].syms
            /\ descs[i].offset = arrays[i].offset
            /\ arrays[i].offset + U32 + Len(kcs[i].syms) * SymSize <= offset
        BY <1>0, <3>1 DEF IInv, WrittenInv, Collecting
      <4>2. arrays[i].offset \in Nat /\ Len(kcs[i].syms) \in Nat
        <5>1. i \in DOMAIN kcs /\ i \in 1 .. Len(arrays)
          BY <1>0, <1>1, <3>1, CollectedFacts DEF IInv
        <5>2. arrays[i] \in Arr
          BY <5>1, <1>0, ElementOfSeq
        <5> QED
          BY <5>1, <5>2, CollectedFacts DEF IInv, Arr
      <4>3. arrays[i].offset + U32 + Len(kcs[i].syms) * SymSize \in Nat
        BY <4>2, ArrayEnd
      <4>4. arrays[i].offset + U32 + Len(kcs[i].syms) * SymSize <= offset'
        BY <4>1, <4>3, <1>0, <1>5, <1>7
      <4>5. i # Len(descs')
        BY <1>1, <1>9, <3>1
      <4> QED
        BY <4>1, <4>4, <4>5, <1>5, <1>9, <3>1
    <3>2. CASE i \notin DOMAIN descs
      <4>1. i = k
        BY <1>1, <1>10, <3>2
      <4>2. /\ arr.offset + U32 + Len(kcs[k].syms) * SymSize <= offset'
            /\ arr.offset + U32 + Len(kcs[k].syms) * SymSize = offset'
        <5>1. offset + U32 + Len(kcs[k].syms) * SymSize = offset'
          BY <1>0, <1>3, <1>5, ArrayEnd
        <5>2. offset' \in Nat
          BY <1>0, <1>5, <1>7
        <5>3. offset' <= offset'
          BY <5>2
        <5> QED
          BY <5>1, <5>3, <1>8
      <4> QED
        BY <4>1, <4>2, <1>5, <1>8, <1>9
    <3> QED
      BY <3>1, <3>2
  <2> QED
    BY <2>1, <2>2, <2>3 DEF WrittenInv, Collecting
<1>15. RoomInv'
  <2> DEFINE n == Len(kcs) - Len(descs)
  <2>1. n \in Nat /\ n > 0 /\ Len(kcs') - Len(descs') = n - 1
    BY <1>0, <1>1, <1>5, <1>9
  <2>2. offset + Room(n, maxsymcnt) + Len(symstr) <= size
    BY <1>0 DEF IInv, RoomInv
  <2> HIDE DEF n
  <2>3. /\ Room(n, maxsymcnt) \in Nat /\ Room(n - 1, maxsymcnt) \in Nat
        /\ used + Room(n - 1, maxsymcnt) <= Room(n, maxsymcnt)
    BY <2>1, <1>0, <1>3, <1>4, RoomOfOne
  <2> HIDE DEF used
  <2>4. offset' + Room(n - 1, maxsymcnt) + Len(symstr) <= size
    BY <2>2, <2>3, <1>0, <1>1, <1>5, <1>7
  <2> QED
    BY <2>1, <2>4, <1>0, <1>5 DEF IInv, RoomInv, BlobSize, Collecting
<1> QED
  BY <1>11, <1>12, <1>13, <1>15 DEF IInv

\* The steps that leave the collected symbols and the blob alone.
LEMMA DeviceInv ==
    ASSUME IInv, Upload \/ LinkTable \/ RefuseTable \/ OutOfMemory \/ SpoilHeap
    PROVE  IInv'
<1> DEFINE Table == [syms : Seq(Sym), strings : Seq(Char \cup {Null})]
<1>0. /\ offset \in Nat /\ Len(symstr) \in Nat /\ BlobSize \in Nat /\ count \in 0 .. BlobSize
      /\ tables \in Seq(Table)
  BY CollectedFacts DEF IInv, TypeOK, BlobSize
<1>1. /\ UNCHANGED <<dir, file, line, kc, kcs, maxsymcnt, symstr, size, offset, descs, arrays, uuid>>
      /\ pc \in {"write", "parse"} /\ pc' \in {"parse"} \cup Outcomes
      /\ pc = "write" => Len(descs) = Len(kcs)
      /\ count' \in 0 .. BlobSize
  BY <1>0 DEF Upload, LinkTable, RefuseTable, OutOfMemory, SpoilHeap, Outcomes, collectVars, blobVars
<1>2. tables' \in Seq(Table)
  <2>1. CASE LinkTable
    <3>1. PICK i \in DOMAIN descs :
            tables' = <<[syms |-> arrays[i].syms, strings |-> SubSeq(symstr, 1, count - offset)]>> \o tables
      BY <2>1 DEF LinkTable
    <3> DEFINE new == [syms |-> arrays[i].syms, strings |-> SubSeq(symstr, 1, count - offset)]
    <3>2. arrays[i].syms \in Seq(Sym)
      <4>1. i \in DOMAIN kcs /\ arrays[i].syms = kcs[i].syms
        <5>1. /\ arrays[i].syms = kcs[i].syms /\ Len(descs) <= Len(kcs) /\ pc \notin Collecting
          BY <2>1 DEF LinkTable, IInv, WrittenInv, Collecting
        <5>2. DOMAIN descs = 1 .. Len(descs) /\ Len(descs) \in Nat
          BY LenProperties DEF IInv, TypeOK
        <5> QED
          BY <5>1, <5>2, CollectedFacts DEF IInv
      <4> QED
        BY <4>1, CollectedFacts DEF IInv
    <3>3. SubSeq(symstr, 1, count - offset) \in Seq(Char \cup {Null})
      <4>1. count - offset \in Int /\ count - offset <= Len(symstr)
        BY <1>0 DEF BlobSize
      <4>2. \A j \in 1 .. count - offset : symstr[j] \in Char \cup {Null}
        BY <1>0, <4>1, CollectedFacts, ElementOfSeq DEF IInv
      <4> QED
        BY <4>1, <4>2, SubSeqProperties
    <3>4. new \in Table
      BY <3>2, <3>3
    <3> HIDE DEF new, Table
    <3>5. <<new>> \in Seq(Table)
      BY <3>4
    <3> QED
      BY <1>0, <3>1, <3>5, ConcatProperties DEF new
  <2>2. CASE ~LinkTable
    BY <1>0, <2>2 DEF Upload, RefuseTable, OutOfMemory, SpoilHeap
  <2> QED
    BY <2>1, <2>2
<1>3. TypeOK'
  <2>1. BlobSize' = BlobSize
    BY <1>1 DEF BlobSize
  <2> QED
    BY <1>1, <1>2, <2>1 DEF IInv, TypeOK, Outcomes
<1>4. CountsInv' /\ StringsInv' /\ FilesInv'
  BY <1>1 DEF IInv, CountsInv, StringsInv, FilesInv, Outcomes
<1>5. WrittenInv'
  BY <1>1 DEF IInv, WrittenInv, Outcomes, Collecting
<1>6. RoomInv'
  <2>1. BlobSize' = BlobSize /\ size' = size
    BY <1>1 DEF BlobSize
  <2>2. CASE pc = "parse"
    BY <1>1, <2>1, <2>2 DEF IInv, RoomInv, Outcomes, Collecting
  <2>3. CASE pc = "write"
    <3>1. offset + Room(0, maxsymcnt) + Len(symstr) <= size
      BY <1>1, <2>3, CollectedFacts DEF IInv, RoomInv
    <3>2. Room(0, maxsymcnt) = 0
      BY DEF IInv, TypeOK, Room, U32, SymSize
    <3>3. BlobSize <= size
      BY <1>0, <3>1, <3>2 DEF BlobSize
    <3> QED
      BY <1>1, <2>1, <2>3, <3>3 DEF IInv, RoomInv, Outcomes, Collecting
  <2> QED
    BY <1>1, <2>2, <2>3
<1> QED
  BY <1>3, <1>4, <1>5, <1>6 DEF IInv

\* The host is gone; what it had collected does not matter any more.
LEMMA HostCrashInv ==
    ASSUME IInv, HostCrash
    PROVE  IInv'
<1>1. /\ pc \in Collecting /\ pc' = "crashed"
      /\ UNCHANGED <<dir, file, line, kc, kcs, maxsymcnt, symstr, size, offset, descs, arrays,
                     count, uuid, tables>>
  BY DEF HostCrash, Collecting, collectVars, blobVars, deviceVars
<1>2. TypeOK'
  BY <1>1 DEF IInv, TypeOK, BlobSize
<1>3. CountsInv' /\ StringsInv' /\ FilesInv' /\ WrittenInv' /\ RoomInv'
  BY <1>1 DEF IInv, CountsInv, StringsInv, FilesInv, WrittenInv, RoomInv, Collecting
<1> QED
  BY <1>2, <1>3 DEF IInv

\* Every step keeps the invariant.
LEMMA NextInv ==
    ASSUME IInv, [Next]_vars
    PROVE  IInv'
<1>1. CASE UNCHANGED vars
  BY <1>1 DEF IInv, TypeOK, CountsInv, StringsInv, FilesInv, WrittenInv, RoomInv, BlobSize,
       vars, collectVars, blobVars, deviceVars
<1>2. CASE Done
  BY <1>1, <1>2 DEF Done
<1> QED
  BY <1>1, <1>2, BeginFileInv, InsertSymbolInv, EndFileInv, AllocateBlobInv,
     WriteKernelcacheInv, HostCrashInv, DeviceInv DEF Next

\* The invariant holds in every reachable state.
THEOREM Invariance == Spec => []IInv
<1> QED
  BY InitInv, NextInv, PTL DEF Spec

\* Every state of generator, parser and lookup is well typed, for every
\* directory of symbol files.
THEOREM TypeCorrect == Spec => []TypeOK
<1>1. IInv => TypeOK
  BY DEF IInv
<1> QED
  BY <1>1, Invariance, PTL

\* kernelcache_symbol_table_generate never writes beyond the blob it malloc'ed,
\* and none of its casts to 32 bits changes an offset or a count, as long as the
\* host has less than 4 GiB for one allocation.
THEOREM GeneratorFits == Spec => []BlobFits
<1>1. IInv => BlobFits
  <2> SUFFICES ASSUME IInv PROVE BlobFits
    OBVIOUS
  <2>1. Len(symstr) < Space32
    BY CollectedFacts, HostMemoryAssumption, SpaceAssumption DEF IInv, StringsInv
  <2>2. ASSUME pc \in {"write", "parse"}
        PROVE  /\ offset <= size /\ BlobSize <= size /\ StringsOffset = offset
               /\ \A i \in DOMAIN descs :
                    descs[i].offset = arrays[i].offset /\ Len(arrays[i].syms) < Space32
    <3>1. /\ offset <= size /\ BlobSize <= size /\ StringsOffset = offset
          /\ BlobSize \in Nat /\ BlobSize < Space32
      BY <2>2, BlobBelow
    <3>2. ASSUME NEW i \in DOMAIN descs
          PROVE  descs[i].offset = arrays[i].offset /\ Len(arrays[i].syms) < Space32
      <4>1. /\ descs[i].offset = arrays[i].offset /\ arrays[i].syms = kcs[i].syms
            /\ arrays[i].offset + U32 + Len(kcs[i].syms) * SymSize <= offset
        BY <2>2, <3>2 DEF IInv, WrittenInv, Collecting
      <4>2. arrays[i].offset \in Nat /\ Len(kcs[i].syms) \in Nat
        BY <2>2, <3>2, ArrayFacts
      <4>3. offset \in Nat /\ offset <= BlobSize
        BY CollectedFacts DEF IInv, TypeOK, BlobSize
      <4>4. Len(kcs[i].syms) <= offset
        BY <4>1, <4>2, <4>3 DEF U32, SymSize
      <4> QED
        BY <3>1, <4>1, <4>2, <4>3, <4>4, SpaceAssumption
    <3> QED
      BY <3>1, <3>2
  <2> QED
    BY <2>1, <2>2 DEF BlobFits
<1> QED
  BY <1>1, Invariance, PTL

\* command_kernelcache_symbols accepts a blob that arrived whole and describes
\* the device's kernelcache, as long as the host built it in allocations below
\* 4 GiB.
THEOREM RoundTrip == Spec => []WholeBlobAccepted
<1>1. IInv => WholeBlobAccepted
  <2> SUFFICES ASSUME IInv, pc = "parse", count = BlobSize, symstr # <<>>,
                      NEW f \in DOMAIN dir, dir[f].header, dir[f].uuid = uuid
               PROVE  \E i \in DOMAIN descs : Accepts(i)
    BY DEF WholeBlobAccepted
  <2>1. /\ offset \in Nat /\ Len(kcs) \in Nat /\ DOMAIN kcs = 1 .. Len(kcs)
        /\ Len(symstr) \in Nat /\ Len(symstr) > 0
        /\ DOMAIN descs = 1 .. Len(descs) /\ Len(descs) = Len(kcs)
        /\ count = offset + Len(symstr) /\ count \in Nat
    BY CollectedFacts, LenProperties, EmptySeq DEF IInv, TypeOK, BlobSize, WrittenInv, Collecting
  <2>2. PICK i \in DOMAIN descs : descs[i].uuid = uuid
    <3>1. f < file
      BY CollectedFacts DEF IInv, WrittenInv, Collecting
    <3>2. PICK i \in DOMAIN kcs : kcs[i].uuid = uuid
      BY <3>1 DEF IInv, FilesInv
    <3> QED
      BY <2>1, <3>2 DEF IInv, WrittenInv, Collecting
  <2> DEFINE S == {j \in DOMAIN descs : descs[j].uuid = uuid}
             m == Least(S)
  <2>3. S \in SUBSET Nat /\ S # {}
    BY <2>1, <2>2
  <2>4. m \in S /\ \A j \in S : m <= j
    BY <2>3, LeastExists
  <2>5. m \in DOMAIN descs /\ Matching(m)
    <3>1. m \in DOMAIN descs /\ descs[m].uuid = uuid
      BY <2>4
    <3>2. \A j \in DOMAIN descs : descs[j].uuid = uuid => m <= j
      BY <2>4
    <3> HIDE DEF m, S
    <3>3. \A j \in 1 .. m - 1 : descs[j].uuid # uuid
      BY <2>1, <3>1, <3>2
    <3> QED
      BY <3>1, <3>3 DEF Matching
  <2> HIDE DEF m, S
  <2>6. /\ arrays[m].syms = kcs[m].syms /\ descs[m].offset = arrays[m].offset
        /\ arrays[m].offset + U32 + Len(kcs[m].syms) * SymSize <= offset
        /\ HeaderSize + Len(kcs) * DescSize <= offset
    BY <2>5 DEF IInv, WrittenInv, Collecting
  <2>7. arrays[m].offset \in Nat /\ Len(kcs[m].syms) \in Nat /\ m \in DOMAIN kcs /\ m \in Nat
    <3>1. m \in DOMAIN kcs /\ m \in 1 .. Len(arrays) /\ m \in Nat
      BY <2>1, <2>5 DEF IInv, WrittenInv, Collecting
    <3>2. arrays[m] \in [offset : Nat, syms : Seq(Sym)]
      BY <3>1, ElementOfSeq DEF IInv, TypeOK
    <3> QED
      BY <3>1, <3>2, CollectedFacts DEF IInv
  <2> DEFINE o == arrays[m].offset
             l == Len(kcs[m].syms)
  <2>8. o \in Nat /\ l \in Nat /\ o + U32 + l * SymSize <= offset
    BY <2>6, <2>7
  <2> HIDE DEF o, l
  <2>9. Found(m)
    <3>1. HeaderSize + m * DescSize <= count
      BY <2>1, <2>5, <2>6, <2>7 DEF HeaderSize, DescSize, U32
    <3>2. o + U32 <= count
      BY <2>1, <2>8 DEF U32, SymSize
    <3> QED
      BY <2>5, <2>6, <3>1, <3>2 DEF Found, Readable, o
  <2>10. StringsSize = Len(symstr)
    <3>1. count - offset = Len(symstr) /\ Len(symstr) < SizeSpace
      <4>1. BlobSize < SizeSpace
        BY BlobBelow
      <4> QED
        BY <2>1, <4>1, SpaceAssumption DEF BlobSize
    <3>2. Len(symstr) % SizeSpace = Len(symstr)
      BY <2>1, <3>1, SpaceAssumption, SmallModulo
    <3>3. StringsOffset = offset
      BY BlobBelow
    <3> QED
      BY <3>1, <3>2, <3>3 DEF StringsSize
  <2>11. StringsOK
    <3>1. count - offset = Len(symstr) /\ offset <= count
      BY <2>1
    <3>2. symstr[Len(symstr)] = Null
      BY DEF IInv, StringsInv
    <3> QED
      BY <2>1, <2>10, <3>1, <3>2, BlobBelow DEF StringsOK, EndsInNull, Readable
  <2>12. Populated(m, Len(arrays[m].syms))
    <3> SUFFICES ASSUME NEW j \in 1 .. l
                 PROVE  /\ o + U32 + j * SymSize <= count
                        /\ kcs[m].syms[j].off + 1 <= StringsSize
      BY <2>6 DEF Populated, Readable, o, l
    <3>1. o + U32 + j * SymSize <= count
      BY <2>1, <2>8 DEF U32, SymSize
    <3>2. j \in DOMAIN kcs[m].syms /\ kcs[m].syms[j].off \in Nat
      BY <2>7, CollectedFacts DEF IInv, l
    <3>3. kcs[m].syms[j].off < Len(symstr)
      BY <2>7, <3>2 DEF IInv, StringsInv
    <3>4. kcs[m].syms[j].off + 1 <= StringsSize
      BY <2>1, <2>10, <3>2, <3>3
    <3> QED
      BY <3>1, <3>4
  <2>13. Readable(StringsOffset + StringsSize)
    BY <2>1, <2>10, BlobBelow DEF Readable
  <2> QED
    BY <2>5, <2>9, <2>11, <2>12, <2>13 DEF Accepts
<1> QED
  BY <1>1, Invariance, PTL

\* As soon as the strings begin inside of the upload, nothing that the device
\* computes about it wraps around.
LEMMA NoWrap ==
    ASSUME IInv, pc = "parse", NEW i \in DOMAIN descs, Readable(StringsOffset)
    PROVE  LET n == Len(arrays[i].syms) IN
           /\ n \in Nat /\ offset \in Nat /\ count \in Nat
           /\ offset <= count /\ StringsSize = count - offset
           /\ MallocSize(i) = TableSize + n * (PointerSize + AddressSize) + StringsSize
<1> DEFINE n == Len(arrays[i].syms)
<1>1. /\ offset \in Nat /\ count \in 0 .. BlobSize /\ offset <= count /\ StringsOffset = offset
  BY BlobBelow DEF IInv, TypeOK, Readable
<1>2. BlobSize \in Nat /\ 32 + 2 * BlobSize < SizeSpace /\ SizeSpace \in Nat
  BY BlobBelow, SpaceAssumption
<1>4. n \in Nat /\ arrays[i].offset \in Nat /\ arrays[i].offset + U32 + n * SymSize <= offset
  BY ArrayFacts
<1>5. n * 12 <= offset
  BY <1>1, <1>4 DEF U32, SymSize
<1> HIDE DEF n
<1>6. StringsSize = count - offset
  <2>1. count - offset \in Nat /\ count - offset < SizeSpace
    BY <1>1, <1>2
  <2> QED
    BY <1>1, <1>2, <2>1, SmallModulo DEF StringsSize
<1>7. 32 + n * (8 + 8) + (count - offset) \in Nat /\ 32 + n * (8 + 8) + (count - offset) < SizeSpace
  BY <1>1, <1>2, <1>4, <1>5
<1>8. (32 + n * (8 + 8) + (count - offset)) % SizeSpace = 32 + n * (8 + 8) + (count - offset)
  BY <1>2, <1>7, SmallModulo
<1>9. MallocSize(i) = TableSize + n * (PointerSize + AddressSize) + StringsSize
  BY <1>6, <1>8 DEF MallocSize, TableSize, PointerSize, AddressSize, n
<1> QED
  BY <1>1, <1>4, <1>6, <1>9 DEF n

\* A sum of a negative number and a natural, taken in size_t, is the natural that
\* is left when it is one.
LEMMA WrappedSum ==
    ASSUME NEW a \in Nat, NEW d \in Nat, NEW s \in Nat, 0 < d, d <= a, a < s
    PROVE  (a + ((0 - d) % s)) % s = a - d
<1>1. (0 - d) % s = s - d
  OBVIOUS
<1>2. a + (s - d) = (a - d) + s /\ a - d \in Nat /\ a - d < s
  OBVIOUS
<1>3. ((a - d) + s) % s = a - d
  BY <1>2
<1> QED
  BY <1>1, <1>2, <1>3

\* The last kernelcache of the blob: what an upload with its symbol count lacks of
\* the symbols is less than the symbols and addresses of the table take.
LEMMA FieldsFitLast ==
    ASSUME IInv, pc = "parse", NEW i \in DOMAIN descs, i = Len(descs), Found(i),
           ~Readable(StringsOffset)
    PROVE  FieldsFit(i)
<1> DEFINE n == Len(arrays[i].syms)
           d == offset - count
<1>1. /\ offset \in Nat /\ count \in Nat /\ count < offset /\ StringsOffset = offset
  BY BlobBelow DEF IInv, TypeOK, Readable
<1>2. /\ n \in Nat /\ arrays[i].offset \in Nat /\ arrays[i].offset + U32 + n * SymSize = offset
      /\ descs[i].offset = arrays[i].offset
  BY ArrayFacts DEF IInv, WrittenInv, Collecting
<1>3. arrays[i].offset + U32 <= count
  BY <1>2 DEF Found, Readable
<1>4. d \in Nat /\ 0 < d /\ d <= n * 12 /\ n * 12 <= offset
  <2>1. PICK o \in Nat : o = arrays[i].offset
    BY <1>2
  <2>2. o + 4 + n * 12 = offset /\ o + 4 <= count
    BY <1>2, <1>3, <2>1 DEF U32, SymSize
  <2> HIDE DEF n
  <2> QED
    BY <1>1, <1>2, <2>2
<1>5. BlobSize \in Nat /\ 32 + 2 * BlobSize < SizeSpace /\ SizeSpace \in Nat /\ offset <= BlobSize
  BY <1>1, BlobBelow, SpaceAssumption, CollectedFacts DEF IInv, BlobSize
<1>6. count - StringsOffset = 0 - d
  BY <1>1
<1>7. StringsSize = (0 - d) % SizeSpace
  BY <1>6 DEF StringsSize
<1> HIDE DEF n, d
<1> DEFINE a == 32 + n * (8 + 8)
<1>8. a \in Nat /\ d <= a /\ a < SizeSpace /\ 32 <= a - d
  BY <1>1, <1>2, <1>4, <1>5
<1>9. MallocSize(i) = (a + StringsSize) % SizeSpace
  BY DEF MallocSize, TableSize, PointerSize, AddressSize, n
<1> HIDE DEF a
<1>10. MallocSize(i) = a - d
  BY <1>4, <1>5, <1>7, <1>8, <1>9, WrappedSum
<1> QED
  BY <1>8, <1>10 DEF FieldsFit, TableSize

\* command_kernelcache_symbols stores inside of the table it malloc'ed once the
\* strings begin inside of the upload, and before that for the last kernelcache of
\* the blob, however short the upload is.
THEOREM StoresStayInside == Spec => []StoresFit
<1>1. IInv => StoresFit
  <2> SUFFICES ASSUME IInv, pc = "parse", NEW i \in DOMAIN descs, Found(i)
               PROVE  LET n == Len(arrays[i].syms) IN
                      /\ i = Len(descs) \/ Readable(StringsOffset) => FieldsFit(i)
                      /\ Readable(StringsOffset) =>
                          /\ \A k \in 1 .. n :
                               TableSize + n * PointerSize + k * AddressSize <= MallocSize(i)
                          /\ TableSize + n * (PointerSize + AddressSize) + StringsSize <= MallocSize(i)
    BY DEF StoresFit, StringsOK, Accepts
  <2> DEFINE n == Len(arrays[i].syms)
  <2>1. CASE Readable(StringsOffset)
    <3>1. /\ n \in Nat /\ offset \in Nat /\ count \in Nat /\ offset <= count
          /\ StringsSize = count - offset
          /\ MallocSize(i) = TableSize + n * (PointerSize + AddressSize) + StringsSize
      BY <2>1, NoWrap
    <3>2. StringsSize \in Nat
      BY <3>1
    <3> HIDE DEF n
    <3>3. \A k \in 1 .. n :
            TableSize + n * PointerSize + k * AddressSize <= MallocSize(i)
      BY <3>1, <3>2 DEF TableSize, PointerSize, AddressSize
    <3>4. TableSize + n * (PointerSize + AddressSize) + StringsSize <= MallocSize(i)
      BY <3>1, <3>2 DEF TableSize, PointerSize, AddressSize
    <3>5. FieldsFit(i)
      BY <3>1, <3>2 DEF FieldsFit, TableSize, PointerSize, AddressSize
    <3> QED
      BY <3>3, <3>4, <3>5 DEF n
  <2>2. CASE ~Readable(StringsOffset)
    BY <2>2, FieldsFitLast
  <2> QED
    BY <2>1, <2>2
<1> QED
  BY <1>1, Invariance, PTL

-----------------------------------------------------------------------------
(* What a lookup finds.                                                    *)

\* Line l of file f defines the name for the kernelcache u.
Defines(u, name, f, l) ==
    /\ dir[f].header /\ dir[f].uuid = u
    /\ dir[f].lines[l].name = name
    /\ \A k \in 1 .. l : dir[f].lines[k].ok

\* Line l of file f is behind the host.
Read(f, l) == f < file \/ (f = file /\ pc = "lines" /\ l < line)

NotAfter(f, l, g, m) == f < g \/ (f = g /\ l <= m)

\* The first definition so far.
First(u, name, f, l) ==
    /\ f \in DOMAIN dir /\ l \in DOMAIN dir[f].lines
    /\ Defines(u, name, f, l) /\ Read(f, l)
    /\ \A g \in DOMAIN dir : \A m \in DOMAIN dir[g].lines :
        Defines(u, name, g, m) /\ Read(g, m) => NotAfter(f, l, g, m)

Undefined(u, name) ==
    \A g \in DOMAIN dir : \A m \in DOMAIN dir[g].lines :
        ~(Defines(u, name, g, m) /\ Read(g, m))

\* The k-th symbol of the kernelcache i has this name.
Named(i, k, name) == StringAt(symstr, kcs[i].syms[k].off) = name

\* The first symbol of that name.
Leading(i, k, name) ==
    /\ k \in DOMAIN kcs[i].syms
    /\ Named(i, k, name)
    /\ \A j \in 1 .. k - 1 : ~Named(i, j, name)

Unnamed(u, name) ==
    \A i \in DOMAIN kcs : kcs[i].uuid = u =>
        \A k \in DOMAIN kcs[i].syms : ~Named(i, k, name)

\* The first symbol of a name has the address of its first definition.
Matched(u, name, i, k, f, l) ==
    /\ kcs[i].uuid = u
    /\ Leading(i, k, name)
    /\ First(u, name, f, l)
    /\ kcs[i].syms[k].addr = dir[f].lines[l].addr

Agrees(u, name) ==
    \/ Unnamed(u, name) /\ Undefined(u, name)
    \/ \E i \in DOMAIN kcs, f \in DOMAIN dir :
        \E k \in DOMAIN kcs[i].syms, l \in DOMAIN dir[f].lines :
            Matched(u, name, i, k, f, l)

\* What is collected so far is what a lookup in the lines read so far yields.
MatchInv == \A u \in Uuids, name \in Names : Agrees(u, name)

\* There is one kernelcache per UUID.
UniqueInv ==
    \A i, j \in DOMAIN kcs : kcs[i].uuid = kcs[j].uuid => i = j

\* The lines above the one that is being read all parsed.
LineInv ==
    pc = "lines" =>
        /\ dir[file].header
        /\ kcs[kc].uuid = dir[file].uuid
        /\ line - 1 <= Len(dir[file].lines)
        /\ \A k \in 1 .. line - 1 : dir[file].lines[k].ok

\* The one table holds the symbols of the device's kernelcache, and as many of
\* the strings as they need.
Linked(i, n) ==
    /\ kcs[i].uuid = uuid
    /\ tables = <<[syms |-> kcs[i].syms, strings |-> SubSeq(symstr, 1, n)]>>
    /\ symstr[n] = Null
    /\ \A k \in DOMAIN kcs[i].syms : kcs[i].syms[k].off < n

TableInv ==
    IF pc = "linked"
    THEN \E i \in DOMAIN kcs, n \in 1 .. Len(symstr) : Linked(i, n)
    ELSE tables = <<>>

LookupInv ==
    /\ IInv
    /\ pc # "crashed" => MatchInv
    /\ UniqueInv
    /\ LineInv
    /\ TableInv

\* What the type invariant says of the lines.
LEMMA LineFacts ==
    ASSUME TypeOK, NEW f \in DOMAIN dir
    PROVE  /\ f \in Nat /\ dir[f].uuid \in Uuids /\ dir[f].lines \in Seq(Line)
           /\ Len(dir[f].lines) \in Nat /\ DOMAIN dir[f].lines = 1 .. Len(dir[f].lines)
           /\ file \in Nat /\ line \in Nat
<1>1. dir[f] \in File /\ f \in Nat /\ file \in Nat
  BY CollectedFacts
<1>2. dir[f].lines \in Seq(Line) /\ dir[f].uuid \in Uuids
  BY <1>1 DEF File
<1> QED
  BY <1>1, <1>2, LenProperties DEF TypeOK

\* A step that reads no symbol: kernelcaches may be added, without symbols, and
\* no definition gets behind the host.
LEMMA NothingRead ==
    ASSUME MatchInv, dir' = dir, symstr' = symstr,
           \A i \in DOMAIN kcs : i \in DOMAIN kcs' /\ kcs'[i] = kcs[i],
           \A i \in DOMAIN kcs' : i \notin DOMAIN kcs => DOMAIN kcs'[i].syms = {},
           \A u \in Uuids, name \in Names : \A f \in DOMAIN dir : \A l \in DOMAIN dir[f].lines :
             Defines(u, name, f, l) => (Read(f, l)' <=> Read(f, l))
    PROVE  MatchInv'
<1> SUFFICES ASSUME NEW u \in Uuids, NEW name \in Names
             PROVE  Agrees(u, name)'
  BY DEF MatchInv
<1>0. \A f, l : Defines(u, name, f, l)' <=> Defines(u, name, f, l)
  BY DEF Defines
<1>1. CASE Unnamed(u, name) /\ Undefined(u, name)
  <2>1. Unnamed(u, name)'
    BY <1>1 DEF Unnamed, Named
  <2>2. Undefined(u, name)'
    BY <1>0, <1>1 DEF Undefined
  <2> QED
    BY <2>1, <2>2 DEF Agrees
<1>2. ASSUME NEW i \in DOMAIN kcs, NEW f \in DOMAIN dir,
             NEW k \in DOMAIN kcs[i].syms, NEW l \in DOMAIN dir[f].lines,
             Matched(u, name, i, k, f, l)
      PROVE  Agrees(u, name)'
  <2>1. i \in DOMAIN kcs' /\ kcs'[i] = kcs[i]
    OBVIOUS
  <2>2. Leading(i, k, name)'
    BY <1>2, <2>1 DEF Matched, Leading, Named
  <2>3. First(u, name, f, l)'
    BY <1>0, <1>2 DEF Matched, First, NotAfter
  <2>4. Matched(u, name, i, k, f, l)'
    BY <1>2, <2>1, <2>2, <2>3 DEF Matched
  <2> QED
    BY <2>1, <2>4 DEF Agrees
<1> QED
  BY <1>1, <1>2 DEF MatchInv, Agrees

\* A symbol is collected: it is the first of its name just when its line is the
\* first to define it.
LEMMA SymbolRead ==
    ASSUME IInv, MatchInv, LineInv, InsertSymbol
    PROVE  MatchInv'
<1> DEFINE sym  == dir[file].lines[line]
           last == Len(kcs[kc].syms) + 1
<1>0. /\ file \in DOMAIN dir /\ file \in Nat /\ line \in Nat \ {0} /\ kc \in DOMAIN kcs
      /\ line \in DOMAIN dir[file].lines
      /\ symstr \in Seq(Bytes) /\ Len(symstr) \in Nat
  <2>1. /\ file \in DOMAIN dir /\ line \in Nat \ {0} /\ kc \in DOMAIN kcs
        /\ symstr \in Seq(Bytes) /\ Len(symstr) \in Nat /\ line <= Len(dir[file].lines)
    BY CollectedFacts DEF InsertSymbol, AtSymbol, IInv, TypeOK, Bytes
  <2>2. /\ file \in Nat /\ Len(dir[file].lines) \in Nat
        /\ DOMAIN dir[file].lines = 1 .. Len(dir[file].lines)
    BY <2>1, LineFacts DEF IInv
  <2> QED
    BY <2>1, <2>2
<1>1. /\ pc = "lines" /\ line' = line + 1 /\ pc' = pc /\ dir' = dir /\ file' = file /\ kc' = kc
      /\ sym \in Line /\ sym.ok
      /\ DOMAIN kcs' = DOMAIN kcs
      /\ \A i \in DOMAIN kcs : i # kc => kcs'[i] = kcs[i]
      /\ kcs'[kc].uuid = kcs[kc].uuid
      /\ Len(kcs[kc].syms) \in Nat /\ DOMAIN kcs[kc].syms = 1 .. last - 1
      /\ DOMAIN kcs'[kc].syms = 1 .. last
      /\ \A j \in DOMAIN kcs[kc].syms : kcs'[kc].syms[j] = kcs[kc].syms[j]
      /\ kcs'[kc].syms[last].addr = sym.addr
      /\ StringAt(symstr', kcs'[kc].syms[last].off) = sym.name
      /\ symstr' \in Seq(Bytes) /\ Len(symstr') \in Nat /\ Len(symstr) <= Len(symstr')
      /\ \A i \in 1 .. Len(symstr) : symstr'[i] = symstr[i]
  BY InsertFacts
<1>2. /\ dir[file].header /\ kcs[kc].uuid = dir[file].uuid
      /\ \A k \in 1 .. line - 1 : dir[file].lines[k].ok
  BY <1>1 DEF LineInv
<1>3. ASSUME NEW i \in DOMAIN kcs, NEW k \in DOMAIN kcs[i].syms, NEW name
      PROVE  /\ k \in DOMAIN kcs'[i].syms /\ kcs'[i].syms[k] = kcs[i].syms[k]
             /\ Named(i, k, name)' <=> Named(i, k, name)
  <2>1. k \in DOMAIN kcs'[i].syms /\ kcs'[i].syms[k] = kcs[i].syms[k]
    <3>1. CASE i # kc
      BY <1>1, <3>1
    <3>2. CASE i = kc
      <4>1. k \in 1 .. last
        BY <1>1, <3>2
      <4> QED
        BY <1>0, <1>1, <3>2, <4>1
    <3> QED
      BY <3>1, <3>2
  <2> DEFINE o == kcs[i].syms[k].off
  <2>2. o \in Nat /\ o < Len(symstr)
    BY CollectedFacts DEF IInv, StringsInv
  <2> HIDE DEF o
  <2>3. symstr[Len(symstr)] = Null
    <3>1. symstr # <<>>
      BY <1>0, <2>2
    <3> QED
      BY <3>1 DEF IInv, StringsInv
  <2>4. StringAt(symstr, o) = StringAt(symstr', o)
    <3> HIDE DEF sym
    <3> QED
      BY <1>0, <1>1, <2>2, <2>3, StringSame
  <2> QED
    BY <2>1, <2>4 DEF Named, o
<1>4. \A f \in DOMAIN dir : \A l \in DOMAIN dir[f].lines :
        Read(f, l)' <=> (Read(f, l) \/ (f = file /\ l = line))
  <2> TAKE f \in DOMAIN dir
  <2> TAKE l \in DOMAIN dir[f].lines
  <2>1. f \in Nat /\ l \in Nat
    BY LineFacts DEF IInv
  <2> QED
    BY <1>0, <1>1, <2>1 DEF Read
<1>5. ASSUME NEW u, NEW name
      PROVE  /\ \A f, l : Defines(u, name, f, l)' <=> Defines(u, name, f, l)
             /\ Defines(u, name, file, line) <=> (u = dir[file].uuid /\ name = sym.name)
  <2>1. \A k \in 1 .. line : dir[file].lines[k].ok
    BY <1>0, <1>1, <1>2
  <2>2. \A f, l : Defines(u, name, f, l)' <=> Defines(u, name, f, l)
    BY <1>1 DEF Defines
  <2>3. Defines(u, name, file, line) <=> (u = dir[file].uuid /\ name = sym.name)
    BY <1>2, <2>1 DEF Defines
  <2> QED
    BY <2>2, <2>3
<1> SUFFICES ASSUME NEW u \in Uuids, NEW name \in Names
             PROVE  Agrees(u, name)'
  BY DEF MatchInv
<1>6. ASSUME NEW i \in DOMAIN kcs, NEW f \in DOMAIN dir,
             NEW k \in DOMAIN kcs[i].syms, NEW l \in DOMAIN dir[f].lines,
             Matched(u, name, i, k, f, l)
      PROVE  Agrees(u, name)'
  <2>1. i \in DOMAIN kcs' /\ k \in DOMAIN kcs'[i].syms /\ kcs'[i].syms[k] = kcs[i].syms[k]
    BY <1>1, <1>3
  <2>2. kcs'[i].uuid = u
    BY <1>1, <1>6 DEF Matched
  <2>3. Leading(i, k, name)'
    <3>1. \A j \in 1 .. k - 1 : j \in DOMAIN kcs[i].syms
      BY CollectedFacts DEF IInv
    <3> QED
      BY <1>3, <1>6, <2>1, <3>1 DEF Matched, Leading
  <2>4. First(u, name, f, l)'
    <3>1. f \in Nat /\ l \in Nat /\ Read(f, l) /\ Defines(u, name, f, l)
      BY <1>6, LineFacts DEF IInv, Matched, First
    <3>2. NotAfter(f, l, file, line)
      BY <1>0, <3>1 DEF NotAfter, Read
    <3>3. ASSUME NEW g \in DOMAIN dir, NEW m \in DOMAIN dir[g].lines,
                 Defines(u, name, g, m), Read(g, m)'
          PROVE  NotAfter(f, l, g, m)
      BY <1>4, <1>6, <3>2, <3>3 DEF Matched, First
    <3>4. \A g, m : NotAfter(f, l, g, m)' <=> NotAfter(f, l, g, m)
      BY DEF NotAfter
    <3> QED
      BY <1>1, <1>4, <1>5, <3>1, <3>3, <3>4 DEF First
  <2>5. Matched(u, name, i, k, f, l)'
    BY <1>1, <1>6, <2>1, <2>2, <2>3, <2>4 DEF Matched
  <2> QED
    BY <1>1, <2>1, <2>5 DEF Agrees
<1>7. ASSUME Unnamed(u, name), Undefined(u, name), u = dir[file].uuid, name = sym.name
      PROVE  Agrees(u, name)'
  <2>0. PICK c, n, f, l : c = kc /\ n = last /\ f = file /\ l = line
    OBVIOUS
  <2>1. n \in DOMAIN kcs'[c].syms /\ c \in DOMAIN kcs' /\ n \in Nat
    BY <1>0, <1>1, <2>0
  <2>2. Leading(c, n, name)'
    <3>1. Named(c, n, name)'
      BY <1>1, <1>7, <2>0 DEF Named
    <3>2. \A j \in 1 .. n - 1 : ~Named(c, j, name)'
      BY <1>0, <1>1, <1>2, <1>3, <1>7, <2>0 DEF Unnamed
    <3> QED
      BY <2>1, <3>1, <3>2 DEF Leading
  <2>3. First(u, name, f, l)'
    <3>1. ASSUME NEW g \in DOMAIN dir, NEW m \in DOMAIN dir[g].lines,
                 Defines(u, name, g, m), Read(g, m)'
          PROVE  g = f /\ m = l
      BY <1>4, <1>7, <2>0, <3>1 DEF Undefined
    <3>2. f \in DOMAIN dir /\ l \in DOMAIN dir[f].lines /\ l \in Nat
      BY <1>0, <2>0
    <3>3. Read(f, l)' /\ Defines(u, name, f, l)'
      <4>1. Defines(u, name, f, l)
        BY <1>5, <1>7, <2>0
      <4> QED
        BY <1>4, <1>5, <2>0, <3>2, <4>1
    <3>4. NotAfter(f, l, f, l)'
      BY <3>2 DEF NotAfter
    <3> QED
      BY <1>1, <1>5, <3>1, <3>2, <3>3, <3>4 DEF First
  <2>4. Matched(u, name, c, n, f, l)'
    BY <1>1, <1>2, <1>7, <2>0, <2>2, <2>3 DEF Matched
  <2> QED
    BY <1>0, <1>1, <2>0, <2>1, <2>4 DEF Agrees
<1>8. ASSUME Unnamed(u, name), Undefined(u, name), ~(u = dir[file].uuid /\ name = sym.name)
      PROVE  Agrees(u, name)'
  <2>1. Unnamed(u, name)'
    <3> SUFFICES ASSUME NEW i \in DOMAIN kcs', kcs'[i].uuid = u, NEW k \in DOMAIN kcs'[i].syms
                 PROVE  ~Named(i, k, name)'
      BY DEF Unnamed
    <3>1. CASE i = kc /\ k = last
      BY <1>1, <1>2, <1>8, <3>1 DEF Named
    <3>2. CASE ~(i = kc /\ k = last)
      <4>1. k \in DOMAIN kcs[i].syms /\ i \in DOMAIN kcs /\ kcs[i].uuid = u
        <5>1. CASE i # kc
          BY <1>1, <5>1
        <5>2. CASE i = kc
          <6>1. k \in 1 .. last - 1
            BY <1>1, <3>2, <5>2
          <6> QED
            BY <1>0, <1>1, <5>2, <6>1
        <5> QED
          BY <5>1, <5>2
      <4> QED
        BY <1>3, <1>8, <4>1 DEF Unnamed
    <3> QED
      BY <3>1, <3>2
  <2>2. Undefined(u, name)'
    <3> SUFFICES ASSUME NEW g \in DOMAIN dir, NEW m \in DOMAIN dir[g].lines,
                        Defines(u, name, g, m), Read(g, m)'
                 PROVE  FALSE
      BY <1>1, <1>5 DEF Undefined
    <3>1. g = file /\ m = line
      BY <1>4, <1>8 DEF Undefined
    <3> QED
      BY <1>5, <1>8, <3>1
  <2> QED
    BY <2>1, <2>2 DEF Agrees
<1> QED
  BY <1>6, <1>7, <1>8 DEF MatchInv, Agrees

\* Before the first file is read there is nothing to find.
LEMMA LookupInit == Init => LookupInv
<1> SUFFICES ASSUME Init PROVE LookupInv
  OBVIOUS
<1>1. IInv
  BY InitInv
<1>2. MatchInv
  <2>1. DOMAIN kcs = {} /\ file = 1 /\ pc = "dir"
    BY DEF Init
  <2>2. \A f \in DOMAIN dir : \A l : ~Read(f, l)
    BY <1>1, <2>1, LineFacts DEF IInv, Read
  <2> QED
    BY <2>1, <2>2 DEF MatchInv, Agrees, Unnamed, Undefined
<1>3. UniqueInv /\ LineInv /\ TableInv
  BY DEF Init, UniqueInv, LineInv, TableInv
<1> QED
  BY <1>1, <1>2, <1>3 DEF LookupInv

\* The header of a file is read: a new UUID gets a kernelcache of its own.
LEMMA BeginFileLookup ==
    ASSUME LookupInv, BeginFile
    PROVE  MatchInv' /\ UniqueInv' /\ LineInv' /\ TableInv'
<1>0. /\ pc = "dir" /\ file \in DOMAIN dir /\ file \in Nat /\ TypeOK
      /\ kcs \in Seq(Kernelcache) /\ DOMAIN kcs = 1 .. Len(kcs) /\ Len(kcs) \in Nat
  BY CollectedFacts DEF BeginFile, LookupInv, IInv, TypeOK
<1>1. dir' = dir /\ symstr' = symstr /\ tables' = tables
  BY DEF BeginFile, deviceVars
<1>2. CASE ~dir[file].header
  <2>1. file' = file + 1 /\ UNCHANGED <<kcs, kc, line, pc>>
    BY <1>2 DEF BeginFile
  <2>2. MatchInv'
    <3>1. \A u, name : \A f \in DOMAIN dir : \A l \in DOMAIN dir[f].lines :
            Defines(u, name, f, l) => (Read(f, l)' <=> Read(f, l))
      <4> SUFFICES ASSUME NEW u, NEW name, NEW f \in DOMAIN dir, NEW l \in DOMAIN dir[f].lines,
                          Defines(u, name, f, l)
                   PROVE  Read(f, l)' <=> Read(f, l)
        OBVIOUS
      <4>1. f # file /\ f \in Nat
        BY <1>0, <1>2, LineFacts DEF Defines
      <4> QED
        BY <1>0, <2>1, <4>1 DEF Read
    <3> QED
      BY <1>0, <1>1, <2>1, <3>1, NothingRead DEF LookupInv
  <2>3. UniqueInv' /\ LineInv' /\ TableInv'
    BY <1>0, <1>1, <2>1 DEF LookupInv, UniqueInv, LineInv, TableInv
  <2> QED
    BY <2>2, <2>3
<1>3. CASE dir[file].header
  <2> DEFINE new == [uuid |-> dir[file].uuid, syms |-> <<>>]
  <2>1. line' = 1 /\ pc' = "lines" /\ file' = file
    BY <1>3 DEF BeginFile
  <2>2. \/ \E i \in DOMAIN kcs : kcs[i].uuid = dir[file].uuid /\ kc' = i /\ kcs' = kcs
        \/ /\ \A i \in DOMAIN kcs : kcs[i].uuid # dir[file].uuid
           /\ kcs' = Append(kcs, new) /\ kc' = Len(kcs) + 1
    BY <1>3 DEF BeginFile
  <2>3. new \in Kernelcache /\ new.uuid = dir[file].uuid /\ new.syms = <<>>
    <3>1. dir[file].uuid \in Uuids
      BY <1>0, LineFacts
    <3> QED
      BY <3>1, EmptySeq DEF Kernelcache
  <2> HIDE DEF new
  <2>4. /\ \A i \in DOMAIN kcs : i \in DOMAIN kcs' /\ kcs'[i] = kcs[i]
        /\ \A i \in DOMAIN kcs' : i \notin DOMAIN kcs => i = kc' /\ kcs'[i] = new
        /\ kcs'[kc'].uuid = dir[file].uuid
        /\ \A i \in DOMAIN kcs : kcs[i].uuid = dir[file].uuid => kcs' = kcs
    <3>1. CASE \E i \in DOMAIN kcs : kcs[i].uuid = dir[file].uuid /\ kc' = i /\ kcs' = kcs
      BY <3>1
    <3>2. CASE /\ \A i \in DOMAIN kcs : kcs[i].uuid # dir[file].uuid
               /\ kcs' = Append(kcs, new) /\ kc' = Len(kcs) + 1
      <4>1. /\ kcs' \in Seq(Kernelcache) /\ Len(kcs') = Len(kcs) + 1
            /\ kcs'[Len(kcs) + 1] = new /\ \A i \in 1 .. Len(kcs) : kcs'[i] = kcs[i]
        BY <1>0, <2>3, <3>2, AppendProperties
      <4>2. DOMAIN kcs' = 1 .. Len(kcs) + 1
        BY <4>1, LenProperties
      <4>3. \A i \in DOMAIN kcs' : i \notin DOMAIN kcs => i = Len(kcs) + 1
        BY <1>0, <4>2
      <4>4. \A i \in DOMAIN kcs : i \in DOMAIN kcs'
        BY <1>0, <4>2
      <4> QED
        BY <1>0, <2>3, <3>2, <4>1, <4>3, <4>4
    <3> QED
      BY <2>2, <3>1, <3>2
  <2>5. MatchInv'
    <3>1. \A i \in DOMAIN kcs' : i \notin DOMAIN kcs => DOMAIN kcs'[i].syms = {}
      BY <2>3, <2>4
    <3>2. \A f \in DOMAIN dir : \A l \in DOMAIN dir[f].lines : Read(f, l)' <=> Read(f, l)
      <4> TAKE f \in DOMAIN dir
      <4> TAKE l \in DOMAIN dir[f].lines
      <4>1. l \in Nat /\ ~(l < 1)
        BY <1>0, LineFacts
      <4> QED
        BY <1>0, <2>1, <4>1 DEF Read
    <3> QED
      BY <1>0, <1>1, <2>4, <3>1, <3>2, NothingRead DEF LookupInv
  <2>6. UniqueInv'
    <3> SUFFICES ASSUME NEW i \in DOMAIN kcs', NEW j \in DOMAIN kcs', kcs'[i].uuid = kcs'[j].uuid
                 PROVE  i = j
      BY DEF UniqueInv
    <3>1. CASE i \in DOMAIN kcs /\ j \in DOMAIN kcs
      BY <2>4, <3>1 DEF LookupInv, UniqueInv
    <3>2. CASE i \notin DOMAIN kcs /\ j \notin DOMAIN kcs
      BY <2>4, <3>2
    <3>3. CASE i \in DOMAIN kcs /\ j \notin DOMAIN kcs
      BY <2>3, <2>4, <3>3
    <3>4. CASE i \notin DOMAIN kcs /\ j \in DOMAIN kcs
      BY <2>3, <2>4, <3>4
    <3> QED
      BY <3>1, <3>2, <3>3, <3>4
  <2>7. LineInv'
    <3>1. Len(dir[file].lines) \in Nat
      BY <1>0, LineFacts
    <3> QED
      BY <1>1, <1>3, <2>1, <2>4, <3>1 DEF LineInv
  <2>8. TableInv'
    BY <1>0, <1>1, <2>1 DEF LookupInv, TableInv
  <2> QED
    BY <2>5, <2>6, <2>7, <2>8
<1> QED
  BY <1>2, <1>3

\* A symbol is read.
LEMMA InsertSymbolLookup ==
    ASSUME LookupInv, InsertSymbol
    PROVE  MatchInv' /\ UniqueInv' /\ LineInv' /\ TableInv'
<1>0. /\ IInv /\ file \in DOMAIN dir /\ line \in Nat \ {0} /\ kc \in DOMAIN kcs
      /\ line <= Len(dir[file].lines)
  BY DEF InsertSymbol, AtSymbol, LookupInv, IInv, TypeOK
<1>1. /\ pc = "lines" /\ line' = line + 1 /\ UNCHANGED <<pc, dir, file, kc, tables>>
      /\ dir[file].lines[line].ok /\ DOMAIN kcs' = DOMAIN kcs
      /\ \A i \in DOMAIN kcs : i # kc => kcs'[i] = kcs[i]
      /\ kcs'[kc].uuid = kcs[kc].uuid
  BY <1>0, InsertFacts
<1>2. MatchInv'
  BY <1>1, SymbolRead DEF LookupInv
<1>3. UniqueInv'
  <2>1. \A i \in DOMAIN kcs' : i \in DOMAIN kcs /\ kcs'[i].uuid = kcs[i].uuid
    BY <1>1
  <2> QED
    BY <2>1 DEF LookupInv, UniqueInv
<1>4. LineInv'
  <2>1. /\ dir[file].header /\ kcs[kc].uuid = dir[file].uuid
        /\ \A k \in 1 .. line - 1 : dir[file].lines[k].ok
    BY <1>1 DEF LookupInv, LineInv
  <2>2. \A k \in 1 .. (line + 1) - 1 : dir[file].lines[k].ok
    BY <1>0, <1>1, <2>1
  <2>3. (line + 1) - 1 <= Len(dir[file].lines)
    BY <1>0
  <2> QED
    BY <1>1, <2>1, <2>2, <2>3 DEF LineInv
<1>5. TableInv'
  BY <1>1 DEF LookupInv, TableInv
<1> QED
  BY <1>2, <1>3, <1>4, <1>5

\* What follows in a file after its end, or after a bad line, defines nothing.
LEMMA EndFileLookup ==
    ASSUME LookupInv, EndFile
    PROVE  MatchInv' /\ UniqueInv' /\ LineInv' /\ TableInv'
<1>0. /\ TypeOK /\ pc = "lines" /\ file \in DOMAIN dir /\ file \in Nat /\ line \in Nat \ {0}
      /\ Len(dir[file].lines) \in Nat /\ DOMAIN dir[file].lines = 1 .. Len(dir[file].lines)
  <2>1. TypeOK /\ pc = "lines" /\ file \in DOMAIN dir /\ line \in Nat \ {0}
    BY DEF EndFile, LookupInv, IInv, TypeOK
  <2> QED
    BY <2>1, LineFacts
<1>1. file' = file + 1 /\ pc' = "dir" /\ UNCHANGED <<dir, kcs, symstr, tables>>
  BY DEF EndFile, deviceVars
<1>2. MatchInv'
  <2>1. \A u, name : \A f \in DOMAIN dir : \A l \in DOMAIN dir[f].lines :
          Defines(u, name, f, l) => (Read(f, l)' <=> Read(f, l))
    <3> SUFFICES ASSUME NEW u, NEW name, NEW f \in DOMAIN dir, NEW l \in DOMAIN dir[f].lines,
                        Defines(u, name, f, l)
                 PROVE  Read(f, l)' <=> Read(f, l)
      OBVIOUS
    <3>1. f \in Nat /\ l \in Nat
      BY <1>0, LineFacts
    <3>2. f = file => l < line
      <4> SUFFICES ASSUME f = file, line <= l PROVE FALSE
        BY <1>0, <3>1
      <4>1. line <= Len(dir[file].lines) /\ line \in 1 .. l
        BY <1>0, <3>1
      <4>2. dir[file].lines[line].ok
        BY <4>1 DEF Defines
      <4> QED
        BY <4>1, <4>2 DEF EndFile, AtSymbol
    <3> QED
      BY <1>0, <1>1, <3>1, <3>2 DEF Read
  <2> QED
    BY <1>0, <1>1, <2>1, NothingRead DEF LookupInv
<1>3. UniqueInv' /\ LineInv' /\ TableInv'
  BY <1>0, <1>1 DEF LookupInv, UniqueInv, LineInv, TableInv
<1> QED
  BY <1>2, <1>3

\* The table that is linked holds the symbols of the device's kernelcache, and the
\* strings that arrived reach to a terminator behind each of their names.
LEMMA LinkTableLookup ==
    ASSUME LookupInv, LinkTable
    PROVE  TableInv'
<1> DEFINE n == count - offset
<1>1. IInv /\ TypeOK /\ pc = "parse" /\ tables = <<>>
  BY DEF LinkTable, LookupInv, IInv, TableInv
<1>2. PICK i \in DOMAIN descs :
        /\ Accepts(i)
        /\ tables' = <<[syms |-> arrays[i].syms, strings |-> SubSeq(symstr, 1, n)]>> \o tables
  BY DEF LinkTable
<1>3. pc' = "linked" /\ UNCHANGED <<kcs, symstr, uuid>>
  BY DEF LinkTable, collectVars
<1>4. StringsOK /\ Matching(i) /\ Populated(i, Len(arrays[i].syms))
  BY <1>2 DEF Accepts, Found
<1>5. /\ offset \in Nat /\ count \in Nat /\ offset <= count /\ StringsSize = n
  BY <1>1, <1>4, NoWrap DEF StringsOK
<1>6. n \in 1 .. Len(symstr) /\ symstr[n] = Null
  <2>1. n >= 1 /\ count <= offset + Len(symstr) /\ Len(symstr) \in Nat
    BY <1>1, <1>4, <1>5, CollectedFacts DEF TypeOK, StringsOK, BlobSize
  <2>2. count > offset
    BY <1>5, <2>1
  <2> QED
    BY <1>4, <1>5, <2>1, <2>2 DEF StringsOK, EndsInNull
<1>7. i \in DOMAIN kcs /\ arrays[i].syms = kcs[i].syms /\ kcs[i].uuid = uuid
  <2>1. DOMAIN descs = 1 .. Len(descs) /\ Len(descs) \in Nat
    BY <1>1, LenProperties DEF TypeOK
  <2> QED
    BY <1>1, <1>4, <2>1, CollectedFacts DEF IInv, WrittenInv, Collecting, Matching
<1>8. \A k \in DOMAIN kcs[i].syms : kcs[i].syms[k].off < n
  <2> TAKE k \in DOMAIN kcs[i].syms
  <2>1. k \in 1 .. Len(kcs[i].syms) /\ kcs[i].syms[k].off \in Nat
    BY <1>1, <1>7, CollectedFacts
  <2>2. kcs[i].syms[k].off + 1 <= n
    BY <1>4, <1>5, <1>7, <2>1 DEF Populated
  <2> QED
    BY <1>5, <2>1, <2>2
<1>9. tables' = <<[syms |-> kcs[i].syms, strings |-> SubSeq(symstr, 1, n)]>>
  <2> DEFINE t == [syms |-> kcs[i].syms, strings |-> SubSeq(symstr, 1, n)]
  <2>1. tables' = <<t>> \o <<>>
    BY <1>1, <1>2, <1>7
  <2> HIDE DEF t
  <2>2. <<t>> \in Seq({t})
    OBVIOUS
  <2>3. <<t>> \o <<>> = <<t>>
    BY <2>2, ConcatEmptySeq
  <2> QED
    BY <2>1, <2>3 DEF t
<1> HIDE DEF n
<1>10. PICK m \in 1 .. Len(symstr) : m = n
  BY <1>6
<1>11. Linked(i, m)'
  BY <1>3, <1>6, <1>7, <1>8, <1>9, <1>10 DEF Linked
<1> QED
  BY <1>3, <1>7, <1>11 DEF TableInv

\* Once every file is read, what was collected stays.
LEMMA GeneratedLookup ==
    ASSUME LookupInv,
           \/ AllocateBlob \/ WriteKernelcache \/ Upload
           \/ LinkTable \/ RefuseTable \/ OutOfMemory \/ SpoilHeap
    PROVE  MatchInv' /\ UniqueInv' /\ LineInv' /\ TableInv'
<1>1. UNCHANGED <<dir, file, kcs, symstr>> /\ pc \notin {"lines", "crashed"} /\ pc' # "lines"
  BY DEF AllocateBlob, WriteKernelcache, Upload, LinkTable, RefuseTable, OutOfMemory, SpoilHeap,
       collectVars
<1>2. MatchInv'
  <2>1. \A f, l : Read(f, l)' <=> Read(f, l)
    BY <1>1 DEF Read
  <2> QED
    BY <1>1, <2>1, NothingRead DEF LookupInv
<1>3. UniqueInv' /\ LineInv'
  BY <1>1 DEF LookupInv, UniqueInv, LineInv
<1>4. TableInv'
  <2>1. CASE LinkTable
    BY <2>1, LinkTableLookup
  <2>2. CASE ~LinkTable
    <3>1. pc # "linked" /\ pc' # "linked" /\ tables' = tables
      BY <2>2 DEF AllocateBlob, WriteKernelcache, Upload, RefuseTable, OutOfMemory, SpoilHeap, deviceVars
    <3> QED
      BY <3>1 DEF LookupInv, TableInv
  <2> QED
    BY <2>1, <2>2
<1> QED
  BY <1>2, <1>3, <1>4

\* Every step keeps collected symbols and read lines in agreement.
LEMMA LookupNext ==
    ASSUME LookupInv, [Next]_vars
    PROVE  LookupInv'
<1>0. IInv'
  BY NextInv DEF LookupInv
<1>1. CASE UNCHANGED vars
  <2>1. UNCHANGED <<dir, file, line, pc, kc, kcs, symstr, uuid, tables>>
    BY <1>1 DEF vars, collectVars, deviceVars
  <2>2. MatchInv => MatchInv'
    <3>1. \A f, l : Read(f, l)' <=> Read(f, l)
      BY <2>1 DEF Read
    <3> QED
      BY <2>1, <3>1, NothingRead
  <2>3. UniqueInv' /\ LineInv' /\ TableInv'
    BY <2>1 DEF LookupInv, UniqueInv, LineInv, TableInv, Linked
  <2> QED
    BY <1>0, <2>1, <2>2, <2>3 DEF LookupInv
<1>2. CASE Done
  BY <1>1, <1>2 DEF Done
<1>3. CASE HostCrash
  <2>1. /\ pc' = "crashed" /\ pc # "linked"
        /\ UNCHANGED <<kcs, tables>>
    BY <1>3 DEF HostCrash, collectVars, deviceVars
  <2> QED
    BY <1>0, <2>1 DEF LookupInv, UniqueInv, LineInv, TableInv
<1> QED
  BY <1>0, <1>1, <1>2, <1>3, BeginFileLookup, InsertSymbolLookup, EndFileLookup, GeneratedLookup
     DEF Next, LookupInv

\* The collected symbols answer a lookup as the files do, in every reachable state.
THEOREM LookupInvariance == Spec => []LookupInv
<1> QED
  BY LookupInit, LookupNext, PTL DEF Spec

\* A lookup in the one table takes the address of the first symbol of that name.
LEMMA LookupOne ==
    ASSUME LookupInv, NEW i \in DOMAIN kcs, NEW n \in 1 .. Len(symstr), Linked(i, n), NEW name
    PROVE  /\ (\A k \in DOMAIN kcs[i].syms : ~Named(i, k, name)) => Lookup(name) = 0
           /\ \A k : Leading(i, k, name) => Lookup(name) = kcs[i].syms[k].addr
<1> DEFINE Hits(t) == {k \in DOMAIN tables[t].syms :
                         StringAt(tables[t].strings, tables[t].syms[k].off) = name}
           having  == {t \in DOMAIN tables : Hits(t) # {}}
<1>0. TypeOK /\ symstr \in Seq(Bytes) /\ Len(symstr) \in Nat
  BY CollectedFacts DEF LookupInv, IInv, Bytes
<1>1. /\ DOMAIN tables = {1} /\ tables[1].syms = kcs[i].syms
      /\ tables[1].strings = SubSeq(symstr, 1, n) /\ symstr[n] = Null
      /\ \A k \in DOMAIN kcs[i].syms : kcs[i].syms[k].off < n
  <2> DEFINE t == [syms |-> kcs[i].syms, strings |-> SubSeq(symstr, 1, n)]
  <2>1. tables = <<t>> /\ t.syms = kcs[i].syms /\ t.strings = SubSeq(symstr, 1, n)
    BY DEF Linked
  <2> HIDE DEF t
  <2>2. DOMAIN tables = {1} /\ tables[1] = t
    BY <2>1
  <2> QED
    BY <2>1, <2>2 DEF Linked
<1>2. \A k \in DOMAIN kcs[i].syms :
        StringAt(tables[1].strings, kcs[i].syms[k].off) = StringAt(symstr, kcs[i].syms[k].off)
  <2> TAKE k \in DOMAIN kcs[i].syms
  <2> DEFINE o == kcs[i].syms[k].off
             s == SubSeq(symstr, 1, n)
  <2>1. o \in Nat /\ o < n
    BY <1>0, <1>1, CollectedFacts
  <2>2. \A j \in 1 .. n : symstr[j] \in Bytes
    BY <1>0, ElementOfSeq
  <2>3. s \in Seq(Bytes) /\ Len(s) = n /\ \A j \in 1 .. n : s[j] = symstr[j]
    <3>1. /\ s \in Seq(Bytes) /\ Len(s) = (IF 1 <= n THEN n - 1 + 1 ELSE 0)
          /\ \A j \in 1 .. n - 1 + 1 : s[j] = symstr[1 + j - 1]
      BY <1>0, <2>2, SubSeqProperties
    <3> HIDE DEF s
    <3> QED
      BY <1>0, <3>1
  <2> HIDE DEF o, s
  <2>4. StringAt(s, o) = StringAt(symstr, o)
    <3>1. n \in Nat /\ n <= Len(symstr) /\ n <= Len(s) /\ s[n] = Null
      BY <1>0, <1>1, <2>3
    <3> QED
      BY <1>0, <2>1, <2>3, <3>1, StringSame
  <2> QED
    BY <1>1, <2>4 DEF o, s
<1>3. Hits(1) = {k \in DOMAIN kcs[i].syms : Named(i, k, name)}
  BY <1>1, <1>2 DEF Named
<1>4. Lookup(name) = IF having = {} THEN 0
                     ELSE tables[Least(having)].syms[Least(Hits(Least(having)))].addr
  BY DEF Lookup
<1> HIDE DEF Hits
<1>5. ASSUME \A k \in DOMAIN kcs[i].syms : ~Named(i, k, name)
      PROVE  Lookup(name) = 0
  <2>1. Hits(1) = {}
    BY <1>3, <1>5
  <2>2. having = {}
    BY <1>1, <2>1
  <2> QED
    BY <1>4, <2>2
<1>6. ASSUME NEW k, Leading(i, k, name)
      PROVE  Lookup(name) = kcs[i].syms[k].addr
  <2>1. /\ k \in DOMAIN kcs[i].syms /\ Named(i, k, name)
        /\ \A j \in 1 .. k - 1 : ~Named(i, j, name)
        /\ DOMAIN kcs[i].syms \in SUBSET (Nat \ {0})
    BY <1>0, <1>6, CollectedFacts DEF Leading
  <2>2. Hits(1) \in SUBSET Nat /\ k \in Hits(1) /\ Hits(1) # {}
    BY <1>3, <2>1
  <2>3. \A j \in Hits(1) : k <= j
    <3> SUFFICES ASSUME NEW j \in Hits(1), ~(k <= j) PROVE FALSE
      OBVIOUS
    <3>1. j \in Nat \ {0} /\ Named(i, j, name) /\ k \in Nat
      BY <1>3, <2>1
    <3>2. j \in 1 .. k - 1
      BY <3>1
    <3> QED
      BY <2>1, <3>1, <3>2
  <2>4. Least(Hits(1)) = k
    <3>1. Least(Hits(1)) \in Hits(1) /\ \A p \in Hits(1) : Least(Hits(1)) <= p
      BY <2>2, LeastExists
    <3>2. Least(Hits(1)) \in Nat /\ k \in Nat /\ k <= Least(Hits(1)) /\ Least(Hits(1)) <= k
      BY <2>2, <2>3, <3>1
    <3> QED
      BY <3>2
  <2>5. having = {1}
    BY <1>1, <2>2
  <2>6. Least(having) = 1
    <3>1. Least({1}) \in {1}
      BY LeastExists
    <3> QED
      BY <2>5, <3>1
  <2> HIDE DEF having
  <2>7. Lookup(name) = tables[1].syms[Least(Hits(1))].addr
    BY <1>4, <2>5, <2>6
  <2> QED
    BY <1>1, <2>4, <2>7
<1> QED
  BY <1>5, <1>6

\* When every file is read, the first definition so far is the one of the files.
LEMMA AddressOne ==
    ASSUME TypeOK, file > Len(dir), NEW name
    PROVE  /\ Undefined(uuid, name) => AddressInFiles(name) = 0
           /\ \A f, l : First(uuid, name, f, l) => AddressInFiles(name) = dir[f].lines[l].addr
<1> DEFINE D == Defining(name)
           Leads(p) == \A q \in D : p[1] < q[1] \/ (p[1] = q[1] /\ p[2] <= q[2])
<1>1. \A f \in DOMAIN dir : \A l : Read(f, l)
  <2> TAKE f \in DOMAIN dir
  <2>1. f < file
    BY CollectedFacts
  <2> QED
    BY <2>1 DEF Read
<1>2. \A q : q \in D <=> \E f \in DOMAIN dir : \E l \in DOMAIN dir[f].lines :
                            q = <<f, l>> /\ Defines(uuid, name, f, l)
  BY DEF Defining, Defines
<1>3. AddressInFiles(name) = IF D = {} THEN 0
                             ELSE LET first == CHOOSE p \in D : Leads(p)
                                  IN  dir[first[1]].lines[first[2]].addr
  BY DEF AddressInFiles
<1> HIDE DEF D
<1>4. ASSUME Undefined(uuid, name)
      PROVE  AddressInFiles(name) = 0
  <2>1. D = {}
    BY <1>1, <1>2, <1>4 DEF Undefined
  <2> QED
    BY <1>3, <2>1
<1>5. ASSUME NEW f, NEW l, First(uuid, name, f, l)
      PROVE  AddressInFiles(name) = dir[f].lines[l].addr
  <2>1. f \in DOMAIN dir /\ l \in DOMAIN dir[f].lines /\ <<f, l>> \in D
    BY <1>2, <1>5 DEF First
  <2>2. Leads(<<f, l>>)
    <3> TAKE q \in D
    <3>1. PICK g \in DOMAIN dir : \E m \in DOMAIN dir[g].lines :
            q = <<g, m>> /\ Defines(uuid, name, g, m)
      BY <1>2
    <3>2. PICK m \in DOMAIN dir[g].lines : q = <<g, m>> /\ Defines(uuid, name, g, m)
      BY <3>1
    <3>3. NotAfter(f, l, g, m)
      BY <1>1, <1>5, <3>2 DEF First
    <3> QED
      BY <3>2, <3>3 DEF NotAfter
  <2> DEFINE first == CHOOSE p \in D : Leads(p)
  <2>3. first \in D /\ Leads(first)
    BY <2>1, <2>2
  <2>4. PICK g \in DOMAIN dir : \E m \in DOMAIN dir[g].lines : first = <<g, m>>
    BY <1>2, <2>3
  <2>5. PICK m \in DOMAIN dir[g].lines : first = <<g, m>>
    BY <2>4
  <2>6. /\ g < f \/ (g = f /\ m <= l)
        /\ f < g \/ (f = g /\ l <= m)
    <3>1. first[1] < <<f, l>>[1] \/ (first[1] = <<f, l>>[1] /\ first[2] <= <<f, l>>[2])
      BY <2>1, <2>3
    <3>2. <<f, l>>[1] < first[1] \/ (<<f, l>>[1] = first[1] /\ <<f, l>>[2] <= first[2])
      BY <2>2, <2>3
    <3> HIDE DEF first
    <3> QED
      BY <2>5, <3>1, <3>2
  <2>7. f \in Nat /\ g \in Nat /\ l \in Nat /\ m \in Nat
    BY <2>1, <2>5, LineFacts
  <2>8. g = f /\ m = l
    BY <2>6, <2>7
  <2>9. D # {}
    BY <2>1
  <2>10. AddressInFiles(name) = dir[first[1]].lines[first[2]].addr
    BY <1>3, <2>9
  <2> HIDE DEF first
  <2> QED
    BY <2>5, <2>8, <2>10
<1> QED
  BY <1>4, <1>5

\* kernelcache_symbol_table_lookup finds for every name what the text files say for
\* the device's kernelcache, however the files share names and UUIDs and whatever
\* part of the blob was accepted, for every directory whose symbols the host can
\* collect in allocations below 4 GiB.
THEOREM LookupRight == Spec => []LookupMatchesFiles
<1>1. LookupInv => LookupMatchesFiles
  <2> SUFFICES ASSUME LookupInv, tables # <<>>, NEW name \in Names
               PROVE  Lookup(name) = AddressInFiles(name)
    BY DEF LookupMatchesFiles
  <2>1. pc = "linked"
    BY DEF LookupInv, TableInv
  <2>2. PICK i \in DOMAIN kcs, n \in 1 .. Len(symstr) : Linked(i, n)
    BY <2>1 DEF LookupInv, TableInv
  <2>3. TypeOK /\ file > Len(dir) /\ uuid \in Uuids
    BY <2>1 DEF LookupInv, IInv, TypeOK, WrittenInv, Collecting
  <2>4. CASE Unnamed(uuid, name) /\ Undefined(uuid, name)
    <3>1. Lookup(name) = 0
      BY <2>2, <2>4, LookupOne DEF Unnamed, Linked
    <3>2. AddressInFiles(name) = 0
      BY <2>3, <2>4, AddressOne
    <3> QED
      BY <3>1, <3>2
  <2>5. ASSUME NEW j \in DOMAIN kcs, NEW f \in DOMAIN dir,
               NEW k \in DOMAIN kcs[j].syms, NEW l \in DOMAIN dir[f].lines,
               Matched(uuid, name, j, k, f, l)
        PROVE  Lookup(name) = AddressInFiles(name)
    <3>1. j = i
      BY <2>2, <2>5 DEF LookupInv, UniqueInv, Matched, Linked
    <3>2. Lookup(name) = kcs[i].syms[k].addr
      BY <2>2, <2>5, <3>1, LookupOne DEF Matched
    <3>3. AddressInFiles(name) = dir[f].lines[l].addr
      BY <2>3, <2>5, AddressOne DEF Matched
    <3> QED
      BY <2>5, <3>1, <3>2, <3>3 DEF Matched
  <2>6. Agrees(uuid, name)
    BY <2>1, <2>3 DEF LookupInv, MatchInv
  <2> QED
    BY <2>4, <2>5, <2>6 DEF Agrees
<1> QED
  BY <1>1, LookupInvariance, PTL

=============================================================================
