--------------------------- MODULE KextImageProofs ---------------------------
(***************************************************************************)
(* Proofs about KextImage, for every upload and every width of the         *)
(* arithmetic.  The parse loop is summarised by what it knows of the       *)
(* segments it has passed; kext_alloc then bounds the whole image.         *)
(***************************************************************************)
EXTENDS KextImage, FiniteSetTheorems, TLAPS

Loading    == {"map", "relocate", "link", "linked", "booted", "unusable"}
Relocated  == {"alloc"} \cup Loading
Symbolised == {"relocations"} \cup Relocated
Parsed     == {"symbols"} \cup Symbolised
Unmapped   == {"header", "commands", "symbols", "relocations", "alloc"}

\* A segment lies in a file of a size, and in an image from base to end.
SegmentIn(sc, size, base, end) ==
    /\ sc.fileoff <= size
    /\ Add(sc.fileoff, sc.filesize) <= size
    /\ sc.filesize <= sc.vmsize
    /\ base <= sc.vmaddr
    /\ sc.vmaddr + sc.vmsize <= end

\* What the parse loop knows of a segment it has passed.
SegmentInv(i) == SegmentIn(img.cmds[i], img.size, vm_base, vmaddr)

LoopInv ==
    /\ \A i \in Segments : i < idx => "SEGMENT_64" \in seen /\ SegmentInv(i)
    /\ "SEGMENT_64" \in seen => vm_base <= vmaddr

ParsedInv ==
    pc \in Parsed =>
        /\ idx > Len(img.cmds)
        /\ "SEGMENT_64" \in seen
        /\ vm_size = vmaddr - vm_base

KmodInv == pc \in Symbolised => vm_base <= kmod /\ kmod + KmodSize <= vmaddr

RelocInv ==
    pc \in Relocated =>
        /\ \A i \in DOMAIN img.ext : InBounds(img.ext[i].addr)
        /\ \A i \in DOMAIN img.loc : InBounds(img.loc[i].addr)

AllocInv == pc \in Loading => vm_size <= alloc

FreshInv == pc \in Unmapped => \A o \in Addr : mem[o] = Foreign

IInv ==
    /\ TypeOK
    /\ img \in Images
    /\ LoopInv
    /\ ParsedInv
    /\ KmodInv
    /\ RelocInv
    /\ AllocInv
    /\ FreshInv
    /\ ForeignIntact

\* The fields of an upload that arithmetic is done with are 64-bit values.
LEMMA ImageFields ==
    ASSUME img \in Image
    PROVE  /\ img.size \in Nat
           /\ img.hdr \in Addr
           /\ Len(img.cmds) \in Nat /\ DOMAIN img.cmds = 1 .. Len(img.cmds)
           /\ \A i \in DOMAIN img.cmds :
                /\ img.cmds[i].cmd \in Cmds
                /\ img.cmds[i].vmaddr \in Addr /\ img.cmds[i].vmsize \in Addr
                /\ img.cmds[i].fileoff \in Addr /\ img.cmds[i].filesize \in Addr
           /\ \A j \in DOMAIN img.syms : img.syms[j].value \in Addr
           /\ \A i \in DOMAIN img.ext : img.ext[i].addr \in Addr
           /\ \A i \in DOMAIN img.loc : img.loc[i].addr \in Addr
<1>1. /\ img.size \in Nat /\ img.hdr \in Addr
      /\ img.cmds \in Seq(Cmd) /\ img.syms \in Seq(Sym)
      /\ img.ext \in Seq(Rel) /\ img.loc \in Seq(Rel)
  BY DEF Image
<1>2. /\ \A i \in DOMAIN img.cmds : img.cmds[i] \in Cmd
      /\ \A i \in DOMAIN img.syms : img.syms[i] \in Sym
      /\ \A i \in DOMAIN img.ext : img.ext[i] \in Rel
      /\ \A i \in DOMAIN img.loc : img.loc[i] \in Rel
  BY <1>1
<1>3. Len(img.cmds) \in Nat /\ DOMAIN img.cmds = 1 .. Len(img.cmds)
  BY <1>1
<1> QED
  BY <1>1, <1>2, <1>3 DEF Cmd, Sym, Rel

\* 64-bit arithmetic stays in 64 bits, and is exact where it does not wrap.
LEMMA Arithmetic ==
    ASSUME NEW a \in Addr, NEW b \in Addr
    PROVE  /\ Add(a, b) \in Addr /\ Sub(a, b) \in Addr
           /\ a <= Add(a, b) => Add(a, b) = a + b
           /\ b <= a => Sub(a, b) = a - b
           /\ Sub(a, 0) = a /\ Add(0, b) = b
  BY SpaceAssumption DEF Addr, Add, Sub

LEMMA InitIInv == Init => IInv
  BY ImagesAssumption, SpaceAssumption, ImageFields
     DEF Init, IInv, TypeOK, LoopInv, ParsedInv, KmodInv, RelocInv, AllocInv,
         FreshInv, ForeignIntact, Labels, Outcomes, Loading, Relocated, Symbolised,
         Parsed, Segments, Addr, KmodSize

\* A refused upload, and a step that changes nothing.
LEMMA RefuseStep == ASSUME IInv, Refuse PROVE IInv'
  BY DEF IInv, Refuse, parseVars, loadVars, TypeOK, LoopInv, SegmentInv, ParsedInv,
         KmodInv, RelocInv, AllocInv, FreshInv, ForeignIntact, Labels, Outcomes,
         Loading, Relocated, Symbolised, Parsed, Unmapped, Segments

LEMMA StutterStep == ASSUME IInv, UNCHANGED vars PROVE IInv'
  BY DEF IInv, vars, parseVars, loadVars, TypeOK, LoopInv, SegmentInv, ParsedInv,
         KmodInv, RelocInv, AllocInv, FreshInv, ForeignIntact, InBounds, Segments

LEMMA HeaderStep == ASSUME IInv, ParseHeader PROVE IInv'
<1>1. CASE Refuse
  BY <1>1, RefuseStep
<1>2. CASE ~Refuse
  BY <1>2 DEF ParseHeader, IInv, parseVars, loadVars, TypeOK, LoopInv, SegmentInv,
         ParsedInv, KmodInv, RelocInv, AllocInv, FreshInv, ForeignIntact, Labels,
         Outcomes, Loading, Relocated, Symbolised, Parsed, Unmapped, Segments
<1> QED
  BY <1>1, <1>2

LEMMA CommandStep == ASSUME IInv, ParseCommand PROVE IInv'
<1> DEFINE lc == img.cmds[idx]
<1>1. CASE Refuse
  BY <1>1, RefuseStep
<1>2. CASE ~Refuse
  <2>1. /\ pc = "commands" /\ pc' = pc /\ img' = img /\ idx <= Len(img.cmds)
        /\ idx' = idx + 1 /\ CommandOK(lc)
        /\ UNCHANGED <<vm_size, kmod, alloc, mem>>
    BY <1>2 DEF ParseCommand, parseVars, loadVars
  <2>2. /\ idx \in DOMAIN img.cmds /\ lc.cmd \in Cmds
        /\ lc.vmaddr \in Addr /\ lc.vmsize \in Addr
    BY <2>1, ImageFields DEF IInv, TypeOK
  <2>3. CASE lc.cmd = "SEGMENT_64"
    <3>1. SegmentOK(lc)
      BY <2>1, <2>3 DEF CommandOK
    <3>2. /\ seen' = seen \cup {"SEGMENT_64"}
          /\ vmaddr' = Add(lc.vmaddr, lc.vmsize)
          /\ vm_base' = IF "SEGMENT_64" \in seen THEN vm_base ELSE lc.vmaddr
      BY <1>2, <2>3 DEF ParseCommand
    <3>3. vmaddr' = lc.vmaddr + lc.vmsize /\ vmaddr' \in Addr
      BY <2>2, <3>1, <3>2, Arithmetic DEF SegmentOK
    <3>4. vm_base' \in Addr
      BY <2>2, <3>2 DEF IInv, TypeOK
    <3>5. vm_base' <= lc.vmaddr
      BY <2>2, <3>1, <3>2 DEF SegmentOK, IInv, LoopInv, TypeOK, Addr
    <3>6. TypeOK'
      BY <1>2, <2>1, <2>2, <2>3, <3>2, <3>3, <3>4 DEF ParseCommand, IInv, TypeOK, Destroyed, Cmds
    <3>7. ASSUME NEW i \in Segments, i < idx
          PROVE  SegmentIn(img.cmds[i], img.size, vm_base', vmaddr')
      <4>1. SegmentInv(i) /\ "SEGMENT_64" \in seen
        BY <3>7 DEF IInv, LoopInv
      <4>2. vmaddr <= vmaddr' /\ vm_base' = vm_base
        BY <2>2, <3>1, <3>2, <3>3, <4>1 DEF SegmentOK, Addr
      <4>3. img.cmds[i].vmaddr \in Addr /\ img.cmds[i].vmsize \in Addr /\ vmaddr \in Addr
        BY ImageFields DEF Segments, IInv, TypeOK
      <4> QED
        BY <3>3, <4>1, <4>2, <4>3 DEF SegmentInv, SegmentIn, Addr
    <3>8. SegmentIn(lc, img.size, vm_base', vmaddr')
      BY <2>2, <3>1, <3>3, <3>5 DEF SegmentOK, SegmentIn, Addr
    <3>9. ASSUME NEW i \in Segments, i < idx + 1
          PROVE  SegmentIn(img.cmds[i], img.size, vm_base', vmaddr')
      BY <3>7, <3>8, <3>9, ImageFields DEF Segments, IInv, TypeOK
    <3>10. LoopInv'
      BY <2>1, <2>2, <3>2, <3>3, <3>4, <3>5, <3>9 DEF LoopInv, SegmentInv, Segments, Addr
    <3> QED
      BY <2>1, <3>6, <3>10
         DEF IInv, ParsedInv, KmodInv, RelocInv, AllocInv, FreshInv, ForeignIntact,
             Loading, Relocated, Symbolised, Parsed, Unmapped
  <2>4. CASE lc.cmd # "SEGMENT_64"
    <3>1. /\ UNCHANGED <<vmaddr, vm_base>>
          /\ seen' = seen \cup {lc.cmd}
      BY <1>2, <2>4 DEF ParseCommand
    <3>2. TypeOK'
      BY <1>2, <2>1, <2>2, <3>1 DEF ParseCommand, IInv, TypeOK, Destroyed
    <3>3. LoopInv'
      BY <2>1, <2>4, <3>1, ImageFields DEF LoopInv, SegmentInv, Segments, IInv, TypeOK
    <3> QED
      BY <2>1, <3>2, <3>3
         DEF IInv, ParsedInv, KmodInv, RelocInv, AllocInv, FreshInv, ForeignIntact,
             Loading, Relocated, Symbolised, Parsed, Unmapped
  <2> QED
    BY <2>3, <2>4
<1> QED
  BY <1>1, <1>2

LEMMA EndStep == ASSUME IInv, EndCommands PROVE IInv'
<1>1. CASE Refuse
  BY <1>1, RefuseStep
<1>2. CASE ~Refuse
  <2>1. /\ pc = "commands" /\ pc' = "symbols" /\ "SEGMENT_64" \in seen
        /\ idx > Len(img.cmds) /\ vm_size' = Sub(vmaddr, vm_base)
        /\ UNCHANGED <<img, idx, seen, destroyed, vmaddr, vm_base, kmod, alloc, mem>>
    BY <1>2 DEF EndCommands, loadVars
  <2>2. vm_size' = vmaddr - vm_base /\ vm_size' \in Addr
    BY <2>1, Arithmetic DEF IInv, TypeOK, LoopInv
  <2> QED
    BY <2>1, <2>2
       DEF IInv, TypeOK, LoopInv, SegmentInv, ParsedInv, KmodInv, RelocInv, AllocInv,
           FreshInv, ForeignIntact, Labels, Outcomes, Loading, Relocated, Symbolised,
           Parsed, Unmapped, Segments
<1> QED
  BY <1>1, <1>2

LEMMA SymbolsStep == ASSUME IInv, CheckSymbols PROVE IInv'
<1>1. CASE Refuse
  BY <1>1, RefuseStep
<1>2. CASE ~Refuse
  <2>1. /\ pc = "symbols" /\ pc' = "relocations"
        /\ UNCHANGED <<img, idx, seen, destroyed, vmaddr, vm_base, vm_size, alloc, mem>>
    BY <1>2 DEF CheckSymbols, loadVars
  <2>2. PICK k \in DOMAIN img.syms :
            /\ IsKmod(k) /\ kmod' = img.syms[k].value
            /\ SymbolOK(img.syms[k]) /\ KmodOK(img.syms[k])
    BY <1>2 DEF CheckSymbols, IsKmod
  <2>3. img.syms[k].value \in Addr /\ KmodSize \in Addr
    BY <2>2, ImageFields, SpaceAssumption DEF IInv, TypeOK, Addr, KmodSize
  <2>4. kmod' \in Addr /\ vm_base <= kmod' /\ kmod' + KmodSize <= vmaddr
    BY <2>2, <2>3, Arithmetic DEF SymbolOK, KmodOK
  <2> QED
    BY <2>1, <2>4
       DEF IInv, TypeOK, LoopInv, SegmentInv, ParsedInv, KmodInv, RelocInv, AllocInv,
           FreshInv, ForeignIntact, Labels, Outcomes, Loading, Relocated, Symbolised,
           Parsed, Unmapped, Segments
<1> QED
  BY <1>1, <1>2

LEMMA RelocationsStep == ASSUME IInv, CheckRelocations PROVE IInv'
<1>1. CASE Refuse
  BY <1>1, RefuseStep
<1>2. CASE ~Refuse
  <2>1. /\ pc = "relocations" /\ pc' = "alloc"
        /\ UNCHANGED <<img, idx, seen, destroyed, vmaddr, vm_base, vm_size, kmod, alloc, mem>>
        /\ \A i \in DOMAIN img.ext : InBounds(img.ext[i].addr)
        /\ \A i \in DOMAIN img.loc : InBounds(img.loc[i].addr)
    BY <1>2 DEF CheckRelocations, ExternalOK, LocalOK, parseVars, loadVars
  <2> QED
    BY <2>1
       DEF IInv, TypeOK, LoopInv, SegmentInv, ParsedInv, KmodInv, RelocInv, InBounds,
           AllocInv, FreshInv, ForeignIntact, Labels, Outcomes, Loading, Relocated,
           Symbolised, Parsed, Unmapped, Segments
<1> QED
  BY <1>1, <1>2

LEMMA AllocStep == ASSUME IInv, Alloc PROVE IInv'
<1>1. CASE Refuse
  BY <1>1, RefuseStep
<1>2. CASE ~Refuse
  <2>1. /\ pc = "alloc" /\ pc' = "map"
        /\ UNCHANGED <<img, idx, seen, destroyed, vmaddr, vm_base, vm_size, kmod>>
        /\ AllocFits(AllocSize) /\ alloc' = AllocSize
        /\ mem' = [o \in Addr |-> IF o < AllocSize THEN Zero ELSE Foreign]
    BY <1>2 DEF Alloc, parseVars
  <2>2. alloc' \in 0 .. Space32 - 1
    <3>1. Add(vm_size, Page - 1) \in Int
      BY SpaceAssumption DEF Add, IInv, TypeOK, Addr
    <3> DEFINE r == Add(vm_size, Page - 1) - (Add(vm_size, Page - 1) % Page)
    <3>2. r \in Int
      BY <3>1, SpaceAssumption
    <3>3. Space32 \in Nat \ {0}
      BY SpaceAssumption DEF KmodSize
    <3>4. alloc' = r % Space32
      BY <2>1 DEF AllocSize
    <3> HIDE DEF r
    <3> QED
      BY <3>2, <3>3, <3>4
  <2>3. vm_size <= alloc'
    BY <2>1 DEF AllocFits
  <2>4. ForeignIntact'
    BY <2>1, <2>2 DEF ForeignIntact, Addr
  <2>5. DOMAIN mem' = Addr
    BY <2>1
  <2> QED
    BY <2>1, <2>2, <2>3, <2>4, <2>5
       DEF IInv, TypeOK, LoopInv, SegmentInv, ParsedInv, KmodInv, RelocInv, InBounds,
           AllocInv, FreshInv, Labels, Outcomes, Loading, Relocated,
           Symbolised, Parsed, Unmapped, Segments
<1> QED
  BY <1>1, <1>2

\* No segment and no part of kmod_info reaches a word beyond the allocation.
LEMMA MapStaysInside ==
    ASSUME IInv, pc \in Loading, NEW o \in Addr, alloc <= o
    PROVE  /\ \A i \in Segments : ~Covers(i, o)
           /\ ~(Sub(o, KmodOff) < KmodSize)
<1>1. /\ vm_size = vmaddr - vm_base /\ vm_size <= alloc /\ idx > Len(img.cmds)
      /\ vm_base <= kmod /\ kmod + KmodSize <= vmaddr
  BY DEF IInv, ParsedInv, AllocInv, KmodInv, Parsed, Symbolised, Relocated
<1>2. /\ vmaddr \in Addr /\ vm_base \in Addr /\ vm_size \in Addr /\ kmod \in Addr
      /\ alloc \in Nat /\ idx \in Nat /\ img \in Image
  BY SpaceAssumption DEF IInv, TypeOK, Addr
<1>3. ASSUME NEW i \in Segments PROVE ~Covers(i, o)
  <2>1. /\ i \in DOMAIN img.cmds /\ i < idx
        /\ img.cmds[i].vmaddr \in Addr /\ img.cmds[i].vmsize \in Addr
        /\ img.cmds[i].filesize \in Addr
    BY <1>1, <1>2, ImageFields DEF Segments
  <2>2. /\ vm_base <= img.cmds[i].vmaddr
        /\ img.cmds[i].vmaddr + img.cmds[i].vmsize <= vmaddr
        /\ img.cmds[i].filesize <= img.cmds[i].vmsize
    BY <2>1 DEF IInv, LoopInv, SegmentInv, SegmentIn
  <2>3. SegOff(i) = img.cmds[i].vmaddr - vm_base /\ SegOff(i) \in Addr
    BY <1>2, <2>1, <2>2, Arithmetic DEF SegOff
  <2>4. SegOff(i) + img.cmds[i].filesize <= o
    <3> DEFINE a == img.cmds[i].vmaddr
               f == img.cmds[i].filesize
               v == img.cmds[i].vmsize
    <3>1. a \in Int /\ f \in Int /\ v \in Int /\ o \in Int /\ vm_base \in Int /\ vmaddr \in Int
      BY <1>2, <2>1, SpaceAssumption DEF Addr
    <3>2. SegOff(i) = a - vm_base /\ a + v <= vmaddr /\ f <= v /\ vmaddr - vm_base <= o
      BY <1>1, <1>2, <2>2, <2>3, <3>1
    <3> HIDE DEF a, f, v
    <3>3. a - vm_base + f <= o
      BY <3>1, <3>2
    <3> QED
      BY <3>2, <3>3 DEF f
  <2>5. Sub(o, SegOff(i)) = o - SegOff(i)
    <3>1. SegOff(i) <= o
      BY <2>1, <2>3, <2>4, SpaceAssumption DEF Addr
    <3> QED
      BY <2>3, <3>1, Arithmetic
  <2> QED
    BY <2>1, <2>3, <2>4, <2>5 DEF Covers, Addr
<1>4. ~(Sub(o, KmodOff) < KmodSize)
  <2>1. KmodOff = kmod - vm_base /\ KmodOff \in Addr
    BY <1>1, <1>2, Arithmetic DEF KmodOff
  <2>2. KmodOff + KmodSize <= o
    BY <1>1, <1>2, <2>1 DEF Addr, KmodSize
  <2>3. Sub(o, KmodOff) = o - KmodOff
    BY <2>1, <2>2, Arithmetic DEF Addr, KmodSize
  <2> QED
    BY <2>1, <2>2, <2>3 DEF Addr, KmodSize
<1> QED
  BY <1>3, <1>4

\* The bounds check keeps the relocations of an image linked at 0 inside.
LEMMA RelocationsStayInside ==
    ASSUME IInv, pc \in Loading, vm_base = 0, NEW o \in Addr, alloc <= o
    PROVE  /\ \A i \in DOMAIN img.loc : RelocOff(img.loc[i]) # o
           /\ \A i \in DOMAIN img.ext : RelocOff(img.ext[i]) # o
<1>1. /\ vm_size <= alloc /\ vm_size \in Addr /\ alloc \in 0 .. Space32 - 1
      /\ \A i \in DOMAIN img.ext : InBounds(img.ext[i].addr)
      /\ \A i \in DOMAIN img.loc : InBounds(img.loc[i].addr)
  BY DEF IInv, AllocInv, RelocInv, Relocated, TypeOK
<1>2. ASSUME NEW a \in Addr, InBounds(a) PROVE a < o
  <2>1. a <= vm_size /\ Add(a, Word) <= vm_size
    <3>1. 0 \in Addr /\ Add(0, a) = a
      BY <1>2, SpaceAssumption DEF Add, Addr, KmodSize
    <3> QED
      BY <1>2, <3>1 DEF InBounds
  <2>2. a + 1 < Space
    BY <1>1, <1>2, <2>1, SpaceAssumption DEF Addr, KmodSize
  <2> QED
    BY <1>1, <1>2, <2>1, <2>2, SpaceAssumption DEF Add, Word, Addr
<1>3. \A a \in Addr : Sub(a, vm_base) = a
  BY Arithmetic
<1>4. /\ \A i \in DOMAIN img.ext : img.ext[i].addr \in Addr
      /\ \A i \in DOMAIN img.loc : img.loc[i].addr \in Addr
  BY ImageFields DEF IInv, TypeOK
<1> QED
  BY <1>1, <1>2, <1>3, <1>4 DEF RelocOff, Addr

\* A word beyond the allocation is what it was after a round of relocations.
LEMMA SlideStaysInside ==
    ASSUME IInv, pc \in Loading, vm_base = 0, NEW o \in Addr, alloc <= o
    PROVE  Slide(mem)[o] = Foreign
<1>1. {i \in DOMAIN img.loc : RelocOff(img.loc[i]) = o} = {}
  BY RelocationsStayInside
<1>2. Slide(mem)[o] = [mem[o] EXCEPT !.slid = @ + 0]
  BY <1>1, FS_EmptySet DEF Slide
<1>3. mem[o] = Foreign
  BY DEF IInv, ForeignIntact
<1> QED
  BY <1>2, <1>3 DEF Foreign

\* The steps after kext_alloc change only memory, the mapped header and pc.
LEMMA LoadStep ==
    ASSUME IInv, pc \in Loading, pc' \in Loading, DOMAIN mem' = Addr, ForeignIntact',
           UNCHANGED <<img, parseVars, alloc>>
    PROVE  IInv'
  BY DEF IInv, parseVars, TypeOK, LoopInv, SegmentInv, ParsedInv, KmodInv, RelocInv,
         InBounds, AllocInv, FreshInv, Labels, Outcomes, Loading, Relocated,
         Symbolised, Parsed, Unmapped, Segments

LEMMA MapStep == ASSUME IInv, Map PROVE IInv'
<1>1. pc \in Loading /\ pc' \in Loading /\ DOMAIN mem' = Addr
  BY DEF Map, Loading
<1>2. ASSUME vm_base = 0, NEW o \in Addr, alloc <= o PROVE mem'[o] = Foreign
  <2>1. mem'[o] = mem[o]
    BY <1>1, <1>2, MapStaysInside DEF Map, MappedWord
  <2> QED
    BY <1>2, <2>1 DEF IInv, ForeignIntact
<1>3. ForeignIntact'
  BY <1>2 DEF Map, ForeignIntact, parseVars
<1> QED
  BY <1>1, <1>3, LoadStep DEF Map

LEMMA RelocateStep == ASSUME IInv, Relocate PROVE IInv'
<1>1. pc \in Loading /\ pc' \in Loading /\ DOMAIN mem' = Addr
  BY DEF Relocate, Slide, Loading
<1>2. ForeignIntact'
  BY <1>1, SlideStaysInside DEF Relocate, ForeignIntact, parseVars
<1> QED
  BY <1>1, <1>2, LoadStep DEF Relocate

LEMMA LinkStep == ASSUME IInv, Link PROVE IInv'
<1>1. pc \in Loading /\ pc' \in Loading /\ DOMAIN mem' = Addr
  BY DEF Link, Loading
<1>2. ASSUME vm_base = 0, NEW o \in Addr, alloc <= o PROVE mem'[o] = Foreign
  <2>1. LinkedAt(o) = {}
    BY <1>1, <1>2, RelocationsStayInside DEF LinkedAt
  <2>2. mem'[o] = mem[o]
    BY <2>1 DEF Link
  <2> QED
    BY <1>2, <2>2 DEF IInv, ForeignIntact
<1>3. ForeignIntact'
  BY <1>2 DEF Link, ForeignIntact, parseVars
<1> QED
  BY <1>1, <1>3, LoadStep DEF Link

LEMMA BootStep == ASSUME IInv, SlidePrelinked PROVE IInv'
<1>1. pc \in Loading /\ pc' \in Loading /\ DOMAIN mem' = Addr
  BY DEF SlidePrelinked, Slide, Loading, IInv, TypeOK
<1>2. mem' = mem \/ mem' = Slide(mem)
  BY DEF SlidePrelinked
<1>3. ForeignIntact'
  BY <1>1, <1>2, SlideStaysInside DEF SlidePrelinked, ForeignIntact, parseVars, IInv
<1> QED
  BY <1>1, <1>3, LoadStep DEF SlidePrelinked

\* The inductive invariant: what kext_parse has established at each of its stages,
\* and that nothing beyond the allocation has been written.
THEOREM Invariance == Spec => []IInv
<1>1. IInv /\ [Next]_vars => IInv'
  BY HeaderStep, CommandStep, EndStep, SymbolsStep, RelocationsStep, AllocStep,
     MapStep, RelocateStep, LinkStep, BootStep, StutterStep DEF Next, Done
<1> QED
  BY <1>1, InitIInv, PTL DEF Spec

\* Every variable of the device's parser and loader keeps its type, whatever the
\* upload says.
THEOREM TypeCorrect == Spec => []TypeOK
<1>1. IInv => TypeOK
  BY DEF IInv
<1> QED
  BY <1>1, Invariance, PTL

\* In an image that kext_alloc had room for, a segment lies in the upload and in
\* the allocation: the additions that kext_parse checked it with did not wrap.
LEMMA SegmentBounds ==
    ASSUME IInv, pc \in Loading, NEW i \in Segments
    PROVE  /\ img.cmds[i].fileoff + img.cmds[i].filesize <= img.size
           /\ vm_base <= img.cmds[i].vmaddr
           /\ img.cmds[i].vmaddr - vm_base + img.cmds[i].filesize <= alloc
<1>1. /\ vm_size = vmaddr - vm_base /\ vm_size <= alloc /\ idx > Len(img.cmds)
      /\ vmaddr \in Addr /\ vm_base \in Addr /\ alloc \in 0 .. Space32 - 1
      /\ idx \in Nat /\ img \in Image /\ img \in Images
  BY DEF IInv, ParsedInv, AllocInv, Loading, Parsed, Symbolised, Relocated, TypeOK
<1>2. /\ i < idx /\ img.size \in Nat
      /\ img.cmds[i].vmaddr \in Addr /\ img.cmds[i].vmsize \in Addr
      /\ img.cmds[i].filesize \in Addr /\ img.cmds[i].fileoff \in Addr
  BY <1>1, ImageFields DEF Segments
<1>3. SegmentInv(i)
  BY <1>2 DEF IInv, LoopInv
<1> DEFINE a == img.cmds[i].vmaddr
           f == img.cmds[i].filesize
           v == img.cmds[i].vmsize
           o == img.cmds[i].fileoff
<1>4. /\ a \in Int /\ f \in Int /\ v \in Int /\ o \in Addr /\ f \in Addr
      /\ vm_base \in Int /\ vmaddr \in Int /\ alloc \in Int
  <2>1. a \in Addr /\ f \in Addr /\ v \in Addr /\ o \in Addr
    BY <1>2
  <2>2. Addr \subseteq Int /\ 0 .. Space32 - 1 \subseteq Int
    BY SpaceAssumption DEF Addr
  <2> HIDE DEF a, f, v, o
  <2> QED
    BY <1>1, <2>1, <2>2
<1>5. /\ a + v <= vmaddr /\ f <= v /\ vmaddr - vm_base <= alloc /\ vm_base <= a
      /\ o <= img.size /\ Add(o, f) <= img.size
  BY <1>1, <1>3 DEF SegmentInv, SegmentIn
<1>6. img.size + Space32 <= Space
  BY <1>1, ImagesAssumption
<1> HIDE DEF a, f, v, o
<1>7. a - vm_base + f <= alloc
  BY <1>4, <1>5
<1>8. f < Space32
  BY <1>1, <1>4, <1>5, <1>7, SpaceAssumption
<1>9. o + f < Space
  BY <1>2, <1>4, <1>5, <1>6, <1>8, SpaceAssumption DEF Addr
<1>10. o + f <= img.size
  BY <1>5, <1>9 DEF Add
<1> QED
  BY <1>5, <1>7, <1>10 DEF a, f, v, o

\* kext_map reads inside the upload and writes inside the allocation for every
\* upload, although kext_parse checks the file range with wrapping additions.
THEOREM CopiesSafe == Spec => []CopiesInBounds
<1>1. IInv => CopiesInBounds
  BY SegmentBounds DEF CopiesInBounds, Loading
<1> QED
  BY <1>1, Invariance, PTL

\* Loading an image that is linked at address 0 writes nothing outside of the
\* memory that kext_alloc got for it.
THEOREM ForeignSafe == Spec => []ForeignIntact
<1>1. IInv => ForeignIntact
  BY DEF IInv
<1> QED
  BY <1>1, Invariance, PTL

-----------------------------------------------------------------------------
(* What the loader leaves in memory.  The segments tile the image, so the  *)
(* memory of an image linked at 0 is known word by word at every stage.    *)

\* Segment i holds the address a.
Holds(i, a) ==
    /\ img.cmds[i].vmaddr <= a
    /\ a < img.cmds[i].vmaddr + img.cmds[i].vmsize

\* The segments passed so far hold each address of the image exactly once.
TileInv ==
    "SEGMENT_64" \in seen =>
        /\ \A a \in Addr : vm_base <= a /\ a < vmaddr =>
             \E i \in Segments : i < idx /\ Holds(i, a)
        /\ \A a \in Addr : \A i, j \in Segments :
             i < idx /\ j < idx /\ Holds(i, a) /\ Holds(j, a) => i = j

DestroyedInv ==
    destroyed = {i \in DOMAIN img.cmds : i < idx /\ img.cmds[i].cmd = "SPLIT_INFO"}

KnownInv ==
    pc \in Relocated => \A i \in DOMAIN img.ext : img.syms[img.ext[i].sym].name \in Known

\* The mapped header, as far as XNU looks at it.
Header(nloc, next, nsym) ==
    [nlocrel |-> nloc, nextrel |-> next, nsyms |-> nsym,
     vmaddrs |-> [i \in Segments |-> SegOff(i)]]

HdrInv ==
    /\ pc = "relocate" => hdr = Header(Len(img.loc), Len(img.ext), Len(img.syms))
    /\ pc = "link" => hdr = Header(0, Len(img.ext), 0)
    /\ pc \in {"linked", "booted"} => hdr = Header(0, 0, 0)
    /\ pc # "unusable"

LocalAt(o)  == {i \in DOMAIN img.loc : img.loc[i].addr = o}
SlidWord(o) == [SegmentWord(o) EXCEPT !.slid = Cardinality(LocalAt(o))]

MemInv ==
    /\ pc = "map" => \A o \in Addr : o < alloc => mem[o] = Zero
    /\ vm_base = 0 =>
         \A o \in 0 .. vm_size - 1 :
            /\ pc = "relocate" => mem[o] = SegmentWord(o)
            /\ pc = "link" => mem[o] = SlidWord(o)
            /\ pc \in {"linked", "booted"} => mem[o] = ReferenceWord(o)

ResultInv == TileInv /\ DestroyedInv /\ KnownInv /\ HdrInv /\ MemInv

FullInv == IInv /\ ResultInv

LEMMA InitFullInv == Init => FullInv
<1> SUFFICES ASSUME Init PROVE FullInv
  OBVIOUS
<1>1. IInv
  BY InitIInv
<1>2. TileInv /\ KnownInv /\ HdrInv /\ MemInv
  BY DEF Init, TileInv, KnownInv, HdrInv, MemInv, Relocated, Loading
<1>3. DestroyedInv
  <2>1. DOMAIN img.cmds = 1 .. Len(img.cmds) /\ Len(img.cmds) \in Nat
    BY <1>1, ImageFields DEF IInv, TypeOK
  <2> QED
    BY <2>1 DEF Init, DestroyedInv
<1> QED
  BY <1>1, <1>2, <1>3 DEF FullInv, ResultInv

\* Steps that leave the parsed load commands alone.
LEMMA SameCommands ==
    ASSUME FullInv, UNCHANGED <<img, idx, seen, destroyed, vmaddr, vm_base>>
    PROVE  TileInv' /\ DestroyedInv'
  BY DEF FullInv, ResultInv, TileInv, DestroyedInv, Holds, Segments

LEMMA RefuseResult == ASSUME FullInv, Refuse PROVE ResultInv'
<1>1. TileInv' /\ DestroyedInv'
  BY SameCommands DEF Refuse, parseVars
<1>2. KnownInv' /\ HdrInv' /\ MemInv'
  BY DEF Refuse, KnownInv, HdrInv, MemInv, Relocated, Loading
<1> QED
  BY <1>1, <1>2 DEF ResultInv

LEMMA CommandTiles == ASSUME FullInv, ParseCommand, ~Refuse PROVE TileInv'
<1> DEFINE lc == img.cmds[idx]
<1>1. /\ pc = "commands" /\ img' = img /\ idx <= Len(img.cmds)
      /\ idx' = idx + 1 /\ CommandOK(lc) /\ Segments' = Segments
  BY DEF ParseCommand, Segments
<1>2. /\ idx \in DOMAIN img.cmds /\ lc.cmd \in Cmds /\ idx \in Nat
      /\ lc.vmaddr \in Addr /\ lc.vmsize \in Addr /\ vmaddr \in Addr /\ vm_base \in Addr
      /\ \A i \in Segments : i \in Nat /\ img.cmds[i].vmaddr \in Addr /\ img.cmds[i].vmsize \in Addr
  BY <1>1, ImageFields DEF FullInv, IInv, TypeOK, Segments
<1>3. \A i, a : Holds(i, a)' <=> Holds(i, a)
  BY <1>1 DEF Holds
<1>4. CASE lc.cmd = "SEGMENT_64"
  <2>1. SegmentOK(lc) /\ idx \in Segments
    BY <1>1, <1>2, <1>4 DEF CommandOK, Segments
  <2>2. /\ vmaddr' = Add(lc.vmaddr, lc.vmsize)
        /\ vm_base' = IF "SEGMENT_64" \in seen THEN vm_base ELSE lc.vmaddr
    BY <1>4 DEF ParseCommand
  <2>3. vmaddr' = lc.vmaddr + lc.vmsize
    BY <1>2, <2>1, <2>2, Arithmetic DEF SegmentOK
  <2>4. \A i \in Segments : i < idx + 1 <=> i < idx \/ i = idx
    BY <1>2
  <2>5. \A a : Holds(idx, a) <=> lc.vmaddr <= a /\ a < vmaddr'
    BY <2>3 DEF Holds
  <2>6. \A i \in Segments : i < idx => "SEGMENT_64" \in seen /\ SegmentInv(i)
    BY DEF FullInv, IInv, LoopInv
  <2>7. ASSUME NEW a \in Addr, NEW i \in Segments, i < idx, Holds(i, a)
        PROVE  ~Holds(idx, a)
    <3>1. img.cmds[i].vmaddr + img.cmds[i].vmsize <= vmaddr /\ lc.vmaddr = vmaddr
      BY <2>1, <2>6, <2>7 DEF SegmentInv, SegmentIn, SegmentOK
    <3> QED
      BY <1>2, <2>7, <3>1 DEF Holds, Addr
  <2>8. ASSUME NEW a \in Addr, vm_base' <= a, a < vmaddr'
        PROVE  \E i \in Segments : i < idx + 1 /\ Holds(i, a)
    <3>1. CASE lc.vmaddr <= a
      BY <1>2, <2>1, <2>4, <2>5, <2>8, <3>1
    <3>2. CASE ~(lc.vmaddr <= a)
      <4>1. "SEGMENT_64" \in seen /\ vm_base <= a /\ a < vmaddr
        BY <1>2, <2>1, <2>2, <2>8, <3>2 DEF SegmentOK, Addr
      <4>2. \E i \in Segments : i < idx /\ Holds(i, a)
        BY <4>1 DEF FullInv, ResultInv, TileInv
      <4> QED
        BY <2>4, <4>2
    <3> QED
      BY <3>1, <3>2
  <2>9. ASSUME NEW a \in Addr, NEW i \in Segments, NEW j \in Segments,
               i < idx + 1, j < idx + 1, Holds(i, a), Holds(j, a)
        PROVE  i = j
    <3>1. CASE i = idx \/ j = idx
      BY <2>1, <2>4, <2>7, <2>9, <3>1
    <3>2. CASE i < idx /\ j < idx
      BY <2>6, <2>9, <3>2 DEF FullInv, ResultInv, TileInv
    <3> QED
      BY <2>4, <2>9, <3>1, <3>2
  <2> QED
    BY <1>1, <1>3, <2>8, <2>9 DEF TileInv
<1>5. CASE lc.cmd # "SEGMENT_64"
  <2>1. /\ UNCHANGED <<vmaddr, vm_base>>
        /\ "SEGMENT_64" \in seen' => "SEGMENT_64" \in seen
    BY <1>5 DEF ParseCommand
  <2>2. \A i \in Segments : i < idx + 1 <=> i < idx
    BY <1>2, <1>5 DEF Segments
  <2> QED
    BY <1>1, <1>3, <2>1, <2>2 DEF FullInv, ResultInv, TileInv
<1> QED
  BY <1>4, <1>5

LEMMA CommandResult == ASSUME FullInv, ParseCommand PROVE ResultInv'
<1>1. CASE Refuse
  BY <1>1, RefuseResult
<1>2. CASE ~Refuse
  <2>1. TileInv'
    BY <1>2, CommandTiles
  <2>2. /\ pc = "commands" /\ pc' = pc /\ img' = img /\ idx' = idx + 1
        /\ idx \in DOMAIN img.cmds
        /\ destroyed' = destroyed \cup (IF img.cmds[idx].cmd = "SPLIT_INFO" THEN {idx} ELSE {})
    BY <1>2, ImageFields DEF ParseCommand, Destroyed, FullInv, IInv, TypeOK
  <2>3. \A i \in DOMAIN img.cmds : i < idx + 1 <=> i < idx \/ i = idx
    BY <2>2, ImageFields DEF FullInv, IInv, TypeOK
  <2>4. DestroyedInv'
    BY <2>2, <2>3, ImageFields DEF FullInv, IInv, TypeOK, ResultInv, DestroyedInv
  <2>5. KnownInv' /\ HdrInv' /\ MemInv'
    BY <2>2 DEF KnownInv, HdrInv, MemInv, Relocated, Loading
  <2> QED
    BY <2>1, <2>4, <2>5 DEF ResultInv
<1> QED
  BY <1>1, <1>2

\* The steps of kext_parse and kext_alloc that are left.
LEMMA ParseResult ==
    ASSUME FullInv, ParseHeader \/ EndCommands \/ CheckSymbols \/ CheckRelocations \/ Alloc
    PROVE  ResultInv'
<1>1. CASE Refuse
  BY <1>1, RefuseResult
<1>2. CASE ~Refuse
  <2>1. UNCHANGED <<img, idx, seen, destroyed, vmaddr, vm_base>>
    BY <1>2 DEF ParseHeader, EndCommands, CheckSymbols, CheckRelocations, Alloc, parseVars
  <2>2. TileInv' /\ DestroyedInv'
    BY <2>1, SameCommands
  <2>3. pc' \in {"commands", "symbols", "relocations", "alloc", "map"}
    BY <1>2 DEF ParseHeader, EndCommands, CheckSymbols, CheckRelocations, Alloc
  <2>4. HdrInv'
    BY <2>3 DEF HdrInv
  <2>5. KnownInv'
    <3>1. pc' = "alloc" => \A i \in DOMAIN img.ext : img.syms[img.ext[i].sym].name \in Known
      BY <1>2 DEF ParseHeader, EndCommands, CheckSymbols, CheckRelocations, Alloc, ExternalOK
    <3>2. pc' = "map" => \A i \in DOMAIN img.ext : img.syms[img.ext[i].sym].name \in Known
      <4>1. pc' = "map" => pc = "alloc"
        BY <1>2 DEF ParseHeader, EndCommands, CheckSymbols, CheckRelocations, Alloc
      <4> QED
        BY <4>1 DEF FullInv, ResultInv, KnownInv, Relocated
    <3> QED
      BY <2>1, <2>3, <3>1, <3>2 DEF KnownInv, Relocated, Loading
  <2>6. MemInv'
    <3>1. pc' = "map" => \A o \in Addr : o < alloc' => mem'[o] = Zero
      BY <1>2 DEF ParseHeader, EndCommands, CheckSymbols, CheckRelocations, Alloc
    <3> QED
      BY <2>3, <3>1 DEF MemInv
  <2> QED
    BY <2>2, <2>4, <2>5, <2>6 DEF ResultInv
<1> QED
  BY <1>1, <1>2

\* The memory that is left for a word o of an image linked at 0.
LEMMA MappedIsSegmentWord ==
    ASSUME FullInv, pc = "map", vm_base = 0, NEW o \in 0 .. vm_size - 1
    PROVE  MappedWord(o) = SegmentWord(o)
<1>1. /\ vm_size = vmaddr /\ vm_size <= alloc /\ idx > Len(img.cmds)
      /\ "SEGMENT_64" \in seen /\ 0 <= kmod /\ kmod + KmodSize <= vmaddr
      /\ alloc \in 0 .. Space32 - 1 /\ img \in Images /\ img \in Image
      /\ vmaddr \in Addr /\ kmod \in Addr /\ idx \in Nat
  <2>1. vm_size = vmaddr - 0 /\ vmaddr \in Addr
    BY DEF FullInv, IInv, ParsedInv, Parsed, Symbolised, Relocated, Loading, TypeOK
  <2>2. vm_size = vmaddr
    BY <2>1, SpaceAssumption DEF Addr
  <2> QED
    BY <2>2 DEF FullInv, IInv, ParsedInv, KmodInv, AllocInv, Loading, Parsed, Symbolised,
                Relocated, TypeOK
<1>2. o \in Addr /\ o \in Int /\ o < alloc /\ o < vmaddr /\ 0 <= o
  BY <1>1, SpaceAssumption DEF Addr
<1>3. mem[o] = Zero
  BY <1>2 DEF FullInv, ResultInv, MemInv
<1>4. /\ KmodOff = kmod
      /\ Sub(o, kmod) < KmodSize <=> 0 + o - kmod \in 0 .. KmodSize - 1
      /\ Sub(o, kmod) < KmodSize => Sub(o, kmod) = 0 + o - kmod
  <2>1. KmodOff = kmod
    BY <1>1, Arithmetic DEF KmodOff
  <2> QED
    BY <1>1, <1>2, <2>1, SpaceAssumption DEF Sub, Addr, KmodSize
<1> DEFINE In(i) == 0 + o - img.cmds[i].vmaddr \in 0 .. img.cmds[i].filesize - 1
<1>5. ASSUME NEW i \in Segments
      PROVE  /\ Covers(i, o) <=> In(i)
             /\ In(i) => /\ i < idx /\ Holds(i, o)
                         /\ Add(img.cmds[i].fileoff, Sub(o, SegOff(i)))
                              = img.cmds[i].fileoff + 0 + o - img.cmds[i].vmaddr
  <2> DEFINE a == img.cmds[i].vmaddr
             f == img.cmds[i].filesize
             v == img.cmds[i].vmsize
             q == img.cmds[i].fileoff
  <2>1. /\ i < idx /\ img.size \in Nat /\ img.size + Space32 <= Space
        /\ a \in Addr /\ f \in Addr /\ v \in Addr /\ q \in Addr
    BY <1>1, ImageFields, ImagesAssumption DEF Segments
  <2>2. a + v <= vmaddr /\ f <= v /\ q + f <= img.size
    <3>1. SegmentInv(i)
      BY <2>1 DEF FullInv, IInv, LoopInv
    <3>2. q + f <= img.size
      BY SegmentBounds DEF FullInv, Loading
    <3> QED
      BY <3>1, <3>2 DEF SegmentInv, SegmentIn
  <2>3. SegOff(i) = a
    BY <2>1, Arithmetic DEF SegOff
  <2>4. Holds(i, o) <=> a <= o /\ o < a + v
    BY DEF Holds
  <2>5. Covers(i, o) <=> Sub(o, a) < f
    BY <2>3 DEF Covers
  <2> HIDE DEF a, f, v, q
  <2>6. Sub(o, a) < f <=> 0 + o - a \in 0 .. f - 1
    BY <1>1, <1>2, <2>1, <2>2, SpaceAssumption DEF Sub, Addr
  <2>7. 0 + o - a \in 0 .. f - 1 =>
          /\ a <= o /\ o < a + v
          /\ Add(q, Sub(o, a)) = q + 0 + o - a
    <3>1. ASSUME 0 + o - a \in 0 .. f - 1
          PROVE  a <= o /\ o < a + v /\ Add(q, Sub(o, a)) = q + 0 + o - a
      <4>1. a <= o /\ o < a + f /\ Sub(o, a) = o - a
        BY <1>2, <2>1, <3>1 DEF Sub, Addr
      <4>2. q + (o - a) < Space
        BY <1>2, <2>1, <2>2, <4>1, SpaceAssumption DEF Addr
      <4> QED
        BY <1>2, <2>1, <2>2, <4>1, <4>2 DEF Add, Addr
    <3> QED
      BY <3>1
  <2> QED
    BY <2>1, <2>3, <2>4, <2>5, <2>6, <2>7 DEF a, f, v, q
<1>6. \A i, j \in Segments : In(i) /\ In(j) => i = j
  BY <1>1, <1>2, <1>5 DEF FullInv, ResultInv, TileInv
<1>7. CASE 0 + o - kmod \in 0 .. KmodSize - 1
  BY <1>4, <1>7 DEF MappedWord, SegmentWord
<1>8. CASE /\ ~(0 + o - kmod \in 0 .. KmodSize - 1)
           /\ \E i \in Segments : In(i)
  <2>1. PICK i \in Segments : In(i)
    BY <1>8
  <2>2. Covers(i, o) /\ \A j \in Segments : Covers(j, o) => j = i
    BY <1>5, <1>6, <2>1
  <2>3. (CHOOSE j \in Segments : Covers(j, o)) = i
    BY <2>2
  <2>4. (CHOOSE j \in Segments : In(j)) = i
    BY <1>6, <2>1
  <2>5. MappedWord(o) = FileWord(Add(img.cmds[i].fileoff, Sub(o, SegOff(i))))
    BY <1>4, <1>8, <2>2, <2>3 DEF MappedWord
  <2>6. SegmentWord(o) = FileWord(img.cmds[i].fileoff + 0 + o - img.cmds[i].vmaddr)
    BY <1>8, <2>1, <2>4 DEF SegmentWord
  <2> QED
    BY <1>5, <2>1, <2>5, <2>6
<1>9. CASE /\ ~(0 + o - kmod \in 0 .. KmodSize - 1)
           /\ ~\E i \in Segments : In(i)
  <2>1. ~\E i \in Segments : Covers(i, o)
    BY <1>5, <1>9
  <2> QED
    BY <1>3, <1>4, <1>9, <2>1 DEF MappedWord, SegmentWord
<1> QED
  BY <1>7, <1>8, <1>9

LEMMA MapResult == ASSUME FullInv, Map PROVE ResultInv'
<1>1. /\ pc = "map" /\ pc' = "relocate" /\ mem' = [o \in Addr |-> MappedWord(o)]
      /\ UNCHANGED <<img, idx, seen, destroyed, vmaddr, vm_base, vm_size, kmod, alloc>>
      /\ hdr' = Header(Len(img.loc), Len(img.ext), Len(img.syms))
  BY DEF Map, parseVars, Header
<1>2. TileInv' /\ DestroyedInv'
  BY <1>1, SameCommands
<1>3. KnownInv'
  BY <1>1 DEF FullInv, ResultInv, KnownInv, Relocated, Loading
<1>4. HdrInv'
  BY <1>1 DEF HdrInv, Header, Segments, SegOff
<1>5. MemInv'
  <2> SUFFICES ASSUME vm_base = 0, NEW o \in 0 .. vm_size - 1
               PROVE  mem'[o] = SegmentWord(o)'
    BY <1>1 DEF MemInv
  <2>1. o \in Addr
    BY SpaceAssumption DEF FullInv, IInv, TypeOK, Addr
  <2>2. SegmentWord(o)' = SegmentWord(o)
    BY <1>1 DEF SegmentWord, Segments
  <2> QED
    BY <1>1, <2>1, <2>2, MappedIsSegmentWord
<1> QED
  BY <1>2, <1>3, <1>4, <1>5 DEF ResultInv

\* In an image linked at 0 a relocation is applied at its address.
LEMMA RelocatedAt ==
    ASSUME FullInv, vm_base = 0
    PROVE  /\ \A i \in DOMAIN img.loc : RelocOff(img.loc[i]) = img.loc[i].addr
           /\ \A i \in DOMAIN img.ext : RelocOff(img.ext[i]) = img.ext[i].addr
  BY ImageFields, Arithmetic DEF FullInv, IInv, TypeOK, RelocOff

LEMMA RelocateResult == ASSUME FullInv, Relocate PROVE ResultInv'
<1>1. /\ pc = "relocate" /\ pc' = "link" /\ mem' = Slide(mem)
      /\ UNCHANGED <<img, idx, seen, destroyed, vmaddr, vm_base, vm_size, kmod, alloc>>
      /\ hdr' = [hdr EXCEPT !.nlocrel = 0, !.nsyms = 0]
  BY DEF Relocate, parseVars
<1>2. TileInv' /\ DestroyedInv'
  BY <1>1, SameCommands
<1>3. KnownInv'
  BY <1>1 DEF FullInv, ResultInv, KnownInv, Relocated, Loading
<1>4. HdrInv'
  <2>1. hdr = Header(Len(img.loc), Len(img.ext), Len(img.syms))
    BY <1>1 DEF FullInv, ResultInv, HdrInv
  <2>2. hdr' = Header(0, Len(img.ext), 0)
    BY <1>1, <2>1 DEF Header
  <2>3. Header(0, Len(img.ext), 0)' = Header(0, Len(img.ext), 0)
    BY <1>1 DEF Header, Segments, SegOff
  <2> QED
    BY <1>1, <2>2, <2>3 DEF HdrInv
<1>5. MemInv'
  <2> SUFFICES ASSUME vm_base = 0, NEW o \in 0 .. vm_size - 1
               PROVE  mem'[o] = SlidWord(o)'
    BY <1>1 DEF MemInv
  <2>1. o \in Addr
    BY SpaceAssumption DEF FullInv, IInv, TypeOK, Addr
  <2>2. SlidWord(o)' = SlidWord(o)
    BY <1>1 DEF SlidWord, SegmentWord, Segments, LocalAt
  <2>3. mem[o] = SegmentWord(o)
    BY <1>1 DEF FullInv, ResultInv, MemInv
  <2>4. {i \in DOMAIN img.loc : RelocOff(img.loc[i]) = o} = LocalAt(o)
    BY RelocatedAt DEF LocalAt
  <2>5. mem'[o] = [SegmentWord(o) EXCEPT !.slid = @ + Cardinality(LocalAt(o))]
    BY <1>1, <2>1, <2>3, <2>4 DEF Slide
  <2>6. SegmentWord(o).slid = 0 /\ DOMAIN SegmentWord(o) = {"what", "at", "slid"}
    BY DEF SegmentWord, KmodField, FileWord, Zero
  <2>7. Cardinality(LocalAt(o)) \in Nat
    <3>1. img.loc \in Seq(Rel)
      BY DEF FullInv, IInv, TypeOK, Image
    <3>2. IsFiniteSet(DOMAIN img.loc)
      BY <3>1, FS_Interval
    <3> QED
      BY <3>2, FS_Subset, FS_CardinalityType DEF LocalAt
  <2>8. 0 + Cardinality(LocalAt(o)) = Cardinality(LocalAt(o))
    BY <2>7
  <2> QED
    BY <2>2, <2>5, <2>6, <2>8 DEF SlidWord
<1> QED
  BY <1>2, <1>3, <1>4, <1>5 DEF ResultInv

LEMMA LinkResult == ASSUME FullInv, Link PROVE ResultInv'
<1>1. /\ pc = "link" /\ pc' = "linked"
      /\ mem' = [o \in Addr |->
                   IF LinkedAt(o) = {} THEN mem[o]
                   ELSE Linked(img.syms[img.ext[LastOf(LinkedAt(o))].sym].name)]
      /\ UNCHANGED <<img, idx, seen, destroyed, vmaddr, vm_base, vm_size, kmod, alloc>>
      /\ hdr' = [hdr EXCEPT !.nextrel = 0]
  BY DEF Link, parseVars
<1>2. TileInv' /\ DestroyedInv'
  BY <1>1, SameCommands
<1>3. KnownInv'
  BY <1>1 DEF FullInv, ResultInv, KnownInv, Relocated, Loading
<1>4. HdrInv'
  <2>1. hdr = Header(0, Len(img.ext), 0)
    BY <1>1 DEF FullInv, ResultInv, HdrInv
  <2>2. hdr' = Header(0, 0, 0)
    BY <1>1, <2>1 DEF Header
  <2>3. Header(0, 0, 0)' = Header(0, 0, 0)
    BY <1>1 DEF Header, Segments, SegOff
  <2> QED
    BY <1>1, <2>2, <2>3 DEF HdrInv
<1>5. MemInv'
  <2> SUFFICES ASSUME vm_base = 0, NEW o \in 0 .. vm_size - 1
               PROVE  mem'[o] = ReferenceWord(o)'
    BY <1>1 DEF MemInv
  <2> DEFINE ext == {i \in DOMAIN img.ext : img.ext[i].addr = o}
  <2>1. o \in Addr
    BY SpaceAssumption DEF FullInv, IInv, TypeOK, Addr
  <2>2. ReferenceWord(o)' = ReferenceWord(o)
    BY <1>1 DEF ReferenceWord, SegmentWord, Segments
  <2>3. mem[o] = SlidWord(o)
    BY <1>1 DEF FullInv, ResultInv, MemInv
  <2>4. LinkedAt(o) = ext
    <3>1. \A i \in DOMAIN img.ext : img.syms[img.ext[i].sym].name \in Known
      BY <1>1 DEF FullInv, ResultInv, KnownInv, Relocated, Loading
    <3> QED
      BY <3>1, RelocatedAt DEF LinkedAt
  <2>5. ReferenceWord(o) =
          IF ext # {} THEN Linked(img.syms[img.ext[LastOf(ext)].sym].name) ELSE SlidWord(o)
    BY DEF ReferenceWord, SlidWord, LocalAt
  <2> HIDE DEF ext
  <2> QED
    BY <1>1, <2>1, <2>2, <2>3, <2>4, <2>5
<1> QED
  BY <1>2, <1>3, <1>4, <1>5 DEF ResultInv

\* XNU finds no relocation in the mapped header, so it leaves memory alone.
LEMMA BootResult == ASSUME FullInv, SlidePrelinked PROVE ResultInv'
<1>1. /\ pc = "linked" /\ hdr = Header(0, 0, 0)
  BY DEF SlidePrelinked, FullInv, ResultInv, HdrInv
<1>2. hdr.nextrel = 0 /\ hdr.nlocrel = 0
  BY <1>1 DEF Header
<1>3. /\ pc' = "booted" /\ mem' = mem
      /\ UNCHANGED <<img, idx, seen, destroyed, vmaddr, vm_base, vm_size, kmod, alloc, hdr>>
  BY <1>2 DEF SlidePrelinked, parseVars
<1>4. TileInv' /\ DestroyedInv'
  BY <1>3, SameCommands
<1>5. KnownInv'
  BY <1>1, <1>3 DEF FullInv, ResultInv, KnownInv, Relocated, Loading
<1>6. HdrInv'
  BY <1>1, <1>3 DEF HdrInv, Header, Segments, SegOff
<1>7. MemInv'
  <2>1. \A o : ReferenceWord(o)' = ReferenceWord(o)
    BY <1>3 DEF ReferenceWord, SegmentWord, Segments
  <2> QED
    BY <1>1, <1>3, <2>1 DEF FullInv, ResultInv, MemInv
<1> QED
  BY <1>4, <1>5, <1>6, <1>7 DEF ResultInv

LEMMA StutterResult == ASSUME FullInv, UNCHANGED vars PROVE ResultInv'
<1>1. UNCHANGED <<img, pc, idx, seen, destroyed, vmaddr, vm_base, vm_size, kmod, alloc, mem, hdr>>
  BY DEF vars, parseVars, loadVars
<1>2. TileInv' /\ DestroyedInv'
  BY <1>1, SameCommands
<1>3. KnownInv' /\ HdrInv'
  BY <1>1 DEF FullInv, ResultInv, KnownInv, HdrInv, Header, Segments, SegOff
<1>4. MemInv'
  <2>1. \A o : /\ ReferenceWord(o)' = ReferenceWord(o)
               /\ SlidWord(o)' = SlidWord(o)
               /\ SegmentWord(o)' = SegmentWord(o)
    BY <1>1 DEF ReferenceWord, SlidWord, LocalAt, SegmentWord, Segments
  <2> QED
    BY <1>1, <2>1 DEF FullInv, ResultInv, MemInv
<1> QED
  BY <1>2, <1>3, <1>4 DEF ResultInv

\* The segments tile the image, and memory is known word by word.
THEOREM FullInvariance == Spec => []FullInv
<1>1. FullInv /\ [Next]_vars => FullInv'
  <2>1. FullInv /\ [Next]_vars => ResultInv'
    BY CommandResult, ParseResult, MapResult, RelocateResult, LinkResult, BootResult,
       StutterResult DEF Next, Done
  <2>2. IInv /\ [Next]_vars => IInv'
    BY HeaderStep, CommandStep, EndStep, SymbolsStep, RelocationsStep, AllocStep,
       MapStep, RelocateStep, LinkStep, BootStep, StutterStep DEF Next, Done
  <2> QED
    BY <2>1, <2>2 DEF FullInv
<1> QED
  BY <1>1, InitFullInv, PTL DEF Spec

\* Whatever an image that is linked at 0 contains, what XNU finds in memory when
\* the device has accepted it is what a linker would have put there: every
\* segment and kmod_info in place, every pointer slid once, every symbol bound.
THEOREM LoadsAsLinked == Spec => []LoadedAsLinked
<1>1. FullInv => LoadedAsLinked
  BY DEF FullInv, ResultInv, MemInv, LoadedAsLinked
<1> QED
  BY <1>1, FullInvariance, PTL

\* XNU never refuses an image the device has linked, whatever the upload says:
\* no external relocation and no LC_SEGMENT_SPLIT_INFO is left, and the segments
\* of the mapped header hold each word of the image once.
THEOREM AlwaysUsable == Spec => []UsableByXNU
<1>1. FullInv => UsableByXNU
  <2> SUFFICES ASSUME FullInv PROVE UsableByXNU
    OBVIOUS
  <2>1. pc # "unusable"
    BY DEF FullInv, ResultInv, HdrInv
  <2> SUFFICES ASSUME pc = "linked"
               PROVE  /\ {i \in DOMAIN img.cmds : img.cmds[i].cmd = "SPLIT_INFO"} = destroyed
                      /\ \A o \in 0 .. vm_size - 1 :
                           Cardinality({i \in Segments :
                             o - hdr.vmaddrs[i] \in 0 .. img.cmds[i].vmsize - 1}) = 1
    BY <2>1 DEF UsableByXNU
  <2>2. /\ vm_size = vmaddr - vm_base /\ idx > Len(img.cmds) /\ "SEGMENT_64" \in seen
        /\ vmaddr \in Addr /\ vm_base \in Addr /\ idx \in Nat /\ img \in Image
    BY DEF FullInv, IInv, ParsedInv, Parsed, Symbolised, Relocated, Loading, TypeOK
  <2>3. \A i \in DOMAIN img.cmds : i < idx
    BY <2>2, ImageFields
  <2>4. {i \in DOMAIN img.cmds : img.cmds[i].cmd = "SPLIT_INFO"} = destroyed
    BY <2>3 DEF FullInv, ResultInv, DestroyedInv
  <2>5. ASSUME NEW o \in 0 .. vm_size - 1
        PROVE  Cardinality({i \in Segments :
                 o - hdr.vmaddrs[i] \in 0 .. img.cmds[i].vmsize - 1}) = 1
    <3> DEFINE a == vm_base + o
               S == {i \in Segments : o - hdr.vmaddrs[i] \in 0 .. img.cmds[i].vmsize - 1}
    <3>1. o \in Int /\ a \in Addr /\ vm_base <= a /\ a < vmaddr
      BY <2>2, SpaceAssumption DEF Addr
    <3>2. ASSUME NEW i \in Segments
          PROVE  o - hdr.vmaddrs[i] \in 0 .. img.cmds[i].vmsize - 1 <=> Holds(i, a)
      <4> DEFINE b == img.cmds[i].vmaddr
                 v == img.cmds[i].vmsize
      <4>1. b \in Addr /\ v \in Addr /\ i < idx
        BY <2>2, <2>3, ImageFields DEF Segments
      <4>2. vm_base <= b
        BY <4>1 DEF FullInv, IInv, LoopInv, SegmentInv, SegmentIn
      <4>3. hdr.vmaddrs[i] = b - vm_base
        <5>1. hdr.vmaddrs[i] = SegOff(i)
          BY DEF FullInv, ResultInv, HdrInv, Header
        <5> QED
          BY <2>2, <4>1, <4>2, <5>1, Arithmetic DEF SegOff
      <4>4. Holds(i, a) <=> b <= a /\ a < b + v
        BY DEF Holds
      <4> HIDE DEF b, v
      <4>5. o - (b - vm_base) \in 0 .. v - 1 <=> b <= a /\ a < b + v
        BY <2>2, <3>1, <4>1, SpaceAssumption DEF Addr
      <4> QED
        BY <4>3, <4>4, <4>5 DEF b, v
    <3>3. PICK i \in Segments : Holds(i, a)
      BY <2>2, <3>1 DEF FullInv, ResultInv, TileInv
    <3>4. \A j \in Segments : Holds(j, a) => j = i
      BY <2>2, <2>3, <3>1, <3>3 DEF FullInv, ResultInv, TileInv, Segments
    <3>5. S = {i}
      BY <3>2, <3>3, <3>4
    <3> QED
      BY <3>5, FS_Singleton
  <2> QED
    BY <2>4, <2>5
<1> QED
  BY <1>1, FullInvariance, PTL

=============================================================================
