------------------------------ MODULE KextImage ------------------------------
(***************************************************************************)
(* Loading one kernel extension image on the device: kext_parse,           *)
(* kext_alloc, kext_map, kext_relocate and kext_link of kextload.c, and    *)
(* what XNU's OSKext::slidePrelinkedExecutable does to the result at boot. *)
(*                                                                         *)
(* Addresses, offsets and sizes count 8-byte words.  64-bit arithmetic     *)
(* wraps at Space and a conversion to uint32_t at Space32.  Memory is      *)
(* addressed relative to the allocation, so an offset of alloc or more is  *)
(* memory that belongs to someone else.  A word of memory is where it came *)
(* from and how often it was slid.                                         *)
(***************************************************************************)
EXTENDS Integers, Sequences, FiniteSets

CONSTANTS
    Space,      \* number of 64-bit values
    Space32,    \* number of 32-bit values
    Page,       \* 0x4000
    Names,      \* symbol names; one of them is Kmod
    Kmod,       \* "_kmod_info"
    Known,      \* the names kernelcache_symbol_table_lookup resolves
    Images      \* the uploads that may arrive

Addr == 0 .. Space - 1

\* A load command; ok says that its size, and the tables it describes, lie in
\* the file.  Only segments use the last four fields.
Cmds == {"SEGMENT_64", "SYMTAB", "DYSYMTAB", "SEGMENT", "SPLIT_INFO", "OTHER"}
Cmd  == [cmd : Cmds, ok : BOOLEAN,
         vmaddr : Addr, vmsize : Addr, fileoff : Addr, filesize : Addr]

\* A symbol; str says that its name ends inside the file, sect that it is
\* defined in a section.
Sym == [name : Names, str : BOOLEAN, sect : BOOLEAN, value : Addr]

\* A relocation; len is the logarithm of its size in bytes.
Rel == [extern : BOOLEAN, len : 0 .. 3, sym : Nat, addr : Addr]

\* An upload; head says that magic, type and size of its header are good, and
\* hdr is the size of the header with its load commands.
Image == [head : BOOLEAN, hdr : Addr, size : Nat, cmds : Seq(Cmd),
          syms : Seq(Sym), ext : Seq(Rel), loc : Seq(Rel)]

Word     == 1     \* 1uLL << 3
KmodSize == 2     \* kmod_info, reduced to the two fields that are written

ASSUME SpaceAssumption ==
    /\ Space \in Nat
    /\ Space32 \in Nat
    /\ KmodSize < Space32 /\ Space32 < Space
    /\ Page \in Nat \ {0}
    /\ Page <= Space
ASSUME NamesAssumption == Kmod \in Names /\ Known \subseteq Names
\* An upload is far from filling the address space.
ASSUME ImagesAssumption ==
    /\ Images \subseteq Image
    /\ \A i \in Images : i.size + Space32 <= Space

VARIABLES
    img,        \* the upload
    pc,         \* where command_kextload is
    idx,        \* the load command that is being parsed
    seen,       \* the kinds of required load commands found so far
    destroyed,  \* LC_SEGMENT_SPLIT_INFO commands overwritten so far
    vmaddr,     \* kext_parse's running end of the segments
    vm_base,    \* info->vm_base
    vm_size,    \* info->vm_size
    kmod,       \* info->kmod_info as an address of the image
    alloc,      \* words that alloc_static returned
    mem,        \* memory, by offset from the allocation
    hdr         \* counts and segment addresses XNU will find in the mapped header

parseVars == <<idx, seen, destroyed, vmaddr, vm_base, vm_size, kmod>>
loadVars  == <<alloc, mem, hdr>>
vars      == <<img, pc, parseVars, loadVars>>

\* 64-bit addition and subtraction of two 64-bit values.
Add(a, b) == IF a + b < Space THEN a + b ELSE a + b - Space
Sub(a, b) == IF b <= a THEN a - b ELSE a - b + Space

Zero       == [what |-> "zero", at |-> 0, slid |-> 0]
Foreign    == [what |-> "foreign", at |-> 0, slid |-> 0]
FileWord(o) == [what |-> "file", at |-> o, slid |-> 0]
KmodField(k) == [what |-> "kmod", at |-> k, slid |-> 0]
Linked(n)  == [what |-> n, at |-> 0, slid |-> 0]

Segments == {i \in DOMAIN img.cmds : img.cmds[i].cmd = "SEGMENT_64"}

-----------------------------------------------------------------------------
(* kext_parse.                                                             *)

Refuse ==
    /\ pc' = "refused"
    /\ UNCHANGED <<img, parseVars, loadVars>>

\* Magic, file type and the size of the load commands.
ParseHeader ==
    /\ pc = "header"
    /\ \/ img.head /\ pc' = "commands" /\ UNCHANGED <<img, parseVars, loadVars>>
       \/ ~img.head /\ Refuse

\* Mutant: segments need not be contiguous.
Mut_SegmentOK(sc) ==
    /\ sc.fileoff <= img.size
    /\ Add(sc.fileoff, sc.filesize) <= img.size
    /\ sc.filesize <= sc.vmsize
    /\ sc.vmaddr <= Add(sc.vmaddr, sc.vmsize)
    /\ "SEGMENT_64" \notin seen => sc.fileoff = 0 /\ img.hdr <= sc.filesize

\* A segment lies in the file and in the address space; the first one maps the
\* header and the others follow without a gap.
SegmentOK(sc) ==
    /\ sc.fileoff <= img.size
    /\ Add(sc.fileoff, sc.filesize) <= img.size
    /\ sc.filesize <= sc.vmsize
    /\ sc.vmaddr <= Add(sc.vmaddr, sc.vmsize)
    /\ "SEGMENT_64" \notin seen => sc.fileoff = 0 /\ img.hdr <= sc.filesize
    /\ "SEGMENT_64" \in seen => sc.vmaddr = vmaddr

CommandOK(lc) ==
    /\ lc.ok
    /\ lc.cmd # "SEGMENT"
    /\ lc.cmd \in {"SYMTAB", "DYSYMTAB"} => lc.cmd \notin seen
    /\ lc.cmd = "SEGMENT_64" => SegmentOK(lc)

\* LC_SEGMENT_SPLIT_INFO is turned into an unknown command in place.
Destroyed(lc) == IF lc.cmd = "SPLIT_INFO" THEN {idx} ELSE {}

ParseCommand ==
    /\ pc = "commands"
    /\ idx <= Len(img.cmds)
    /\ LET lc == img.cmds[idx] IN
       \/ /\ CommandOK(lc)
          /\ idx' = idx + 1
          /\ seen' = seen \cup {lc.cmd}
          /\ destroyed' = destroyed \cup Destroyed(lc)
          /\ IF lc.cmd = "SEGMENT_64"
             THEN /\ vmaddr' = Add(lc.vmaddr, lc.vmsize)
                  /\ vm_base' = IF "SEGMENT_64" \in seen THEN vm_base ELSE lc.vmaddr
             ELSE UNCHANGED <<vmaddr, vm_base>>
          /\ UNCHANGED <<img, pc, vm_size, kmod, loadVars>>
       \/ ~CommandOK(lc) /\ Refuse

\* The commands that must be there.
EndCommands ==
    /\ pc = "commands"
    /\ idx > Len(img.cmds)
    /\ \/ /\ {"SEGMENT_64", "SYMTAB", "DYSYMTAB"} \subseteq seen
          /\ vm_size' = Sub(vmaddr, vm_base)
          /\ pc' = "symbols"
          /\ UNCHANGED <<img, idx, seen, destroyed, vmaddr, vm_base, kmod, loadVars>>
       \/ ~({"SEGMENT_64", "SYMTAB", "DYSYMTAB"} \subseteq seen) /\ Refuse

\* A symbol's name ends in the file and its address lies in the image.
SymbolOK(nl) == nl.str /\ (nl.sect => vm_base <= nl.value /\ nl.value <= vmaddr)

\* kmod_info is defined in the image and lies in it to its end.
KmodOK(nl) ==
    /\ nl.sect
    /\ nl.value <= Add(nl.value, KmodSize)
    /\ Add(nl.value, KmodSize) <= vmaddr

\* The one _kmod_info symbol.  A value of zero counts as not found.
IsKmod(k) ==
    /\ img.syms[k].name = Kmod
    /\ img.syms[k].value # 0
    /\ \A j \in DOMAIN img.syms \ {k} :
         img.syms[j].name = Kmod => j < k /\ img.syms[j].value = 0

CheckSymbols ==
    LET good == /\ \A j \in DOMAIN img.syms :
                     /\ SymbolOK(img.syms[j])
                     /\ img.syms[j].name = Kmod => KmodOK(img.syms[j])
                /\ \E k \in DOMAIN img.syms : IsKmod(k)
    IN  /\ pc = "symbols"
        /\ \/ /\ good
              /\ \E k \in DOMAIN img.syms : IsKmod(k) /\ kmod' = img.syms[k].value
              /\ pc' = "relocations"
              /\ UNCHANGED <<img, idx, seen, destroyed, vmaddr, vm_base, vm_size,
                             loadVars>>
           \/ ~good /\ Refuse

\* Mutant: the size of the pointer is not added.
Mut_InBounds(r) ==
    LET vm_addr == Add(vm_base, r) IN vm_base <= vm_addr /\ vm_addr <= vm_size

\* The bounds check of a relocation, as it is written: the address in the
\* image is compared with the size of the image.
InBounds(r) ==
    LET vm_addr == Add(vm_base, r) IN
        /\ vm_base <= vm_addr
        /\ vm_addr <= vm_size
        /\ Add(vm_addr, Word) <= vm_size

ExternalOK(er) ==
    /\ er.extern
    /\ er.len = 3
    /\ er.sym \in DOMAIN img.syms
    /\ img.syms[er.sym].name \in Known
    /\ InBounds(er.addr)

LocalOK(lr) == ~lr.extern /\ lr.len = 3 /\ InBounds(lr.addr)

CheckRelocations ==
    LET good == /\ \A i \in DOMAIN img.ext : ExternalOK(img.ext[i])
                /\ \A i \in DOMAIN img.loc : LocalOK(img.loc[i])
    IN  /\ pc = "relocations"
        /\ \/ good /\ pc' = "alloc" /\ UNCHANGED <<img, parseVars, loadVars>>
           \/ ~good /\ Refuse

-----------------------------------------------------------------------------
(* kext_alloc, kext_map, kext_relocate, kext_link.                         *)

\* Mutant: the size is rounded and truncated, and not compared.
Mut_AllocFits(size) == TRUE

\* The rounded size survives the conversion to 32 bits.
AllocFits(size) == size >= vm_size

\* Mutant: the size is not truncated.
Mut_AllocSize ==
    LET up == Add(vm_size, Page - 1) IN up - (up % Page)

\* The size rounded up to pages, as alloc_static gets it.
AllocSize ==
    LET up == Add(vm_size, Page - 1) IN (up - (up % Page)) % Space32

\* kext_alloc.  alloc_static is taken to return zeroed memory: kext_map does not
\* clear what no segment fills, and pongo.h does not say that it is clear.
Alloc ==
    /\ pc = "alloc"
    /\ \/ /\ AllocFits(AllocSize)
          /\ alloc' = AllocSize
          /\ mem' = [o \in Addr |-> IF o < AllocSize THEN Zero ELSE Foreign]
          /\ pc' = "map"
          /\ UNCHANGED <<img, parseVars, hdr>>
       \/ Refuse

\* The offset of a segment in the allocation, and whether it covers a word.
SegOff(i)       == Sub(img.cmds[i].vmaddr, vm_base)
Covers(i, o)    == Sub(o, SegOff(i)) < img.cmds[i].filesize

\* Where kmod_info is in the allocation.
KmodOff == Sub(kmod, vm_base)

\* memcpy of every segment, then the two fields of kmod_info.  The segments of
\* the mapped header get their new addresses, here relative to the allocation.
MappedWord(o) ==
    IF Sub(o, KmodOff) < KmodSize THEN KmodField(Sub(o, KmodOff))
    ELSE IF \E i \in Segments : Covers(i, o)
    THEN LET i == CHOOSE i \in Segments : Covers(i, o)
         IN  FileWord(Add(img.cmds[i].fileoff, Sub(o, SegOff(i))))
    ELSE mem[o]

Map ==
    /\ pc = "map"
    /\ mem' = [o \in Addr |-> MappedWord(o)]
    /\ hdr' = [nlocrel |-> Len(img.loc), nextrel |-> Len(img.ext),
               nsyms |-> Len(img.syms), vmaddrs |-> [i \in Segments |-> SegOff(i)]]
    /\ pc' = "relocate"
    /\ UNCHANGED <<img, parseVars, alloc>>

\* The offset in the allocation that a relocation is applied to.
RelocOff(r) == Sub(r.addr, vm_base)

\* Memory with the image's local relocations applied.
Slide(m) ==
    [o \in Addr |->
        [m[o] EXCEPT !.slid =
            @ + Cardinality({i \in DOMAIN img.loc : RelocOff(img.loc[i]) = o})]]

\* Mutant: the count of local relocations stays in the header.
Mut_Relocate ==
    /\ pc = "relocate"
    /\ mem' = Slide(mem)
    /\ hdr' = [hdr EXCEPT !.nsyms = 0]
    /\ pc' = "link"
    /\ UNCHANGED <<img, parseVars, alloc>>

Relocate ==
    /\ pc = "relocate"
    /\ mem' = Slide(mem)
    /\ hdr' = [hdr EXCEPT !.nlocrel = 0, !.nsyms = 0]
    /\ pc' = "link"
    /\ UNCHANGED <<img, parseVars, alloc>>

\* External relocations that are applied to a word; the last one stays.
LinkedAt(o) ==
    {i \in DOMAIN img.ext :
        RelocOff(img.ext[i]) = o /\ img.syms[img.ext[i].sym].name \in Known}

LastOf(S) == CHOOSE i \in S : \A j \in S : j <= i

Link ==
    /\ pc = "link"
    /\ mem' = [o \in Addr |->
                 IF LinkedAt(o) = {} THEN mem[o]
                 ELSE Linked(img.syms[img.ext[LastOf(LinkedAt(o))].sym].name)]
    /\ hdr' = [hdr EXCEPT !.nextrel = 0]
    /\ pc' = "linked"
    /\ UNCHANGED <<img, parseVars, alloc>>

\* XNU at boot: OSKext::slidePrelinkedExecutable refuses an image with external
\* relocations, and applies the local ones it is told of.
SlidePrelinked ==
    /\ pc = "linked"
    /\ IF hdr.nextrel > 0
       THEN pc' = "unusable" /\ UNCHANGED mem
       ELSE /\ pc' = "booted"
            /\ mem' = IF hdr.nlocrel > 0 THEN Slide(mem) ELSE mem
    /\ UNCHANGED <<img, parseVars, alloc, hdr>>

-----------------------------------------------------------------------------
Init ==
    /\ img \in Images
    /\ pc = "header"
    /\ idx = 1
    /\ seen = {}
    /\ destroyed = {}
    /\ vmaddr = 0
    /\ vm_base = 0
    /\ vm_size = 0
    /\ kmod = 0
    /\ alloc = 0
    /\ mem = [o \in Addr |-> Foreign]
    /\ hdr = [nlocrel |-> 0, nextrel |-> 0, nsyms |-> 0, vmaddrs |-> <<>>]

Outcomes == {"refused", "booted", "unusable"}

Done == pc \in Outcomes /\ UNCHANGED vars

Next ==
    \/ ParseHeader \/ ParseCommand \/ EndCommands \/ CheckSymbols
    \/ CheckRelocations \/ Alloc \/ Map \/ Relocate \/ Link
    \/ SlidePrelinked \/ Done

Spec == Init /\ [][Next]_vars

-----------------------------------------------------------------------------
(* Properties.                                                             *)

Labels == {"header", "commands", "symbols", "relocations", "alloc", "map",
           "relocate", "link", "linked"} \cup Outcomes

TypeOK ==
    /\ img \in Image
    /\ pc \in Labels
    /\ idx \in 1 .. Len(img.cmds) + 1
    /\ seen \subseteq Cmds
    /\ destroyed \subseteq DOMAIN img.cmds
    /\ vmaddr \in Addr
    /\ vm_base \in Addr
    /\ vm_size \in Addr
    /\ kmod \in Addr
    /\ alloc \in 0 .. Space32 - 1
    /\ DOMAIN mem = Addr

\* What kext_map copies lies in the upload and in the allocation, although the
\* file range of a segment is only checked with additions that can wrap: an
\* image that passes that check by wrapping is too large for kext_alloc.
CopiesInBounds ==
    pc = "map" =>
        \A i \in Segments :
            LET sc == img.cmds[i] IN
            /\ sc.fileoff + sc.filesize <= img.size
            /\ vm_base <= sc.vmaddr
            /\ sc.vmaddr - vm_base + sc.filesize <= alloc

\* Mapping, relocating and linking an image that is linked at address 0 writes
\* nothing outside of the allocation.
ForeignIntact ==
    vm_base = 0 => \A o \in Addr : alloc <= o => mem[o] = Foreign

\* The reference: a word of the image as a linker would leave it, with r_address
\* an offset from the first segment as the comments in kext_relocate and
\* kext_link say.
SegmentWord(o) ==
    IF vm_base + o - kmod \in 0 .. KmodSize - 1
    THEN KmodField(vm_base + o - kmod)
    ELSE LET In(i) == vm_base + o - img.cmds[i].vmaddr \in 0 .. img.cmds[i].filesize - 1
         IN  IF \E i \in Segments : In(i)
             THEN LET i == CHOOSE i \in Segments : In(i)
                  IN  FileWord(img.cmds[i].fileoff + vm_base + o - img.cmds[i].vmaddr)
             ELSE Zero

ReferenceWord(o) ==
    LET ext == {i \in DOMAIN img.ext : img.ext[i].addr = o}
        loc == {i \in DOMAIN img.loc : img.loc[i].addr = o}
    IN  IF ext # {}
        THEN Linked(img.syms[img.ext[LastOf(ext)].sym].name)
        ELSE [SegmentWord(o) EXCEPT !.slid = Cardinality(loc)]

\* An image linked at address 0 that the device accepts is in memory, when XNU
\* has slid what it was told to slide, as the reference linker would leave it:
\* every pointer is slid exactly once and every symbol is resolved.
LoadedAsLinked ==
    (pc = "booted" /\ vm_base = 0) =>
        \A o \in 0 .. vm_size - 1 : mem[o] = ReferenceWord(o)

\* XNU can use every image the device has linked: there is no external
\* relocation left and no load command that XNU refuses, and the segments of
\* the mapped header describe each word of the image exactly once.
UsableByXNU ==
    /\ pc # "unusable"
    /\ pc = "linked" =>
         /\ {i \in DOMAIN img.cmds : img.cmds[i].cmd = "SPLIT_INFO"} = destroyed
         /\ \A o \in 0 .. vm_size - 1 :
              Cardinality({i \in Segments :
                o - hdr.vmaddrs[i] \in 0 .. img.cmds[i].vmsize - 1}) = 1

\* "r_address is the offset from the first segment's vmaddr to the vmaddr of the
\* pointer": the pointer at that offset is the one that is slid.
SlidWhereDocumented ==
    pc = "booted" => \A i \in DOMAIN img.loc : mem[img.loc[i].addr].slid > 0

=============================================================================
