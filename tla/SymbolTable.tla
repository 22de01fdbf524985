----------------------------- MODULE SymbolTable -----------------------------
(***************************************************************************)
(* The kernelcache symbol table on its way from the text files on the host *)
(* to a lookup on the device: kernelcache_symbol_table_update_directory and *)
(* kernelcache_symbol_table_generate in kext_loader.c,                     *)
(* command_kernelcache_symbols and kernelcache_symbol_table_lookup in      *)
(* kextload.c.                                                             *)
(*                                                                         *)
(* Symbol names share storage: a name that occurs, with its terminator,    *)
(* anywhere in the string blob is not stored again.  So names are          *)
(* sequences of characters here, and the blob keeps its offsets and sizes  *)
(* in bytes.  The text syntax of the files is abstracted to lines that     *)
(* parse and lines that do not.                                            *)
(***************************************************************************)
EXTENDS Integers, Sequences

CONSTANTS
    Char,         \* the characters of identifiers, as numbers above 0
    Names,        \* the symbol names that occur in the files or are looked up
    Uuids,        \* the kernelcache UUIDs of the files and of the device
    Directories,  \* what the symbols directories may hold: sequences of files
    Space32,      \* values of a uint32_t: 2^32
    SizeSpace,    \* values of a size_t: 2^64
    HostMemory    \* the most that malloc may return on the host, in bytes

Null == 0

\* A file that cannot be read, or whose header is wrong, has header = FALSE.
\* A line that does not parse has ok = FALSE.
Line == [ok : BOOLEAN, name : Names, addr : Nat \ {0}]
File == [header : BOOLEAN, uuid : Uuids, lines : Seq(Line)]

ASSUME CharAssumption == Char \subseteq Nat \ {Null}
ASSUME NamesAssumption == Names \subseteq Seq(Char) \ {<<>>}
ASSUME DirectoriesAssumption == Directories \subseteq Seq(File)
ASSUME SpaceAssumption == Space32 \in Nat \ {0} /\ SizeSpace \in Nat \ {0}
\* The bound under which all of this is right: the host has less than 4 GiB for
\* one allocation.  A larger blob would not be refused: the last of the casts to
\* uint32_t that the generator makes (kext_loader.c:851) has no assert.
ASSUME HostMemoryAssumption ==
    /\ HostMemory \in Nat
    /\ HostMemory < Space32
    /\ 32 + 2 * HostMemory < SizeSpace

VARIABLES
    dir,         \* the files, in the order readdir returns them
    pc,          \* where the host, and then the device, is
    file,        \* index of the file that is being read
    line,        \* index of the line that is being read
    kc,          \* index in kcs of that file's kernelcache
    kcs,         \* state.kcs
    maxsymcnt,   \* state.maxsymcnt
    symstr,      \* state.symstr
    size,        \* bytes malloc'ed for the blob
    offset,      \* where the next symbols array goes in the blob
    descs,       \* the kernelcache descriptors of the blob
    arrays,      \* the symbol arrays of the blob, each with its offset
    count,       \* loader_xfer_recv_count: bytes of the blob that arrived
    uuid,        \* kernelcache_uuid of the device
    tables       \* the chain of symbol tables, newest first

collectVars == <<dir, file, line, kc, kcs, maxsymcnt, symstr>>
blobVars    == <<size, offset, descs, arrays>>
deviceVars  == <<count, uuid, tables>>
vars        == <<pc, collectVars, blobVars, deviceVars>>

U32        == 4
HeaderSize == 2 * U32
DescSize   == 16 + U32
SymSize    == U32 + 8

\* sizeof(struct kcs_kc) and sizeof(struct kcs_sym) on the host.
KcSize    == 32
KcSymSize == 16

\* malloc or realloc may return this much on the host.
Allocatable(bytes) == bytes <= HostMemory

-----------------------------------------------------------------------------
(* Strings.                                                                *)

\* memmem: the offsets at which the bytes occur in the blob.
Occurrences(blob, bytes) ==
    {o \in 0 .. Len(blob) :
        o + Len(bytes) <= Len(blob)
            /\ SubSeq(blob, o + 1, o + Len(bytes)) = bytes}

Least(S) == CHOOSE o \in S : \A p \in S : o <= p

\* The C string at an offset: the bytes before the next terminator.
StringAt(blob, o) ==
    LET end == Least({i \in o + 1 .. Len(blob) : blob[i] = Null})
    IN  SubSeq(blob, o + 1, end - 1)

-----------------------------------------------------------------------------
(* kernelcache_symbol_table_update_directory.                              *)

\* Mutant: the index of a new kernelcache is taken before it is added.
Mut_BeginFile ==
    /\ pc = "dir"
    /\ file <= Len(dir)
    /\ IF dir[file].header
       THEN /\ \/ \E i \in DOMAIN kcs :
                    /\ kcs[i].uuid = dir[file].uuid
                    /\ kc' = i
                    /\ UNCHANGED kcs
               \/ /\ \A i \in DOMAIN kcs : kcs[i].uuid # dir[file].uuid
                  /\ Allocatable((Len(kcs) + 1) * KcSize)
                  /\ kcs' = Append(kcs, [uuid |-> dir[file].uuid, syms |-> <<>>])
                  /\ kc' = Len(kcs)
            /\ line' = 1
            /\ pc' = "lines"
            /\ UNCHANGED file
       ELSE /\ file' = file + 1
            /\ UNCHANGED <<kcs, kc, line, pc>>
    /\ UNCHANGED <<dir, maxsymcnt, symstr, blobVars, deviceVars>>

\* Parse the header; find the kernelcache with its UUID or add one.
BeginFile ==
    /\ pc = "dir"
    /\ file <= Len(dir)
    /\ IF dir[file].header
       THEN /\ \/ \E i \in DOMAIN kcs :
                    /\ kcs[i].uuid = dir[file].uuid
                    /\ kc' = i
                    /\ UNCHANGED kcs
               \/ /\ \A i \in DOMAIN kcs : kcs[i].uuid # dir[file].uuid
                  /\ Allocatable((Len(kcs) + 1) * KcSize)
                  /\ kcs' = Append(kcs, [uuid |-> dir[file].uuid, syms |-> <<>>])
                  /\ kc' = Len(kcs) + 1
            /\ line' = 1
            /\ pc' = "lines"
            /\ UNCHANGED file
       ELSE /\ file' = file + 1
            /\ UNCHANGED <<kcs, kc, line, pc>>
    /\ UNCHANGED <<dir, maxsymcnt, symstr, blobVars, deviceVars>>

\* The line that is being read holds a symbol.
AtSymbol == line <= Len(dir[file].lines) /\ dir[file].lines[line].ok

\* Mutant: memmem is given the length without the terminator.
Mut_InsertSymbol ==
    /\ pc = "lines"
    /\ AtSymbol
    /\ Allocatable((Len(kcs[kc].syms) + 1) * KcSymSize)
    /\ LET sym   == dir[file].lines[line]
           found == Occurrences(symstr, sym.name)
           off   == IF found # {} THEN Least(found) ELSE Len(symstr)
       IN  /\ kcs' = [kcs EXCEPT ![kc].syms =
                        Append(@, [off |-> off % Space32, addr |-> sym.addr])]
           /\ symstr' = IF found # {} THEN symstr
                        ELSE symstr \o Append(sym.name, Null)
           /\ Allocatable(Len(symstr'))
    /\ line' = line + 1
    /\ UNCHANGED <<pc, dir, file, kc, maxsymcnt, blobVars, deviceVars>>

\* Append the symbol to its kernelcache; its name is shared or stored.  The
\* offset is cut to 32 bits; that a stored name's is not changed by it is asserted
\* (BlobFits).
InsertSymbol ==
    /\ pc = "lines"
    /\ AtSymbol
    /\ Allocatable((Len(kcs[kc].syms) + 1) * KcSymSize)
    /\ LET sym   == dir[file].lines[line]
           cstr  == Append(sym.name, Null)
           found == Occurrences(symstr, cstr)
           off   == IF found # {} THEN Least(found) ELSE Len(symstr)
       IN  /\ kcs' = [kcs EXCEPT ![kc].syms =
                        Append(@, [off |-> off % Space32, addr |-> sym.addr])]
           /\ symstr' = IF found # {} THEN symstr ELSE symstr \o cstr
           /\ Allocatable(Len(symstr'))
    /\ line' = line + 1
    /\ UNCHANGED <<pc, dir, file, kc, maxsymcnt, blobVars, deviceVars>>

\* Mutant: the maximum is only kept for the file's own symbols.
Mut_EndFile ==
    /\ pc = "lines"
    /\ ~AtSymbol
    /\ maxsymcnt' = IF line - 1 > maxsymcnt THEN line - 1 ELSE maxsymcnt
    /\ file' = file + 1
    /\ pc' = "dir"
    /\ UNCHANGED <<dir, line, kc, kcs, symstr, blobVars, deviceVars>>

\* The end of the file, or a line that does not parse.
EndFile ==
    /\ pc = "lines"
    /\ ~AtSymbol
    /\ LET symcnt == Len(kcs[kc].syms) IN
       maxsymcnt' = IF symcnt > maxsymcnt THEN symcnt ELSE maxsymcnt
    /\ file' = file + 1
    /\ pc' = "dir"
    /\ UNCHANGED <<dir, line, kc, kcs, symstr, blobVars, deviceVars>>

-----------------------------------------------------------------------------
(* kernelcache_symbol_table_generate.                                      *)

\* All files are read: allocate a blob that is large enough.
AllocateBlob ==
    /\ pc = "dir"
    /\ file > Len(dir)
    /\ offset' = HeaderSize + Len(kcs) * DescSize
    /\ size' = offset' + Len(kcs) * (U32 + maxsymcnt * SymSize) + Len(symstr)
    /\ Allocatable(size')
    /\ pc' = "write"
    /\ UNCHANGED <<collectVars, descs, arrays, deviceVars>>

\* No result of realloc and malloc on the host is checked: when one is NULL, the
\* store that follows (a new kernelcache, a symbol, the blob's header) crashes it.
HostCrash ==
    /\ \/ /\ pc = "dir"
          /\ file <= Len(dir)
          /\ dir[file].header
          /\ \A i \in DOMAIN kcs : kcs[i].uuid # dir[file].uuid
       \/ pc = "lines" /\ AtSymbol
       \/ pc = "dir" /\ file > Len(dir)
    /\ pc' = "crashed"
    /\ UNCHANGED <<collectVars, blobVars, deviceVars>>

\* Write the descriptor and the symbols array of the next kernelcache.  Its offset
\* is cut to 32 bits; that this does not change it is asserted (BlobFits).
WriteKernelcache ==
    /\ pc = "write"
    /\ Len(descs) < Len(kcs)
    /\ LET next == kcs[Len(descs) + 1] IN
       /\ descs' = Append(descs, [uuid |-> next.uuid, offset |-> offset % Space32])
       /\ arrays' = Append(arrays, [offset |-> offset, syms |-> next.syms])
       /\ offset' = offset + U32 + Len(next.syms) * SymSize
    /\ UNCHANGED <<pc, collectVars, size, deviceVars>>

\* symbol_strings_offset in the blob's header, cut to 32 bits without an assert.
StringsOffset == offset % Space32

\* The size of the finished blob.
BlobSize == offset + Len(symstr)

\* Append the strings.  What arrives on the device is the blob or, when the
\* upload broke off, the first bytes of it.
Upload ==
    /\ pc = "write"
    /\ Len(descs) = Len(kcs)
    /\ count' \in 0 .. BlobSize
    /\ pc' = "parse"
    /\ UNCHANGED <<collectVars, blobVars, uuid, tables>>

-----------------------------------------------------------------------------
(* command_kernelcache_symbols.  It goes by the offsets in the blob, and    *)
(* finds there the arrays and strings that the host wrote (BlobFits).      *)

\* Mutant: reading up to the very end of the data is refused.
Mut_Readable(end) == end < count

\* ref() and addr(): the data up to this byte has arrived.
Readable(end) == end <= count

\* The descriptor loop stops at the first one with the device's UUID.
Matching(i) ==
    /\ descs[i].uuid = uuid
    /\ \A j \in 1 .. i - 1 : descs[j].uuid # uuid

\* symbol_strings_size wraps around when the upload ended before the strings.
StringsSize == (count - StringsOffset) % SizeSpace

\* sizeof(struct kernelcache_symbol_table), and of a symbol and an address in it.
TableSize   == 32
PointerSize == 8
AddressSize == 8

\* What is malloc'ed for a table, before anything else is checked.
MallocSize(i) ==
    (TableSize + Len(arrays[i].syms) * (PointerSize + AddressSize) + StringsSize) % SizeSpace

\* The descriptor i is found, and the symbol count can be read: the table is
\* malloc'ed, and its fields are filled in before the strings are looked at.
Found(i) ==
    /\ Readable(HeaderSize + i * DescSize)
    /\ Matching(i)
    /\ Readable(descs[i].offset + U32)

\* The last byte that arrived is a NUL; a byte of the arrays may be one.
EndsInNull == count > offset => symstr[count - offset] = Null

\* The fields count, symbol and address are inside of what was malloc'ed.
FieldsFit(i) == TableSize <= MallocSize(i)

\* Mutant: the strings are not located with addr().
Mut_StringsOK == StringsSize >= 1 /\ EndsInNull

\* The strings begin inside of the data and end in a terminator.
StringsOK ==
    /\ Readable(StringsOffset)
    /\ StringsSize >= 1
    /\ EndsInNull

\* The loop gets past the k-th symbol: it has arrived and starts inside of the
\* strings.
Populated(i, k) ==
    \A j \in 1 .. k :
        /\ Readable(descs[i].offset + U32 + j * SymSize)
        /\ arrays[i].syms[j].off + 1 <= StringsSize

\* The checks that lead to a table for the descriptor i, in the code's order.
Accepts(i) ==
    /\ Found(i)
    /\ StringsOK
    /\ Populated(i, Len(arrays[i].syms))
    /\ Readable(StringsOffset + StringsSize)

\* Copy the symbols and strings and link the new table in at the head.
LinkTable ==
    /\ pc = "parse"
    /\ \E i \in DOMAIN descs :
        /\ Accepts(i)
        /\ tables' = <<[syms    |-> arrays[i].syms,
                        strings |-> SubSeq(symstr, 1, count - offset)]>>
                     \o tables
    /\ count' = 0
    /\ pc' = "linked"
    /\ UNCHANGED <<collectVars, blobVars, uuid>>

\* No matching kernelcache, or an invalid symbol table.
RefuseTable ==
    /\ pc = "parse"
    /\ \A i \in DOMAIN descs : ~Accepts(i)
    /\ count' = 0
    /\ pc' = "refused"
    /\ UNCHANGED <<collectVars, blobVars, uuid, tables>>

\* malloc fails, whatever the checks after it would have found.
OutOfMemory ==
    /\ pc = "parse"
    /\ \E i \in DOMAIN descs : Found(i)
    /\ count' = 0
    /\ pc' = "no_memory"
    /\ UNCHANGED <<collectVars, blobVars, uuid, tables>>

\* The size of the allocation wrapped around to less than the table's fields,
\* which are stored all the same: undefined behaviour.  It may go unnoticed (the
\* blob is refused next) or spoil the heap.
SpoilHeap ==
    /\ pc = "parse"
    /\ \E i \in DOMAIN descs : Found(i) /\ ~FieldsFit(i)
    /\ count' = 0
    /\ pc' = "corrupted"
    /\ UNCHANGED <<collectVars, blobVars, uuid, tables>>

\* kernelcache_symbol_table_lookup: the first match in the first table of the
\* chain that has one; 0 when there is none.
Lookup(name) ==
    LET Hits(t) == {i \in DOMAIN tables[t].syms :
                      StringAt(tables[t].strings, tables[t].syms[i].off) = name}
        having  == {t \in DOMAIN tables : Hits(t) # {}}
    IN  IF having = {} THEN 0
        ELSE LET t == Least(having) IN tables[t].syms[Least(Hits(t))].addr

-----------------------------------------------------------------------------
Init ==
    /\ dir \in Directories
    /\ uuid \in Uuids
    /\ pc = "dir"
    /\ file = 1
    /\ line = 1
    /\ kc = 0
    /\ kcs = <<>>
    /\ maxsymcnt = 0
    /\ symstr = <<>>
    /\ size = 0
    /\ offset = 0
    /\ descs = <<>>
    /\ arrays = <<>>
    /\ count = 0
    /\ tables = <<>>

Outcomes == {"linked", "refused", "no_memory", "corrupted"}

\* The command is over, or never comes.
Done == pc \in Outcomes \cup {"crashed"} /\ UNCHANGED vars

Next ==
    \/ BeginFile \/ InsertSymbol \/ EndFile
    \/ AllocateBlob \/ WriteKernelcache \/ Upload \/ HostCrash
    \/ LinkTable \/ RefuseTable \/ OutOfMemory \/ SpoilHeap
    \/ Done

Spec == Init /\ [][Next]_vars

-----------------------------------------------------------------------------
(* Properties.                                                             *)

Sym == [off : Nat, addr : Nat \ {0}]

TypeOK ==
    /\ dir \in Seq(File)
    /\ pc \in {"dir", "lines", "write", "crashed", "parse"} \cup Outcomes
    /\ file \in 1 .. Len(dir) + 1
    /\ line \in Nat \ {0}
    /\ pc = "lines" => kc \in DOMAIN kcs /\ file \in DOMAIN dir
    /\ kcs \in Seq([uuid : Uuids, syms : Seq(Sym)])
    /\ maxsymcnt \in Nat
    /\ symstr \in Seq(Char \cup {Null})
    /\ size \in Nat
    /\ offset \in Nat
    /\ descs \in Seq([uuid : Uuids, offset : Nat])
    /\ arrays \in Seq([offset : Nat, syms : Seq(Sym)])
    /\ count \in 0 .. BlobSize
    /\ uuid \in Uuids
    /\ tables \in Seq([syms : Seq(Sym), strings : Seq(Char \cup {Null})])

\* The reference: the places in the files that define a name for the device's
\* kernelcache.  A line counts when no line above it fails to parse.
Defining(name) ==
    UNION {{<<f, l>> : l \in {m \in DOMAIN dir[f].lines :
                                /\ dir[f].lines[m].name = name
                                /\ \A k \in 1 .. m : dir[f].lines[k].ok}} :
           f \in {g \in DOMAIN dir : dir[g].header /\ dir[g].uuid = uuid}}

\* The first definition in reading order wins; 0 when there is none.
AddressInFiles(name) ==
    IF Defining(name) = {} THEN 0
    ELSE LET first == CHOOSE p \in Defining(name) :
                        \A q \in Defining(name) :
                            p[1] < q[1] \/ (p[1] = q[1] /\ p[2] <= q[2])
         IN  dir[first[1]].lines[first[2]].addr

\* Once the device has linked a table, a lookup finds for every name what the
\* text files say for this kernelcache: shared suffixes, files with the same
\* UUID, lines that do not parse and an upload that broke off make no
\* difference.
LookupMatchesFiles ==
    tables # <<>> => \A name \in Names : Lookup(name) = AddressInFiles(name)

\* A blob that arrived whole is accepted by the device whose kernelcache it
\* describes: generator and parser agree on the format.
WholeBlobAccepted ==
    (/\ pc = "parse"
     /\ count = BlobSize
     /\ symstr # <<>>
     /\ \E f \in DOMAIN dir : dir[f].header /\ dir[f].uuid = uuid)
    => \E i \in DOMAIN descs : Accepts(i)

\* The generator never writes beyond the blob it allocated, whose size it
\* takes from the longest symbol list and the number of kernelcaches, and no
\* offset in the blob is changed by its cut to 32 bits: the asserts hold, and
\* symbol_strings_offset, which has none, is exact as well.
BlobFits ==
    /\ pc = "lines" => Len(symstr) < Space32
    /\ pc = "write" =>
        /\ offset <= size
        /\ Len(descs) = Len(kcs) => BlobSize <= size
    /\ pc \in {"write", "parse"} =>
        /\ StringsOffset = offset
        /\ \A i \in DOMAIN descs :
            /\ descs[i].offset = arrays[i].offset
            /\ Len(arrays[i].syms) < Space32

\* Where the stores of command_kernelcache_symbols end.  Of a table whose strings
\* have arrived, at least their first byte, the fields, the symbols, the addresses
\* and the strings are inside of what was malloc'ed.  Of a shorter upload, for
\* which the size of the allocation wraps around, only the fields are stored:
\* they are inside when the kernelcache is the last one in the blob.  (Otherwise
\* the arrays behind it can make the allocation smaller than the fields:
\* SpoilHeap.)
StoresFit ==
    pc = "parse" =>
        \A i \in DOMAIN descs :
            LET n == Len(arrays[i].syms) IN
            Found(i) =>
                /\ i = Len(descs) \/ Readable(StringsOffset) => FieldsFit(i)
                /\ StringsOK => \A k \in 1 .. n :
                     Populated(i, k) =>
                        TableSize + n * PointerSize + k * AddressSize <= MallocSize(i)
                /\ Accepts(i) =>
                     TableSize + n * (PointerSize + AddressSize) + StringsSize <= MallocSize(i)

=============================================================================
