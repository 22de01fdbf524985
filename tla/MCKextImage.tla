----------------------------- MODULE MCKextImage -----------------------------
(* KextImage on four families of small images. *)
EXTENDS KextImage

CONSTANT Bases   \* where the images may be linked

MCNames == {"_kmod_info", "known", "unknown"}
MCKnown == {"known"}

Plain(c)  == [cmd |-> c, ok |-> TRUE, vmaddr |-> 0, vmsize |-> 0, fileoff |-> 0, filesize |-> 0]
Bad(c)    == [Plain(c) EXCEPT !.ok = FALSE]
Segment(va, vs, fo, fs) ==
    [cmd |-> "SEGMENT_64", ok |-> TRUE, vmaddr |-> va, vmsize |-> vs, fileoff |-> fo, filesize |-> fs]
Symbol(n, v) == [name |-> n, str |-> TRUE, sect |-> TRUE, value |-> v]
Undefined(n) == [name |-> n, str |-> TRUE, sect |-> FALSE, value |-> 0]
Rels(e, syms, addrs) == [extern : {e}, len : {3}, sym : syms, addr : addrs]

Upload(cmds, syms, ext, loc) ==
    [head |-> TRUE, hdr |-> 1, size |-> 3, cmds |-> cmds, syms |-> syms, ext |-> ext, loc |-> loc]
Tables == <<Plain("SYMTAB"), Plain("DYSYMTAB")>>
KmodAt(v) == <<Symbol("_kmod_info", v), Undefined("known")>>

\* Two segments of any shape, good and bad, also ones that wrap around.
SegmentImages ==
    {Upload(<<Segment(b, v1, f, s1), Segment((b + v1 + g) % Space, v2, fo, s2)>> \o Tables,
            KmodAt(b + 1), <<>>, <<>>) :
        b \in Bases, v1 \in 1 .. 3, f \in {0, 1}, s1 \in 0 .. 2, g \in {0, 1},
        v2 \in {0, 2, 13}, fo \in 0 .. 3, s2 \in {0, 1, 13}}

\* Up to three more commands around one good segment.
CommandImages ==
    LET Some == {Plain(c) : c \in Cmds \ {"SEGMENT_64"}} \cup {Bad("SEGMENT_64"), Bad("OTHER")}
    IN  {Upload(<<a, Segment(b, 4, 0, 2), c, d>>, KmodAt(b + 1), <<>>, <<>>) :
            b \in Bases, a \in Some, c \in Some, d \in Some}
        \cup {Upload(Tables, KmodAt(1), <<>>, <<>>)}
        \cup {[Upload(Tables, KmodAt(1), <<>>, <<>>) EXCEPT !.head = FALSE]}

\* Two good segments with a table of symbols and lists of relocations.
Linkable(b, syms, ext, loc) ==
    Upload(<<Segment(b, 2, 0, 2), Segment(b + 2, 2, 1, 1)>> \o Tables, syms, ext, loc)

\* _kmod_info anywhere and a second symbol of every kind.
SymbolImages ==
    {Linkable(b, <<Symbol("_kmod_info", v), [name |-> n, str |-> s, sect |-> d, value |-> w]>>,
              <<>>, <<>>) :
        b \in Bases, v \in 0 .. 9, n \in MCNames, s \in BOOLEAN, d \in BOOLEAN,
        w \in {0, 1, 6, 10}}

\* Up to two relocations of each kind.
External ==
    {<<>>, <<[extern |-> FALSE, len |-> 3, sym |-> 2, addr |-> 0]>>}
      \cup {<<e>> : e \in Rels(TRUE, {2, 3, 4}, 0 .. 4 \cup {Space - 1})}
      \cup {<<e, f>> : e \in Rels(TRUE, {1, 2}, {2, 3}), f \in Rels(TRUE, {2}, {2, 3})}
Local ==
    {<<>>, <<[extern |-> FALSE, len |-> 2, sym |-> 0, addr |-> 0]>>}
      \cup {<<l>> : l \in Rels(FALSE, {0}, 0 .. 4 \cup {Space - 1})}
      \cup {<<l, m>> : l \in Rels(FALSE, {0}, {2, 3}), m \in Rels(FALSE, {0}, {2, 3})}

LinkImages ==
    {Linkable(b, KmodAt(b + v) \o <<Undefined("unknown")>>, e, l) :
        b \in Bases, v \in {1, 2}, e \in External, l \in Local}

MCImages == SegmentImages \cup CommandImages \cup SymbolImages \cup LinkImages
MCRelocated == {i \in LinkImages : i.ext = <<>> /\ Len(i.loc) = 1}
=============================================================================
