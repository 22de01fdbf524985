---------------------------- MODULE MCPrelinkInfo ----------------------------
(* PrelinkInfo on small sections. *)
EXTENDS PrelinkInfo

Free(n)  == [i \in 1 .. n |-> Nul]
Data     == Cell("data")

\* With and without closing tags, padding, and something left behind the section.
MCSections ==
    {[text |-> t, pad |-> p, behind |-> b] :
        t \in {<<Old, End>>, <<Old, End, Old, End>>, <<End>>, <<Old, End, Old>>, <<Old>>},
        p \in 1 .. 3,
        b \in {Free(22) \o <<Data, Data>>, [i \in 1 .. 24 |-> Data], Free(5) \o <<Data>> \o Free(18)}}
    \cup {[text |-> t, pad |-> 0, behind |-> <<Nul>> \o b] :
        t \in {<<Old, End>>, <<Old, End, Old, End>>, <<Old>>},
        b \in {Free(21) \o <<Data, Data>>, [i \in 1 .. 24 |-> Data]}}
=============================================================================
