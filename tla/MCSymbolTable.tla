---------------------------- MODULE MCSymbolTable ----------------------------
(* SymbolTable on small directories. *)
EXTENDS SymbolTable, TLC

\* A name, a name that ends with it, and a name that starts with it.
MCNames == {<<1>>, <<2, 1>>, <<1, 2>>}

\* The address tells the file and the line that defined a name.
LinesOf(f) ==
    LET LineAt(l) == [ok : BOOLEAN, name : MCNames, addr : {10 * f + l}]
        OneBadLine(ls) == \A i \in DOMAIN ls : ls[i].ok \/ ls[i].name = <<1>>
    IN  {ls \in {<<>>} \cup {<<a>> : a \in LineAt(1)}
                \cup {<<a, b>> : a \in LineAt(1), b \in LineAt(2)} : OneBadLine(ls)}

\* A file with a bad header has no other content that matters.
FilesAt(f) ==
    {[header |-> TRUE, uuid |-> u, lines |-> ls] : u \in {"u1", "u2"}, ls \in LinesOf(f)}
        \cup {[header |-> FALSE, uuid |-> "u1", lines |-> <<>>]}

\* Every directory of one or two files.
MCDirectories ==
    {<<a>> : a \in FilesAt(1)} \cup {<<a, b>> : a \in FilesAt(1), b \in FilesAt(2)}
=============================================================================
