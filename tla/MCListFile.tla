------------------------------- MODULE MCListFile -------------------------------
EXTENDS ListFile

\* Every name of one or two characters.
Short(chars) == UNION {[1..n -> chars] : n \in 1..2}
Plain == {"a", Space, Quote, Backslash}

\* A name whose tail, after the newline, has three columns.
Tail3 == <<"a", Newline, "a", Space, "a", Space, "a">>

\* A directory, an entry in it and an entry next to it.
MCTrees ==
  {{<<d>>, <<d, c>>, <<n>>} :
     d \in Short(Plain), c \in Short(Plain \cup {Newline, Raw}),
     n \in {<<"b">>, <<Backslash, Quote, "b">>, <<"a", Raw>>, Tail3}}

\* The disk is full somewhere in the list of two of the trees, or just not.
FullTrees == {{<<d>>, <<d, <<"a">>>>, <<<<"b">>>>} : d \in {<<"a">>, <<Quote, Space>>}}
MCRooms(t) == IF t \in FullTrees THEN 0..70 ELSE {Enough}
=================================================================================
