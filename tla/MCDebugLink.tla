---------------------------- MODULE MCDebugLink ----------------------------
(* Small objects for DebugLink, with the sizes of the real structures:     *)
(* relative and absolute paths with one directory or none, links with,     *)
(* without and only as a slash, up to two global prefixes, and the         *)
(* sections of the two names in either order, good, empty, too short or    *)
(* badly terminated.                                                       *)
EXTENDS DebugLink

Of(kind, size) ==
    [name |-> kind, size |-> size, text |-> << >>, nul |-> 0,
     namesize |-> 0, descrsize |-> 0]

Link(text, nul, size) == [Of("link", size) EXCEPT !.text = text, !.nul = nul]
Id(namesize, nul, descrsize, size) ==
    [Of("id", size) EXCEPT
        !.namesize = namesize, !.nul = nul, !.descrsize = descrsize]

Links ==
    {Link(<<"b">>, 1, 8), Link(<<"h", Slash, "b">>, 3, 8),
     Link(<<Slash, "b">>, 4, 12), Link(<< >>, 0, 8), Link(<<Slash>>, 1, 8)}
BadLinks == {Link(<<"b">>, 1, 6), Link(<<"b">>, 1, 10), Link(<< >>, 7, 7), Of("link", 0)}
Ids == {Id(4, 3, 20, 36), Id(4, 9, 1, 20), Id(4, 3, 0, 16)}
BadIds ==
    {Id(0, 0, 20, 36), Id(4, 1, 20, 36), Id(36, 40, 0, 36), Id(4, 3, 21, 36),
     Of("id", 12)}

Others == {Of("other", 40), Of("none", 40), Of("invalid", 40)}

MCTables ==
    {<< >>} \cup {<<s>> : s \in Links \cup BadLinks \cup Ids \cup BadIds \cup Others}
    \cup {<<s, t>> : s \in Links, t \in Ids}
    \cup {<<s, t, Link(<<"b">>, 1, 8)>> : s \in Ids, t \in Others \cup BadLinks}

MCPathnames ==
    {NoPath, <<"b">>, <<"a", Slash, "b">>, <<Slash, "b">>,
     <<Slash, "a", Slash, "b">>, <<Slash, "a", Slash, DotDebug>>,
     <<Slash, "usr", Slash, IdDir, Slash, IdFile>>}
MCCwd == <<Slash, "t">>
MCPrefixLists ==
    {<< >>, << << >> >>, << <<Slash, "usr">> >>, << <<"usr">> >>,
     << <<Slash, "usr", Slash>>, <<Slash>> >>}
=============================================================================
