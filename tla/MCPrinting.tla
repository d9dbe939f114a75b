----------------------------- MODULE MCPrinting -----------------------------
(***************************************************************************)
(* Formats and numbers of five bits, values of every table and around its  *)
(* gaps, and names of up to six characters for a buffer of twelve bytes.   *)
(***************************************************************************)
EXTENDS Printing

Parts == [prefix : {<<65>>}, percent : {TRUE}, minus : BOOLEAN, plus : BOOLEAN,
          zero : BOOLEAN, width : {0, 3, 5}, ells : {0},
          conv : {{"d"}, {"u"}, {"x"}, {"X"}, {"s"}}, suffix : {<<>>, <<66>>}]
Plain == [prefix |-> <<>>, percent |-> TRUE, minus |-> FALSE, plus |-> FALSE,
          zero |-> FALSE, width |-> 0, ells |-> 0, conv |-> {"d"}, suffix |-> <<>>]
MCFormats ==
    Parts \cup {Plain, [Plain EXCEPT !.percent = FALSE], [Plain EXCEPT !.ells = 3],
                [Plain EXCEPT !.conv = {}], [Plain EXCEPT !.conv = {"d", "x"}],
                [Plain EXCEPT !.conv = {"u"}], [Plain EXCEPT !.conv = {"x"}]}

MCWords == {<<>>, <<97, 98>>, <<97, 98, 97, 98>>}
MCSigned == {-16, -15, -1, 0, 9, 15}
MCUnsigned == {0, 9, 10, 31}

MCMachines == 0 .. 40 \cup 118 .. 132 \cup 158 .. 260 \cup {16726, 16727, 16728}
MCNumbers == 0 .. 18 \cup {30, 32, 33, 64, 65, 97, 224, 240, 255, 65280, 65284, 65535,
               1610612736, 1610612751, 1685382480, 1705253862, 1879047424, 1879048176,
               1879048191, 1879048192, 1879048195, 1879048234, 2147483647}
MCFlags == {{}, {0}, {0, 1, 2}, {3}, {3, 31}, {28}, 20 .. 27, 28 .. 31, {0, 24, 29}}

MCMarker == <<46, 84, 46, 46>>

Short == UNION {[1 .. n -> {65, 37}] : n \in 0 .. 3}
Long == {<<37, 65, 37, 65>>, <<37, 65, 65, 65>>, <<65, 37, 37, 65>>,
         <<65, 65, 65, 37>>, <<65, 65, 65, 65, 37>>, <<65, 65, 65, 65, 65, 37>>}
MCNames == Short \cup Long
             \cup {<<10>>, <<65, 10>>, <<37, 10, 9>>, <<200, 65>>, <<1, 127>>}

=============================================================================
