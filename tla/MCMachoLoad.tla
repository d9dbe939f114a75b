---------------------------- MODULE MCMachoLoad ----------------------------
(* Small files for MachoLoad, with the lengths of the real structures:     *)
(* objects of 300 and 520 bytes, up to two commands and four sections,     *)
(* and universal binaries of up to four objects.                           *)
EXTENDS MachoLoad

At(offset, size) == [offset |-> offset, size |-> size]

Of300 == At(100, 300)
Tables ==
    {<<>>, <<Of300>>, <<At(420, 200), Of300>>, <<At(0, 0), At(500, 300)>>,
     <<Of300, At(430, 90), At(450, 20)>>, <<Of300, Of300, Of300, Of300>>}

MCFiles ==
    {[size |-> 20, kind |-> "thin", bits |-> 32, arches |-> <<>>],
     [size |-> 600, kind |-> "other", bits |-> 32, arches |-> <<>>]}
    \cup [size : {300, 520}, kind : {"thin"}, bits : Bits, arches : {<<>>}]
    \cup [size : {600}, kind : {"universal"}, bits : Bits, arches : Tables]
=============================================================================
