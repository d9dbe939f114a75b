-------------------------- MODULE SpaceAccounting --------------------------
(***************************************************************************)
(* What the report on wasted space promises, whatever the order in which   *)
(* the areas are found and however they are scanned: areas of the file are *)
(* claimed one by one, and the report, made once, names exactly the bytes  *)
(* between the start of the file and the furthest claim that nobody        *)
(* claimed, and says that areas straddle when two of them do and neither   *)
(* is inside a third.                                                      *)
(*                                                                         *)
(* A claim covers the bytes from .. to - 1.  Nothing is promised when some *)
(* claim ends past the last offset the arithmetic can represent: then its  *)
(* `to' is below its `from'.                                               *)
(***************************************************************************)
EXTENDS Integers

CONSTANTS Offsets,   \* the offsets of Dwarf_Unsigned, 0 .. 2^64 - 1
          Header     \* the claim of the Elf header

VARIABLES claims,    \* the claims made so far
          verdict    \* the report

Claim == [from : Offsets, to : Offsets]
Reports == [status : {"reported"}, wasted : SUBSET Offsets, straddle : BOOLEAN]
NotYet == [status |-> "none", wasted |-> {}, straddle |-> FALSE]

Claimed(b) == \E c \in claims : c.from <= b /\ b < c.to

Unclaimed == {b \in Offsets : /\ ~ Claimed(b)
                              /\ \E c \in claims : b < c.to}

Inside(c, d) == d.from <= c.from /\ c.to <= d.to /\ c # d

Outermost(C) == {c \in C : \A d \in C : ~ Inside(c, d)}

Straddle(C) == \E c, d \in Outermost(C) : c.from < d.from /\ d.from < c.to

WellFormed == \A c \in claims : c.from < c.to

Init == claims = {Header} /\ verdict = NotYet

Make == /\ verdict = NotYet
        /\ \E c \in claims' : c \in Claim /\ claims' = claims \cup {c}
        /\ UNCHANGED verdict

Report == /\ verdict = NotYet
          /\ verdict' \in Reports
          /\ WellFormed => /\ verdict'.wasted = Unclaimed
                           /\ verdict'.straddle = Straddle(claims)
          /\ UNCHANGED claims

GiveUp == /\ verdict = NotYet
          /\ verdict' = [status |-> "failed", wasted |-> {}, straddle |-> FALSE]
          /\ UNCHANGED claims

Next == Make \/ Report \/ GiveUp

Spec == Init /\ [][Next]_<<claims, verdict>>
=============================================================================
