--------------------------- MODULE StringBuffer ----------------------------
(***************************************************************************)
(* What a dwarfstring is to its users (dwarf_string.h): a text that        *)
(* appending extends at its end and resetting empties.  A call that        *)
(* returns FALSE leaves the text as it was.                                *)
(***************************************************************************)
EXTENDS Sequences

CONSTANTS Strings   \* what may be appended

VARIABLES text, returned

vars == <<text, returned>>

Init == text = << >> /\ returned = TRUE

AppendText(s) == text' = text \o s /\ returned' = TRUE

Empty == text' = << >> /\ returned' = TRUE

Refuse == text' = text /\ returned' = FALSE

Next == (\E s \in Strings : AppendText(s)) \/ Empty \/ Refuse

Spec == Init /\ [][Next]_vars
=============================================================================
