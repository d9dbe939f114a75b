------------------------------ MODULE Printing ------------------------------
(***************************************************************************)
(* What a line of the report is made of: numbers and names of constants,   *)
(* formatted into a dwarfstring, and names found in the file, shown        *)
(* through the sanitizer.  The two share no state, so that an execution    *)
(* exercises one of them and the other rests.                              *)
(***************************************************************************)
EXTENDS ElfNaming, Sanitizer

VARIABLE part    \* "numbers" or "names", chosen at the start

printingVars == <<formatVars, sanitizerVars, part>>

PrintingInit ==
    /\ FormatInit /\ SanitizerInit
    /\ part \in {"numbers", "names"}

PrintingNext ==
    \/ part = "numbers" /\ NamingNext /\ UNCHANGED <<sanitizerVars, part>>
    \/ part = "names" /\ sanitized /\ UNCHANGED <<formatVars, part>>

PrintingSpec == PrintingInit /\ [][PrintingNext]_printingVars

=============================================================================
