--------------------------- MODULE MCDwarfString ---------------------------
(* Strings of up to three characters, arrays shorter and longer than them. *)
EXTENDS DwarfString

CONSTANTS a, b

SmallStrings == {<< >>, <<a>>, <<b>>, <<a, b>>, <<a, b, a>>}
=============================================================================
