--------------------------- MODULE MCWastedSpace ---------------------------
(* Small files for WastedSpace.                                            *)
EXTENDS WastedSpace

(* Every offset of a file of six bytes and of the byte after it, empty and *)
(* non-empty areas, no alignment and alignment by four.  The last offset   *)
(* of the arithmetic is 8, so that the longest areas wrap.                 *)
SmallTargets == [off : 0 .. 6, len : {0, 1, 3}, align : {1, 4}]
=============================================================================
