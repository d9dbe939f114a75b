---------------------------- MODULE MCZeroCheck ----------------------------
(* Every file of five bytes, each zero or not.                             *)
EXTENDS ZeroCheck

AllFiles == SUBSET (0 .. FileSize - 1)
=============================================================================
