----------------------------- MODULE ZeroCheck -----------------------------
(***************************************************************************)
(* is_wasted_space_zero of readelfobj.c: the bytes of a gap are read, a    *)
(* block at a time, to say whether all of them are zero.                   *)
(*                                                                         *)
(* Bytes of the file are zero or not; MaxBlock is MAXWBLOCK.  A read fails *)
(* when it would pass the end of the file, and may fail otherwise.         *)
(***************************************************************************)
EXTENDS Integers

CONSTANTS MaxBlock,  \* MAXWBLOCK
          FileSize,  \* f_filesize
          Files      \* the contents of the file: which bytes are not zero

ASSUME MaxBlockAssumption == MaxBlock \in Nat \ {0}
ASSUME FilesAssumption ==
    FileSize \in Nat /\ Files \subseteq SUBSET (0 .. FileSize - 1)

VARIABLES nonzero,    \* the bytes of the file that are not zero
          offset, length,  \* the arguments
          remaining, checklen,
          allocspace, \* is the buffer allocated?
          pc, wasted_space_zero

zeroVars == <<nonzero, offset, length, remaining, checklen, allocspace, pc,
              wasted_space_zero>>

args == <<nonzero, offset, length>>

Smaller(x, y) == IF x < y THEN x ELSE y

ZeroInit ==
    /\ nonzero \in Files
    /\ offset \in 0 .. FileSize /\ length \in 1 .. FileSize + 1
    /\ remaining = length
    /\ checklen = Smaller(length, MaxBlock)
    /\ allocspace = FALSE
    /\ pc = "malloc"
    /\ wasted_space_zero = FALSE

Malloc ==
    /\ pc = "malloc"
    /\ allocspace' = TRUE
    /\ pc' = "loop"
    /\ UNCHANGED <<args, remaining, checklen, wasted_space_zero>>

MallocFails ==
    /\ pc = "malloc"
    /\ pc' = "error"
    /\ UNCHANGED <<args, remaining, checklen, allocspace, wasted_space_zero>>

(* The bytes a round reads: offset stays what it was.                      *)
BytesReadOneShort(n) == offset .. offset + n - 2

BytesReadOnePast(n) == offset .. offset + n

BytesRead(n) == offset .. offset + n - 1

ReadError ==
    /\ pc = "loop"
    /\ remaining > 0
    /\ checklen' = Smaller(checklen, remaining)
    /\ allocspace' = FALSE
    /\ pc' = "error"
    /\ UNCHANGED <<args, remaining, wasted_space_zero>>

InFile(n) == offset + n <= FileSize

Read ==
    /\ pc = "loop"
    /\ remaining > 0
    /\ checklen' = Smaller(checklen, remaining)
    /\ InFile(checklen')
    /\ pc' = "scan"
    /\ UNCHANGED <<args, remaining, allocspace, wasted_space_zero>>

FindNonZero ==
    /\ pc = "scan"
    /\ BytesRead(checklen) \cap nonzero # {}
    /\ allocspace' = FALSE
    /\ wasted_space_zero' = FALSE
    /\ pc' = "ok"
    /\ UNCHANGED <<args, remaining, checklen>>

AllZero ==
    /\ pc = "scan"
    /\ BytesRead(checklen) \cap nonzero = {}
    /\ remaining' = remaining - checklen
    /\ pc' = "loop"
    /\ UNCHANGED <<args, checklen, allocspace, wasted_space_zero>>

Finished ==
    /\ pc = "loop"
    /\ remaining = 0
    /\ wasted_space_zero' = TRUE
    /\ allocspace' = FALSE
    /\ pc' = "ok"
    /\ UNCHANGED <<args, remaining, checklen>>

Returned == pc \in {"ok", "error"} /\ UNCHANGED zeroVars

ZeroNext ==
    \/ Malloc \/ MallocFails
    \/ ReadError \/ Read \/ FindNonZero \/ AllZero \/ Finished
    \/ Returned

ZeroSpec == ZeroInit /\ [][ZeroNext]_zeroVars /\ WF_zeroVars(ZeroNext)

-----------------------------------------------------------------------------
(* Properties.                                                             *)
ZeroTypeOK ==
    /\ nonzero \in Files
    /\ offset \in 0 .. FileSize /\ length \in 1 .. FileSize + 1
    /\ remaining \in 0 .. length
    /\ checklen \in 1 .. Smaller(length, MaxBlock)
    /\ allocspace \in BOOLEAN
    /\ pc \in {"malloc", "loop", "scan", "ok", "error"}
    /\ wasted_space_zero \in BOOLEAN

Gap == offset .. offset + length - 1

(* The report says of a gap that it "is not all zero" only when one of its *)
(* bytes is not, and for a gap of one block it says so whenever it can     *)
(* read the gap.                                                           *)
VerdictIsRight ==
    pc = "ok" =>
        /\ ~wasted_space_zero => Gap \cap nonzero # {}
        /\ length <= MaxBlock => (wasted_space_zero <=> Gap \cap nonzero = {})

(* The report keeps silent about a gap only when all of it is zero, as its *)
(* "Wasted space at ... is not all zero" message implies.                  *)
ZeroVerdictIsRight ==
    pc = "ok" /\ wasted_space_zero => Gap \cap nonzero = {}

=============================================================================
