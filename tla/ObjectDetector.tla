--------------------------- MODULE ObjectDetector ---------------------------
(***************************************************************************)
(* What kind of object a file is (dwarf_object_detector.c), and the two    *)
(* programs that begin with the question: object_detector, which says the  *)
(* answer, and readobjpe, which goes on in PeLoad.  Both take the files    *)
(* named in their arguments one after the other.                           *)
(*                                                                         *)
(* Of a name the model has its length and that of its last part, and the   *)
(* files found under it and under its .dSYM directory.  Of a file it has   *)
(* the size, what it begins with and the fields the detector reads; bits   *)
(* is the class of an Elf or Mach-O object and what the machine of a PE    *)
(* object says, 0 when it is unknown.  Any call of the system may fail.    *)
(***************************************************************************)
EXTENDS Integers, Sequences

CONSTANTS
    Arguments,    \* the sequences of names a program may be given
    OutpathLen    \* PATHSIZE, the length of finalpath

(* The last part of a name is no longer than the name.                     *)
ASSUME NamesAssumption ==
    /\ OutpathLen \in Nat \ {0}
    /\ \A a \in Arguments : \A k \in DOMAIN a :
          a[k].len \in Nat /\ a[k].base \in 0 .. a[k].len

NoFile == [size |-> 0, head |-> "none"]
DetectLen == 24    \* struct elf_header of the detector
DosLen == 64       \* struct dos_header
SignatureLen == 4
FileHeaderLen == 20   \* struct pe_image_file_header
SuffixLen == 32    \* sizeof(DSYM_SUFFIX)

VARIABLES
    args,       \* the names given, and the files found under them
    program,    \* "object_detector" or "readobjpe"
    outpath,    \* what is in finalpath: nothing, the name, or the dSYM name
    given,      \* is finalpath passed? (not after -z, and not by readobjpe)
    n,          \* the argument at hand
    pc,
    opened,     \* the file of the descriptor
    answer,     \* what the detector says, or NoAnswer
    errct       \* the errors object_detector has counted

detectorVars == <<args, program, outpath, given, n, pc, opened, answer, errct>>

NoAnswer == [ftype |-> "none", endian |-> "none", bits |-> 0, size |-> 0]

-----------------------------------------------------------------------------
(* is_pe_object; the machine decides the offset size.                      *)
IsPe(f) ==
    /\ f.head \in {"MZ", "ZM"}
    /\ f.size >= DosLen + SignatureLen + FileHeaderLen
    /\ f.size >= f.nt_address + SignatureLen + FileHeaderLen
    /\ f.nt_signature
    /\ f.bits # 0

(* fill_in_elf_fields                                                      *)
IsElf(f) ==
    f.head = "elf" /\ f.bits # 0 /\ f.endian # "none" /\ f.version = 1

Kind(f) ==
    CASE f.head = "elf" -> "elf"
      [] f.head \in {"MZ", "ZM"} -> "pe"
      [] OTHER -> f.head

(* The bytes of the DOS signature tell the order of the others.            *)
Endian(f) ==
    CASE f.head = "MZ" -> "little"
      [] f.head = "ZM" -> "big"
      [] f.head = "archive" -> "none"
      [] OTHER -> f.endian

(* dwarf_object_detector_fd_a, when every call of the system succeeds.     *)
Detected(f) ==
    /\ f.size > DetectLen
    /\ IsElf(f) \/ f.head \in {"universal", "macho", "archive"} \/ IsPe(f)

Answer(f) ==
    [ftype |-> Kind(f), endian |-> Endian(f),
     bits |-> IF f.head = "archive" THEN 0 ELSE f.bits, size |-> f.size]

-----------------------------------------------------------------------------
DetectorInit ==
    /\ args \in Arguments
    /\ program \in {"object_detector", "readobjpe"}
    /\ outpath = "" /\ given \in {TRUE, FALSE}
    /\ program = "readobjpe" => ~ given
    /\ n = 1 /\ pc = "open" /\ opened = NoFile
    /\ answer = NoAnswer /\ errct = 0

(* dwarf_object_detector_path writes the name, the suffix and the last     *)
(* part of the name to outpath, if they are sure to fit.                   *)
FitsWithoutTheLastPart(a) == a.len + SuffixLen + 2 < OutpathLen

Fits(a) == 2 * a.len + SuffixLen + 2 < OutpathLen

PathTooLong ==
    /\ pc = "open" /\ given /\ ~ Fits(args[n])
    /\ pc' = "report"
    /\ UNCHANGED <<args, program, outpath, given, n, opened, answer, errct>>

OpenDsym ==
    /\ pc = "open" /\ given /\ Fits(args[n])
    /\ args[n].dsym # NoFile
    /\ outpath' = "dsym" /\ opened' = args[n].dsym
    /\ pc' = "detect"
    /\ UNCHANGED <<args, program, given, n, answer, errct>>

OpenPath ==
    /\ pc = "open"
    /\ given => Fits(args[n]) /\ args[n].dsym = NoFile
    /\ args[n].file # NoFile
    /\ outpath' = IF given THEN "path" ELSE outpath
    /\ opened' = args[n].file
    /\ pc' = "detect"
    /\ UNCHANGED <<args, program, given, n, answer, errct>>

NothingToOpen ==
    /\ pc = "open"
    /\ given => Fits(args[n]) /\ args[n].dsym = NoFile
    /\ args[n].file = NoFile
    /\ outpath' = ""
    /\ pc' = "next"
    /\ UNCHANGED <<args, program, given, n, opened, answer, errct>>

(* dwarf_object_detector_fd, and the end of dwarf_object_detector_path.    *)
Detect ==
    /\ pc = "detect" /\ Detected(opened)
    /\ answer' = Answer(opened) /\ opened' = NoFile
    /\ pc' = IF program = "object_detector" THEN "report"
             ELSE IF Kind(opened) = "pe" THEN "construct" ELSE "next"
    /\ UNCHANGED <<args, program, outpath, given, n, errct>>

EmptiesOutpath == outpath' = ""

DetectFails ==
    /\ pc = "detect"
    /\ EmptiesOutpath
    /\ opened' = NoFile
    /\ pc' = "report"
    /\ UNCHANGED <<args, program, given, n, answer, errct>>

(* main of object_detector.  The table of a universal object may be wrong, *)
(* which counts as an error of its own.                                    *)
Report ==
    /\ pc = "report"
    /\ errct' = IF answer = NoAnswer /\ program = "object_detector"
                THEN errct + 1 ELSE errct
    /\ pc' = "next"
    /\ UNCHANGED <<args, program, outpath, given, n, opened, answer>>

ReportUniversalFails ==
    /\ pc = "report" /\ answer.ftype = "universal"
    /\ errct' = errct + 1
    /\ pc' = "next"
    /\ UNCHANGED <<args, program, outpath, given, n, opened, answer>>

(* finalpath is emptied; -z may come before the next name.                 *)
NextArgument ==
    /\ pc = "next" /\ n < Len(args)
    /\ n' = n + 1 /\ pc' = "open"
    /\ outpath' = "" /\ answer' = NoAnswer
    /\ given' \in {given, FALSE}
    /\ UNCHANGED <<args, program, opened, errct>>

-----------------------------------------------------------------------------
(* Properties.                                                             *)
Named(o, a) == IF o = "dsym" THEN a.dsym ELSE a.file

WrittenLen(o, a) ==
    CASE o = "" -> 0
      [] o = "path" -> a.len
      [] o = "dsym" -> a.len + SuffixLen - 1 + a.base

(* The path answered with a kind of object is the path of the file that    *)
(* was looked at, whichever of the two could be opened; it is empty when   *)
(* there is no answer, whatever the argument before left in it; and the    *)
(* dSYM name and its NUL never pass the end of the buffer.                 *)
OutpathIsTheOneRead ==
    /\ WrittenLen(outpath, args[n]) + 1 <= OutpathLen
    /\ pc = "report" /\ given =>
           IF answer = NoAnswer THEN outpath = ""
           ELSE answer = Answer(Named(outpath, args[n]))
=============================================================================
