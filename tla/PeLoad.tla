------------------------------- MODULE PeLoad -------------------------------
(***************************************************************************)
(* do_one_file of readobjpe (readobjpe.c, dwarf_peread.c), from the second *)
(* opening of a file that the detector has said to be PE to the display of *)
(* its sections and the destructor.  The detector closes what it opens:    *)
(* between its answer and the second opening another file may be given the *)
(* name, and the object read is then described by the answer about the     *)
(* first file.                                                             *)
(*                                                                         *)
(* Of a PE file the model has the position of the NT header, the symbol    *)
(* table, the string table and the section headers.  The name of a section *)
(* is short, with a rank in the order of names, or long, with an offset in *)
(* the string table.  Reads, allocations and the system may fail.          *)
(***************************************************************************)
EXTENDS ObjectDetector, FiniteSets

CONSTANTS
    Replacements,   \* the files a name may be given to
    Misread         \* what 40 bytes at a wrong place may say as a header

SectionHeader == [long : BOOLEAN, at : Int, rank : Nat, size : Nat]

File ==
    [size : Nat, head : {"elf", "MZ", "ZM", "universal", "macho", "archive", "text"},
     bits : {0, 32, 64}, endian : {"none", "little", "big"}, version : Nat,
     nt_address : Nat, nt_signature : BOOLEAN, symbols : Nat, nsymbols : Nat,
     strsize : Nat, sections : Seq(SectionHeader)]

AnyFile == File \cup {NoFile}
Argument == [len : Nat, base : Nat, file : AnyFile, dsym : AnyFile]

ASSUME FilesAssumption ==
    /\ Arguments \subseteq Seq(Argument) \ {<< >>}
    /\ Replacements \subseteq AnyFile
    /\ Misread \subseteq SectionHeader

OptionalHeaderLen == [bits \in {32, 64} |-> IF bits = 32 THEN 224 ELSE 240]
SectionHeaderLen == 40
SymbolLen == 18   \* IMAGE_SIZEOF_SYMBOL

VARIABLES
    replaced,   \* is the file read another than the one detected?
    pep,        \* the object: is64bit, and what do_one_file sets from answer
    strtab,     \* the string table: offset and size, 0 when there is none
    secs,       \* the section headers filled in, the null section first
    order,      \* the sections displayed
    sort,       \* the order asked for
    live,       \* what is allocated or open
    why,        \* why the file was given up
    fault       \* was something freed twice?

peVars == <<replaced, pep, strtab, secs, order, sort, live, why, fault>>
vars == <<detectorVars, peVars>>

NoPep == [bits |-> 0, is64bit |-> FALSE, filesize |-> 0, endian |-> "none",
          path |-> FALSE]
NoTable == [offset |-> 0, size |-> 0]
Block(use) == <<use, 0>>

-----------------------------------------------------------------------------
(* Positions in the file.                                                  *)
NtHeader == opened.nt_address + SignatureLen
OptionalHeader == NtHeader + FileHeaderLen

SectionTable == OptionalHeader + OptionalHeaderLen[pep.bits]

Sections == opened.sections
PastHeaders == SectionTable + SectionHeaderLen * Len(Sections)

(* What dwarf_object_read_random can read, of the size it is told.         *)
Readable(offset, len) ==
    /\ offset < pep.filesize /\ offset + len <= pep.filesize
    /\ offset + len <= opened.size \/ len = 0

Init ==
    /\ DetectorInit
    /\ replaced = FALSE /\ pep = NoPep /\ strtab = NoTable
    /\ secs = << >> /\ order = << >> /\ sort \in {"none", "size", "name"}
    /\ live = {} /\ why = "" /\ fault = FALSE

(* The destructor frees what the object points to; before there is an      *)
(* object only the descriptor is closed.                                   *)
AllButTheLastName ==
    {<<"name", k>> : k \in {j \in 1 .. Len(secs) - 1 : secs[j].name}}
        \cup {<<"dwarf", k>> : k \in {j \in 1 .. Len(secs) - 1 : secs[j].dwarf}}

SectionNames ==
    {<<"name", k>> : k \in {j \in DOMAIN secs : secs[j].name}}
        \cup {<<"dwarf", k>> : k \in {j \in DOMAIN secs : secs[j].dwarf}}

Held ==
    {Block("fd")} \cup
    (IF pep = NoPep THEN {}
     ELSE {Block("pep")}
          \cup (IF pep.path THEN {Block("path")} ELSE {})
          \cup (IF secs = << >> THEN {} ELSE {Block("secs")} \cup SectionNames)
          \cup (IF strtab = NoTable THEN {} ELSE {Block("strings")}))

Destruct ==
    /\ live' = live \ Held
    /\ fault' = (fault \/ ~ Held \subseteq live)
    /\ pep' = NoPep /\ strtab' = NoTable /\ secs' = << >>
    /\ opened' = NoFile
    /\ pc' = "next"
    /\ UNCHANGED <<args, program, outpath, given, n, answer, errct, sort>>

GiveUp(reason) ==
    /\ why' = reason
    /\ Destruct /\ order' = << >> /\ UNCHANGED replaced

InUse == <<args, program, outpath, given, n, opened, answer, errct>>

-----------------------------------------------------------------------------
(* Another file is given the name before it is opened again.               *)
ReplaceFile ==
    /\ pc = "construct" /\ ~ replaced
    /\ \E f \in Replacements : args' = [args EXCEPT ![n].file = f]
    /\ replaced' = TRUE
    /\ UNCHANGED <<program, outpath, given, n, pc, opened, answer, errct>>
    /\ UNCHANGED <<pep, strtab, secs, order, sort, live, why, fault>>

(* dwarf_construct_pe_access_path, which detects again, whatever the kind; *)
(* then do_one_file puts its own answer over that one, is64bit excepted.   *)
Construct ==
    /\ pc = "construct" /\ Detected(args[n].file)
    /\ opened' = args[n].file
    /\ \E path \in BOOLEAN :
           /\ pep' = [bits |-> answer.bits,
                      is64bit |-> Answer(args[n].file).bits = 64,
                      filesize |-> answer.size, endian |-> answer.endian,
                      path |-> path]
           /\ live' = {Block("fd"), Block("pep")}
                      \cup (IF path THEN {Block("path")} ELSE {})
    /\ pc' = "headers"
    /\ UNCHANGED <<args, program, outpath, given, n, answer, errct>>
    /\ UNCHANGED <<replaced, strtab, secs, order, sort, why, fault>>

ConstructFails ==
    /\ pc = "construct"
    /\ pc' = "next" /\ why' = "construct"
    /\ UNCHANGED InUse
    /\ UNCHANGED <<replaced, pep, strtab, secs, order, sort, live, fault>>

(* dwarf_load_pe_sections makes the tests of the detector again.           *)
RefusesBigEndian ==
    IF opened.head = "ZM" THEN "type" ELSE ""

Refusal ==
    IF FileHeaderLen + DosLen >= pep.filesize THEN "size"
    ELSE IF opened.head \notin {"MZ", "ZM"} THEN "type"
    ELSE IF Endian(opened) # pep.endian THEN "botch"
    ELSE IF pep.filesize < opened.nt_address THEN "small"
    ELSE IF ~ opened.nt_signature THEN "type"
    ELSE ""

LoadHeaders ==
    /\ pc = "headers" /\ Refusal = ""
    /\ Readable(0, DosLen) /\ Readable(opened.nt_address, SignatureLen)
    /\ Readable(NtHeader, FileHeaderLen)
    /\ Readable(OptionalHeader, OptionalHeaderLen[pep.bits])
    /\ pc' = "strings"
    /\ UNCHANGED <<InUse, peVars>>

HeadersRefused ==
    /\ pc = "headers" /\ Refusal # ""
    /\ GiveUp(Refusal)

StringTable == opened.symbols + SymbolLen * opened.nsymbols

NoStringTable ==
    /\ pc = "strings" /\ opened.symbols = 0
    /\ pc' = "table"
    /\ UNCHANGED <<InUse, peVars>>

LoadStringTable ==
    /\ pc = "strings" /\ opened.symbols # 0
    /\ opened.symbols < pep.filesize
    /\ Readable(StringTable, 4)
    /\ opened.strsize < pep.filesize
    /\ Readable(StringTable, opened.strsize)
    /\ strtab' = [offset |-> StringTable, size |-> opened.strsize]
    /\ live' = live \cup {Block("strings")}
    /\ pc' = "table"
    /\ UNCHANGED InUse
    /\ UNCHANGED <<replaced, pep, secs, order, sort, why, fault>>

(* Outside the file, and so refused or not read.                           *)
NotRead ==
    /\ pc \in {"headers", "strings", "table", "sections"}
    /\ GiveUp("read")

(* dwarf_pe_load_dwarf_section_headers                                     *)
AllocateSections ==
    /\ pc = "table" /\ PastHeaders <= pep.filesize
    /\ \E name \in BOOLEAN, dwarf \in BOOLEAN :
           /\ secs' = <<[name |-> name, dwarf |-> dwarf, rank |-> 0,
                         size |-> 0, header |-> 0]>>
           /\ live' = live \cup {Block("secs")}
                      \cup (IF name THEN {<<"name", 1>>} ELSE {})
                      \cup (IF dwarf THEN {<<"dwarf", 1>>} ELSE {})
    /\ pc' = "sections"
    /\ UNCHANGED InUse
    /\ UNCHANGED <<replaced, pep, strtab, order, sort, why, fault>>

(* pe_section_name_get; where the table ends there is the NUL put there,   *)
(* and offset 0 of no table is a null pointer.                             *)
NameOk(s) == s.long => s.at >= 0 /\ s.at <= strtab.size

MissingRank == 1   \* "<sec name missing>"
EmptyRank == 0

NameRank(s) ==
    IF s.long /\ strtab = NoTable THEN MissingRank
    ELSE IF s.long /\ s.at = strtab.size THEN EmptyRank
    ELSE s.rank

Section(k) == Sections[k - 1]

(* The table is looked for behind an optional header of the class answered *)
(* for the first file: a replacement of the other class has it elsewhere.  *)
HeaderRead(k) == IF pep.bits = opened.bits THEN {Section(k)} ELSE Misread

AddSection ==
    LET k == Len(secs) + 1
        offset == SectionTable + SectionHeaderLen * (k - 2)
    IN  /\ pc = "sections" /\ k <= Len(Sections) + 1
        /\ Readable(offset, SectionHeaderLen)
        /\ \E s \in HeaderRead(k) :
               /\ NameOk(s)
               /\ secs' = Append(secs,
                      [name |-> TRUE, dwarf |-> TRUE, rank |-> NameRank(s),
                       size |-> s.size, header |-> offset])
        /\ live' = live \cup {<<"name", k>>, <<"dwarf", k>>}
        /\ UNCHANGED <<InUse, pc>>
        /\ UNCHANGED <<replaced, pep, strtab, order, sort, why, fault>>

(* The name is bad, or one of the two cannot be copied: the entry is freed *)
(* with the others.                                                        *)
AddSectionFails ==
    LET k == Len(secs) + 1
    IN  /\ pc = "sections" /\ k <= Len(Sections) + 1
        /\ \E name \in BOOLEAN, dwarf \in BOOLEAN :
               /\ dwarf => ~ name /\ \E s \in HeaderRead(k) : NameOk(s)
               /\ secs' = Append(secs,
                      [name |-> name, dwarf |-> dwarf, rank |-> 0,
                       size |-> 0, header |-> 0])
               /\ live' = live \cup (IF name THEN {<<"name", k>>} ELSE {})
                               \cup (IF dwarf THEN {<<"dwarf", k>>} ELSE {})
        /\ pc' = "failed" /\ why' = "name"
        /\ UNCHANGED InUse
        /\ UNCHANGED <<replaced, pep, strtab, order, sort, fault>>

SectionsFail ==
    /\ pc = "failed"
    /\ Destruct /\ order' = << >>
    /\ UNCHANGED <<replaced, why>>

-----------------------------------------------------------------------------
(* pe_sections_display.  compare_by_secsize puts the greatest first,       *)
(* compare_by_secname follows the names; equal ones keep their order.      *)
Ahead(j, k) ==
    CASE sort = "size" -> secs[j].size > secs[k].size
      [] sort = "name" -> secs[j].rank < secs[k].rank
      [] sort = "none" -> FALSE

LastOfEqualFirst(j, k) == Ahead(j, k) \/ (~ Ahead(k, j) /\ j > k)

Before(j, k) == Ahead(j, k) \/ (~ Ahead(k, j) /\ j < k)

(* qsort: a section comes after all that compare as before it.             *)
Place(k) == Cardinality({j \in DOMAIN secs : Before(j, k)}) + 1

Displayed == [p \in DOMAIN secs |-> CHOOSE k \in DOMAIN secs : Place(k) = p]

Loaded == pc = "sections" /\ Len(secs) = Len(Sections) + 1

(* Section 0 may lack the name that is compared: the program stops there.  *)
NameToCompare == sort = "name" /\ Len(secs) > 1 => secs[1].dwarf

(* pe_headers_display, before it, gives a path to an object without one.   *)
Display ==
    /\ Loaded /\ NameToCompare
    /\ \E path \in IF pep.path THEN {TRUE} ELSE BOOLEAN :
           /\ pep' = [pep EXCEPT !.path = path]
           /\ live' = live \cup (IF path THEN {Block("path")} ELSE {})
    /\ order' = Displayed
    /\ pc' = "displayed"
    /\ UNCHANGED InUse
    /\ UNCHANGED <<replaced, strtab, secs, sort, why, fault>>

DisplayCrashes ==
    /\ Loaded /\ ~ NameToCompare
    /\ pc' = "crashed"
    /\ UNCHANGED <<InUse, peVars>>

(* With the display made, or without when there is no memory for it.       *)
Finish ==
    /\ pc = "displayed" \/ Loaded
    /\ Destruct /\ order' = << >>
    /\ UNCHANGED <<replaced, why>>

(* The next file is another one.                                           *)
NextFile ==
    /\ NextArgument
    /\ replaced' = FALSE /\ why' = ""
    /\ sort' \in {"none", "size", "name"}
    /\ UNCHANGED <<pep, strtab, secs, order, live, fault>>

DetectorStep ==
    /\ \/ PathTooLong \/ OpenDsym \/ OpenPath \/ NothingToOpen
       \/ Detect \/ DetectFails \/ Report \/ ReportUniversalFails
    /\ UNCHANGED peVars

Next ==
    \/ DetectorStep \/ NextFile
    \/ ReplaceFile \/ Construct \/ ConstructFails
    \/ LoadHeaders \/ HeadersRefused
    \/ NoStringTable \/ LoadStringTable \/ NotRead
    \/ AllocateSections \/ AddSection \/ AddSectionFails \/ SectionsFail
    \/ Display \/ DisplayCrashes \/ Finish

Spec == Init /\ [][Next]_vars

-----------------------------------------------------------------------------
(* Properties.                                                             *)
(* The two readers of the headers agree: what the detector has said to be  *)
(* a PE object is never refused by the tests that the loader makes again,  *)
(* the one that calls itself a coding botch among them, and 64-bit means   *)
(* the same to both, unless the file was replaced between the two.         *)
AcceptedIsLoadable ==
    ~ replaced =>
        /\ why \notin {"size", "type", "botch", "small"}
        /\ pep # NoPep => pep.is64bit = (pep.bits = 64)

Sorted(j, k) ==
    CASE sort = "size" -> secs[j].size >= secs[k].size
      [] sort = "name" -> secs[j].rank <= secs[k].rank
      [] sort = "none" -> TRUE

DisplayIsSorted ==
    LET equal(j, k) == Sorted(j, k) /\ Sorted(k, j)
    IN  order # << >> =>
            /\ {order[p] : p \in DOMAIN order} = 1 .. Len(Sections) + 1
            /\ \A p \in DOMAIN order : \A q \in p + 1 .. Len(order) :
                   /\ Sorted(order[p], order[q])
                   /\ equal(order[p], order[q]) => order[p] < order[q]

(* Of the file opened, whose size is not the one answered if it was        *)
(* replaced.                                                               *)
InBothSizes(offset, len) ==
    /\ offset + len <= pep.filesize
    /\ offset + len <= opened.size \/ len = 0

SectionsAreTheTable ==
    /\ strtab # NoTable => InBothSizes(strtab.offset, strtab.size)
    /\ \A k \in 2 .. Len(secs) : secs[k].name /\ secs[k].dwarf =>
           /\ InBothSizes(secs[k].header, SectionHeaderLen)
           /\ pep.bits = opened.bits =>
                  /\ secs[k].header = OptionalHeader + OptionalHeaderLen[opened.bits]
                                     + SectionHeaderLen * (k - 2)
                  /\ secs[k].size = Section(k).size
                  /\ Section(k).long => Section(k).at \in 0 .. strtab.size

(* What is displayed is the table of the file opened, replaced or not:     *)
(* section k of the object is header k - 1, behind the optional header of  *)
(* its class, and its long name begins in the string table; both lie in    *)
(* that file and below the size answered for the first one; each section   *)
(* is displayed once, in the order asked for, equal ones in the order of   *)
(* the file.  (Of a replacement of the other class the table is missed,    *)
(* and only the bounds are claimed.)                                       *)
DisplayIsTheTable == SectionsAreTheTable /\ DisplayIsSorted

(* Whichever step fails, all that was allocated for a file is freed once,  *)
(* its descriptor is closed, and nothing of it is left for the next file.  *)
OwnsWhatItFrees ==
    /\ ~ fault
    /\ pc = "next" => live = {}
=============================================================================
