----------------------------- MODULE MachoLoad -----------------------------
(***************************************************************************)
(* One run of readobjmacho on a file (readobjmacho.c, do_one_file): the    *)
(* object a universal binary is asked for, the Mach-O header, the load     *)
(* commands, the segments they describe and the sections of the segments,  *)
(* 32- and 64-bit (dwarf_machoread.c, dwarf_64machoread.c), and who owns   *)
(* the arrays these are kept in, one of which is replaced by a longer one  *)
(* for every segment.                                                      *)
(*                                                                         *)
(* The bytes of the object are chosen when they are read.  Any read, and   *)
(* any allocation, may fail.  Tests of names, protections and extents that *)
(* only end the run are part of what may fail.  Pointers are sets of at    *)
(* most one block; a block is named by its use and, for the arrays of      *)
(* sections, by the segment it was allocated for.                          *)
(***************************************************************************)
EXTENDS Integers, Sequences

CONSTANTS
    Files,             \* the files, see File
    Requests,          \* --unibinarynumber
    Counts,            \* the numbers of commands of a header,
    CommandSizes,      \* the sizes of commands,
    SectionCounts,     \* and the numbers of sections of segments
    SegmentNames       \* the names of segments that are known

Bits == {32, 64}

(* An outer file: what dwarf_object_detector_fd_a says of it and, when it  *)
(* is universal, the table of the objects inside.                          *)
Arch == [offset : Nat, size : Nat]
File == [size : Nat, kind : {"thin", "universal", "other"}, bits : Bits,
         arches : Seq(Arch)]

ASSUME FilesAssumption == Files \subseteq File
ASSUME NumbersAssumption ==
    /\ Requests \subseteq Nat /\ Counts \subseteq Nat
    /\ CommandSizes \subseteq Nat /\ SectionCounts \subseteq Nat

VARIABLES
    file,
    request,       \* the number of the object asked for, from 0
    pc,            \* where do_one_file is
    head,          \* the table of a universal binary: au_arches and its block
    bits,          \* mo_offsetsize
    inner,         \* mo_inner_offset
    filesize,      \* mo_filesize
    ncmds,         \* mo_command_count
    curoff,        \* the file position of the next record
    commands,      \* mo_commands
    segment_count, \* segment_command_count, later mo_segment_count
    segments,      \* mo_segment_commands
    cur,           \* the command or the segment looked at
    sections,      \* mo_dwarf_sections
    room,          \* mo_dwarf_sectioncount
    points,        \* the blocks the pointers of mfp point to
    live,          \* blocks allocated, and descriptors open
    fault          \* was something freed twice or null followed?

object == <<bits, inner, filesize>>
loaded == <<ncmds, curoff, commands, segment_count, segments, cur, sections, room>>
vars == <<file, request, pc, head, object, loaded, points, live, fault>>

FatHeaderLen == 8
FatArchLen == [b \in Bits |-> IF b = 32 THEN 20 ELSE 32]
HeaderLen == [b \in Bits |-> IF b = 32 THEN 28 ELSE 32]
CommandLen == 8
SegmentLen == [b \in Bits |-> IF b = 32 THEN 56 ELSE 72]
SectionLen == [b \in Bits |-> IF b = 32 THEN 68 ELSE 80]
DetectLen == 24            \* struct elf_header of the detector
GenericSectionLen == 160   \* struct generic_macho_section on a 64-bit host
PointerLen == 8            \* a pointer there

Block(use) == <<use, 0>>
NoHead == [arches |-> <<>>, block |-> {}]
NoPoints == [path |-> {}, commands |-> {}, segments |-> {}, sections |-> {}]
Skipped == {"__PAGEZERO", "__LINKEDIT", "__DATA"}

-----------------------------------------------------------------------------
Init ==
    /\ file \in Files /\ request \in Requests
    /\ pc = "detect" /\ head = NoHead
    /\ bits = 0 /\ inner = 0 /\ filesize = 0
    /\ ncmds = 0 /\ curoff = 0 /\ commands = <<>>
    /\ segment_count = 0 /\ segments = <<>> /\ cur = 1
    /\ sections = <<>> /\ room = 0
    /\ points = NoPoints /\ live = {} /\ fault = FALSE

(* The descriptor is closed and the run is over, with a message.           *)
GiveUp(freed) ==
    /\ pc' = "ended"
    /\ live' = live \ (freed \cup {Block("fd")})
    /\ fault' = (fault \/ ~ freed \subseteq live)
    /\ UNCHANGED <<file, request, object, loaded, points>>

(* dwarf_object_detector_path, which closes what it opens.                 *)
Detect ==
    /\ pc = "detect"
    /\ \/ pc' = "ended"
       \/ pc' = "open" /\ file.kind # "other" /\ file.size > DetectLen
    /\ UNCHANGED <<file, request, head, object, loaded, points, live, fault>>

(* dwarf_construct_macho_access_path and dwarf_construct_macho_access ask  *)
(* the detector again about the file they opened.                          *)
Open ==
    /\ pc = "open"
    /\ live' = {Block("fd")}
    /\ pc' = IF file.kind = "universal" THEN "fat_header" ELSE "construct"
    /\ bits' = file.bits /\ filesize' = file.size
    /\ UNCHANGED <<file, request, head, inner, loaded, points, fault>>

CannotOpen ==
    /\ pc = "open"
    /\ GiveUp({}) /\ UNCHANGED head

-----------------------------------------------------------------------------
(* dwarf_object_detector_universal_head_fd.                                *)
FatHeader ==
    /\ pc = "fat_header"
    /\ FatHeaderLen <= file.size /\ Len(file.arches) < file.size \div 2
    /\ pc' = "fat_alloc"
    /\ live' = live \cup {Block("arches")}
    /\ UNCHANGED <<file, request, head, object, loaded, points, fault>>

NoFatHeader ==
    /\ pc = "fat_header"
    /\ GiveUp({}) /\ UNCHANGED head

FatAlloc ==
    /\ pc = "fat_alloc"
    /\ pc' = "fat_table"
    /\ live' = live \cup {Block("fa")}
    /\ UNCHANGED <<file, request, head, object, loaded, points, fault>>

(* Without memory the answer is nevertheless DW_DLV_OK, and no head.       *)
NoFatAlloc ==
    /\ pc \in {"fat_alloc", "fat_head"}
    /\ pc' = "choose"
    /\ head' = NoHead
    /\ live' = live \ {Block("arches")}
    /\ UNCHANGED <<file, request, object, loaded, points, fault>>

(* Of a 32-bit table every byte is read; of a 64-bit table one pointer for *)
(* each entry.  The rest of the memory is zero.                            *)
BytesRead ==
    Len(file.arches) * (IF file.bits = 32 THEN FatArchLen[32] ELSE PointerLen)

FieldIsRead(i, end) == (i - 1) * FatArchLen[file.bits] + end <= BytesRead

ArchAsRead(i) ==
    [offset |-> IF file.bits = 32 \/ FieldIsRead(i, 16)
                THEN file.arches[i].offset ELSE 0,
     size |-> IF file.bits = 32 \/ FieldIsRead(i, 24)
              THEN file.arches[i].size ELSE 0]

(* A mistake: both numbers are tested, their sum is not.                   *)
ArchPossibleApart(a) == a.offset < file.size /\ a.size < file.size

(* fill_in_uni_arch_32 and _dwarf_fill_in_uni_arch_64.                     *)
ArchPossible(a) ==
    /\ a.offset < file.size /\ a.size < file.size
    /\ a.size + a.offset <= file.size

FatTable ==
    /\ pc = "fat_table"
    /\ FatHeaderLen + Len(file.arches) * FatArchLen[file.bits] <= file.size
    /\ \A i \in 1 .. Len(file.arches) : ArchPossible(ArchAsRead(i))
    /\ head' = [arches |-> [i \in 1 .. Len(file.arches) |-> ArchAsRead(i)],
                block |-> {}]
    /\ pc' = "fat_head"
    /\ live' = live \ {Block("fa")}
    /\ UNCHANGED <<file, request, object, loaded, points, fault>>

NoFatTable ==
    /\ pc = "fat_table"
    /\ GiveUp({Block("arches"), Block("fa")}) /\ UNCHANGED head

FatHead ==
    /\ pc = "fat_head"
    /\ pc' = "choose"
    /\ head' = [head EXCEPT !.block = {Block("head")}]
    /\ live' = live \cup {Block("head")}
    /\ UNCHANGED <<file, request, object, loaded, points, fault>>

(* dwarf_dealloc_universal_head                                            *)
HeadBlocks == IF head.block = {} THEN {} ELSE head.block \cup {Block("arches")}

(* dwarf_macho_inner_object_fd.  The bytes at the place the table gives    *)
(* decide the offset size, whatever kind of object they are: none for an   *)
(* archive, that of the universal binary itself at position 0.             *)
ChooseInner ==
    /\ pc = "choose"
    /\ request < Len(head.arches)
    /\ fault' = (fault \/ head.block = {})
    /\ LET chosen == head.arches[request + 1]
       IN  /\ file.size - chosen.offset > DetectLen
           /\ inner' = chosen.offset /\ filesize' = chosen.size
           /\ IF chosen.offset = 0 THEN bits' = file.bits
                                   ELSE bits' \in Bits \cup {0}
    /\ pc' = "construct"
    /\ head' = NoHead
    /\ live' = live \ HeadBlocks
    /\ UNCHANGED <<file, request, loaded, points>>

NoInner ==
    /\ pc = "choose"
    /\ GiveUp(HeadBlocks) /\ head' = NoHead

-----------------------------------------------------------------------------
(* dwarf_construct_macho_access; nobody asks whether strdup had memory.    *)
Construct ==
    /\ pc = "construct"
    /\ pc' = "header"
    /\ points' \in {NoPoints, [NoPoints EXCEPT !.path = {Block("path")}]}
    /\ live' = live \cup {Block("mfp")} \cup points'.path
    /\ UNCHANGED <<file, request, head, object, loaded, fault>>

NoConstruct ==
    /\ pc = "construct"
    /\ GiveUp({}) /\ UNCHANGED head

(* RRMOA with the limits of the inner object; read answers with fewer      *)
(* bytes at the end of the file.                                           *)
Readable(offset, length) ==
    /\ offset < filesize /\ offset + length <= filesize
    /\ inner + offset + length <= file.size

(* dwarf_load_macho_header.  Without an offset size, with too large a size *)
(* of commands or without the bytes the file is given up.                  *)
LoadHeader ==
    /\ pc = "header"
    /\ bits \in Bits /\ Readable(0, HeaderLen[bits])
    /\ ncmds' \in Counts
    /\ curoff' = HeaderLen[bits]
    /\ pc' = "commands"
    /\ UNCHANGED <<file, request, head, object, commands, segment_count,
                   segments, cur, sections, room, points, live, fault>>

NoHeader ==
    /\ pc = "header"
    /\ pc' = "warned"
    /\ UNCHANGED <<file, request, head, object, loaded, points, live, fault>>

(* dwarf_load_macho_commands                                               *)
AllocCommands ==
    /\ pc = "commands"
    /\ curoff + ncmds * CommandLen < filesize
    /\ points' = [points EXCEPT !.commands = {Block("commands")}]
    /\ live' = live \cup {Block("commands")}
    /\ pc' = "read_command"
    /\ UNCHANGED <<file, request, head, object, loaded, fault>>

(* A mistake: 32-bit segments are forgotten.                               *)
Counted64(cmd) == cmd = "LC_SEGMENT_64"

Counted(cmd) == cmd \in {"LC_SEGMENT", "LC_SEGMENT_64"}

ReadCommand ==
    /\ pc = "read_command" /\ Len(commands) < ncmds
    /\ Readable(curoff, CommandLen)
    /\ \E cmd \in {"LC_SEGMENT", "LC_SEGMENT_64", "other"}, size \in CommandSizes :
          /\ size <= filesize /\ curoff + size <= filesize
          /\ commands' = Append(commands, [cmd |-> cmd, cmdsize |-> size,
                                           offset |-> curoff])
          /\ curoff' = curoff + size
          /\ segment_count' = segment_count + (IF Counted(cmd) THEN 1 ELSE 0)
    /\ UNCHANGED <<file, request, pc, head, object, ncmds, segments, cur,
                   sections, room, points, live, fault>>

(* dwarf_macho_load_segment_commands                                       *)
AllocSegments ==
    /\ pc = "read_command" /\ Len(commands) = ncmds /\ segment_count > 0
    /\ points' = [points EXCEPT !.segments = {Block("segments")}]
    /\ live' = live \cup {Block("segments")}
    /\ pc' = "read_segment"
    /\ UNCHANGED <<file, request, head, object, loaded, fault>>

NoSegments ==
    /\ pc = "read_command" /\ Len(commands) = ncmds /\ segment_count = 0
    /\ pc' = "details"
    /\ UNCHANGED <<file, request, head, object, loaded, points, live, fault>>

(* The width of a segment is that of its command, not that of the object.  *)
Width(cmd) == IF cmd = "LC_SEGMENT" THEN 32 ELSE 64

SkipCommand ==
    /\ pc = "read_segment" /\ cur <= ncmds
    /\ commands[cur].cmd = "other"
    /\ cur' = cur + 1
    /\ UNCHANGED <<file, request, pc, head, object, ncmds, curoff, commands,
                   segment_count, segments, sections, room, points, live, fault>>

(* load_segment_command_content32 and 64                                   *)
ReadSegment ==
    LET command == commands[cur]
        length == SegmentLen[Width(command.cmd)]
    IN  /\ pc = "read_segment" /\ cur <= ncmds
        /\ command.cmd # "other"
        /\ command.offset + command.cmdsize <= filesize
        /\ Readable(command.offset, length)
        /\ \E name \in SegmentNames, n \in SectionCounts :
              /\ n < filesize
              /\ segments' = Append(segments, [name |-> name, nsects |-> n,
                                sectionsoffset |-> command.offset + length,
                                command |-> cur])
        /\ cur' = cur + 1
        /\ UNCHANGED <<file, request, pc, head, object, ncmds, curoff, commands,
                       segment_count, sections, room, points, live, fault>>

SegmentsRead ==
    /\ pc = "read_segment" /\ cur > ncmds
    /\ pc' = "details" /\ cur' = 1
    /\ UNCHANGED <<file, request, head, object, ncmds, curoff, commands,
                   segment_count, segments, sections, room, points, live, fault>>

-----------------------------------------------------------------------------
(* dwarf_macho_load_dwarf_sections.  A segment is passed over for its      *)
(* name, when it adds no sections to those there are, or because there is  *)
(* no memory for them, which is answered with DW_DLV_OK.                   *)
NextSegment ==
    /\ cur' = cur + 1
    /\ UNCHANGED <<file, request, pc, head, object, ncmds, curoff, commands,
                   segment_count, segments, sections, room, points, live, fault>>

SkipSegment ==
    /\ pc = "details" /\ cur <= segment_count
    /\ \/ segments[cur].name \in Skipped
       \/ points.sections # {} /\ segments[cur].nsects = 0
    /\ NextSegment

HasSections ==
    /\ pc = "details" /\ cur <= segment_count
    /\ segments[cur].name \notin Skipped
    /\ points.sections # {} => segments[cur].nsects # 0

(* Only the 32-bit reader compares the memory it asks for with the file.   *)
RoomIsPossible(n) ==
    bits = 32 /\ points.sections # {} => n * GenericSectionLen <= filesize

(* The first array has a null section in front.                            *)
NewRoom ==
    IF points.sections = {} THEN segments[cur].nsects + 1
                            ELSE room + segments[cur].nsects

NoMemoryForSections ==
    /\ HasSections
    /\ RoomIsPossible(NewRoom)
    /\ NextSegment

(* A mistake: the array the sections were copied from is forgotten.        *)
ReplacedIsForgotten == {}

Replaced == points.sections

(* Segments are counted from 1 here; the null section is of none.          *)
NullSection(offset) == [from |-> offset, segment |-> 0]

(* dwarf_macho_load_dwarf_section_details32 and 64: a longer array takes   *)
(* the sections there are and has room for those of the segment.           *)
GrowSections ==
    LET block == <<"sections", cur>>
    IN  /\ HasSections
        /\ RoomIsPossible(NewRoom)
        /\ room' = NewRoom
        /\ sections' = IF points.sections = {}
                       THEN <<NullSection(segments[cur].sectionsoffset)>>
                       ELSE sections
        /\ curoff' = segments[cur].sectionsoffset
        /\ points' = [points EXCEPT !.sections = {block}]
        /\ live' = (live \ Replaced) \cup {block}
        /\ fault' = (fault \/ ~ Replaced \subseteq live)
        /\ pc' = "read_section"
        /\ UNCHANGED <<file, request, head, object, ncmds, commands,
                       segment_count, segments, cur>>

(* A mistake: records of 64-bit objects are as long as those of 32-bit.    *)
RecordAfter32(offset) == offset + SectionLen[32]

RecordAfter(offset) == offset + SectionLen[bits]

ReadSection ==
    /\ pc = "read_section" /\ Len(sections) < room
    /\ Readable(curoff, SectionLen[bits])
    /\ sections' = Append(sections, [from |-> curoff, segment |-> cur])
    /\ curoff' = RecordAfter(curoff)
    /\ UNCHANGED <<file, request, pc, head, object, ncmds, commands,
                   segment_count, segments, cur, room, points, live, fault>>

SectionsRead ==
    /\ pc = "read_section" /\ Len(sections) = room
    /\ pc' = "details" /\ cur' = cur + 1
    /\ UNCHANGED <<file, request, head, object, ncmds, curoff, commands,
                   segment_count, segments, sections, room, points, live, fault>>

(* Some read, test or allocation of dwarf_load_macho_commands goes wrong.  *)
LoadFails ==
    /\ \/ pc = "commands"
       \/ pc = "read_command" /\ (Len(commands) < ncmds \/ segment_count > 0)
       \/ pc = "read_segment" /\ cur <= ncmds /\ commands[cur].cmd # "other"
       \/ HasSections /\ ~ RoomIsPossible(NewRoom)
       \/ pc = "read_section" /\ Len(sections) < room
    /\ pc' = "failed"
    /\ UNCHANGED <<file, request, head, object, loaded, points, live, fault>>

(* No sections at all is DW_DLV_NO_ENTRY, which ends the program too.      *)
Loaded ==
    /\ pc = "details" /\ cur > segment_count
    /\ pc' = IF room # 0 THEN "print" ELSE "failed"
    /\ UNCHANGED <<file, request, head, object, loaded, points, live, fault>>

(* dwarf_destruct_macho_access, after what was loaded has been printed, a  *)
(* warning, or an error, which ends the program with exit.                 *)
Destruct ==
    LET freed == {Block("fd"), Block("mfp")} \cup points.path \cup points.commands
                 \cup points.segments \cup points.sections
    IN  /\ pc \in {"print", "warned", "failed"}
        /\ pc' = IF pc = "failed" THEN "exited" ELSE "ended"
        /\ live' = live \ freed
        /\ fault' = (fault \/ ~ freed \subseteq live)
        /\ points' = NoPoints
        /\ UNCHANGED <<file, request, head, object, loaded>>

Next ==
    \/ Detect \/ Open \/ CannotOpen
    \/ FatHeader \/ NoFatHeader \/ FatAlloc \/ NoFatAlloc
    \/ FatTable \/ NoFatTable \/ FatHead \/ ChooseInner \/ NoInner
    \/ Construct \/ NoConstruct \/ LoadHeader \/ NoHeader
    \/ AllocCommands \/ ReadCommand \/ AllocSegments \/ NoSegments
    \/ SkipCommand \/ ReadSegment \/ SegmentsRead
    \/ SkipSegment \/ NoMemoryForSections \/ GrowSections
    \/ ReadSection \/ SectionsRead \/ LoadFails \/ Loaded \/ Destruct

Spec == Init /\ [][Next]_vars

-----------------------------------------------------------------------------
(* No array is written beyond the room it was allocated with: commands,    *)
(* segments, and sections behind the null section.                         *)
TypeOK ==
    /\ file \in Files /\ request \in Requests
    /\ bits \in Bits \cup {0} /\ inner \in Nat /\ filesize \in Nat
    /\ ncmds \in Nat /\ Len(commands) <= ncmds
    /\ segment_count \in Nat /\ room \in Nat /\ Len(sections) <= room
    /\ curoff \in Nat /\ cur \in Nat \ {0}
    /\ points.sections # {} => room > 0

(* Every read is bounded by mo_inner_offset + mo_filesize, numbers of the  *)
(* table of a universal binary: that bound is in the file, and of a 32-bit *)
(* table it bounds the object that was asked for, from where it starts     *)
(* (dwarf_macho_inner_object_fd, fill_in_uni_arch_32 and 64).              *)
InnerIsInTheFile ==
    /\ inner + filesize <= file.size
    /\ pc = "header" /\ file.kind = "universal" /\ file.bits = 32 =>
          /\ request < Len(file.arches)
          /\ inner = file.arches[request + 1].offset
          /\ filesize = file.arches[request + 1].size

(* The segments are counted while the commands are read, and filled in in  *)
(* a second walk over the commands: the walk finds as many as were         *)
(* counted, those of the segment commands, in their order                  *)
(* (dwarf_load_macho_commands, dwarf_macho_load_segment_commands).         *)
SegmentsAreTheCommands ==
    /\ Len(segments) <= segment_count
    /\ pc \in {"details", "read_section", "print"} =>
          /\ Len(segments) = segment_count
          /\ \A i \in 1 .. Len(commands) :
                commands[i].cmd # "other" <=>
                    \E k \in 1 .. Len(segments) : segments[k].command = i
    /\ \A j, k \in 1 .. Len(segments) :
          j < k => segments[j].command < segments[k].command

Of(k) == {i \in 1 .. Len(sections) : sections[i].segment = k}

(* What is printed has all sections of a segment or none of them, in the   *)
(* order of the segments and of the records in the file, each read from    *)
(* its own record behind the header of its segment and inside the object,  *)
(* although every segment moves the sections of those before it to a       *)
(* longer array (dwarf_macho_load_dwarf_section_details32 and 64).         *)
SectionsAreTheSegments ==
    pc = "print" =>
        /\ Len(sections) = room
        /\ \A i, j \in 1 .. Len(sections) :
              i < j => sections[i].segment <= sections[j].segment
        /\ \A k \in 1 .. segment_count :
              LET records == {segments[k].sectionsoffset + n * SectionLen[bits] :
                                 n \in 0 .. segments[k].nsects - 1}
              IN  /\ {sections[i].from : i \in Of(k)} \in {{}, records}
                  /\ segments[k].name \in Skipped => Of(k) = {}
                  /\ \A i, j \in Of(k) :
                        i < j => sections[i].from < sections[j].from
                  /\ \A i \in Of(k) :
                        sections[i].from + SectionLen[bits] <= filesize

(* Whatever fails, and however often the array of sections was replaced,   *)
(* everything is given back once before the file or the program is done    *)
(* with, and a head that is not there is never used                        *)
(* (dwarf_destruct_macho_access, dwarf_dealloc_universal_head).            *)
OwnsWhatItFrees ==
    /\ ~ fault
    /\ pc \in {"ended", "exited"} => live = {}

(* "The filesize being that of the inner binary, and the fileoffset being  *)
(* the offset of the inner binary (so by definition > 0)"                  *)
(* (dwarf_machoread.c:213): the object read is the one asked for.          *)
ChosenIsTheOneAskedFor ==
    pc = "header" /\ file.kind = "universal" =>
        /\ inner = file.arches[request + 1].offset
        /\ filesize = file.arches[request + 1].size

=============================================================================
