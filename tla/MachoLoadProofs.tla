-------------------------- MODULE MachoLoadProofs --------------------------
(***************************************************************************)
(* What MachoLoad says of reads, arrays and ownership holds for files of   *)
(* any size, with any number of objects, commands, segments and sections.  *)
(***************************************************************************)
EXTENDS MachoLoad, FiniteSetTheorems, TLAPS

Command == [cmd : {"LC_SEGMENT", "LC_SEGMENT_64", "other"}, cmdsize : Nat,
            offset : Nat]

(* Before the object is known, before it is loaded, and while it is.       *)
InFat == {"fat_header", "fat_alloc", "fat_table", "fat_head", "choose"}
Unknown == {"detect", "open"} \cup InFat
Empty == Unknown \cup {"construct", "header", "commands"}
Holding == {"header", "commands", "read_command", "read_segment", "details",
            "read_section", "print", "warned", "failed"}
Over == {"ended", "exited"}
HaveSegments == {"details", "read_section", "print"}

Types ==
    /\ file \in Files /\ request \in Requests
    /\ pc \in Empty \cup Holding \cup Over
    /\ bits \in Bits \cup {0} /\ inner \in Nat /\ filesize \in Nat
    /\ ncmds \in Nat /\ curoff \in Nat /\ cur \in Nat \ {0}
    /\ segment_count \in Nat /\ room \in Nat
    /\ commands \in Seq(Command) /\ Len(commands) <= ncmds
    /\ pc \in Holding \ {"header", "warned", "failed"} => bits \in Bits
    /\ pc \in {"read_segment"} \cup HaveSegments => Len(commands) = ncmds

Nothing ==
    /\ pc \in Unknown => inner = 0
    /\ pc \in {"detect", "open"} => filesize = 0
    /\ pc \in Empty => commands = <<>> /\ segment_count = 0
    /\ pc \in Empty \cup {"read_command"} =>
          segments = <<>> /\ cur = 1 /\ sections = <<>> /\ room = 0
    /\ pc = "read_segment" => sections = <<>> /\ room = 0
    /\ pc \in Empty \cup {"read_command", "read_segment", "warned"} =>
          points.sections = {}

-----------------------------------------------------------------------------
(* What is allocated is what the pointers point to.                        *)
Pointers ==
    /\ points.path \subseteq {Block("path")}
    /\ points.commands \subseteq {Block("commands")}
    /\ points.segments \subseteq {Block("segments")}
    /\ \A b \in points.sections : b[1] = "sections"

Pointed ==
    {Block("fd"), Block("mfp")} \cup points.path \cup points.commands
    \cup points.segments \cup points.sections

Owns ==
    /\ ~ fault
    /\ Pointers
    /\ pc \in {"detect", "open"} \cup Over => live = {}
    /\ pc \in {"fat_header", "construct"} => live = {Block("fd")}
    /\ pc \in {"fat_alloc", "fat_head"} => live = {Block("fd"), Block("arches")}
    /\ pc = "fat_table" => live = {Block("fd"), Block("arches"), Block("fa")}
    /\ pc = "choose" =>
          \/ head = NoHead /\ live = {Block("fd")}
          \/ /\ head.block = {Block("head")}
             /\ live = {Block("fd"), Block("arches"), Block("head")}
    /\ pc \in Holding => live = Pointed

-----------------------------------------------------------------------------
(* The table of a universal binary as it was read.                         *)
Table ==
    pc \in {"fat_head", "choose"} =>
        /\ Len(head.arches) \in {0, Len(file.arches)}
        /\ \A i \in 1 .. Len(head.arches) :
              /\ head.arches[i] = ArchAsRead(i)
              /\ ArchPossible(head.arches[i])

Inside ==
    /\ pc \in InFat => file.kind = "universal"
    /\ inner + filesize <= file.size
    /\ pc \in {"construct", "header"} /\ file.kind = "universal"
          /\ file.bits = 32 =>
             /\ request < Len(file.arches)
             /\ inner = file.arches[request + 1].offset
             /\ filesize = file.arches[request + 1].size

-----------------------------------------------------------------------------
(* The segment commands among the first n of c.                            *)
Among(c, n) == {i \in 1 .. n : c[i].cmd # "other"}

Described == [name : SegmentNames, nsects : Nat, sectionsoffset : Nat,
              command : Nat]

Scanned == IF pc = "read_segment" THEN cur - 1 ELSE Len(commands)

Segs ==
    /\ segments \in Seq(Described)
    /\ segment_count = Cardinality(Among(commands, Len(commands)))
    /\ Len(segments) <= segment_count
    /\ \A k \in 1 .. Len(segments) : segments[k].command \in 1 .. Len(commands)
    /\ \A j, k \in 1 .. Len(segments) :
          j < k => segments[j].command < segments[k].command
    /\ pc = "read_segment" => cur <= ncmds + 1
    /\ pc \in {"read_segment"} \cup HaveSegments =>
          /\ Len(segments) = Cardinality(Among(commands, Scanned))
          /\ \A k \in 1 .. Len(segments) : segments[k].command <= Scanned
          /\ \A i \in 1 .. Scanned :
                commands[i].cmd # "other" <=>
                    \E k \in 1 .. Len(segments) : segments[k].command = i

-----------------------------------------------------------------------------
Record == [from : Nat, segment : Nat]

(* The records of segment k, from place b + 1 on, up to place e.           *)
Place(k, i, b) == segments[k].sectionsoffset + (i - b - 1) * SectionLen[bits]

Run(k, b, e) ==
    /\ b \in Nat \ {0} /\ b <= e /\ e <= Len(sections)
    /\ \A i \in 1 .. Len(sections) : sections[i].segment = k <=> i \in b + 1 .. e
    /\ \A i \in b + 1 .. e : sections[i].from = Place(k, i, b)

Absent(k) == \A i \in 1 .. Len(sections) : sections[i].segment # k

Whole(k) ==
    \/ Absent(k)
    \/ /\ segments[k].name \notin Skipped
       /\ \E b \in Nat \ {0} : Run(k, b, b + segments[k].nsects)

Behind == IF pc = "read_section" THEN cur ELSE cur - 1

Secs ==
    /\ sections \in Seq(Record)
    /\ Len(sections) <= room
    /\ points.sections # {} => room > 0
    /\ pc \in HaveSegments =>
          /\ points.sections = {} <=> room = 0
          /\ points.sections = {} => sections = <<>>
          /\ points.sections # {} => sections # <<>>
          /\ pc # "read_section" => Len(sections) = room
          /\ \A i, j \in 1 .. Len(sections) :
                i < j => sections[i].segment <= sections[j].segment
          /\ \A i \in 1 .. Len(sections) :
                /\ sections[i].segment <= Behind
                /\ sections[i].segment # 0 =>
                      sections[i].from + SectionLen[bits] <= filesize
          /\ \A k \in 1 .. cur - 1 : Whole(k)
    /\ pc = "print" => cur > segment_count
    /\ pc = "read_section" =>
          /\ cur <= segment_count /\ points.sections # {}
          /\ segments[cur].name \notin Skipped
          /\ Run(cur, room - segments[cur].nsects, Len(sections))
          /\ curoff = Place(cur, Len(sections) + 1, room - segments[cur].nsects)

IInv == Types /\ Nothing /\ Owns /\ Table /\ Inside /\ Segs /\ Secs
-----------------------------------------------------------------------------
(* The lengths of the structures are positive numbers.                     *)
LEMMA Lengths ==
    /\ \A b \in Bits : /\ FatArchLen[b] \in Nat /\ HeaderLen[b] \in Nat
                       /\ SegmentLen[b] \in Nat /\ SectionLen[b] \in Nat \ {0}
    /\ CommandLen \in Nat /\ FatHeaderLen \in Nat
BY DEF Bits, FatArchLen, HeaderLen, SegmentLen, SectionLen, CommandLen,
   FatHeaderLen

(* A file is a record of its numbers and its table.                        *)
LEMMA FileTypes ==
    ASSUME file \in Files
    PROVE  /\ file.size \in Nat /\ file.bits \in Bits /\ file.arches \in Seq(Arch)
           /\ file.kind \in {"thin", "universal", "other"}
BY FilesAssumption DEF File

(* What is read of an entry of a table are numbers.                        *)
LEMMA ReadTypes ==
    ASSUME file \in Files, NEW i \in 1 .. Len(file.arches)
    PROVE  ArchAsRead(i).offset \in Nat /\ ArchAsRead(i).size \in Nat
<1>1. file.arches[i] \in Arch
  BY FileTypes
<1> QED
  BY <1>1 DEF ArchAsRead, Arch

(* The invariant holds before the file is looked at.                       *)
LEMMA InitIInv == Init => IInv
<1> SUFFICES ASSUME Init PROVE IInv
  OBVIOUS
<1>1. Types
  BY DEF Init, Types, Empty, Unknown, InFat, Holding, Over, HaveSegments
<1>2. Nothing
  BY DEF Init, Nothing, Empty, Unknown, InFat, Holding, NoPoints
<1>3. Owns
  BY DEF Init, Owns, Pointers, NoPoints, Over, Holding
<1>4. Table
  BY DEF Init, Table
<1>5. Inside
  BY FileTypes DEF Init, Inside, InFat
<1>6. Segs
  <2>1. Among(commands, Len(commands)) = {}
    BY DEF Init, Among
  <2>2. Cardinality(Among(commands, Len(commands))) = 0
    BY <2>1, FS_EmptySet
  <2>3. segments = <<>> /\ Len(segments) = 0 /\ segment_count = 0 /\ pc = "detect"
    BY DEF Init
  <2>4. segments \in Seq(Described)
    BY <2>3
  <2> QED
    BY <2>2, <2>3, <2>4 DEF Segs, HaveSegments
<1>7. Secs
  BY DEF Init, Secs, HaveSegments, NoPoints
<1> QED
  BY <1>1, <1>2, <1>3, <1>4, <1>5, <1>6, <1>7 DEF IInv

(* Once the walk is over there are as many segments as were counted.       *)
LEMMA AllDescribed ==
    ASSUME Segs, pc \in HaveSegments
    PROVE  Len(segments) = segment_count
BY DEF Segs, Scanned, HaveSegments

(* So the fields of a segment that is looked at are there.                 *)
LEMMA CurrentTypes ==
    ASSUME Types, Segs, pc \in HaveSegments, cur <= segment_count
    PROVE  /\ cur \in 1 .. Len(segments)
           /\ segments[cur].sectionsoffset \in Nat
           /\ segments[cur].nsects \in Nat
<1>1. cur \in 1 .. Len(segments)
  BY AllDescribed DEF Types
<1>2. segments \in Seq(Described)
  BY DEF Segs
<1>3. segments[cur] \in Described
  BY <1>1, <1>2
<1> QED
  BY <1>1, <1>3 DEF Described

(* Every step keeps the types.                                             *)
LEMMA TypesStep ==
    ASSUME Types, Nothing, Table, Segs, [Next]_vars
    PROVE  Types'
<1> USE DEF object, loaded, Empty, Unknown, InFat, Holding, Over, HaveSegments
<1>1. CASE Detect
  BY <1>1, FileTypes, Lengths, NumbersAssumption DEF Detect, Types, Nothing
<1>2. CASE Open
  BY <1>2, FileTypes, Lengths, NumbersAssumption DEF Open, Types, Nothing
<1>3. CASE CannotOpen
  BY <1>3, FileTypes, Lengths, NumbersAssumption DEF CannotOpen, GiveUp,
     Types, Nothing
<1>4. CASE FatHeader
  BY <1>4, FileTypes, Lengths, NumbersAssumption DEF FatHeader, Types, Nothing
<1>5. CASE NoFatHeader
  BY <1>5, FileTypes, Lengths, NumbersAssumption DEF NoFatHeader, GiveUp,
     Types, Nothing
<1>6. CASE FatAlloc
  BY <1>6, FileTypes, Lengths, NumbersAssumption DEF FatAlloc, Types, Nothing
<1>7. CASE NoFatAlloc
  BY <1>7, FileTypes, Lengths, NumbersAssumption DEF NoFatAlloc, Types,
     Nothing
<1>8. CASE FatTable
  BY <1>8, FileTypes, Lengths, NumbersAssumption DEF FatTable, Types, Nothing
<1>9. CASE NoFatTable
  BY <1>9, FileTypes, Lengths, NumbersAssumption DEF NoFatTable, GiveUp,
     Types, Nothing
<1>10. CASE FatHead
  BY <1>10, FileTypes, Lengths, NumbersAssumption DEF FatHead, Types, Nothing
<1>11. CASE ChooseInner
  <2>1. request + 1 \in 1 .. Len(head.arches)
    <3>1. request \in Nat /\ request < Len(head.arches)
      BY <1>11, NumbersAssumption DEF ChooseInner, Types
    <3>2. Len(head.arches) \in Nat
      BY <1>11, FileTypes DEF ChooseInner, Types, Table
    <3> QED
      BY <3>1, <3>2
  <2>2. /\ head.arches[request + 1] = ArchAsRead(request + 1)
        /\ request + 1 \in 1 .. Len(file.arches)
    BY <1>11, <2>1, FileTypes DEF ChooseInner, Types, Table
  <2>3. /\ head.arches[request + 1].offset \in Nat
        /\ head.arches[request + 1].size \in Nat
    BY <2>2, ReadTypes DEF Types
  <2>4. inner' \in Nat /\ filesize' \in Nat
    BY <1>11, <2>3 DEF ChooseInner
  <2>5. bits' \in Bits \cup {0}
    BY <1>11, FileTypes DEF ChooseInner, Types
  <2> QED
    BY <1>11, <2>4, <2>5 DEF ChooseInner, Types
<1>12. CASE NoInner
  BY <1>12, FileTypes, Lengths, NumbersAssumption DEF NoInner, GiveUp,
     HeadBlocks, Types, Nothing
<1>13. CASE Construct
  BY <1>13, FileTypes, Lengths, NumbersAssumption DEF Construct, Types,
     Nothing
<1>14. CASE NoConstruct
  BY <1>14, FileTypes, Lengths, NumbersAssumption DEF NoConstruct, GiveUp,
     Types, Nothing
<1>15. CASE LoadHeader
  BY <1>15, FileTypes, Lengths, NumbersAssumption DEF LoadHeader, Types,
     Nothing
<1>16. CASE NoHeader
  BY <1>16, FileTypes, Lengths, NumbersAssumption DEF NoHeader, Types, Nothing
<1>17. CASE AllocCommands
  <2>1. /\ pc = "commands" /\ pc' = "read_command"
        /\ UNCHANGED <<file, request, object, loaded>>
    BY <1>17 DEF AllocCommands
  <2> QED
    BY <2>1 DEF Types
<1>18. CASE ReadCommand
  <2>1. PICK cmd \in {"LC_SEGMENT", "LC_SEGMENT_64", "other"},
             size \in CommandSizes :
          /\ commands' = Append(commands, [cmd |-> cmd, cmdsize |-> size,
                                           offset |-> curoff])
          /\ curoff' = curoff + size
          /\ segment_count' = segment_count + (IF Counted(cmd) THEN 1 ELSE 0)
    BY <1>18 DEF ReadCommand
  <2>2. [cmd |-> cmd, cmdsize |-> size, offset |-> curoff] \in Command
    BY NumbersAssumption DEF Command, Types
  <2>3. commands' \in Seq(Command) /\ Len(commands') = Len(commands) + 1
    BY <2>1, <2>2 DEF Types
  <2>4. curoff' \in Nat /\ segment_count' \in Nat
    BY <2>1, NumbersAssumption DEF Types
  <2>5. Len(commands') <= ncmds
    BY <1>18, <2>3 DEF ReadCommand, Types
  <2> QED
    BY <1>18, <2>3, <2>4, <2>5 DEF ReadCommand, Types
<1>19. CASE AllocSegments
  BY <1>19, FileTypes, Lengths, NumbersAssumption DEF AllocSegments, Types,
     Nothing
<1>20. CASE NoSegments
  BY <1>20, FileTypes, Lengths, NumbersAssumption DEF NoSegments, Types,
     Nothing
<1>21. CASE SkipCommand
  BY <1>21, FileTypes, Lengths, NumbersAssumption DEF SkipCommand, Types,
     Nothing
<1>22. CASE ReadSegment
  BY <1>22, FileTypes, Lengths, NumbersAssumption DEF ReadSegment, Types,
     Nothing
<1>23. CASE SegmentsRead
  BY <1>23, FileTypes, Lengths, NumbersAssumption DEF SegmentsRead, Types,
     Nothing
<1>24. CASE SkipSegment
  BY <1>24, FileTypes, Lengths, NumbersAssumption DEF SkipSegment,
     NextSegment, Types, Nothing
<1>25. CASE NoMemoryForSections
  BY <1>25, FileTypes, Lengths, NumbersAssumption DEF NoMemoryForSections,
     NextSegment, HasSections, Types, Nothing
<1>26. CASE GrowSections
  <2>1. pc \in HaveSegments /\ cur <= segment_count
    BY <1>26 DEF GrowSections, HasSections
  <2>2. segments[cur].sectionsoffset \in Nat /\ segments[cur].nsects \in Nat
    BY <2>1, CurrentTypes
  <2>3. room' \in Nat /\ curoff' \in Nat
    BY <1>26, <2>2 DEF GrowSections, NewRoom, Types
  <2> QED
    BY <1>26, <2>3 DEF GrowSections, HasSections, Types
<1>27. CASE ReadSection
  <2>1. SectionLen[bits] \in Nat
    BY <1>27, Lengths DEF ReadSection, Types
  <2>2. curoff' \in Nat
    BY <1>27, <2>1 DEF ReadSection, RecordAfter, Types
  <2> QED
    BY <1>27, <2>2 DEF ReadSection, Types
<1>28. CASE SectionsRead
  BY <1>28, FileTypes, Lengths, NumbersAssumption DEF SectionsRead, Types,
     Nothing
<1>29. CASE LoadFails
  BY <1>29, FileTypes, Lengths, NumbersAssumption DEF LoadFails, HasSections,
     Types, Nothing
<1>30. CASE Loaded
  BY <1>30, FileTypes, Lengths, NumbersAssumption DEF Loaded, Types, Nothing
<1>31. CASE Destruct
  BY <1>31, FileTypes, Lengths, NumbersAssumption DEF Destruct, Types, Nothing
<1>32. CASE UNCHANGED vars
  BY <1>32 DEF vars, Types, Nothing
<1> QED
  BY <1>1, <1>2, <1>3, <1>4, <1>5, <1>6, <1>7, <1>8, <1>9, <1>10, <1>11,
     <1>12, <1>13, <1>14, <1>15, <1>16, <1>17, <1>18, <1>19, <1>20, <1>21,
     <1>22, <1>23, <1>24, <1>25, <1>26, <1>27, <1>28, <1>29, <1>30, <1>31,
     <1>32 DEF Next

(* What is not loaded yet is empty.                                        *)
LEMMA NothingStep ==
    ASSUME Types, Nothing, [Next]_vars
    PROVE  Nothing'
<1> USE DEF object, loaded, Empty, Unknown, InFat, Holding, Over, HaveSegments
<1>1. CASE Detect
  BY <1>1 DEF Detect, Nothing, NoPoints
<1>2. CASE Open
  BY <1>2 DEF Open, Nothing, NoPoints
<1>3. CASE CannotOpen
  BY <1>3 DEF CannotOpen, GiveUp, Nothing, NoPoints
<1>4. CASE FatHeader
  BY <1>4 DEF FatHeader, Nothing, NoPoints
<1>5. CASE NoFatHeader
  BY <1>5 DEF NoFatHeader, GiveUp, Nothing, NoPoints
<1>6. CASE FatAlloc
  BY <1>6 DEF FatAlloc, Nothing, NoPoints
<1>7. CASE NoFatAlloc
  BY <1>7 DEF NoFatAlloc, Nothing, NoPoints
<1>8. CASE FatTable
  BY <1>8 DEF FatTable, Nothing, NoPoints
<1>9. CASE NoFatTable
  BY <1>9 DEF NoFatTable, GiveUp, Nothing, NoPoints
<1>10. CASE FatHead
  BY <1>10 DEF FatHead, Nothing, NoPoints
<1>11. CASE ChooseInner
  BY <1>11 DEF ChooseInner, HeadBlocks, Nothing, NoPoints
<1>12. CASE NoInner
  BY <1>12 DEF NoInner, GiveUp, HeadBlocks, Nothing, NoPoints
<1>13. CASE Construct
  BY <1>13 DEF Construct, Nothing, NoPoints
<1>14. CASE NoConstruct
  BY <1>14 DEF NoConstruct, GiveUp, Nothing, NoPoints
<1>15. CASE LoadHeader
  BY <1>15 DEF LoadHeader, Nothing, NoPoints
<1>16. CASE NoHeader
  BY <1>16 DEF NoHeader, Nothing, NoPoints
<1>17. CASE AllocCommands
  BY <1>17 DEF AllocCommands, Nothing, NoPoints
<1>18. CASE ReadCommand
  BY <1>18 DEF ReadCommand, Counted, Nothing, NoPoints
<1>19. CASE AllocSegments
  BY <1>19 DEF AllocSegments, Nothing, NoPoints
<1>20. CASE NoSegments
  BY <1>20 DEF NoSegments, Nothing, NoPoints
<1>21. CASE SkipCommand
  BY <1>21 DEF SkipCommand, Nothing, NoPoints
<1>22. CASE ReadSegment
  BY <1>22 DEF ReadSegment, Nothing, NoPoints
<1>23. CASE SegmentsRead
  BY <1>23 DEF SegmentsRead, Nothing, NoPoints
<1>24. CASE SkipSegment
  BY <1>24 DEF SkipSegment, NextSegment, Nothing, NoPoints
<1>25. CASE NoMemoryForSections
  BY <1>25 DEF NoMemoryForSections, NextSegment, HasSections, Nothing,
     NoPoints
<1>26. CASE GrowSections
  BY <1>26 DEF GrowSections, HasSections, NewRoom, Replaced, NullSection,
     Nothing, NoPoints
<1>27. CASE ReadSection
  BY <1>27 DEF ReadSection, Nothing, NoPoints
<1>28. CASE SectionsRead
  BY <1>28 DEF SectionsRead, Nothing, NoPoints
<1>29. CASE LoadFails
  BY <1>29 DEF LoadFails, HasSections, Nothing, NoPoints
<1>30. CASE Loaded
  BY <1>30 DEF Loaded, Nothing, NoPoints
<1>31. CASE Destruct
  BY <1>31 DEF Destruct, Nothing, NoPoints
<1>32. CASE UNCHANGED vars
  BY <1>32 DEF vars, Nothing, NoPoints
<1> QED
  BY <1>1, <1>2, <1>3, <1>4, <1>5, <1>6, <1>7, <1>8, <1>9, <1>10, <1>11,
     <1>12, <1>13, <1>14, <1>15, <1>16, <1>17, <1>18, <1>19, <1>20, <1>21,
     <1>22, <1>23, <1>24, <1>25, <1>26, <1>27, <1>28, <1>29, <1>30, <1>31,
     <1>32 DEF Next

(* Every step keeps the pointers to what is allocated.                     *)
LEMMA OwnsStep ==
    ASSUME Types, Nothing, Owns, [Next]_vars
    PROVE  Owns'
<1> USE DEF object, loaded, Empty, Unknown, InFat, Holding, Over, HaveSegments
<1>1. CASE Detect
  BY <1>1 DEF Detect, Owns, Pointers, Pointed, Block, NoPoints, NoHead
<1>2. CASE Open
  BY <1>2 DEF Open, Owns, Pointers, Pointed, Block, NoPoints, NoHead
<1>3. CASE CannotOpen
  BY <1>3 DEF CannotOpen, GiveUp, Owns, Pointers, Pointed, Block, NoPoints,
     NoHead
<1>4. CASE FatHeader
  BY <1>4 DEF FatHeader, Owns, Pointers, Pointed, Block, NoPoints, NoHead
<1>5. CASE NoFatHeader
  BY <1>5 DEF NoFatHeader, GiveUp, Owns, Pointers, Pointed, Block, NoPoints,
     NoHead
<1>6. CASE FatAlloc
  BY <1>6 DEF FatAlloc, Owns, Pointers, Pointed, Block, NoPoints, NoHead
<1>7. CASE NoFatAlloc
  BY <1>7 DEF NoFatAlloc, Owns, Pointers, Pointed, Block, NoPoints, NoHead
<1>8. CASE FatTable
  BY <1>8 DEF FatTable, Owns, Pointers, Pointed, Block, NoPoints, NoHead
<1>9. CASE NoFatTable
  BY <1>9 DEF NoFatTable, GiveUp, Owns, Pointers, Pointed, Block, NoPoints,
     NoHead
<1>10. CASE FatHead
  BY <1>10 DEF FatHead, Owns, Pointers, Pointed, Block, NoPoints, NoHead
<1>11. CASE ChooseInner
  <2>1. head # NoHead
    BY <1>11, NumbersAssumption DEF ChooseInner, Types, NoHead
  <2>2. /\ head.block = {Block("head")}
        /\ live = {Block("fd"), Block("arches"), Block("head")}
    BY <1>11, <2>1 DEF ChooseInner, Owns
  <2>3. HeadBlocks = {Block("head"), Block("arches")}
    BY <2>2 DEF HeadBlocks
  <2>4. live' = {Block("fd")}
    BY <1>11, <2>2, <2>3 DEF ChooseInner, Block
  <2>5. /\ pc' = "construct" /\ ~ fault' /\ points' = points
    <3>1. ~ fault /\ head.block # {}
      BY <2>2 DEF Owns
    <3>2. fault' = (fault \/ head.block = {})
      BY <1>11 DEF ChooseInner
    <3>3. pc' = "construct" /\ points' = points
      BY <1>11 DEF ChooseInner
    <3> QED
      BY <3>1, <3>2, <3>3
  <2> QED
    BY <2>4, <2>5 DEF Owns, Pointers, Block
<1>12. CASE NoInner
  <2>1. /\ HeadBlocks \subseteq live
        /\ live \ (HeadBlocks \cup {Block("fd")}) = {}
    <3>1. CASE head = NoHead /\ live = {Block("fd")}
      BY <3>1 DEF HeadBlocks, NoHead
    <3>2. CASE /\ head.block = {Block("head")}
               /\ live = {Block("fd"), Block("arches"), Block("head")}
      BY <3>2 DEF HeadBlocks
    <3> QED
      BY <1>12, <3>1, <3>2 DEF NoInner, Owns
  <2>2. pc' = "ended" /\ live' = {} /\ ~ fault' /\ points' = points
    <3>1. ~ fault
      BY DEF Owns
    <3>2. /\ fault' = (fault \/ ~ HeadBlocks \subseteq live)
          /\ live' = live \ (HeadBlocks \cup {Block("fd")})
          /\ pc' = "ended" /\ points' = points
      BY <1>12 DEF NoInner, GiveUp
    <3> QED
      BY <2>1, <3>1, <3>2
  <2> QED
    BY <2>2 DEF Owns, Pointers, Block
<1>13. CASE Construct
  BY <1>13 DEF Construct, Owns, Pointers, Pointed, Block, NoPoints, NoHead
<1>14. CASE NoConstruct
  BY <1>14 DEF NoConstruct, GiveUp, Owns, Pointers, Pointed, Block, NoPoints,
     NoHead
<1>15. CASE LoadHeader
  BY <1>15 DEF LoadHeader, Owns, Pointers, Pointed, Block, NoPoints, NoHead
<1>16. CASE NoHeader
  BY <1>16 DEF NoHeader, Owns, Pointers, Pointed, Block, NoPoints, NoHead
<1>17. CASE AllocCommands
  BY <1>17 DEF AllocCommands, Owns, Pointers, Pointed, Block, NoPoints, NoHead
<1>18. CASE ReadCommand
  BY <1>18 DEF ReadCommand, Counted, Owns, Pointers, Pointed, Block, NoPoints,
     NoHead
<1>19. CASE AllocSegments
  BY <1>19 DEF AllocSegments, Owns, Pointers, Pointed, Block, NoPoints, NoHead
<1>20. CASE NoSegments
  BY <1>20 DEF NoSegments, Owns, Pointers, Pointed, Block, NoPoints, NoHead
<1>21. CASE SkipCommand
  BY <1>21 DEF SkipCommand, Owns, Pointers, Pointed, Block, NoPoints, NoHead
<1>22. CASE ReadSegment
  BY <1>22 DEF ReadSegment, Owns, Pointers, Pointed, Block, NoPoints, NoHead
<1>23. CASE SegmentsRead
  BY <1>23 DEF SegmentsRead, Owns, Pointers, Pointed, Block, NoPoints, NoHead
<1>24. CASE SkipSegment
  BY <1>24 DEF SkipSegment, NextSegment, Owns, Pointers, Pointed, Block,
     NoPoints, NoHead
<1>25. CASE NoMemoryForSections
  BY <1>25 DEF NoMemoryForSections, NextSegment, HasSections, Owns, Pointers,
     Pointed, Block, NoPoints, NoHead
<1>26. CASE GrowSections
  <2> DEFINE block == <<"sections", cur>>
  <2>1. /\ pc = "details" /\ pc' = "read_section" /\ live = Pointed
        /\ points' = [points EXCEPT !.sections = {block}]
        /\ live' = (live \ points.sections) \cup {block}
        /\ fault' = (fault \/ ~ points.sections \subseteq live)
    BY <1>26 DEF GrowSections, HasSections, Replaced, Owns
  <2>2. Pointers /\ ~ fault
    BY DEF Owns
  <2>3. points.sections \subseteq live
    BY <2>1 DEF Pointed
  <2>4. /\ points'.path = points.path /\ points'.commands = points.commands
        /\ points'.segments = points.segments /\ points'.sections = {block}
    BY <2>1
  <2>5. Pointers'
    BY <2>2, <2>4 DEF Pointers
  <2>6. \A b \in Pointed \ points.sections : b \notin points.sections
    OBVIOUS
  <2>7. \A b \in {Block("fd"), Block("mfp")} \cup points.path
              \cup points.commands \cup points.segments : b \notin points.sections
    BY <2>2 DEF Pointers, Block
  <2>8. live' = Pointed'
    BY <2>1, <2>4, <2>7 DEF Pointed
  <2> QED
    BY <2>1, <2>2, <2>3, <2>5, <2>8 DEF Owns
<1>27. CASE ReadSection
  BY <1>27 DEF ReadSection, Owns, Pointers, Pointed, Block, NoPoints, NoHead
<1>28. CASE SectionsRead
  BY <1>28 DEF SectionsRead, Owns, Pointers, Pointed, Block, NoPoints, NoHead
<1>29. CASE LoadFails
  BY <1>29 DEF LoadFails, HasSections, Owns, Pointers, Pointed, Block,
     NoPoints, NoHead
<1>30. CASE Loaded
  BY <1>30 DEF Loaded, Owns, Pointers, Pointed, Block, NoPoints, NoHead
<1>31. CASE Destruct
  BY <1>31 DEF Destruct, Owns, Pointers, Pointed, Block, NoPoints, NoHead
<1>32. CASE UNCHANGED vars
  BY <1>32 DEF vars, Owns, Pointers, Pointed, Block, NoPoints, NoHead
<1> QED
  BY <1>1, <1>2, <1>3, <1>4, <1>5, <1>6, <1>7, <1>8, <1>9, <1>10, <1>11,
     <1>12, <1>13, <1>14, <1>15, <1>16, <1>17, <1>18, <1>19, <1>20, <1>21,
     <1>22, <1>23, <1>24, <1>25, <1>26, <1>27, <1>28, <1>29, <1>30, <1>31,
     <1>32 DEF Next

(* Every step keeps the table as it was read.                              *)
LEMMA TableStep ==
    ASSUME Types, Table, [Next]_vars
    PROVE  Table'
<1> USE DEF object, loaded, Empty, Unknown, InFat, Holding, Over, HaveSegments
<1>1. CASE Detect
  BY <1>1, FileTypes DEF Detect, Table, NoHead, ArchAsRead, BytesRead,
     FieldIsRead, Types
<1>2. CASE Open
  BY <1>2, FileTypes DEF Open, Table, NoHead, ArchAsRead, BytesRead,
     FieldIsRead, Types
<1>3. CASE CannotOpen
  BY <1>3, FileTypes DEF CannotOpen, GiveUp, Table, NoHead, ArchAsRead,
     BytesRead, FieldIsRead, Types
<1>4. CASE FatHeader
  BY <1>4, FileTypes DEF FatHeader, Table, NoHead, ArchAsRead, BytesRead,
     FieldIsRead, Types
<1>5. CASE NoFatHeader
  BY <1>5, FileTypes DEF NoFatHeader, GiveUp, Table, NoHead, ArchAsRead,
     BytesRead, FieldIsRead, Types
<1>6. CASE FatAlloc
  BY <1>6, FileTypes DEF FatAlloc, Table, NoHead, ArchAsRead, BytesRead,
     FieldIsRead, Types
<1>7. CASE NoFatAlloc
  BY <1>7, FileTypes DEF NoFatAlloc, Table, NoHead, ArchAsRead, BytesRead,
     FieldIsRead, Types
<1>8. CASE FatTable
  <2>1. Len(file.arches) \in Nat
    BY FileTypes DEF Types
  <2>2. head'.arches = [i \in 1 .. Len(file.arches) |-> ArchAsRead(i)]
    BY <1>8 DEF FatTable
  <2>3. Len(head'.arches) = Len(file.arches)
    BY <2>1, <2>2
  <2>4. \A i \in 1 .. Len(file.arches) :
           /\ head'.arches[i] = ArchAsRead(i)
           /\ ArchPossible(head'.arches[i])
    BY <1>8, <2>2 DEF FatTable
  <2>5. file' = file
    BY <1>8 DEF FatTable
  <2> QED
    BY <2>3, <2>4, <2>5 DEF Table, ArchAsRead, BytesRead, FieldIsRead,
       ArchPossible
<1>9. CASE NoFatTable
  BY <1>9, FileTypes DEF NoFatTable, GiveUp, Table, NoHead, ArchAsRead,
     BytesRead, FieldIsRead, Types
<1>10. CASE FatHead
  <2>1. head'.arches = head.arches /\ file' = file /\ pc = "fat_head"
    BY <1>10 DEF FatHead
  <2> QED
    BY <2>1 DEF Table, ArchAsRead, BytesRead, FieldIsRead, ArchPossible
<1>11. CASE ChooseInner
  BY <1>11, FileTypes DEF ChooseInner, HeadBlocks, Table, NoHead, ArchAsRead,
     BytesRead, FieldIsRead, Types
<1>12. CASE NoInner
  BY <1>12, FileTypes DEF NoInner, GiveUp, HeadBlocks, Table, NoHead,
     ArchAsRead, BytesRead, FieldIsRead, Types
<1>13. CASE Construct
  BY <1>13, FileTypes DEF Construct, Table, NoHead, ArchAsRead, BytesRead,
     FieldIsRead, Types
<1>14. CASE NoConstruct
  BY <1>14, FileTypes DEF NoConstruct, GiveUp, Table, NoHead, ArchAsRead,
     BytesRead, FieldIsRead, Types
<1>15. CASE LoadHeader
  BY <1>15, FileTypes DEF LoadHeader, Table, NoHead, ArchAsRead, BytesRead,
     FieldIsRead, Types
<1>16. CASE NoHeader
  BY <1>16, FileTypes DEF NoHeader, Table, NoHead, ArchAsRead, BytesRead,
     FieldIsRead, Types
<1>17. CASE AllocCommands
  BY <1>17, FileTypes DEF AllocCommands, Table, NoHead, ArchAsRead, BytesRead,
     FieldIsRead, Types
<1>18. CASE ReadCommand
  BY <1>18, FileTypes DEF ReadCommand, Counted, Table, NoHead, ArchAsRead,
     BytesRead, FieldIsRead, Types
<1>19. CASE AllocSegments
  BY <1>19, FileTypes DEF AllocSegments, Table, NoHead, ArchAsRead, BytesRead,
     FieldIsRead, Types
<1>20. CASE NoSegments
  BY <1>20, FileTypes DEF NoSegments, Table, NoHead, ArchAsRead, BytesRead,
     FieldIsRead, Types
<1>21. CASE SkipCommand
  BY <1>21, FileTypes DEF SkipCommand, Table, NoHead, ArchAsRead, BytesRead,
     FieldIsRead, Types
<1>22. CASE ReadSegment
  BY <1>22, FileTypes DEF ReadSegment, Table, NoHead, ArchAsRead, BytesRead,
     FieldIsRead, Types
<1>23. CASE SegmentsRead
  BY <1>23, FileTypes DEF SegmentsRead, Table, NoHead, ArchAsRead, BytesRead,
     FieldIsRead, Types
<1>24. CASE SkipSegment
  BY <1>24, FileTypes DEF SkipSegment, NextSegment, Table, NoHead, ArchAsRead,
     BytesRead, FieldIsRead, Types
<1>25. CASE NoMemoryForSections
  BY <1>25, FileTypes DEF NoMemoryForSections, NextSegment, HasSections,
     Table, NoHead, ArchAsRead, BytesRead, FieldIsRead, Types
<1>26. CASE GrowSections
  BY <1>26, FileTypes DEF GrowSections, HasSections, NewRoom, Replaced,
     NullSection, Table, NoHead, ArchAsRead, BytesRead, FieldIsRead, Types
<1>27. CASE ReadSection
  BY <1>27, FileTypes DEF ReadSection, Table, NoHead, ArchAsRead, BytesRead,
     FieldIsRead, Types
<1>28. CASE SectionsRead
  BY <1>28, FileTypes DEF SectionsRead, Table, NoHead, ArchAsRead, BytesRead,
     FieldIsRead, Types
<1>29. CASE LoadFails
  BY <1>29, FileTypes DEF LoadFails, HasSections, Table, NoHead, ArchAsRead,
     BytesRead, FieldIsRead, Types
<1>30. CASE Loaded
  BY <1>30, FileTypes DEF Loaded, Table, NoHead, ArchAsRead, BytesRead,
     FieldIsRead, Types
<1>31. CASE Destruct
  BY <1>31, FileTypes DEF Destruct, Table, NoHead, ArchAsRead, BytesRead,
     FieldIsRead, Types
<1>32. CASE UNCHANGED vars
  <2>1. head' = head /\ file' = file /\ pc' = pc
    BY <1>32 DEF vars
  <2> QED
    BY <2>1 DEF Table, ArchAsRead, BytesRead, FieldIsRead, ArchPossible
<1> QED
  BY <1>1, <1>2, <1>3, <1>4, <1>5, <1>6, <1>7, <1>8, <1>9, <1>10, <1>11,
     <1>12, <1>13, <1>14, <1>15, <1>16, <1>17, <1>18, <1>19, <1>20, <1>21,
     <1>22, <1>23, <1>24, <1>25, <1>26, <1>27, <1>28, <1>29, <1>30, <1>31,
     <1>32 DEF Next

(* Every step keeps the limit of reads inside the file.                    *)
LEMMA InsideStep ==
    ASSUME Types, Nothing, Table, Inside, [Next]_vars
    PROVE  Inside'
<1> USE DEF object, loaded, Empty, Unknown, InFat, Holding, Over, HaveSegments
<1>1. CASE Detect
  BY <1>1, FileTypes DEF Detect, Inside, Types, Nothing
<1>2. CASE Open
  BY <1>2, FileTypes DEF Open, Inside, Types, Nothing
<1>3. CASE CannotOpen
  BY <1>3, FileTypes DEF CannotOpen, GiveUp, Inside, Types, Nothing
<1>4. CASE FatHeader
  BY <1>4, FileTypes DEF FatHeader, Inside, Types, Nothing
<1>5. CASE NoFatHeader
  BY <1>5, FileTypes DEF NoFatHeader, GiveUp, Inside, Types, Nothing
<1>6. CASE FatAlloc
  BY <1>6, FileTypes DEF FatAlloc, Inside, Types, Nothing
<1>7. CASE NoFatAlloc
  BY <1>7, FileTypes DEF NoFatAlloc, Inside, Types, Nothing
<1>8. CASE FatTable
  BY <1>8, FileTypes DEF FatTable, Inside, Types, Nothing
<1>9. CASE NoFatTable
  BY <1>9, FileTypes DEF NoFatTable, GiveUp, Inside, Types, Nothing
<1>10. CASE FatHead
  BY <1>10, FileTypes DEF FatHead, Inside, Types, Nothing
<1>11. CASE ChooseInner
  <2> DEFINE n == request + 1
  <2>1. n \in 1 .. Len(head.arches) /\ n \in 1 .. Len(file.arches)
        /\ head.arches[n] = ArchAsRead(n) /\ ArchPossible(head.arches[n])
    <3>1. request \in Nat /\ request < Len(head.arches)
      BY <1>11, NumbersAssumption DEF ChooseInner, Types
    <3>2. Len(file.arches) \in Nat /\ Len(head.arches) \in {0, Len(file.arches)}
      BY <1>11, FileTypes DEF ChooseInner, Types, Table
    <3>3. n \in 1 .. Len(head.arches) /\ n \in 1 .. Len(file.arches)
      BY <3>1, <3>2
    <3> QED
      BY <1>11, <3>3 DEF ChooseInner, Table
  <2>2. /\ inner' = ArchAsRead(n).offset /\ filesize' = ArchAsRead(n).size
        /\ pc' = "construct" /\ UNCHANGED <<file, request>>
    BY <1>11, <2>1 DEF ChooseInner
  <2>3. inner' + filesize' <= file.size
    BY <2>1, <2>2, ReadTypes, FileTypes DEF ArchPossible, Types
  <2>4. file.bits = 32 => /\ inner' = file.arches[n].offset
                         /\ filesize' = file.arches[n].size
    BY <2>2 DEF ArchAsRead
  <2>5. request < Len(file.arches)
    BY <2>1, NumbersAssumption DEF Types
  <2> QED
    BY <2>2, <2>3, <2>4, <2>5 DEF Inside
<1>12. CASE NoInner
  BY <1>12, FileTypes DEF NoInner, GiveUp, HeadBlocks, Inside, Types, Nothing
<1>13. CASE Construct
  BY <1>13, FileTypes DEF Construct, Inside, Types, Nothing
<1>14. CASE NoConstruct
  BY <1>14, FileTypes DEF NoConstruct, GiveUp, Inside, Types, Nothing
<1>15. CASE LoadHeader
  BY <1>15, FileTypes DEF LoadHeader, Inside, Types, Nothing
<1>16. CASE NoHeader
  BY <1>16, FileTypes DEF NoHeader, Inside, Types, Nothing
<1>17. CASE AllocCommands
  BY <1>17, FileTypes DEF AllocCommands, Inside, Types, Nothing
<1>18. CASE ReadCommand
  BY <1>18, FileTypes DEF ReadCommand, Counted, Inside, Types, Nothing
<1>19. CASE AllocSegments
  BY <1>19, FileTypes DEF AllocSegments, Inside, Types, Nothing
<1>20. CASE NoSegments
  BY <1>20, FileTypes DEF NoSegments, Inside, Types, Nothing
<1>21. CASE SkipCommand
  BY <1>21, FileTypes DEF SkipCommand, Inside, Types, Nothing
<1>22. CASE ReadSegment
  BY <1>22, FileTypes DEF ReadSegment, Inside, Types, Nothing
<1>23. CASE SegmentsRead
  BY <1>23, FileTypes DEF SegmentsRead, Inside, Types, Nothing
<1>24. CASE SkipSegment
  BY <1>24, FileTypes DEF SkipSegment, NextSegment, Inside, Types, Nothing
<1>25. CASE NoMemoryForSections
  BY <1>25, FileTypes DEF NoMemoryForSections, NextSegment, HasSections,
     Inside, Types, Nothing
<1>26. CASE GrowSections
  BY <1>26, FileTypes DEF GrowSections, HasSections, NewRoom, Replaced,
     NullSection, Inside, Types, Nothing
<1>27. CASE ReadSection
  BY <1>27, FileTypes DEF ReadSection, Inside, Types, Nothing
<1>28. CASE SectionsRead
  BY <1>28, FileTypes DEF SectionsRead, Inside, Types, Nothing
<1>29. CASE LoadFails
  BY <1>29, FileTypes DEF LoadFails, HasSections, Inside, Types, Nothing
<1>30. CASE Loaded
  BY <1>30, FileTypes DEF Loaded, Inside, Types, Nothing
<1>31. CASE Destruct
  BY <1>31, FileTypes DEF Destruct, Inside, Types, Nothing
<1>32. CASE UNCHANGED vars
  BY <1>32 DEF vars, Inside, Types, Nothing
<1> QED
  BY <1>1, <1>2, <1>3, <1>4, <1>5, <1>6, <1>7, <1>8, <1>9, <1>10, <1>11,
     <1>12, <1>13, <1>14, <1>15, <1>16, <1>17, <1>18, <1>19, <1>20, <1>21,
     <1>22, <1>23, <1>24, <1>25, <1>26, <1>27, <1>28, <1>29, <1>30, <1>31,
     <1>32 DEF Next

(* How the number of segment commands grows with the commands.             *)
LEMMA AmongNext ==
    ASSUME NEW c, NEW n \in Nat \ {0}
    PROVE  Cardinality(Among(c, n)) =
              Cardinality(Among(c, n - 1)) + (IF c[n].cmd # "other" THEN 1 ELSE 0)
<1>1. IsFiniteSet(Among(c, n - 1))
  <2>1. IsFiniteSet(1 .. n - 1)
    BY FS_Interval
  <2>2. Among(c, n - 1) \subseteq 1 .. n - 1
    BY DEF Among
  <2> QED
    BY <2>1, <2>2, FS_Subset
<1>2. Cardinality(Among(c, n - 1)) \in Nat
  BY <1>1, FS_CardinalityType
<1>3. CASE c[n].cmd # "other"
  <2>1. Among(c, n) = Among(c, n - 1) \cup {n} /\ n \notin Among(c, n - 1)
    BY <1>3 DEF Among
  <2>2. Cardinality(Among(c, n - 1) \cup {n}) = Cardinality(Among(c, n - 1)) + 1
    BY <1>1, <2>1, FS_AddElement
  <2> QED
    BY <1>3, <2>1, <2>2
<1>4. CASE c[n].cmd = "other"
  <2>1. Among(c, n) = Among(c, n - 1)
    BY <1>4 DEF Among
  <2> QED
    BY <1>2, <1>4, <2>1
<1> QED
  BY <1>3, <1>4

(* A part of the commands has no more of them than all commands.           *)
LEMMA AmongPart ==
    ASSUME NEW c, NEW n \in Nat, NEW m \in Nat, n <= m
    PROVE  /\ Cardinality(Among(c, n)) \in Nat /\ Cardinality(Among(c, m)) \in Nat
           /\ Cardinality(Among(c, n)) <= Cardinality(Among(c, m))
<1>1. IsFiniteSet(1 .. m)
  BY FS_Interval
<1>2. Among(c, m) \subseteq 1 .. m /\ Among(c, n) \subseteq Among(c, m)
  BY DEF Among
<1>3. IsFiniteSet(Among(c, m))
  BY <1>1, <1>2, FS_Subset
<1>4. /\ IsFiniteSet(Among(c, n))
      /\ Cardinality(Among(c, n)) <= Cardinality(Among(c, m))
  BY <1>2, <1>3, FS_Subset
<1> QED
  BY <1>3, <1>4, FS_CardinalityType

(* None are counted before the first.                                      *)
LEMMA AmongNone ==
    ASSUME NEW c
    PROVE  Cardinality(Among(c, 0)) = 0
<1>1. Among(c, 0) = {}
  BY DEF Among
<1> QED
  BY <1>1, FS_EmptySet

(* Once the walk is over, only the place in it matters no more.            *)
LEMMA SegsKept ==
    ASSUME Segs, UNCHANGED <<commands, ncmds, segments, segment_count>>,
           pc' = "read_segment" => pc = "read_segment" /\ cur' = cur,
           pc' \in HaveSegments => pc \in HaveSegments
    PROVE  Segs'
BY DEF Segs, Scanned, Among, HaveSegments

(* Every step keeps the segments those of the commands.                    *)
LEMMA SegsStep ==
    ASSUME Types, Nothing, Segs, [Next]_vars
    PROVE  Segs'
<1> USE DEF object, loaded, Empty, Unknown, InFat, Holding, Over, HaveSegments
<1>1. CASE Detect
  BY <1>1, SegsKept DEF Detect
<1>2. CASE Open
  BY <1>2, SegsKept DEF Open
<1>3. CASE CannotOpen
  BY <1>3, SegsKept DEF CannotOpen, GiveUp
<1>4. CASE FatHeader
  BY <1>4, SegsKept DEF FatHeader
<1>5. CASE NoFatHeader
  BY <1>5, SegsKept DEF NoFatHeader, GiveUp
<1>6. CASE FatAlloc
  BY <1>6, SegsKept DEF FatAlloc
<1>7. CASE NoFatAlloc
  BY <1>7, SegsKept DEF NoFatAlloc
<1>8. CASE FatTable
  BY <1>8, SegsKept DEF FatTable
<1>9. CASE NoFatTable
  BY <1>9, SegsKept DEF NoFatTable, GiveUp
<1>10. CASE FatHead
  BY <1>10, SegsKept DEF FatHead
<1>11. CASE ChooseInner
  BY <1>11, SegsKept DEF ChooseInner, HeadBlocks
<1>12. CASE NoInner
  BY <1>12, SegsKept DEF NoInner, GiveUp, HeadBlocks
<1>13. CASE Construct
  BY <1>13, SegsKept DEF Construct
<1>14. CASE NoConstruct
  BY <1>14, SegsKept DEF NoConstruct, GiveUp
<1>15. CASE LoadHeader
  <2>1. /\ UNCHANGED <<commands, segments, segment_count, cur>>
        /\ pc' = "commands" /\ pc = "header"
    BY <1>15 DEF LoadHeader
  <2> QED
    BY <2>1 DEF Segs, Among
<1>16. CASE NoHeader
  BY <1>16, SegsKept DEF NoHeader
<1>17. CASE AllocCommands
  BY <1>17, SegsKept DEF AllocCommands
<1>18. CASE ReadCommand
  <2>1. PICK cmd \in {"LC_SEGMENT", "LC_SEGMENT_64", "other"},
             size \in CommandSizes :
          /\ commands' = Append(commands, [cmd |-> cmd, cmdsize |-> size,
                                           offset |-> curoff])
          /\ segment_count' = segment_count + (IF Counted(cmd) THEN 1 ELSE 0)
    BY <1>18 DEF ReadCommand
  <2>2. /\ pc = "read_command" /\ pc' = "read_command" /\ segments = <<>>
        /\ segments' = <<>>
    BY <1>18 DEF ReadCommand, Nothing
  <2> DEFINE n == Len(commands)
  <2>3. /\ n \in Nat /\ Len(commands') = n + 1 /\ commands'[n + 1].cmd = cmd
        /\ \A i \in 1 .. n : commands'[i] = commands[i]
    BY <2>1 DEF Types
  <2>4. Among(commands', n) = Among(commands, n)
    BY <2>3 DEF Among
  <2>5. Cardinality(Among(commands', n + 1)) =
           Cardinality(Among(commands', n)) + (IF cmd # "other" THEN 1 ELSE 0)
    BY <2>3, AmongNext, n + 1 \in Nat \ {0}, (n + 1) - 1 = n
  <2>6. segment_count = Cardinality(Among(commands, n))
    BY DEF Segs
  <2>7. segment_count' = Cardinality(Among(commands, Len(commands)))'
    BY <2>1, <2>3, <2>4, <2>5, <2>6 DEF Counted
  <2>8. segment_count' \in Nat
    BY <2>1 DEF Types
  <2>9. Len(segments') = 0 /\ segments' \in Seq(Described)
    BY <2>2
  <2> QED
    BY <2>2, <2>7, <2>8, <2>9 DEF Segs
<1>19. CASE AllocSegments
  <2>1. /\ UNCHANGED <<commands, ncmds, segments, segment_count, cur>>
        /\ pc' = "read_segment" /\ pc = "read_command"
    BY <1>19 DEF AllocSegments
  <2>2. segments = <<>> /\ cur = 1 /\ Len(segments) = 0
    BY <2>1 DEF Nothing
  <2>3. Scanned' = 0
    BY <2>1, <2>2 DEF Scanned
  <2>4. Cardinality(Among(commands, 0)) = 0
    BY AmongNone
  <2> QED
    BY <2>1, <2>2, <2>3, <2>4 DEF Segs, Types
<1>20. CASE NoSegments
  <2>1. /\ UNCHANGED <<commands, ncmds, segments, segment_count>>
        /\ pc' = "details" /\ pc = "read_command" /\ segment_count = 0
    BY <1>20 DEF NoSegments
  <2>2. segments = <<>> /\ Len(segments) = 0
    BY <2>1 DEF Nothing
  <2>3. Scanned' = Len(commands)
    BY <2>1 DEF Scanned
  <2> DEFINE all == Among(commands, Len(commands))
  <2>4. Cardinality(all) = 0
    BY <2>1 DEF Segs
  <2>5. Len(commands) \in Nat
    BY DEF Types
  <2>6. IsFiniteSet(all)
    <3>1. IsFiniteSet(1 .. Len(commands))
      BY <2>5, FS_Interval
    <3>2. all \subseteq 1 .. Len(commands)
      BY DEF Among
    <3> QED
      BY <3>1, <3>2, FS_Subset
  <2>7. all = {}
    BY <2>4, <2>6, FS_EmptySet
  <2>8. \A i \in 1 .. Len(commands) : commands[i].cmd = "other"
    BY <2>7 DEF Among
  <2> QED
    BY <2>1, <2>2, <2>3, <2>4, <2>8 DEF Segs
<1>21. CASE SkipCommand
  <2>1. /\ UNCHANGED <<commands, ncmds, segments, segment_count>>
        /\ pc' = "read_segment" /\ pc = "read_segment" /\ cur' = cur + 1
        /\ cur <= ncmds /\ commands[cur].cmd = "other"
    BY <1>21 DEF SkipCommand
  <2>2. Scanned = cur - 1 /\ Scanned' = cur /\ cur \in Nat \ {0} /\ ncmds \in Nat
    BY <2>1 DEF Scanned, Types
  <2>3. Cardinality(Among(commands, cur)) = Cardinality(Among(commands, cur - 1))
    <3>1. Among(commands, cur) = Among(commands, cur - 1)
      BY <2>1, <2>2 DEF Among
    <3> QED
      BY <3>1
  <2>4. \A k \in 1 .. Len(segments) : segments[k].command \in Nat
    BY DEF Segs
  <2> QED
    BY <2>1, <2>2, <2>3, <2>4 DEF Segs
<1>22. CASE ReadSegment
  <2> DEFINE command == commands[cur]
             length == SegmentLen[Width(command.cmd)]
  <2>1. PICK name \in SegmentNames, n \in SectionCounts :
           segments' = Append(segments, [name |-> name, nsects |-> n,
                                sectionsoffset |-> command.offset + length,
                                command |-> cur])
    BY <1>22 DEF ReadSegment
  <2>2. /\ UNCHANGED <<commands, ncmds, segment_count>>
        /\ pc' = "read_segment" /\ pc = "read_segment" /\ cur' = cur + 1
        /\ cur <= ncmds /\ command.cmd # "other"
    BY <1>22 DEF ReadSegment
  <2>3. /\ cur \in 1 .. Len(commands) /\ Len(commands) = ncmds /\ ncmds \in Nat
        /\ cur \in Nat \ {0} /\ Len(commands) \in Nat
    BY <2>2 DEF Types
  <2>4. command.offset + length \in Nat
    <3>1. command \in Command
      BY <2>3 DEF Types
    <3>2. length \in Nat
      BY Lengths DEF Width, Bits
    <3>3. command.offset \in Nat
      BY <3>1 DEF Command
    <3> HIDE DEF command, length
    <3> QED
      BY <3>2, <3>3
  <2> HIDE DEF length
  <2>5. n \in Nat
    BY NumbersAssumption
  <2>6. [name |-> name, nsects |-> n, sectionsoffset |-> command.offset + length,
         command |-> cur] \in Described
    BY <2>3, <2>4, <2>5 DEF Described
  <2> DEFINE m == Len(segments)
  <2>7. segments \in Seq(Described) /\ m \in Nat
    BY DEF Segs
  <2>8. /\ segments' \in Seq(Described) /\ Len(segments') = m + 1
        /\ segments'[m + 1].command = cur
        /\ \A k \in 1 .. m : segments'[k] = segments[k]
    BY <2>1, <2>6, <2>7
  <2>9. Scanned = cur - 1 /\ Scanned' = cur
    BY <2>2, <2>3 DEF Scanned
  <2>10. /\ m = Cardinality(Among(commands, cur - 1))
         /\ \A k \in 1 .. m : segments[k].command <= cur - 1
         /\ \A i \in 1 .. cur - 1 : commands[i].cmd # "other" <=>
                \E k \in 1 .. m : segments[k].command = i
    BY <2>2, <2>9 DEF Segs
  <2>11. m + 1 = Cardinality(Among(commands, cur))
    BY <2>2, <2>3, <2>10, AmongNext
  <2>12. m + 1 <= segment_count
    <3>1. Cardinality(Among(commands, cur)) <=
             Cardinality(Among(commands, Len(commands)))
      BY <2>3, AmongPart
    <3> QED
      BY <2>11, <3>1 DEF Segs
  <2>13. \A k \in 1 .. m : segments[k].command \in 1 .. Len(commands)
    BY DEF Segs
  <2>14. \A j, k \in 1 .. m : j < k => segments[j].command < segments[k].command
    BY DEF Segs
  <2>15. \A k \in 1 .. m + 1 : /\ segments'[k].command \in 1 .. Len(commands)
                              /\ segments'[k].command <= cur
    BY <2>3, <2>7, <2>8, <2>10, <2>13
  <2>16. \A j, k \in 1 .. m + 1 :
            j < k => segments'[j].command < segments'[k].command
    <3> SUFFICES ASSUME NEW j \in 1 .. m + 1, NEW k \in 1 .. m + 1, j < k
                 PROVE  segments'[j].command < segments'[k].command
      OBVIOUS
    <3>1. j \in 1 .. m
      BY <2>7
    <3>2. CASE k \in 1 .. m
      BY <2>8, <2>14, <3>1, <3>2
    <3>3. CASE k = m + 1
      BY <2>3, <2>8, <2>10, <2>13, <3>1, <3>3
    <3> QED
      BY <2>7, <3>2, <3>3
  <2>17. \A i \in 1 .. cur : commands[i].cmd # "other" <=>
            \E k \in 1 .. m + 1 : segments'[k].command = i
    <3> SUFFICES ASSUME NEW i \in 1 .. cur
                 PROVE  commands[i].cmd # "other" <=>
                           \E k \in 1 .. m + 1 : segments'[k].command = i
      OBVIOUS
    <3>1. CASE i = cur
      BY <2>2, <2>7, <2>8, <3>1
    <3>2. CASE i \in 1 .. cur - 1
      <4>1. cur # i
        BY <2>3, <3>2
      <4> QED
        BY <2>7, <2>8, <2>10, <3>2, <4>1
    <3> QED
      BY <2>3, <3>1, <3>2
  <2>18. cur' <= ncmds' + 1
    BY <2>2, <2>3
  <2>19. segment_count' = Cardinality(Among(commands, Len(commands)))'
    BY <2>2 DEF Segs
  <2>20. \A i \in 1 .. cur : commands'[i].cmd # "other" <=>
            \E k \in 1 .. Len(segments') : segments'[k].command = i
    BY <2>2, <2>8, <2>17
  <2> HIDE DEF m, command
  <2> QED
    BY <2>2, <2>8, <2>9, <2>11, <2>12, <2>15, <2>16, <2>18, <2>19, <2>20 DEF
       Segs
<1>23. CASE SegmentsRead
  <2>1. /\ UNCHANGED <<commands, ncmds, segments, segment_count>>
        /\ pc' = "details" /\ pc = "read_segment" /\ cur > ncmds
    BY <1>23 DEF SegmentsRead
  <2>2. cur = ncmds + 1 /\ Len(commands) = ncmds
    BY <2>1 DEF Segs, Types
  <2>3. Scanned = Len(commands) /\ Scanned' = Len(commands)
    BY <2>1, <2>2 DEF Scanned, Types
  <2> QED
    BY <2>1, <2>3 DEF Segs
<1>24. CASE SkipSegment
  BY <1>24, SegsKept DEF SkipSegment, NextSegment
<1>25. CASE NoMemoryForSections
  BY <1>25, SegsKept DEF NoMemoryForSections, NextSegment, HasSections
<1>26. CASE GrowSections
  BY <1>26, SegsKept DEF GrowSections, HasSections, NewRoom, Replaced,
     NullSection
<1>27. CASE ReadSection
  BY <1>27, SegsKept DEF ReadSection
<1>28. CASE SectionsRead
  BY <1>28, SegsKept DEF SectionsRead
<1>29. CASE LoadFails
  BY <1>29, SegsKept DEF LoadFails, HasSections
<1>30. CASE Loaded
  BY <1>30, SegsKept DEF Loaded
<1>31. CASE Destruct
  BY <1>31, SegsKept DEF Destruct
<1>32. CASE UNCHANGED vars
  <2>1. UNCHANGED <<commands, ncmds, segments, segment_count, cur, pc>>
    BY <1>32 DEF vars
  <2> QED
    BY <2>1, SegsKept
<1> QED
  BY <1>1, <1>2, <1>3, <1>4, <1>5, <1>6, <1>7, <1>8, <1>9, <1>10, <1>11,
     <1>12, <1>13, <1>14, <1>15, <1>16, <1>17, <1>18, <1>19, <1>20, <1>21,
     <1>22, <1>23, <1>24, <1>25, <1>26, <1>27, <1>28, <1>29, <1>30, <1>31,
     <1>32 DEF Next

(* The fields of a section are numbers.                                    *)
LEMMA SectionTypes ==
    ASSUME Secs
    PROVE  \A i \in 1 .. Len(sections) : /\ sections[i].from \in Nat
                                         /\ sections[i].segment \in Nat
<1> SUFFICES ASSUME NEW i \in 1 .. Len(sections)
             PROVE  sections[i].from \in Nat /\ sections[i].segment \in Nat
  OBVIOUS
<1>1. sections \in Seq(Record)
  BY DEF Secs
<1>2. sections[i] \in Record
  BY <1>1
<1> QED
  BY <1>2 DEF Record

(* What is said of the records of a segment is said of these three.        *)
LEMMA SameRecords ==
    ASSUME UNCHANGED <<sections, segments, bits>>
    PROVE  /\ \A k, b, e : Run(k, b, e)' <=> Run(k, b, e)
           /\ \A k : Whole(k)' <=> Whole(k)
           /\ \A k, i, b : Place(k, i, b)' = Place(k, i, b)
<1>1. \A k, i, b : Place(k, i, b)' = Place(k, i, b)
  BY DEF Place
<1>2. \A k, b, e : Run(k, b, e)' <=> Run(k, b, e)
  BY <1>1 DEF Run
<1>3. \A k : Absent(k)' <=> Absent(k)
  BY DEF Absent
<1> QED
  BY <1>1, <1>2, <1>3 DEF Whole

(* Where the sections are not touched, they are as good as before.         *)
LEMMA SecsKept ==
    ASSUME Secs, Types,
           UNCHANGED <<sections, room, points, segments, segment_count, bits,
                       filesize, cur, curoff>>,
           pc' \in HaveSegments => /\ pc \in HaveSegments
                                   /\ pc' = "read_section" <=> pc = "read_section"
                                   /\ pc' = "print" => cur > segment_count
    PROVE  Secs'
<1> DEFINE b == room - segments[cur].nsects
<1>1. /\ Run(cur, b, Len(sections))' <=> Run(cur, b, Len(sections))
      /\ Place(cur, Len(sections) + 1, b)' = Place(cur, Len(sections) + 1, b)
      /\ \A k \in 1 .. cur - 1 : Whole(k)' <=> Whole(k)
  BY DEF Run, Place, Whole, Absent
<1>2. CASE pc' \in HaveSegments
  <2>1. pc \in HaveSegments /\ Behind' = Behind
    BY <1>2 DEF Behind
  <2> HIDE DEF b
  <2>2. \A k \in 1 .. cur' - 1 : Whole(k)'
    BY <1>1, <2>1 DEF Secs
  <2>3. pc' = "read_section" =>
           /\ Run(cur, room - segments[cur].nsects, Len(sections))'
           /\ (curoff = Place(cur, Len(sections) + 1, room - segments[cur].nsects))'
    BY <1>1, <1>2 DEF Secs, b
  <2> QED
    BY <1>2, <2>1, <2>2, <2>3 DEF Secs
<1>3. CASE pc' \notin HaveSegments
  BY <1>3 DEF Secs, HaveSegments
<1> QED
  BY <1>2, <1>3

(* While no section is held nothing is asked of them.                      *)
LEMMA SecsNone ==
    ASSUME pc' \notin HaveSegments, sections' = <<>>, room' = 0,
           points'.sections = {}
    PROVE  Secs'
BY DEF Secs, HaveSegments

(* Before the first segment there are no sections.                         *)
LEMMA SecsStart ==
    ASSUME pc' = "details", sections' = <<>>, room' = 0, points'.sections = {},
           cur' = 1
    PROVE  Secs'
BY DEF Secs, HaveSegments

(* A segment that is passed over has no sections.                          *)
LEMMA SecsPassed ==
    ASSUME Secs, Types, pc = "details", pc' = "details", cur' = cur + 1,
           UNCHANGED <<sections, room, points, segments, segment_count, bits,
                       filesize, curoff>>
    PROVE  Secs'
<1>1. cur \in Nat \ {0}
  BY DEF Types
<1>2. \A i \in 1 .. Len(sections) : sections[i].segment <= cur - 1
  BY DEF Secs, HaveSegments, Behind
<1>3. \A i \in 1 .. Len(sections) : sections[i].segment \in Nat
  BY SectionTypes
<1>4. Absent(cur)
  BY <1>1, <1>2, <1>3 DEF Absent
<1>5. \A k \in 1 .. cur : Whole(k)
  BY <1>1, <1>4 DEF Secs, HaveSegments, Whole
<1>6. \A k \in 1 .. cur' - 1 : Whole(k)'
  BY <1>1, <1>5 DEF Whole, Absent, Run, Place
<1>7. \A i \in 1 .. Len(sections) : sections[i].segment <= Behind'
  BY <1>1, <1>2, <1>3 DEF Behind
<1> QED
  BY <1>1, <1>6, <1>7 DEF Secs, HaveSegments

(* Every step keeps the sections those of the segments.                    *)
LEMMA SecsStep ==
    ASSUME Types, Nothing, Segs, Secs, [Next]_vars
    PROVE  Secs'
<1> USE DEF object, loaded, Empty, Unknown, InFat, Holding, Over, HaveSegments
<1>1. CASE Detect
  BY <1>1, SecsKept DEF Detect
<1>2. CASE Open
  <2>1. pc \in {"open", "choose", "construct", "header", "commands", "read_command"}
    BY <1>2 DEF Open
  <2>2. sections = <<>> /\ room = 0
    BY <2>1 DEF Nothing
  <2>3. pc' \notin HaveSegments /\ UNCHANGED <<sections, room>>
    BY <1>2 DEF Open
  <2>4. points'.sections = {}
    BY <1>2, <2>1 DEF Open, Nothing, NoPoints
  <2> QED
    BY <2>2, <2>3, <2>4, SecsNone
<1>3. CASE CannotOpen
  BY <1>3, SecsKept DEF CannotOpen, GiveUp
<1>4. CASE FatHeader
  BY <1>4, SecsKept DEF FatHeader
<1>5. CASE NoFatHeader
  BY <1>5, SecsKept DEF NoFatHeader, GiveUp
<1>6. CASE FatAlloc
  BY <1>6, SecsKept DEF FatAlloc
<1>7. CASE NoFatAlloc
  BY <1>7, SecsKept DEF NoFatAlloc
<1>8. CASE FatTable
  BY <1>8, SecsKept DEF FatTable
<1>9. CASE NoFatTable
  BY <1>9, SecsKept DEF NoFatTable, GiveUp
<1>10. CASE FatHead
  BY <1>10, SecsKept DEF FatHead
<1>11. CASE ChooseInner
  <2>1. pc \in {"open", "choose", "construct", "header", "commands", "read_command"}
    BY <1>11 DEF ChooseInner
  <2>2. sections = <<>> /\ room = 0
    BY <2>1 DEF Nothing
  <2>3. pc' \notin HaveSegments /\ UNCHANGED <<sections, room>>
    BY <1>11 DEF ChooseInner
  <2>4. points'.sections = {}
    BY <1>11, <2>1 DEF ChooseInner, Nothing, NoPoints
  <2> QED
    BY <2>2, <2>3, <2>4, SecsNone
<1>12. CASE NoInner
  BY <1>12, SecsKept DEF NoInner, GiveUp, HeadBlocks
<1>13. CASE Construct
  <2>1. pc \in {"open", "choose", "construct", "header", "commands", "read_command"}
    BY <1>13 DEF Construct
  <2>2. sections = <<>> /\ room = 0
    BY <2>1 DEF Nothing
  <2>3. pc' \notin HaveSegments /\ UNCHANGED <<sections, room>>
    BY <1>13 DEF Construct
  <2>4. points'.sections = {}
    BY <1>13, <2>1 DEF Construct, Nothing, NoPoints
  <2> QED
    BY <2>2, <2>3, <2>4, SecsNone
<1>14. CASE NoConstruct
  BY <1>14, SecsKept DEF NoConstruct, GiveUp
<1>15. CASE LoadHeader
  <2>1. pc \in {"open", "choose", "construct", "header", "commands", "read_command"}
    BY <1>15 DEF LoadHeader
  <2>2. sections = <<>> /\ room = 0
    BY <2>1 DEF Nothing
  <2>3. pc' \notin HaveSegments /\ UNCHANGED <<sections, room>>
    BY <1>15 DEF LoadHeader
  <2>4. points'.sections = {}
    BY <1>15, <2>1 DEF LoadHeader, Nothing, NoPoints
  <2> QED
    BY <2>2, <2>3, <2>4, SecsNone
<1>16. CASE NoHeader
  BY <1>16, SecsKept DEF NoHeader
<1>17. CASE AllocCommands
  <2>1. pc \in {"open", "choose", "construct", "header", "commands", "read_command"}
    BY <1>17 DEF AllocCommands
  <2>2. sections = <<>> /\ room = 0
    BY <2>1 DEF Nothing
  <2>3. pc' \notin HaveSegments /\ UNCHANGED <<sections, room>>
    BY <1>17 DEF AllocCommands
  <2>4. points'.sections = {}
    BY <1>17, <2>1 DEF AllocCommands, Nothing, NoPoints
  <2> QED
    BY <2>2, <2>3, <2>4, SecsNone
<1>18. CASE ReadCommand
  <2>1. pc \in {"open", "choose", "construct", "header", "commands", "read_command"}
    BY <1>18 DEF ReadCommand
  <2>2. sections = <<>> /\ room = 0
    BY <2>1 DEF Nothing
  <2>3. pc' \notin HaveSegments /\ UNCHANGED <<sections, room>>
    BY <1>18 DEF ReadCommand
  <2>4. points'.sections = {}
    BY <1>18, <2>1 DEF ReadCommand, Nothing, NoPoints
  <2> QED
    BY <2>2, <2>3, <2>4, SecsNone
<1>19. CASE AllocSegments
  <2>1. pc \in {"open", "choose", "construct", "header", "commands", "read_command"}
    BY <1>19 DEF AllocSegments
  <2>2. sections = <<>> /\ room = 0
    BY <2>1 DEF Nothing
  <2>3. pc' \notin HaveSegments /\ UNCHANGED <<sections, room>>
    BY <1>19 DEF AllocSegments
  <2>4. points'.sections = {}
    BY <1>19, <2>1 DEF AllocSegments, Nothing, NoPoints
  <2> QED
    BY <2>2, <2>3, <2>4, SecsNone
<1>20. CASE NoSegments
  <2>1. /\ pc = "read_command" /\ pc' = "details"
        /\ UNCHANGED <<sections, room, points, cur>>
    BY <1>20 DEF NoSegments
  <2>2. sections = <<>> /\ room = 0 /\ points.sections = {} /\ cur = 1
    BY <2>1 DEF Nothing
  <2> QED
    BY <2>1, <2>2, SecsStart
<1>21. CASE SkipCommand
  <2>1. /\ pc = "read_segment" /\ pc' = "read_segment"
        /\ UNCHANGED <<sections, room, points>>
    BY <1>21 DEF SkipCommand
  <2> QED
    BY <2>1 DEF Secs
<1>22. CASE ReadSegment
  <2>1. /\ pc = "read_segment" /\ pc' = "read_segment"
        /\ UNCHANGED <<sections, room, points>>
    BY <1>22 DEF ReadSegment
  <2> QED
    BY <2>1 DEF Secs
<1>23. CASE SegmentsRead
  <2>1. /\ pc = "read_segment" /\ pc' = "details" /\ cur' = 1
        /\ UNCHANGED <<sections, room, points>>
    BY <1>23 DEF SegmentsRead
  <2>2. sections = <<>> /\ room = 0 /\ points.sections = {}
    BY <2>1 DEF Nothing
  <2> QED
    BY <2>1, <2>2, SecsStart
<1>24. CASE SkipSegment
  <2>1. /\ pc = "details" /\ pc' = "details" /\ cur' = cur + 1
        /\ UNCHANGED <<sections, room, points, segments, segment_count, bits,
                       filesize, curoff>>
    BY <1>24 DEF SkipSegment, NextSegment
  <2> QED
    BY <2>1, SecsPassed
<1>25. CASE NoMemoryForSections
  <2>1. /\ pc = "details" /\ pc' = "details" /\ cur' = cur + 1
        /\ UNCHANGED <<sections, room, points, segments, segment_count, bits,
                       filesize, curoff>>
    BY <1>25 DEF NoMemoryForSections, NextSegment, HasSections
  <2> QED
    BY <2>1, SecsPassed
<1>26. CASE GrowSections
  <2> DEFINE n == segments[cur].nsects
             start == segments[cur].sectionsoffset
  <2>1. /\ pc = "details" /\ pc' = "read_section" /\ cur <= segment_count
        /\ segments[cur].name \notin Skipped /\ room' = NewRoom
        /\ sections' = IF points.sections = {} THEN <<NullSection(start)>>
                       ELSE sections
        /\ curoff' = start
        /\ points' = [points EXCEPT !.sections = {<<"sections", cur>>}]
        /\ UNCHANGED <<segments, segment_count, bits, filesize, cur>>
    BY <1>26 DEF GrowSections, HasSections
  <2>2. cur \in Nat \ {0} /\ room \in Nat
    BY DEF Types
  <2>3. start \in Nat /\ n \in Nat
    BY <2>1, CurrentTypes
  <2> HIDE DEF start, n
  <2>4. points'.sections # {}
    <3>1. points'.sections = {<<"sections", cur>>}
      BY <2>1
    <3> QED
      BY <3>1
  <2>5. /\ sections' \in Seq(Record)
        /\ Len(sections') \in Nat \ {0} /\ room' = Len(sections') + n
    <3>1. CASE points.sections = {}
      <4>1. sections' = <<NullSection(start)>> /\ room' = n + 1
        BY <2>1, <3>1 DEF NewRoom, n
      <4>2. NullSection(start) \in Record
        BY <2>3 DEF NullSection, Record
      <4> QED
        BY <2>3, <4>1, <4>2
    <3>2. CASE points.sections # {}
      <4>1. sections' = sections /\ room' = room + n
        BY <2>1, <3>2 DEF NewRoom, n
      <4>2. /\ sections \in Seq(Record)
            /\ Len(sections) = room /\ room > 0
        BY <2>1, <3>2 DEF Secs
      <4> QED
        BY <2>2, <4>1, <4>2
    <3> QED
      BY <3>1, <3>2
  <2>6. /\ \A i \in 1 .. Len(sections') :
              /\ sections'[i].segment \in Nat /\ sections'[i].segment < cur
              /\ sections'[i].segment # 0 =>
                    sections'[i].from + SectionLen[bits] <= filesize
        /\ \A i, j \in 1 .. Len(sections') :
              i < j => sections'[i].segment <= sections'[j].segment
        /\ \A k \in 1 .. cur - 1 : Whole(k)'
    <3>1. CASE points.sections = {}
      <4>1. /\ Len(sections') = 1 /\ sections'[1].segment = 0
        BY <2>1, <3>1 DEF NullSection
      <4>2. \A k \in 1 .. cur - 1 : Absent(k)'
        BY <4>1 DEF Absent
      <4> QED
        BY <2>2, <4>1, <4>2 DEF Whole
    <3>2. CASE points.sections # {}
      <4>1. sections' = sections
        BY <2>1, <3>2
      <4>2. \A k \in 1 .. cur - 1 : Whole(k)
        BY <2>1 DEF Secs
      <4>3. \A k \in 1 .. cur - 1 : Whole(k)'
        BY <2>1, <4>1, <4>2 DEF Whole, Absent, Run, Place
      <4>4. \A i \in 1 .. Len(sections) :
               /\ sections[i].segment \in Nat
               /\ sections[i].segment <= cur - 1
               /\ sections[i].segment # 0 =>
                     sections[i].from + SectionLen[bits] <= filesize
        BY <2>1, SectionTypes DEF Secs, Behind
      <4>5. \A i, j \in 1 .. Len(sections) :
               i < j => sections[i].segment <= sections[j].segment
        BY <2>1 DEF Secs
      <4>6. \A i \in 1 .. Len(sections) : sections[i].segment < cur
        BY <2>2, <4>4
      <4> QED
        BY <4>1, <4>3, <4>4, <4>5, <4>6
    <3> QED
      BY <3>1, <3>2
  <2> DEFINE b == Len(sections')
  <2>7. b \in Nat \ {0} /\ b + 1 .. b = {} /\ room' - n = b
    BY <2>3, <2>5
  <2>8. ((b + 1) - b - 1) * SectionLen[bits] = 0
    <3>1. SectionLen[bits] \in Nat
      BY <2>1, Lengths DEF Types
    <3>2. (b + 1) - b - 1 = 0
      BY <2>7
    <3> HIDE DEF b
    <3> QED
      BY <3>1, <3>2
  <2>9. \A i \in 1 .. b : sections'[i].segment # cur
    BY <2>2, <2>6
  <2>10. segments'[cur'].nsects = n /\ segments'[cur'].name \notin Skipped
    BY <2>1 DEF n
  <2>11. Run(cur, room - segments[cur].nsects, Len(sections))'
    BY <2>1, <2>7, <2>9, <2>10 DEF Run
  <2>12. (curoff = Place(cur, Len(sections) + 1, room - segments[cur].nsects))'
    <3>1. start = start + ((b + 1) - b - 1) * SectionLen[bits]
      BY <2>3, <2>8
    <3>2. curoff' = segments'[cur'].sectionsoffset
                    + ((b + 1) - b - 1) * SectionLen[bits']
      BY <2>1, <3>1 DEF start
    <3> QED
      BY <2>7, <2>10, <3>2 DEF Place
  <2>13. /\ room' > 0 /\ Len(sections') <= room' /\ sections' # <<>>
    BY <2>3, <2>5
  <2>14. /\ Behind' = cur
         /\ \A i \in 1 .. Len(sections') : sections'[i].segment <= cur
    BY <2>1, <2>2, <2>6 DEF Behind
  <2> HIDE DEF b
  <2>15. /\ \A i \in 1 .. Len(sections') :
               /\ sections'[i].segment <= Behind'
               /\ sections'[i].segment # 0 =>
                     sections'[i].from + SectionLen[bits'] <= filesize'
         /\ \A i, j \in 1 .. Len(sections') :
               i < j => sections'[i].segment <= sections'[j].segment
         /\ \A k \in 1 .. cur' - 1 : Whole(k)'
    BY <2>1, <2>6, <2>14
  <2>16. cur' <= segment_count' /\ room' # 0
    BY <2>1, <2>3, <2>5
  <2> QED
    BY <2>1, <2>4, <2>5, <2>10, <2>11, <2>12, <2>13, <2>15, <2>16 DEF Secs
<1>27. CASE ReadSection
  <2> DEFINE b == room - segments[cur].nsects
             e == Len(sections)
  <2>1. /\ pc = "read_section" /\ pc' = "read_section" /\ e < room
        /\ curoff + SectionLen[bits] <= filesize
        /\ sections' = Append(sections, [from |-> curoff, segment |-> cur])
        /\ curoff' = curoff + SectionLen[bits]
        /\ UNCHANGED <<room, points, segments, segment_count, bits, filesize, cur>>
    <3>1. Readable(curoff, SectionLen[bits])
      BY <1>27 DEF ReadSection
    <3> QED
      BY <1>27, <3>1 DEF ReadSection, RecordAfter, Readable
  <2>2. /\ cur \in Nat \ {0} /\ room \in Nat /\ curoff \in Nat
        /\ bits \in Bits
    BY <2>1 DEF Types
  <2>3. /\ sections \in Seq(Record) /\ e \in Nat
        /\ points.sections # {} /\ cur <= segment_count
        /\ segments[cur].name \notin Skipped
        /\ Run(cur, b, e) /\ curoff = Place(cur, e + 1, b)
    BY <2>1 DEF Secs
  <2>4. [from |-> curoff, segment |-> cur] \in Record
    BY <2>2 DEF Record
  <2>5. /\ sections' \in Seq(Record)
        /\ Len(sections') = e + 1 /\ sections' # <<>>
        /\ sections'[e + 1].from = curoff /\ sections'[e + 1].segment = cur
        /\ \A i \in 1 .. e : sections'[i] = sections[i]
    BY <2>1, <2>3, <2>4
  <2>6. /\ \A i \in 1 .. e :
              /\ sections[i].segment \in Nat /\ sections[i].segment <= cur
              /\ sections[i].segment # 0 =>
                    sections[i].from + SectionLen[bits] <= filesize
        /\ \A i, j \in 1 .. e : i < j => sections[i].segment <= sections[j].segment
        /\ \A k \in 1 .. cur - 1 : Whole(k)
    <3>1. \A i \in 1 .. e : sections[i].segment \in Nat
      BY SectionTypes
    <3> QED
      BY <2>1, <3>1 DEF Secs, Behind
  <2>7. b \in Nat \ {0} /\ b <= e
    BY <2>3 DEF Run
  <2> HIDE DEF b, e
  <2>8. \A i \in 1 .. e + 1 :
           /\ sections'[i].segment <= cur
           /\ sections'[i].segment # 0 =>
                 sections'[i].from + SectionLen[bits] <= filesize
    BY <2>1, <2>2, <2>3, <2>5, <2>6
  <2>9. \A i, j \in 1 .. e + 1 :
           i < j => sections'[i].segment <= sections'[j].segment
    <3> SUFFICES ASSUME NEW i \in 1 .. e + 1, NEW j \in 1 .. e + 1, i < j
                 PROVE  sections'[i].segment <= sections'[j].segment
      OBVIOUS
    <3>1. i \in 1 .. e /\ (j \in 1 .. e \/ j = e + 1)
      BY <2>3
    <3> QED
      BY <2>5, <2>6, <3>1
  <2>10. /\ \A i \in 1 .. e : sections[i].segment = cur <=> i \in b + 1 .. e
         /\ \A i \in b + 1 .. e : sections[i].from = Place(cur, i, b)
    BY <2>3 DEF Run, e
  <2>11. \A i \in 1 .. e + 1 : sections'[i].segment = cur <=> i \in b + 1 .. e + 1
    <3> SUFFICES ASSUME NEW i \in 1 .. e + 1
                 PROVE  sections'[i].segment = cur <=> i \in b + 1 .. e + 1
      OBVIOUS
    <3>1. CASE i \in 1 .. e
      <4>1. sections[i].segment = cur <=> i \in b + 1 .. e
        BY <2>10, <3>1
      <4>2. sections'[i] = sections[i]
        BY <2>5, <3>1
      <4>3. i \in b + 1 .. e <=> i \in b + 1 .. e + 1
        BY <2>3, <2>7, <3>1
      <4> QED
        BY <4>1, <4>2, <4>3
    <3>2. CASE i = e + 1
      BY <2>3, <2>5, <2>7, <3>2
    <3> QED
      BY <2>3, <3>1, <3>2
  <2>12. \A i \in b + 1 .. e + 1 : sections'[i].from = Place(cur, i, b)
    <3> SUFFICES ASSUME NEW i \in b + 1 .. e + 1
                 PROVE  sections'[i].from = Place(cur, i, b)
      OBVIOUS
    <3>1. CASE i \in b + 1 .. e
      <4>1. i \in 1 .. e
        BY <2>3, <2>7, <3>1
      <4> QED
        BY <2>5, <2>10, <3>1, <4>1
    <3>2. CASE i = e + 1
      BY <2>3, <2>5, <3>2
    <3> QED
      BY <2>3, <2>7, <3>1, <3>2
  <2>13. \A i : Place(cur, i, b)' = Place(cur, i, b')
    BY <2>1 DEF Place
  <2>14. b' = b
    BY <2>1 DEF b
  <2>15. Run(cur, b, e)'
    <3>1. /\ e' = e + 1 /\ e + 1 \in Nat /\ b <= e + 1 /\ cur' = cur
      BY <2>1, <2>3, <2>5, <2>7 DEF e
    <3>2. \A i \in 1 .. Len(sections') :
             sections'[i].segment = cur <=> i \in b + 1 .. e + 1
      BY <2>5, <2>11
    <3>3. \A i \in b + 1 .. e + 1 : sections'[i].from = Place(cur, i, b)'
      BY <2>12, <2>13, <2>14
    <3> QED
      BY <2>5, <2>7, <2>14, <3>1, <3>2, <3>3 DEF Run
  <2>16. Place(cur, e + 2, b) = Place(cur, e + 1, b) + SectionLen[bits]
    <3> DEFINE s == segments[cur].sectionsoffset
               d == (e + 1) - b - 1
    <3>1. s \in Nat
      BY <2>1, <2>3, CurrentTypes
    <3>2. /\ d \in Int /\ (e + 2) - b - 1 = d + 1 /\ (e + 1) - b - 1 = d
      BY <2>3, <2>7
    <3> HIDE DEF s, d
    <3>3. \A i, x : i - b - 1 = x => Place(cur, i, b) = s + x * SectionLen[bits]
      BY DEF Place, s
    <3>4. /\ Place(cur, e + 2, b) = s + (d + 1) * SectionLen[bits]
          /\ Place(cur, e + 1, b) = s + d * SectionLen[bits]
      BY <3>2, <3>3
    <3>5. CASE bits = 32
      <4>1. SectionLen[bits] = 68
        BY <3>5 DEF SectionLen, Bits
      <4>2. s + (d + 1) * 68 = s + d * 68 + 68
        BY <3>1, <3>2
      <4> QED
        BY <3>4, <4>1, <4>2
    <3>6. CASE bits = 64
      <4>1. SectionLen[bits] = 80
        BY <3>6 DEF SectionLen, Bits
      <4>2. s + (d + 1) * 80 = s + d * 80 + 80
        BY <3>1, <3>2
      <4> QED
        BY <3>4, <4>1, <4>2
    <3> QED
      BY <2>2, <3>5, <3>6 DEF Bits
  <2>17. (curoff = Place(cur, e + 1, b))'
    <3>1. e' = e + 1 /\ e' + 1 = e + 2
      BY <2>3, <2>5 DEF e
    <3>2. Place(cur, e + 1, b)' = Place(cur, e' + 1, b')
      BY <2>1 DEF Place
    <3> QED
      BY <2>1, <2>3, <2>14, <2>16, <3>1, <3>2
  <2>18. \A k \in 1 .. cur - 1 : Whole(k)'
    <3> SUFFICES ASSUME NEW k \in 1 .. cur - 1
                 PROVE  Whole(k)'
      OBVIOUS
    <3>1. k # cur /\ Whole(k)
      BY <2>2, <2>6
    <3>2. CASE Absent(k)
      <4>1. \A i \in 1 .. e + 1 : sections'[i].segment # k
        <5> SUFFICES ASSUME NEW i \in 1 .. e + 1
                     PROVE  sections'[i].segment # k
          OBVIOUS
        <5>1. CASE i \in 1 .. e
          <6>1. sections'[i] = sections[i]
            BY <2>5, <5>1
          <6> QED
            BY <3>2, <5>1, <6>1 DEF Absent, e
        <5>2. CASE i = e + 1
          BY <2>5, <3>1, <5>2
        <5> QED
          BY <2>3, <5>1, <5>2
      <4> QED
        BY <2>5, <4>1 DEF Whole, Absent
    <3>3. CASE /\ segments[k].name \notin Skipped
               /\ \E c \in Nat \ {0} : Run(k, c, c + segments[k].nsects)
      <4>1. PICK c \in Nat \ {0} : Run(k, c, c + segments[k].nsects)
        BY <3>3
      <4> DEFINE z == c + segments[k].nsects
      <4>2. /\ c <= z /\ z <= e
            /\ \A i \in 1 .. e : sections[i].segment = k <=> i \in c + 1 .. z
            /\ \A i \in c + 1 .. z : sections[i].from = Place(k, i, c)
        BY <4>1 DEF Run, e
      <4>3. segments[k].nsects \in Int
        <5>1. k \in 1 .. Len(segments)
          BY <2>1, <2>2, <2>3, AllDescribed, CurrentTypes
        <5>2. segments \in Seq(Described)
          BY DEF Segs
        <5>3. segments[k] \in Described
          BY <5>1, <5>2
        <5> QED
          BY <5>3 DEF Described
      <4>4. z \in Int
        BY <4>3
      <4> HIDE DEF z
      <4>5. z <= e + 1 /\ e + 1 \notin c + 1 .. z
        BY <2>3, <4>2, <4>4
      <4>6. \A i \in 1 .. e + 1 : sections'[i].segment = k <=> i \in c + 1 .. z
        <5> SUFFICES ASSUME NEW i \in 1 .. e + 1
                     PROVE  sections'[i].segment = k <=> i \in c + 1 .. z
          OBVIOUS
        <5>1. CASE i \in 1 .. e
          BY <2>5, <4>2, <5>1
        <5>2. CASE i = e + 1
          BY <2>5, <3>1, <4>5, <5>2
        <5> QED
          BY <2>3, <5>1, <5>2
      <4>7. \A i \in c + 1 .. z : sections'[i].from = Place(k, i, c)'
        <5> SUFFICES ASSUME NEW i \in c + 1 .. z
                     PROVE  sections'[i].from = Place(k, i, c)'
          OBVIOUS
        <5>1. i \in 1 .. e
          BY <2>3, <4>2, <4>4
        <5>2. Place(k, i, c)' = Place(k, i, c)
          BY <2>1 DEF Place
        <5> QED
          BY <2>5, <4>2, <5>1, <5>2
      <4>8. (c + segments[k].nsects)' = z
        BY <2>1 DEF z
      <4>9. c <= z /\ z <= Len(sections')
        BY <2>5, <4>2, <4>5
      <4>10. Run(k, c, c + segments[k].nsects)'
        BY <2>5, <4>6, <4>7, <4>8, <4>9 DEF Run
      <4>11. segments'[k].name \notin Skipped
        BY <2>1, <3>3
      <4> QED
        BY <4>10, <4>11 DEF Whole
    <3> QED
      BY <3>1, <3>2, <3>3 DEF Whole
  <2>19. Behind' = cur /\ cur' = cur /\ Len(sections') <= room'
    BY <2>1, <2>2, <2>3, <2>5 DEF Behind
  <2>20. Run(cur, room - segments[cur].nsects, Len(sections))'
    BY <2>15 DEF b, e
  <2>21. (curoff = Place(cur, Len(sections) + 1, room - segments[cur].nsects))'
    BY <2>17 DEF b, e
  <2>22. /\ \A i \in 1 .. Len(sections') :
               /\ sections'[i].segment <= Behind'
               /\ sections'[i].segment # 0 =>
                     sections'[i].from + SectionLen[bits'] <= filesize'
         /\ \A i, j \in 1 .. Len(sections') :
               i < j => sections'[i].segment <= sections'[j].segment
    BY <2>1, <2>5, <2>8, <2>9, <2>19
  <2>23. /\ points'.sections # {} /\ room' > 0 /\ cur' <= segment_count'
         /\ segments'[cur'].name \notin Skipped
    BY <2>1, <2>2, <2>3 DEF e
  <2> QED
    BY <2>1, <2>5, <2>18, <2>19, <2>20, <2>21, <2>22, <2>23 DEF Secs
<1>28. CASE SectionsRead
  <2> DEFINE n == segments[cur].nsects
  <2>1. /\ pc = "read_section" /\ pc' = "details" /\ Len(sections) = room
        /\ cur' = cur + 1
        /\ UNCHANGED <<sections, room, points, segments, segment_count, bits,
                       filesize, curoff>>
    BY <1>28 DEF SectionsRead
  <2>2. cur \in Nat \ {0} /\ room \in Nat
    BY DEF Types
  <2>3. /\ segments[cur].name \notin Skipped
        /\ Run(cur, room - n, room)
    BY <2>1 DEF Secs
  <2>4. n \in Nat
    BY <2>1, CurrentTypes DEF Secs
  <2> HIDE DEF n
  <2>5. room - n \in Nat \ {0}
    BY <2>3 DEF Run
  <2>6. room = (room - n) + n
    BY <2>2, <2>4
  <2>7. Whole(cur)
    <3>1. Run(cur, room - n, (room - n) + n)
      BY <2>3, <2>6
    <3> QED
      BY <2>3, <2>5, <3>1 DEF Whole, n
  <2>8. \A k \in 1 .. cur - 1 : Whole(k)
    BY <2>1 DEF Secs
  <2>9. \A k \in 1 .. cur' - 1 : Whole(k)'
    <3>1. \A k \in 1 .. cur' - 1 : Whole(k)
      BY <2>1, <2>2, <2>7, <2>8
    <3> QED
      BY <2>1, <3>1 DEF Whole, Absent, Run, Place
  <2>10. Behind = cur /\ Behind' = cur
    BY <2>1, <2>2 DEF Behind
  <2> QED
    BY <2>1, <2>9, <2>10 DEF Secs
<1>29. CASE LoadFails
  BY <1>29, SecsKept DEF LoadFails, HasSections
<1>30. CASE Loaded
  BY <1>30, SecsKept DEF Loaded
<1>31. CASE Destruct
  <2>1. /\ pc' \notin HaveSegments /\ points'.sections = {}
        /\ UNCHANGED <<sections, room>>
    BY <1>31 DEF Destruct, NoPoints
  <2> QED
    BY <2>1 DEF Secs
<1>32. CASE UNCHANGED vars
  <2>1. UNCHANGED <<sections, room, points, segments, segment_count, bits,
                     filesize, cur, curoff>>
    BY <1>32 DEF vars
  <2>2. pc' = pc
    BY <1>32 DEF vars
  <2> QED
    BY <2>1, <2>2, SecsKept DEF Secs
<1> QED
  BY <1>1, <1>2, <1>3, <1>4, <1>5, <1>6, <1>7, <1>8, <1>9, <1>10, <1>11,
     <1>12, <1>13, <1>14, <1>15, <1>16, <1>17, <1>18, <1>19, <1>20, <1>21,
     <1>22, <1>23, <1>24, <1>25, <1>26, <1>27, <1>28, <1>29, <1>30, <1>31,
     <1>32 DEF Next

-----------------------------------------------------------------------------
(* What is promised holds in every state of the invariant.                 *)
LEMMA PromisedTypes == IInv => TypeOK
BY DEF IInv, Types, Secs, TypeOK

LEMMA PromisedInner == IInv => InnerIsInTheFile
BY DEF IInv, Inside, InnerIsInTheFile

LEMMA PromisedSegments == IInv => SegmentsAreTheCommands
<1> SUFFICES ASSUME IInv PROVE SegmentsAreTheCommands
  OBVIOUS
<1>1. Segs
  BY DEF IInv
<1>2. ASSUME pc \in HaveSegments
      PROVE  /\ Len(segments) = segment_count
             /\ \A i \in 1 .. Len(commands) :
                   commands[i].cmd # "other" <=>
                       \E k \in 1 .. Len(segments) : segments[k].command = i
  BY <1>1, <1>2, AllDescribed DEF Segs, Scanned, HaveSegments
<1> QED
  BY <1>1, <1>2 DEF SegmentsAreTheCommands, Segs, HaveSegments

LEMMA PromisedOwns == IInv => OwnsWhatItFrees
BY DEF IInv, Owns, OwnsWhatItFrees, Over

(* The records of a segment that is there are the right ones, in order.    *)
LEMMA RecordsInOrder ==
    ASSUME Types, Segs, Secs, pc = "print", NEW k \in 1 .. segment_count,
           NEW b \in Nat \ {0}, Run(k, b, b + segments[k].nsects)
    PROVE  /\ {sections[i].from : i \in Of(k)} =
                 {segments[k].sectionsoffset + n * SectionLen[bits] :
                     n \in 0 .. segments[k].nsects - 1}
           /\ \A i, j \in Of(k) : i < j => sections[i].from < sections[j].from
<1> DEFINE s == segments[k].sectionsoffset
           m == segments[k].nsects
           l == SectionLen[bits]
<1>1. s \in Nat /\ m \in Nat
  <2>1. k \in 1 .. Len(segments)
    BY AllDescribed DEF HaveSegments
  <2>2. segments \in Seq(Described)
    BY DEF Segs
  <2>3. segments[k] \in Described
    BY <2>1, <2>2
  <2> QED
    BY <2>3 DEF Described
<1>2. l \in {68, 80}
  <2>1. bits \in Bits
    BY DEF Types, Holding
  <2> QED
    BY <2>1 DEF SectionLen, Bits
<1>3. /\ b + m <= Len(sections) /\ Len(sections) \in Nat
      /\ \A i \in 1 .. Len(sections) : sections[i].segment = k <=> i \in b + 1 .. b + m
      /\ \A i \in b + 1 .. b + m : sections[i].from = s + (i - b - 1) * l
  BY DEF Run, Place, Secs
<1>4. Of(k) = b + 1 .. b + m
  BY <1>1, <1>3 DEF Of
<1> HIDE DEF s, m, l
<1>5. \A i \in Of(k) : sections[i].from = s + (i - b - 1) * l
  BY <1>3, <1>4
<1>6. {sections[i].from : i \in Of(k)} = {s + n * l : n \in 0 .. m - 1}
  <2>1. ASSUME NEW i \in Of(k)
        PROVE  sections[i].from \in {s + n * l : n \in 0 .. m - 1}
    <3>1. i - b - 1 \in 0 .. m - 1
      BY <1>1, <1>4
    <3> QED
      BY <1>5, <3>1
  <2>2. ASSUME NEW n \in 0 .. m - 1
        PROVE  s + n * l \in {sections[i].from : i \in Of(k)}
    <3>1. b + 1 + n \in Of(k) /\ (b + 1 + n) - b - 1 = n
      BY <1>1, <1>4
    <3>2. sections[b + 1 + n].from = s + n * l
      BY <1>5, <3>1
    <3> QED
      BY <3>1, <3>2
  <2> QED
    BY <2>1, <2>2
<1>7. ASSUME NEW i \in Of(k), NEW j \in Of(k), i < j
      PROVE  sections[i].from < sections[j].from
  <2>1. i \in Int /\ j \in Int
    BY <1>1, <1>4
  <2>2. CASE l = 68
    BY <1>1, <1>5, <1>7, <2>1, <2>2
  <2>3. CASE l = 80
    BY <1>1, <1>5, <1>7, <2>1, <2>3
  <2> QED
    BY <1>2, <2>2, <2>3
<1> QED
  BY <1>6, <1>7 DEF s, m, l

LEMMA PromisedSections == IInv => SectionsAreTheSegments
<1> SUFFICES ASSUME IInv, pc = "print" PROVE SectionsAreTheSegments
  BY DEF SectionsAreTheSegments
<1>1. Types /\ Segs /\ Secs
  BY DEF IInv
<1>2. /\ Len(sections) = room
      /\ \A i, j \in 1 .. Len(sections) :
            i < j => sections[i].segment <= sections[j].segment
  BY <1>1 DEF Secs, HaveSegments
<1>3. ASSUME NEW k \in 1 .. segment_count
      PROVE  LET records == {segments[k].sectionsoffset + n * SectionLen[bits] :
                                n \in 0 .. segments[k].nsects - 1}
             IN  /\ {sections[i].from : i \in Of(k)} \in {{}, records}
                 /\ segments[k].name \in Skipped => Of(k) = {}
                 /\ \A i, j \in Of(k) : i < j => sections[i].from < sections[j].from
                 /\ \A i \in Of(k) :
                       sections[i].from + SectionLen[bits] <= filesize
  <2>1. k \in 1 .. cur - 1 /\ Whole(k)
    <3>1. k \in 1 .. cur - 1
      BY <1>1 DEF Secs, Types
    <3> QED
      BY <1>1, <3>1 DEF Secs, HaveSegments
  <2>2. \A i \in Of(k) : sections[i].from + SectionLen[bits] <= filesize
    BY <1>1 DEF Of, Secs, HaveSegments
  <2>3. CASE Absent(k)
    <3>1. Of(k) = {}
      BY <2>3 DEF Of, Absent
    <3> QED
      BY <3>1
  <2>4. CASE /\ segments[k].name \notin Skipped
             /\ \E b \in Nat \ {0} : Run(k, b, b + segments[k].nsects)
    <3>1. PICK b \in Nat \ {0} : Run(k, b, b + segments[k].nsects)
      BY <2>4
    <3>2. /\ {sections[i].from : i \in Of(k)} =
                {segments[k].sectionsoffset + n * SectionLen[bits] :
                    n \in 0 .. segments[k].nsects - 1}
          /\ \A i, j \in Of(k) : i < j => sections[i].from < sections[j].from
      BY <1>1, <3>1, RecordsInOrder
    <3> QED
      BY <2>2, <2>4, <3>2
  <2> QED
    BY <2>1, <2>3, <2>4 DEF Whole
<1> QED
  BY <1>2, <1>3 DEF SectionsAreTheSegments

(* The invariant holds in every state a run of readobjmacho can reach.     *)
THEOREM Invariant == Spec => []IInv
<1>1. Init => IInv
  BY InitIInv
<1>2. IInv /\ [Next]_vars => IInv'
  BY TypesStep, NothingStep, OwnsStep, TableStep, InsideStep, SegsStep, SecsStep
     DEF IInv
<1> QED
  BY <1>1, <1>2, PTL DEF Spec

(* No array is written beyond its room, whatever the header, the commands  *)
(* and the segments say, in a file of any size.                            *)
THEOREM TypeCorrect == Spec => []TypeOK
BY Invariant, PromisedTypes, PTL

(* The limit of every read is inside the file, and that of a 32-bit table  *)
(* is where the object that was asked for ends.                            *)
THEOREM InnerCorrect == Spec => []InnerIsInTheFile
BY Invariant, PromisedInner, PTL

(* The walk that fills in the segments finds what the walk that counted    *)
(* them found, for any number of commands.                                 *)
THEOREM SegmentsCorrect == Spec => []SegmentsAreTheCommands
BY Invariant, PromisedSegments, PTL

(* However many segments moved the sections to a longer array, those of    *)
(* each segment are its records, in order, or none.                        *)
THEOREM SectionsCorrect == Spec => []SectionsAreTheSegments
BY Invariant, PromisedSections, PTL

(* Nothing is freed twice, nothing that is not there is followed, and      *)
(* nothing is left, wherever the run fails.                                *)
THEOREM OwnershipCorrect == Spec => []OwnsWhatItFrees
BY Invariant, PromisedOwns, PTL

=============================================================================
