---------------------------- MODULE PeLoadProofs ----------------------------
(***************************************************************************)
(* What ObjectDetector and PeLoad say of the path answered, of the two     *)
(* readers of the headers, of the sections displayed and of what is freed  *)
(* holds for any arguments, files, replacements and lengths of finalpath.  *)
(***************************************************************************)
EXTENDS PeLoad, FiniteSetTheorems, SequenceTheorems, TLAPS

Reasons == {"", "construct", "read", "name", "size", "type", "botch", "small"}
Refusals == {"size", "type", "botch", "small"}
Orders == {"none", "size", "name"}

(* Before there is an object, or after it, and while there is one.         *)
Idle == {"open", "detect", "report", "next", "construct"}
Loading == {"headers", "strings", "table", "sections", "failed", "displayed", "crashed"}

Kinds == {"elf", "pe", "universal", "macho", "archive"}
Endians == {"none", "little", "big"}
Answers == [ftype : Kinds \cup {"none"}, endian : Endians, bits : {0, 32, 64}, size : Nat]
Objects ==
    [bits : {0, 32, 64}, is64bit : BOOLEAN, filesize : Nat, endian : Endians,
     path : BOOLEAN]

SectionEntry ==
    [name : BOOLEAN, dwarf : BOOLEAN, rank : Nat, size : Nat, header : Nat]

DetectorTypeOK ==
    /\ args \in Seq(Argument) /\ n \in 1 .. Len(args)
    /\ program \in {"object_detector", "readobjpe"}
    /\ outpath \in {"", "path", "dsym"} /\ given \in BOOLEAN
    /\ pc \in Idle \cup Loading
    /\ opened \in AnyFile
    /\ answer \in Answers
    /\ pc = "construct" => answer.bits \in {32, 64}
    /\ errct \in Nat

PeTypeOK ==
    /\ replaced \in BOOLEAN
    /\ pep \in Objects
    /\ strtab \in [offset : Nat, size : Nat]
    /\ secs \in Seq(SectionEntry)
    /\ sort \in Orders /\ why \in Reasons /\ fault \in BOOLEAN
    /\ pc \in Loading => opened \in File /\ pep.bits \in {32, 64}
    /\ pc = "sections" => secs # << >>

TypeOK == DetectorTypeOK /\ PeTypeOK

(* Of an argument the model changes the file, never the lengths, so the    *)
(* name written to outpath stays the one that was found to fit.            *)
OutpathInv ==
    /\ \A k \in 1 .. Len(args) : args[k].base <= args[k].len
    /\ program = "readobjpe" => ~ given
    /\ outpath # "" => Fits(args[n])
    /\ pc = "open" => outpath = "" /\ answer = NoAnswer
    /\ pc = "detect" =>
           /\ answer = NoAnswer
           /\ given => outpath # "" /\ opened = Named(outpath, args[n])
           /\ ~ given => opened = args[n].file
    /\ pc = "report" /\ given =>
           IF answer = NoAnswer THEN outpath = ""
           ELSE answer = Answer(Named(outpath, args[n]))

(* The answer is about the file that will be opened again, and the object  *)
(* about the file that was, unless that is another one.                    *)
AgreementInv ==
    ~ replaced =>
        /\ pc = "construct" => IsPe(args[n].file) /\ answer = Answer(args[n].file)
        /\ pc \in Loading =>
               /\ IsPe(opened)
               /\ pep.filesize = opened.size /\ pep.endian = Endian(opened)
               /\ pep.is64bit = (pep.bits = 64)
        /\ why \notin Refusals

(* What is allocated is what the destructor would free, at every step.     *)
OwnershipInv ==
    /\ ~ fault
    /\ pc \in Idle => live = {} /\ pep = NoPep /\ secs = << >> /\ strtab = NoTable
    /\ pc \in {"headers", "strings"} => strtab = NoTable
    /\ pc \in {"headers", "strings", "table"} => secs = << >>
    /\ pc \in Loading => live = Held

(* The file read lies behind its sections as they are filled in.           *)
TableInv ==
    /\ SectionsAreTheTable
    /\ pc = "sections" => Len(secs) <= Len(Sections) + 1
    /\ pc # "displayed" => order = << >>
    /\ pc = "displayed" => order = Displayed /\ Len(secs) = Len(Sections) + 1

Inv == TypeOK /\ OutpathInv /\ AgreementInv /\ OwnershipInv /\ TableInv

-----------------------------------------------------------------------------
(* The order of the display.                                               *)

(* What the comparisons read are numbers.                                   *)
LEMMA EntriesAreNumbers ==
    ASSUME secs \in Seq(SectionEntry)
    PROVE  /\ DOMAIN secs \subseteq Nat
           /\ \A i \in DOMAIN secs : secs[i].size \in Nat /\ secs[i].rank \in Nat
<1>1. \A i \in DOMAIN secs : secs[i] \in SectionEntry
  OBVIOUS
<1>2. \A e \in SectionEntry : e.size \in Nat /\ e.rank \in Nat
  BY DEF SectionEntry
<1>3. DOMAIN secs \subseteq Nat
  OBVIOUS
<1> QED
  BY <1>1, <1>2, <1>3

(* The comparisons that qsort is given put every two sections in order,    *)
(* whatever is asked for: the number of a section decides between equals.  *)
LEMMA BeforeIsAnOrder ==
    ASSUME secs \in Seq(SectionEntry), sort \in Orders
    PROVE  /\ \A i \in DOMAIN secs : ~ Before(i, i)
           /\ \A i, j \in DOMAIN secs : i = j \/ Before(i, j) \/ Before(j, i)
           /\ \A i, j, k \in DOMAIN secs : Before(i, j) /\ Before(j, k) => Before(i, k)
<1>1. /\ DOMAIN secs \subseteq Nat
      /\ \A i \in DOMAIN secs : secs[i].size \in Nat /\ secs[i].rank \in Nat
  BY EntriesAreNumbers
<1>2. CASE sort = "size"
  BY <1>1, <1>2 DEF Before, Ahead
<1>3. CASE sort = "name"
  BY <1>1, <1>3 DEF Before, Ahead
<1>4. CASE sort = "none"
  BY <1>1, <1>4 DEF Before, Ahead
<1> QED
  BY <1>2, <1>3, <1>4 DEF Orders

(* A section that comes before another has fewer before it.                *)
LEMMA PlacesFollowTheOrder ==
    ASSUME secs \in Seq(SectionEntry), sort \in Orders,
           NEW j \in DOMAIN secs, NEW k \in DOMAIN secs, Before(j, k)
    PROVE  Place(j) < Place(k)
<1> DEFINE Ones(i) == {h \in DOMAIN secs : Before(h, i)}
<1>1. IsFiniteSet(DOMAIN secs)
  <2>1. DOMAIN secs = 1 .. Len(secs) /\ Len(secs) \in Nat
    OBVIOUS
  <2> QED
    BY <2>1, FS_Interval
<1>2. \A i \in DOMAIN secs : IsFiniteSet(Ones(i)) /\ Cardinality(Ones(i)) \in Nat
  BY <1>1, FS_Subset, FS_CardinalityType
<1>3. Ones(j) \subseteq Ones(k)
  BY BeforeIsAnOrder
<1>4. j \in Ones(k) /\ j \notin Ones(j)
  BY BeforeIsAnOrder
<1>5. Cardinality(Ones(j)) <= Cardinality(Ones(k)) /\ Cardinality(Ones(j)) # Cardinality(Ones(k))
  <2> HIDE DEF Ones
  <2> QED
    BY <1>2, <1>3, <1>4, FS_Subset
<1>6. Cardinality(Ones(j)) < Cardinality(Ones(k))
  <2> HIDE DEF Ones
  <2> QED
    BY <1>2, <1>5
<1> QED
  <2>1. Place(j) = Cardinality(Ones(j)) + 1 /\ Place(k) = Cardinality(Ones(k)) + 1
    BY DEF Place
  <2> HIDE DEF Ones
  <2> QED
    BY <1>2, <1>6, <2>1

(* The places are the numbers of the sections, each taken once.            *)
LEMMA PlacesAreTaken ==
    ASSUME secs \in Seq(SectionEntry), sort \in Orders
    PROVE  /\ \A k \in DOMAIN secs : Place(k) \in DOMAIN secs
           /\ \A p \in DOMAIN secs : \E k \in DOMAIN secs : Place(k) = p
<1> DEFINE D == DOMAIN secs
           Ones(i) == {h \in DOMAIN secs : Before(h, i)}
           place == [k \in D |-> Place(k)]
<1>1. D = 1 .. Len(secs) /\ Len(secs) \in Nat /\ IsFiniteSet(D)
      /\ Cardinality(D) = Len(secs)
  <2>1. D = 1 .. Len(secs) /\ Len(secs) \in Nat
    OBVIOUS
  <2> HIDE DEF D
  <2> QED
    BY <2>1, FS_Interval
<1>2. ASSUME NEW k \in D
      PROVE  Place(k) \in D
  <2>1. IsFiniteSet(D \ {k}) /\ Cardinality(D \ {k}) = Len(secs) - 1
    BY <1>1, FS_RemoveElement
  <2>2. Ones(k) \in SUBSET (D \ {k})
    BY BeforeIsAnOrder
  <2>3. Cardinality(Ones(k)) \in Nat /\ Cardinality(Ones(k)) <= Len(secs) - 1
    <3> HIDE DEF Ones, D
    <3> QED
      BY <2>1, <2>2, FS_Subset, FS_CardinalityType
  <2>4. Place(k) = Cardinality(Ones(k)) + 1
    BY DEF Place
  <2> HIDE DEF Ones, D
  <2> QED
    BY <1>1, <2>3, <2>4
<1>3. \A j, k \in D : Place(j) = Place(k) => j = k
  <2> SUFFICES ASSUME NEW j \in D, NEW k \in D, Place(j) = Place(k), j # k
               PROVE  FALSE
    OBVIOUS
  <2>1. Before(j, k) \/ Before(k, j)
    BY BeforeIsAnOrder
  <2>2. Place(j) < Place(k) \/ Place(k) < Place(j)
    BY <2>1, PlacesFollowTheOrder
  <2>3. Place(j) \in Nat /\ Place(k) \in Nat
    BY <1>1, <1>2
  <2> QED
    BY <2>2, <2>3
<1>4. place \in Injection(D, D)
  <2> HIDE DEF D
  <2> QED
    BY <1>2, <1>3 DEF Injection, IsInjective
<1>5. place \in Surjection(D, D)
  <2> HIDE DEF D, place
  <2> QED
    BY <1>1, <1>4, FS_Injection
<1>6. \A p \in D : \E k \in D : place[k] = p
  <2> HIDE DEF D, place
  <2> QED
    BY <1>5 DEF Surjection
<1> QED
  BY <1>2, <1>6

(* What is displayed holds each section once, and the earlier of two       *)
(* entries comes before the later.                                         *)
LEMMA DisplayedIsInOrder ==
    ASSUME secs \in Seq(SectionEntry), sort \in Orders
    PROVE  /\ DOMAIN Displayed = DOMAIN secs
           /\ {Displayed[p] : p \in DOMAIN secs} = DOMAIN secs
           /\ \A p, q \in DOMAIN secs : p < q => Before(Displayed[p], Displayed[q])
<1>1. \A p \in DOMAIN secs : Displayed[p] \in DOMAIN secs /\ Place(Displayed[p]) = p
  BY PlacesAreTaken DEF Displayed
<1>2. \A k \in DOMAIN secs : Displayed[Place(k)] = k
  <2> SUFFICES ASSUME NEW k \in DOMAIN secs
               PROVE  Displayed[Place(k)] = k
    OBVIOUS
  <2> DEFINE j == Displayed[Place(k)]
  <2>1. Place(k) \in DOMAIN secs
    BY PlacesAreTaken
  <2>2. j \in DOMAIN secs /\ Place(j) = Place(k)
    BY <1>1, <2>1
  <2>3. Place(k) \in Nat
    BY <2>1
  <2> HIDE DEF j
  <2>4. ~ Before(j, k) /\ ~ Before(k, j)
    BY <2>2, <2>3, PlacesFollowTheOrder
  <2>5. j = k
    BY <2>2, <2>4, BeforeIsAnOrder
  <2> QED
    BY <2>5 DEF j
<1>3. \A p, q \in DOMAIN secs : p < q => Before(Displayed[p], Displayed[q])
  <2> SUFFICES ASSUME NEW p \in DOMAIN secs, NEW q \in DOMAIN secs, p < q
               PROVE  Before(Displayed[p], Displayed[q])
    OBVIOUS
  <2>1. p \in Nat /\ q \in Nat
    OBVIOUS
  <2>2. Displayed[p] # Displayed[q]
    BY <1>1, <2>1
  <2>3. ~ Before(Displayed[q], Displayed[p])
    BY <1>1, <2>1, PlacesFollowTheOrder
  <2> QED
    BY <1>1, <2>2, <2>3, BeforeIsAnOrder
<1>4. {Displayed[p] : p \in DOMAIN secs} = DOMAIN secs
  <2>1. \A k \in DOMAIN secs : Place(k) \in DOMAIN secs
    BY PlacesAreTaken
  <2>2. \A k \in DOMAIN secs : k \in {Displayed[p] : p \in DOMAIN secs}
    BY <1>2, <2>1
  <2> QED
    BY <1>1, <2>2
<1>5. DOMAIN Displayed = DOMAIN secs
  BY DEF Displayed
<1> QED
  BY <1>3, <1>4, <1>5

(* Before is what Sorted asks of every two, equal ones by number.          *)
LEMMA DisplayIsInOrder ==
    ASSUME secs \in Seq(SectionEntry), sort \in Orders,
           order # << >> => order = Displayed /\ Len(secs) = Len(Sections) + 1
    PROVE  DisplayIsSorted
<1> SUFFICES ASSUME order # << >>
             PROVE  DisplayIsSorted
  BY DEF DisplayIsSorted
<1>1. DOMAIN secs = 1 .. Len(secs) /\ Len(secs) \in Nat
  OBVIOUS
<1>2. DOMAIN order = 1 .. Len(Sections) + 1 /\ Len(order) = Len(secs)
  BY <1>1, DisplayedIsInOrder DEF Displayed
<1>3. {order[p] : p \in DOMAIN order} = 1 .. Len(Sections) + 1
  BY <1>1, <1>2, DisplayedIsInOrder
<1>4. ASSUME NEW p \in DOMAIN order, NEW q \in p + 1 .. Len(order)
      PROVE  /\ Sorted(order[p], order[q])
             /\ Sorted(order[p], order[q]) /\ Sorted(order[q], order[p])
                    => order[p] < order[q]
  <2>1. p \in DOMAIN secs /\ q \in DOMAIN secs /\ p < q
    BY <1>1, <1>2
  <2>2. Before(order[p], order[q]) /\ order[p] \in DOMAIN secs /\ order[q] \in DOMAIN secs
    BY <2>1, DisplayedIsInOrder
  <2>3. \A i \in DOMAIN secs : secs[i].size \in Nat /\ secs[i].rank \in Nat
    BY EntriesAreNumbers
  <2>4. CASE sort = "size"
    BY <2>2, <2>3, <2>4 DEF Before, Ahead, Sorted
  <2>5. CASE sort = "name"
    BY <2>2, <2>3, <2>5 DEF Before, Ahead, Sorted
  <2>6. CASE sort = "none"
    BY <2>2, <2>3, <2>6 DEF Before, Ahead, Sorted
  <2> QED
    BY <2>4, <2>5, <2>6 DEF Orders
<1> QED
  BY <1>3, <1>4 DEF DisplayIsSorted

-----------------------------------------------------------------------------
(* The files and the detector.                                             *)

(* What is detected is a file, and its answer is not the missing one.      *)
LEMMA DetectedIsFile ==
    ASSUME NEW f \in AnyFile, Detected(f)
    PROVE  /\ f \in File
           /\ Answer(f) # NoAnswer
           /\ Answer(f) \in Answers
           /\ Kind(f) = "pe" => IsPe(f) /\ f.bits \in {32, 64} /\ Answer(f).bits = f.bits
<1>1. f # NoFile
  BY DEF Detected, DetectLen, NoFile
<1>2. f \in File
  BY <1>1 DEF AnyFile
<1>3. /\ f.size \in Nat /\ f.endian \in Endians
      /\ f.head \in {"elf", "MZ", "ZM", "universal", "macho", "archive", "text"}
      /\ f.bits \in {0, 32, 64}
  BY <1>2 DEF File, Endians
<1>4. Kind(f) \in Kinds
  BY <1>3 DEF Detected, Kind, Kinds, IsElf, IsPe
<1>5. Endian(f) \in Endians
  BY <1>3 DEF Endian, Endians
<1>6. Answer(f).ftype = Kind(f) /\ NoAnswer.ftype = "none"
  BY DEF Answer, NoAnswer
<1>7. Answer(f) \in Answers
  BY <1>3, <1>4, <1>5 DEF Answer, Answers
<1>8. ASSUME Kind(f) = "pe"
      PROVE  IsPe(f) /\ f.bits \in {32, 64} /\ Answer(f).bits = f.bits
  <2>1. IsPe(f)
    BY <1>8 DEF Detected, Kind, IsElf
  <2>2. f.head # "archive"
    BY <2>1 DEF IsPe
  <2> QED
    BY <1>3, <2>1, <2>2 DEF IsPe, Answer
<1> QED
  BY <1>2, <1>4, <1>6, <1>7, <1>8 DEF Kinds

(* The fields of a file that positions are reckoned from.                 *)
LEMMA FieldsOfFile ==
    ASSUME NEW f \in File
    PROVE  /\ f.size \in Nat /\ f.nt_address \in Nat /\ f.symbols \in Nat
           /\ f.nsymbols \in Nat /\ f.strsize \in Nat /\ f.sections \in Seq(SectionHeader)
           /\ f.nt_signature \in BOOLEAN
BY DEF File

(* The argument at hand is one.                                            *)
LEMMA ArgumentAtHand ==
    ASSUME DetectorTypeOK
    PROVE  /\ args[n] \in Argument
           /\ args[n].len \in Nat /\ args[n].base \in Nat
           /\ args[n].file \in AnyFile /\ args[n].dsym \in AnyFile
<1>1. args[n] \in Argument
  BY ElementOfSeq, Zenon DEF DetectorTypeOK
<1> QED
  BY <1>1 DEF Argument

(* The number of the argument at hand is one of theirs.                    *)
LEMMA CountsAreNumbers ==
    ASSUME DetectorTypeOK
    PROVE  Len(args) \in Nat /\ n \in 1 .. Len(args) /\ errct \in Nat
<1>1. args \in Seq(Argument) /\ n \in 1 .. Len(args) /\ errct \in Nat
  BY Zenon DEF DetectorTypeOK
<1> QED
  BY <1>1

(* The name may be given to another file; the rest of the arguments stays. *)
LEMMA ReplacedArguments ==
    ASSUME DetectorTypeOK, NEW f \in AnyFile, args' = [args EXCEPT ![n].file = f]
    PROVE  /\ args' \in Seq(Argument) /\ Len(args') = Len(args)
           /\ \A k \in 1 .. Len(args) :
                 args'[k].len = args[k].len /\ args'[k].base = args[k].base
           /\ args'[n].file = f
<1> DEFINE a == [args[n] EXCEPT !.file = f]
<1>1. args \in Seq(Argument) /\ n \in 1 .. Len(args)
  BY DEF DetectorTypeOK
<1>2. a \in Argument /\ a.len = args[n].len /\ a.base = args[n].base /\ a.file = f
  BY ArgumentAtHand DEF Argument
<1>3. args' = [args EXCEPT ![n] = a]
  OBVIOUS
<1> HIDE DEF a
<1>4. /\ args' \in Seq(Argument) /\ Len(args') = Len(args)
      /\ \A j \in 1 .. Len(args) : args'[j] = IF j = n THEN a ELSE args[j]
  BY <1>1, <1>2, <1>3, ExceptSeq
<1> QED
  BY <1>1, <1>2, <1>4

-----------------------------------------------------------------------------
(* Types.                                                                  *)

(* What the destructor leaves is an object without anything.               *)
LEMMA NoObject ==
    NoPep \in Objects /\ NoTable \in [offset : Nat, size : Nat]
        /\ << >> \in Seq(SectionEntry)
<1>1. NoPep \in Objects
  BY DEF NoPep, Objects, Endians
<1>2. NoTable \in [offset : Nat, size : Nat]
  BY DEF NoTable
<1> QED
  BY <1>1, <1>2

(* The programs begin in the types, whatever the arguments.                *)
LEMMA InitType == Init => TypeOK
<1> SUFFICES ASSUME Init
             PROVE  TypeOK
  OBVIOUS
<1>1. args \in Seq(Argument) /\ args # << >>
  BY FilesAssumption DEF Init, DetectorInit
<1>2. 1 \in 1 .. Len(args)
  BY <1>1
<1>3. NoFile \in AnyFile
  BY DEF AnyFile
<1>4. NoAnswer \in Answers
  BY DEF NoAnswer, Answers, Endians
<1>5. DetectorTypeOK
  BY <1>1, <1>2, <1>3, <1>4 DEF Init, DetectorInit, DetectorTypeOK, Idle, Loading
<1>6. PeTypeOK
  BY NoObject DEF Init, DetectorInit, PeTypeOK, Orders, Reasons, Loading
<1> QED
  BY <1>5, <1>6 DEF TypeOK

(* The destructor leaves an empty object.                                  *)
LEMMA DestructType ==
    ASSUME TypeOK, Destruct, why' \in Reasons, replaced' = replaced
    PROVE  TypeOK'
<1>1. NoFile \in AnyFile
  BY DEF AnyFile
<1>2. DetectorTypeOK'
  BY <1>1 DEF Destruct, TypeOK, DetectorTypeOK, Idle, Loading
<1>3. pep' \in Objects /\ strtab' \in [offset : Nat, size : Nat] /\ secs' \in Seq(SectionEntry)
  BY NoObject DEF Destruct
<1>4. pc' = "next" /\ sort' \in Orders /\ fault' \in BOOLEAN /\ replaced' \in BOOLEAN
  BY DEF Destruct, TypeOK, PeTypeOK
<1>5. PeTypeOK'
  BY <1>3, <1>4 DEF PeTypeOK, Loading
<1> QED
  BY <1>2, <1>5 DEF TypeOK

(* Positions of a file that is loaded.                                     *)
LEMMA PositionsAreNumbers ==
    ASSUME opened \in File, pep.bits \in {32, 64}
    PROVE  /\ NtHeader \in Nat /\ OptionalHeader \in Nat /\ SectionTable \in Nat
           /\ StringTable \in Nat /\ opened.strsize \in Nat
           /\ Sections \in Seq(SectionHeader) /\ Len(Sections) \in Nat
<1>1. NtHeader \in Nat /\ OptionalHeader \in Nat
  BY FieldsOfFile DEF NtHeader, OptionalHeader, SignatureLen, FileHeaderLen
<1>2. OptionalHeaderLen[pep.bits] \in Nat
  BY DEF OptionalHeaderLen
<1>3. StringTable \in Nat /\ opened.strsize \in Nat
  BY FieldsOfFile DEF StringTable, SymbolLen
<1>4. Sections \in Seq(SectionHeader)
  BY FieldsOfFile DEF Sections
<1>5. SectionTable \in Nat
  BY <1>1, <1>2 DEF SectionTable
<1> QED
  BY <1>1, <1>3, <1>4, <1>5

(* A new entry is one: its rank and its size are numbers of the header     *)
(* read, and its place is reckoned from the headers.                       *)
LEMMA NewEntry ==
    ASSUME TypeOK, AddSection
    PROVE  \E e \in SectionEntry, s \in HeaderRead(Len(secs) + 1) :
              secs' = Append(secs, e) /\ e.name /\ e.dwarf
              /\ e.header = SectionTable + SectionHeaderLen * (Len(secs) - 1)
              /\ e.size = s.size /\ NameOk(s)
<1> DEFINE k == Len(secs) + 1
           offset == SectionTable + SectionHeaderLen * (k - 2)
<1>0. PICK s \in HeaderRead(k) :
          /\ NameOk(s)
          /\ secs' = Append(secs,
                 [name |-> TRUE, dwarf |-> TRUE, rank |-> NameRank(s),
                  size |-> s.size, header |-> offset])
  BY DEF AddSection
<1> DEFINE e == [name |-> TRUE, dwarf |-> TRUE, rank |-> NameRank(s),
                 size |-> s.size, header |-> offset]
<1>1. opened \in File /\ pep.bits \in {32, 64} /\ secs \in Seq(SectionEntry) /\ secs # << >>
  BY DEF AddSection, TypeOK, PeTypeOK, Loading
<1>2. Len(secs) \in Nat \ {0} /\ k \in 2 .. Len(Sections) + 1
  BY <1>1, PositionsAreNumbers DEF AddSection
<1>3. s \in SectionHeader
  <2>1. k - 1 \in 1 .. Len(Sections) /\ Sections \in Seq(SectionHeader)
    BY <1>1, <1>2, PositionsAreNumbers
  <2>2. Sections[k - 1] \in SectionHeader
    BY <2>1, ElementOfSeq, Zenon
  <2> QED
    BY <1>0, <2>2, FilesAssumption DEF Section, HeaderRead
<1>4. s.size \in Nat /\ s.rank \in Nat
  BY <1>3 DEF SectionHeader
<1>5. NameRank(s) \in Nat
  BY <1>4 DEF NameRank, MissingRank, EmptyRank
<1>6. offset \in Nat
  BY <1>1, <1>2, PositionsAreNumbers DEF SectionHeaderLen
<1>7. e \in SectionEntry
  BY <1>4, <1>5, <1>6 DEF SectionEntry
<1>8. secs' = Append(secs, e)
  BY <1>0
<1>9. e.name /\ e.dwarf /\ e.header = offset /\ e.size = s.size
  OBVIOUS
<1>10. offset = SectionTable + SectionHeaderLen * (Len(secs) - 1)
  BY <1>1, <1>2, PositionsAreNumbers DEF SectionHeaderLen
<1>11. s \in HeaderRead(Len(secs) + 1) /\ NameOk(s)
  BY <1>0
<1> HIDE DEF e, offset, k
<1> QED
  BY <1>7, <1>8, <1>9, <1>10, <1>11

(* Each step keeps the types, the place of an entry and the rank of its    *)
(* name among them.                                                        *)
LEMMA NextType == TypeOK /\ [Next]_vars => TypeOK'
<1> SUFFICES ASSUME TypeOK, [Next]_vars
             PROVE  TypeOK'
  OBVIOUS
<1> USE DEF TypeOK
<1>1. ASSUME DetectorStep
      PROVE  TypeOK'
  <2>1. DetectorTypeOK' /\ pc \in Idle /\ pc' \in Idle
    <3> USE DEF DetectorTypeOK, Idle
    <3>1. CASE PathTooLong
      BY <3>1 DEF PathTooLong
    <3>2. CASE OpenDsym
      BY <3>2, ArgumentAtHand DEF OpenDsym
    <3>3. CASE OpenPath
      BY <3>3, ArgumentAtHand DEF OpenPath
    <3>4. CASE NothingToOpen
      BY <3>4 DEF NothingToOpen
    <3>5. CASE Detect
      <4>1. answer' \in Answers /\ (pc' = "construct" => answer'.bits \in {32, 64})
        BY <3>5, DetectedIsFile DEF Detect
      <4>2. opened' \in AnyFile
        BY <3>5 DEF Detect, AnyFile
      <4>3. pc' \in Idle /\ pc = "detect"
        BY <3>5 DEF Detect
      <4> QED
        BY <3>5, <4>1, <4>2, <4>3 DEF Detect
    <3>6. CASE DetectFails
      BY <3>6 DEF DetectFails, EmptiesOutpath, AnyFile
    <3>7. CASE Report \/ ReportUniversalFails
      <4>1. errct' \in {errct, errct + 1}
        BY <3>7 DEF Report, ReportUniversalFails
      <4>2. errct \in Nat
        BY CountsAreNumbers
      <4>3. errct' \in Nat
        <5> HIDE DEF DetectorTypeOK
        <5> QED
          BY <4>1, <4>2
      <4> QED
        BY <3>7, <4>3 DEF Report, ReportUniversalFails
    <3> QED
      BY <1>1, <3>1, <3>2, <3>3, <3>4, <3>5, <3>6, <3>7 DEF DetectorStep
  <2>2. PeTypeOK'
    BY <1>1, <2>1 DEF DetectorStep, PeTypeOK, peVars, Idle, Loading
  <2> QED
    BY <2>1, <2>2
<1>2. ASSUME NextFile
      PROVE  TypeOK'
  <2>1. args' = args /\ n' = n + 1 /\ n < Len(args)
    BY <1>2 DEF NextFile, NextArgument
  <2>2. n' \in 1 .. Len(args')
    <3>1. Len(args) \in Nat /\ n \in 1 .. Len(args)
      BY CountsAreNumbers
    <3> HIDE DEF TypeOK
    <3> QED
      BY <2>1, <3>1
  <2>3. NoAnswer \in Answers
    BY DEF NoAnswer, Answers, Endians
  <2>4. DetectorTypeOK'
    BY <1>2, <2>2, <2>3 DEF NextFile, NextArgument, DetectorTypeOK, Idle
  <2>5. PeTypeOK'
    BY <1>2 DEF NextFile, NextArgument, PeTypeOK, Orders, Reasons, Loading
  <2> QED
    BY <2>4, <2>5
<1>3. ASSUME ReplaceFile
      PROVE  TypeOK'
  <2>1. PICK f \in Replacements : args' = [args EXCEPT ![n].file = f]
    BY <1>3 DEF ReplaceFile
  <2>2. args' \in Seq(Argument) /\ Len(args') = Len(args)
    BY <2>1, ReplacedArguments, FilesAssumption
  <2>3. DetectorTypeOK'
    BY <1>3, <2>2 DEF ReplaceFile, DetectorTypeOK
  <2>4. PeTypeOK'
    BY <1>3 DEF ReplaceFile, PeTypeOK, Loading
  <2> QED
    BY <2>3, <2>4
<1>4. ASSUME Construct
      PROVE  TypeOK'
  <2>1. DetectorTypeOK' /\ opened' \in File
    BY <1>4, ArgumentAtHand, DetectedIsFile DEF Construct, DetectorTypeOK, Loading
  <2>2. PICK path \in BOOLEAN :
            pep' = [bits |-> answer.bits,
                    is64bit |-> Answer(args[n].file).bits = 64,
                    filesize |-> answer.size, endian |-> answer.endian,
                    path |-> path]
    BY <1>4 DEF Construct
  <2>3. answer.bits \in {32, 64} /\ answer.size \in Nat /\ answer.endian \in Endians
    BY <1>4 DEF Construct, DetectorTypeOK, Answers
  <2>4. (Answer(args[n].file).bits = 64) \in BOOLEAN
    OBVIOUS
  <2>5. pep' \in Objects /\ pep'.bits \in {32, 64}
    BY <2>2, <2>3, <2>4 DEF Objects
  <2>6. PeTypeOK'
    BY <1>4, <2>1, <2>5 DEF Construct, PeTypeOK, Loading
  <2> QED
    BY <2>1, <2>6
<1>5. ASSUME ConstructFails
      PROVE  TypeOK'
  BY <1>5 DEF ConstructFails, InUse, DetectorTypeOK, PeTypeOK, Idle, Loading, Reasons
<1>6. ASSUME LoadHeaders \/ NoStringTable \/ DisplayCrashes
      PROVE  TypeOK'
  <2>1. UNCHANGED <<InUse, peVars>> /\ pc \in Loading /\ pc' \in {"strings", "table", "crashed"}
    BY <1>6 DEF LoadHeaders, NoStringTable, DisplayCrashes, Loaded, Loading
  <2>2. DetectorTypeOK'
    BY <2>1 DEF InUse, DetectorTypeOK, Loading
  <2>3. PeTypeOK'
    BY <2>1 DEF InUse, peVars, PeTypeOK, Loading
  <2> QED
    BY <2>2, <2>3
<1>7. ASSUME HeadersRefused
      PROVE  TypeOK'
  <2>1. Refusal \in Reasons
    BY DEF Refusal, Reasons
  <2> QED
    BY <1>7, <2>1, DestructType DEF HeadersRefused, GiveUp
<1>8. ASSUME LoadStringTable
      PROVE  TypeOK'
  <2>1. opened \in File /\ pep.bits \in {32, 64}
    BY <1>8 DEF LoadStringTable, PeTypeOK, Loading
  <2>2. strtab' \in [offset : Nat, size : Nat]
    BY <1>8, <2>1, PositionsAreNumbers DEF LoadStringTable
  <2>3. DetectorTypeOK'
    BY <1>8 DEF LoadStringTable, InUse, DetectorTypeOK, Loading
  <2> QED
    BY <1>8, <2>1, <2>2, <2>3 DEF LoadStringTable, PeTypeOK, InUse, Loading
<1>9. ASSUME NotRead
      PROVE  TypeOK'
  BY <1>9, DestructType DEF NotRead, GiveUp, PeTypeOK, Reasons
<1>10. ASSUME AllocateSections
       PROVE  TypeOK'
  <2>1. DetectorTypeOK'
    BY <1>10 DEF AllocateSections, InUse, DetectorTypeOK, Loading
  <2>2. PICK name \in BOOLEAN, dwarf \in BOOLEAN :
            secs' = <<[name |-> name, dwarf |-> dwarf, rank |-> 0,
                       size |-> 0, header |-> 0]>>
    BY <1>10 DEF AllocateSections
  <2>3. [name |-> name, dwarf |-> dwarf, rank |-> 0, size |-> 0, header |-> 0]
            \in SectionEntry
    BY DEF SectionEntry
  <2>4. secs' \in Seq(SectionEntry) /\ secs' # << >>
    BY <2>2, <2>3
  <2> QED
    BY <1>10, <2>1, <2>4 DEF AllocateSections, PeTypeOK, InUse, Loading
<1>11. ASSUME AddSection
       PROVE  TypeOK'
  <2>1. DetectorTypeOK'
    BY <1>11 DEF AddSection, InUse, DetectorTypeOK, Loading
  <2>2. secs' \in Seq(SectionEntry) /\ secs' # << >>
    BY <1>11, NewEntry DEF PeTypeOK
  <2> QED
    BY <1>11, <2>1, <2>2 DEF AddSection, PeTypeOK, InUse, Loading
<1>12. ASSUME AddSectionFails
       PROVE  TypeOK'
  <2>1. DetectorTypeOK'
    BY <1>12 DEF AddSectionFails, InUse, DetectorTypeOK, Loading
  <2>2. PICK name \in BOOLEAN, dwarf \in BOOLEAN :
            secs' = Append(secs,
                [name |-> name, dwarf |-> dwarf, rank |-> 0, size |-> 0, header |-> 0])
    BY <1>12 DEF AddSectionFails
  <2>3. [name |-> name, dwarf |-> dwarf, rank |-> 0, size |-> 0, header |-> 0]
            \in SectionEntry
    BY DEF SectionEntry
  <2>4. secs' \in Seq(SectionEntry)
    BY <2>2, <2>3 DEF PeTypeOK
  <2> QED
    BY <1>12, <2>1, <2>4 DEF AddSectionFails, PeTypeOK, InUse, Loading, Reasons
<1>13. ASSUME SectionsFail \/ Finish
       PROVE  TypeOK'
  BY <1>13, DestructType DEF SectionsFail, Finish, PeTypeOK
<1>14. ASSUME Display
       PROVE  TypeOK'
  <2>1. DetectorTypeOK'
    BY <1>14 DEF Display, Loaded, InUse, DetectorTypeOK, Loading
  <2>2. PICK path \in BOOLEAN : pep' = [pep EXCEPT !.path = path]
    BY <1>14 DEF Display
  <2>3. pep' \in Objects /\ pep'.bits = pep.bits
    BY <2>2 DEF PeTypeOK, Objects
  <2> QED
    BY <1>14, <2>1, <2>3 DEF Display, Loaded, PeTypeOK, InUse, Loading
<1>15. CASE UNCHANGED vars
  <2>1. DetectorTypeOK'
    BY <1>15 DEF vars, detectorVars, DetectorTypeOK
  <2>2. PeTypeOK'
    BY <1>15 DEF vars, detectorVars, peVars, PeTypeOK
  <2> QED
    BY <2>1, <2>2
<1> QED
  BY <1>1, <1>2, <1>3, <1>4, <1>5, <1>6, <1>7, <1>8, <1>9, <1>10, <1>11, <1>12,
     <1>13, <1>14, <1>15 DEF Next

-----------------------------------------------------------------------------
(* The path answered.                                                      *)

(* At first there is none, and no name has a last part longer than itself. *)
LEMMA InitOutpath == Init => OutpathInv
<1> SUFFICES ASSUME Init
             PROVE  OutpathInv
  OBVIOUS
<1>1. DOMAIN args = 1 .. Len(args)
  <2>1. args \in Seq(Argument)
    BY FilesAssumption DEF Init, DetectorInit
  <2> QED
    BY <2>1
<1>2. \A k \in 1 .. Len(args) : args[k].base <= args[k].len
  <2> SUFFICES ASSUME NEW k \in 1 .. Len(args)
               PROVE  args[k].base <= args[k].len
    OBVIOUS
  <2>1. args[k].len \in Nat /\ args[k].base \in 0 .. args[k].len
    BY <1>1, NamesAssumption DEF Init, DetectorInit
  <2> QED
    BY <2>1
<1> QED
  BY <1>2 DEF Init, DetectorInit, OutpathInv

(* A step that leaves the detector's variables as they are, and does not   *)
(* go back to where they are looked at, keeps what is said of them.        *)
LEMMA OutpathKept ==
    ASSUME OutpathInv, pc' \notin {"open", "detect", "report"},
           UNCHANGED <<args, program, outpath, given, n>>
    PROVE  OutpathInv'
BY DEF OutpathInv, Fits, SuffixLen

(* Only the detector writes finalpath, after the test that it fits, and    *)
(* what it leaves there is the path of the file it opened.                 *)
LEMMA NextOutpath == TypeOK /\ OutpathInv /\ [Next]_vars => OutpathInv'
<1> SUFFICES ASSUME TypeOK, OutpathInv, [Next]_vars
             PROVE  OutpathInv'
  OBVIOUS
<1>0. DetectorTypeOK
  BY DEF TypeOK
<1>1. ASSUME DetectorStep
      PROVE  OutpathInv'
  <2>1. CASE PathTooLong
    BY <2>1 DEF PathTooLong, OutpathInv, Fits
  <2>2. CASE OpenDsym
    BY <2>2 DEF OpenDsym, OutpathInv, Fits, Named
  <2>3. CASE OpenPath
    BY <2>3 DEF OpenPath, OutpathInv, Fits, Named
  <2>4. CASE NothingToOpen
    BY <2>4 DEF NothingToOpen, OutpathInv, Fits
  <2>5. CASE Detect
    <3>1. opened \in AnyFile
      BY <1>0 DEF DetectorTypeOK
    <3>2. answer' # NoAnswer /\ answer' = Answer(opened)
      BY <2>5, <3>1, DetectedIsFile DEF Detect
    <3>3. given => opened = Named(outpath, args[n])
      BY <2>5 DEF Detect, OutpathInv
    <3>4. (given' => answer' = Answer(Named(outpath, args[n])'))
      BY <2>5, <3>2, <3>3 DEF Detect, Named
    <3> QED
      BY <2>5, <3>2, <3>4 DEF Detect, OutpathInv, Fits
  <2>6. CASE DetectFails
    BY <2>6 DEF DetectFails, EmptiesOutpath, OutpathInv, Fits
  <2>7. CASE Report \/ ReportUniversalFails
    BY <2>7, OutpathKept DEF Report, ReportUniversalFails
  <2> QED
    BY <1>1, <2>1, <2>2, <2>3, <2>4, <2>5, <2>6, <2>7 DEF DetectorStep
<1>2. ASSUME NextFile
      PROVE  OutpathInv'
  <2>1. program = "readobjpe" => ~ given'
    BY <1>2 DEF NextFile, NextArgument, OutpathInv
  <2> QED
    BY <1>2, <2>1 DEF NextFile, NextArgument, OutpathInv
<1>3. ASSUME ReplaceFile
      PROVE  OutpathInv'
  <2>1. PICK f \in Replacements : args' = [args EXCEPT ![n].file = f]
    BY <1>3 DEF ReplaceFile
  <2>2. /\ Len(args') = Len(args)
        /\ \A k \in 1 .. Len(args) :
              args'[k].len = args[k].len /\ args'[k].base = args[k].base
    BY <1>0, <2>1, ReplacedArguments, FilesAssumption
  <2>3. n \in 1 .. Len(args)
    BY <1>0, CountsAreNumbers
  <2>4. UNCHANGED <<program, outpath, given, n, pc>> /\ pc = "construct"
    BY <1>3 DEF ReplaceFile
  <2>5. outpath' # "" => Fits(args[n])'
    BY <2>2, <2>3, <2>4 DEF OutpathInv, Fits
  <2>6. \A k \in 1 .. Len(args') : args'[k].base <= args'[k].len
    BY <2>2 DEF OutpathInv
  <2> QED
    BY <2>4, <2>5, <2>6 DEF OutpathInv
<1>4. ASSUME Construct \/ ConstructFails
      PROVE  OutpathInv'
  BY <1>4, OutpathKept DEF Construct, ConstructFails, InUse
<1>5. ASSUME \/ LoadHeaders \/ NoStringTable \/ LoadStringTable \/ AllocateSections
             \/ AddSection \/ AddSectionFails \/ Display \/ DisplayCrashes
      PROVE  OutpathInv'
  <2>1. UNCHANGED InUse /\ pc' \in Loading
    BY <1>5 DEF LoadHeaders, NoStringTable, LoadStringTable, AllocateSections,
                AddSection, AddSectionFails, Display, DisplayCrashes, Loading
  <2> QED
    BY <2>1, OutpathKept DEF InUse, Loading
<1>6. ASSUME HeadersRefused \/ NotRead \/ SectionsFail \/ Finish
      PROVE  OutpathInv'
  <2>1. Destruct
    BY <1>6 DEF HeadersRefused, NotRead, GiveUp, SectionsFail, Finish
  <2> QED
    BY <2>1, OutpathKept DEF Destruct
<1>7. CASE UNCHANGED vars
  <2>1. UNCHANGED <<args, program, outpath, given, n, pc, opened, answer>>
    BY <1>7 DEF vars, detectorVars
  <2> QED
    BY <2>1 DEF OutpathInv, Fits, Named
<1> QED
  BY <1>1, <1>2, <1>3, <1>4, <1>5, <1>6, <1>7 DEF Next

(* finalpath fits, and is the path of the file the answer is about.        *)
LEMMA OutpathFromInv ==
    ASSUME TypeOK, OutpathInv
    PROVE  OutpathIsTheOneRead
<1>1. args[n].len \in Nat /\ args[n].base \in Nat /\ n \in 1 .. Len(args)
  BY ArgumentAtHand, CountsAreNumbers DEF TypeOK
<1>2. args[n].base <= args[n].len
  BY <1>1 DEF OutpathInv
<1>3. outpath \in {"", "path", "dsym"}
  BY DEF TypeOK, DetectorTypeOK
<1>4. OutpathLen \in Nat \ {0}
  BY NamesAssumption
<1>5. outpath # "" => 2 * args[n].len + SuffixLen + 2 < OutpathLen
  BY DEF OutpathInv, Fits
<1>6. WrittenLen(outpath, args[n]) + 1 <= OutpathLen
  <2>1. CASE outpath = ""
    <3>1. WrittenLen(outpath, args[n]) = 0
      BY <2>1, Zenon DEF WrittenLen
    <3> QED
      BY <1>4, <3>1
  <2>2. CASE outpath = "path"
    <3>1. WrittenLen(outpath, args[n]) = args[n].len
      BY <2>2 DEF WrittenLen
    <3> QED
      BY <1>1, <1>4, <1>5, <2>2, <3>1 DEF SuffixLen
  <2>3. CASE outpath = "dsym"
    <3>1. WrittenLen(outpath, args[n]) = args[n].len + SuffixLen - 1 + args[n].base
      BY <2>3 DEF WrittenLen
    <3> QED
      BY <1>1, <1>2, <1>4, <1>5, <2>3, <3>1 DEF SuffixLen
  <2> QED
    BY <1>3, <2>1, <2>2, <2>3
<1> QED
  BY <1>6 DEF OutpathInv, OutpathIsTheOneRead

-----------------------------------------------------------------------------
(* The two readers of the headers.                                         *)

(* The tests of dwarf_load_pe_sections pass what is_pe_object has passed.  *)
LEMMA PeIsNotRefused ==
    ASSUME opened \in File, IsPe(opened),
           pep.filesize = opened.size, pep.endian = Endian(opened)
    PROVE  Refusal = ""
<1>1. opened.size >= 88 /\ opened.size >= opened.nt_address + 24
  BY FieldsOfFile DEF IsPe, DosLen, SignatureLen, FileHeaderLen
<1>2. ~ (FileHeaderLen + DosLen >= pep.filesize) /\ ~ (pep.filesize < opened.nt_address)
  BY <1>1, FieldsOfFile DEF FileHeaderLen, DosLen
<1>3. opened.head \in {"MZ", "ZM"} /\ opened.nt_signature
  BY DEF IsPe
<1> QED
  BY <1>2, <1>3 DEF Refusal

(* No file has been given up at first.                                     *)
LEMMA InitAgreement == Init => AgreementInv
BY DEF Init, DetectorInit, AgreementInv, Refusals, Loading

(* Construct takes the answer over when it opens the same file again; the  *)
(* only step that sets a reason of the tests is HeadersRefused.            *)
LEMMA NextAgreement == TypeOK /\ OutpathInv /\ AgreementInv /\ [Next]_vars => AgreementInv'
<1> SUFFICES ASSUME TypeOK, OutpathInv, AgreementInv, [Next]_vars
             PROVE  AgreementInv'
  OBVIOUS
<1>0. DetectorTypeOK
  BY DEF TypeOK
<1>1. ASSUME DetectorStep, ~ Detect
      PROVE  AgreementInv'
  <2>1. UNCHANGED <<replaced, why>>
    BY <1>1 DEF DetectorStep, peVars
  <2>2. pc' \notin {"construct"} \cup Loading
    BY <1>1 DEF DetectorStep, PathTooLong, OpenDsym, OpenPath, NothingToOpen,
                DetectFails, Report, ReportUniversalFails, Loading
  <2> QED
    BY <2>1, <2>2 DEF AgreementInv
<1>2. ASSUME DetectorStep, Detect
      PROVE  AgreementInv'
  <2>1. UNCHANGED <<replaced, why, args, n>>
    BY <1>2 DEF DetectorStep, peVars, Detect
  <2>2. pc' \notin Loading
    BY <1>2 DEF Detect, Loading
  <2>3. ASSUME pc' = "construct"
        PROVE  IsPe(args[n].file) /\ answer' = Answer(args[n].file)
    <3>1. program = "readobjpe" /\ Kind(opened) = "pe" /\ Detected(opened)
      BY <1>0, <1>2, <2>3 DEF Detect, DetectorTypeOK
    <3>2. opened = args[n].file
      BY <1>2, <3>1 DEF Detect, OutpathInv
    <3>3. opened \in AnyFile
      BY <1>0 DEF DetectorTypeOK
    <3> QED
      BY <1>2, <3>1, <3>2, <3>3, DetectedIsFile DEF Detect
  <2> QED
    BY <2>1, <2>2, <2>3 DEF AgreementInv
<1>3. ASSUME NextFile
      PROVE  AgreementInv'
  BY <1>3 DEF NextFile, NextArgument, AgreementInv, Refusals, Loading
<1>4. ASSUME ReplaceFile
      PROVE  AgreementInv'
  BY <1>4 DEF ReplaceFile, AgreementInv
<1>5. ASSUME Construct
      PROVE  AgreementInv'
  <2>1. UNCHANGED <<replaced, why>> /\ pc = "construct" /\ pc' = "headers" /\ opened' = args[n].file
    BY <1>5 DEF Construct
  <2>2. /\ pep'.filesize = answer.size /\ pep'.endian = answer.endian
        /\ pep'.bits = answer.bits
        /\ pep'.is64bit = (Answer(args[n].file).bits = 64)
    BY <1>5 DEF Construct
  <2>3. ASSUME ~ replaced
        PROVE  /\ IsPe(opened') /\ pep'.filesize = opened'.size
               /\ pep'.endian = Endian(opened') /\ pep'.is64bit = (pep'.bits = 64)
    <3>1. IsPe(opened') /\ answer = Answer(opened')
      BY <2>1, <2>3 DEF AgreementInv
    <3>2. answer.size = opened'.size /\ answer.endian = Endian(opened')
      BY <3>1 DEF Answer
    <3>3. Answer(args[n].file).bits = answer.bits
      BY <2>1, <3>1
    <3> QED
      BY <2>2, <3>1, <3>2, <3>3
  <2> QED
    BY <2>1, <2>3 DEF AgreementInv
<1>6. ASSUME ConstructFails
      PROVE  AgreementInv'
  BY <1>6 DEF ConstructFails, AgreementInv, Loading, Refusals
<1>7. ASSUME \/ LoadHeaders \/ NoStringTable \/ LoadStringTable \/ AllocateSections
             \/ AddSection \/ AddSectionFails \/ Display \/ DisplayCrashes
      PROVE  AgreementInv'
  <2>1. UNCHANGED <<replaced, opened>> /\ pc \in Loading /\ pc' # "construct"
    BY <1>7 DEF LoadHeaders, NoStringTable, LoadStringTable, AllocateSections, AddSection,
                AddSectionFails, Display, DisplayCrashes, Loaded, InUse, peVars, Loading
  <2>2. why' \in {why, "name"}
    BY <1>7 DEF LoadHeaders, NoStringTable, LoadStringTable, AllocateSections,
                AddSection, AddSectionFails, Display, DisplayCrashes, peVars
  <2>3. pep \in Objects
    BY DEF TypeOK, PeTypeOK
  <2>4. pep'.filesize = pep.filesize /\ pep'.endian = pep.endian
        /\ pep'.bits = pep.bits /\ pep'.is64bit = pep.is64bit
    <3>1. CASE Display
      BY <2>3, <3>1 DEF Display, Objects
    <3>2. CASE ~ Display
      BY <1>7, <3>2 DEF LoadHeaders, NoStringTable, LoadStringTable, AllocateSections,
                        AddSection, AddSectionFails, DisplayCrashes, peVars
    <3> QED
      BY <3>1, <3>2
  <2> QED
    BY <2>1, <2>2, <2>4 DEF AgreementInv, Refusals
<1>8. ASSUME HeadersRefused
      PROVE  AgreementInv'
  <2>1. pc = "headers" /\ Refusal # "" /\ UNCHANGED replaced /\ pc' = "next"
    BY <1>8 DEF HeadersRefused, GiveUp, Destruct
  <2>2. opened \in File
    BY <2>1 DEF TypeOK, PeTypeOK, Loading
  <2>3. replaced
    BY <2>1, <2>2, PeIsNotRefused DEF AgreementInv, Loading
  <2> QED
    BY <2>1, <2>3 DEF AgreementInv
<1>9. ASSUME NotRead \/ SectionsFail \/ Finish
      PROVE  AgreementInv'
  <2>1. UNCHANGED replaced /\ pc' = "next" /\ why' \in {why, "read"}
    BY <1>9 DEF NotRead, GiveUp, SectionsFail, Finish, Destruct
  <2> QED
    BY <2>1 DEF AgreementInv, Refusals, Loading
<1>10. CASE UNCHANGED vars
  BY <1>10 DEF vars, detectorVars, peVars, AgreementInv
<1> QED
  BY <1>1, <1>2, <1>3, <1>4, <1>5, <1>6, <1>7, <1>8, <1>9, <1>10 DEF Next

-----------------------------------------------------------------------------
(* What is allocated.                                                      *)

(* Nothing, at first.                                                      *)
LEMMA InitOwnership == Init => OwnershipInv
BY DEF Init, DetectorInit, OwnershipInv, Idle, Loading

(* An object has a class, so it is not the missing one.                    *)
LEMMA ObjectWhileLoading ==
    ASSUME TypeOK, pc \in Loading
    PROVE  pep # NoPep
BY DEF TypeOK, PeTypeOK, NoPep

(* The destructor frees what there is.                                     *)
LEMMA DestructFrees ==
    ASSUME OwnershipInv, pc \in Loading, Destruct
    PROVE  OwnershipInv'
<1>1. live = Held /\ ~ fault
  BY DEF OwnershipInv
<1>2. live' = {} /\ ~ fault'
  BY <1>1 DEF Destruct
<1> QED
  BY <1>2 DEF Destruct, OwnershipInv, Idle, Loading

(* The names of the sections once an entry is filled in.                   *)
LEMMA NamesWithEntry ==
    ASSUME secs \in Seq(SectionEntry), NEW e \in SectionEntry, secs' = Append(secs, e)
    PROVE  SectionNames' =
               SectionNames \cup (IF e.name THEN {<<"name", Len(secs) + 1>>} ELSE {})
                            \cup (IF e.dwarf THEN {<<"dwarf", Len(secs) + 1>>} ELSE {})
<1> DEFINE m == Len(secs) + 1
<1>1. /\ DOMAIN secs = 1 .. Len(secs) /\ Len(secs) \in Nat
      /\ DOMAIN secs' = DOMAIN secs \cup {m} /\ m \notin DOMAIN secs
      /\ secs'[m] = e /\ \A k \in DOMAIN secs : secs'[k] = secs[k]
  OBVIOUS
<1> HIDE DEF m
<1>2. {<<"name", k>> : k \in {j \in DOMAIN secs' : secs'[j].name}} =
          {<<"name", k>> : k \in {j \in DOMAIN secs : secs[j].name}}
              \cup (IF e.name THEN {<<"name", m>>} ELSE {})
  <2>1. {j \in DOMAIN secs' : secs'[j].name} =
            {j \in DOMAIN secs : secs[j].name} \cup (IF e.name THEN {m} ELSE {})
    BY <1>1
  <2> QED
    BY <2>1
<1>3. {<<"dwarf", k>> : k \in {j \in DOMAIN secs' : secs'[j].dwarf}} =
          {<<"dwarf", k>> : k \in {j \in DOMAIN secs : secs[j].dwarf}}
              \cup (IF e.dwarf THEN {<<"dwarf", m>>} ELSE {})
  <2>1. {j \in DOMAIN secs' : secs'[j].dwarf} =
            {j \in DOMAIN secs : secs[j].dwarf} \cup (IF e.dwarf THEN {m} ELSE {})
    BY <1>1
  <2> QED
    BY <2>1
<1> QED
  BY <1>2, <1>3 DEF SectionNames, m

(* Each allocation adds to live what the destructor will find, and the     *)
(* destructor finds no more.                                               *)
LEMMA NextOwnership == TypeOK /\ OwnershipInv /\ [Next]_vars => OwnershipInv'
<1> SUFFICES ASSUME TypeOK, OwnershipInv, [Next]_vars
             PROVE  OwnershipInv'
  OBVIOUS
<1>0. TypeOK'
  BY NextType
<1>1. ASSUME DetectorStep
      PROVE  OwnershipInv'
  <2>1. pc \in Idle /\ pc' \in Idle /\ UNCHANGED peVars
    BY <1>1 DEF DetectorStep, PathTooLong, OpenDsym, OpenPath, NothingToOpen, Detect,
                DetectFails, Report, ReportUniversalFails, Idle
  <2> QED
    BY <2>1 DEF OwnershipInv, peVars, Idle, Loading
<1>2. ASSUME NextFile \/ ReplaceFile \/ ConstructFails
      PROVE  OwnershipInv'
  <2>1. pc \in Idle /\ pc' \in Idle /\ UNCHANGED <<pep, strtab, secs, live, fault>>
    BY <1>2 DEF NextFile, NextArgument, ReplaceFile, ConstructFails, Idle
  <2> QED
    BY <2>1 DEF OwnershipInv, Idle, Loading
<1>3. ASSUME Construct
      PROVE  OwnershipInv'
  <2>1. strtab' = NoTable /\ secs' = << >> /\ ~ fault' /\ pc' = "headers"
    BY <1>3 DEF Construct, OwnershipInv, Idle
  <2>2. pep' # NoPep
    BY <1>0, <2>1, ObjectWhileLoading DEF TypeOK, PeTypeOK, NoPep, Loading
  <2>3. live' = {Block("fd"), Block("pep")}
                    \cup (IF pep'.path THEN {Block("path")} ELSE {})
    BY <1>3 DEF Construct
  <2>4. live' = Held'
    BY <2>1, <2>2, <2>3 DEF Held
  <2> QED
    BY <2>1, <2>4 DEF OwnershipInv, Idle, Loading
<1>4. ASSUME LoadHeaders \/ NoStringTable \/ DisplayCrashes
      PROVE  OwnershipInv'
  <2>1. UNCHANGED <<pep, strtab, secs, live, fault>> /\ pc \in Loading /\ pc' \in Loading
        /\ (pc' \in {"headers", "strings"} => pc = "headers")
        /\ (pc' \in {"headers", "strings", "table"} => pc \in {"headers", "strings"})
    BY <1>4 DEF LoadHeaders, NoStringTable, DisplayCrashes, Loaded, peVars, Loading
  <2>2. Held' = Held
    BY <2>1 DEF Held, SectionNames
  <2> QED
    BY <2>1, <2>2 DEF OwnershipInv, Idle, Loading
<1>5. ASSUME LoadStringTable
      PROVE  OwnershipInv'
  <2>1. pc = "strings" /\ pc' = "table" /\ UNCHANGED <<pep, secs, fault>>
        /\ live' = live \cup {Block("strings")} /\ strtab' # NoTable
    <3>1. opened \in File /\ opened.symbols # 0 /\ strtab'.offset = StringTable
      BY <1>5 DEF LoadStringTable, TypeOK, PeTypeOK, Loading
    <3>2. StringTable # 0
      BY <3>1, FieldsOfFile DEF StringTable, SymbolLen
    <3> QED
      BY <1>5, <3>1, <3>2 DEF LoadStringTable, NoTable
  <2>2. pep # NoPep /\ secs = << >> /\ strtab = NoTable /\ live = Held /\ ~ fault
    BY <2>1, ObjectWhileLoading DEF OwnershipInv, Loading
  <2>3. Held' = Held \cup {Block("strings")}
    BY <2>1, <2>2 DEF Held
  <2> QED
    BY <2>1, <2>2, <2>3 DEF OwnershipInv, Idle, Loading
<1>6. ASSUME AllocateSections
      PROVE  OwnershipInv'
  <2>1. PICK name \in BOOLEAN, dwarf \in BOOLEAN :
            /\ secs' = <<[name |-> name, dwarf |-> dwarf, rank |-> 0,
                          size |-> 0, header |-> 0]>>
            /\ live' = live \cup {Block("secs")}
                       \cup (IF name THEN {<<"name", 1>>} ELSE {})
                       \cup (IF dwarf THEN {<<"dwarf", 1>>} ELSE {})
    BY <1>6 DEF AllocateSections
  <2> DEFINE e == [name |-> name, dwarf |-> dwarf, rank |-> 0, size |-> 0, header |-> 0]
  <2>2. pc = "table" /\ pc' = "sections" /\ UNCHANGED <<pep, strtab, fault>>
    BY <1>6 DEF AllocateSections
  <2>3. pep # NoPep /\ secs = << >> /\ live = Held /\ ~ fault
    BY <2>2, ObjectWhileLoading DEF OwnershipInv, Loading
  <2>4. e \in SectionEntry /\ e.name = name /\ e.dwarf = dwarf
    BY DEF SectionEntry
  <2>5. secs' = Append(secs, e) /\ Len(secs) = 0 /\ secs' # << >>
    BY <2>1, <2>3
  <2>6. secs \in Seq(SectionEntry)
    BY DEF TypeOK, PeTypeOK
  <2> HIDE DEF e
  <2>7. SectionNames' = SectionNames \cup (IF name THEN {<<"name", 1>>} ELSE {})
                                     \cup (IF dwarf THEN {<<"dwarf", 1>>} ELSE {})
    BY <2>4, <2>5, <2>6, NamesWithEntry
  <2>8. SectionNames = {}
    BY <2>3 DEF SectionNames
  <2>9. Held' = live'
    BY <2>1, <2>2, <2>3, <2>5, <2>7, <2>8 DEF Held
  <2> QED
    BY <2>2, <2>3, <2>9 DEF OwnershipInv, Idle, Loading
<1>7. ASSUME AddSection \/ AddSectionFails
      PROVE  OwnershipInv'
  <2>1. pc = "sections" /\ pc' \in {"sections", "failed"} /\ UNCHANGED <<pep, strtab, fault>>
    BY <1>7 DEF AddSection, AddSectionFails
  <2>2. pep # NoPep /\ secs # << >> /\ secs \in Seq(SectionEntry) /\ live = Held /\ ~ fault
    BY <2>1, ObjectWhileLoading DEF OwnershipInv, TypeOK, PeTypeOK, Loading
  <2>3. PICK e \in SectionEntry :
            /\ secs' = Append(secs, e)
            /\ live' = live \cup (IF e.name THEN {<<"name", Len(secs) + 1>>} ELSE {})
                            \cup (IF e.dwarf THEN {<<"dwarf", Len(secs) + 1>>} ELSE {})
    <3>1. CASE AddSection
      <4>1. PICK e \in SectionEntry : secs' = Append(secs, e) /\ e.name /\ e.dwarf
        BY <3>1, NewEntry
      <4>2. live' = live \cup {<<"name", Len(secs) + 1>>, <<"dwarf", Len(secs) + 1>>}
        BY <3>1 DEF AddSection
      <4> QED
        BY <4>1, <4>2
    <3>2. CASE AddSectionFails
      <4>1. PICK name \in BOOLEAN, dwarf \in BOOLEAN :
                /\ secs' = Append(secs, [name |-> name, dwarf |-> dwarf, rank |-> 0,
                                         size |-> 0, header |-> 0])
                /\ live' = live
                       \cup (IF name THEN {<<"name", Len(secs) + 1>>} ELSE {})
                       \cup (IF dwarf THEN {<<"dwarf", Len(secs) + 1>>} ELSE {})
        BY <3>2 DEF AddSectionFails
      <4>2. [name |-> name, dwarf |-> dwarf, rank |-> 0, size |-> 0, header |-> 0]
                \in SectionEntry
        BY DEF SectionEntry
      <4> QED
        BY <4>1, <4>2
    <3> QED
      BY <1>7, <3>1, <3>2
  <2>4. SectionNames' =
            SectionNames \cup (IF e.name THEN {<<"name", Len(secs) + 1>>} ELSE {})
                         \cup (IF e.dwarf THEN {<<"dwarf", Len(secs) + 1>>} ELSE {})
    BY <2>2, <2>3, NamesWithEntry
  <2>5. secs' # << >>
    BY <2>2, <2>3
  <2>6. Held' = live'
    BY <2>1, <2>2, <2>3, <2>4, <2>5 DEF Held
  <2> QED
    BY <2>1, <2>2, <2>6 DEF OwnershipInv, Idle, Loading
<1>8. ASSUME Display
      PROVE  OwnershipInv'
  <2>1. PICK path \in IF pep.path THEN {TRUE} ELSE BOOLEAN :
            /\ pep' = [pep EXCEPT !.path = path]
            /\ live' = live \cup (IF path THEN {Block("path")} ELSE {})
    BY <1>8 DEF Display
  <2>2. pc = "sections" /\ pc' = "displayed" /\ UNCHANGED <<strtab, secs, fault>>
    BY <1>8 DEF Display, Loaded
  <2>3. pep # NoPep /\ live = Held /\ ~ fault /\ pep \in Objects
    BY <2>2, ObjectWhileLoading DEF OwnershipInv, TypeOK, PeTypeOK, Loading
  <2>4. pep' # NoPep
    BY <1>0, <2>2 DEF TypeOK, PeTypeOK, NoPep, Loading
  <2>5. pep'.path = path /\ (pep.path => path)
    BY <2>1, <2>3 DEF Objects
  <2>6. SectionNames' = SectionNames
    BY <2>2 DEF SectionNames
  <2>7. Held' = live'
    BY <2>1, <2>2, <2>3, <2>4, <2>5, <2>6 DEF Held
  <2> QED
    BY <2>2, <2>3, <2>7 DEF OwnershipInv, Idle, Loading
<1>9. ASSUME HeadersRefused \/ NotRead \/ SectionsFail \/ Finish
      PROVE  OwnershipInv'
  <2>1. Destruct /\ pc \in Loading
    BY <1>9 DEF HeadersRefused, NotRead, GiveUp, SectionsFail, Finish, Loaded, Loading
  <2> QED
    BY <2>1, DestructFrees
<1>10. CASE UNCHANGED vars
  BY <1>10 DEF vars, detectorVars, peVars, OwnershipInv, Held, SectionNames
<1> QED
  BY <1>1, <1>2, <1>3, <1>4, <1>5, <1>6, <1>7, <1>8, <1>9, <1>10 DEF Next

-----------------------------------------------------------------------------
(* The table of the file.                                                  *)

(* Where nothing of the file is kept, nothing is said of it.               *)
LEMMA NothingInTheTable ==
    ASSUME secs = << >>, strtab = NoTable
    PROVE  SectionsAreTheTable
BY DEF SectionsAreTheTable

(* No section is filled in at first.                                       *)
LEMMA InitTable == Init => TableInv
<1> SUFFICES ASSUME Init
             PROVE  TableInv
  OBVIOUS
<1>1. SectionsAreTheTable
  BY NothingInTheTable DEF Init
<1> QED
  BY <1>1 DEF Init, DetectorInit, TableInv

(* An entry is filled in from its own header, after the tests that the     *)
(* header and the name are in the file; the entries before it stay.        *)
LEMMA NextTable == TypeOK /\ OwnershipInv /\ TableInv /\ [Next]_vars => TableInv'
<1> SUFFICES ASSUME TypeOK, OwnershipInv, TableInv, [Next]_vars
             PROVE  TableInv'
  OBVIOUS
<1>0. OwnershipInv'
  BY NextOwnership
<1>1. ASSUME DetectorStep \/ NextFile \/ ReplaceFile \/ Construct \/ ConstructFails
      PROVE  TableInv'
  <2>1. pc \in Idle /\ pc' \in Idle \cup {"headers"} /\ UNCHANGED <<secs, strtab, order>>
    BY <1>1 DEF DetectorStep, PathTooLong, OpenDsym, OpenPath, NothingToOpen, Detect,
                DetectFails, Report, ReportUniversalFails, NextFile, NextArgument,
                ReplaceFile, Construct, ConstructFails, peVars, Idle
  <2>2. secs' = << >> /\ strtab' = NoTable /\ order' = << >>
    BY <2>1 DEF OwnershipInv, TableInv, Idle
  <2>3. SectionsAreTheTable'
    BY <2>2 DEF SectionsAreTheTable
  <2> QED
    BY <2>1, <2>2, <2>3 DEF TableInv, Idle
<1>2. ASSUME LoadHeaders \/ NoStringTable \/ DisplayCrashes
      PROVE  TableInv'
  <2>1. UNCHANGED <<opened, pep, strtab, secs, order>> /\ pc # "displayed"
        /\ pc' \in {"strings", "table", "crashed"}
    BY <1>2 DEF LoadHeaders, NoStringTable, DisplayCrashes, Loaded, InUse, peVars
  <2>2. SectionsAreTheTable'
    BY <2>1 DEF TableInv, SectionsAreTheTable, InBothSizes, Section, Sections,
                OptionalHeader, NtHeader
  <2> QED
    BY <2>1, <2>2 DEF TableInv
<1>3. ASSUME LoadStringTable
      PROVE  TableInv'
  <2>1. /\ pc = "strings" /\ pc' = "table" /\ secs' = secs /\ pep' = pep /\ order' = order
        /\ strtab' = [offset |-> StringTable, size |-> opened.strsize]
        /\ InBothSizes(StringTable, opened.strsize) /\ opened' = opened
    BY <1>3 DEF LoadStringTable, Readable, InBothSizes, InUse
  <2>2. secs' = << >> /\ order' = << >>
    BY <2>1 DEF OwnershipInv, TableInv
  <2>3. SectionsAreTheTable'
    BY <2>1, <2>2 DEF SectionsAreTheTable, InBothSizes
  <2> QED
    BY <2>1, <2>2, <2>3 DEF TableInv
<1>4. ASSUME AllocateSections
      PROVE  TableInv'
  <2>1. /\ pc = "table" /\ pc' = "sections" /\ UNCHANGED <<opened, strtab, pep, order>>
        /\ \E e : secs' = <<e>>
    BY <1>4 DEF AllocateSections, InUse
  <2>2. Len(secs') = 1
    BY <2>1
  <2>3. opened \in File /\ pep.bits \in {32, 64}
    BY <2>1 DEF TypeOK, PeTypeOK, Loading
  <2>4. Len(Sections) \in Nat /\ Sections' = Sections
    BY <2>1, <2>3, PositionsAreNumbers DEF Sections
  <2>5. SectionsAreTheTable'
    BY <2>1, <2>2 DEF TableInv, SectionsAreTheTable, InBothSizes
  <2> QED
    BY <2>1, <2>2, <2>4, <2>5 DEF TableInv
<1>5. ASSUME AddSection \/ AddSectionFails
      PROVE  TableInv'
  <2> DEFINE m == Len(secs) + 1
  <2>1. /\ pc = "sections" /\ pc' \in {"sections", "failed"}
        /\ UNCHANGED <<opened, strtab, pep, order>> /\ m <= Len(Sections) + 1
    BY <1>5 DEF AddSection, AddSectionFails, InUse
  <2>2. opened \in File /\ pep.bits \in {32, 64} /\ secs \in Seq(SectionEntry) /\ secs # << >>
    BY <2>1 DEF TypeOK, PeTypeOK, Loading
  <2>3. m \in Nat /\ m >= 2
    BY <2>2
  <2>4. UNCHANGED <<OptionalHeader, SectionTable, Sections>>
    BY <2>1 DEF OptionalHeader, NtHeader, SectionTable, Sections
  <2>5. PICK e \in SectionEntry :
            /\ secs' = Append(secs, e)
            /\ e.name /\ e.dwarf =>
                  /\ InBothSizes(e.header, SectionHeaderLen)
                  /\ pep.bits = opened.bits =>
                         /\ e.header = SectionTable + SectionHeaderLen * (m - 2)
                         /\ e.size = Section(m).size
                         /\ Section(m).long => Section(m).at \in 0 .. strtab.size
    <3>1. CASE AddSection
      <4>1. PICK e \in SectionEntry, s \in HeaderRead(m) :
                secs' = Append(secs, e) /\ e.name /\ e.dwarf
                /\ e.header = SectionTable + SectionHeaderLen * (Len(secs) - 1)
                /\ e.size = s.size /\ NameOk(s)
        BY <3>1, NewEntry
      <4>2. e.header = SectionTable + SectionHeaderLen * (m - 2)
        BY <2>2, <4>1 DEF SectionHeaderLen
      <4>3. InBothSizes(e.header, SectionHeaderLen)
        BY <3>1, <4>2 DEF AddSection, Readable, InBothSizes
      <4>4. ASSUME pep.bits = opened.bits
            PROVE  s = Section(m) /\ (Section(m).long => Section(m).at \in 0 .. strtab.size)
        <5>1. s = Section(m)
          BY <4>1, <4>4 DEF HeaderRead
        <5>2. m - 1 \in 1 .. Len(Sections) /\ Sections \in Seq(SectionHeader)
          BY <2>1, <2>2, <2>3, PositionsAreNumbers
        <5>3. Sections[m - 1] \in SectionHeader
          BY <5>2, ElementOfSeq, Zenon
        <5>4. Section(m).at \in Int /\ strtab.size \in Nat
          BY <5>3 DEF Section, SectionHeader, TypeOK, PeTypeOK
        <5> QED
          BY <4>1, <5>1, <5>4 DEF NameOk
      <4> HIDE DEF m
      <4> QED
        BY <4>1, <4>2, <4>3, <4>4
    <3>2. CASE AddSectionFails
      <4>1. PICK name \in BOOLEAN, dwarf \in BOOLEAN :
                /\ dwarf => ~ name
                /\ secs' = Append(secs, [name |-> name, dwarf |-> dwarf, rank |-> 0,
                                         size |-> 0, header |-> 0])
        BY <3>2 DEF AddSectionFails
      <4>2. [name |-> name, dwarf |-> dwarf, rank |-> 0, size |-> 0, header |-> 0]
                \in SectionEntry
        BY DEF SectionEntry
      <4> QED
        BY <4>1, <4>2
    <3> QED
      BY <1>5, <3>1, <3>2
  <2>6. /\ Len(secs') = m /\ secs'[m] = e
        /\ \A k \in 1 .. Len(secs) : secs'[k] = secs[k]
    BY <2>2, <2>5
  <2>7. SectionTable = OptionalHeader + OptionalHeaderLen[pep.bits]
    BY DEF SectionTable
  <2> HIDE DEF m
  <2>8. ASSUME NEW k \in 2 .. Len(secs'), secs'[k].name, secs'[k].dwarf
        PROVE  /\ InBothSizes(secs'[k].header, SectionHeaderLen)
               /\ pep.bits = opened.bits =>
                      /\ secs'[k].header = OptionalHeader + OptionalHeaderLen[opened.bits]
                                          + SectionHeaderLen * (k - 2)
                      /\ secs'[k].size = Section(k).size
                      /\ Section(k).long => Section(k).at \in 0 .. strtab.size
    <3>1. CASE k = m
      BY <2>5, <2>6, <2>7, <2>8, <3>1
    <3>2. CASE k # m
      <4>1. k \in 2 .. Len(secs)
        BY <2>2, <2>3, <2>6, <3>2 DEF m
      <4>2. secs'[k] = secs[k]
        BY <2>6, <4>1
      <4> QED
        BY <2>8, <4>1, <4>2 DEF TableInv, SectionsAreTheTable
    <3> QED
      BY <3>1, <3>2
  <2>9. SectionsAreTheTable'
    BY <2>1, <2>4, <2>8 DEF TableInv, SectionsAreTheTable, InBothSizes, Section
  <2> QED
    BY <2>1, <2>4, <2>6, <2>9 DEF TableInv
<1>6. ASSUME Display
      PROVE  TableInv'
  <2>1. /\ pc' = "displayed" /\ UNCHANGED <<opened, strtab, secs, sort>>
        /\ order' = Displayed /\ Len(secs) = Len(Sections) + 1
    BY <1>6 DEF Display, Loaded, InUse
  <2>2. pep'.bits = pep.bits /\ pep'.filesize = pep.filesize
    <3>1. pep \in Objects
      BY DEF TypeOK, PeTypeOK
    <3> QED
      BY <1>6, <3>1 DEF Display, Objects
  <2>3. SectionsAreTheTable'
    BY <2>1, <2>2 DEF TableInv, SectionsAreTheTable, InBothSizes, Section, Sections,
                     OptionalHeader, NtHeader
  <2>4. Displayed' = Displayed /\ Sections' = Sections
    BY <2>1 DEF Displayed, Place, Before, Ahead, Sections
  <2> QED
    BY <2>1, <2>3, <2>4 DEF TableInv
<1>7. ASSUME HeadersRefused \/ NotRead \/ SectionsFail \/ Finish
      PROVE  TableInv'
  <2>1. secs' = << >> /\ strtab' = NoTable /\ order' = << >> /\ pc' = "next"
    BY <1>7 DEF HeadersRefused, NotRead, GiveUp, SectionsFail, Finish, Destruct
  <2>2. SectionsAreTheTable'
    BY <2>1 DEF SectionsAreTheTable
  <2> QED
    BY <2>1, <2>2 DEF TableInv
<1>8. CASE UNCHANGED vars
  <2>1. UNCHANGED <<pc, opened, pep, strtab, secs, order, sort>>
    BY <1>8 DEF vars, detectorVars, peVars
  <2>2. SectionsAreTheTable'
    BY <2>1 DEF TableInv, SectionsAreTheTable, InBothSizes, Section, Sections,
                OptionalHeader, NtHeader
  <2>3. Displayed' = Displayed /\ Sections' = Sections
    BY <2>1 DEF Displayed, Place, Before, Ahead, Sections
  <2> QED
    BY <2>1, <2>2, <2>3 DEF TableInv
<1> QED
  BY <1>1, <1>2, <1>3, <1>4, <1>5, <1>6, <1>7, <1>8 DEF Next

-----------------------------------------------------------------------------
(* The theorems.                                                           *)

(* Every state of the two programs has the types of its variables, a path  *)
(* that is that of the file detected, an object that agrees with the       *)
(* answer, a destructor that frees what is allocated, and sections that    *)
(* are the table of the file.                                              *)
THEOREM Invariant == Spec => []Inv
<1>1. Init => Inv
  BY InitType, InitOutpath, InitAgreement, InitOwnership, InitTable DEF Inv
<1>2. Inv /\ [Next]_vars => Inv'
  BY NextType, NextOutpath, NextAgreement, NextOwnership, NextTable DEF Inv
<1> QED
  BY <1>1, <1>2, PTL DEF Spec

(* dwarf_object_detector_path answers with the path of the file it looked  *)
(* at, for any names and any PATHSIZE, and never writes past the end of    *)
(* finalpath: the last part of a name is no longer than the name.          *)
THEOREM OutpathCorrect == Spec => []OutpathIsTheOneRead
<1>1. Inv => OutpathIsTheOneRead
  BY OutpathFromInv DEF Inv
<1> QED
  BY <1>1, Invariant, PTL

(* What is_pe_object accepts, dwarf_load_pe_sections never refuses for its *)
(* size, its kind or its byte order, as long as the name stays the file's. *)
THEOREM ReadersAgree == Spec => []AcceptedIsLoadable
<1>1. Inv => AcceptedIsLoadable
  <2> SUFFICES ASSUME Inv
               PROVE  AcceptedIsLoadable
    OBVIOUS
  <2>1. ASSUME ~ replaced
        PROVE  why \notin {"size", "type", "botch", "small"}
    BY <2>1 DEF Inv, AgreementInv, Refusals
  <2>2. ASSUME ~ replaced, pep # NoPep
        PROVE  pep.is64bit = (pep.bits = 64)
    <3>1. pc \in Loading
      BY <2>2 DEF Inv, TypeOK, DetectorTypeOK, OwnershipInv
    <3> QED
      BY <2>2, <3>1 DEF Inv, AgreementInv
  <2> QED
    BY <2>1, <2>2 DEF AcceptedIsLoadable
<1> QED
  BY <1>1, Invariant, PTL

(* pe_sections_display shows every section of the table of the file opened *)
(* once and in the order asked for, each with the header and the name that *)
(* are its own, and whatever replaced the file nothing shown lies outside  *)
(* it; of a file of another class than the one answered only the last.     *)
THEOREM DisplayCorrect == Spec => []DisplayIsTheTable
<1>1. Inv => DisplayIsTheTable
  <2> SUFFICES ASSUME Inv
               PROVE  DisplayIsTheTable
    OBVIOUS
  <2>1. SectionsAreTheTable
    BY DEF Inv, TableInv
  <2>2. order # << >> => order = Displayed /\ Len(secs) = Len(Sections) + 1
    BY DEF Inv, TableInv
  <2>3. secs \in Seq(SectionEntry) /\ sort \in Orders
    BY DEF Inv, TypeOK, PeTypeOK
  <2>4. DisplayIsSorted
    BY <2>2, <2>3, DisplayIsInOrder
  <2> QED
    BY <2>1, <2>4 DEF DisplayIsTheTable
<1> QED
  BY <1>1, Invariant, PTL

(* Whichever call fails, dwarf_destruct_pe_access frees what the loader    *)
(* has allocated, once, and leaves nothing for the next file.              *)
THEOREM OwnershipCorrect == Spec => []OwnsWhatItFrees
<1>1. Inv => OwnsWhatItFrees
  BY DEF Inv, OwnershipInv, OwnsWhatItFrees, Idle
<1> QED
  BY <1>1, Invariant, PTL

=============================================================================
