--------------------------- MODULE SectionGroups ---------------------------
(***************************************************************************)
(* Section groups of an Elf object (dwarf_load_elf_headers.c,              *)
(* elf_setup_all_section_groups and read_gs_section_group).                *)
(*                                                                         *)
(* A first pass reads the sections that list the members of a group and    *)
(* numbers the members from 3 up, one number per group; a second pass puts *)
(* the .dwo sections in group 2 and the other DWARF sections nobody listed *)
(* in group 1.  Both passes number sections from 0 to LastSection - 1: the *)
(* loops count from 1 but their pointer starts at section 0.               *)
(*                                                                         *)
(* Members are read one at a time, so that an error in the middle of a     *)
(* group shows what it leaves behind.  A word of a group section is        *)
(* modelled by the section it names in the byte order that makes it        *)
(* smaller.                                                                *)
(***************************************************************************)
EXTENDS Integers, Sequences, FiniteSets

CONSTANTS
    LastSection,   \* sections are numbered from 0 to LastSection
    MaxMembers     \* bound on the members listed by one group section

ASSUME SectionsAssumption == LastSection \in Nat \ {0}
ASSUME MembersAssumption == MaxMembers \in Nat

DW_GROUPNUMBER_BASE == 1
DW_GROUPNUMBER_DWO == 2
FirstGroupNumber == 3

VARIABLES
    kind,          \* what the type and the name of each section make of it
    flagged,       \* sections with SHF_GROUP
    pc,            \* "find", "members", "number", "done", "error", "crashed"
    sh,            \* the section psh points to
    grouparray,    \* members of section sh read so far
    count,         \* and how many it has in all
    group_number,  \* gh_section_group_number
    group_array,   \* gh_sht_group_array without its flag word; unset: absent
    next_number,   \* f_sg_next_group_number
    sht_count,     \* f_sht_group_type_section_count
    shf_count,     \* f_shf_group_flag_section_count
    dwo_count,     \* f_dwo_group_section_count
    is_dwarf       \* sections with gh_is_dwarf

object == <<kind, flagged>>
counters == <<next_number, sht_count, shf_count, dwo_count>>
vars == <<object, pc, sh, grouparray, count, group_number, group_array,
          counters, is_dwarf>>

AllSections == 0 .. LastSection
Kinds == {"empty", "group", "dwo", "dwarf", "other"}

Visited == 0 .. LastSection - 1
Of(k) == {s \in AllSections : kind[s] = k}

-----------------------------------------------------------------------------
(* Section 0 has no name; nothing has a group yet.                         *)
Init ==
    /\ kind \in [AllSections -> Kinds] /\ kind[0] \in {"empty", "group"}
    /\ flagged \in SUBSET (AllSections \ {0})
    /\ pc = "find" /\ sh = 0
    /\ grouparray = << >> /\ count = 0
    /\ group_number = [s \in AllSections |-> 0]
    /\ group_array = << >>
    /\ next_number = FirstGroupNumber
    /\ sht_count = 0 /\ shf_count = 0 /\ dwo_count = 0
    /\ is_dwarf = {}

LastVisited == LastSection - 1

(* ++psh, and from the end of the first pass to the start of the second.   *)
AfterFind ==
    IF sh = LastVisited THEN pc' = "number" /\ sh' = 0
                        ELSE pc' = "find" /\ sh' = sh + 1

AfterNumber ==
    IF sh = LastVisited THEN pc' = "done" /\ UNCHANGED sh
                        ELSE sh' = sh + 1 /\ UNCHANGED pc

(* Step B: an ordinary section with SHF_GROUP is counted.                  *)
NotAGroup ==
    /\ pc = "find" /\ kind[sh] # "group"
    /\ shf_count' = IF kind[sh] # "empty" /\ sh \in flagged THEN shf_count + 1
                                                          ELSE shf_count
    /\ AfterFind
    /\ UNCHANGED <<object, grouparray, count, group_number, group_array,
                   next_number, sht_count, dwo_count, is_dwarf>>

Error ==
    /\ pc' = "error"
    /\ UNCHANGED <<object, sh, grouparray, count, group_number, group_array,
                   counters, is_dwarf>>

(* The section is too short, lists more than there are sections, has       *)
(* entries of a size other than 4 or a bad flag word, or cannot be read or *)
(* allocated.  An entry size of 0 divides by zero.                         *)
BadGroup == pc = "find" /\ kind[sh] = "group" /\ Error

ZeroEntrySize ==
    /\ pc = "find" /\ kind[sh] = "group"
    /\ pc' = "crashed"
    /\ UNCHANGED <<object, sh, grouparray, count, group_number, group_array,
                   counters, is_dwarf>>

(* count words, the flag among them, are at most the number of sections.   *)
StartGroup ==
    /\ pc = "find" /\ kind[sh] = "group"
    /\ \E n \in 0 .. MaxMembers : n + 1 <= LastSection + 1 /\ count' = n
    /\ pc' = "members" /\ grouparray' = << >>
    /\ UNCHANGED <<object, sh, group_number, group_array, counters, is_dwarf>>

Reading == pc = "members" /\ Len(grouparray) < count

MemberAgain(s) ==
    /\ Reading
    /\ grouparray' = Append(grouparray, s)
    /\ group_number' = [group_number EXCEPT ![s] = next_number]
    /\ UNCHANGED <<object, pc, sh, count, group_array, counters, is_dwarf>>

Member(s) ==
    /\ Reading
    /\ group_number[s] = 0
    /\ grouparray' = Append(grouparray, s)
    /\ group_number' = [group_number EXCEPT ![s] = next_number]
    /\ UNCHANGED <<object, pc, sh, count, group_array, counters, is_dwarf>>

(* The word is 0 or no section's, or its section has a group already: any  *)
(* object may hold such a word.                                            *)
BadMemberEndsGroup ==
    /\ Reading
    /\ AfterFind
    /\ UNCHANGED <<object, grouparray, count, group_number, group_array,
                   counters, is_dwarf>>

BadMember == Reading /\ Error

EndGroupSameNumber ==
    /\ pc = "members" /\ Len(grouparray) = count
    /\ group_array' = [s \in DOMAIN group_array \cup {sh} |->
                          IF s = sh THEN grouparray ELSE group_array[s]]
    /\ sht_count' = (IF count > 0 THEN sht_count + 1 ELSE sht_count)
    /\ AfterFind
    /\ UNCHANGED <<object, grouparray, count, group_number, next_number,
                   shf_count, dwo_count, is_dwarf>>

EndGroup ==
    /\ pc = "members" /\ Len(grouparray) = count
    /\ group_array' = [s \in DOMAIN group_array \cup {sh} |->
                          IF s = sh THEN grouparray ELSE group_array[s]]
    /\ IF count > 0
       THEN next_number' = next_number + 1 /\ sht_count' = sht_count + 1
       ELSE UNCHANGED <<next_number, sht_count>>
    /\ AfterFind
    /\ UNCHANGED <<object, grouparray, count, group_number, shf_count, dwo_count,
                   is_dwarf>>

(* Step C.                                                                 *)
NothingToNumber ==
    /\ pc = "number" /\ kind[sh] \in {"empty", "group", "other"}
    /\ AfterNumber
    /\ UNCHANGED <<object, grouparray, count, group_number, group_array,
                   counters, is_dwarf>>

DwoInGroup ==
    /\ pc = "number" /\ kind[sh] = "dwo" /\ group_number[sh] # 0
    /\ Error

NumberDwo ==
    /\ pc = "number" /\ kind[sh] = "dwo" /\ group_number[sh] = 0
    /\ is_dwarf' = is_dwarf \cup {sh}
    /\ group_number' = [group_number EXCEPT ![sh] = DW_GROUPNUMBER_DWO]
    /\ dwo_count' = dwo_count + 1
    /\ AfterNumber
    /\ UNCHANGED <<object, grouparray, count, group_array, next_number,
                   sht_count, shf_count>>

NumberDwarfAlways ==
    /\ pc = "number" /\ kind[sh] = "dwarf"
    /\ is_dwarf' = is_dwarf \cup {sh}
    /\ group_number' = [group_number EXCEPT ![sh] = DW_GROUPNUMBER_BASE]
    /\ AfterNumber
    /\ UNCHANGED <<object, grouparray, count, group_array, counters>>

NumberDwarfMarksOnly ==
    /\ pc = "number" /\ kind[sh] = "dwarf"
    /\ is_dwarf' = is_dwarf \cup {sh}
    /\ AfterNumber
    /\ UNCHANGED <<object, grouparray, count, group_number, group_array, counters>>

NumberDwarf ==
    /\ pc = "number" /\ kind[sh] = "dwarf"
    /\ is_dwarf' = is_dwarf \cup {sh}
    /\ group_number' = [group_number EXCEPT ![sh] =
                           IF @ = 0 THEN DW_GROUPNUMBER_BASE ELSE @]
    /\ AfterNumber
    /\ UNCHANGED <<object, grouparray, count, group_array, counters>>

Next ==
    \/ NotAGroup \/ BadGroup \/ ZeroEntrySize \/ StartGroup
    \/ (\E s \in AllSections \ {0} : Member(s)) \/ BadMember \/ EndGroup
    \/ NothingToNumber \/ DwoInGroup \/ NumberDwo \/ NumberDwarf

Spec == Init /\ [][Next]_vars

-----------------------------------------------------------------------------
(* Properties.                                                             *)
Members(s) == {group_array[s][k] : k \in DOMAIN group_array[s]}

TypeOK ==
    /\ kind \in [AllSections -> Kinds] /\ flagged \subseteq AllSections
    /\ pc \in {"find", "members", "number", "done", "error", "crashed"}
    /\ sh \in AllSections
    /\ count \in 0 .. MaxMembers
    /\ grouparray \in Seq(AllSections \ {0}) /\ Len(grouparray) <= count
    /\ group_number \in [AllSections -> Nat]
    /\ DOMAIN group_array \subseteq Visited
    /\ \A s \in DOMAIN group_array : group_array[s] \in Seq(AllSections \ {0})
    /\ next_number \in Nat /\ sht_count \in Nat /\ shf_count \in Nat
    /\ dwo_count \in Nat
    /\ is_dwarf \subseteq AllSections

(* No section is in two groups, and none is listed twice by one.           *)
GroupsAreDisjoint ==
    \A g, h \in DOMAIN group_array :
        \A k \in DOMAIN group_array[g], m \in DOMAIN group_array[h] :
            group_array[g][k] = group_array[h][m] => g = h /\ k = m

(* The members of a group share a number from 3 up that is the number of   *)
(* no other group, and they keep it to the end, DWARF or not.              *)
OneNumberPerGroup ==
    \A g, h \in DOMAIN group_array : \A s \in Members(g), t \in Members(h) :
        /\ group_number[s] \in FirstGroupNumber .. next_number - 1
        /\ group_number[s] = group_number[t] <=> g = h

(* Only members have the number of a group: the reverse, unless an error   *)
(* stopped the reading of a group whose first members are numbered.        *)
NumberedAreMembers ==
    pc \in {"find", "number", "done"} =>
        \A s \in AllSections : group_number[s] >= FirstGroupNumber =>
            \E g \in DOMAIN group_array : s \in Members(g)

(* "we will mark unmarked as group 1": at the end every DWARF section has  *)
(* a group, and a .dwo section has group 2.                                *)
EveryDwarfSectionHasAGroup ==
    pc = "done" => \A s \in Of("dwarf") \cup Of("dwo") : group_number[s] # 0

(* It is so of all sections but the last, which no loop visits.            *)
VisitedDwarfIsNumbered ==
    pc = "done" =>
        /\ is_dwarf = (Of("dwarf") \cup Of("dwo")) \cap Visited
        /\ \A s \in is_dwarf :
              /\ group_number[s] # 0
              /\ kind[s] = "dwo" <=> group_number[s] = DW_GROUPNUMBER_DWO

(* The inductive invariant the proofs use.  The passes stay on visited     *)
(* sections and a group section is met once; numbers reach next_number     *)
(* only while its group is read, or if an error stopped that; the members  *)
(* read so far are distinct and are the sections of that number.           *)
Position ==
    /\ pc \in {"find", "members", "number"} => sh \in Visited
    /\ pc \in {"find", "members"} => \A g \in DOMAIN group_array : g < sh

NumbersInRange ==
    /\ next_number >= FirstGroupNumber
    /\ \A s \in AllSections :
          /\ group_number[s] <= next_number
          /\ pc \in {"find", "number", "done"} => group_number[s] # next_number

PartialGroup ==
    pc = "members" =>
        /\ \A k \in DOMAIN grouparray : group_number[grouparray[k]] = next_number
        /\ \A j, k \in DOMAIN grouparray : grouparray[j] = grouparray[k] => j = k
        /\ \A s \in AllSections : group_number[s] = next_number =>
              \E k \in DOMAIN grouparray : grouparray[k] = s

NumberedAreListed ==
    \A s \in AllSections :
        group_number[s] \in FirstGroupNumber .. next_number - 1 =>
            \E g \in DOMAIN group_array : s \in Members(g)

Numbered(s) ==
    /\ group_number[s] # 0
    /\ kind[s] = "dwo" <=> group_number[s] = DW_GROUPNUMBER_DWO

DwarfBelow(n) == {s \in AllSections : s < n /\ kind[s] \in {"dwarf", "dwo"}}

DwarfSoFar ==
    /\ pc \in {"find", "members"} =>
          \A s \in AllSections : group_number[s] \notin {1, 2}
    /\ pc = "number" =>
          /\ is_dwarf = DwarfBelow(sh)
          /\ \A s \in AllSections : s >= sh => group_number[s] \notin {1, 2}
    /\ pc = "done" => is_dwarf = DwarfBelow(LastSection)
    /\ pc \in {"number", "done"} => \A s \in is_dwarf : Numbered(s)
    /\ pc \in {"find", "members"} => is_dwarf = {}

IInv ==
    /\ TypeOK
    /\ Position
    /\ NumbersInRange
    /\ PartialGroup
    /\ NumberedAreListed
    /\ GroupsAreDisjoint
    /\ OneNumberPerGroup
    /\ DwarfSoFar
=============================================================================
