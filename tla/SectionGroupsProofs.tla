------------------------- MODULE SectionGroupsProofs -------------------------
(***************************************************************************)
(* Proofs about SectionGroups for every number of sections.                *)
(*                                                                         *)
(* GroupsAreDisjoint and OneNumberPerGroup speak of finished groups only;  *)
(* IInv adds what holds of the group being read: its members so far are    *)
(* distinct and are exactly the sections whose number is next_number, a    *)
(* number no finished group has.  The second pass gives 1 and 2 only to    *)
(* sections without a number, so it disturbs no group.                     *)
(***************************************************************************)
EXTENDS SectionGroups, TLAPS

(* Sections and counters are integers.                                     *)
LEMMA Sections ==
    /\ LastSection \in Nat /\ LastSection > 0
    /\ 0 \in Visited /\ Visited \subseteq AllSections
    /\ \A s \in AllSections : s \in Nat
    /\ \A s \in Visited : s + 1 \in AllSections
    /\ \A s \in Visited : s # LastVisited => s + 1 \in Visited
BY SectionsAssumption DEF Visited, AllSections, LastVisited

(* A member of a finished group is a section.                              *)
LEMMA MembersAreSections ==
    TypeOK => \A g \in DOMAIN group_array : \A k \in DOMAIN group_array[g] :
                  group_array[g][k] \in AllSections
BY DEF TypeOK

(* Nothing is numbered and nothing read before the first pass.             *)
LEMMA InitIInv == Init => IInv
<1> SUFFICES ASSUME Init PROVE IInv
  OBVIOUS
<1> USE Sections, MembersAssumption
<1>1. TypeOK
  BY DEF Init, TypeOK, Kinds, FirstGroupNumber
<1>2. DOMAIN group_array = {}
  BY DEF Init
<1>3. Position /\ NumbersInRange /\ PartialGroup /\ NumberedAreListed
  BY <1>2 DEF Init, Position, NumbersInRange, PartialGroup, NumberedAreListed,
     FirstGroupNumber
<1>4. GroupsAreDisjoint /\ OneNumberPerGroup
  BY <1>2 DEF GroupsAreDisjoint, OneNumberPerGroup
<1>5. DwarfSoFar
  BY DEF Init, DwarfSoFar
<1> QED
  BY <1>1, <1>3, <1>4, <1>5 DEF IInv

(* An error stops the passes where they are: what is said of a pass that   *)
(* goes on says nothing then.                                              *)
LEMMA Stopping ==
    ASSUME IInv, pc' \in {"error", "crashed"},
           UNCHANGED <<object, sh, grouparray, count, group_number, group_array,
                       counters, is_dwarf>>
    PROVE  IInv'
<1> USE DEF IInv, object, counters
<1>1. TypeOK'
  BY DEF TypeOK
<1>2. Position' /\ NumbersInRange' /\ PartialGroup' /\ DwarfSoFar'
  BY DEF Position, NumbersInRange, PartialGroup, DwarfSoFar
<1>3. NumberedAreListed'
  BY DEF NumberedAreListed, Members
<1>4. GroupsAreDisjoint' /\ OneNumberPerGroup'
  BY DEF GroupsAreDisjoint, OneNumberPerGroup, Members
<1> QED
  BY <1>1, <1>2, <1>3, <1>4

(* From the first pass to its next section, or to the second pass.         *)
LEMMA FindGoesOn ==
    ASSUME sh \in Visited, AfterFind
    PROVE  /\ sh' \in Visited
           /\ \/ pc' = "find" /\ sh' = sh + 1
              \/ pc' = "number" /\ sh' = 0
BY Sections DEF AfterFind

(* A section that lists no group changes no number.                        *)
LEMMA NotAGroupStep == IInv /\ NotAGroup => IInv'
<1> SUFFICES ASSUME IInv, NotAGroup PROVE IInv'
  OBVIOUS
<1> USE DEF IInv, object, counters
<1>0. sh \in Visited
  BY DEF NotAGroup, Position
<1>1. /\ sh' \in Visited
      /\ pc = "find"
      /\ \/ pc' = "find" /\ sh' = sh + 1
         \/ pc' = "number" /\ sh' = 0
      /\ UNCHANGED <<object, grouparray, count, group_number, group_array,
                     next_number, sht_count, dwo_count, is_dwarf>>
  BY <1>0, FindGoesOn DEF NotAGroup
<1>2. TypeOK'
  <2>1. shf_count' \in Nat
    BY DEF NotAGroup, TypeOK
  <2> QED
    BY <1>1, <2>1, Sections DEF TypeOK
<1>3. Position'
  <2>1. \A g \in DOMAIN group_array : g \in Nat /\ g < sh
    BY <1>1, Sections DEF Position, TypeOK
  <2> QED
    BY <1>0, <1>1, <2>1, Sections DEF Position
<1>4. NumbersInRange' /\ PartialGroup'
  BY <1>1 DEF NumbersInRange, PartialGroup
<1>5. NumberedAreListed'
  BY <1>1 DEF NumberedAreListed, Members
<1>6. GroupsAreDisjoint' /\ OneNumberPerGroup'
  BY <1>1 DEF GroupsAreDisjoint, OneNumberPerGroup, Members
<1>7. DwarfSoFar'
  BY <1>1, Sections DEF DwarfSoFar, DwarfBelow
<1> QED
  BY <1>2, <1>3, <1>4, <1>5, <1>6, <1>7

(* No section has next_number when a group is begun.                       *)
LEMMA StartGroupStep == IInv /\ StartGroup => IInv'
<1> SUFFICES ASSUME IInv, StartGroup PROVE IInv'
  OBVIOUS
<1> USE DEF IInv, object, counters
<1>1. /\ pc = "find" /\ pc' = "members" /\ grouparray' = << >>
      /\ count' \in 0 .. MaxMembers
      /\ UNCHANGED <<object, sh, group_number, group_array, counters, is_dwarf>>
  BY DEF StartGroup
<1>2. TypeOK'
  BY <1>1, MembersAssumption DEF TypeOK
<1>3. Position' /\ NumbersInRange' /\ PartialGroup'
  BY <1>1 DEF Position, NumbersInRange, PartialGroup
<1>4. NumberedAreListed'
  BY <1>1 DEF NumberedAreListed, Members
<1>5. GroupsAreDisjoint' /\ OneNumberPerGroup'
  BY <1>1 DEF GroupsAreDisjoint, OneNumberPerGroup, Members
<1>6. DwarfSoFar'
  BY <1>1 DEF DwarfSoFar
<1> QED
  BY <1>2, <1>3, <1>4, <1>5, <1>6

(* A new member had no number, so it is in no finished group, nor among    *)
(* the members read so far.                                                *)
LEMMA MemberStep ==
    ASSUME IInv, NEW m \in AllSections \ {0}, Member(m)
    PROVE  IInv'
<1> USE DEF IInv, object, counters
<1>1. /\ pc = "members" /\ Len(grouparray) < count
      /\ group_number[m] = 0
      /\ grouparray' = Append(grouparray, m)
      /\ group_number' = [group_number EXCEPT ![m] = next_number]
      /\ UNCHANGED <<object, pc, sh, count, group_array, counters, is_dwarf>>
  BY DEF Member, Reading
<1>2. /\ next_number \in Nat /\ next_number >= 3
      /\ group_number \in [AllSections -> Nat]
      /\ grouparray \in Seq(AllSections \ {0})
  BY DEF TypeOK, NumbersInRange, FirstGroupNumber
<1>3. /\ group_number' \in [AllSections -> Nat]
      /\ group_number'[m] = next_number
      /\ \A s \in AllSections : s # m => group_number'[s] = group_number[s]
  BY <1>1, <1>2
<1>4. TypeOK'
  <2>1. grouparray' \in Seq(AllSections \ {0}) /\ Len(grouparray') <= count
    BY <1>1, <1>2 DEF TypeOK
  <2> QED
    BY <1>1, <1>3, <2>1 DEF TypeOK
<1>5. Position'
  BY <1>1 DEF Position
<1>6. NumbersInRange'
  BY <1>1, <1>2, <1>3 DEF NumbersInRange
<1>7. PartialGroup'
  <2> DEFINE n == Len(grouparray) + 1
  <2>1. /\ DOMAIN grouparray' = 1 .. n
        /\ DOMAIN grouparray = 1 .. n - 1
        /\ grouparray'[n] = m
        /\ \A k \in 1 .. n - 1 : /\ grouparray'[k] = grouparray[k]
                                 /\ grouparray[k] \in AllSections
        /\ n \in Nat /\ n >= 1
    BY <1>1, <1>2
  <2> HIDE DEF n
  <2>2. \A k \in 1 .. n - 1 : grouparray[k] # m
    <3>1. \A k \in 1 .. n - 1 : group_number[grouparray[k]] = next_number
      BY <1>1, <2>1 DEF PartialGroup
    <3>2. group_number[m] # next_number
      BY <1>1, <1>2
    <3> QED
      BY <3>1, <3>2
  <2>3. \A k \in DOMAIN grouparray' : group_number'[grouparray'[k]] = next_number'
    BY <1>1, <1>3, <2>1, <2>2 DEF PartialGroup
  <2>4. \A j, k \in DOMAIN grouparray' : grouparray'[j] = grouparray'[k] => j = k
    BY <1>1, <2>1, <2>2 DEF PartialGroup
  <2>5. \A s \in AllSections : group_number'[s] = next_number' =>
            \E k \in DOMAIN grouparray' : grouparray'[k] = s
    <3> TAKE s \in AllSections
    <3> HAVE group_number'[s] = next_number'
    <3>1. CASE s = m
      BY <3>1, <2>1
    <3>2. CASE s # m
      BY <3>2, <1>1, <1>3, <2>1 DEF PartialGroup
    <3> QED
      BY <3>1, <3>2
  <2> QED
    BY <2>3, <2>4, <2>5 DEF PartialGroup
<1>8. NumberedAreListed'
  BY <1>1, <1>2, <1>3 DEF NumberedAreListed, Members
<1>9. GroupsAreDisjoint'
  BY <1>1 DEF GroupsAreDisjoint
<1>10. OneNumberPerGroup'
  <2>1. \A g \in DOMAIN group_array : \A s \in Members(g) :
            s \in AllSections /\ group_number[s] # 0
    BY <1>2, MembersAreSections DEF OneNumberPerGroup, Members, FirstGroupNumber
  <2>2. \A g \in DOMAIN group_array : \A s \in Members(g) :
            group_number'[s] = group_number[s]
    BY <2>1, <1>1, <1>3
  <2> QED
    BY <2>2, <1>1 DEF OneNumberPerGroup, Members
<1>11. DwarfSoFar'
  BY <1>1, <1>2, <1>3 DEF DwarfSoFar
<1> QED
  BY <1>4, <1>5, <1>6, <1>7, <1>8, <1>9, <1>10, <1>11

(* The members read become a group of their own: their number is one no    *)
(* other group has, and no section outside them has it.                    *)
LEMMA EndGroupStep == IInv /\ EndGroup => IInv'
<1> SUFFICES ASSUME IInv, EndGroup PROVE IInv'
  OBVIOUS
<1> USE DEF IInv, object, counters
<1>0. sh \in Visited
  BY DEF EndGroup, Position
<1>1. /\ pc = "members" /\ Len(grouparray) = count
      /\ sh' \in Visited
      /\ \/ pc' = "find" /\ sh' = sh + 1
         \/ pc' = "number" /\ sh' = 0
      /\ UNCHANGED <<object, grouparray, count, group_number, shf_count,
                     dwo_count, is_dwarf>>
  BY <1>0, FindGoesOn DEF EndGroup
<1>2. /\ DOMAIN group_array' = DOMAIN group_array \cup {sh}
      /\ group_array'[sh] = grouparray
      /\ \A g \in DOMAIN group_array : g # sh => group_array'[g] = group_array[g]
  BY DEF EndGroup
<1>3. /\ next_number \in Nat /\ next_number >= 3
      /\ group_number \in [AllSections -> Nat]
      /\ grouparray \in Seq(AllSections \ {0})
      /\ sh \notin DOMAIN group_array
      /\ sht_count \in Nat /\ count \in Nat
  <2>1. \A g \in DOMAIN group_array : g \in Nat /\ g < sh
    BY <1>1, Sections DEF Position, TypeOK
  <2>2. sh \notin DOMAIN group_array
    BY <2>1
  <2> QED
    BY <2>2, MembersAssumption DEF TypeOK, NumbersInRange, FirstGroupNumber
<1>4. \/ count = 0 /\ next_number' = next_number /\ sht_count' = sht_count
      \/ count > 0 /\ next_number' = next_number + 1 /\ sht_count' = sht_count + 1
  BY <1>3 DEF EndGroup
<1>5. DOMAIN grouparray = 1 .. count
  BY <1>1, <1>3
<1>6. \A k \in DOMAIN grouparray : /\ grouparray[k] \in AllSections
                                   /\ group_number[grouparray[k]] = next_number
                                   /\ next_number' = next_number + 1
  BY <1>1, <1>3, <1>4, <1>5 DEF PartialGroup
<1>7. TypeOK'
  <2>1. DOMAIN group_array' \subseteq Visited
    BY <1>0, <1>2 DEF TypeOK
  <2>2. \A s \in DOMAIN group_array' : group_array'[s] \in Seq(AllSections \ {0})
    BY <1>2, <1>3 DEF TypeOK
  <2>3. next_number' \in Nat /\ sht_count' \in Nat
    BY <1>3, <1>4
  <2> QED
    BY <1>1, <2>1, <2>2, <2>3, Sections DEF TypeOK
<1>8. Position'
  <2>1. \A g \in DOMAIN group_array : g \in Nat /\ g < sh
    BY <1>1, Sections DEF Position, TypeOK
  <2> QED
    BY <1>0, <1>1, <1>2, <2>1, Sections DEF Position
<1>9. NumbersInRange'
  <2>1. CASE count = 0
    <3>1. DOMAIN grouparray = {} /\ next_number' = next_number
      BY <2>1, <1>4, <1>5
    <3>2. \A s \in AllSections : group_number[s] # next_number
      BY <3>1, <1>1 DEF PartialGroup
    <3> QED
      BY <3>1, <3>2, <1>1 DEF NumbersInRange
  <2>2. CASE count > 0
    <3>1. next_number' = next_number + 1
      BY <2>2, <1>3, <1>4
    <3>2. \A s \in AllSections :
              group_number[s] <= next_number' /\ group_number[s] # next_number'
      BY <3>1, <1>3 DEF NumbersInRange
    <3> QED
      BY <3>1, <3>2, <1>1, <1>3 DEF NumbersInRange, FirstGroupNumber
  <2> QED
    BY <2>1, <2>2, <1>3
<1>10. PartialGroup'
  BY <1>1 DEF PartialGroup
<1>11. NumberedAreListed'
  <2> SUFFICES ASSUME NEW s \in AllSections,
                      group_number[s] \in FirstGroupNumber .. next_number' - 1
               PROVE  \E g \in DOMAIN group_array' :
                          \E k \in DOMAIN group_array'[g] : s = group_array'[g][k]
    BY <1>1 DEF NumberedAreListed, Members
  <2>1. CASE group_number[s] = next_number
    BY <2>1, <1>1, <1>2 DEF PartialGroup
  <2>2. CASE group_number[s] # next_number
    <3>1. group_number[s] \in FirstGroupNumber .. next_number - 1
      BY <2>2, <1>3, <1>4 DEF FirstGroupNumber
    <3>2. PICK g \in DOMAIN group_array :
              \E k \in DOMAIN group_array[g] : s = group_array[g][k]
      BY <3>1 DEF NumberedAreListed, Members
    <3> QED
      BY <3>2, <1>2, <1>3
  <2> QED
    BY <2>1, <2>2
<1>12. \A g \in DOMAIN group_array : \A k \in DOMAIN group_array[g] :
           /\ group_array[g][k] \in AllSections
           /\ group_number[group_array[g][k]] \in 3 .. next_number - 1
  BY MembersAreSections DEF OneNumberPerGroup, Members, FirstGroupNumber
<1>13. GroupsAreDisjoint'
  <2> SUFFICES ASSUME NEW g \in DOMAIN group_array', NEW h \in DOMAIN group_array',
                      NEW k \in DOMAIN group_array'[g],
                      NEW m \in DOMAIN group_array'[h],
                      group_array'[g][k] = group_array'[h][m]
               PROVE  g = h /\ k = m
    BY DEF GroupsAreDisjoint
  <2>1. CASE g = sh /\ h = sh
    BY <2>1, <1>1, <1>2 DEF PartialGroup
  <2>2. CASE g = sh /\ h # sh
    <3>1. group_number[group_array'[h][m]] # next_number
      BY <2>2, <1>2, <1>3, <1>12
    <3>2. group_number[group_array'[g][k]] = next_number
      BY <2>2, <1>2, <1>6
    <3> QED
      BY <3>1, <3>2
  <2>3. CASE g # sh /\ h = sh
    <3>1. group_number[group_array'[g][k]] # next_number
      BY <2>3, <1>2, <1>3, <1>12
    <3>2. group_number[group_array'[h][m]] = next_number
      BY <2>3, <1>2, <1>6
    <3> QED
      BY <3>1, <3>2
  <2>4. CASE g # sh /\ h # sh
    BY <2>4, <1>2 DEF GroupsAreDisjoint
  <2> QED
    BY <2>1, <2>2, <2>3, <2>4
<1>14. OneNumberPerGroup'
  <2> SUFFICES ASSUME NEW g \in DOMAIN group_array', NEW h \in DOMAIN group_array',
                      NEW k \in DOMAIN group_array'[g],
                      NEW m \in DOMAIN group_array'[h]
               PROVE  /\ group_number[group_array'[g][k]] \in 3 .. next_number' - 1
                      /\ group_number[group_array'[g][k]]
                           = group_number[group_array'[h][m]] <=> g = h
    BY <1>1 DEF OneNumberPerGroup, Members, FirstGroupNumber
  <2>1. /\ g = sh => /\ group_number[group_array'[g][k]] = next_number
                     /\ next_number' = next_number + 1
        /\ h = sh => group_number[group_array'[h][m]] = next_number
    BY <1>2, <1>6
  <2>2. /\ g # sh => group_number[group_array'[g][k]] \in 3 .. next_number - 1
        /\ h # sh => group_number[group_array'[h][m]] \in 3 .. next_number - 1
    BY <1>2, <1>12
  <2>3. g # sh /\ h # sh =>
            (group_number[group_array'[g][k]] = group_number[group_array'[h][m]]
                <=> g = h)
    BY <1>2 DEF OneNumberPerGroup, Members
  <2> QED
    BY <2>1, <2>2, <2>3, <1>3, <1>4
<1>15. DwarfSoFar'
  BY <1>1, Sections DEF DwarfSoFar, DwarfBelow
<1> QED
  BY <1>7, <1>8, <1>9, <1>10, <1>11, <1>13, <1>14, <1>15

(* What the second pass does to one section: it is marked if it is DWARF,  *)
(* and its number changes only from 0, to 1 or 2.                          *)
LEMMA NumberStep ==
    ASSUME IInv, pc = "number", AfterNumber,
           UNCHANGED <<object, grouparray, count, group_array, next_number,
                       sht_count, shf_count>>,
           dwo_count' \in Nat,
           NEW number \in Nat,
           group_number' = [group_number EXCEPT ![sh] = number],
           number # group_number[sh] => group_number[sh] = 0 /\ number \in {1, 2},
           is_dwarf' = is_dwarf \cup (DwarfBelow(sh + 1) \ DwarfBelow(sh)),
           kind[sh] \in {"dwarf", "dwo"} =>
               number # 0 /\ (kind[sh] = "dwo" <=> number = 2)
    PROVE  IInv'
<1> USE DEF IInv, object, counters
<1>1. sh \in Visited /\ sh \in AllSections /\ sh \in Nat
  BY Sections DEF Position
<1>2. \/ pc' = "done" /\ sh' = sh /\ sh + 1 = LastSection
      \/ pc' = "number" /\ sh' = sh + 1 /\ sh' \in Visited
  BY <1>1, Sections DEF AfterNumber, LastVisited
<1>3. /\ group_number \in [AllSections -> Nat]
      /\ group_number' \in [AllSections -> Nat]
      /\ group_number'[sh] = number
      /\ \A s \in AllSections : s # sh => group_number'[s] = group_number[s]
      /\ next_number \in Nat /\ next_number >= 3
  BY <1>1 DEF TypeOK, NumbersInRange, FirstGroupNumber
<1>4. TypeOK'
  BY <1>1, <1>2, <1>3, Sections DEF TypeOK, DwarfBelow
<1>5. Position'
  BY <1>1, <1>2 DEF Position
<1>6. NumbersInRange'
  BY <1>2, <1>3 DEF NumbersInRange
<1>7. PartialGroup'
  BY <1>2 DEF PartialGroup
<1>8. \A s \in AllSections : group_number[s] >= 3 => group_number'[s] = group_number[s]
  BY <1>3
<1>9. NumberedAreListed'
  <2>1. \A s \in AllSections : group_number'[s] >= 3 => group_number[s] = group_number'[s]
    BY <1>3
  <2> QED
    BY <1>3, <2>1 DEF NumberedAreListed, Members, FirstGroupNumber
<1>10. GroupsAreDisjoint'
  BY DEF GroupsAreDisjoint
<1>11. OneNumberPerGroup'
  <2>1. \A g \in DOMAIN group_array : \A s \in Members(g) :
            s \in AllSections /\ group_number[s] >= 3
    BY <1>3, MembersAreSections DEF OneNumberPerGroup, Members, FirstGroupNumber
  <2> QED
    BY <2>1, <1>8 DEF OneNumberPerGroup, Members
<1>12. DwarfSoFar'
  <2>1. is_dwarf' = DwarfBelow(sh + 1)
    <3>1. is_dwarf = DwarfBelow(sh)
      BY DEF DwarfSoFar
    <3>2. \A s \in AllSections : s < sh => s < sh + 1
      BY <1>1, Sections
    <3>3. DwarfBelow(sh) \subseteq DwarfBelow(sh + 1)
      BY <3>2 DEF DwarfBelow
    <3> QED
      BY <3>1, <3>3
  <2>2. \A s \in is_dwarf' : Numbered(s)'
    <3> SUFFICES ASSUME NEW s \in AllSections, s < sh + 1,
                        kind[s] \in {"dwarf", "dwo"}
                 PROVE  /\ group_number'[s] # 0
                        /\ kind[s] = "dwo" <=> group_number'[s] = 2
      BY <2>1 DEF DwarfBelow, Numbered, DW_GROUPNUMBER_DWO
    <3>1. CASE s = sh
      BY <3>1, <1>3
    <3>2. CASE s # sh
      <4>1. s \in is_dwarf
        BY <3>2, <1>1, Sections DEF DwarfSoFar, DwarfBelow
      <4> QED
        BY <3>2, <4>1, <1>3 DEF DwarfSoFar, Numbered, DW_GROUPNUMBER_DWO
    <3> QED
      BY <3>1, <3>2
  <2>3. pc' = "number" =>
            \A s \in AllSections : s >= sh' => group_number'[s] \notin {1, 2}
    BY <1>1, <1>2, <1>3, Sections DEF DwarfSoFar
  <2>4. (DwarfBelow(sh + 1))' = DwarfBelow(sh' + 1)
    BY DEF DwarfBelow
  <2>5. pc' = "number" => is_dwarf' = DwarfBelow(sh)'
    BY <1>2, <2>1 DEF DwarfBelow
  <2>6. pc' = "done" => is_dwarf' = DwarfBelow(LastSection)'
    BY <1>2, <2>1 DEF DwarfBelow
  <2> QED
    BY <1>2, <2>2, <2>3, <2>5, <2>6 DEF DwarfSoFar
<1> QED
  BY <1>4, <1>5, <1>6, <1>7, <1>9, <1>10, <1>11, <1>12

(* Which sections DWARF gains when the second pass moves on.               *)
LEMMA NextDwarf ==
    ASSUME sh \in AllSections
    PROVE  DwarfBelow(sh + 1) \ DwarfBelow(sh)
             = IF kind[sh] \in {"dwarf", "dwo"} THEN {sh} ELSE {}
BY Sections DEF DwarfBelow

(* Every action of the second pass is such a step.                         *)
LEMMA SecondPass ==
    IInv /\ (NothingToNumber \/ NumberDwo \/ NumberDwarf) => IInv'
<1> SUFFICES ASSUME IInv, NothingToNumber \/ NumberDwo \/ NumberDwarf PROVE IInv'
  OBVIOUS
<1> USE DEF object, counters
<1>1. sh \in AllSections /\ pc = "number"
  BY Sections DEF IInv, Position, NothingToNumber, NumberDwo, NumberDwarf
<1>2. /\ group_number \in [AllSections -> Nat]
      /\ group_number[sh] \in Nat /\ dwo_count \in Nat
      /\ kind \in [AllSections -> Kinds]
      /\ group_number[sh] \notin {1, 2}
  BY <1>1, Sections DEF IInv, TypeOK, DwarfSoFar
<1>3. ASSUME NothingToNumber PROVE IInv'
  <2>1. group_number' = [group_number EXCEPT ![sh] = group_number[sh]]
    BY <1>3, <1>2 DEF NothingToNumber
  <2>2. is_dwarf' = is_dwarf \cup (DwarfBelow(sh + 1) \ DwarfBelow(sh))
    BY <1>1, <1>3, NextDwarf DEF NothingToNumber
  <2> QED
    BY <1>1, <1>2, <1>3, <2>1, <2>2, NumberStep DEF NothingToNumber
<1>4. ASSUME NumberDwo PROVE IInv'
  <2> DEFINE number == 2
  <2>1. is_dwarf' = is_dwarf \cup (DwarfBelow(sh + 1) \ DwarfBelow(sh))
    BY <1>1, <1>4, NextDwarf DEF NumberDwo
  <2>2. group_number' = [group_number EXCEPT ![sh] = number]
    BY <1>4 DEF NumberDwo, DW_GROUPNUMBER_DWO
  <2>3. /\ AfterNumber /\ dwo_count' \in Nat
        /\ UNCHANGED <<object, grouparray, count, group_array, next_number,
                       sht_count, shf_count>>
    BY <1>2, <1>4 DEF NumberDwo
  <2>4. group_number[sh] = 0 /\ kind[sh] = "dwo" /\ number \in Nat
        /\ number # 0 /\ number \in {1, 2} /\ number = 2
    BY <1>4 DEF NumberDwo
  <2> HIDE DEF number
  <2> QED
    BY <1>1, <2>1, <2>2, <2>3, <2>4, NumberStep
<1>5. ASSUME NumberDwarf PROVE IInv'
  <2> DEFINE number == IF group_number[sh] = 0 THEN 1 ELSE group_number[sh]
  <2>1. is_dwarf' = is_dwarf \cup (DwarfBelow(sh + 1) \ DwarfBelow(sh))
    BY <1>1, <1>5, NextDwarf DEF NumberDwarf
  <2>2. group_number' = [group_number EXCEPT ![sh] = number]
    BY <1>5 DEF NumberDwarf, DW_GROUPNUMBER_BASE
  <2>3. number \in Nat /\ number # 0 /\ number # 2
        /\ (number # group_number[sh] => group_number[sh] = 0 /\ number \in {1, 2})
    BY <1>2
  <2> HIDE DEF number
  <2> QED
    BY <1>1, <1>2, <1>5, <2>1, <2>2, <2>3, NumberStep DEF NumberDwarf
<1> QED
  BY <1>3, <1>4, <1>5

(* The inductive invariant holds throughout.                               *)
THEOREM Invariant == Spec => []IInv
<1>1. IInv /\ [Next]_vars => IInv'
  <2> SUFFICES ASSUME IInv, [Next]_vars PROVE IInv'
    OBVIOUS
  <2>1. ASSUME NotAGroup PROVE IInv'
    BY <2>1, NotAGroupStep
  <2>2. ASSUME BadGroup \/ BadMember \/ DwoInGroup PROVE IInv'
    BY <2>2, Stopping DEF BadGroup, BadMember, DwoInGroup, Error
  <2>3. ASSUME ZeroEntrySize PROVE IInv'
    BY <2>3, Stopping DEF ZeroEntrySize
  <2>4. ASSUME StartGroup PROVE IInv'
    BY <2>4, StartGroupStep
  <2>5. ASSUME NEW s \in AllSections \ {0}, Member(s) PROVE IInv'
    BY <2>5, MemberStep
  <2>6. ASSUME EndGroup PROVE IInv'
    BY <2>6, EndGroupStep
  <2>7. ASSUME NothingToNumber \/ NumberDwo \/ NumberDwarf PROVE IInv'
    BY <2>7, SecondPass
  <2>8. ASSUME UNCHANGED vars PROVE IInv'
    <3> USE <2>8 DEF vars, object, counters, IInv
    <3>1. TypeOK' /\ Position' /\ NumbersInRange' /\ PartialGroup'
      BY DEF TypeOK, Position, NumbersInRange, PartialGroup
    <3>2. NumberedAreListed' /\ GroupsAreDisjoint' /\ OneNumberPerGroup'
      BY DEF NumberedAreListed, GroupsAreDisjoint, OneNumberPerGroup, Members
    <3>3. DwarfSoFar'
      BY DEF DwarfSoFar, DwarfBelow, Numbered
    <3> QED
      BY <3>1, <3>2, <3>3
  <2> QED
    BY <2>1, <2>2, <2>3, <2>4, <2>5, <2>6, <2>7, <2>8 DEF Next
<1> QED
  BY <1>1, InitIInv, PTL DEF Spec

(* Every variable keeps its type; no pass leaves the table.                *)
THEOREM TypeCorrect == Spec => []TypeOK
<1>1. IInv => TypeOK
  BY DEF IInv
<1> QED
  BY <1>1, Invariant, PTL

(* No section is ever in two groups, nor twice in one.                     *)
THEOREM Disjoint == Spec => []GroupsAreDisjoint
<1>1. IInv => GroupsAreDisjoint
  BY DEF IInv
<1> QED
  BY <1>1, Invariant, PTL

(* One number for a group, one group for a number, in both passes.         *)
THEOREM NumbersTellGroupsApart == Spec => []OneNumberPerGroup
<1>1. IInv => OneNumberPerGroup
  BY DEF IInv
<1> QED
  BY <1>1, Invariant, PTL

(* A section with the number of a group is a member of one, unless an      *)
(* error stopped the reading of its group.                                 *)
THEOREM NumbersAreFromGroups == Spec => []NumberedAreMembers
<1>1. IInv => NumberedAreMembers
  <2> SUFFICES ASSUME IInv, pc \in {"find", "number", "done"},
                      NEW s \in AllSections, group_number[s] >= FirstGroupNumber
               PROVE  \E g \in DOMAIN group_array : s \in Members(g)
    BY DEF NumberedAreMembers
  <2>1. group_number[s] \in FirstGroupNumber .. next_number - 1
    BY DEF IInv, TypeOK, NumbersInRange, FirstGroupNumber
  <2> QED
    BY <2>1 DEF IInv, NumberedAreListed
<1> QED
  BY <1>1, Invariant, PTL

(* When both passes are over, the DWARF sections but the last are marked   *)
(* and have a group, and those in group 2 are the .dwo ones.               *)
THEOREM DwarfHasGroups == Spec => []VisitedDwarfIsNumbered
<1>1. IInv => VisitedDwarfIsNumbered
  <2> SUFFICES ASSUME IInv, pc = "done" PROVE VisitedDwarfIsNumbered
    BY DEF VisitedDwarfIsNumbered
  <2>1. is_dwarf = DwarfBelow(LastSection)
    BY DEF IInv, DwarfSoFar
  <2>2. DwarfBelow(LastSection) = (Of("dwarf") \cup Of("dwo")) \cap Visited
    BY Sections DEF DwarfBelow, Of, Visited, AllSections
  <2>3. \A s \in is_dwarf : Numbered(s)
    BY DEF IInv, DwarfSoFar
  <2> QED
    BY <2>1, <2>2, <2>3 DEF VisitedDwarfIsNumbered, Numbered
<1> QED
  BY <1>1, Invariant, PTL
=============================================================================
