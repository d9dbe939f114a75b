------------------------- MODULE WastedSpaceProofs -------------------------
(***************************************************************************)
(* Proofs about WastedSpace, for every file, every list of areas and every *)
(* width of the offsets.                                                   *)
(***************************************************************************)
EXTENDS WastedSpace, TLAPS, FiniteSetTheorems

(* The bytes alignment may add are fewer than the alignment.               *)
LEMMA DistanceType ==
    ASSUME NEW last \in Nat, NEW align \in Nat, align > 1
    PROVE  Distance(last, align) \in 0 .. align - 1
BY DEF Distance

(* An end computed in machine words is a number.                           *)
LEMMA WrapType ==
    ASSUME NEW x \in Word, NEW y \in Word
    PROVE  Wrap(x + y) \in Word
BY ModulusAssumption DEF Word, Wrap

(* An inserted area has the type of areas.                                 *)
LEMMA NewAreaType ==
    ASSUME NEW o \in Word, NEW l \in Word, NEW al \in Word
    PROVE  NewArea(o, l, al) \in Area
BY WrapType DEF NewArea, Area

(* The initial state is of the right type.                                 *)
LEMMA InitType == Init => TypeOK
<1> SUFFICES ASSUME Init PROVE TypeOK
  OBVIOUS
<1>1. 0 \in Word /\ HeaderSize \in Word /\ HeaderAlign \in Word
  BY ModulusAssumption, FileAssumption DEF Word, HeaderAlign
<1>2. NewArea(0, HeaderSize, HeaderAlign) \in Area
  BY <1>1, NewAreaType
<1>3. NoArea \in Area
  BY <1>1 DEF NoArea, Area
<1>4. NoTail \in Tails
  BY <1>1 DEF NoTail, Tails
<1> QED
  BY <1>1, <1>2, <1>3, <1>4 DEF Init, TypeOK

(* What a step of the loop finds in the areas it compares.                 *)
LEMMA CurrentType ==
    ASSUME TypeOK, Looking
    PROVE  /\ i \in 1 .. Len(areas)
           /\ current \in Area
           /\ current.off \in Nat /\ current.len \in Nat
           /\ current.align \in Nat /\ current.last \in Nat
           /\ low.off \in Nat /\ low.last \in Nat
           /\ areas' = areas /\ i' = i + 1 /\ pc' = pc /\ pc = "scan"
           /\ inuse' = inuse /\ high' = high /\ tail' = tail
<1>1. i \in 1 .. Len(areas)
  BY DEF TypeOK, Looking
<1>2. areas[i] \in Area
  BY <1>1 DEF TypeOK
<1>3. Word \subseteq Nat
  BY ModulusAssumption DEF Word
<1>4. low \in Area /\ areas[i] \in Area
  BY <1>2 DEF TypeOK
<1>5. /\ areas[i].off \in Nat /\ areas[i].len \in Nat
      /\ areas[i].align \in Nat /\ areas[i].last \in Nat
      /\ low.off \in Nat /\ low.last \in Nat
  BY <1>3, <1>4 DEF Area
<1> QED
  BY <1>1, <1>4, <1>5 DEF Looking, current

(* A gap of the report has the type of gaps.                               *)
LEMMA TheGapType ==
    ASSUME TypeOK, Looking
    PROVE  TheGap \in Gap
<1>1. current \in Area /\ low \in Area
  BY CurrentType DEF TypeOK
<1> QED
  BY <1>1 DEF TheGap, Gap, Area

(* A step of the scan keeps types.                                         *)
LEMMA ScanType == TypeOK /\ Scan => TypeOK'
<1> SUFFICES ASSUME TypeOK, Scan PROVE TypeOK'
  OBVIOUS
<1>1. Looking
  BY DEF Scan, SkipEmpty, FirstInstance, SameOffset, Adjacent, AlignmentGap,
         ContentGap, Contained, OddOverlap, Comparing, AfterLow, BeforeLowsEnd
<1>2. /\ i' \in Nat \ {0}
      /\ inuse' \in Seq(Area) /\ areas' \in Seq(Area) /\ high' \in Word
      /\ pc' \in {"load", "sort", "scan", "done", "failed"}
      /\ tail' \in Tails
  BY <1>1, CurrentType DEF TypeOK
<1>3. first' \in BOOLEAN /\ low' \in Area
  BY <1>1, CurrentType
  DEF TypeOK, Scan, SkipEmpty, FirstInstance, SameOffset, Adjacent,
      AlignmentGap, ContentGap, Contained, OddOverlap, Comparing, AfterLow,
      BeforeLowsEnd
<1>4. gaps' \subseteq Gap
  BY <1>1, TheGapType
  DEF TypeOK, Scan, SkipEmpty, FirstInstance, SameOffset, Adjacent,
      AlignmentGap, ContentGap, Contained, OddOverlap, unreported
<1>5. odd' \subseteq Area \X Area
  BY <1>1, CurrentType
  DEF TypeOK, Scan, SkipEmpty, FirstInstance, SameOffset, Adjacent,
      AlignmentGap, ContentGap, Contained, OddOverlap, unreported
<1>6. AlignmentGap => Distance(low.last, current.align) \in Nat
  <2> SUFFICES ASSUME AlignmentGap PROVE Distance(low.last, current.align) \in Nat
    OBVIOUS
  <2>1. current.align \in Nat /\ low.last \in Nat
    BY <1>1, CurrentType
  <2>2. current.align > 1
    BY DEF AlignmentGap, ExplainedByAlignment
  <2> QED
    BY <2>1, <2>2, DistanceType
<1>7. ContentGap => current.off - low.last \in Nat
  BY <1>1, CurrentType DEF ContentGap, AfterLow
<1>8. /\ alignCount' \in Nat /\ alignSpace' \in Nat
      /\ contentCount' \in Nat /\ contentSpace' \in Nat
  <2>1. /\ alignCount \in Nat /\ alignSpace \in Nat
        /\ contentCount \in Nat /\ contentSpace \in Nat
    BY DEF TypeOK
  <2>2. CASE AlignmentGap
    BY <1>6, <2>1, <2>2 DEF AlignmentGap
  <2>3. CASE ContentGap
    BY <1>7, <2>1, <2>3 DEF ContentGap
  <2>4. CASE ~AlignmentGap /\ ~ContentGap
    BY <2>1, <2>4
    DEF Scan, SkipEmpty, FirstInstance, SameOffset, Adjacent, Contained,
        OddOverlap, unreported
  <2> QED
    BY <2>2, <2>3, <2>4
<1> QED
  BY <1>2, <1>3, <1>4, <1>5, <1>8 DEF TypeOK

(* Every step keeps types.                                                 *)
LEMMA StepType == TypeOK /\ [Next]_vars => TypeOK'
<1> SUFFICES ASSUME TypeOK, [Next]_vars PROVE TypeOK'
  OBVIOUS
<1>1. ASSUME NEW t \in Targets, InsertInUse(t) PROVE TypeOK'
  <2>1. NewArea(t.off, t.len, t.align) \in Area
    BY TargetsAssumption, NewAreaType DEF Word
  <2>2. inuse' \in Seq(Area)
    BY <1>1, <2>1 DEF InsertInUse, TypeOK
  <2> QED
    BY <1>1, <2>2 DEF InsertInUse, TypeOK, report
<1>2. CASE CopyList
  <2>1. high' \in Word
    <3>1. PICK k \in DOMAIN inuse : high' = inuse[k].last
      BY <1>2 DEF CopyList
    <3>2. inuse[k] \in Area
      BY DEF TypeOK
    <3> QED
      BY <3>1, <3>2 DEF Area
  <2>2. << >> \in Seq(Area)
    OBVIOUS
  <2> QED
    BY <1>2, <2>1, <2>2 DEF CopyList, TypeOK, report
<1>3. CASE NoArray
  BY <1>3 DEF NoArray, TypeOK, report
<1>4. CASE Sort
  <2>1. PICK p \in Permutation(Len(areas)) :
            areas' = [k \in 1 .. Len(areas) |-> areas[p[k]]]
    BY <1>4 DEF Sort
  <2>2. areas' \in Seq(Area) /\ Len(areas') = Len(areas)
    <3>0. p \in [1 .. Len(areas) -> 1 .. Len(areas)]
      BY Zenon DEF Permutation
    <3>1. \A k \in 1 .. Len(areas) : areas[p[k]] \in Area
      <4>1. \A k \in 1 .. Len(areas) : areas[k] \in Area
        BY DEF TypeOK
      <4> QED
        BY <3>0, <4>1
    <3> QED
      BY <2>1, <3>1 DEF TypeOK
  <2> QED
    BY <1>4, <2>2 DEF Sort, TypeOK, report
<1>5. CASE Scan
  BY <1>5, ScanType
<1>6. CASE EndOfFile
  <2>1. tail' \in Tails
    BY <1>6, FileAssumption, ModulusAssumption
    DEF EndOfFile, TailMessage, TypeOK, Tails, Word, NoTail
  <2> QED
    BY <1>6, <2>1 DEF EndOfFile, TypeOK, report
<1>7. CASE UNCHANGED vars
  BY <1>7 DEF vars, TypeOK
<1> QED
  BY <1>1, <1>2, <1>3, <1>4, <1>5, <1>6, <1>7 DEF Next, Returned

(* Every variable keeps its type, however many areas the file describes:   *)
(* the counters never go below zero and no offset leaves Dwarf_Unsigned.   *)
THEOREM TypeCorrect == Spec => []TypeOK
<1> QED
  BY InitType, StepType, PTL DEF Spec

-----------------------------------------------------------------------------
(* Safety of the scan.                                                     *)

(* What the loop knows of the areas it passed and of the one it looks at.  *)
LEMMA SeenGrows ==
    ASSUME IInv, Looking
    PROVE  /\ Seen' = Seen \cup {current}
           /\ NoneWraps' = NoneWraps
           /\ Scanning /\ Scanning'
           /\ Seen \subseteq Area
           /\ \A a \in Seen : NotAfter(a, current)
<1>1. /\ i \in 1 .. Len(areas) /\ i' = i + 1 /\ areas' = areas /\ pc = "scan"
      /\ pc' = pc
  BY CurrentType DEF IInv
<1>2. 1 .. i' - 1 = (1 .. i - 1) \cup {i}
  BY <1>1
<1>3. Seen' = Seen \cup {current}
  BY <1>1, <1>2 DEF Seen, current
<1>4. \A k \in 1 .. i - 1 : k \in DOMAIN areas /\ areas[k] \in Area /\ k < i
  BY <1>1 DEF IInv, TypeOK
<1>5. \A k \in 1 .. i - 1 : NotAfter(areas[k], areas[i])
  BY <1>1, <1>4 DEF IInv, ScanPosition, Scanning, Ordered, TypeOK
<1> QED
  BY <1>1, <1>3, <1>4, <1>5 DEF Seen, current, NoneWraps, Scanning

(* Areas that do not wrap start and end where they say.                    *)
LEMMA AreaBounds ==
    ASSUME NEW a \in Area
    PROVE  /\ a.off \in Nat /\ a.len \in Nat /\ a.last \in Nat
           /\ ~ Wraps(a) => a.last = a.off + a.len
<1>1. Word \subseteq Nat
  BY ModulusAssumption DEF Word
<1> QED
  BY <1>1 DEF Area, Wraps

(* The facts every comparison rests on, once some non-empty area was seen. *)
LEMMA LoopFacts ==
    ASSUME IInv, Looking, ~first, NoneWraps
    PROVE  /\ low \in Seen /\ low.off \in Nat /\ low.last \in Nat
           /\ low.off < low.last
           /\ current.off \in Nat /\ current.last \in Nat
           /\ current.last = current.off + current.len
           /\ NotAfter(low, current)
           /\ low.off <= current.off
           /\ \A a \in Seen : \A b \in Nat : Covers(a, b) => b < low.last
<1>1. Scanning /\ Seen \subseteq Area /\ \A a \in Seen : NotAfter(a, current)
  BY SeenGrows
<1>2. /\ low \in Seen /\ low.len # 0
      /\ \A a \in Seen : a.len # 0 => a.last <= low.last
  BY <1>1 DEF IInv, LowReachesFurthest, ScanPosition
<1>3. i \in 1 .. Len(areas) /\ current \in Area
  BY CurrentType DEF IInv
<1>4. \A k \in 1 .. Len(areas) : ~ Wraps(areas[k])
  BY DEF NoneWraps, IInv, TypeOK
<1>5. ~ Wraps(current) /\ \A a \in Seen : ~ Wraps(a)
  BY <1>3, <1>4 DEF Seen, current
<1>6. low \in Area
  BY <1>1, <1>2
<1>7. NotAfter(low, current) /\ low.off <= current.off
  BY <1>1, <1>2, <1>3, <1>6, AreaBounds DEF NotAfter
<1>8. ASSUME NEW a \in Seen, NEW b \in Nat, Covers(a, b) PROVE b < low.last
  <2>1. a \in Area /\ a.last = a.off + a.len /\ a.off \in Nat /\ a.len \in Nat
    BY <1>1, <1>5, AreaBounds
  <2>2. a.len # 0
    BY <1>8, <2>1 DEF Covers
  <2>3. a.last <= low.last
    BY <1>2, <2>2
  <2> QED
    BY <1>8, <2>1, <2>3, <1>6, AreaBounds DEF Covers
<1>9. low.last = low.off + low.len /\ low.len \in Nat /\ low.off \in Nat
  BY <1>5, <1>2, <1>6, AreaBounds
<1>10. /\ current.last = current.off + current.len
       /\ current.off \in Nat /\ current.last \in Nat
  BY <1>3, <1>5, AreaBounds
<1> QED
  BY <1>2, <1>7, <1>8, <1>9, <1>10

SafetyParts == GapsEndBelowLow /\ LowReachesFurthest /\ GapsAreTheHoles
               /\ TotalsCountTheHoles

(* A step that reports no gap: what current adds below low's end was       *)
(* covered already, and it covers whatever low' reaches beyond.            *)
LEMMA StepWithoutGap ==
    ASSUME IInv, Looking, ~first, NoneWraps, ~first',
           gaps' = gaps, alignSpace' = alignSpace,
           contentSpace' = contentSpace,
           low' \in Seen', low'.last \in Nat, low'.last >= low.last,
           current.len # 0 => current.last <= low'.last,
           \A b \in low.last .. low'.last - 1 : Covers(current, b),
           \A b \in 0 .. low.last - 1 : Covers(current, b) =>
                \E a \in Seen : Covers(a, b)
    PROVE  SafetyParts'
<1>1. /\ Seen' = Seen \cup {current} /\ NoneWraps' /\ Scanning
      /\ Seen \subseteq Area
  BY SeenGrows
<1>2. low.last \in Nat
  BY LoopFacts
<1>3. /\ \A g \in gaps : g.to <= low.last
      /\ \A a \in Seen : a.len # 0 => a.last <= low.last
      /\ \A b \in 0 .. low.last - 1 : InGap(b) <=> ~ \E a \in Seen : Covers(a, b)
      /\ alignSpace + contentSpace = Cardinality(Holes)
  BY <1>1 DEF IInv, GapsEndBelowLow, LowReachesFurthest, GapsAreTheHoles,
              TotalsCountTheHoles
<1>4. \A g \in gaps : g.to \in Nat
  BY ModulusAssumption DEF IInv, TypeOK, Gap, Word
<1>5. \A a \in Seen : a.last \in Nat
  BY <1>1, AreaBounds
<1>6. \A g \in gaps' : g.to <= low'.last
  BY <1>2, <1>3, <1>4
<1>7. \A a \in Seen' : a.len # 0 => a.last <= low'.last
  BY <1>1, <1>2, <1>3, <1>5
<1>8. \A b : InGap(b)' <=> InGap(b)
  BY DEF InGap
<1>9. \A b \in 0 .. low'.last - 1 :
          InGap(b)' <=> ~ \E a \in Seen' : Covers(a, b)
  <2> TAKE b \in 0 .. low'.last - 1
  <2>1. CASE b < low.last
    BY <1>1, <1>2, <1>3, <1>8, <2>1
  <2>2. CASE ~(b < low.last)
    <3>1. Covers(current, b)
      BY <1>2, <2>2
    <3>2. ~ InGap(b)
      BY <1>2, <1>3, <1>4, <2>2 DEF InGap
    <3> QED
      BY <1>1, <1>8, <3>1, <3>2
  <2> QED
    BY <2>1, <2>2
<1>10. Holes' = Holes
  <2>1. ASSUME NEW b \in Nat
        PROVE  b \in Holes' <=> b \in Holes
    <3>1. CASE b < low.last
      BY <1>1, <1>2, <3>1 DEF Holes
    <3>2. CASE ~(b < low.last)
      BY <1>1, <1>2, <3>2 DEF Holes
    <3> QED
      BY <3>1, <3>2
  <2>2. Holes' \subseteq Nat /\ Holes \subseteq Nat
    BY <1>2 DEF Holes
  <2> QED
    BY <2>1, <2>2
<1> QED
  BY <1>3, <1>6, <1>7, <1>9, <1>10
  DEF SafetyParts, GapsEndBelowLow, LowReachesFurthest, GapsAreTheHoles,
      TotalsCountTheHoles

(* A step that reports the gap below current: the bytes it names were in   *)
(* no area so far, and current reaches further than every area before it.  *)
LEMMA StepWithGap ==
    ASSUME IInv, Looking, ~first, NoneWraps, ~first',
           current.off > low.last, current.len # 0,
           gaps' = gaps \cup {TheGap}, low' = current,
           alignSpace' + contentSpace' =
               alignSpace + contentSpace + (current.off - low.last)
    PROVE  SafetyParts'
<1>1. /\ Seen' = Seen \cup {current} /\ NoneWraps' /\ Scanning
      /\ Seen \subseteq Area
  BY SeenGrows
<1>2. /\ low.last \in Nat /\ current.off \in Nat /\ current.last \in Nat
      /\ current.len \in Nat /\ current.last = current.off + current.len
      /\ \A a \in Seen : \A b \in Nat : Covers(a, b) => b < low.last
  BY LoopFacts, CurrentType DEF IInv
<1>3. /\ \A g \in gaps : g.to <= low.last
      /\ \A a \in Seen : a.len # 0 => a.last <= low.last
      /\ \A b \in 0 .. low.last - 1 : InGap(b) <=> ~ \E a \in Seen : Covers(a, b)
      /\ alignSpace + contentSpace = Cardinality(Holes)
  BY <1>1 DEF IInv, GapsEndBelowLow, LowReachesFurthest, GapsAreTheHoles,
              TotalsCountTheHoles
<1>4. \A g \in gaps : g.to \in Nat
  BY ModulusAssumption DEF IInv, TypeOK, Gap, Word
<1>5. \A a \in Seen : a.last \in Nat
  BY <1>1, AreaBounds
<1>6. \A g \in gaps' : g.to <= low'.last
  BY <1>2, <1>3, <1>4 DEF TheGap
<1>7. low' \in Seen' /\ \A a \in Seen' : a.len # 0 => a.last <= low'.last
  BY <1>1, <1>2, <1>3, <1>5
<1>8. \A b \in Nat : InGap(b)' <=> InGap(b) \/ (low.last <= b /\ b < current.off)
  <2>1. TheGap.from = low.last /\ TheGap.to = current.off
    BY DEF TheGap
  <2>2. ASSUME NEW b \in Nat
        PROVE  (\E g \in gaps \cup {TheGap} : g.from <= b /\ b < g.to)
               <=> \/ \E g \in gaps : g.from <= b /\ b < g.to
                   \/ TheGap.from <= b /\ b < TheGap.to
    OBVIOUS
  <2> QED
    BY <2>1, <2>2 DEF InGap
<1>9. \A b \in 0 .. low'.last - 1 :
          InGap(b)' <=> ~ \E a \in Seen' : Covers(a, b)
  <2> TAKE b \in 0 .. low'.last - 1
  <2>1. b \in Nat /\ (Covers(current, b) <=> current.off <= b)
    BY <1>2 DEF Covers
  <2>2. CASE b < low.last
    BY <1>1, <1>2, <1>3, <1>8, <2>1, <2>2
  <2>3. CASE low.last <= b /\ b < current.off
    BY <1>1, <1>2, <1>8, <2>1, <2>3
  <2>4. CASE current.off <= b
    <3>1. ~ InGap(b)
      BY <1>2, <1>3, <1>4, <2>1, <2>4 DEF InGap
    <3> QED
      BY <1>1, <1>2, <1>8, <2>1, <2>4, <3>1
  <2> QED
    BY <1>2, <2>1, <2>2, <2>3, <2>4
<1>10. Holes' = Holes \cup (low.last .. current.off - 1)
  <2>1. ASSUME NEW b \in Nat
        PROVE  b \in Holes' <=> b \in Holes \/ b \in low.last .. current.off - 1
    <3>1. Covers(current, b) <=> current.off <= b /\ b < current.last
      BY DEF Covers
    <3>2. CASE b < low.last
      BY <1>1, <1>2, <3>1, <3>2 DEF Holes
    <3>3. CASE ~(b < low.last)
      BY <1>1, <1>2, <3>1, <3>3 DEF Holes
    <3> QED
      BY <3>2, <3>3
  <2>2. Holes' \subseteq Nat /\ Holes \subseteq Nat
    BY <1>2 DEF Holes
  <2>3. low.last .. current.off - 1 \subseteq Nat
    BY <1>2
  <2>4. \A b : b \in Holes' <=> b \in Holes \/ b \in low.last .. current.off - 1
    BY <2>1, <2>2, <2>3, Zenon
  <2> QED
    BY <2>4, Zenon
<1>11. Cardinality(Holes') = Cardinality(Holes) + (current.off - low.last)
  <2>1. IsFiniteSet(Holes)
    <3>0. 0 \in Int /\ low.last - 1 \in Int
      BY <1>2
    <3>1. IsFiniteSet(0 .. low.last - 1)
      BY <3>0, FS_Interval
    <3>2. Holes \subseteq 0 .. low.last - 1
      BY DEF Holes
    <3> QED
      BY <3>1, <3>2, FS_Subset, Zenon
  <2>2. /\ IsFiniteSet(low.last .. current.off - 1)
        /\ Cardinality(low.last .. current.off - 1) = current.off - low.last
    <3>1. low.last \in Int /\ current.off - 1 \in Int
      BY <1>2
    <3>2. Cardinality(low.last .. current.off - 1) =
              IF low.last > current.off - 1 THEN 0
              ELSE (current.off - 1) - low.last + 1
      BY <3>1, FS_Interval
    <3>3. IsFiniteSet(low.last .. current.off - 1)
      BY <3>1, FS_Interval
    <3>4. (current.off - 1) - low.last + 1 = current.off - low.last
          /\ ~(low.last > current.off - 1)
      BY <1>2
    <3> QED
      BY <3>2, <3>3, <3>4
  <2>3. Holes \cap (low.last .. current.off - 1) = {}
    BY <1>2 DEF Holes
  <2>4. /\ Cardinality({}) = 0
        /\ Cardinality(Holes) \in Nat
    BY <2>1, FS_EmptySet, FS_CardinalityType
  <2>5. Cardinality(Holes \cup (low.last .. current.off - 1)) =
            Cardinality(Holes) + Cardinality(low.last .. current.off - 1)
            - Cardinality(Holes \cap (low.last .. current.off - 1))
    BY <2>1, <2>2, FS_Union
  <2>6. Cardinality(Holes \cap (low.last .. current.off - 1)) = 0
    BY <2>3, <2>4
  <2>7. Cardinality(Holes) + (current.off - low.last) - 0
            = Cardinality(Holes) + (current.off - low.last)
    BY <1>2, <2>4
  <2> QED
    BY <1>10, <2>2, <2>5, <2>6, <2>7
<1>12. alignSpace' + contentSpace' = Cardinality(Holes')
  BY <1>3, <1>11
<1> QED
  BY <1>6, <1>7, <1>9, <1>12
  DEF SafetyParts, GapsEndBelowLow, LowReachesFurthest, GapsAreTheHoles,
      TotalsCountTheHoles

(* The first non-empty area starts at the start of the file.               *)
LEMMA FirstAtZero ==
    ASSUME IInv, FirstInstance
    PROVE  current.off = 0
<1>1. /\ i \in 1 .. Len(areas) /\ pc = "scan" /\ current.off \in Nat
      /\ \A k \in 1 .. i - 1 : areas[k].len = 0
  BY CurrentType DEF IInv, ScanPosition, Scanning, FirstInstance, Looking
<1>2. PICK h \in DOMAIN areas : areas[h] = TheHeader
  BY <1>1 DEF IInv, HeaderListed, Scanning
<1>3. areas[h].off = 0 /\ areas[h].len # 0 /\ h \in 1 .. Len(areas)
  BY <1>2, FileAssumption DEF TheHeader, NewArea, IInv, TypeOK
<1>4. CASE h = i
  BY <1>3, <1>4 DEF current
<1>5. CASE h # i
  <2>1. i < h
    BY <1>1, <1>3, <1>5
  <2>2. NotAfter(areas[i], areas[h])
    BY <1>1, <1>3, <2>1 DEF IInv, ScanPosition, Scanning, Ordered, TypeOK
  <2> QED
    BY <1>1, <1>3, <2>2 DEF NotAfter, current
<1> QED
  BY <1>4, <1>5

(* The first area that is not empty is remembered and leaves no gap.       *)
LEMMA StepFirst ==
    ASSUME IInv, FirstInstance, NoneWraps
    PROVE  SafetyParts'
<1>1. Looking /\ first /\ current.len # 0 /\ low' = current
  BY DEF FirstInstance
<1>2. /\ Seen' = Seen \cup {current} /\ Scanning /\ Seen \subseteq Area
  BY <1>1, SeenGrows
<1>3. /\ gaps = {} /\ alignSpace = 0 /\ contentSpace = 0
      /\ \A a \in Seen : a.len = 0
  BY <1>1, <1>2 DEF IInv, ScanPosition, NothingYet, Seen
<1>4. gaps' = {} /\ alignSpace' = 0 /\ contentSpace' = 0
  BY <1>3 DEF FirstInstance, unreported
<1>5. current.off = 0 /\ current.last \in Nat
  BY <1>1, FirstAtZero, CurrentType DEF IInv
<1>6. \A b \in 0 .. low'.last - 1 : Covers(current, b)
  BY <1>1, <1>5 DEF Covers
<1>7. low' \in Seen' /\ \A a \in Seen' : a.len # 0 => a.last <= low'.last
  BY <1>1, <1>2, <1>3, <1>5
<1>8. Holes' = {}
  BY <1>1, <1>2, <1>6 DEF Holes
<1>9. alignSpace' + contentSpace' = Cardinality(Holes')
  BY <1>4, <1>8, FS_EmptySet
<1>10. \A b \in 0 .. low'.last - 1 :
           InGap(b)' <=> ~ \E a \in Seen' : Covers(a, b)
  BY <1>1, <1>2, <1>4, <1>6 DEF InGap
<1> QED
  BY <1>4, <1>7, <1>9, <1>10
  DEF SafetyParts, GapsEndBelowLow, LowReachesFurthest, GapsAreTheHoles,
      TotalsCountTheHoles

(* A step of the scan keeps the inductive invariant.                       *)
LEMMA ScanSafe == IInv /\ Scan => IInv'
<1> SUFFICES ASSUME IInv, Scan PROVE IInv'
  OBVIOUS
<1>1. Looking
  BY DEF Scan, SkipEmpty, FirstInstance, SameOffset, Adjacent, AlignmentGap,
         ContentGap, Contained, OddOverlap, Comparing, AfterLow, BeforeLowsEnd
<1>2. /\ i \in 1 .. Len(areas) /\ i' = i + 1 /\ areas' = areas /\ pc = "scan"
      /\ pc' = pc /\ inuse' = inuse /\ high' = high /\ tail' = tail
  BY <1>1, CurrentType DEF IInv
<1>3. TypeOK'
  BY ScanType DEF IInv
<1>4. HeaderListed' /\ HighIsHighest' /\ TailStartsAtHigh'
  BY <1>2 DEF IInv, HeaderListed, HighIsHighest, TailStartsAtHigh, Scanning
<1>5. i' \in 1 .. Len(areas') + 1 /\ Ordered(areas')
  BY <1>2 DEF IInv, ScanPosition, Scanning, TypeOK
<1>6. CASE first /\ SkipEmpty
  <2>1. NothingYet' /\ first'
    BY <1>2, <1>6 DEF IInv, ScanPosition, Scanning, NothingYet, SkipEmpty,
                      unreported
  <2>2. \A k \in 1 .. i' - 1 : areas'[k].len = 0
    BY <1>2, <1>6 DEF IInv, ScanPosition, Scanning, SkipEmpty, current
  <2>3. ScanPosition'
    BY <1>2, <1>5, <2>1, <2>2 DEF ScanPosition, Scanning
  <2> QED
    BY <1>3, <1>4, <2>1, <2>3
    DEF IInv, GapsEndBelowLow, LowReachesFurthest, GapsAreTheHoles,
        TotalsCountTheHoles
<1>7. CASE ~(first /\ SkipEmpty)
  <2>1. ~first' /\ (first => FirstInstance)
    BY <1>7
    DEF Scan, SkipEmpty, FirstInstance, SameOffset, Adjacent, AlignmentGap,
        ContentGap, Contained, OddOverlap, Comparing, AfterLow, BeforeLowsEnd
  <2>2. low'.len # 0
    BY <1>2, <2>1
    DEF Scan, SkipEmpty, FirstInstance, SameOffset, Adjacent, AlignmentGap,
        ContentGap, Contained, OddOverlap, Comparing, AfterLow, BeforeLowsEnd,
        IInv, ScanPosition, Scanning
  <2>3. ScanPosition'
    BY <1>2, <1>5, <2>1, <2>2 DEF ScanPosition, Scanning
  <2>4. NoneWraps' = NoneWraps
    BY <1>1, SeenGrows
  <2>5. CASE ~NoneWraps
    BY <1>3, <1>4, <2>3, <2>4, <2>5
    DEF IInv, GapsEndBelowLow, LowReachesFurthest, GapsAreTheHoles,
        TotalsCountTheHoles
  <2>6. CASE NoneWraps /\ first
    BY <1>3, <1>4, <2>1, <2>3, <2>6, StepFirst DEF IInv, SafetyParts
  <2>7. CASE NoneWraps /\ ~first
    <3>1. /\ low \in Seen /\ low.off \in Nat /\ low.last \in Nat
          /\ low.off < low.last
          /\ current.off \in Nat /\ current.last \in Nat
          /\ current.last = current.off + current.len
          /\ NotAfter(low, current)
          /\ low.off <= current.off
      BY <1>1, <2>7, LoopFacts
    <3>2. Seen' = Seen \cup {current} /\ current.len \in Nat
      BY <1>1, SeenGrows, CurrentType DEF IInv
    <3>3. \A b \in low.off .. low.last - 1 : \E a \in Seen : Covers(a, b)
      BY <3>1 DEF Covers
    <3>4. ASSUME SkipEmpty PROVE SafetyParts'
      <4>1. low' = low /\ current.len = 0 /\ gaps' = gaps
            /\ alignSpace' = alignSpace /\ contentSpace' = contentSpace
        BY <3>4 DEF SkipEmpty, unreported
      <4>2. \A b \in Nat : ~ Covers(current, b)
        BY <3>1, <4>1 DEF Covers
      <4>3. SafetyParts'
        BY <1>1, <2>1, <2>7, <3>1, <3>2, <4>1, <4>2, StepWithoutGap
      <4> QED
        BY <4>3
    <3>5. ASSUME SameOffset PROVE SafetyParts'
      <4>1. low' = current /\ current.off = low.off /\ gaps' = gaps
            /\ alignSpace' = alignSpace /\ contentSpace' = contentSpace
        BY <3>5 DEF SameOffset, unreported
      <4>2. low.last <= current.last
        BY <3>1, <4>1 DEF NotAfter
      <4>3. \A b \in low.last .. current.last - 1 : Covers(current, b)
        BY <3>1, <4>1 DEF Covers
      <4>4. \A b \in 0 .. low.last - 1 :
                Covers(current, b) => \E a \in Seen : Covers(a, b)
        BY <3>1, <3>3, <4>1 DEF Covers
      <4>5. SafetyParts'
        BY <1>1, <2>1, <2>7, <3>1, <3>2, <4>1, <4>2, <4>3, <4>4, StepWithoutGap
      <4> QED
        BY <4>5
    <3>6. ASSUME Adjacent PROVE SafetyParts'
      <4>1. low' = current /\ current.off = low.last /\ gaps' = gaps
            /\ alignSpace' = alignSpace /\ contentSpace' = contentSpace
        BY <3>6 DEF Adjacent, unreported
      <4>2. low.last <= current.last
        BY <3>1, <3>2, <4>1
      <4>3. \A b \in low.last .. current.last - 1 : Covers(current, b)
        BY <3>1, <4>1 DEF Covers
      <4>4. \A b \in 0 .. low.last - 1 : ~ Covers(current, b)
        BY <3>1, <4>1 DEF Covers
      <4>5. SafetyParts'
        BY <1>1, <2>1, <2>7, <3>1, <3>2, <4>1, <4>2, <4>3, <4>4, StepWithoutGap
      <4> QED
        BY <4>5
    <3>7. ASSUME Contained PROVE SafetyParts'
      <4>1. low' = low /\ current.last <= low.last /\ gaps' = gaps
            /\ alignSpace' = alignSpace /\ contentSpace' = contentSpace
        BY <3>7 DEF Contained, unreported
      <4>2. \A b \in 0 .. low.last - 1 :
                Covers(current, b) => \E a \in Seen : Covers(a, b)
        BY <3>1, <3>3, <4>1 DEF Covers
      <4>3. SafetyParts'
        BY <1>1, <2>1, <2>7, <3>1, <3>2, <4>1, <4>2, StepWithoutGap
      <4> QED
        BY <4>3
    <3>8. ASSUME OddOverlap PROVE SafetyParts'
      <4>1. /\ low' = current /\ current.off < low.last
            /\ current.last > low.last /\ gaps' = gaps
            /\ alignSpace' = alignSpace /\ contentSpace' = contentSpace
        BY <3>8 DEF OddOverlap, BeforeLowsEnd
      <4>2. \A b \in low.last .. current.last - 1 : Covers(current, b)
        BY <3>1, <4>1 DEF Covers
      <4>3. \A b \in 0 .. low.last - 1 :
                Covers(current, b) => \E a \in Seen : Covers(a, b)
        BY <3>1, <3>3, <4>1 DEF Covers
      <4>4. SafetyParts'
        BY <1>1, <2>1, <2>7, <3>1, <3>2, <4>1, <4>2, <4>3, StepWithoutGap
      <4> QED
        BY <4>4
    <3>9. ASSUME ContentGap PROVE SafetyParts'
      <4>1. /\ low' = current /\ current.len # 0 /\ current.off > low.last
            /\ gaps' = gaps \cup {TheGap}
            /\ alignSpace' = alignSpace
            /\ contentSpace' = contentSpace + (current.off - low.last)
        BY <3>9 DEF ContentGap, AfterLow, Comparing
      <4>2. alignSpace \in Nat /\ contentSpace \in Nat
        BY DEF IInv, TypeOK
      <4>3. alignSpace' + contentSpace' =
                alignSpace + contentSpace + (current.off - low.last)
        BY <3>1, <4>1, <4>2
      <4>4. SafetyParts'
        BY <1>1, <2>1, <2>7, <4>1, <4>3, StepWithGap
      <4> QED
        BY <4>4
    <3>10. ASSUME AlignmentGap PROVE SafetyParts'
      <4>1. /\ low' = current /\ current.len # 0 /\ current.off > low.last
            /\ gaps' = gaps \cup {TheGap}
            /\ contentSpace' = contentSpace
            /\ alignSpace' = alignSpace + Distance(low.last, current.align)
            /\ current.align > 1
            /\ current.off = Wrap(low.last + Distance(low.last, current.align))
        BY <3>10 DEF AlignmentGap, AfterLow, Comparing, ExplainedByAlignment
      <4>2. current.align \in Word /\ low.last \in Word /\ current.align \in Nat
        BY <1>1, CurrentType DEF IInv, TypeOK, Area
      <4>3. Distance(low.last, current.align) \in 0 .. current.align - 1
        BY <3>1, <4>1, <4>2, DistanceType
      <4>4. current.off = low.last + Distance(low.last, current.align)
        BY <3>1, <4>1, <4>2, <4>3, ModulusAssumption DEF Wrap, Word
      <4>5. alignSpace \in Nat /\ contentSpace \in Nat
        BY DEF IInv, TypeOK
      <4>6. alignSpace' + contentSpace' =
                alignSpace + contentSpace + (current.off - low.last)
        BY <3>1, <4>1, <4>3, <4>4, <4>5
      <4>7. SafetyParts'
        BY <1>1, <2>1, <2>7, <4>1, <4>6, StepWithGap
      <4> QED
        BY <4>7
    <3>11. SafetyParts'
      BY <2>7, <3>4, <3>5, <3>6, <3>7, <3>8, <3>9, <3>10
      DEF Scan, FirstInstance
    <3> QED
      BY <1>3, <1>4, <2>3, <3>11 DEF IInv, SafetyParts
  <2> QED
    BY <2>5, <2>6, <2>7
<1> QED
  BY <1>6, <1>7

(* The inductive invariant holds at the start.                             *)
LEMMA InitSafe == Init => IInv
<1> SUFFICES ASSUME Init PROVE IInv
  OBVIOUS
<1>1. TypeOK
  BY InitType
<1> QED
  BY <1>1
  DEF Init, IInv, HeaderListed, HighIsHighest, TailStartsAtHigh, ScanPosition,
      NothingYet, GapsEndBelowLow, LowReachesFurthest, GapsAreTheHoles,
      TotalsCountTheHoles, TheHeader, Scanning, NoTail

(* Every step keeps it.                                                    *)
LEMMA StepSafe == IInv /\ [Next]_vars => IInv'
<1> SUFFICES ASSUME IInv, [Next]_vars PROVE IInv'
  OBVIOUS
<1>1. TypeOK'
  BY StepType DEF IInv
<1>2. ASSUME NEW t \in Targets, InsertInUse(t) PROVE IInv'
  <2>1. /\ pc' = "load" /\ pc = "load" /\ high' = high /\ tail' = tail
        /\ first' = first /\ i' = i /\ NothingYet' = NothingYet
    BY <1>2 DEF InsertInUse, report, NothingYet
  <2>2. inuse \in Seq(Area) /\ Len(inuse) > 0 /\ inuse[1] = TheHeader
    BY <2>1 DEF IInv, TypeOK, HeaderListed
  <2>3. inuse' = Append(inuse, NewArea(t.off, t.len, t.align))
    BY <1>2 DEF InsertInUse
  <2>4. Len(inuse') > 0 /\ inuse'[1] = TheHeader
    BY <2>2, <2>3
  <2> QED
    BY <1>1, <2>1, <2>4
    DEF IInv, HeaderListed, HighIsHighest, TailStartsAtHigh, ScanPosition,
        GapsEndBelowLow, LowReachesFurthest, GapsAreTheHoles,
        TotalsCountTheHoles, Scanning
<1>3. CASE CopyList
  <2>1. /\ pc' = "sort" /\ pc = "load" /\ tail' = tail /\ areas' = inuse
        /\ first' = first /\ i' = i /\ NothingYet' = NothingYet
    BY <1>3 DEF CopyList, report, NothingYet
  <2>2. inuse \in Seq(Area) /\ Len(inuse) > 0 /\ inuse[1] = TheHeader
    BY <2>1 DEF IInv, TypeOK, HeaderListed
  <2>3. \E k \in DOMAIN areas' : areas'[k] = TheHeader
    BY <2>1, <2>2
  <2>4. HighIsHighest'
    <3>1. /\ \A j \in DOMAIN inuse : inuse[j].last <= high'
          /\ \E j \in DOMAIN inuse : inuse[j].last = high'
      BY <1>3 DEF CopyList, IsHighest
    <3>2. /\ \A j \in DOMAIN areas' : areas'[j].last <= high'
          /\ \E j \in DOMAIN areas' : areas'[j].last = high'
      BY <2>1, <3>1
    <3> QED
      BY <3>2 DEF HighIsHighest
  <2>5. TailStartsAtHigh'
    BY <2>1 DEF IInv, TailStartsAtHigh
  <2> QED
    BY <1>1, <2>1, <2>3, <2>4, <2>5
    DEF IInv, HeaderListed, HighIsHighest, ScanPosition, GapsEndBelowLow,
        LowReachesFurthest, GapsAreTheHoles, TotalsCountTheHoles, Scanning
<1>4. CASE NoArray
  BY <1>1, <1>4
  DEF NoArray, IInv, HeaderListed, HighIsHighest, TailStartsAtHigh,
      ScanPosition, GapsEndBelowLow, LowReachesFurthest, GapsAreTheHoles,
      TotalsCountTheHoles, Scanning
<1>5. CASE Sort
  <2>1. /\ pc' = "scan" /\ pc = "sort" /\ tail' = tail /\ high' = high
        /\ first' = first /\ i' = i /\ NothingYet' = NothingYet
        /\ Ordered(areas')
    BY <1>5 DEF Sort, report, NothingYet
  <2>2. PICK p \in Permutation(Len(areas)) :
            areas' = [k \in 1 .. Len(areas) |-> areas[p[k]]]
    BY <1>5 DEF Sort
  <2>3. areas \in Seq(Area) /\ DOMAIN areas = 1 .. Len(areas)
    BY DEF IInv, TypeOK
  <2>4. PICK h \in 1 .. Len(areas) : areas[h] = TheHeader
    BY <2>1, <2>3 DEF IInv, HeaderListed
  <2>5. PICK k \in 1 .. Len(areas) : p[k] = h
    BY <2>4 DEF Permutation
  <2>6. areas'[k] = TheHeader /\ DOMAIN areas' = 1 .. Len(areas)
    BY <2>2, <2>4, <2>5
  <2>7. /\ \A m \in 1 .. Len(areas) : areas'[m].last <= high
        /\ \E m \in 1 .. Len(areas) : areas'[m].last = high
    <3>1. p \in [1 .. Len(areas) -> 1 .. Len(areas)]
          /\ \A m \in 1 .. Len(areas) : \E j \in 1 .. Len(areas) : p[j] = m
      BY Zenon DEF Permutation
    <3>2. /\ \A m \in 1 .. Len(areas) : areas[m].last <= high
          /\ \E m \in 1 .. Len(areas) : areas[m].last = high
      BY <2>1, <2>3 DEF IInv, HighIsHighest
    <3> QED
      BY <2>2, <3>1, <3>2
  <2>8. i' = 1 /\ first' /\ NothingYet' /\ areas' \in Seq(Area)
    BY <1>1, <2>1 DEF IInv, ScanPosition, TypeOK
  <2>9. ScanPosition'
    BY <2>1, <2>8 DEF ScanPosition
  <2>10. HeaderListed' /\ HighIsHighest' /\ TailStartsAtHigh'
    BY <2>1, <2>6, <2>7
    DEF HeaderListed, HighIsHighest, IInv, TailStartsAtHigh
  <2> QED
    BY <1>1, <2>8, <2>9, <2>10
    DEF IInv, GapsEndBelowLow, LowReachesFurthest, GapsAreTheHoles,
        TotalsCountTheHoles
<1>6. CASE Scan
  BY <1>6, ScanSafe
<1>7. CASE EndOfFile
  <2>1. /\ pc' = "done" /\ pc = "scan" /\ high' = high /\ areas' = areas
        /\ inuse' = inuse /\ i' = i /\ first' = first /\ low' = low
        /\ gaps' = gaps /\ alignSpace' = alignSpace
        /\ contentSpace' = contentSpace
    BY <1>7 DEF EndOfFile, report
  <2>2. /\ Seen' = Seen /\ NoneWraps' = NoneWraps /\ Holes' = Holes
        /\ \A b : InGap(b)' = InGap(b)
    BY <2>1 DEF Seen, NoneWraps, Holes, InGap
  <2>3. TailStartsAtHigh'
    BY <1>7, <2>1 DEF EndOfFile, TailMessage, TailStartsAtHigh, NoTail
  <2>4. HeaderListed' /\ HighIsHighest' /\ ScanPosition'
    BY <2>1
    DEF IInv, HeaderListed, HighIsHighest, ScanPosition, Scanning, NothingYet
  <2> QED
    BY <1>1, <2>1, <2>2, <2>3, <2>4
    DEF IInv, GapsEndBelowLow, LowReachesFurthest, GapsAreTheHoles,
        TotalsCountTheHoles, Scanning
<1>8. CASE UNCHANGED vars
  BY <1>1, <1>8
  DEF vars, IInv, HeaderListed, HighIsHighest, TailStartsAtHigh, ScanPosition,
      GapsEndBelowLow, LowReachesFurthest, GapsAreTheHoles,
      TotalsCountTheHoles, Scanning, NothingYet, Seen, Holes, NoneWraps, InGap
<1> QED
  BY <1>2, <1>3, <1>4, <1>5, <1>6, <1>7, <1>8 DEF Next, Returned

(* The inductive invariant holds throughout.                               *)
THEOREM Safe == Spec => []IInv
<1> QED
  BY InitSafe, StepSafe, PTL DEF Spec

(* low_instance is always one of the areas passed, and reaches as far as   *)
(* any of them: comparing each area with it alone is enough.               *)
THEOREM LowReaches == Spec => []LowReachesFurthest
<1>1. IInv => LowReachesFurthest
  BY DEF IInv
<1> QED
  BY <1>1, Safe, PTL

(* For every file whose areas end within Dwarf_Unsigned, the reported gaps *)
(* are exactly the bytes no area covers.                                   *)
THEOREM GapsExact == Spec => []GapsAreTheHoles
<1>1. IInv => GapsAreTheHoles
  BY DEF IInv
<1> QED
  BY <1>1, Safe, PTL

(* The two totals printed add up to the number of bytes no area covers.    *)
THEOREM TotalsExact == Spec => []TotalsCountTheHoles
<1>1. IInv => TotalsCountTheHoles
  BY DEF IInv
<1> QED
  BY <1>1, Safe, PTL

(* The bytes reported as unused at the end of the file are those in no     *)
(* area and in no gap that was reported before, and not before an empty    *)
(* area: whatever is in no message of the report lies before one.          *)
THEOREM TailExact == Spec => []TailIsTheRest
<1>1. IInv => TailIsTheRest
  <2> SUFFICES ASSUME IInv, pc = "done", NoneWraps, NEW b \in 0 .. FileSize - 1
               PROVE  InTail(b) <=> /\ ~ InGap(b)
                                    /\ \A k \in DOMAIN areas : ~ Covers(areas[k], b)
                                    /\ ~ BeforeEmpty(b)
    BY DEF TailIsTheRest
  <2>1. high \in Nat /\ b \in Nat /\ FileSize \in Nat /\ b < FileSize
    BY ModulusAssumption, FileAssumption DEF IInv, TypeOK, Word
  <2>2. InTail(b) <=> high <= b
    BY <2>1 DEF IInv, TailStartsAtHigh, TailMessage, NoTail, InTail
  <2>3. \A k \in DOMAIN areas : /\ areas[k] \in Area /\ areas[k].last <= high
                               /\ areas[k].last = areas[k].off + areas[k].len
    BY DEF IInv, TypeOK, HighIsHighest, Scanning, NoneWraps, Wraps
  <2>4. i = Len(areas) + 1 /\ Len(areas) \in Nat /\ DOMAIN areas = 1 .. Len(areas)
    BY DEF IInv, TypeOK, ScanPosition, Scanning, TailStartsAtHigh
  <2>5. \A k \in DOMAIN areas : areas[k] \in Seen
    BY <2>4 DEF Seen
  <2>6. ASSUME high <= b
        PROVE  /\ ~ InGap(b)
               /\ \A k \in DOMAIN areas : ~ Covers(areas[k], b)
               /\ ~ BeforeEmpty(b)
    <3>1. \A k \in DOMAIN areas : ~ Covers(areas[k], b)
      BY <2>1, <2>3, <2>6, AreaBounds DEF Covers
    <3>2. ~ BeforeEmpty(b)
      BY <2>1, <2>3, <2>6, AreaBounds DEF BeforeEmpty
    <3>3. CASE first
      BY <3>1, <3>2, <3>3 DEF IInv, ScanPosition, Scanning, NothingYet, InGap
    <3>4. CASE ~first
      <4>1. low \in Seen /\ \A g \in gaps : g.to <= low.last
        BY <3>4 DEF IInv, LowReachesFurthest, GapsEndBelowLow, Scanning
      <4>2. low \in Area /\ low.last <= high
        BY <2>3, <2>4, <4>1 DEF Seen
      <4>3. \A g \in gaps : g.to \in Nat
        BY ModulusAssumption DEF IInv, TypeOK, Gap, Word
      <4> QED
        BY <2>1, <2>6, <3>1, <3>2, <4>1, <4>2, <4>3, AreaBounds DEF InGap
    <3> QED
      BY <3>3, <3>4
  <2>7. ASSUME b < high,
               \A k \in DOMAIN areas : ~ Covers(areas[k], b),
               ~ BeforeEmpty(b)
        PROVE  InGap(b)
    <3>1. PICK h \in DOMAIN areas : areas[h].last = high
      BY DEF IInv, HighIsHighest, Scanning
    <3>2. areas[h].len # 0
      <4>1. areas[h] \in Area /\ areas[h].last = areas[h].off + areas[h].len
        BY <2>3
      <4> QED
        BY <2>1, <2>7, <3>1, <4>1, AreaBounds DEF BeforeEmpty
    <3>3. ~first
      BY <2>4, <3>2 DEF IInv, ScanPosition, Scanning
    <3>4. low.last \in Nat /\ high <= low.last
      <4>1. \A a \in Seen : a.len # 0 => a.last <= low.last
        BY <3>3 DEF IInv, LowReachesFurthest, Scanning
      <4>2. low \in Area
        BY DEF IInv, TypeOK
      <4> QED
        BY <2>5, <3>1, <3>2, <4>1, <4>2, AreaBounds
    <3>5. b \in 0 .. low.last - 1
      BY <2>1, <2>7, <3>4
    <3>6. ~ \E a \in Seen : Covers(a, b)
      BY <2>4, <2>7 DEF Seen
    <3> QED
      BY <3>3, <3>5, <3>6 DEF IInv, GapsAreTheHoles, Scanning
  <2> QED
    BY <2>1, <2>2, <2>6, <2>7
<1> QED
  BY <1>1, Safe, PTL

-----------------------------------------------------------------------------
(* The refinement of SpaceAccounting.  Straddling is said of sets of       *)
(* claims; what one more claim changes depends on where it starts and ends *)
(* next to the claim that reaches furthest, when it starts no earlier than *)
(* all the others.                                                         *)
NatClaim == [from : Nat, to : Nat]
A(C) == Accounting!Outermost(C)

(* C is what the loop has passed, l the area remembered.                   *)
Front(C, l) ==
    /\ C \subseteq NatClaim
    /\ l \in C
    /\ \A x \in C : x.from < x.to /\ x.to <= l.to
    /\ \A x \in C : x.to = l.to => l.from <= x.from

(* c comes behind all of C.                                                *)
Behind(C, c) ==
    /\ c \in NatClaim /\ c.from < c.to
    /\ \A x \in C : x.from < c.from \/ (x.from = c.from /\ x.to <= c.to)

(* A claim is its two ends.                                                *)
LEMMA SameEnds ==
    ASSUME NEW c \in NatClaim, NEW d \in NatClaim, c.from = d.from, c.to = d.to
    PROVE  c = d
BY DEF NatClaim

(* The claim remembered is inside no other.                                *)
LEMMA FrontIsOutermost ==
    ASSUME NEW C, NEW l, Front(C, l)
    PROVE  l \in A(C)
<1>1. ASSUME NEW d \in C, Accounting!Inside(l, d) PROVE FALSE
  <2>1. d.from <= l.from /\ l.to <= d.to /\ l # d /\ d.to <= l.to
    BY <1>1 DEF Accounting!Inside, Front
  <2>2. d \in NatClaim /\ l \in NatClaim
    BY DEF Front
  <2>3. d.to = l.to
    BY <2>1, <2>2 DEF NatClaim
  <2>4. l.from <= d.from
    BY <2>3 DEF Front
  <2>5. d.from = l.from
    BY <2>1, <2>2, <2>4 DEF NatClaim
  <2> QED
    BY <2>1, <2>2, <2>3, <2>5, SameEnds
<1> QED
  BY <1>1 DEF A, Accounting!Outermost, Front

(* A claim behind the end of the others straddles none of them.            *)
LEMMA StraddleAfter ==
    ASSUME NEW C, NEW l, NEW c, Front(C, l), Behind(C, c), l.to <= c.from
    PROVE  /\ Accounting!Straddle(C \cup {c}) <=> Accounting!Straddle(C)
           /\ Front(C \cup {c}, c)
<1>1. \A x \in C : /\ x \in NatClaim /\ x.from \in Nat /\ x.to \in Nat
                   /\ x.from < x.to /\ x.to <= l.to
  BY DEF Front, NatClaim
<1>2. c.from \in Nat /\ c.to \in Nat /\ c.from < c.to /\ l.to \in Nat
      /\ c \in NatClaim
  BY DEF Behind, Front, NatClaim
<1>3. \A x \in C : ~ Accounting!Inside(x, c) /\ ~ Accounting!Inside(c, x)
  BY <1>1, <1>2 DEF Accounting!Inside
<1>4. A(C \cup {c}) = A(C) \cup {c}
  BY <1>3 DEF A, Accounting!Outermost, Accounting!Inside
<1>5. A(C) \subseteq C
  BY DEF A, Accounting!Outermost
<1>6. \A x \in A(C) : ~ (x.from < c.from /\ c.from < x.to)
                      /\ ~ (c.from < x.from)
  BY <1>1, <1>2, <1>5
<1>7. Accounting!Straddle(C \cup {c}) <=> Accounting!Straddle(C)
  <2>1. Accounting!Straddle(C \cup {c}) <=>
            \E x, y \in A(C) \cup {c} : x.from < y.from /\ y.from < x.to
    BY <1>4 DEF A, Accounting!Straddle
  <2>2. ~ (c.from < c.from)
    BY <1>2
  <2>3. (\E x, y \in A(C) \cup {c} : x.from < y.from /\ y.from < x.to)
        <=> \E x, y \in A(C) : x.from < y.from /\ y.from < x.to
    BY <1>6, <2>2
  <2> QED
    BY <2>1, <2>3 DEF A, Accounting!Straddle
<1>8. Front(C \cup {c}, c)
  <2>1. \A x \in C : x.to <= c.to /\ x.to # c.to
    BY <1>1, <1>2
  <2> QED
    BY <1>1, <1>2, <2>1 DEF Front
<1> QED
  BY <1>7, <1>8

(* A claim inside the one remembered changes nothing.                      *)
LEMMA StraddleInside ==
    ASSUME NEW C, NEW l, NEW c, Front(C, l), Behind(C, c),
           l.from < c.from, c.to <= l.to
    PROVE  /\ Accounting!Straddle(C \cup {c}) <=> Accounting!Straddle(C)
           /\ Front(C \cup {c}, l)
<1>1. \A x \in C : /\ x \in NatClaim /\ x.from \in Nat /\ x.to \in Nat
                   /\ x.from < x.to /\ x.to <= l.to
  BY DEF Front, NatClaim
<1>2. /\ c.from \in Nat /\ c.to \in Nat /\ c.from < c.to /\ l.to \in Nat
      /\ c \in NatClaim /\ l \in C /\ l.from \in Nat
  BY DEF Behind, Front, NatClaim
<1>3. Accounting!Inside(c, l)
  BY <1>2 DEF Accounting!Inside
<1>4. \A x \in C : Accounting!Inside(x, c) => Accounting!Inside(x, l)
  <2> SUFFICES ASSUME NEW x \in C, Accounting!Inside(x, c)
               PROVE  Accounting!Inside(x, l)
    OBVIOUS
  <2>1. c.from <= x.from /\ x.to <= c.to
    BY DEF Accounting!Inside
  <2>2. l.from < x.from /\ x.to <= l.to
    BY <1>1, <1>2, <2>1
  <2> QED
    BY <1>1, <1>2, <2>2 DEF Accounting!Inside
<1>5. A(C \cup {c}) = A(C)
  BY <1>2, <1>3, <1>4 DEF A, Accounting!Outermost
<1>6. Accounting!Straddle(C \cup {c}) <=> Accounting!Straddle(C)
  BY <1>5 DEF A, Accounting!Straddle
<1>7. Front(C \cup {c}, l)
  <2>1. c.to = l.to => l.from <= c.from
    BY <1>2
  <2> QED
    BY <1>1, <1>2, <2>1 DEF Front
<1> QED
  BY <1>6, <1>7

(* A claim that starts in the one remembered and ends past it straddles.   *)
LEMMA StraddleAcross ==
    ASSUME NEW C, NEW l, NEW c, Front(C, l), Behind(C, c),
           l.from < c.from, c.from < l.to, l.to < c.to
    PROVE  /\ Accounting!Straddle(C \cup {c})
           /\ Front(C \cup {c}, c)
<1>1. \A x \in C : /\ x \in NatClaim /\ x.from \in Nat /\ x.to \in Nat
                   /\ x.from < x.to /\ x.to <= l.to
  BY DEF Front, NatClaim
<1>2. /\ c.from \in Nat /\ c.to \in Nat /\ c.from < c.to /\ l.to \in Nat
      /\ c \in NatClaim /\ l \in C /\ l.from \in Nat
  BY DEF Behind, Front, NatClaim
<1>3. \A x \in C : ~ Accounting!Inside(c, x)
  BY <1>1, <1>2 DEF Accounting!Inside
<1>4. c \in A(C \cup {c})
  BY <1>3 DEF A, Accounting!Outermost, Accounting!Inside
<1>5. l \in A(C \cup {c})
  <2>1. ~ Accounting!Inside(l, c)
    BY <1>2 DEF Accounting!Inside
  <2>2. l \in A(C)
    BY FrontIsOutermost
  <2> QED
    BY <2>1, <2>2 DEF A, Accounting!Outermost
<1>6. Accounting!Straddle(C \cup {c})
  BY <1>4, <1>5 DEF A, Accounting!Straddle
<1>7. Front(C \cup {c}, c)
  <2>1. \A x \in C : x.to # c.to /\ x.to <= c.to
    BY <1>1, <1>2
  <2> QED
    BY <1>1, <1>2, <2>1 DEF Front
<1> QED
  BY <1>6, <1>7

(* A claim that starts where the one remembered does takes its place.      *)
LEMMA StraddleSameStart ==
    ASSUME NEW C, NEW l, NEW c, Front(C, l), Behind(C, c), l.from = c.from
    PROVE  /\ Accounting!Straddle(C \cup {c}) <=> Accounting!Straddle(C)
           /\ Front(C \cup {c}, c)
<1>1. \A x \in C : /\ x \in NatClaim /\ x.from \in Nat /\ x.to \in Nat
                   /\ x.from < x.to /\ x.to <= l.to
  BY DEF Front, NatClaim
<1>2. /\ c.from \in Nat /\ c.to \in Nat /\ c.from < c.to /\ l.to \in Nat
      /\ c \in NatClaim /\ l \in C /\ l.from \in Nat
  BY DEF Behind, Front, NatClaim
<1>3. l.to <= c.to /\ \A x \in C : x.from <= c.from
  BY <1>1, <1>2 DEF Behind
<1>4. CASE l.to = c.to
  <2>1. c = l
    BY <1>1, <1>2, <1>4, SameEnds
  <2> QED
    BY <1>2, <2>1
<1>5. CASE l.to # c.to
  <2>1. l.to < c.to
    BY <1>2, <1>3, <1>5
  <2>2. \A x \in C : ~ Accounting!Inside(c, x)
    BY <1>1, <1>2, <2>1 DEF Accounting!Inside
  <2>3. \A x \in C : Accounting!Inside(x, c) <=> x.from = c.from
    BY <1>1, <1>2, <1>3, <2>1 DEF Accounting!Inside
  <2>4. \A x \in A(C) : x.from = c.from => x = l
    <3> SUFFICES ASSUME NEW x \in A(C), x.from = c.from, x # l PROVE FALSE
      OBVIOUS
    <3>1. x \in C /\ ~ Accounting!Inside(x, l)
      BY <1>2 DEF A, Accounting!Outermost
    <3> QED
      BY <1>1, <1>2, <3>1 DEF Accounting!Inside
  <2>5. l \in A(C) /\ A(C) \subseteq C
    BY FrontIsOutermost DEF A, Accounting!Outermost
  <2>6. A(C \cup {c}) = (A(C) \ {l}) \cup {c}
    <3>1. c \in A(C \cup {c})
      BY <2>2 DEF A, Accounting!Outermost, Accounting!Inside
    <3>2. \A x \in C : x \in A(C \cup {c}) <=> x \in A(C) /\ ~ Accounting!Inside(x, c)
      BY DEF A, Accounting!Outermost
    <3>3. \A x \in C : x \in A(C \cup {c}) <=> x \in A(C) /\ x # l
      BY <1>2, <2>3, <2>4, <3>2
    <3>4. c \notin C
      BY <1>1, <1>2, <2>1
    <3>5. A(C \cup {c}) \subseteq C \cup {c}
      BY DEF A, Accounting!Outermost
    <3> QED
      BY <2>5, <3>1, <3>3, <3>4, <3>5
  <2>7. \A x \in A(C) : ~ (c.from < x.from)
    BY <1>1, <1>2, <1>3, <2>5
  <2>8. Accounting!Straddle(C) <=>
            \E x, y \in A(C) : x.from < y.from /\ y.from < x.to
    BY DEF A, Accounting!Straddle
  <2>9. Accounting!Straddle(C \cup {c}) <=>
            \E x, y \in (A(C) \ {l}) \cup {c} :
                x.from < y.from /\ y.from < x.to
    BY <2>6 DEF A, Accounting!Straddle
  <2>10. ASSUME Accounting!Straddle(C) PROVE Accounting!Straddle(C \cup {c})
    <3>1. PICK x \in A(C), y \in A(C) : x.from < y.from /\ y.from < x.to
      BY <2>8, <2>10
    <3>2. x # l
      BY <2>7, <3>1
    <3>3. CASE y = l
      BY <2>9, <3>1, <3>2, <3>3
    <3>4. CASE y # l
      BY <2>9, <3>1, <3>2, <3>4
    <3> QED
      BY <3>3, <3>4
  <2>11. ASSUME Accounting!Straddle(C \cup {c}) PROVE Accounting!Straddle(C)
    <3>1. PICK x \in (A(C) \ {l}) \cup {c}, y \in (A(C) \ {l}) \cup {c} :
              x.from < y.from /\ y.from < x.to
      BY <2>9, <2>11
    <3>2. x # c
      BY <1>2, <2>7, <3>1
    <3>3. CASE y = c
      BY <2>5, <2>8, <3>1, <3>2, <3>3
    <3>4. CASE y # c
      BY <2>8, <3>1, <3>2, <3>4
    <3> QED
      BY <3>3, <3>4
  <2>12. Front(C \cup {c}, c)
    <3>1. \A x \in C : x.to # c.to /\ x.to <= c.to
      BY <1>1, <1>2, <2>1
    <3> QED
      BY <1>1, <1>2, <3>1 DEF Front
  <2> QED
    BY <2>10, <2>11, <2>12
<1> QED
  BY <1>4, <1>5

(* What the loop has passed, as claims.                                    *)
ClaimOf(a) == [from |-> a.off, to |-> a.last]

(* One more area makes one more claim, if it has a byte.                   *)
LEMMA PassedGrows ==
    ASSUME IInv, Looking
    PROVE  Passed' = IF current.len = 0 THEN Passed
                     ELSE Passed \cup {ClaimOf(current)}
<1>1. Seen' = Seen \cup {current}
  BY SeenGrows
<1> QED
  BY <1>1 DEF Passed, ClaimOf

(* The claim of low_instance is the front of those passed, and the area    *)
(* looked at comes behind them, because the areas are sorted.              *)
LEMMA LowIsFront ==
    ASSUME IInv, LowIsOutermost, Looking, ~first, NoneWraps
    PROVE  /\ Front(Passed, ClaimOf(low))
           /\ current.len # 0 => Behind(Passed, ClaimOf(current))
<1>1. /\ Scanning /\ Seen \subseteq Area
      /\ \A a \in Seen : NotAfter(a, current)
  BY SeenGrows
<1>2. /\ low \in Seen /\ low.len # 0
      /\ \A a \in Seen : a.len # 0 => a.last <= low.last
      /\ \A a \in Seen : a.len # 0 /\ a.last = low.last => low.off <= a.off
  BY <1>1 DEF IInv, LowReachesFurthest, ScanPosition, LowIsOutermost
<1>3. \A a \in Seen : /\ a.off \in Nat /\ a.last \in Nat /\ a.len \in Nat
                      /\ a.last = a.off + a.len
  <2>1. \A k \in 1 .. Len(areas) : ~ Wraps(areas[k])
    BY DEF NoneWraps, IInv, TypeOK
  <2>2. i \in 1 .. Len(areas)
    BY CurrentType DEF IInv
  <2>3. \A a \in Seen : ~ Wraps(a)
    BY <2>1, <2>2 DEF Seen
  <2> QED
    BY <1>1, <2>3, AreaBounds
<1>4. /\ current.off \in Nat /\ current.last \in Nat /\ current.len \in Nat
      /\ current.last = current.off + current.len
  BY LoopFacts, CurrentType DEF IInv
<1>5. \A x \in Passed : \E a \in Seen : a.len # 0 /\ x = ClaimOf(a)
  BY DEF Passed, ClaimOf
<1>6. \A a \in Seen : a.len # 0 =>
          /\ ClaimOf(a) \in NatClaim /\ ClaimOf(a).from < ClaimOf(a).to
          /\ ClaimOf(a).from = a.off /\ ClaimOf(a).to = a.last
  BY <1>3 DEF ClaimOf, NatClaim
<1>7. ClaimOf(low) \in Passed
  BY <1>2 DEF Passed, ClaimOf
<1>8. Front(Passed, ClaimOf(low))
  <2>1. ClaimOf(low).from = low.off /\ ClaimOf(low).to = low.last
    BY DEF ClaimOf
  <2>2. \A x \in Passed : /\ x \in NatClaim /\ x.from < x.to
                          /\ x.to <= ClaimOf(low).to
                          /\ x.to = ClaimOf(low).to => ClaimOf(low).from <= x.from
    BY <1>2, <1>5, <1>6, <2>1
  <2> QED
    BY <1>7, <2>2 DEF Front
<1>9. ASSUME current.len # 0 PROVE Behind(Passed, ClaimOf(current))
  <2>1. /\ ClaimOf(current).from = current.off
        /\ ClaimOf(current).to = current.last
        /\ ClaimOf(current) \in NatClaim
        /\ ClaimOf(current).from < ClaimOf(current).to
    BY <1>4, <1>9 DEF ClaimOf, NatClaim
  <2>2. \A x \in Passed : \/ x.from < ClaimOf(current).from
                          \/ /\ x.from = ClaimOf(current).from
                             /\ x.to <= ClaimOf(current).to
    BY <1>1, <1>5, <1>6, <2>1 DEF NotAfter
  <2> QED
    BY <2>1, <2>2 DEF Behind
<1> QED
  BY <1>8, <1>9

(* Once low' is the front of what was passed and the overlaps agree, the   *)
(* invariant of the refinement holds again.                                *)
LEMMA FrontKeeps ==
    ASSUME IInv', ~first', pc' = "scan", Front(Passed', ClaimOf(low')),
           odd' # {} <=> Accounting!Straddle(Passed')
    PROVE  LowIsOutermost' /\ OddIsStraddle'
<1>1. \A a \in Seen' : a.len # 0 => ClaimOf(a) \in Passed'
  BY DEF Passed, ClaimOf
<1>2. \A a \in Seen' : a.len # 0 /\ a.last = low'.last => low'.off <= a.off
  BY <1>1 DEF Front, ClaimOf
<1> QED
  BY <1>2 DEF LowIsOutermost, OddIsStraddle, Scanning

(* Every step of the scan keeps it.                                        *)
LEMMA ScanRefinementInv ==
    ASSUME RefinementInv, Scan
    PROVE  LowIsOutermost' /\ OddIsStraddle'
<1>1. Looking
  BY DEF Scan, SkipEmpty, FirstInstance, SameOffset, Adjacent, AlignmentGap,
         ContentGap, Contained, OddOverlap, Comparing, AfterLow, BeforeLowsEnd
<1>2. /\ IInv' /\ pc = "scan" /\ pc' = "scan" /\ Scanning /\ Scanning'
      /\ NoneWraps' = NoneWraps
  BY <1>1, ScanSafe, SeenGrows DEF RefinementInv, Scanning, Looking
<1>3. Passed' = IF current.len = 0 THEN Passed
                ELSE Passed \cup {ClaimOf(current)}
  BY <1>1, PassedGrows DEF RefinementInv
<1>4. CASE first /\ SkipEmpty
  <2>1. first' /\ odd' = {}
    BY <1>4 DEF SkipEmpty, unreported, RefinementInv, OddIsStraddle
  <2> QED
    BY <2>1 DEF LowIsOutermost, OddIsStraddle
<1>5. CASE ~(first /\ SkipEmpty)
  <2>1. ~first' /\ (first => FirstInstance)
    BY <1>2, <1>5
    DEF Scan, SkipEmpty, FirstInstance, SameOffset, Adjacent, AlignmentGap,
        ContentGap, Contained, OddOverlap, Comparing, AfterLow, BeforeLowsEnd
  <2>2. CASE ~NoneWraps
    BY <1>2, <2>1, <2>2 DEF LowIsOutermost, OddIsStraddle
  <2>3. CASE NoneWraps /\ first
    <3>1. FirstInstance /\ odd' = {} /\ low' = current /\ current.len # 0
      BY <2>1, <2>3
      DEF FirstInstance, unreported, RefinementInv, OddIsStraddle
    <3>2. /\ current.off \in Nat /\ current.last \in Nat
          /\ current.off < current.last
      <4>1. current.off = 0 /\ current \in Area /\ ~ Wraps(current)
        <5>1. i \in 1 .. Len(areas) /\ current \in Area
          BY <1>1, CurrentType DEF RefinementInv, IInv
        <5>2. \A k \in 1 .. Len(areas) : ~ Wraps(areas[k])
          BY <2>3 DEF NoneWraps, RefinementInv, IInv, TypeOK
        <5> QED
          BY <3>1, <5>1, <5>2, FirstAtZero DEF RefinementInv, current
      <4> QED
        BY <3>1, <4>1, AreaBounds
    <3>3. Passed = {}
      BY <1>2, <2>3 DEF RefinementInv, IInv, ScanPosition, Passed, Seen
    <3>4. Passed' = {ClaimOf(current)}
      BY <1>3, <3>1, <3>3
    <3>5. /\ ClaimOf(current).from = current.off
          /\ ClaimOf(current).to = current.last
          /\ ClaimOf(current) \in NatClaim
      BY <3>2 DEF ClaimOf, NatClaim
    <3>6. Front(Passed', ClaimOf(low'))
      BY <3>1, <3>2, <3>4, <3>5 DEF Front
    <3>7. ~ Accounting!Straddle(Passed')
      BY <3>2, <3>4, <3>5 DEF Accounting!Straddle, Accounting!Outermost
    <3> QED
      BY <1>2, <2>1, <3>1, <3>6, <3>7, FrontKeeps
  <2>4. CASE NoneWraps /\ ~first
    <3> DEFINE l == ClaimOf(low)
               c == ClaimOf(current)
    <3>1. /\ Front(Passed, l)
          /\ current.len # 0 => Behind(Passed, c)
      BY <1>1, <2>4, LowIsFront DEF RefinementInv
    <3>2. /\ l.from = low.off /\ l.to = low.last
          /\ c.from = current.off /\ c.to = current.last
          /\ low.off \in Nat /\ low.last \in Nat
          /\ current.off \in Nat /\ current.last \in Nat
          /\ low.off <= current.off
      BY <1>1, <2>4, LoopFacts DEF ClaimOf, RefinementInv
    <3>3. odd # {} <=> Accounting!Straddle(Passed)
      BY <1>2, <2>4 DEF RefinementInv, OddIsStraddle
    <3>4. ASSUME SkipEmpty
          PROVE  /\ Front(Passed', ClaimOf(low'))
                 /\ odd' # {} <=> Accounting!Straddle(Passed')
      <4>1. low' = low /\ odd' = odd /\ Passed' = Passed
        BY <1>3, <3>4 DEF SkipEmpty, unreported
      <4> QED
        BY <3>1, <3>3, <4>1
    <3>5. ASSUME SameOffset
          PROVE  /\ Front(Passed', ClaimOf(low'))
                 /\ odd' # {} <=> Accounting!Straddle(Passed')
      <4>1. /\ low' = current /\ odd' = odd /\ Passed' = Passed \cup {c}
            /\ current.off = low.off /\ current.len # 0
        BY <1>3, <3>5 DEF SameOffset, Comparing, unreported
      <4>2. Front(Passed, l) /\ Behind(Passed, c) /\ l.from = c.from
        BY <3>1, <3>2, <4>1
      <4> HIDE DEF l, c
      <4>3. /\ Accounting!Straddle(Passed \cup {c}) <=>
                   Accounting!Straddle(Passed)
            /\ Front(Passed \cup {c}, c)
        BY <4>2, StraddleSameStart
      <4> QED
        BY <3>3, <4>1, <4>3 DEF c
    <3>6. ASSUME Adjacent \/ AlignmentGap \/ ContentGap
          PROVE  /\ Front(Passed', ClaimOf(low'))
                 /\ odd' # {} <=> Accounting!Straddle(Passed')
      <4>1. /\ low' = current /\ odd' = odd /\ Passed' = Passed \cup {c}
            /\ current.off >= low.last /\ current.len # 0
        BY <1>3, <3>2, <3>6
        DEF Adjacent, AlignmentGap, ContentGap, AfterLow, Comparing, unreported
      <4>2. Front(Passed, l) /\ Behind(Passed, c) /\ l.to <= c.from
        BY <3>1, <3>2, <4>1
      <4> HIDE DEF l, c
      <4>3. /\ Accounting!Straddle(Passed \cup {c}) <=>
                   Accounting!Straddle(Passed)
            /\ Front(Passed \cup {c}, c)
        BY <4>2, StraddleAfter
      <4> QED
        BY <3>3, <4>1, <4>3 DEF c
    <3>7. ASSUME Contained
          PROVE  /\ Front(Passed', ClaimOf(low'))
                 /\ odd' # {} <=> Accounting!Straddle(Passed')
      <4>1. /\ low' = low /\ odd' = odd /\ Passed' = Passed \cup {c}
            /\ current.off # low.off /\ current.last <= low.last
            /\ current.len # 0
        BY <1>3, <3>7 DEF Contained, BeforeLowsEnd, Comparing, unreported
      <4>2. /\ Front(Passed, l) /\ Behind(Passed, c)
            /\ l.from < c.from /\ c.to <= l.to
        BY <3>1, <3>2, <4>1
      <4> HIDE DEF l, c
      <4>3. /\ Accounting!Straddle(Passed \cup {c}) <=>
                   Accounting!Straddle(Passed)
            /\ Front(Passed \cup {c}, l)
        BY <4>2, StraddleInside
      <4> QED
        BY <3>3, <4>1, <4>3 DEF l
    <3>8. ASSUME OddOverlap
          PROVE  /\ Front(Passed', ClaimOf(low'))
                 /\ odd' # {} <=> Accounting!Straddle(Passed')
      <4>1. /\ low' = current /\ odd' # {} /\ Passed' = Passed \cup {c}
            /\ current.off # low.off /\ current.off < low.last
            /\ current.last > low.last /\ current.len # 0
        BY <1>3, <3>8 DEF OddOverlap, BeforeLowsEnd, Comparing
      <4>2. /\ Front(Passed, l) /\ Behind(Passed, c)
            /\ l.from < c.from /\ c.from < l.to /\ l.to < c.to
        BY <3>1, <3>2, <4>1
      <4> HIDE DEF l, c
      <4>3. /\ Accounting!Straddle(Passed \cup {c})
            /\ Front(Passed \cup {c}, c)
        BY <4>2, StraddleAcross
      <4> QED
        BY <4>1, <4>3 DEF c
    <3>9. /\ Front(Passed', ClaimOf(low'))
          /\ odd' # {} <=> Accounting!Straddle(Passed')
      BY <2>4, <3>4, <3>5, <3>6, <3>7, <3>8 DEF Scan, FirstInstance
    <3> QED
      BY <1>2, <2>1, <3>9, FrontKeeps
  <2> QED
    BY <2>2, <2>3, <2>4
<1> QED
  BY <1>4, <1>5

(* The invariant of the refinement holds throughout.                       *)
LEMMA StepRefinementInv == RefinementInv /\ [Next]_vars => RefinementInv'
<1> SUFFICES ASSUME RefinementInv, [Next]_vars PROVE RefinementInv'
  OBVIOUS
<1>1. IInv'
  BY StepSafe DEF RefinementInv
<1>2. CASE Scan
  <2>1. Looking
    BY <1>2
    DEF Scan, SkipEmpty, FirstInstance, SameOffset, Adjacent, AlignmentGap,
        ContentGap, Contained, OddOverlap, Comparing, AfterLow, BeforeLowsEnd
  <2>2. ListOrArray' /\ EndsAreComputed'
    BY <2>1 DEF Looking, RefinementInv, ListOrArray, EndsAreComputed
  <2> QED
    BY <1>1, <1>2, <2>2, ScanRefinementInv DEF RefinementInv
<1>3. ASSUME NEW t \in Targets, InsertInUse(t) PROVE RefinementInv'
  <2>1. EndsAreComputed'
    <3>1. /\ inuse \in Seq(Area) /\ areas' = areas
          /\ inuse' = Append(inuse, NewArea(t.off, t.len, t.align))
      BY <1>3 DEF InsertInUse, RefinementInv, IInv, TypeOK
    <3>2. /\ DOMAIN inuse' = 1 .. Len(inuse) + 1 /\ Len(inuse) \in Nat
          /\ inuse'[Len(inuse) + 1] = NewArea(t.off, t.len, t.align)
          /\ \A k \in 1 .. Len(inuse) : inuse'[k] = inuse[k] /\ k \in DOMAIN inuse
      BY <3>1
    <3>3. NewArea(t.off, t.len, t.align).last =
              Wrap(NewArea(t.off, t.len, t.align).off
                   + NewArea(t.off, t.len, t.align).len)
      BY DEF NewArea
    <3>4. \A k \in DOMAIN inuse' :
              k \in 1 .. Len(inuse) \/ k = Len(inuse) + 1
      BY <3>2
    <3> QED
      BY <3>1, <3>2, <3>3, <3>4 DEF RefinementInv, EndsAreComputed
  <2> QED
    BY <1>1, <1>3, <2>1
    DEF InsertInUse, report, RefinementInv, ListOrArray, LowIsOutermost,
      OddIsStraddle, Scanning, IInv, ScanPosition
<1>4. CASE CopyList \/ NoArray \/ Sort
  <2>1. /\ pc \in {"load", "sort"} /\ pc' \in {"sort", "failed", "scan"}
        /\ first' = first /\ odd' = odd
    BY <1>4 DEF CopyList, NoArray, Sort, report
  <2>2. first /\ odd = {}
    BY <2>1 DEF RefinementInv, IInv, ScanPosition, OddIsStraddle
  <2>3. ListOrArray'
    BY <1>4 DEF CopyList, NoArray, Sort, RefinementInv, ListOrArray
  <2>4. EndsAreComputed'
    <3>1. CASE CopyList \/ NoArray
      BY <3>1 DEF CopyList, NoArray, RefinementInv, EndsAreComputed
    <3>2. CASE Sort
      <4>1. PICK p \in Permutation(Len(areas)) :
                areas' = [k \in 1 .. Len(areas) |-> areas[p[k]]]
        BY <3>2 DEF Sort
      <4>2. DOMAIN areas = 1 .. Len(areas) /\ inuse' = inuse
        BY <3>2 DEF RefinementInv, IInv, TypeOK, Sort
      <4>3. \A k \in 1 .. Len(areas) : p[k] \in 1 .. Len(areas)
        BY DEF Permutation
      <4> QED
        BY <4>1, <4>2, <4>3 DEF RefinementInv, EndsAreComputed
    <3> QED
      BY <1>4, <3>1, <3>2
  <2> QED
    BY <1>1, <2>1, <2>2, <2>3, <2>4
    DEF RefinementInv, LowIsOutermost, OddIsStraddle
<1>5. CASE EndOfFile \/ UNCHANGED vars
  <2>1. /\ UNCHANGED <<areas, inuse, i, first, low, odd>>
        /\ pc' = pc \/ (pc = "scan" /\ pc' = "done")
    BY <1>5 DEF EndOfFile, report, vars
  <2>2. /\ Seen' = Seen /\ Passed' = Passed /\ NoneWraps' = NoneWraps
        /\ Scanning' = Scanning
    BY <2>1 DEF Seen, Passed, NoneWraps, Scanning
  <2> QED
    BY <1>1, <2>1, <2>2
    DEF RefinementInv, ListOrArray, EndsAreComputed, LowIsOutermost, OddIsStraddle
<1> QED
  BY <1>2, <1>3, <1>4, <1>5 DEF Next, Returned

(* Nothing is looked at when the list is first made.                       *)
LEMMA InitRefinementInv == Init => RefinementInv
BY InitSafe
DEF Init, RefinementInv, ListOrArray, EndsAreComputed, NewArea,
    LowIsOutermost, OddIsStraddle, Scanning

-----------------------------------------------------------------------------
(* The mapping.                                                            *)
Claims == ClaimsOf(inuse) \cup ClaimsOf(areas)
Verdict ==
    CASE pc = "done" -> [status |-> "reported",
                         wasted |-> {b \in Word : InGap(b)},
                         straddle |-> odd # {}]
      [] pc = "failed" -> [status |-> "failed", wasted |-> {},
                           straddle |-> FALSE]
      [] OTHER -> [status |-> "none", wasted |-> {}, straddle |-> FALSE]

(* The list without areas claims nothing.                                  *)
LEMMA ClaimsOfEmpty == ClaimsOf(<< >>) = {}
BY DEF ClaimsOf

(* One more area in it claims at most what that area covers.               *)
LEMMA ClaimsOfAppend ==
    ASSUME NEW s \in Seq(Area), NEW a \in Area
    PROVE  ClaimsOf(Append(s, a)) =
               IF a.len = 0 THEN ClaimsOf(s) ELSE ClaimsOf(s) \cup {ClaimOf(a)}
<1> DEFINE t == Append(s, a)
<1>1. /\ DOMAIN s = 1 .. Len(s) /\ DOMAIN t = 1 .. Len(s) + 1 /\ Len(s) \in Nat
      /\ t[Len(s) + 1] = a
      /\ \A k \in 1 .. Len(s) : t[k] = s[k]
  OBVIOUS
<1>2. \A x : x \in ClaimsOf(t) <=>
          \E k \in 1 .. Len(s) + 1 : t[k].len # 0 /\ x = ClaimOf(t[k])
  <2> HIDE DEF t
  <2> QED
    BY <1>1 DEF ClaimsOf, ClaimOf
<1>3. \A x : x \in ClaimsOf(s) <=>
          \E k \in 1 .. Len(s) : s[k].len # 0 /\ x = ClaimOf(s[k])
  BY <1>1 DEF ClaimsOf, ClaimOf
<1>4. 1 .. Len(s) + 1 = (1 .. Len(s)) \cup {Len(s) + 1}
  BY <1>1
<1> HIDE DEF t
<1>5. \A x : x \in ClaimsOf(t) <=>
          x \in ClaimsOf(s) \/ (a.len # 0 /\ x = ClaimOf(a))
  BY <1>1, <1>2, <1>3, <1>4
<1> QED
  BY <1>5 DEF t

(* When the loop has passed all the areas, what it passed is all claims.   *)
LEMMA PassedAll ==
    ASSUME IInv, Scanning, i > Len(areas)
    PROVE  Passed = ClaimsOf(areas) /\ ~first
           /\ Seen = {areas[k] : k \in DOMAIN areas}
<1>1. /\ i = Len(areas) + 1 /\ DOMAIN areas = 1 .. Len(areas)
      /\ Len(areas) \in Nat
  BY DEF IInv, ScanPosition, TypeOK
<1>2. 1 .. i - 1 = DOMAIN areas
  BY <1>1
<1>3. Seen = {areas[k] : k \in DOMAIN areas}
  BY <1>2 DEF Seen
<1>4. Passed = ClaimsOf(areas)
  BY <1>3 DEF Passed, ClaimsOf
<1>5. ~first
  <2>1. PICK k \in DOMAIN areas : areas[k] = TheHeader
    BY DEF IInv, HeaderListed
  <2>2. areas[k].len # 0
    BY <2>1, FileAssumption DEF TheHeader, NewArea
  <2> QED
    BY <1>2, <2>1, <2>2 DEF IInv, ScanPosition
<1> QED
  BY <1>3, <1>4, <1>5

(* No claim is ill-formed exactly when no area wraps.                      *)
LEMMA WellFormedIsNoneWraps ==
    ASSUME RefinementInv, inuse = << >>
    PROVE  (\A c \in Claims : c.from < c.to) => NoneWraps
<1> SUFFICES ASSUME \A c \in Claims : c.from < c.to, NEW k \in DOMAIN areas
             PROVE  ~ Wraps(areas[k])
  BY DEF NoneWraps
<1>0. Word \subseteq Nat /\ Modulus \in Nat
  BY ModulusAssumption DEF Word
<1>a. areas \in Seq(Area)
  BY DEF RefinementInv, IInv, TypeOK
<1>b. areas[k] \in Area
  BY <1>a
<1>1. /\ areas[k] \in Area /\ areas[k].off \in Word /\ areas[k].len \in Word
      /\ areas[k].last \in Word
  BY <1>b DEF Area
<1>2. areas[k].last = Wrap(areas[k].off + areas[k].len)
  BY DEF RefinementInv, EndsAreComputed
<1>3. CASE areas[k].len = 0
  BY <1>0, <1>1, <1>2, <1>3 DEF Wrap, Wraps, Word
<1>4. CASE areas[k].len # 0
  <2>1. ClaimOf(areas[k]) \in Claims
    BY <1>4 DEF Claims, ClaimsOf, ClaimOf
  <2>2. areas[k].off < areas[k].last
    BY <2>1 DEF ClaimOf
  <2> QED
    BY <1>0, <1>1, <1>2, <2>2 DEF Wrap, Wraps, Word
<1> QED
  BY <1>3, <1>4

(* What the last message closes: the gaps are the unclaimed bytes, and an  *)
(* overlap was reported when two claims straddle.                          *)
LEMMA ReportIsRight ==
    ASSUME RefinementInv, EndOfFile, \A c \in Claims : c.from < c.to
    PROVE  /\ {b \in Word : InGap(b)} =
                  {b \in Word : /\ ~ \E c \in Claims : c.from <= b /\ b < c.to
                                /\ \E c \in Claims : b < c.to}
           /\ odd # {} <=> Accounting!Straddle(Claims)
<1>1. pc = "scan" /\ i > Len(areas) /\ Scanning /\ inuse = << >>
  BY DEF EndOfFile, Scanning, RefinementInv, ListOrArray
<1>2. Passed = ClaimsOf(areas) /\ ~first
      /\ Seen = {areas[k] : k \in DOMAIN areas}
  BY <1>1, PassedAll DEF RefinementInv
<1>3. Claims = Passed /\ NoneWraps
  BY <1>1, <1>2, ClaimsOfEmpty, WellFormedIsNoneWraps DEF Claims
<1>4. odd # {} <=> Accounting!Straddle(Claims)
  BY <1>1, <1>2, <1>3 DEF RefinementInv, OddIsStraddle
<1>5. /\ low \in Seen /\ low.len # 0
      /\ \A a \in Seen : a.len # 0 => a.last <= low.last
      /\ \A g \in gaps : g.to <= low.last
      /\ \A b \in 0 .. low.last - 1 : InGap(b) <=> ~ \E a \in Seen : Covers(a, b)
  BY <1>1, <1>2, <1>3
  DEF RefinementInv, IInv, LowReachesFurthest, GapsEndBelowLow,
      GapsAreTheHoles, ScanPosition
<1>6. /\ \A a \in Seen : /\ a.off \in Nat /\ a.last \in Nat /\ a.len \in Nat
                         /\ a.last = a.off + a.len
      /\ \A g \in gaps : g.to \in Nat
      /\ Word \subseteq Nat
  <2>1. \A k \in DOMAIN areas : areas[k] \in Area /\ ~ Wraps(areas[k])
    BY <1>3 DEF NoneWraps, RefinementInv, IInv, TypeOK
  <2>2. \A a \in Seen : a \in Area /\ ~ Wraps(a)
    BY <1>2, <2>1
  <2> QED
    BY <2>2, AreaBounds, ModulusAssumption DEF RefinementInv, IInv, TypeOK, Gap, Word
<1>7. \A x \in Claims : \E a \in Seen : a.len # 0 /\ x = ClaimOf(a)
  BY <1>3 DEF Passed, ClaimOf
<1>8. \A a \in Seen : a.len # 0 => ClaimOf(a) \in Claims
  BY <1>3 DEF Passed, ClaimOf
<1>9. \A a : ClaimOf(a).from = a.off /\ ClaimOf(a).to = a.last
  BY DEF ClaimOf
<1>10. ASSUME NEW b \in Word
       PROVE  InGap(b) <=> /\ ~ \E c \in Claims : c.from <= b /\ b < c.to
                           /\ \E c \in Claims : b < c.to
  <2>0. b \in Nat /\ low.last \in Nat
    BY <1>5, <1>6
  <2>1. (\E c \in Claims : c.from <= b /\ b < c.to)
        <=> \E a \in Seen : Covers(a, b)
    <3>1. \A a \in Seen : Covers(a, b) => a.len # 0
      BY <1>6, <2>0 DEF Covers
    <3> QED
      BY <1>7, <1>8, <1>9, <3>1 DEF Covers
  <2>2. (\E c \in Claims : b < c.to) <=> b < low.last
    <3>1. ASSUME NEW c \in Claims, b < c.to PROVE b < low.last
      <4>1. PICK a \in Seen : a.len # 0 /\ c = ClaimOf(a)
        BY <1>7
      <4>2. b < a.last /\ a.last <= low.last
        BY <1>5, <1>9, <3>1, <4>1
      <4> QED
        BY <1>6, <2>0, <4>2
    <3> QED
      BY <1>5, <1>8, <1>9, <3>1
  <2>3. ~ (b < low.last) => ~ InGap(b)
    BY <1>5, <1>6, <2>0 DEF InGap
  <2>4. b < low.last => b \in 0 .. low.last - 1
    BY <2>0
  <2> QED
    BY <1>5, <2>1, <2>2, <2>3, <2>4
<1> QED
  BY <1>4, <1>10

(* The mapped state of the accounting, step by step.                       *)
LEMMA InitMaps == Init => Accounting!Init
<1> SUFFICES ASSUME Init PROVE Accounting!Init
  OBVIOUS
<1>1. HeaderSize \in Word /\ HeaderSize # 0 /\ 0 \in Word /\ HeaderAlign \in Word
  BY FileAssumption, ModulusAssumption DEF Word, HeaderAlign
<1>2. /\ NewArea(0, HeaderSize, HeaderAlign) \in Area
      /\ NewArea(0, HeaderSize, HeaderAlign).len # 0
      /\ ClaimOf(NewArea(0, HeaderSize, HeaderAlign)) =
             [from |-> 0, to |-> HeaderSize]
  BY <1>1, NewAreaType, FileAssumption, ModulusAssumption
  DEF NewArea, ClaimOf, Wrap, Word
<1>3. inuse = Append(<< >>, NewArea(0, HeaderSize, HeaderAlign))
      /\ areas = << >> /\ << >> \in Seq(Area)
  BY DEF Init
<1>4. Claims = {[from |-> 0, to |-> HeaderSize]}
  BY <1>2, <1>3, ClaimsOfEmpty, ClaimsOfAppend DEF Claims
<1> QED
  BY <1>4 DEF Init, Claims, Accounting!Init, Accounting!NotYet

(* Every step makes a claim, reports, gives up, or changes neither.        *)
LEMMA StepMaps ==
    RefinementInv /\ RefinementInv' /\ [Next]_vars =>
        [Accounting!Next]_<<Claims, Verdict>>
<1> SUFFICES ASSUME RefinementInv, RefinementInv', [Next]_vars
             PROVE  Accounting!Next \/ UNCHANGED <<Claims, Verdict>>
  OBVIOUS
<1>1. ASSUME NEW t \in Targets, InsertInUse(t)
      PROVE  Accounting!Next \/ UNCHANGED <<Claims, Verdict>>
  <2> DEFINE a == NewArea(t.off, t.len, t.align)
  <2>1. a \in Area /\ a.len = t.len
    BY TargetsAssumption, NewAreaType DEF Word, NewArea
  <2>2. /\ inuse \in Seq(Area) /\ inuse' = Append(inuse, a) /\ areas' = areas
        /\ pc = "load" /\ pc' = "load"
    BY <1>1 DEF InsertInUse, RefinementInv, IInv, TypeOK
  <2>3. Verdict' = Verdict /\ Verdict = Accounting!NotYet
    BY <2>2 DEF Verdict, Accounting!NotYet
  <2> HIDE DEF a
  <2>4. ClaimsOf(inuse') = IF a.len = 0 THEN ClaimsOf(inuse)
                           ELSE ClaimsOf(inuse) \cup {ClaimOf(a)}
    BY <2>1, <2>2, ClaimsOfAppend
  <2>5. CASE a.len = 0
    BY <2>2, <2>3, <2>4, <2>5 DEF Claims
  <2>6. CASE a.len # 0
    <3>1. Claims' = Claims \cup {ClaimOf(a)}
      BY <2>2, <2>4, <2>6 DEF Claims
    <3>2. ClaimOf(a) \in [from : Word, to : Word]
      BY <2>1 DEF Area, ClaimOf
    <3>3. Accounting!Make
      BY <2>3, <3>1, <3>2
      DEF Accounting!Make, Accounting!Claim, Claims, Verdict
    <3> QED
      BY <3>3 DEF Accounting!Next
  <2> QED
    BY <2>5, <2>6
<1>2. ASSUME CopyList PROVE UNCHANGED <<Claims, Verdict>>
  <2>1. /\ areas = << >> /\ areas' = inuse /\ inuse' = << >>
        /\ pc = "load" /\ pc' = "sort"
    BY <1>2 DEF CopyList, RefinementInv, ListOrArray
  <2> QED
    BY <2>1, ClaimsOfEmpty DEF Claims, Verdict
<1>3. ASSUME NoArray PROVE Accounting!Next
  <2>1. UNCHANGED <<inuse, areas>> /\ pc = "load" /\ pc' = "failed"
    BY <1>3 DEF NoArray
  <2>2. Claims' = Claims
    BY <2>1 DEF Claims
  <2>3. Verdict = Accounting!NotYet
    BY <2>1 DEF Verdict, Accounting!NotYet
  <2>4. Verdict' = [status |-> "failed", wasted |-> {}, straddle |-> FALSE]
    BY <2>1 DEF Verdict
  <2>5. Accounting!GiveUp
    BY <2>2, <2>3, <2>4 DEF Accounting!GiveUp, Claims, Verdict
  <2> QED
    BY <2>5 DEF Accounting!Next
<1>4. ASSUME Sort PROVE UNCHANGED <<Claims, Verdict>>
  <2>1. PICK p \in Permutation(Len(areas)) :
            areas' = [k \in 1 .. Len(areas) |-> areas[p[k]]]
    BY <1>4 DEF Sort
  <2>2. /\ \A k \in 1 .. Len(areas) : p[k] \in 1 .. Len(areas)
        /\ \A m \in 1 .. Len(areas) : \E k \in 1 .. Len(areas) : p[k] = m
    BY DEF Permutation
  <2>3. DOMAIN areas = 1 .. Len(areas) /\ DOMAIN areas' = 1 .. Len(areas)
    BY <2>1 DEF RefinementInv, IInv, TypeOK
  <2>4. ClaimsOf(areas') = ClaimsOf(areas)
    <3>1. \A x : x \in ClaimsOf(areas) <=>
              \E k \in 1 .. Len(areas) : areas[k].len # 0 /\ x = ClaimOf(areas[k])
      BY <2>3 DEF ClaimsOf, ClaimOf
    <3>2. \A x : x \in ClaimsOf(areas') <=>
              \E k \in 1 .. Len(areas) :
                  areas[p[k]].len # 0 /\ x = ClaimOf(areas[p[k]])
      BY <2>1, <2>3 DEF ClaimsOf, ClaimOf
    <3>3. ASSUME NEW x \in ClaimsOf(areas') PROVE x \in ClaimsOf(areas)
      <4>1. PICK k \in 1 .. Len(areas) :
                areas[p[k]].len # 0 /\ x = ClaimOf(areas[p[k]])
        BY <3>2, <3>3
      <4>2. p[k] \in 1 .. Len(areas)
        BY <2>2
      <4> QED
        BY <3>1, <4>1, <4>2
    <3>4. ASSUME NEW x \in ClaimsOf(areas) PROVE x \in ClaimsOf(areas')
      <4>1. PICK m \in 1 .. Len(areas) :
                areas[m].len # 0 /\ x = ClaimOf(areas[m])
        BY <3>1, <3>4
      <4>2. PICK k \in 1 .. Len(areas) : p[k] = m
        BY <2>2
      <4> QED
        BY <3>2, <4>1, <4>2
    <3> QED
      BY <3>3, <3>4
  <2>5. inuse' = inuse /\ pc = "sort" /\ pc' = "scan"
    BY <1>4 DEF Sort
  <2> QED
    BY <2>4, <2>5 DEF Claims, Verdict
<1>5. ASSUME Scan PROVE UNCHANGED <<Claims, Verdict>>
  <2>1. UNCHANGED <<inuse, areas, pc>> /\ pc = "scan"
    BY <1>5
    DEF Scan, SkipEmpty, FirstInstance, SameOffset, Adjacent, AlignmentGap,
        ContentGap, Contained, OddOverlap, Comparing, AfterLow, BeforeLowsEnd,
        Looking
  <2> QED
    BY <2>1 DEF Claims, Verdict
<1>6. ASSUME EndOfFile PROVE Accounting!Next
  <2>1. /\ UNCHANGED <<inuse, areas, gaps, odd>> /\ pc = "scan" /\ pc' = "done"
    BY <1>6 DEF EndOfFile, report
  <2>2. /\ Claims' = Claims /\ Verdict = Accounting!NotYet
        /\ Verdict' = [status |-> "reported", wasted |-> {b \in Word : InGap(b)},
                       straddle |-> odd # {}]
    BY <2>1 DEF Claims, Verdict, Accounting!NotYet, InGap
  <2>3. Verdict' \in Accounting!Reports
    BY <2>2 DEF Accounting!Reports
  <2>4. ASSUME \A c \in Claims : c.from < c.to
        PROVE  /\ Verdict'.wasted =
                      {b \in Word : /\ ~ \E c \in Claims : c.from <= b /\ b < c.to
                                    /\ \E c \in Claims : b < c.to}
               /\ Verdict'.straddle = Accounting!Straddle(Claims)
    BY <1>6, <2>2, <2>4, ReportIsRight DEF Accounting!Straddle
  <2>5. Accounting!Report
    BY <2>2, <2>3, <2>4
    DEF Accounting!Report, Accounting!WellFormed, Accounting!Unclaimed,
        Accounting!Claimed, Claims, Verdict
  <2> QED
    BY <2>5 DEF Accounting!Next
<1>7. ASSUME UNCHANGED vars PROVE UNCHANGED <<Claims, Verdict>>
  BY <1>7 DEF vars, Claims, Verdict, InGap
<1> QED
  BY <1>1, <1>2, <1>3, <1>4, <1>5, <1>6, <1>7 DEF Next, Returned

(* However the areas are ordered, nested or repeated, and wherever the     *)
(* report stops for want of memory, the loop and its messages implement    *)
(* the promise of SpaceAccounting: exactly the unclaimed bytes are named,  *)
(* once, and areas are said to overlap exactly when two claims straddle.   *)
THEOREM Implements == Spec => ImplementsAccounting
<1>1. [Accounting!Next]_<<Claims, Verdict>> =>
          [Accounting!Next]_<<ClaimsOf(inuse) \cup ClaimsOf(areas), Verdict>>
  BY DEF Claims
<1> QED
  BY InitMaps, InitRefinementInv, StepRefinementInv, StepMaps, PTL
  DEF Spec, ImplementsAccounting, Accounting!Spec, Claims, Verdict
=============================================================================
