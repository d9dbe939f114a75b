---------------------------- MODULE WastedSpace ----------------------------
(***************************************************************************)
(* The file-space accounting of readelfobj.  Every header, header table    *)
(* and section/segment target that is loaded is appended to a linked list  *)
(* of in-use areas (dwarf_insert_in_use_entry); at the end of the run      *)
(* report_wasted_space copies the list into an array, sorts it and scans   *)
(* it once, keeping in `low' the area that reaches furthest so far, to     *)
(* report the gaps between areas, the areas that overlap oddly, and the    *)
(* bytes between the furthest area and the end of the file.                *)
(*                                                                         *)
(* Offsets are Dwarf_Unsigned: the end of an area is computed modulo       *)
(* Modulus (2^64 in the program).  Names of areas only break ties in the   *)
(* sort and are left out; Sort allows every order the ties allow.          *)
(***************************************************************************)
EXTENDS Integers, Sequences, FiniteSets

HeaderAlign == 4 \* ALIGN4

CONSTANTS
    Modulus,    \* the number of values of Dwarf_Unsigned
    FileSize,   \* f_filesize
    HeaderSize, \* sizeof(dw_elf32_ehdr) or sizeof(dw_elf64_ehdr)
    Targets,    \* the areas the headers of the file may describe
    MaxAreas    \* bound on the length of the in-use list

ASSUME ModulusAssumption == Modulus \in Nat /\ Modulus > HeaderAlign
ASSUME FileAssumption == /\ FileSize \in 0 .. Modulus - 1
                         /\ HeaderSize \in 1 .. Modulus - 1
ASSUME TargetsAssumption ==
    Targets \subseteq [off : 0 .. Modulus - 1, len : 0 .. Modulus - 1,
                       align : 0 .. Modulus - 1]
ASSUME MaxAreasAssumption == MaxAreas \in Nat

VARIABLES
    inuse,        \* f_in_use .. f_in_use_tail: the linked list
    pc,           \* where report_wasted_space is
    areas,        \* iuarray
    i,            \* index of the area the loop looks at
    first,        \* firstinstance
    low,          \* low_instance
    high,         \* highoffset
    gaps,         \* the gaps the loop has reported
    odd,          \* the pairs of areas reported as "Odd overlap"
    alignCount, alignSpace,      \* f_wasted_align_count, _space
    contentCount, contentSpace,  \* f_wasted_content_count, _space
    tail          \* what the last message says of the end of the file

vars == <<inuse, pc, areas, i, first, low, high, gaps, odd,
          alignCount, alignSpace, contentCount, contentSpace, tail>>

Word == 0 .. Modulus - 1

(* The sum of two words: one carry at most is lost.                        *)
Wrap(n) == IF n < Modulus THEN n ELSE n - Modulus

Area == [off : Word, len : Word, align : Word, last : Word]
Gap == [from : Word, to : Word]
NoArea == [off |-> 0, len |-> 0, align |-> 0, last |-> 0]
NoTail == [kind |-> "none", bytes |-> 0]
Tails == [kind : {"none", "unused", "beyond"}, bytes : Word]

-----------------------------------------------------------------------------
(* dwarf_insert_in_use_entry: a new node at the tail of the list.          *)
NewArea(o, l, al) ==
    [off |-> o, len |-> l, align |-> al, last |-> Wrap(o + l)]

(* The Elf header is the first area inserted, before any other header is   *)
(* read.                                                                   *)
Init ==
    /\ inuse = <<NewArea(0, HeaderSize, HeaderAlign)>>
    /\ pc = "load"
    /\ areas = << >>
    /\ i = 1
    /\ first = TRUE
    /\ low = NoArea
    /\ high = 0
    /\ gaps = {}
    /\ odd = {}
    /\ alignCount = 0 /\ alignSpace = 0
    /\ contentCount = 0 /\ contentSpace = 0
    /\ tail = NoTail

report == <<i, first, low, gaps, odd, alignCount, alignSpace,
            contentCount, contentSpace>>

InsertInUse(t) ==
    /\ pc = "load"
    /\ Len(inuse) < MaxAreas
    /\ inuse' = Append(inuse, NewArea(t.off, t.len, t.align))
    /\ UNCHANGED <<pc, areas, high, tail, report>>

-----------------------------------------------------------------------------
(* The copy of the list: nodes are freed as they are copied, and           *)
(* highoffset takes the largest u_lastbyte of all of them, empty ones      *)
(* included.                                                               *)
IsHighest(h, s) == \A k \in DOMAIN s : s[k].last <= h

CopyListTakesLastEnd ==
    /\ pc = "load"
    /\ areas' = inuse
    /\ high' = inuse[Len(inuse)].last
    /\ inuse' = << >>
    /\ pc' = "sort"
    /\ UNCHANGED <<tail, report>>

CopyList ==
    /\ pc = "load"
    /\ areas' = inuse
    /\ \E k \in DOMAIN inuse :
          /\ IsHighest(inuse[k].last, inuse)
          /\ high' = inuse[k].last
    /\ inuse' = << >>
    /\ pc' = "sort"
    /\ UNCHANGED <<tail, report>>

(* malloc of the array fails: nothing is reported and the list is kept     *)
(* for dwarf_destruct_elf_access.                                          *)
NoArray ==
    /\ pc = "load"
    /\ pc' = "failed"
    /\ UNCHANGED <<inuse, areas, high, tail, report>>

(* comproffset: by offset, then by end.                                    *)
NotAfter(a, b) == a.off < b.off \/ (a.off = b.off /\ a.last <= b.last)

Permutation(n) ==
    {p \in [1 .. n -> 1 .. n] : \A m \in 1 .. n : \E k \in 1 .. n : p[k] = m}

Ordered(s) == \A j, k \in DOMAIN s : j < k => NotAfter(s[j], s[k])

(* qsort                                                                   *)
Sort ==
    /\ pc = "sort"
    /\ \E p \in Permutation(Len(areas)) :
          /\ areas' = [k \in 1 .. Len(areas) |-> areas[p[k]]]
          /\ Ordered(areas')
    /\ pc' = "scan"
    /\ UNCHANGED <<inuse, high, tail, report>>

-----------------------------------------------------------------------------
(* The loop: one action for every path through its body.                   *)
current == areas[i]

Looking ==
    /\ pc = "scan"
    /\ i <= Len(areas)
    /\ i' = i + 1
    /\ UNCHANGED <<pc, inuse, areas, high, tail>>

unreported == <<gaps, odd, alignCount, alignSpace, contentCount, contentSpace>>

SkipEmptyWithoutAdvance ==
    /\ pc = "scan" /\ i <= Len(areas) /\ current.len = 0
    /\ UNCHANGED vars

SkipEmpty ==
    /\ Looking
    /\ current.len = 0
    /\ UNCHANGED <<first, low, unreported>>

FirstInstance ==
    /\ Looking
    /\ current.len # 0
    /\ first
    /\ first' = FALSE
    /\ low' = current
    /\ UNCHANGED unreported

(* The tests that follow are made of a non-empty area that is not the      *)
(* first one.                                                              *)
Comparing ==
    /\ Looking
    /\ current.len # 0
    /\ ~first
    /\ first' = first

SameOffset ==
    /\ Comparing
    /\ current.off = low.off
    /\ low' = current
    /\ UNCHANGED unreported

Adjacent ==
    /\ Comparing
    /\ current.off # low.off
    /\ current.off = low.last
    /\ low' = current
    /\ UNCHANGED unreported

(* The distance from low's end to the next multiple of the alignment.      *)
Distance(last, align) ==
    IF last % align = 0 THEN 0 ELSE align - (last % align)

ExplainedByAlignment ==
    /\ current.align > 1
    /\ current.off = Wrap(low.last + Distance(low.last, current.align))

(* A gap is reported together with the bytes it covers.                    *)
TheGapFromLowsStart == [from |-> low.off, to |-> current.off]

TheGap == [from |-> low.last, to |-> current.off]

AfterLow ==
    /\ Comparing
    /\ current.off # low.off
    /\ current.off > low.last

AlignmentGapFallsThrough ==
    /\ AfterLow
    /\ ExplainedByAlignment
    /\ alignCount' = alignCount + 1
    /\ alignSpace' = alignSpace + Distance(low.last, current.align)
    /\ contentCount' = contentCount + 1
    /\ contentSpace' = contentSpace + (current.off - low.last)
    /\ gaps' = gaps \cup {TheGap}
    /\ low' = current
    /\ UNCHANGED odd

AlignmentGap ==
    /\ AfterLow
    /\ ExplainedByAlignment
    /\ alignCount' = alignCount + 1
    /\ alignSpace' = alignSpace + Distance(low.last, current.align)
    /\ gaps' = gaps \cup {TheGap}
    /\ low' = current
    /\ UNCHANGED <<odd, contentCount, contentSpace>>

ContentGap ==
    /\ AfterLow
    /\ ~ExplainedByAlignment
    /\ contentCount' = contentCount + 1
    /\ contentSpace' = contentSpace + (current.off - low.last)
    /\ gaps' = gaps \cup {TheGap}
    /\ low' = current
    /\ UNCHANGED <<odd, alignCount, alignSpace>>

BeforeLowsEnd ==
    /\ Comparing
    /\ current.off # low.off
    /\ current.off < low.last

ContainedBecomesLow ==
    /\ BeforeLowsEnd
    /\ current.last <= low.last
    /\ low' = current
    /\ UNCHANGED unreported

Contained ==
    /\ BeforeLowsEnd
    /\ current.last <= low.last
    /\ UNCHANGED <<low, unreported>>

OddOverlapUnreported ==
    /\ BeforeLowsEnd
    /\ current.last > low.last
    /\ low' = current
    /\ UNCHANGED unreported

OddOverlap ==
    /\ BeforeLowsEnd
    /\ current.last > low.last
    /\ odd' = odd \cup {<<low, current>>}
    /\ low' = current
    /\ UNCHANGED <<gaps, alignCount, alignSpace, contentCount, contentSpace>>

(* The messages about the end of the file.                                 *)
TailMessage(h) ==
    CASE h < FileSize -> [kind |-> "unused", bytes |-> FileSize - h]
      [] h > FileSize -> [kind |-> "beyond", bytes |-> h - FileSize]
      [] OTHER -> NoTail

EndOfFile ==
    /\ pc = "scan"
    /\ i > Len(areas)
    /\ tail' = TailMessage(high)
    /\ pc' = "done"
    /\ UNCHANGED <<inuse, areas, high, report>>

Returned == pc \in {"done", "failed"} /\ UNCHANGED vars

Scan == \/ SkipEmpty \/ FirstInstance \/ SameOffset \/ Adjacent
        \/ AlignmentGap \/ ContentGap \/ Contained \/ OddOverlap

Next == \/ \E t \in Targets : InsertInUse(t)
        \/ CopyList \/ NoArray \/ Sort \/ Scan \/ EndOfFile \/ Returned

(* One thread runs the program to its end: loading stops, and the report   *)
(* runs until it returns.                                                  *)
Spec == Init /\ [][Next]_vars /\ WF_vars(Next)

-----------------------------------------------------------------------------
(* Properties.                                                             *)
TypeOK ==
    /\ inuse \in Seq(Area) /\ areas \in Seq(Area)
    /\ pc \in {"load", "sort", "scan", "done", "failed"}
    /\ i \in Nat \ {0}
    /\ first \in BOOLEAN
    /\ low \in Area /\ high \in Word
    /\ gaps \subseteq Gap
    /\ odd \subseteq Area \X Area
    /\ alignCount \in Nat /\ alignSpace \in Nat
    /\ contentCount \in Nat /\ contentSpace \in Nat
    /\ tail \in Tails

(* The areas the loop has passed.                                          *)
Seen == {areas[k] : k \in 1 .. i - 1}

(* No area the file describes ends past the last offset.                   *)
Wraps(a) == a.last # a.off + a.len
NoneWraps == \A k \in DOMAIN areas : ~ Wraps(areas[k])

Covers(a, b) == a.off <= b /\ b < a.last
InGap(b) == \E g \in gaps : g.from <= b /\ b < g.to
Scanning == pc \in {"scan", "done"}

(* The loop compares each area with low_instance alone; that is enough     *)
(* only if low_instance is, of all the non-empty areas passed, one that    *)
(* reaches furthest.                                                       *)
LowReachesFurthest ==
    Scanning /\ ~first /\ NoneWraps =>
        /\ low \in Seen
        /\ \A a \in Seen : a.len # 0 => a.last <= low.last

(* Every byte below the furthest area is either in an area of the file or  *)
(* in a reported gap, and never in both, however areas nest or overlap.    *)
GapsAreTheHoles ==
    Scanning /\ ~first /\ NoneWraps =>
        \A b \in 0 .. low.last - 1 :
            InGap(b) <=> ~ \E a \in Seen : Covers(a, b)

(* The two totals of the summary add up to the bytes below the furthest    *)
(* area that no area covers: none is counted twice or in both totals.      *)
Holes == {b \in 0 .. low.last - 1 : ~ \E a \in Seen : Covers(a, b)}

TotalsCountTheHoles ==
    Scanning /\ ~first /\ NoneWraps =>
        alignSpace + contentSpace = Cardinality(Holes)

(* The inductive invariant the proofs use.  The header is always among the *)
(* areas, so the first non-empty area starts at 0 and no gap can precede   *)
(* it; the areas passed start no later than the one looked at.             *)
TheHeader == NewArea(0, HeaderSize, HeaderAlign)

HeaderListed ==
    /\ pc = "load" => Len(inuse) > 0 /\ inuse[1] = TheHeader
    /\ pc = "sort" \/ Scanning => \E k \in DOMAIN areas : areas[k] = TheHeader

NothingYet ==
    /\ gaps = {}
    /\ alignSpace = 0
    /\ contentSpace = 0

ScanPosition ==
    /\ pc \in {"load", "sort"} => first /\ i = 1 /\ NothingYet
    /\ Scanning => i \in 1 .. Len(areas) + 1 /\ Ordered(areas)
    /\ Scanning /\ first => NothingYet /\ \A k \in 1 .. i - 1 : areas[k].len = 0
    /\ Scanning /\ ~first => low.len # 0

GapsEndBelowLow ==
    Scanning /\ ~first /\ NoneWraps => \A g \in gaps : g.to <= low.last

HighIsHighest ==
    pc = "sort" \/ Scanning =>
        /\ \A k \in DOMAIN areas : areas[k].last <= high
        /\ \E k \in DOMAIN areas : areas[k].last = high

TailStartsAtHigh ==
    /\ tail = IF pc = "done" THEN TailMessage(high) ELSE NoTail
    /\ pc = "done" => i > Len(areas)

IInv ==
    /\ TypeOK
    /\ HighIsHighest
    /\ TailStartsAtHigh
    /\ HeaderListed
    /\ ScanPosition
    /\ GapsEndBelowLow
    /\ LowReachesFurthest
    /\ GapsAreTheHoles
    /\ TotalsCountTheHoles

(* The bytes said to be unused at the end of the file are all those in no  *)
(* area and in no gap already reported, except that highoffset is taken    *)
(* over empty areas too: what lies before an empty one is not in the tail, *)
(* and when nothing else is there it is in no message at all.              *)
InTail(b) == tail.kind = "unused" /\ b >= FileSize - tail.bytes

BeforeEmpty(b) == \E k \in DOMAIN areas : areas[k].len = 0 /\ b < areas[k].off

TailIsTheRest ==
    pc = "done" /\ NoneWraps =>
        \A b \in 0 .. FileSize - 1 :
            InTail(b) <=> /\ ~ InGap(b)
                          /\ \A k \in DOMAIN areas : ~ Covers(areas[k], b)
                          /\ ~ BeforeEmpty(b)

(* This does not hold.  readelfobj.1 promises "a report of space wasted in *)
(* the object file": every byte of the file is in an area, in a gap or in  *)
(* the tail.  By TailIsTheRest the bytes left out are those before an      *)
(* empty area at the top.                                                  *)
EveryByteAccountedFor ==
    pc = "done" /\ NoneWraps =>
        \A b \in 0 .. FileSize - 1 :
            InGap(b) \/ InTail(b) \/ \E a \in Seen : Covers(a, b)

(* The report is made, or given up, for every file.                        *)
Reports == <>(pc \in {"done", "failed"})

(* The loop and its messages implement the promise of SpaceAccounting.     *)
ClaimsOf(s) == {[from |-> s[k].off, to |-> s[k].last] :
                    k \in {j \in DOMAIN s : s[j].len # 0}}

Accounting == INSTANCE SpaceAccounting WITH
    Offsets <- Word,
    Header <- [from |-> 0, to |-> HeaderSize],
    claims <- ClaimsOf(inuse) \cup ClaimsOf(areas),
    verdict <-
        CASE pc = "done" -> [status |-> "reported",
                             wasted |-> {b \in Word : InGap(b)},
                             straddle |-> odd # {}]
          [] pc = "failed" -> [status |-> "failed", wasted |-> {},
                               straddle |-> FALSE]
          [] OTHER -> [status |-> "none", wasted |-> {}, straddle |-> FALSE]

ImplementsAccounting == Accounting!Spec

(* What the refinement needs of the states in between: the list becomes    *)
(* the array, low_instance is not inside another of the areas passed, and  *)
(* an overlap has been reported when, of these alone, two straddle.        *)
ListOrArray ==
    /\ pc = "load" => areas = << >>
    /\ pc \in {"sort", "scan", "done"} => inuse = << >>

EndsAreComputed ==
    \A s \in {inuse, areas} : \A k \in DOMAIN s :
        s[k].last = Wrap(s[k].off + s[k].len)

Passed == {[from |-> a.off, to |-> a.last] : a \in {x \in Seen : x.len # 0}}

LowIsOutermost ==
    Scanning /\ ~first /\ NoneWraps =>
        \A a \in Seen : a.len # 0 /\ a.last = low.last => low.off <= a.off

OddIsStraddle ==
    /\ pc \in {"load", "sort"} \/ first => odd = {}
    /\ Scanning /\ ~first /\ NoneWraps =>
           (odd # {} <=> Accounting!Straddle(Passed))

RefinementInv ==
    IInv /\ ListOrArray /\ EndsAreComputed /\ LowIsOutermost /\ OddIsStraddle
=============================================================================
