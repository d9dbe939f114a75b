---------------------------- MODULE ReportProofs ----------------------------
(***************************************************************************)
(* Proofs about what the lines of the report are made of: the strings they *)
(* are put together in (DwarfString), the word on a gap, all zero or not   *)
(* (ZeroCheck), the names found in the file (Sanitizer, by way of          *)
(* Printing), the values written by a format (StringFormat) and the names  *)
(* of constants (ElfNaming).                                               *)
(***************************************************************************)
EXTENDS DwarfString, Printing, ZeroCheck,
        FiniteSetTheorems, SequenceTheorems, TLAPS

-----------------------------------------------------------------------------
(* The string buffer, for strings, arrays and blocks of every size.        *)

(* What a write followed by a terminator leaves in a block it fits.        *)
LEMMA WriteSpec ==
    ASSUME NEW c, IsBlock(c),
           NEW pos \in Nat, NEW s \in Seq(Char), pos + Len(s) \in DOMAIN c
    PROVE  LET d == Terminate(Write(c, pos, s), pos + Len(s))
           IN  /\ IsBlock(d)
               /\ DOMAIN d = DOMAIN c
               /\ d[pos + Len(s)] = Nul
               /\ \A k \in DOMAIN c :
                     /\ k < pos => d[k] = c[k]
                     /\ pos <= k /\ k < pos + Len(s) => d[k] = s[k - pos + 1]
<1> DEFINE w == Write(c, pos, s)
           d == Terminate(w, pos + Len(s))
<1>1. Len(s) \in Nat /\ \A k \in 1 .. Len(s) : s[k] \in Char
  OBVIOUS
<1>2. w = [k \in DOMAIN c |-> IF pos <= k /\ k < pos + Len(s)
                              THEN s[k - pos + 1] ELSE c[k]]
  BY DEF Write
<1>3. d = [w EXCEPT ![pos + Len(s)] = Nul]
  BY DEF Terminate
<1>4. \A k \in DOMAIN c : pos <= k /\ k < pos + Len(s) =>
          k - pos + 1 \in 1 .. Len(s)
  BY <1>1
<1>5. w \in [DOMAIN c -> Cell]
  BY <1>1, <1>2, <1>4 DEF Cell, IsBlock
<1>6. d \in [DOMAIN c -> Cell] /\ DOMAIN d = DOMAIN c /\ d[pos + Len(s)] = Nul
  BY <1>3, <1>5 DEF Cell
<1>7. ASSUME NEW k \in DOMAIN c
      PROVE  /\ k < pos => d[k] = c[k]
             /\ pos <= k /\ k < pos + Len(s) => d[k] = s[k - pos + 1]
  <2>0. k \in Nat /\ pos + Len(s) \in Nat /\ DOMAIN w = DOMAIN c
    BY <1>1, <1>2 DEF IsBlock
  <2>1. k < pos + Len(s) => k # pos + Len(s)
    BY <2>0
  <2>2. k # pos + Len(s) => d[k] = w[k]
    BY <1>3, <2>0, Zenon
  <2> QED
    BY <1>1, <1>2, <2>0, <2>1, <2>2
<1>8. IsBlock(d)
  BY <1>6 DEF IsBlock
<1> QED
  BY <1>6, <1>7, <1>8

(* A grown block holds the old text, and room for n bytes and a null.      *)
LEMMA CopiedSpec ==
    ASSUME Inv, NEW n \in Nat, n > lastpos
    PROVE  /\ IsBlock(Copied(n))
           /\ n \in DOMAIN Copied(n)
           /\ \A k \in 0 .. lastpos - 1 : Copied(n)[k] = cells[k]
<1>1. lastpos \in Nat
  BY DEF Inv, TypeOK, lastpos
<1>2. MallocLen(n) \in Nat /\ MallocLen(n) >= n + 1
  BY SizesAssumption DEF MallocLen
<1>3. DOMAIN Copied(n) = 0 .. MallocLen(n) - 1
  BY DEF Copied
<1>4. \A k \in 0 .. lastpos - 1 : cells[k] \in Char
  BY DEF Inv, NulTerminated
<1>5. \A k \in 0 .. MallocLen(n) - 1 : Copied(n)[k] \in Cell
  BY <1>1, <1>4 DEF Copied, Cell
<1>6. \A k \in 0 .. lastpos - 1 : Copied(n)[k] = cells[k]
  BY <1>1, <1>2 DEF Copied
<1>7. Copied(n) \in [0 .. MallocLen(n) - 1 -> Cell]
  BY <1>5 DEF Copied
<1> QED
  BY <1>2, <1>3, <1>6, <1>7 DEF IsBlock

-----------------------------------------------------------------------------
(* The constant the buffer starts with is a block of one null.             *)
LEMMA LiteralCells ==
    IsBlock(Literal) /\ DOMAIN Literal = {0} /\ Literal[0] = Nul
BY DEF Literal, Cell, IsBlock

(* Before construction nothing is wrong.                                   *)
LEMMA InitInv == Init => Inv
<1> SUFFICES ASSUME Init PROVE Inv
  OBVIOUS
<1>1. TypeOK
  <2>1. FlagType
    BY DEF Init, FlagType
  <2> QED
    BY <2>1, LiteralCells DEF Init, TypeOK
<1>2. NulTerminated
  BY LiteralCells DEF Init, NulTerminated, lastpos
<1>3. OwnsItsBlock /\ MemorySafe /\ NewIsLiteral /\ RoomIsReal
  BY BlockAssumption
  DEF Init, OwnsItsBlock, Freed, MemorySafe, NewIsLiteral, RoomIsReal
<1> QED
  BY <1>1, <1>2, <1>3 DEF Inv

(* The outcomes that leave an empty string on the constant "".             *)
LEMMA LiteralInv ==
    ASSUME s_data' = "literal", cells' = Literal, s_size' = 0, s_avail' = 0,
           s_malloc' = FALSE, live' = {}, fault' = FALSE,
           result' \in BOOLEAN, phase' \in {"new", "built"}
    PROVE  Inv'
<1>1. TypeOK'
  <2>1. FlagType'
    BY DEF FlagType
  <2> QED
    BY <2>1, LiteralCells DEF TypeOK
<1>2. NulTerminated'
  BY LiteralCells DEF NulTerminated, lastpos
<1>3. OwnsItsBlock' /\ MemorySafe' /\ NewIsLiteral' /\ RoomIsReal'
  BY BlockAssumption
  DEF OwnsItsBlock, Freed, MemorySafe, NewIsLiteral, RoomIsReal
<1> QED
  BY <1>1, <1>2, <1>3 DEF Inv

(* Before construction nothing is live and nothing went wrong.             *)
LEMMA NewInv ==
    ASSUME Inv, phase = "new" PROVE live = {} /\ fault = FALSE
BY BlockAssumption
DEF Inv, NewIsLiteral, OwnsItsBlock, Freed, MemorySafe, TypeOK

(* A fresh block of at least n cells that hold the empty string.           *)
LEMMA FreshCells ==
    ASSUME NEW n \in Nat \ {0}, NEW c,
           c = Terminate([k \in 0 .. n - 1 |-> Garbage], 0)
    PROVE  IsBlock(c) /\ DOMAIN c = 0 .. n - 1 /\ c[0] = Nul
BY DEF Terminate, Cell, IsBlock

(* Each of the constructors is such a construction.                        *)
LEMMA BuildInv ==
    ASSUME Inv, [Next]_vars,
           \/ Constructor
           \/ \E len \in SpaceSizes : ConstructorStatic(len)
           \/ \E len \in FixedSizes : \/ ConstructorFixed(len)
                                      \/ ConstructorFixedLiteral(len)
    PROVE  Inv'
<1>1. CASE Constructor
  BY <1>1, NewInv, LiteralInv DEF Constructor
<1>2. ASSUME NEW len \in SpaceSizes, ConstructorStatic(len) PROVE Inv'
  <2>1. len \in Nat \ {0} /\ phase = "new"
    BY <1>2, SizesAssumption DEF ConstructorStatic
  <2>2. IsBlock(cells') /\ DOMAIN cells' = 0 .. len - 1 /\ cells'[0] = Nul
    BY <1>2, <2>1, FreshCells DEF ConstructorStatic
  <2>3. /\ s_data' = "space" /\ s_size' = len /\ s_avail' = len
        /\ s_malloc' = FALSE /\ live' = {} /\ fault' = FALSE
        /\ result' = TRUE /\ phase' = "built"
    BY <1>2, <2>1, NewInv DEF ConstructorStatic
  <2>6. TypeOK'
    <3>1. FlagType'
      BY <2>3 DEF FlagType
    <3> QED
      BY <3>1, <2>1, <2>2, <2>3 DEF TypeOK
  <2>7. NulTerminated'
    BY <2>1, <2>2, <2>3 DEF NulTerminated, lastpos
  <2>8. OwnsItsBlock' /\ MemorySafe' /\ NewIsLiteral'
    BY <2>1, <2>2, <2>3, BlockAssumption
    DEF OwnsItsBlock, Freed, MemorySafe, NewIsLiteral
  <2>9. RoomIsReal'
    BY <2>1, <2>2, <2>3, BlockAssumption DEF RoomIsReal
  <2> QED
    BY <2>6, <2>7, <2>8, <2>9 DEF Inv
<1>3. ASSUME NEW len \in FixedSizes, ConstructorFixed(len) PROVE Inv'
  <2>1. len \in Nat \ {0} /\ phase = "new"
    BY <1>3, SizesAssumption DEF ConstructorFixed
  <2>2. MallocLen(len) \in Nat \ {0} /\ MallocLen(len) > len
    BY <2>1, SizesAssumption DEF MallocLen
  <2>3. /\ IsBlock(cells') /\ DOMAIN cells' = 0 .. MallocLen(len) - 1
        /\ cells'[0] = Nul
    BY <1>3, <2>2, FreshCells DEF ConstructorFixed
  <2>4. PICK b \in Block \ live : s_data' = b /\ live' = live \cup {b}
    BY <1>3 DEF ConstructorFixed
  <2>5. /\ s_size' = len /\ s_avail' = len
        /\ s_malloc' = TRUE /\ live' = {b} /\ fault' = FALSE
        /\ result' = TRUE /\ phase' = "built"
    BY <1>3, <2>1, <2>4, NewInv DEF ConstructorFixed
  <2>6. TypeOK'
    <3>1. FlagType'
      BY <2>5 DEF FlagType
    <3> QED
      BY <3>1, <2>1, <2>2, <2>3, <2>4, <2>5 DEF TypeOK
  <2>7. NulTerminated'
    BY <2>1, <2>2, <2>3, <2>4, <2>5 DEF NulTerminated, lastpos
  <2>8. OwnsItsBlock' /\ MemorySafe' /\ NewIsLiteral'
    BY <2>1, <2>2, <2>3, <2>4, <2>5, BlockAssumption
    DEF OwnsItsBlock, Freed, MemorySafe, NewIsLiteral
  <2>9. RoomIsReal'
    BY <2>1, <2>2, <2>3, <2>4, <2>5, BlockAssumption DEF RoomIsReal
  <2> QED
    BY <2>6, <2>7, <2>8, <2>9 DEF Inv
<1>4. ASSUME NEW len \in FixedSizes, ConstructorFixedLiteral(len) PROVE Inv'
  BY <1>4, NewInv, LiteralInv DEF ConstructorFixedLiteral
<1> QED
  BY <1>1, <1>2, <1>3, <1>4

(* An append that fits stays in the block and ends the text anew.          *)
LEMMA AppendInPlaceInv ==
    ASSUME Inv, NEW s \in Strings, AppendInPlace(s)
    PROVE  Inv'
<1>1. /\ s \in Seq(Char) /\ Len(s) \in Nat /\ Len(s) # 0
      /\ s_size \in Nat /\ s_avail \in 0 .. s_size /\ lastpos \in Nat
      /\ Len(s) < s_avail
  BY StringsAssumption
  DEF Inv, TypeOK, lastpos, AppendInPlace, Room
<1>2. /\ IsBlock(cells) /\ DOMAIN cells \subseteq Nat
      /\ \A k \in DOMAIN cells : 0 .. k \subseteq DOMAIN cells
  BY DEF Inv, TypeOK, IsBlock
<1>3. s_data # "literal" /\ s_data \in Block \cup {"space"}
  BY <1>1 DEF Inv, RoomIsReal, TypeOK
<1>4. lastpos + Len(s) \in DOMAIN cells
  <2>1. lastpos + Len(s) < s_size
    BY <1>1 DEF lastpos
  <2>2. s_size - 1 \in DOMAIN cells \/ s_size \in DOMAIN cells
    BY <1>1, <1>3 DEF Inv, RoomIsReal
  <2> QED
    BY <1>1, <1>2, <2>1, <2>2
<1>5. cells' = Terminate(Write(cells, lastpos, s), lastpos + Len(s))
  BY DEF AppendInPlace
<1>6. /\ IsBlock(cells') /\ DOMAIN cells' = DOMAIN cells
      /\ cells'[lastpos + Len(s)] = Nul
      /\ \A k \in DOMAIN cells :
            /\ k < lastpos => cells'[k] = cells[k]
            /\ lastpos <= k /\ k < lastpos + Len(s) =>
                  cells'[k] = s[k - lastpos + 1]
  <2> DEFINE d == Terminate(Write(cells, lastpos, s), lastpos + Len(s))
  <2>1. /\ IsBlock(d) /\ DOMAIN d = DOMAIN cells /\ d[lastpos + Len(s)] = Nul
        /\ \A k \in DOMAIN cells :
              /\ k < lastpos => d[k] = cells[k]
              /\ lastpos <= k /\ k < lastpos + Len(s) => d[k] = s[k - lastpos + 1]
    <3>1. IsBlock(cells) /\ lastpos \in Nat /\ s \in Seq(Char)
      BY <1>1, <1>2
    <3> QED
      BY <3>1, <1>4, WriteSpec
  <2> HIDE DEF d
  <2>2. cells' = d
    BY <1>5 DEF d
  <2> QED
    BY <2>1, <2>2
<1>7. /\ s_data' = s_data /\ s_size' = s_size /\ s_avail' = s_avail - Len(s)
      /\ s_malloc' = s_malloc /\ live' = live /\ phase' = phase
      /\ result' = TRUE /\ phase = "built"
  BY DEF AppendInPlace, Appending
<1>8. fault' = FALSE
  BY <1>3, <1>4 DEF AppendInPlace, Inv, MemorySafe, TypeOK, Fits
<1>9. lastpos' = lastpos + Len(s)
  <2>1. s_size' - s_avail' = s_size - s_avail + Len(s)
    BY <1>1, <1>7
  <2> QED
    BY <2>1 DEF lastpos
<1>10. TypeOK'
  <2>1. FlagType'
    BY <1>7, <1>8 DEF FlagType, Inv, TypeOK
  <2> QED
    BY <2>1, <1>1, <1>2, <1>6, <1>7, <1>8 DEF Inv, TypeOK
<1>11. NulTerminated'
  <2>1. ASSUME NEW k \in 0 .. lastpos + Len(s) - 1
        PROVE  cells'[k] \in Char
    <3>1. k \in DOMAIN cells
      BY <1>1, <1>2, <1>4
    <3>2. CASE k < lastpos
      BY <1>1, <1>6, <3>1, <3>2 DEF Inv, NulTerminated
    <3>3. CASE ~(k < lastpos)
      <4>1. k - lastpos + 1 \in 1 .. Len(s)
        BY <1>1, <3>3
      <4> QED
        BY <1>1, <1>6, <3>1, <3>3, <4>1
    <3> QED
      BY <3>2, <3>3
  <2>2. \A k \in 0 .. lastpos' - 1 : cells'[k] \in Char
    <3>1. lastpos' - 1 = lastpos + Len(s) - 1
      BY <1>1, <1>9
    <3> QED
      BY <3>1, <2>1
  <2>3. lastpos' \in DOMAIN cells' /\ cells'[lastpos'] = Nul
    BY <1>4, <1>6, <1>9
  <2> QED
    BY <2>2, <2>3 DEF NulTerminated
<1>12. OwnsItsBlock' /\ MemorySafe' /\ NewIsLiteral'
  BY <1>7, <1>8
  DEF Inv, OwnsItsBlock, Freed, MemorySafe, NewIsLiteral
<1>13. RoomIsReal'
  BY <1>1, <1>3, <1>6, <1>7 DEF Inv, RoomIsReal
<1> QED
  BY <1>10, <1>11, <1>12, <1>13 DEF Inv

(* An append that does not fit moves the text to a larger block.           *)
LEMMA AppendGrowsInv ==
    ASSUME Inv, NEW s \in Strings, AppendGrows(s)
    PROVE  Inv'
<1> DEFINE n == NewLen(s)
<1>1. /\ s \in Seq(Char) /\ Len(s) \in Nat /\ Len(s) # 0
      /\ s_size \in Nat /\ s_avail \in 0 .. s_size /\ lastpos \in Nat
      /\ lastpos <= s_size
  BY StringsAssumption DEF Inv, TypeOK, lastpos, AppendGrows
<1>2. n \in Nat /\ n > lastpos + Len(s) + 1
  BY <1>1 DEF NewLen
<1> DEFINE c == Copied(n)
<1>3. /\ IsBlock(c) /\ n \in DOMAIN c
      /\ \A k \in 0 .. lastpos - 1 : c[k] = cells[k]
  BY <1>1, <1>2, CopiedSpec
<1>4. /\ lastpos + Len(s) \in DOMAIN c /\ DOMAIN c \subseteq Nat
      /\ \A k \in 0 .. lastpos + Len(s) - 1 : k \in DOMAIN c
  BY <1>1, <1>2, <1>3 DEF IsBlock
<1>5. cells' = Terminate(Write(c, lastpos, s), lastpos + Len(s))
  BY DEF AppendGrows
<1>6. /\ IsBlock(cells') /\ DOMAIN cells' = DOMAIN c
      /\ cells'[lastpos + Len(s)] = Nul
      /\ \A k \in DOMAIN c :
            /\ k < lastpos => cells'[k] = c[k]
            /\ lastpos <= k /\ k < lastpos + Len(s) =>
                  cells'[k] = s[k - lastpos + 1]
  BY <1>1, <1>3, <1>4, <1>5, WriteSpec
<1>7. PICK b \in Block \ live : s_data' = b /\ live' = (live \ Freed) \cup {b}
  BY DEF AppendGrows
<1>8. /\ s_size' = n /\ s_avail' = n - lastpos - Len(s) /\ s_malloc' = TRUE
      /\ result' = TRUE /\ phase' = "built"
  BY DEF AppendGrows, Appending
<1>9. fault' = FALSE
  BY <1>4 DEF AppendGrows, Inv, MemorySafe, OwnsItsBlock, Fits
<1>10. live' = {b}
  BY <1>7 DEF Inv, OwnsItsBlock
<1>11. lastpos' = lastpos + Len(s)
  <2>1. s_size' - s_avail' = lastpos + Len(s)
    BY <1>1, <1>2, <1>8
  <2> QED
    BY <2>1 DEF lastpos
<1>12. TypeOK'
  <2>1. FlagType'
    BY <1>8, <1>9 DEF FlagType
  <2>2. s_avail' \in 0 .. s_size'
    BY <1>1, <1>2, <1>8
  <2> QED
    BY <1>2, <1>6, <1>7, <1>8, <1>10, <2>1, <2>2 DEF TypeOK
<1>13. NulTerminated'
  <2>1. ASSUME NEW k \in 0 .. lastpos + Len(s) - 1
        PROVE  cells'[k] \in Char
    <3>1. k \in DOMAIN c
      BY <1>4
    <3>2. CASE k < lastpos
      <4>1. k \in 0 .. lastpos - 1
        BY <1>1, <3>2
      <4>2. cells'[k] = cells[k]
        BY <1>3, <1>6, <3>1, <3>2, <4>1
      <4> QED
        BY <4>1, <4>2 DEF Inv, NulTerminated
    <3>3. CASE ~(k < lastpos)
      <4>1. k - lastpos + 1 \in 1 .. Len(s)
        BY <1>1, <3>3
      <4> QED
        BY <1>1, <1>6, <3>1, <3>3, <4>1
    <3> QED
      BY <3>2, <3>3
  <2>2. \A k \in 0 .. lastpos' - 1 : cells'[k] \in Char
    <3>1. lastpos' - 1 = lastpos + Len(s) - 1
      BY <1>1, <1>11
    <3> QED
      BY <3>1, <2>1
  <2>3. lastpos' \in DOMAIN cells' /\ cells'[lastpos'] = Nul
    BY <1>4, <1>6, <1>11
  <2> QED
    BY <2>2, <2>3 DEF NulTerminated
<1>14. OwnsItsBlock' /\ MemorySafe' /\ NewIsLiteral'
  <2>1. Freed' = {b}
    BY <1>7, <1>8 DEF Freed
  <2>2. s_data' \in Block /\ s_malloc'
    BY <1>7, <1>8
  <2> QED
    BY <1>8, <1>9, <1>10, <2>1, <2>2
    DEF OwnsItsBlock, MemorySafe, NewIsLiteral
<1>15. RoomIsReal'
  BY <1>3, <1>6, <1>7, <1>8, BlockAssumption DEF RoomIsReal
<1> QED
  BY <1>12, <1>13, <1>14, <1>15 DEF Inv

(* A reset empties the text where it is.                                   *)
LEMMA ResetInv ==
    ASSUME Inv, Reset PROVE Inv'
<1>1. CASE s_size = 0
  <2>1. UNCHANGED <<s_data, cells, s_size, s_avail, s_malloc, live, fault, phase>>
        /\ result' = TRUE
    BY <1>1 DEF Reset
  <2>2. TypeOK'
    <3>1. FlagType'
      BY <2>1 DEF Inv, TypeOK, FlagType
    <3> QED
      BY <2>1, <3>1 DEF Inv, TypeOK
  <2> QED
    BY <2>1, <2>2
    DEF Inv, NulTerminated, OwnsItsBlock, Freed, MemorySafe, RoomIsReal,
        NewIsLiteral, lastpos
<1>2. CASE s_size # 0
  <2>1. /\ s_data' = s_data /\ s_size' = s_size /\ s_avail' = s_size
        /\ s_malloc' = s_malloc /\ live' = live /\ phase' = phase
        /\ result' = TRUE /\ cells' = Terminate(cells, 0)
        /\ fault' = (fault \/ s_data = "literal")
    BY <1>2 DEF Reset
  <2>2. s_size \in Nat /\ IsBlock(cells) /\ s_data # "literal"
    BY <1>2 DEF Inv, TypeOK, RoomIsReal
  <2>3. 0 \in DOMAIN cells
    BY <2>2 DEF Inv, NulTerminated, IsBlock
  <2>4. IsBlock(cells') /\ DOMAIN cells' = DOMAIN cells /\ cells'[0] = Nul
    BY <2>1, <2>2, <2>3 DEF Terminate, IsBlock, Cell
  <2>5. fault' = FALSE
    BY <2>1, <2>2 DEF Inv, MemorySafe
  <2>6. TypeOK'
    <3>1. FlagType'
      BY <2>1, <2>5 DEF Inv, TypeOK, FlagType
    <3> QED
      BY <2>1, <2>2, <2>4, <3>1 DEF Inv, TypeOK
  <2>7. NulTerminated'
    <3>1. lastpos' = 0
      BY <2>1, <2>2 DEF lastpos
    <3> QED
      BY <2>3, <2>4, <3>1 DEF NulTerminated
  <2>8. OwnsItsBlock' /\ MemorySafe' /\ NewIsLiteral'
    BY <2>1, <2>5 DEF Inv, OwnsItsBlock, Freed, MemorySafe, NewIsLiteral
  <2>9. RoomIsReal'
    BY <1>2, <2>1, <2>2, <2>4 DEF Inv, RoomIsReal
  <2> QED
    BY <2>6, <2>7, <2>8, <2>9 DEF Inv
<1> QED
  BY <1>1, <1>2

(* The invariant is kept by every step.                                    *)
LEMMA StepInv == Inv /\ [Next]_vars => Inv'
<1> SUFFICES ASSUME Inv, [Next]_vars PROVE Inv'
  OBVIOUS
<1>1. ASSUME UNCHANGED <<s_data, cells, s_size, s_avail, s_malloc, live, fault,
                         phase>>,
             result' \in BOOLEAN
      PROVE  Inv'
  <2>1. FlagType'
    BY <1>1 DEF Inv, TypeOK, FlagType
  <2>2. TypeOK'
    BY <1>1, <2>1 DEF Inv, TypeOK
  <2> QED
    BY <1>1, <2>2
    DEF Inv, NulTerminated, OwnsItsBlock, Freed, MemorySafe, RoomIsReal,
        NewIsLiteral, lastpos
<1>2. ASSUME NEW s \in Strings, AppendNothing(s) \/ AppendFails(s) PROVE Inv'
  BY <1>1, <1>2 DEF AppendNothing, AppendFails
<1>3. CASE Destructor
  <2>1. live' = {} /\ fault' = FALSE
    BY <1>3 DEF Destructor, Inv, OwnsItsBlock, MemorySafe
  <2> QED
    BY <1>3, <2>1, LiteralInv DEF Destructor
<1>4. CASE UNCHANGED vars
  BY <1>1, <1>4 DEF vars, Inv, TypeOK, FlagType
<1> QED
  BY <1>2, <1>3, <1>4, BuildInv, AppendInPlaceInv, AppendGrowsInv, ResetInv
  DEF Next

(* The inductive invariant: types, terminator, ownership and room together. *)
THEOREM Invariant == Spec => []Inv
<1> QED
  BY InitInv, StepInv, PTL DEF Spec

(* Whatever is appended and whenever malloc fails, the byte after the      *)
(* string is in the block and is null, and none before it is.              *)
THEOREM AlwaysTerminated == Spec => []NulTerminated
<1>1. Inv => NulTerminated
  BY DEF Inv
<1> QED
  BY <1>1, Invariant, PTL

(* No block leaks and none is freed twice or while it is in use.           *)
THEOREM OwnershipExact == Spec => []OwnsItsBlock
<1>1. Inv => OwnsItsBlock
  BY DEF Inv
<1> QED
  BY <1>1, Invariant, PTL

(* No write goes past the end of a block or into the constant "".          *)
THEOREM NeverFaults == Spec => []MemorySafe
<1>1. Inv => MemorySafe
  BY DEF Inv
<1> QED
  BY <1>1, Invariant, PTL

-----------------------------------------------------------------------------
(* Refinement: the string in the cells is the text of StringBuffer.        *)
LEMMA TextOf ==
    ASSUME NEW c, NEW n \in Nat, \A k \in 0 .. n - 1 : c[k] \in Char
    PROVE  /\ [k \in 1 .. n |-> c[k - 1]] \in Seq(Char)
           /\ Len([k \in 1 .. n |-> c[k - 1]]) = n
<1>1. \A k \in 1 .. n : k - 1 \in 0 .. n - 1
  OBVIOUS
<1>2. \A k \in 1 .. n : c[k - 1] \in Char
  BY <1>1
<1> QED
  BY <1>2

(* The text of the buffer is a string of characters.                       *)
LEMMA TextType ==
    ASSUME Inv
    PROVE  Text \in Seq(Char) /\ Len(Text) = lastpos /\ lastpos \in Nat
<1>1. lastpos \in Nat
  BY DEF Inv, TypeOK, lastpos
<1>2. \A k \in 0 .. lastpos - 1 : cells[k] \in Char
  BY DEF Inv, NulTerminated
<1> QED
  BY <1>1, <1>2, TextOf DEF Text

(* Cells that keep the old text and add s hold the two concatenated.       *)
LEMMA TextExtends ==
    ASSUME Inv, Inv', NEW s \in Seq(Char),
           lastpos' = lastpos + Len(s),
           \A k \in 0 .. lastpos - 1 : cells'[k] = cells[k],
           \A k \in lastpos .. lastpos + Len(s) - 1 :
                cells'[k] = s[k - lastpos + 1]
    PROVE  Text' = Text \o s
<1>1. /\ Text \in Seq(Char) /\ Len(Text) = lastpos /\ lastpos \in Nat
      /\ Len(s) \in Nat
  BY TextType
<1>2. Text' \in Seq(Char) /\ Len(Text') = lastpos + Len(s)
  <2>1. lastpos' \in Nat /\ \A k \in 0 .. lastpos' - 1 : cells'[k] \in Char
    BY <1>1 DEF Inv, NulTerminated
  <2>2. /\ [k \in 1 .. lastpos' |-> cells'[k - 1]] \in Seq(Char)
        /\ Len([k \in 1 .. lastpos' |-> cells'[k - 1]]) = lastpos'
    BY <2>1, TextOf
  <2> QED
    BY <2>2 DEF Text
<1>3. Text \o s \in Seq(Char) /\ Len(Text \o s) = lastpos + Len(s)
  <2>1. Text \o s \in Seq(Char) /\ Len(Text \o s) = Len(Text) + Len(s)
    BY <1>1, ConcatProperties, Zenon
  <2> QED
    BY <1>1, <2>1
<1>4. ASSUME NEW k \in 1 .. lastpos + Len(s)
      PROVE  Text'[k] = (Text \o s)[k]
  <2>1. Text'[k] = cells'[k - 1]
    BY <1>1, <1>4 DEF Text
  <2>2. CASE k <= lastpos
    <3>1. k - 1 \in 0 .. lastpos - 1 /\ k \in 1 .. lastpos
      BY <1>1, <2>2
    <3>2. Text[k] = cells[k - 1]
      BY <3>1 DEF Text
    <3> QED
      BY <1>1, <2>1, <2>2, <3>1, <3>2
  <2>3. CASE ~(k <= lastpos)
    <3>1. k - 1 \in lastpos .. lastpos + Len(s) - 1
      BY <1>1, <2>3
    <3>2. cells'[k - 1] = s[(k - 1) - lastpos + 1]
      BY <3>1
    <3>3. (k - 1) - lastpos + 1 = k - lastpos
      BY <1>1
    <3>4. (Text \o s)[k] = s[k - lastpos]
      BY <1>1, <2>3
    <3> QED
      BY <2>1, <3>2, <3>3, <3>4
  <2> QED
    BY <2>2, <2>3
<1> QED
  BY <1>2, <1>3, <1>4, SeqEqual

(* A function of no index is the empty string.                             *)
LEMMA EmptyText ==
    ASSUME NEW c PROVE [k \in 1 .. 0 |-> c[k - 1]] = << >>
OBVIOUS

(* An append in place concatenates.                                        *)
LEMMA InPlaceExtends ==
    ASSUME Inv, Inv', NEW s \in Strings, AppendInPlace(s)
    PROVE  Text' = Text \o s
<1>1. /\ s \in Seq(Char) /\ Len(s) \in Nat /\ lastpos \in Nat
      /\ s_size \in Nat /\ s_avail \in 0 .. s_size /\ Len(s) < s_avail
      /\ s_data # "literal" /\ s_data \in Block \cup {"space"}
  BY StringsAssumption
  DEF Inv, TypeOK, lastpos, AppendInPlace, Room, RoomIsReal
<1>2. /\ IsBlock(cells) /\ DOMAIN cells \subseteq Nat
      /\ \A k \in DOMAIN cells : 0 .. k \subseteq DOMAIN cells
  BY DEF Inv, TypeOK, IsBlock
<1>3. lastpos + Len(s) \in DOMAIN cells
  <2>1. lastpos + Len(s) < s_size
    BY <1>1 DEF lastpos
  <2>2. s_size - 1 \in DOMAIN cells \/ s_size \in DOMAIN cells
    BY <1>1 DEF Inv, RoomIsReal
  <2> QED
    BY <1>1, <1>2, <2>1, <2>2
<1>4. cells' = Terminate(Write(cells, lastpos, s), lastpos + Len(s))
  BY DEF AppendInPlace
<1>5. \A k \in DOMAIN cells :
         /\ k < lastpos => cells'[k] = cells[k]
         /\ lastpos <= k /\ k < lastpos + Len(s) =>
               cells'[k] = s[k - lastpos + 1]
  BY <1>1, <1>2, <1>3, <1>4, WriteSpec
<1>6. \A k \in 0 .. lastpos + Len(s) - 1 : k \in DOMAIN cells
  BY <1>1, <1>2, <1>3
<1>7. lastpos' = lastpos + Len(s)
  <2>1. s_size' - s_avail' = s_size - s_avail + Len(s)
    BY <1>1 DEF AppendInPlace
  <2> QED
    BY <2>1 DEF lastpos
<1>8. \A k \in 0 .. lastpos - 1 : cells'[k] = cells[k]
  BY <1>1, <1>5, <1>6
<1>9. \A k \in lastpos .. lastpos + Len(s) - 1 : cells'[k] = s[k - lastpos + 1]
  BY <1>1, <1>5, <1>6
<1> QED
  BY <1>1, <1>7, <1>8, <1>9, TextExtends

(* An append into a larger block concatenates.                             *)
LEMMA GrowsExtends ==
    ASSUME Inv, Inv', NEW s \in Strings, AppendGrows(s)
    PROVE  Text' = Text \o s
<1> DEFINE n == NewLen(s)
<1>1. /\ s \in Seq(Char) /\ Len(s) \in Nat /\ lastpos \in Nat
      /\ s_size \in Nat /\ s_avail \in 0 .. s_size /\ lastpos <= s_size
  BY StringsAssumption DEF Inv, TypeOK, lastpos
<1>2. n \in Nat /\ n > lastpos + Len(s) + 1
  BY <1>1 DEF NewLen
<1> DEFINE c == Copied(n)
<1>3. /\ IsBlock(c) /\ n \in DOMAIN c
      /\ \A k \in 0 .. lastpos - 1 : c[k] = cells[k]
  BY <1>1, <1>2, CopiedSpec
<1>4. /\ lastpos + Len(s) \in DOMAIN c
      /\ \A k \in 0 .. lastpos + Len(s) - 1 : k \in DOMAIN c
  BY <1>1, <1>2, <1>3 DEF IsBlock
<1>5. cells' = Terminate(Write(c, lastpos, s), lastpos + Len(s))
  BY DEF AppendGrows
<1>6. \A k \in DOMAIN c :
         /\ k < lastpos => cells'[k] = c[k]
         /\ lastpos <= k /\ k < lastpos + Len(s) =>
               cells'[k] = s[k - lastpos + 1]
  BY <1>1, <1>3, <1>4, <1>5, WriteSpec
<1>7. lastpos' = lastpos + Len(s)
  <2>1. s_size' - s_avail' = lastpos + Len(s)
    BY <1>1, <1>2 DEF AppendGrows
  <2> QED
    BY <2>1 DEF lastpos
<1>8. \A k \in 0 .. lastpos - 1 : cells'[k] = cells[k]
  BY <1>1, <1>3, <1>4, <1>6
<1>9. \A k \in lastpos .. lastpos + Len(s) - 1 : cells'[k] = s[k - lastpos + 1]
  BY <1>1, <1>4, <1>6
<1> QED
  BY <1>1, <1>7, <1>8, <1>9, TextExtends

(* Every step maps to a step of StringBuffer or to none.                   *)
LEMMA StepRefines ==
    Inv /\ Inv' /\ [Next]_vars => [Abstract!Next]_(Abstract!vars)
<1> SUFFICES ASSUME Inv, Inv', [Next]_vars
             PROVE  Abstract!Next \/ UNCHANGED <<Text, result>>
  BY DEF Abstract!vars
<1>1. ASSUME s_size' - s_avail' = 0, result' = TRUE PROVE Abstract!Next
  <2>1. Text' = << >>
    BY <1>1, EmptyText DEF Text, lastpos
  <2> QED
    BY <1>1, <2>1 DEF Abstract!Next, Abstract!Empty
<1>2. ASSUME s_size' - s_avail' = s_size - s_avail, cells' = cells,
             result' = FALSE
      PROVE  Abstract!Next
  <2>1. Text' = Text
    BY <1>2 DEF Text, lastpos
  <2> QED
    BY <1>2, <2>1 DEF Abstract!Next, Abstract!Refuse
<1>3. ASSUME Constructor \/ Destructor PROVE Abstract!Next
  <2>1. s_size' - s_avail' = 0 /\ result' = TRUE
    BY <1>3 DEF Constructor, Destructor
  <2> QED
    BY <1>1, <2>1
<1>4. ASSUME NEW len \in SpaceSizes, ConstructorStatic(len) PROVE Abstract!Next
  <2>1. len \in Nat
    BY SizesAssumption
  <2> QED
    BY <1>1, <1>4, <2>1 DEF ConstructorStatic
<1>5. ASSUME NEW len \in FixedSizes, ConstructorFixed(len) PROVE Abstract!Next
  <2>1. len \in Nat
    BY SizesAssumption
  <2> QED
    BY <1>1, <1>5, <2>1 DEF ConstructorFixed
<1>6. ASSUME NEW len \in FixedSizes, ConstructorFixedLiteral(len)
      PROVE  Abstract!Next
  <2>1. s_size = 0 /\ s_avail = 0 /\ cells = Literal
    BY <1>6 DEF ConstructorFixedLiteral, Inv, NewIsLiteral, RoomIsReal, TypeOK
  <2>2. s_size' = 0 /\ s_avail' = 0 /\ cells' = Literal /\ result' = (len = 0)
    BY <1>6 DEF ConstructorFixedLiteral
  <2>3. s_size' - s_avail' = 0 /\ s_size' - s_avail' = s_size - s_avail
    BY <2>1, <2>2
  <2>4. cells' = cells
    BY <2>1, <2>2
  <2>5. CASE len = 0
    <3>1. result' = TRUE
      BY <2>2, <2>5
    <3> QED
      BY <1>1, <2>3, <3>1
  <2>6. CASE len # 0
    <3>1. result' = FALSE
      BY <2>2, <2>6
    <3> QED
      BY <1>2, <2>3, <2>4, <3>1
  <2> QED
    BY <2>5, <2>6
<1>7. ASSUME NEW s \in Strings, AppendNothing(s) PROVE Abstract!Next
  <2>1. s \in Seq(Char) /\ Len(s) = 0 /\ Text \in Seq(Char)
    BY <1>7, StringsAssumption, TextType DEF AppendNothing
  <2>2. Text' = Text /\ result' = TRUE
    BY <1>7 DEF AppendNothing, Text, lastpos
  <2>3. Text \o s = Text
    BY <2>1
  <2> QED
    BY <2>2, <2>3 DEF Abstract!Next, Abstract!AppendText
<1>8. ASSUME NEW s \in Strings, AppendInPlace(s) \/ AppendGrows(s)
      PROVE  Abstract!Next
  <2>1. Text' = Text \o s
    BY <1>8, InPlaceExtends, GrowsExtends
  <2>2. result' = TRUE
    BY <1>8 DEF AppendInPlace, AppendGrows
  <2> QED
    BY <2>1, <2>2 DEF Abstract!Next, Abstract!AppendText
<1>9. ASSUME NEW s \in Strings, AppendFails(s) PROVE Abstract!Next
  BY <1>2, <1>9 DEF AppendFails
<1>10. CASE Reset
  <2>1. s_size \in Nat /\ s_avail \in 0 .. s_size
    BY DEF Inv, TypeOK
  <2>2. s_size' = s_size /\ s_avail' = s_size /\ result' = TRUE
    BY <1>10, <2>1 DEF Reset
  <2> QED
    BY <1>1, <2>1, <2>2
<1>11. CASE UNCHANGED vars
  BY <1>11 DEF vars, Text, lastpos
<1> QED
  BY <1>3, <1>4, <1>5, <1>6, <1>7, <1>8, <1>9, <1>10, <1>11 DEF Next

(* Whatever the moves between "", callers' arrays and the heap, a user     *)
(* sees a text: appending extends it, FALSE leaves it as it was.           *)
THEOREM Refines == Spec => ImplementsStringBuffer
<1>1. Init => Abstract!Init
  BY EmptyText DEF Init, Abstract!Init, Text, lastpos
<1> QED
  BY <1>1, StepRefines, Invariant, PTL
  DEF Spec, ImplementsStringBuffer, Abstract!Spec

-----------------------------------------------------------------------------
(* The zero check, for files, gaps and blocks of any size: every round     *)
(* reads bytes of the gap, though for a gap longer than a block they are   *)
(* the same ones each time; a gap that fits in a block is read whole in    *)
(* its only round.                                                         *)

OneRound ==
    length <= MaxBlock =>
        /\ checklen = length
        /\ remaining \in {0, length}
        /\ pc \in {"malloc", "scan"} => remaining = length
        /\ pc = "loop" /\ remaining = 0 => Gap \cap nonzero = {}

RoundFits == pc = "scan" => checklen <= remaining

ZeroInv == ZeroTypeOK /\ RoundFits /\ OneRound /\ VerdictIsRight

(* What ZeroTypeOK makes of the numbers.                                   *)
LEMMA ZeroNumbers ==
    ZeroTypeOK =>
              /\ MaxBlock \in Nat /\ MaxBlock > 0 /\ FileSize \in Nat
              /\ offset \in Nat /\ length \in Nat /\ length > 0
              /\ remaining \in Nat /\ remaining <= length
              /\ checklen \in Nat /\ checklen > 0
              /\ checklen <= length /\ checklen <= MaxBlock
BY MaxBlockAssumption, FilesAssumption DEF ZeroTypeOK, Smaller

(* The invariant holds when the function is called.                        *)
LEMMA ZeroInitInv == ZeroInit => ZeroInv
<1> SUFFICES ASSUME ZeroInit PROVE ZeroInv
  OBVIOUS
<1>1. length \in Nat /\ length > 0 /\ MaxBlock \in Nat /\ MaxBlock > 0
  BY MaxBlockAssumption, FilesAssumption DEF ZeroInit
<1>2. ZeroTypeOK
  <2>1. remaining \in 0 .. length
    BY <1>1 DEF ZeroInit
  <2>2. checklen \in 1 .. Smaller(length, MaxBlock)
    BY <1>1 DEF ZeroInit, Smaller
  <2> QED
    BY <2>1, <2>2 DEF ZeroInit, ZeroTypeOK
<1> QED
  BY <1>1, <1>2 DEF ZeroInv, ZeroInit, RoundFits, OneRound, VerdictIsRight, Smaller

(* A round asks for some bytes, no more than what remains.                 *)
LEMMA Asked ==
    ASSUME ZeroInv, remaining > 0, checklen' = Smaller(checklen, remaining)
    PROVE  /\ checklen' \in 1 .. Smaller(length, MaxBlock)
           /\ checklen' <= remaining
           /\ length <= MaxBlock => checklen' = length /\ remaining = length
BY ZeroNumbers DEF ZeroInv, OneRound, Smaller

(* The bytes it looks at are of the gap, and are all of a short gap.       *)
LEMMA LookedAt ==
    ZeroInv => /\ BytesRead(checklen) \subseteq Gap
               /\ length <= MaxBlock => BytesRead(checklen) = Gap
BY ZeroNumbers DEF ZeroInv, OneRound, BytesRead, Gap

(* The invariant holds throughout.                                         *)
THEOREM ZeroInvariant == ZeroSpec => []ZeroInv
<1>1. ZeroInv /\ [ZeroNext]_zeroVars => ZeroInv'
  <2> SUFFICES ASSUME ZeroInv, [ZeroNext]_zeroVars PROVE ZeroInv'
    OBVIOUS
  <2> USE ZeroNumbers DEF ZeroInv, args
  <2>1. ASSUME Malloc \/ MallocFails PROVE ZeroInv'
    <3>1. /\ UNCHANGED <<args, remaining, checklen, wasted_space_zero>>
          /\ pc = "malloc" /\ pc' \in {"loop", "error"}
          /\ allocspace' \in BOOLEAN
      BY <2>1 DEF Malloc, MallocFails, ZeroTypeOK
    <3>2. length <= MaxBlock => remaining = length
      BY <3>1 DEF OneRound
    <3> QED
      BY <3>1, <3>2 DEF ZeroTypeOK, RoundFits, OneRound, VerdictIsRight, Gap
  <2>2. ASSUME ReadError \/ Read PROVE ZeroInv'
    <3>1. /\ checklen' \in 1 .. Smaller(length, MaxBlock)
          /\ checklen' <= remaining
          /\ length <= MaxBlock => checklen' = length /\ remaining = length
      BY <2>2, Asked DEF ReadError, Read
    <3> QED
      BY <2>2, <3>1
      DEF ReadError, Read, ZeroTypeOK, RoundFits, OneRound, VerdictIsRight, Gap
  <2>3. ASSUME FindNonZero PROVE ZeroInv'
    <3>1. Gap \cap nonzero # {}
      <4>1. BytesRead(checklen) \subseteq Gap
        BY LookedAt
      <4> QED
        BY <2>3, <4>1 DEF FindNonZero
    <3> QED
      BY <2>3, <3>1
      DEF FindNonZero, ZeroTypeOK, RoundFits, OneRound, VerdictIsRight, Gap
  <2>4. ASSUME AllZero PROVE ZeroInv'
    <3>1. length <= MaxBlock => Gap \cap nonzero = {} /\ remaining' = 0
      <4>1. length <= MaxBlock => BytesRead(checklen) = Gap
        BY LookedAt
      <4>2. length <= MaxBlock => Gap \cap nonzero = {}
        BY <2>4, <4>1 DEF AllZero
      <4> QED
        BY <2>4, <4>2 DEF AllZero, OneRound, RoundFits
    <3>2. remaining' \in 0 .. length
      BY <2>4 DEF AllZero, RoundFits
    <3> QED
      BY <2>4, <3>1, <3>2
      DEF AllZero, ZeroTypeOK, RoundFits, OneRound, VerdictIsRight, Gap
  <2>5. ASSUME Finished PROVE ZeroInv'
    BY <2>5 DEF Finished, ZeroTypeOK, RoundFits, OneRound, VerdictIsRight, Gap
  <2>6. ASSUME UNCHANGED zeroVars PROVE ZeroInv'
    BY <2>6 DEF zeroVars, ZeroTypeOK, RoundFits, OneRound, VerdictIsRight, Gap
  <2> QED
    BY <2>1, <2>2, <2>3, <2>4, <2>5, <2>6 DEF ZeroNext, Returned
<1> QED
  BY <1>1, ZeroInitInv, PTL DEF ZeroSpec

(* Every variable keeps its type: no round takes more than what remains,   *)
(* and none is of no byte.                                                 *)
THEOREM ZeroTypeCorrect == ZeroSpec => []ZeroTypeOK
<1>1. ZeroInv => ZeroTypeOK
  BY DEF ZeroInv
<1> QED
  BY <1>1, ZeroInvariant, PTL

(* A gap said not to be zero is not, and a gap of at most a block is       *)
(* judged right either way.                                                *)
THEOREM VerdictCorrect == ZeroSpec => []VerdictIsRight
<1>1. ZeroInv => VerdictIsRight
  BY DEF ZeroInv
<1> QED
  BY <1>1, ZeroInvariant, PTL

-----------------------------------------------------------------------------
(* A set of naturals has a least element: 1 .. n is a smallest of the sets *)
(* 1 .. n when n is the least.  The first place where an argument by steps *)
(* would be wrong is found with it.                                        *)
LEMMA Smallest ==
    ASSUME NEW T \in SUBSET Nat, T # {}
    PROVE  \E x \in T : \A y \in T : x <= y
<1> DEFINE U == {1 .. n : n \in T}
<1>1. IsWellFoundedOn(StrictSubsetOrdering(Nat), FiniteSubsetsOf(Nat))
  BY FS_StrictSubsetOrderingWellFounded
<1>2. U \subseteq FiniteSubsetsOf(Nat) /\ U # {}
  <2>1. \A n \in T : IsFiniteSet(1 .. n) /\ 1 .. n \subseteq Nat
    BY FS_Interval
  <2> QED
    BY <2>1 DEF FiniteSubsetsOf
<1>3. PICK u \in U : \A v \in U : ~ (<<v, u>> \in StrictSubsetOrdering(Nat))
  <2> HIDE DEF U
  <2> QED
    BY <1>1, <1>2, WFMin
<1>4. PICK x \in T : u = 1 .. x
  BY <1>3
<1>5. ASSUME NEW y \in T, y < x
      PROVE  FALSE
  <2>1. 1 .. y \subseteq 1 .. x /\ x \in 1 .. x /\ x \notin 1 .. y
    BY <1>5
  <2>2. 1 .. y \in U /\ 1 .. y \in SUBSET Nat /\ u \in SUBSET Nat
    BY <1>4
  <2>3. <<1 .. y, u>> \in StrictSubsetOrdering(Nat)
    BY <1>4, <2>1, <2>2 DEF StrictSubsetOrdering
  <2> QED
    BY <1>3, <2>2, <2>3
<1> QED
  BY <1>5

-----------------------------------------------------------------------------
(* The sanitizer's buffer.  While a call works, the last position written  *)
(* is at most three behind the limit; behind the limit, in what those      *)
(* three can reach, a null byte is always left, by this call or an earlier *)
(* one, and that is where the marker goes.                                 *)
Limit == OutLen - Margin
Spare == Limit + 1 .. Limit + 3
Memory == [0 .. OutLen - 1 -> 0 .. 255]
Buffer == [mem : Memory, high : 0 .. OutLen - 1]
Work == [buf : Buffer, count : 0 .. Limit + 3, done : BOOLEAN]

WorkInv(w) ==
    /\ w \in Work
    /\ \E z \in Spare : w.buf.mem[z] = 0 /\ (w.done \/ w.count <= z)

SanitizerInv ==
    /\ outbuf \in Memory /\ reached \in 0 .. OutLen - 1
    /\ \E z \in Spare : outbuf[z] = 0

(* Every place behind the limit that is used is in the buffer.             *)
LEMMA SpareFits ==
    /\ OutLen \in Nat /\ Limit \in Nat /\ Len(Marker) \in Nat
    /\ Limit + 3 + Len(Marker) < OutLen
    /\ Spare = Limit + 1 .. Limit + 3
    /\ Spare \subseteq 0 .. OutLen - 1
BY LengthsAssumption DEF Limit, Spare

(* The characters of names are bytes.                                      *)
LEMMA NamesAreBytes ==
    ASSUME NEW s \in Seq(NameChar)
    PROVE  s \in Seq(0 .. 255)
<1>1. NameChar \subseteq 0 .. 255
  BY DEF NameChar
<1>2. \A T : NameChar \subseteq T => s \in Seq(T)
  BY SeqMonotonic, Zenon
<1> QED
  BY <1>1, <1>2

(* The greater of two numbers.                                             *)
LEMMA MaxOfTwo ==
    ASSUME NEW x \in Nat, NEW y \in Nat
    PROVE  Max({x, y}) = IF x < y THEN y ELSE x
<1>1. \A z \in {x, y} : (\A v \in {x, y} : z >= v) <=> z = IF x < y THEN y ELSE x
  OBVIOUS
<1> QED
  BY <1>1 DEF Max

(* What Store leaves in a buffer that has room for it.                     *)
LEMMA StoreSpec ==
    ASSUME NEW b \in Buffer, NEW at \in Nat, NEW s \in Seq(0 .. 255),
           s # << >>, at + Len(s) <= OutLen
    PROVE  /\ Store(b, at, s) \in Buffer
           /\ \A k \in 0 .. OutLen - 1 :
                 Store(b, at, s).mem[k] = IF at <= k /\ k < at + Len(s)
                                          THEN s[k - at + 1] ELSE b.mem[k]
<1>0. OutLen \in Nat /\ Len(s) \in Nat \ {0}
  BY SpareFits
<1>1. b.mem \in Memory /\ b.high \in 0 .. OutLen - 1 /\ DOMAIN b.mem = 0 .. OutLen - 1
  BY DEF Buffer, Memory
<1>2. Max({b.high, at + Len(s) - 1}) \in 0 .. OutLen - 1
  BY <1>0, <1>1, MaxOfTwo
<1> DEFINE m == [k \in DOMAIN b.mem |-> IF at <= k /\ k < at + Len(s)
                                        THEN s[k - at + 1] ELSE b.mem[k]]
<1>3. m \in Memory
  <2>1. \A k \in 0 .. OutLen - 1 :
            at <= k /\ k < at + Len(s) => k - at + 1 \in 1 .. Len(s)
    BY <1>0
  <2>2. ASSUME NEW k \in 0 .. OutLen - 1 PROVE m[k] \in 0 .. 255
    <3>1. b.mem[k] \in 0 .. 255
      BY <1>1 DEF Memory
    <3>2. m[k] = IF at <= k /\ k < at + Len(s) THEN s[k - at + 1] ELSE b.mem[k]
      BY <1>1
    <3>3. \A j \in 1 .. Len(s) : s[j] \in 0 .. 255
      BY ElementOfSeq
    <3> HIDE DEF m
    <3> QED
      BY <2>1, <3>1, <3>2, <3>3
  <2>3. m = [k \in 0 .. OutLen - 1 |-> m[k]]
    BY <1>1
  <2> HIDE DEF m
  <2> QED
    BY <2>2, <2>3 DEF Memory
<1>4. Store(b, at, s).mem = m /\ Store(b, at, s).high = Max({b.high, at + Len(s) - 1})
  BY DEF Store
<1> QED
  BY <1>1, <1>2, <1>3, <1>4 DEF Store, Buffer

(* Strcpy writes the characters, and a null byte behind them.              *)
LEMMA StrcpySpec ==
    ASSUME NEW b \in Buffer, NEW at \in Nat, NEW s \in Seq(0 .. 255),
           at + Len(s) < OutLen
    PROVE  /\ Strcpy(b, at, s) \in Buffer
           /\ \A k \in 0 .. OutLen - 1 :
                 Strcpy(b, at, s).mem[k] =
                     IF at <= k /\ k < at + Len(s) THEN s[k - at + 1]
                     ELSE IF k = at + Len(s) THEN 0 ELSE b.mem[k]
           /\ \A j \in 1 .. Len(s) : Strcpy(b, at, s).mem[at + j - 1] = s[j]
           /\ Strcpy(b, at, s).mem[at + Len(s)] = 0
<1> DEFINE t == s \o <<0>>
<1>0. OutLen \in Nat /\ Len(s) \in Nat
  BY SpareFits
<1>1. t \in Seq(0 .. 255) /\ Len(t) = Len(s) + 1 /\ t # << >>
      /\ t[Len(s) + 1] = 0 /\ \A k \in 1 .. Len(s) : t[k] = s[k]
  BY <1>0
<1> HIDE DEF t
<1>2. /\ Store(b, at, t) \in Buffer
      /\ \A k \in 0 .. OutLen - 1 :
            Store(b, at, t).mem[k] = IF at <= k /\ k < at + Len(t)
                                     THEN t[k - at + 1] ELSE b.mem[k]
  <2>1. at + Len(t) <= OutLen
    BY <1>0, <1>1
  <2> QED
    BY <1>1, <2>1, StoreSpec, Zenon
<1>3. Strcpy(b, at, s) = Store(b, at, t)
  BY DEF Strcpy, t
<1>4. ASSUME NEW k \in 0 .. OutLen - 1
      PROVE  Store(b, at, t).mem[k] =
                     IF at <= k /\ k < at + Len(s) THEN s[k - at + 1]
                     ELSE IF k = at + Len(s) THEN 0 ELSE b.mem[k]
  <2>1. CASE at <= k /\ k < at + Len(s)
    <3>1. k - at + 1 \in 1 .. Len(s)
      BY <1>0, <2>1
    <3>2. at <= k /\ k < at + Len(t)
      BY <1>0, <1>1, <2>1
    <3>3. Store(b, at, t).mem[k] = t[k - at + 1]
      BY <1>2, <3>2
    <3>4. t[k - at + 1] = s[k - at + 1]
      BY <1>1, <3>1
    <3> QED
      BY <2>1, <3>3, <3>4
  <2>2. CASE k = at + Len(s)
    BY <1>0, <1>1, <1>2, <2>2
  <2>3. CASE ~ (at <= k /\ k <= at + Len(s))
    BY <1>0, <1>1, <1>2, <2>3
  <2> QED
    BY <1>0, <2>1, <2>2, <2>3
<1>5. ASSUME NEW j \in 1 .. Len(s)
      PROVE  Store(b, at, t).mem[at + j - 1] = s[j]
  <2>1. at + j - 1 \in 0 .. OutLen - 1 /\ at <= at + j - 1 /\ at + j - 1 < at + Len(s)
    BY <1>0
  <2>2. at + j - 1 - at + 1 = j
    BY <1>0
  <2> QED
    BY <1>4, <2>1, <2>2
<1>6. Store(b, at, t).mem[at + Len(s)] = 0
  BY <1>0, <1>4
<1> QED
  BY <1>2, <1>3, <1>4, <1>5, <1>6

(* strlen stops at the first null byte, no later than any other.           *)
LEMMA StringEndSpec ==
    ASSUME NEW mem \in Memory, NEW at \in Nat,
           NEW z \in 0 .. OutLen - 1, at <= z, mem[z] = 0
    PROVE  /\ StringEnd(mem, at) \in at .. z
           /\ mem[StringEnd(mem, at)] = 0
           /\ \A k \in at .. StringEnd(mem, at) - 1 : mem[k] # 0
<1> DEFINE nulls == {k \in DOMAIN mem : k >= at /\ mem[k] = 0}
<1>0. OutLen \in Nat /\ DOMAIN mem = 0 .. OutLen - 1
  BY SpareFits DEF Memory
<1>1. z \in nulls /\ nulls \in SUBSET Nat
  BY <1>0
<1>2. StringEnd(mem, at) = Min(nulls)
  BY <1>1 DEF StringEnd
<1>3. Min(nulls) \in nulls /\ \A k \in nulls : Min(nulls) <= k
  <2>1. PICK x \in nulls : \A y \in nulls : x <= y
    <3> HIDE DEF nulls
    <3> QED
      BY <1>1, Smallest
  <2> HIDE DEF nulls
  <2> QED
    BY <2>1 DEF Min
<1>4. Min(nulls) \in Nat /\ Min(nulls) <= z /\ Min(nulls) >= at /\ mem[Min(nulls)] = 0
  BY <1>0, <1>1, <1>3
<1>5. \A k \in at .. Min(nulls) - 1 : mem[k] # 0
  <2> SUFFICES ASSUME NEW k \in at .. Min(nulls) - 1, mem[k] = 0
               PROVE  FALSE
    OBVIOUS
  <2>1. k \in Nat /\ k < Min(nulls) /\ k >= at /\ k \in 0 .. OutLen - 1
    BY <1>0, <1>4
  <2>2. k \in nulls
    BY <1>0, <2>1
  <2> HIDE DEF nulls
  <2> QED
    BY <1>3, <1>4, <2>1, <2>2
<1> QED
  BY <1>2, <1>4, <1>5

(* A character that may upset a terminal makes three that do not.          *)
LEMMA EscapeSpec ==
    ASSUME NEW c \in 0 .. 255
    PROVE  /\ Escape(c) \in Seq(0 .. 255) /\ Len(Escape(c)) = 3
           /\ Escape(c)[1] = Percent
           /\ Escape(c)[2] = HexDigit(c \div 16)
           /\ Escape(c)[3] = HexDigit(c % 16)
           /\ HexDigit(c \div 16) \in (48 .. 57) \cup (97 .. 102)
           /\ HexDigit(c % 16) \in (48 .. 57) \cup (97 .. 102)
           /\ 16 * HexValue(HexDigit(c \div 16)) + HexValue(HexDigit(c % 16)) = c
<1>1. c \div 16 \in 0 .. 15 /\ c % 16 \in 0 .. 15 /\ 16 * (c \div 16) + (c % 16) = c
  <2>1. c \in Int /\ 0 <= c /\ c <= 255
    OBVIOUS
  <2>2. c \div 16 \in Int /\ c % 16 \in Int
    BY <2>1
  <2>3. c % 16 \in 0 .. 15
    BY <2>1
  <2>4. 16 * (c \div 16) + (c % 16) = c
    <3>1. \A n \in Int : n = 16 * (n \div 16) + (n % 16)
      BY Z3
    <3> QED
      BY <2>1, <2>2, <3>1
  <2>5. 0 <= c \div 16 /\ c \div 16 <= 15
    BY <2>1, <2>2, <2>3, <2>4
  <2> QED
    BY <2>2, <2>3, <2>4, <2>5
<1>2. \A d \in 0 .. 15 : /\ HexDigit(d) \in (48 .. 57) \cup (97 .. 102)
                         /\ HexValue(HexDigit(d)) = d
  BY DEF HexDigit, HexValue
<1>3. Percent \in 0 .. 255 /\ \A d \in 0 .. 15 : HexDigit(d) \in 0 .. 255
  BY <1>2 DEF Percent
<1>4. Escape(c) = <<Percent, HexDigit(c \div 16), HexDigit(c % 16)>>
  BY DEF Escape
<1>5. ASSUME NEW x \in 0 .. 255, NEW y \in 0 .. 255, NEW z \in 0 .. 255
      PROVE  <<x, y, z>> \in Seq(0 .. 255) /\ Len(<<x, y, z>>) = 3
  OBVIOUS
<1>7. HexDigit(c \div 16) \in 0 .. 255 /\ HexDigit(c % 16) \in 0 .. 255
  BY <1>1, <1>3
<1>8. Escape(c) \in Seq(0 .. 255) /\ Len(Escape(c)) = 3
  <2>1. /\ <<Percent, HexDigit(c \div 16), HexDigit(c % 16)>> \in Seq(0 .. 255)
        /\ Len(<<Percent, HexDigit(c \div 16), HexDigit(c % 16)>>) = 3
    BY <1>3, <1>5, <1>7, Zenon
  <2> QED
    BY <1>4, <2>1, Zenon
<1>6. HexValue(HexDigit(c \div 16)) = c \div 16 /\ HexValue(HexDigit(c % 16)) = c % 16
  BY <1>1, <1>2
<1> QED
  BY <1>1, <1>2, <1>4, <1>6, <1>8

(* The digits of it upset none either.                                     *)
LEMMA DigitsShow ==
    \A c \in 0 .. 255 : /\ HexDigit(c \div 16) \in (48 .. 57) \cup (97 .. 102)
                        /\ HexDigit(c % 16) \in (48 .. 57) \cup (97 .. 102)
<1> SUFFICES ASSUME NEW c \in 0 .. 255
             PROVE  /\ HexDigit(c \div 16) \in (48 .. 57) \cup (97 .. 102)
                    /\ HexDigit(c % 16) \in (48 .. 57) \cup (97 .. 102)
  OBVIOUS
<1> QED
  BY EscapeSpec, Zenon

(* What a character leaves at p, and the q at which the next one goes.     *)
WrittenAt(mem, p, q, c) ==
    IF Printable(c) THEN q = p + 1 /\ mem[p] = c
    ELSE /\ q = p + 3 /\ mem[p] = Percent
         /\ mem[p + 1] = HexDigit(c \div 16)
         /\ mem[p + 2] = HexDigit(c % 16)

(* One character: written, or, when room is short, the end of the work.    *)
Inserted(w, c, v) ==
    /\ WorkInv(v)
    /\ w.done => v = w
    /\ ~ w.done /\ w.count > Limit => v.done /\ v.buf.mem[w.count] = 0
    /\ ~ w.done /\ w.count <= Limit =>
          ~ v.done /\ WrittenAt(v.buf.mem, w.count, v.count, c)
    /\ ~ w.done => \A k \in 0 .. w.count - 1 : v.buf.mem[k] = w.buf.mem[k]

(* So does InsertCharacter.                                                *)
LEMMA InsertSpec ==
    ASSUME NEW w, WorkInv(w), NEW c \in NameChar
    PROVE  Inserted(w, c, InsertCharacter(w, c))
<1> DEFINE v == InsertCharacter(w, c)
<1> USE SpareFits
<1>1. /\ w \in Work /\ w.buf \in Buffer /\ w.count \in Nat /\ w.count <= Limit + 3
      /\ w.done \in BOOLEAN /\ w.buf.mem \in Memory
  BY DEF WorkInv, Work, Buffer
<1>2. PICK z \in Spare : w.buf.mem[z] = 0 /\ (w.done \/ w.count <= z)
  BY DEF WorkInv
<1>3. CASE w.done
  BY <1>3 DEF InsertCharacter, Inserted
<1>4. CASE ~ w.done /\ w.count > Limit
  <2> DEFINE e == StringEnd(w.buf.mem, w.count)
             marked == Strcpy(w.buf, e, Marker)
             zero == <<0>>
             last == Store(marked, w.count, zero)
  <2>1. e \in w.count .. z
    BY <1>1, <1>2, <1>4, StringEndSpec
  <2>2. e \in Nat /\ e >= w.count /\ e <= Limit + 3
    BY <1>1, <1>2, <2>1
  <2> HIDE DEF e
  <2>3. Marker \in Seq(0 .. 255)
    <3>1. Marker \in Seq(NameChar)
      BY LengthsAssumption
    <3> QED
      BY <3>1, NamesAreBytes, Zenon
  <2>4. /\ marked \in Buffer
        /\ \A k \in 0 .. OutLen - 1 : k < e => marked.mem[k] = w.buf.mem[k]
    <3>1. e + Len(Marker) < OutLen
      BY <2>2
    <3> QED
      BY <1>1, <2>2, <2>3, <3>1, StrcpySpec
  <2> HIDE DEF marked
  <2>5. zero \in Seq(0 .. 255) /\ zero # << >> /\ Len(zero) = 1 /\ zero[1] = 0
    OBVIOUS
  <2> HIDE DEF zero
  <2>6. w.count + 1 <= OutLen /\ w.count \in Spare
    BY <1>1, <1>4
  <2>7. /\ last \in Buffer
        /\ \A k \in 0 .. OutLen - 1 :
              last.mem[k] = IF w.count <= k /\ k < w.count + 1
                            THEN zero[k - w.count + 1] ELSE marked.mem[k]
    <3>1. /\ last \in Buffer
          /\ \A k \in 0 .. OutLen - 1 :
                last.mem[k] = IF w.count <= k /\ k < w.count + Len(zero)
                              THEN zero[k - w.count + 1] ELSE marked.mem[k]
      BY <1>1, <2>4, <2>5, <2>6, StoreSpec
    <3> QED
      BY <2>5, <3>1
  <2>8. last.mem[w.count] = 0
    BY <1>1, <2>5, <2>6, <2>7
  <2>9. \A k \in 0 .. w.count - 1 : last.mem[k] = w.buf.mem[k]
    BY <1>1, <2>2, <2>4, <2>6, <2>7
  <2>10. ~ (OutLen - w.count < Len(Marker))
    BY <1>1
  <2>11. v = [w EXCEPT !.buf = last, !.done = TRUE]
    BY <1>4, <2>10 DEF InsertCharacter, e, marked, zero, Limit
  <2> HIDE DEF last, v
  <2>12. v \in Work /\ v.buf = last /\ v.done /\ v.count = w.count
    BY <1>1, <2>7, <2>11 DEF Work
  <2>13. WorkInv(v)
    BY <2>6, <2>8, <2>12 DEF WorkInv
  <2>14. ~ (w.count <= Limit)
    BY <1>1, <1>4
  <2>20. Inserted(w, c, v)
    BY <1>4, <2>8, <2>9, <2>12, <2>13, <2>14, Zenon DEF Inserted
  <2> QED
    BY <2>20 DEF v
<1>5. CASE ~ w.done /\ w.count <= Limit /\ Printable(c)
  <2> DEFINE one == <<c>>
             b == Store(w.buf, w.count, one)
  <2>1. one \in Seq(0 .. 255) /\ one # << >> /\ Len(one) = 1 /\ one[1] = c
    BY DEF NameChar
  <2> HIDE DEF one
  <2>2. /\ b \in Buffer
        /\ \A k \in 0 .. OutLen - 1 :
              b.mem[k] = IF w.count <= k /\ k < w.count + 1
                         THEN one[k - w.count + 1] ELSE w.buf.mem[k]
    <3>1. w.count + Len(one) <= OutLen
      BY <1>1, <1>5, <2>1
    <3>2. /\ b \in Buffer
          /\ \A k \in 0 .. OutLen - 1 :
                b.mem[k] = IF w.count <= k /\ k < w.count + Len(one)
                           THEN one[k - w.count + 1] ELSE w.buf.mem[k]
      BY <1>1, <2>1, <3>1, StoreSpec
    <3> QED
      BY <2>1, <3>2
  <2>3. b.mem[w.count] = c
    BY <1>1, <1>5, <2>1, <2>2
  <2>4. \A k \in 0 .. OutLen - 1 : k # w.count => b.mem[k] = w.buf.mem[k]
    BY <1>1, <2>2
  <2>5. v = [w EXCEPT !.buf = b, !.count = w.count + 1]
    BY <1>1, <1>5, LengthsAssumption DEF InsertCharacter, one, Limit
  <2> HIDE DEF b, v
  <2>6. v \in Work /\ v.buf = b /\ ~ v.done /\ v.count = w.count + 1
    <3>1. w.count + 1 \in 0 .. Limit + 3
      BY <1>1, <1>5
    <3>2. v = [buf |-> b, count |-> w.count + 1, done |-> w.done]
      BY <1>1, <2>5 DEF Work
    <3> QED
      BY <1>1, <1>5, <2>2, <3>1, <3>2 DEF Work
  <2>7. b.mem[z] = 0 /\ v.count <= z
    BY <1>1, <1>2, <1>5, <2>4, <2>6
  <2>8. WorkInv(v)
    BY <2>6, <2>7 DEF WorkInv
  <2>9. WrittenAt(v.buf.mem, w.count, v.count, c)
    BY <1>5, <2>3, <2>6 DEF WrittenAt
  <2>10. \A k \in 0 .. w.count - 1 : v.buf.mem[k] = w.buf.mem[k]
    BY <1>1, <1>5, <2>4, <2>6
  <2>11. ~ (w.count > Limit)
    BY <1>1, <1>5
  <2>20. Inserted(w, c, v)
    BY <1>5, <2>6, <2>8, <2>9, <2>10, <2>11, Zenon DEF Inserted
  <2> QED
    BY <2>20 DEF v
<1>6. CASE ~ w.done /\ w.count <= Limit /\ ~ Printable(c)
  <2> DEFINE b == Strcpy(w.buf, w.count, Escape(c))
  <2>1. c \in 0 .. 255
    BY DEF NameChar
  <2>2. /\ Escape(c) \in Seq(0 .. 255) /\ Len(Escape(c)) = 3
        /\ Escape(c)[1] = Percent /\ Escape(c)[2] = HexDigit(c \div 16)
        /\ Escape(c)[3] = HexDigit(c % 16)
    BY <2>1, EscapeSpec
  <2>3. w.count + Len(Escape(c)) < OutLen
    BY <1>1, <1>6, <2>2
  <2>4. /\ b \in Buffer
        /\ \A k \in 0 .. OutLen - 1 :
              b.mem[k] = IF w.count <= k /\ k < w.count + Len(Escape(c))
                         THEN Escape(c)[k - w.count + 1]
                         ELSE IF k = w.count + Len(Escape(c)) THEN 0 ELSE w.buf.mem[k]
        /\ \A j \in 1 .. Len(Escape(c)) : b.mem[w.count + j - 1] = Escape(c)[j]
        /\ b.mem[w.count + Len(Escape(c))] = 0
    BY <1>1, <2>2, <2>3, StrcpySpec
  <2>5. /\ b.mem[w.count] = Percent
        /\ b.mem[w.count + 1] = HexDigit(c \div 16)
        /\ b.mem[w.count + 2] = HexDigit(c % 16)
        /\ b.mem[w.count + 3] = 0
    <3>1. 1 \in 1 .. 3 /\ 2 \in 1 .. 3 /\ 3 \in 1 .. 3
      OBVIOUS
    <3>2. /\ w.count + 1 - 1 = w.count /\ w.count + 2 - 1 = w.count + 1
          /\ w.count + 3 - 1 = w.count + 2
      BY <1>1
    <3> HIDE DEF b
    <3> QED
      BY <2>2, <2>4, <3>1, <3>2
  <2>6. \A k \in 0 .. OutLen - 1 :
            k < w.count \/ k > w.count + 3 => b.mem[k] = w.buf.mem[k]
    <3> SUFFICES ASSUME NEW k \in 0 .. OutLen - 1, k < w.count \/ k > w.count + 3
                 PROVE  b.mem[k] = w.buf.mem[k]
      OBVIOUS
    <3>1. /\ ~ (w.count <= k /\ k < w.count + Len(Escape(c)))
          /\ k # w.count + Len(Escape(c))
      BY <1>1, <2>2
    <3> HIDE DEF b
    <3> QED
      BY <2>4, <3>1, Zenon
  <2>7. v = [w EXCEPT !.buf = b, !.count = w.count + 3]
    BY <1>1, <1>6, LengthsAssumption DEF InsertCharacter, Limit
  <2> HIDE DEF b, v
  <2>8. v \in Work /\ v.buf = b /\ ~ v.done /\ v.count = w.count + 3
    <3>1. w.count + 3 \in 0 .. Limit + 3
      BY <1>1, <1>6
    <3>2. v = [buf |-> b, count |-> w.count + 3, done |-> w.done]
      BY <1>1, <2>7 DEF Work
    <3> QED
      BY <1>1, <1>6, <2>4, <3>1, <3>2 DEF Work
  <2>9. \E y \in Spare : b.mem[y] = 0 /\ v.count <= y
    <3>1. CASE w.count + 3 \in Spare
      BY <2>5, <2>8, <3>1
    <3>2. CASE w.count + 3 \notin Spare
      BY <1>1, <1>2, <1>6, <2>6, <2>8, <3>2
    <3> QED
      BY <3>1, <3>2
  <2>10. WorkInv(v)
    BY <2>8, <2>9 DEF WorkInv
  <2>11. WrittenAt(v.buf.mem, w.count, v.count, c)
    BY <1>6, <2>5, <2>8 DEF WrittenAt
  <2>12. \A k \in 0 .. w.count - 1 : v.buf.mem[k] = w.buf.mem[k]
    <3>1. \A k \in 0 .. w.count - 1 : k \in 0 .. OutLen - 1 /\ k < w.count
      BY <1>1, <1>6, SpareFits DEF Work
    <3> QED
      BY <2>6, <2>8, <3>1
  <2>13. ~ (w.count > Limit)
    BY <1>1, <1>6
  <2>20. Inserted(w, c, v)
    BY <1>6, <2>8, <2>10, <2>11, <2>12, <2>13, Zenon DEF Inserted
  <2> QED
    BY <2>20 DEF v
<1> QED
  BY <1>1, <1>3, <1>4, <1>5, <1>6

-----------------------------------------------------------------------------
(* The whole name.  What is shown of it is laid out at some positions: the *)
(* k-th character ends before at[k].                                       *)
Laid(at, s, j, mem) ==
    /\ at[0] = 0
    /\ \A k \in 0 .. j : at[k] \in 0 .. at[j]
    /\ \A k \in 1 .. j : WrittenAt(mem, at[k - 1], at[k], s[k])

(* What is written behind the last of them does not disturb it.            *)
LEMMA LaidStays ==
    ASSUME NEW at, NEW s, NEW j \in Nat, NEW mem, NEW other,
           Laid(at, s, j, mem), at[j] \in Nat,
           \A k \in 0 .. at[j] - 1 : other[k] = mem[k]
    PROVE  Laid(at, s, j, other)
<1> SUFFICES ASSUME NEW k \in 1 .. j
             PROVE  WrittenAt(other, at[k - 1], at[k], s[k])
  BY DEF Laid
<1>1. WrittenAt(mem, at[k - 1], at[k], s[k])
  BY DEF Laid
<1>2. at[k - 1] \in 0 .. at[j] /\ at[k] \in 0 .. at[j]
  <2>1. k - 1 \in 0 .. j /\ k \in 0 .. j
    OBVIOUS
  <2> QED
    BY <2>1 DEF Laid
<1> DEFINE p == at[k - 1]
<1> HIDE DEF p
<1>3. CASE Printable(s[k])
  <2>1. at[k] = p + 1 /\ mem[p] = s[k] /\ p \in 0 .. at[j] - 1
    BY <1>1, <1>2, <1>3 DEF WrittenAt, p
  <2> QED
    BY <1>3, <2>1 DEF WrittenAt, p
<1>4. CASE ~ Printable(s[k])
  <2>1. /\ at[k] = p + 3 /\ mem[p] = Percent
        /\ mem[p + 1] = HexDigit(s[k] \div 16) /\ mem[p + 2] = HexDigit(s[k] % 16)
    BY <1>1, <1>4 DEF WrittenAt, p
  <2>2. p \in 0 .. at[j] - 1 /\ p + 1 \in 0 .. at[j] - 1 /\ p + 2 \in 0 .. at[j] - 1
    BY <1>2, <2>1 DEF p
  <2> QED
    BY <1>4, <2>1, <2>2 DEF WrittenAt, p
<1> QED
  BY <1>3, <1>4

(* One more character.                                                     *)
LEMMA LaidGrows ==
    ASSUME NEW at, NEW s, NEW n \in Nat \ {0}, NEW mem,
           Laid(at, s, n - 1, mem), at[n - 1] \in Nat,
           WrittenAt(mem, at[n - 1], at[n], s[n])
    PROVE  Laid(at, s, n, mem)
<1>1. at[n] = at[n - 1] + 1 \/ at[n] = at[n - 1] + 3
  BY DEF WrittenAt
<1>2. ASSUME NEW k \in 0 .. n PROVE at[k] \in 0 .. at[n]
  <2>1. k \in 0 .. n - 1 \/ k = n
    OBVIOUS
  <2>2. k \in 0 .. n - 1 => at[k] \in 0 .. at[n - 1]
    BY DEF Laid
  <2> QED
    BY <1>1, <2>1, <2>2
<1>3. ASSUME NEW k \in 1 .. n PROVE WrittenAt(mem, at[k - 1], at[k], s[k])
  <2>1. k \in 1 .. n - 1 \/ k = n
    OBVIOUS
  <2> QED
    BY <2>1 DEF Laid
<1> QED
  BY <1>2, <1>3 DEF Laid

(* The work behind each character.                                         *)
Works(f, s, b, n) ==
    f = [k \in 0 .. n |-> IF k = 0 THEN [buf |-> b, count |-> 0, done |-> FALSE]
                          ELSE InsertCharacter(f[k - 1], s[k])]

(* It exists for every name: one that had none would have a first prefix   *)
(* without it, and the work on the prefix before it can be continued.      *)
LEMMA WorksExist ==
    ASSUME NEW s, Len(s) \in Nat, NEW b
    PROVE  \E f : Works(f, s, b, Len(s))
<1> DEFINE Bad == {n \in 0 .. Len(s) : ~ \E f : Works(f, s, b, n)}
<1>1. SUFFICES ASSUME Bad # {} PROVE FALSE
  OBVIOUS
<1>2. PICK n \in Bad : \A m \in Bad : n <= m
  <2>1. Bad \in SUBSET Nat
    OBVIOUS
  <2> HIDE DEF Bad
  <2> QED
    BY <1>1, <2>1, Smallest
<1>3. CASE n = 0
  <2>1. Works([k \in 0 .. 0 |-> [buf |-> b, count |-> 0, done |-> FALSE]], s, b, 0)
    BY DEF Works
  <2> QED
    BY <1>2, <1>3, <2>1
<1>4. CASE n # 0
  <2>1. n - 1 \in 0 .. Len(s) /\ n - 1 \notin Bad
    BY <1>2, <1>4
  <2>2. PICK g : Works(g, s, b, n - 1)
    BY <2>1
  <2> DEFINE f == [k \in 0 .. n |-> IF k = n THEN InsertCharacter(g[n - 1], s[n])
                                              ELSE g[k]]
  <2>3. \A k \in 0 .. n :
            f[k] = IF k = 0 THEN [buf |-> b, count |-> 0, done |-> FALSE]
                   ELSE InsertCharacter(f[k - 1], s[k])
    <3>1. n \in Nat \ {0}
      BY <1>2, <1>4
    <3>2. \A k \in 0 .. n - 1 :
              g[k] = IF k = 0 THEN [buf |-> b, count |-> 0, done |-> FALSE]
                     ELSE InsertCharacter(g[k - 1], s[k])
      BY <2>2, Zenon DEF Works
    <3>3. ASSUME NEW k \in 0 .. n - 1
          PROVE  f[k] = g[k] /\ (k # 0 => f[k - 1] = g[k - 1])
      BY <3>1
    <3>4. f[n] = InsertCharacter(g[n - 1], s[n]) /\ f[n - 1] = g[n - 1]
      BY <3>1
    <3>5. \A k \in 0 .. n : k \in 0 .. n - 1 \/ k = n
      BY <3>1
    <3> HIDE DEF f
    <3> QED
      BY <1>4, <3>2, <3>3, <3>4, <3>5
  <2>4. Works(f, s, b, n)
    BY <2>3 DEF Works
  <2> QED
    BY <1>2, <2>4
<1> QED
  BY <1>3, <1>4

(* The recursive definition gives it.                                      *)
LEMMA InsertionsAreWorks ==
    ASSUME NEW s, Len(s) \in Nat, NEW b
    PROVE  Works(Insertions(s, b), s, b, Len(s))
<1>1. \E f : Works(f, s, b, Len(s))
  BY WorksExist
<1>2. Insertions(s, b) = CHOOSE f : Works(f, s, b, Len(s))
  BY DEF Insertions, Works
<1> QED
  BY <1>1, <1>2, Zenon

(* The buffer when a call begins, and the work as it may stand: the        *)
(* characters so far are laid out, or room was short behind some of them.  *)
Usable(b) == b \in Buffer /\ \E z \in Spare : b.mem[z] = 0

Stage(at, s, n, w) ==
    /\ WorkInv(w)
    /\ ~ w.done => w.count = at[n] /\ Laid(at, s, n, w.buf.mem)
    /\ w.done => \E j \in 0 .. n - 1 : /\ at[j] \in Spare
                                       /\ w.buf.mem[at[j]] = 0
                                       /\ Laid(at, s, j, w.buf.mem)

(* It stands so behind every character.                                    *)
LEMMA EveryStage ==
    ASSUME NEW s \in Seq(NameChar), NEW b, Usable(b), NEW n \in 0 .. Len(s)
    PROVE  Stage([k \in 0 .. Len(s) |-> Insertions(s, b)[k].count], s, n,
                 Insertions(s, b)[n])
<1> DEFINE f == Insertions(s, b)
           at == [k \in 0 .. Len(s) |-> f[k].count]
           Bad == {k \in 0 .. Len(s) : ~ Stage(at, s, k, f[k])}
<1>0. Len(s) \in Nat /\ \A k \in 1 .. Len(s) : s[k] \in NameChar
  BY ElementOfSeq
<1>1. Works(f, s, b, Len(s))
  BY <1>0, InsertionsAreWorks
<1>2. /\ f[0] = [buf |-> b, count |-> 0, done |-> FALSE]
      /\ \A k \in 1 .. Len(s) : f[k] = InsertCharacter(f[k - 1], s[k])
  <2> HIDE DEF f
  <2>1. \A k \in 0 .. Len(s) :
            f[k] = IF k = 0 THEN [buf |-> b, count |-> 0, done |-> FALSE]
                   ELSE InsertCharacter(f[k - 1], s[k])
    BY <1>1, Zenon DEF Works
  <2>2. 0 \in 0 .. Len(s) /\ \A k \in 1 .. Len(s) : k \in 0 .. Len(s) /\ k # 0
    BY <1>0
  <2> QED
    BY <2>1, <2>2, Zenon
<1>3. at[0] = 0 /\ \A k \in 0 .. Len(s) : at[k] = f[k].count
  BY <1>0, <1>2
<1>4. SUFFICES ASSUME Bad # {} PROVE FALSE
  OBVIOUS
<1>5. PICK m \in Bad : \A k \in Bad : m <= k
  <2>1. Bad \in SUBSET Nat
    BY <1>0
  <2> HIDE DEF Bad
  <2> QED
    BY <1>4, <2>1, Smallest
<1>6. m \in 0 .. Len(s) /\ ~ Stage(at, s, m, f[m])
  BY <1>5
<1>7. m # 0 => Stage(at, s, m - 1, f[m - 1])
  BY <1>0, <1>5, <1>6
<1> HIDE DEF f, at, Bad
<1>8. CASE m = 0
  <2>1. f[0] \in Work /\ ~ f[0].done /\ f[0].count = 0 /\ f[0].buf = b
    BY <1>2, SpareFits DEF Usable, Work
  <2>2. WorkInv(f[0])
    <3>1. PICK z \in Spare : b.mem[z] = 0
      BY DEF Usable
    <3>2. 0 <= z
      BY SpareFits
    <3> QED
      BY <2>1, <3>1, <3>2 DEF WorkInv
  <2>3. Laid(at, s, 0, f[0].buf.mem)
    BY <1>3 DEF Laid
  <2>4. Stage(at, s, 0, f[0])
    BY <1>3, <2>1, <2>2, <2>3 DEF Stage
  <2> QED
    BY <1>6, <1>8, <2>4
<1>9. CASE m # 0
  <2> DEFINE w == f[m - 1]
             v == f[m]
  <2>1. m \in Nat \ {0} /\ m - 1 \in 0 .. Len(s) /\ m \in 1 .. Len(s)
    BY <1>0, <1>6, <1>9
  <2>2. Stage(at, s, m - 1, w) /\ WorkInv(w) /\ ~ Stage(at, s, m, v)
    BY <1>6, <1>7, <1>9 DEF Stage
  <2>3. Inserted(w, s[m], v)
    BY <1>0, <1>2, <2>1, <2>2, InsertSpec
  <2>4. at[m - 1] = w.count /\ at[m] = v.count
    BY <1>3, <2>1
  <2>5. w.count \in Nat /\ w.count <= Limit + 3 /\ Limit \in Nat /\ v.count \in Nat
    BY <2>2, <2>3, SpareFits DEF WorkInv, Work, Inserted
  <2> HIDE DEF w, v
  <2>6. CASE w.done
    <3>1. v = w
      BY <2>3, <2>6 DEF Inserted
    <3>2. \A j \in 0 .. m - 1 - 1 : j \in 0 .. m - 1
      BY <2>1
    <3> QED
      BY <2>2, <2>6, <3>1, <3>2 DEF Stage
  <2>7. CASE ~ w.done /\ w.count > Limit
    <3>1. v.done /\ v.buf.mem[w.count] = 0 /\ WorkInv(v)
      BY <2>3, <2>7 DEF Inserted
    <3>2. Laid(at, s, m - 1, v.buf.mem)
      <4>1. Laid(at, s, m - 1, w.buf.mem)
        BY <2>2, <2>7 DEF Stage
      <4>2. \A k \in 0 .. at[m - 1] - 1 : v.buf.mem[k] = w.buf.mem[k]
        BY <2>3, <2>4, <2>7 DEF Inserted
      <4>3. m - 1 \in Nat /\ at[m - 1] \in Nat
        BY <2>1, <2>4, <2>5
      <4> QED
        BY <4>1, <4>2, <4>3, LaidStays
    <3>3. at[m - 1] \in Spare /\ m - 1 \in 0 .. m - 1
      BY <2>1, <2>4, <2>5, <2>7 DEF Spare
    <3>4. Stage(at, s, m, v)
      BY <2>4, <3>1, <3>2, <3>3 DEF Stage
    <3> QED
      BY <2>2, <3>4
  <2>8. CASE ~ w.done /\ w.count <= Limit
    <3>1. /\ ~ v.done /\ WorkInv(v)
          /\ WrittenAt(v.buf.mem, w.count, v.count, s[m])
      BY <2>3, <2>8 DEF Inserted
    <3>2. Laid(at, s, m - 1, v.buf.mem)
      <4>1. Laid(at, s, m - 1, w.buf.mem)
        BY <2>2, <2>8 DEF Stage
      <4>2. \A k \in 0 .. at[m - 1] - 1 : v.buf.mem[k] = w.buf.mem[k]
        BY <2>3, <2>4, <2>8 DEF Inserted
      <4>3. m - 1 \in Nat /\ at[m - 1] \in Nat
        BY <2>1, <2>4, <2>5
      <4> QED
        BY <4>1, <4>2, <4>3, LaidStays
    <3>3. Laid(at, s, m, v.buf.mem)
      BY <2>1, <2>4, <2>5, <3>1, <3>2, LaidGrows
    <3>4. Stage(at, s, m, v)
      BY <2>4, <3>1, <3>3 DEF Stage
    <3> QED
      BY <2>2, <3>4
  <2> QED
    BY <2>5, <2>6, <2>7, <2>8
<1> QED
  BY <1>8, <1>9

(* What do_sanity_insert leaves: the characters of the name, all of them   *)
(* or as many as there is room for, and a null byte behind them.           *)
LEMMA Sanity ==
    ASSUME NEW s \in Seq(NameChar), NEW b, Usable(b)
    PROVE  /\ Usable(do_sanity_insert(s, b))
           /\ \E at : \E j \in 0 .. Len(s) :
                 /\ Laid(at, s, j, do_sanity_insert(s, b).mem)
                 /\ at[j] \in 0 .. Limit + 3
                 /\ do_sanity_insert(s, b).mem[at[j]] = 0
                 /\ j < Len(s) => at[j] > Limit
<1> DEFINE n == Len(s)
           w == Insertions(s, b)[n]
           at == [k \in 0 .. Len(s) |-> Insertions(s, b)[k].count]
           r == do_sanity_insert(s, b)
<1>1. n \in Nat /\ n \in 0 .. Len(s)
  OBVIOUS
<1>2. Stage(at, s, n, w)
  BY <1>1, EveryStage
<1>3. r = IF w.done THEN w.buf ELSE Store(w.buf, w.count, <<0>>)
  BY DEF do_sanity_insert
<1> HIDE DEF w, at, r
<1>4. /\ WorkInv(w) /\ w.buf \in Buffer /\ w.count \in Nat /\ w.count <= Limit + 3
      /\ Limit \in Nat
  BY <1>2, SpareFits DEF Stage, WorkInv, Work
<1>5. PICK z \in Spare : w.buf.mem[z] = 0 /\ (w.done \/ w.count <= z)
  BY <1>4 DEF WorkInv
<1>6. CASE w.done
  <2>1. r = w.buf
    BY <1>3, <1>6
  <2>2. PICK j \in 0 .. n - 1 : /\ at[j] \in Spare
                                /\ w.buf.mem[at[j]] = 0
                                /\ Laid(at, s, j, w.buf.mem)
    BY <1>2, <1>6 DEF Stage
  <2>3. j \in 0 .. Len(s) /\ at[j] \in 0 .. Limit + 3 /\ at[j] > Limit
    BY <1>1, <1>4, <2>2 DEF Spare
  <2>4. Usable(r)
    BY <1>4, <1>5, <2>1 DEF Usable
  <2>5. \E a : \E i \in 0 .. Len(s) :
            /\ Laid(a, s, i, r.mem)
            /\ a[i] \in 0 .. Limit + 3
            /\ r.mem[a[i]] = 0
            /\ i < Len(s) => a[i] > Limit
    BY <2>1, <2>2, <2>3
  <2> QED
    BY <2>4, <2>5 DEF r
<1>7. CASE ~ w.done
  <2> DEFINE zero == <<0>>
  <2>1. zero \in Seq(0 .. 255) /\ zero # << >> /\ Len(zero) = 1 /\ zero[1] = 0
    OBVIOUS
  <2>2. r = Store(w.buf, w.count, zero)
    BY <1>3, <1>7
  <2> HIDE DEF zero
  <2>3. w.count + Len(zero) <= OutLen
    BY <1>4, <2>1, SpareFits
  <2>4. /\ r \in Buffer
        /\ \A k \in 0 .. OutLen - 1 :
              r.mem[k] = IF w.count <= k /\ k < w.count + Len(zero)
                         THEN zero[k - w.count + 1] ELSE w.buf.mem[k]
    BY <1>4, <2>1, <2>2, <2>3, StoreSpec
  <2>5. r.mem[w.count] = 0
    <3>1. w.count \in 0 .. OutLen - 1 /\ w.count <= w.count
      BY <1>4, SpareFits
    <3>2. w.count < w.count + Len(zero) /\ w.count - w.count + 1 = 1
      BY <1>4, <2>1
    <3> QED
      BY <2>1, <2>4, <3>1, <3>2
  <2>6. \A k \in 0 .. OutLen - 1 : k # w.count => r.mem[k] = w.buf.mem[k]
    BY <1>4, <2>1, <2>4
  <2>7. r.mem[z] = 0
    BY <1>5, <2>5, <2>6, SpareFits
  <2>8. w.count = at[n] /\ Laid(at, s, n, w.buf.mem)
    BY <1>2, <1>7 DEF Stage
  <2>9. Laid(at, s, n, r.mem)
    <3>1. \A k \in 0 .. at[n] - 1 : r.mem[k] = w.buf.mem[k]
      BY <1>4, <2>6, <2>8, SpareFits
    <3> QED
      BY <1>1, <1>4, <2>8, <3>1, LaidStays
  <2>10. at[n] \in 0 .. Limit + 3 /\ r.mem[at[n]] = 0
    BY <1>4, <2>5, <2>8
  <2>11. Usable(r)
    BY <2>4, <2>7 DEF Usable
  <2>12. \E a : \E i \in 0 .. Len(s) :
            /\ Laid(a, s, i, r.mem)
            /\ a[i] \in 0 .. Limit + 3
            /\ r.mem[a[i]] = 0
            /\ i < Len(s) => a[i] > Limit
    BY <1>1, <2>9, <2>10
  <2> QED
    BY <2>11, <2>12 DEF r
<1> QED
  BY <1>6, <1>7

-----------------------------------------------------------------------------
(* The state between calls.                                                *)
LEMMA SanitizerInitInv == SanitizerInit => SanitizerInv
<1> SUFFICES ASSUME SanitizerInit PROVE SanitizerInv
  OBVIOUS
<1>1. 0 \in 0 .. OutLen - 1 /\ Limit + 1 \in Spare /\ Limit + 1 \in 0 .. OutLen - 1
  BY SpareFits
<1>2. outbuf \in Memory /\ outbuf[Limit + 1] = 0
  BY <1>1 DEF SanitizerInit, Memory
<1> QED
  BY <1>1, <1>2 DEF SanitizerInit, SanitizerInv

(* The first byte is cleared, which takes no null byte away.               *)
LEMMA ClearedIsUsable ==
    ASSUME SanitizerInv
    PROVE  Usable([mem |-> [outbuf EXCEPT ![0] = 0], high |-> reached])
<1> DEFINE m == [outbuf EXCEPT ![0] = 0]
<1>1. outbuf \in Memory /\ reached \in 0 .. OutLen - 1
  BY DEF SanitizerInv
<1>2. m \in Memory
  <2>1. m = [k \in 0 .. OutLen - 1 |-> IF k = 0 THEN 0 ELSE outbuf[k]]
    BY <1>1 DEF Memory
  <2>2. \A k \in 0 .. OutLen - 1 : outbuf[k] \in 0 .. 255
    BY <1>1 DEF Memory
  <2>3. \A k \in 0 .. OutLen - 1 :
            (IF k = 0 THEN 0 ELSE outbuf[k]) \in 0 .. 255
    BY <2>2
  <2>4. [k \in 0 .. OutLen - 1 |-> IF k = 0 THEN 0 ELSE outbuf[k]] \in Memory
    BY <2>3 DEF Memory
  <2> HIDE DEF m
  <2> QED
    BY <2>1, <2>4, Zenon
<1>3. PICK z \in Spare : outbuf[z] = 0
  BY DEF SanitizerInv
<1>4. m[z] = 0
  BY <1>1, <1>3, SpareFits DEF Memory
<1> HIDE DEF m
<1>5. [mem |-> m, high |-> reached] \in Buffer
  BY <1>1, <1>2 DEF Buffer
<1> QED
  BY <1>3, <1>4, <1>5 DEF Usable, m

(* Every call of sanitized leaves a null byte behind the limit.            *)
LEMMA SanitizedInv ==
    ASSUME SanitizerInv, sanitized
    PROVE  SanitizerInv'
<1>1. ASSUME NEW s \in Seq(NameChar), NEW source, ShowFromBuffer(s, source)
      PROVE  SanitizerInv'
  <2> DEFINE b == [mem |-> [outbuf EXCEPT ![0] = 0], high |-> reached]
             r == do_sanity_insert(s, b)
  <2>1. Usable(r)
    <3>1. Usable(b)
      BY ClearedIsUsable
    <3> HIDE DEF b
    <3> QED
      BY <3>1, Sanity
  <2>2. outbuf' = r.mem /\ reached' = r.high
    BY <1>1 DEF ShowFromBuffer
  <2> HIDE DEF r
  <2> QED
    BY <2>1, <2>2 DEF Usable, Buffer, SanitizerInv
<1>2. ASSUME NEW s \in Names, ShowAsItIs(s)
      PROVE  SanitizerInv'
  <2> DEFINE b == [mem |-> [outbuf EXCEPT ![0] = 0], high |-> reached]
  <2>1. Usable(b)
    BY ClearedIsUsable
  <2>2. outbuf' = b.mem /\ reached' = b.high
    BY <1>2 DEF ShowAsItIs
  <2> HIDE DEF b
  <2> QED
    BY <2>1, <2>2 DEF Usable, Buffer, SanitizerInv
<1>3. NoName \in Seq(NameChar)
  <2>1. 60 \in NameChar /\ 62 \in NameChar
    BY DEF NameChar
  <2> QED
    BY <2>1 DEF NoName
<1>4. \A s \in Names : s \in Seq(NameChar)
  BY NamesAssumption
<1> QED
  BY <1>1, <1>2, <1>3, <1>4 DEF sanitized

(* The invariant holds throughout, whatever is formatted meanwhile.        *)
THEOREM SanitizerInvariant == PrintingSpec => []SanitizerInv
<1>1. PrintingInit => SanitizerInv
  BY SanitizerInitInv DEF PrintingInit
<1>2. SanitizerInv /\ [PrintingNext]_printingVars => SanitizerInv'
  <2>1. UNCHANGED sanitizerVars /\ SanitizerInv => SanitizerInv'
    BY DEF sanitizerVars, SanitizerInv
  <2> QED
    BY <2>1, SanitizedInv DEF PrintingNext, printingVars
<1> QED
  BY <1>1, <1>2, PTL DEF PrintingSpec

(* No call of sanitized writes past the end of the buffer, whatever calls  *)
(* came before it.                                                         *)
THEOREM NeverOverruns == PrintingSpec => []WritesStayInTheBuffer
<1>1. SanitizerInv => WritesStayInTheBuffer
  BY SpareFits DEF SanitizerInv, WritesStayInTheBuffer
<1> QED
  BY <1>1, SanitizerInvariant, PTL

-----------------------------------------------------------------------------
(* Reading back what is shown.                                             *)
ReadAt(g, t, k) ==
    IF k > Len(t) THEN << >>
    ELSE IF t[k] # Percent THEN <<t[k]>> \o g[k + 1]
    ELSE IF k + 2 > Len(t) THEN <<Percent>>
    ELSE <<16 * HexValue(t[k + 1]) + HexValue(t[k + 2])>> \o g[k + 3]

Readings(g, t, lo) == g = [k \in lo .. Len(t) + 3 |-> ReadAt(g, t, k)]

(* Readings exist from every place on: from the last place, and from one   *)
(* place earlier whenever they do from some place.                         *)
LEMMA ReadingsExist ==
    ASSUME NEW t, Len(t) \in Nat
    PROVE  \E g : Readings(g, t, 1)
<1> DEFINE n == Len(t)
           Bad == {d \in 0 .. n + 2 : ~ \E g : Readings(g, t, n + 3 - d)}
<1>1. SUFFICES ASSUME Bad # {} PROVE FALSE
  <2>1. n + 2 \in 0 .. n + 2 /\ n + 3 - (n + 2) = 1
    OBVIOUS
  <2> QED
    BY <2>1
<1>2. PICK d \in Bad : \A m \in Bad : d <= m
  <2>1. Bad \in SUBSET Nat
    OBVIOUS
  <2> HIDE DEF Bad
  <2> QED
    BY <1>1, <2>1, Smallest
<1>3. CASE d = 0
  <2>1. Readings([k \in n + 3 .. n + 3 |-> << >>], t, n + 3)
    BY DEF Readings, ReadAt
  <2>2. n + 3 - d = n + 3
    BY <1>3
  <2> QED
    BY <1>2, <2>1, <2>2
<1>4. CASE d # 0
  <2> DEFINE lo == n + 3 - d
  <2>1. d - 1 \in 0 .. n + 2 /\ d - 1 \notin Bad /\ n + 3 - (d - 1) = lo + 1
    BY <1>2, <1>4
  <2>2. PICK g : Readings(g, t, lo + 1)
    BY <2>1
  <2>3. lo \in 1 .. n + 2
    BY <1>2, <1>4
  <2>4. \A k \in lo + 1 .. n + 3 : g[k] = ReadAt(g, t, k)
    BY <2>2, Zenon DEF Readings
  <2> HIDE DEF lo
  <2> DEFINE f == [k \in lo .. n + 3 |-> IF k = lo THEN ReadAt(g, t, lo) ELSE g[k]]
  <2>5. \A k \in lo + 1 .. n + 3 : f[k] = g[k]
    BY <2>3
  <2>6. f[lo] = ReadAt(g, t, lo)
    BY <2>3
  <2>7. ASSUME NEW k \in lo .. n + 3
        PROVE  ReadAt(f, t, k) = ReadAt(g, t, k)
    <3>1. CASE k > n
      BY <3>1 DEF ReadAt
    <3>2. CASE k <= n
      <4>1. f[k + 1] = g[k + 1]
        BY <2>3, <2>5, <3>2
      <4>2. k + 2 <= n => f[k + 3] = g[k + 3]
        BY <2>3, <2>5, <3>2
      <4>3. ~ (k > n) /\ (k + 2 > n <=> ~ (k + 2 <= n))
        BY <2>3, <3>2
      <4> HIDE DEF f
      <4> QED
        BY <4>1, <4>2, <4>3, Zenon DEF ReadAt
    <3> QED
      BY <2>3, <3>1, <3>2
  <2>8. \A k \in lo .. n + 3 : k = lo \/ k \in lo + 1 .. n + 3
    BY <2>3
  <2>9. \A k \in lo .. n + 3 : f[k] = ReadAt(f, t, k)
    <3> HIDE DEF f
    <3> QED
      BY <2>4, <2>5, <2>6, <2>7, <2>8, Zenon
  <2>10. f = [k \in lo .. n + 3 |-> f[k]]
    OBVIOUS
  <2>11. Readings(f, t, lo)
    <3> HIDE DEF f
    <3> QED
      BY <2>9, <2>10 DEF Readings
  <2> QED
    BY <1>2, <2>11 DEF lo
<1> QED
  BY <1>3, <1>4

(* The recursive definition gives them.                                    *)
LEMMA DecodedFromReads ==
    ASSUME NEW t, Len(t) \in Nat
    PROVE  \A k \in 1 .. Len(t) + 3 : DecodedFrom(t)[k] = ReadAt(DecodedFrom(t), t, k)
<1>1. \E g : Readings(g, t, 1)
  BY ReadingsExist
<1>2. DecodedFrom(t) = CHOOSE g : Readings(g, t, 1)
  BY DEF DecodedFrom, Readings, ReadAt
<1>3. Readings(DecodedFrom(t), t, 1)
  BY <1>1, <1>2, Zenon
<1> QED
  BY <1>3, Zenon DEF Readings

(* A text spells the first j characters of a name: each is there as it is, *)
(* unless it is a %, or as a % and two digits.                             *)
Spells(t, at, s, j) ==
    /\ at[0] = 0 /\ at[j] = Len(t)
    /\ \A k \in 0 .. j : at[k] \in 0 .. Len(t)
    /\ \A k \in 1 .. j :
          \/ at[k] = at[k - 1] + 1 /\ t[at[k]] = s[k] /\ s[k] # Percent
          \/ /\ at[k] = at[k - 1] + 3 /\ t[at[k] - 2] = Percent
             /\ 16 * HexValue(t[at[k] - 1]) + HexValue(t[at[k]]) = s[k]

(* A character put before the others.                                      *)
LEMMA FirstOfRest ==
    ASSUME NEW S, NEW s \in Seq(S), NEW k \in 1 .. Len(s), NEW j \in k .. Len(s)
    PROVE  <<s[k]>> \o SubSeq(s, k + 1, j) = SubSeq(s, k, j)
<1> DEFINE rest == SubSeq(s, k + 1, j)
           one == <<s[k]>>
           both == one \o rest
           all == SubSeq(s, k, j)
<1>1. /\ rest \in Seq(S) /\ Len(rest) = j - k
      /\ \A i \in 1 .. j - k : rest[i] = s[k + i]
  OBVIOUS
<1>2. all \in Seq(S) /\ Len(all) = j - k + 1
      /\ \A i \in 1 .. j - k + 1 : all[i] = s[k + i - 1]
  OBVIOUS
<1>3. one \in Seq(S) /\ Len(one) = 1 /\ one[1] = s[k]
  OBVIOUS
<1> HIDE DEF rest, all, one
<1>4. both \in Seq(S) /\ Len(both) = j - k + 1
      /\ both[1] = s[k] /\ \A i \in 2 .. j - k + 1 : both[i] = rest[i - 1]
  <2>1. /\ both \in Seq(S) /\ Len(both) = Len(one) + Len(rest)
        /\ \A i \in 1 .. Len(one) + Len(rest) :
              both[i] = IF i <= Len(one) THEN one[i] ELSE rest[i - Len(one)]
    BY <1>1, <1>3, ConcatProperties
  <2>2. j - k \in Nat
    OBVIOUS
  <2> HIDE DEF both
  <2> QED
    BY <1>1, <1>3, <2>1, <2>2
<1>5. \A i \in 1 .. j - k + 1 : both[i] = all[i]
  <2>1. ASSUME NEW i \in 2 .. j - k + 1 PROVE both[i] = all[i]
    <3>1. i - 1 \in 1 .. j - k /\ k + (i - 1) = k + i - 1
      OBVIOUS
    <3> HIDE DEF both
    <3> QED
      BY <1>1, <1>2, <1>4, <3>1
  <2>2. both[1] = all[1]
    <3> HIDE DEF both
    <3> QED
      BY <1>2, <1>4
  <2>3. \A i \in 1 .. j - k + 1 : i = 1 \/ i \in 2 .. j - k + 1
    OBVIOUS
  <2> QED
    BY <2>1, <2>2, <2>3
<1> HIDE DEF both
<1>6. both = all
  BY <1>2, <1>4, <1>5, SeqEqual
<1> QED
  BY <1>6 DEF both, rest, all, one

(* What a text spells is read back from it: nothing behind the last        *)
(* character, and from each character on what follows it.                  *)
LEMMA SpelledIsRead ==
    ASSUME NEW t, Len(t) \in Nat, NEW s \in Seq(NameChar), NEW j \in 0 .. Len(s),
           NEW at, Spells(t, at, s, j)
    PROVE  Decoded(t) = SubSeq(s, 1, j)
<1> DEFINE from == DecodedFrom(t)
           Bad == {d \in 0 .. j : from[at[j - d] + 1] # SubSeq(s, j - d + 1, j)}
<1>0. /\ j \in Nat /\ Len(s) \in Nat
      /\ \A k \in 1 .. Len(s) : s[k] \in NameChar
  BY ElementOfSeq
<1>1. \A k \in 1 .. Len(t) + 3 : from[k] = ReadAt(from, t, k)
  BY DecodedFromReads
<1> HIDE DEF from
<1>2. Bad = {}
  <2> SUFFICES ASSUME Bad # {} PROVE FALSE
    OBVIOUS
  <2>1. PICK d \in Bad : \A m \in Bad : d <= m
    <3>1. Bad \in SUBSET Nat
      BY <1>0
    <3> HIDE DEF Bad
    <3> QED
      BY <3>1, Smallest
  <2>2. d \in 0 .. j /\ from[at[j - d] + 1] # SubSeq(s, j - d + 1, j)
    BY <2>1
  <2>3. CASE d = 0
    <3>1. j - d = j /\ at[j] = Len(t) /\ Len(t) + 1 \in 1 .. Len(t) + 3 /\ Len(t) + 1 > Len(t)
      BY <1>0, <2>3 DEF Spells
    <3>2. from[Len(t) + 1] = << >>
      BY <1>1, <3>1, Zenon DEF ReadAt
    <3>3. SubSeq(s, j + 1, j) = << >>
      BY <1>0
    <3> QED
      BY <2>2, <3>1, <3>2, <3>3
  <2>4. CASE d # 0
    <3> DEFINE k == j - d + 1
               p == at[k - 1]
               q == at[k]
    <3>1. k \in 1 .. j /\ k - 1 = j - d /\ d - 1 \in 0 .. j /\ j - (d - 1) = k
      BY <1>0, <2>2, <2>4
    <3>2. from[q + 1] = SubSeq(s, k + 1, j)
      <4>1. d - 1 \notin Bad
        <5>1. ~ (d <= d - 1)
          BY <1>0, <2>2
        <5> HIDE DEF Bad
        <5> QED
          BY <2>1, <5>1
      <4> QED
        BY <3>1, <4>1
    <3>3. p \in 0 .. Len(t) /\ q \in 0 .. Len(t) /\ k \in 1 .. Len(s) /\ j \in k .. Len(s)
      <4>1. k - 1 \in 0 .. j /\ k \in 0 .. j /\ k \in 1 .. Len(s) /\ j \in k .. Len(s)
        BY <1>0, <3>1
      <4>2. \A i \in 0 .. j : at[i] \in 0 .. Len(t)
        BY DEF Spells
      <4> HIDE DEF k
      <4> QED
        BY <4>1, <4>2
    <3>4. \/ q = p + 1 /\ t[q] = s[k] /\ s[k] # Percent
          \/ /\ q = p + 3 /\ t[q - 2] = Percent
             /\ 16 * HexValue(t[q - 1]) + HexValue(t[q]) = s[k]
      BY <3>1, Zenon DEF Spells
    <3>5. from[p + 1] # SubSeq(s, k, j)
      BY <2>2, <3>1
    <3> HIDE DEF k, p, q
    <3>6. p + 1 \in 1 .. Len(t) + 3 /\ ~ (p + 1 > Len(t)) /\ from[p + 1] = ReadAt(from, t, p + 1)
      BY <1>1, <3>3, <3>4
    <3>7. CASE q = p + 1 /\ t[q] = s[k] /\ s[k] # Percent
      <4>1. from[p + 1] = <<t[p + 1]>> \o from[p + 1 + 1]
        BY <3>6, <3>7 DEF ReadAt
      <4>2. from[p + 1] = <<s[k]>> \o SubSeq(s, k + 1, j)
        BY <3>2, <3>7, <4>1
      <4> QED
        BY <3>3, <3>5, <4>2, FirstOfRest
    <3>8. CASE /\ q = p + 3 /\ t[q - 2] = Percent
               /\ 16 * HexValue(t[q - 1]) + HexValue(t[q]) = s[k]
      <4>1. /\ q - 2 = p + 1 /\ q - 1 = p + 1 + 1 /\ q = p + 1 + 2
            /\ q + 1 = p + 1 + 3 /\ ~ (p + 1 + 2 > Len(t))
        BY <3>3, <3>8
      <4>2. from[p + 1] = <<16 * HexValue(t[p + 1 + 1]) + HexValue(t[p + 1 + 2])>>
                              \o from[p + 1 + 3]
        BY <3>6, <3>8, <4>1, Zenon DEF ReadAt
      <4>3. from[p + 1] = <<s[k]>> \o SubSeq(s, k + 1, j)
        BY <3>2, <3>8, <4>1, <4>2
      <4> QED
        BY <3>3, <3>5, <4>3, FirstOfRest
    <3> QED
      BY <3>4, <3>7, <3>8
  <2> QED
    BY <2>3, <2>4
<1>3. from[at[j - j] + 1] = SubSeq(s, j - j + 1, j)
  <2>1. j \in 0 .. j
    BY <1>0
  <2> QED
    BY <1>2, <2>1
<1>4. j - j = 0 /\ at[0] = 0 /\ 0 + 1 = 1
  BY <1>0 DEF Spells
<1> QED
  BY <1>3, <1>4 DEF Decoded, from

(* Every character shown belongs to one of the name.                       *)
LEMMA Covered ==
    ASSUME NEW s, NEW j \in Nat, NEW at, NEW mem, Laid(at, s, j, mem), at[j] \in Nat,
           NEW i \in 0 .. at[j] - 1
    PROVE  \E k \in 1 .. j : at[k - 1] <= i /\ i < at[k]
<1> DEFINE Past == {k \in 0 .. j : i < at[k]}
<1>1. j \in Past
  OBVIOUS
<1>2. PICK k \in Past : \A m \in Past : k <= m
  <2>1. Past \in SUBSET Nat
    OBVIOUS
  <2> HIDE DEF Past
  <2> QED
    BY <1>1, <2>1, Smallest
<1>3. k # 0
  BY <1>2 DEF Laid
<1>4. k \in 1 .. j /\ k - 1 \in 0 .. j /\ k - 1 \notin Past
  BY <1>2, <1>3
<1>5. at[k - 1] \in Nat
  BY <1>4 DEF Laid
<1> QED
  BY <1>2, <1>4, <1>5

(* What is laid out, up to the null byte behind it, is what is printed: it *)
(* upsets no terminal, and spells the characters it stands for.            *)
LEMMA LaidIsShown ==
    ASSUME NEW s \in Seq(NameChar), NEW j \in 0 .. Len(s), NEW at,
           NEW mem \in Memory, Laid(at, s, j, mem),
           at[j] \in 0 .. Limit + 3, mem[at[j]] = 0
    PROVE  /\ Len(CString(mem)) = at[j]
           /\ \A k \in DOMAIN CString(mem) : CString(mem)[k] \in 32 .. 126
           /\ Spells(CString(mem), at, s, j)
<1> DEFINE n == at[j]
           t == CString(mem)
<1>0. /\ n \in Nat /\ n < OutLen /\ n \in 0 .. OutLen - 1 /\ OutLen \in Nat /\ j \in Nat
      /\ \A k \in 1 .. j : s[k] \in NameChar
  BY SpareFits, ElementOfSeq
<1>1. ASSUME NEW k \in 1 .. j
      PROVE  /\ at[k - 1] \in 0 .. n /\ at[k] \in 0 .. n
             /\ WrittenAt(mem, at[k - 1], at[k], s[k]) /\ s[k] \in 0 .. 255
  <2>1. k - 1 \in 0 .. j /\ k \in 0 .. j
    BY <1>0
  <2> QED
    BY <1>0, <2>1 DEF Laid, NameChar
<1>2. ASSUME NEW i \in 0 .. n - 1
      PROVE  mem[i] \in 32 .. 126
  <2>1. PICK k \in 1 .. j : at[k - 1] <= i /\ i < at[k]
    BY <1>0, Covered
  <2> DEFINE p == at[k - 1]
             c == s[k]
  <2>2. p \in Nat /\ WrittenAt(mem, p, at[k], c) /\ c \in 0 .. 255
    BY <1>1
  <2>5. p <= i /\ i < at[k]
    BY <2>1
  <2> HIDE DEF p, c
  <2>3. CASE Printable(c)
    <3>1. at[k] = p + 1 /\ mem[p] = c
      BY <2>2, <2>3 DEF WrittenAt
    <3>2. i = p
      BY <2>2, <2>5, <3>1
    <3> QED
      BY <2>3, <3>1, <3>2 DEF Printable
  <2>4. CASE ~ Printable(c)
    <3>1. /\ at[k] = p + 3 /\ mem[p] = Percent
          /\ mem[p + 1] = HexDigit(c \div 16) /\ mem[p + 2] = HexDigit(c % 16)
      BY <2>2, <2>4 DEF WrittenAt
    <3>2. /\ HexDigit(c \div 16) \in (48 .. 57) \cup (97 .. 102)
          /\ HexDigit(c % 16) \in (48 .. 57) \cup (97 .. 102)
      BY <2>2, DigitsShow
    <3>3. i = p \/ i = p + 1 \/ i = p + 2
      BY <2>2, <2>5, <3>1
    <3> QED
      <4>1. /\ HexDigit(c \div 16) \in 32 .. 126 /\ HexDigit(c % 16) \in 32 .. 126
            /\ Percent \in 32 .. 126
        BY <3>2 DEF Percent
      <4> QED
        BY <3>1, <3>3, <4>1
  <2> QED
    BY <2>3, <2>4
<1>3. StringEnd(mem, 0) = n
  <2> DEFINE e == StringEnd(mem, 0)
  <2>1. e \in 0 .. n /\ mem[e] = 0
    BY <1>0, StringEndSpec
  <2> HIDE DEF e
  <2>2. e \notin 0 .. n - 1
    <3>1. ~ (0 \in 32 .. 126)
      OBVIOUS
    <3> QED
      BY <1>2, <2>1, <3>1
  <2> QED
    BY <1>0, <2>1, <2>2 DEF e
<1>4. Len(t) = n /\ DOMAIN t = 1 .. n /\ \A k \in 1 .. n : t[k] = mem[k - 1]
  <2> DEFINE bytes == [k \in 1 .. OutLen |-> mem[k - 1]]
  <2>1. t = SubSeq(bytes, 1, n)
    BY <1>3 DEF CString
  <2>2. \A k \in 1 .. OutLen : mem[k - 1] \in 0 .. 255
    BY <1>0 DEF Memory
  <2>3. bytes \in Seq(0 .. 255) /\ Len(bytes) = OutLen
    BY <1>0, <2>2
  <2>4. \A k \in 1 .. n : bytes[k] = mem[k - 1]
    BY <1>0
  <2> HIDE DEF bytes
  <2>5. /\ Len(SubSeq(bytes, 1, n)) = n /\ DOMAIN SubSeq(bytes, 1, n) = 1 .. n
        /\ \A k \in 1 .. n : SubSeq(bytes, 1, n)[k] = bytes[k]
    BY <1>0, <2>3
  <2> QED
    BY <2>1, <2>4, <2>5
<1> HIDE DEF t
<1>5. \A k \in DOMAIN t : t[k] \in 32 .. 126
  <2> SUFFICES ASSUME NEW k \in 1 .. n PROVE t[k] \in 32 .. 126
    BY <1>4
  <2>1. k - 1 \in 0 .. n - 1
    BY <1>0
  <2> QED
    BY <1>2, <1>4, <2>1
<1>6. ASSUME NEW k \in 1 .. j
      PROVE  \/ at[k] = at[k - 1] + 1 /\ t[at[k]] = s[k] /\ s[k] # Percent
             \/ /\ at[k] = at[k - 1] + 3 /\ t[at[k] - 2] = Percent
                /\ 16 * HexValue(t[at[k] - 1]) + HexValue(t[at[k]]) = s[k]
  <2> DEFINE p == at[k - 1]
             q == at[k]
             c == s[k]
  <2>2. p \in Nat /\ q \in 0 .. n /\ WrittenAt(mem, p, q, c) /\ c \in 0 .. 255
    BY <1>1
  <2> HIDE DEF p, q, c
  <2>3. CASE Printable(c)
    <3>1. q = p + 1 /\ mem[p] = c /\ c # Percent
      BY <2>2, <2>3 DEF WrittenAt, Printable
    <3>2. t[q] = mem[p]
      BY <1>4, <2>2, <3>1
    <3> QED
      BY <3>1, <3>2 DEF p, q, c
  <2>4. CASE ~ Printable(c)
    <3>1. /\ q = p + 3 /\ mem[p] = Percent
          /\ mem[p + 1] = HexDigit(c \div 16) /\ mem[p + 2] = HexDigit(c % 16)
      BY <2>2, <2>4 DEF WrittenAt
    <3>2. t[q - 2] = mem[p] /\ t[q - 1] = mem[p + 1] /\ t[q] = mem[p + 2]
      BY <1>4, <2>2, <3>1
    <3>3. 16 * HexValue(HexDigit(c \div 16)) + HexValue(HexDigit(c % 16)) = c
      BY <2>2, EscapeSpec
    <3> QED
      BY <3>1, <3>2, <3>3 DEF p, q, c
  <2> QED
    BY <2>3, <2>4
<1>7. Spells(t, at, s, j)
  BY <1>4, <1>6 DEF Spells, Laid
<1> QED
  BY <1>4, <1>5, <1>7 DEF t

(* A name shown as it is spells itself: each character ends at its own     *)
(* number.                                                                 *)
LEMMA SpelledAsItIs ==
    ASSUME NEW s \in Seq(NameChar), no_questionable_chars(s)
    PROVE  /\ \A k \in DOMAIN s : s[k] \in (32 .. 126) \cup {9, 10}
           /\ Decoded(s) = s
<1> DEFINE at == [k \in 0 .. Len(s) |-> k]
<1>1. Len(s) \in Nat /\ DOMAIN s = 1 .. Len(s)
  OBVIOUS
<1>2. \A k \in 1 .. Len(s) : s[k] \in (32 .. 126) \cup {9, 10} /\ s[k] # Percent
  <2> SUFFICES ASSUME NEW k \in 1 .. Len(s)
               PROVE  s[k] \in (32 .. 126) \cup {9, 10} /\ s[k] # Percent
    OBVIOUS
  <2>1. Printable(s[k]) \/ s[k] \in {9, 10}
    BY <1>1, Zenon DEF no_questionable_chars
  <2> QED
    BY <2>1 DEF Printable, Percent
<1>3. Spells(s, at, s, Len(s))
  BY <1>1, <1>2 DEF Spells
<1>4. Decoded(s) = SubSeq(s, 1, Len(s))
  <2> HIDE DEF at
  <2> QED
    BY <1>1, <1>3, SpelledIsRead
<1>5. SubSeq(s, 1, Len(s)) = s
  OBVIOUS
<1> QED
  BY <1>1, <1>2, <1>4, <1>5

(* A name is not the null pointer.                                         *)
LEMMA NamesAreGiven ==
    ASSUME NEW s \in Names
    PROVE  s \in Seq(NameChar) /\ s # NullPointer
<1>1. s \in Seq(NameChar)
  BY NamesAssumption
<1>2. NullPointer[1] = 0 /\ Len(NullPointer) = 1
  BY DEF NullPointer
<1>3. ASSUME Len(s) = 1 PROVE s[1] # 0
  <2>1. 1 \in 1 .. Len(s)
    BY <1>3
  <2>2. s[1] \in NameChar
    BY <1>1, <2>1, ElementOfSeq, Zenon
  <2> QED
    BY <2>2 DEF NameChar
<1> QED
  BY <1>1, <1>2, <1>3

(* A call answers what reads back as its name.                             *)
LEMMA SanitizedUnambiguous ==
    ASSUME SanitizerInv, sanitized
    PROVE  SanitizedIsUnambiguous'
<1>1. ASSUME NEW s \in Seq(NameChar), NEW source, ShowFromBuffer(s, source),
             (IF source = NullPointer THEN NoName ELSE source) = s
      PROVE  SanitizedIsUnambiguous'
  <2> DEFINE b == [mem |-> [outbuf EXCEPT ![0] = 0], high |-> reached]
             r == do_sanity_insert(s, b)
             t == CString(r.mem)
  <2>0. shown' = t /\ name' = source
    BY <1>1 DEF ShowFromBuffer
  <2>1. Usable(b)
    BY ClearedIsUsable
  <2> HIDE DEF b
  <2>2. /\ Usable(r)
        /\ \E at : \E j \in 0 .. Len(s) :
              /\ Laid(at, s, j, r.mem)
              /\ at[j] \in 0 .. Limit + 3
              /\ r.mem[at[j]] = 0
              /\ j < Len(s) => at[j] > Limit
    BY <2>1, Sanity
  <2> HIDE DEF r
  <2>3. PICK at, j : /\ j \in 0 .. Len(s)
                     /\ Laid(at, s, j, r.mem)
                     /\ at[j] \in 0 .. Limit + 3
                     /\ r.mem[at[j]] = 0
                     /\ j < Len(s) => at[j] > Limit
    BY <2>2
  <2>4. r.mem \in Memory
    BY <2>2 DEF Usable, Buffer
  <2>5. /\ Len(t) = at[j]
        /\ \A k \in DOMAIN t : t[k] \in 32 .. 126
        /\ Spells(t, at, s, j)
    BY <2>3, <2>4, LaidIsShown
  <2> HIDE DEF t
  <2>6. Len(t) \in Nat
    BY <2>3, <2>5, SpareFits
  <2>7. Decoded(t) = SubSeq(s, 1, j)
    BY <2>3, <2>5, <2>6, SpelledIsRead
  <2>8. Len(SubSeq(s, 1, j)) = j
    BY <2>3
  <2>9. IsPrefix(Decoded(t), s)
    BY <2>3, <2>7, <2>8 DEF IsPrefix
  <2>10. Len(Decoded(t)) < Len(s) => Len(t) > OutLen - Margin
    BY <2>3, <2>5, <2>7, <2>8 DEF Limit
  <2>11. \A k \in DOMAIN t : t[k] \in (32 .. 126) \cup {9, 10}
    BY <2>5
  <2> QED
    BY <1>1, <2>0, <2>9, <2>10, <2>11, Zenon DEF SanitizedIsUnambiguous
<1>2. ASSUME NEW s \in Names, ShowAsItIs(s)
      PROVE  SanitizedIsUnambiguous'
  <2>1. s \in Seq(NameChar) /\ s # NullPointer
    BY NamesAreGiven
  <2>2. name' = s /\ shown' = s /\ no_questionable_chars(s)
    BY <1>2 DEF ShowAsItIs
  <2>3. /\ \A k \in DOMAIN s : s[k] \in (32 .. 126) \cup {9, 10}
        /\ Decoded(s) = s
    BY <2>1, <2>2, SpelledAsItIs
  <2>4. IsPrefix(s, s) /\ ~ (Len(s) < Len(s))
    BY <2>1 DEF IsPrefix
  <2> QED
    BY <2>1, <2>2, <2>3, <2>4, Zenon DEF SanitizedIsUnambiguous
<1>3. \A s \in Names : s \in Seq(NameChar) /\ s # NullPointer
  BY NamesAreGiven
<1>4. NoName \in Seq(NameChar)
  <2>1. 60 \in NameChar /\ 62 \in NameChar
    BY DEF NameChar
  <2> QED
    BY <2>1 DEF NoName
<1> QED
  BY <1>1, <1>2, <1>3, <1>4 DEF sanitized

(* What sanitized answers reads back as the name it was given, or as much  *)
(* of it as there is room for, and upsets no terminal.                     *)
THEOREM NamesAreUnambiguous == PrintingSpec => []SanitizedIsUnambiguous
<1>1. PrintingInit => SanitizedIsUnambiguous
  <2> SUFFICES ASSUME PrintingInit PROVE SanitizedIsUnambiguous
    OBVIOUS
  <2> DEFINE none == << >>
  <2>1. name = none /\ shown = none
    BY DEF PrintingInit, SanitizerInit
  <2>2. none \in Seq(NameChar) /\ no_questionable_chars(none) /\ none # NullPointer
    BY DEF no_questionable_chars, NullPointer
  <2>3. IsPrefix(none, none) /\ ~ (Len(none) < Len(none))
    BY DEF IsPrefix
  <2> HIDE DEF none
  <2>4. /\ \A k \in DOMAIN none : none[k] \in (32 .. 126) \cup {9, 10}
        /\ Decoded(none) = none
    BY <2>2, SpelledAsItIs
  <2> QED
    BY <2>1, <2>2, <2>3, <2>4, Zenon DEF SanitizedIsUnambiguous
<1>2. SanitizerInv /\ SanitizedIsUnambiguous /\ [PrintingNext]_printingVars =>
          SanitizedIsUnambiguous'
  <2>1. UNCHANGED sanitizerVars /\ SanitizedIsUnambiguous => SanitizedIsUnambiguous'
    BY DEF sanitizerVars, SanitizedIsUnambiguous
  <2> QED
    BY <2>1, SanitizedUnambiguous DEF PrintingNext, printingVars
<1> QED
  BY <1>1, <1>2, SanitizerInvariant, PTL DEF PrintingSpec
-----------------------------------------------------------------------------
(* What formats are made of: digits, padding, pieces appended one after    *)
(* the other.                                                              *)

(* Whatever holds of 0, and of k whenever it holds of k - 1.               *)
LEMMA EveryLength ==
    ASSUME NEW n \in Nat, NEW Good, 0 \in Good,
           \A k \in 1 .. n : k - 1 \in Good => k \in Good
    PROVE  n \in Good
<1>1. SUFFICES ASSUME n \notin Good PROVE FALSE
  OBVIOUS
<1> DEFINE Bad == {k \in 0 .. n : k \notin Good}
<1>2. PICK m \in Bad : \A k \in Bad : m <= k
  <2>1. Bad \in SUBSET Nat /\ n \in Bad
    BY <1>1
  <2>2. Bad # {}
    BY <2>1
  <2> HIDE DEF Bad
  <2> QED
    BY <2>1, <2>2, Smallest
<1>3. m # 0 /\ m - 1 \in 0 .. n /\ m \in 1 .. n
  BY <1>2
<1>4. m - 1 \in Good
  BY <1>2, <1>3
<1> QED
  BY <1>2, <1>3, <1>4

(* A function of the numbers up to n that is b at 0 and goes on from one   *)
(* to the next as step says.                                               *)
Goes(f, S, n, b, step) ==
    /\ f \in [0 .. n -> S] /\ f[0] = b
    /\ \A k \in 1 .. n : f[k] = step[<<k, f[k - 1]>>]

(* There is one, however it goes on.                                       *)
LEMMA StepsExist ==
    ASSUME NEW S, NEW n \in Nat, NEW b \in S, NEW step \in [(1 .. n) \X S -> S]
    PROVE  \E f : Goes(f, S, n, b, step)
<1> DEFINE Up(m) == \E f : /\ f \in [0 .. m -> S] /\ f[0] = b
                           /\ \A k \in 1 .. m : f[k] = step[<<k, f[k - 1]>>]
           Good == {m \in 0 .. n : Up(m)}
<1>1. 0 \in Good
  <2> DEFINE f == [k \in 0 .. 0 |-> b]
  <2>1. f \in [0 .. 0 -> S] /\ f[0] = b /\ \A k \in 1 .. 0 : f[k] = step[<<k, f[k - 1]>>]
    OBVIOUS
  <2> HIDE DEF f
  <2> QED
    BY <2>1
<1>2. ASSUME NEW m \in 1 .. n, m - 1 \in Good
      PROVE  m \in Good
  <2>1. PICK g : /\ g \in [0 .. m - 1 -> S] /\ g[0] = b
                 /\ \A k \in 1 .. m - 1 : g[k] = step[<<k, g[k - 1]>>]
    BY <1>2
  <2> DEFINE x == step[<<m, g[m - 1]>>]
             f == [k \in 0 .. m |-> IF k = m THEN x ELSE g[k]]
  <2>2. m \in Nat \ {0} /\ m - 1 \in 0 .. m - 1 /\ x \in S
    BY <2>1
  <2> HIDE DEF x
  <2>3. f \in [0 .. m -> S] /\ f[m] = x /\ \A k \in 0 .. m - 1 : f[k] = g[k]
    BY <2>1, <2>2
  <2> HIDE DEF f
  <2>4. f[0] = b
    BY <2>1, <2>2, <2>3
  <2>5. ASSUME NEW k \in 1 .. m PROVE f[k] = step[<<k, f[k - 1]>>]
    <3>1. CASE k = m
      <4>1. f[m - 1] = g[m - 1]
        BY <2>2, <2>3
      <4> QED
        BY <2>3, <3>1, <4>1 DEF x
    <3>2. CASE k # m
      <4>1. k \in 1 .. m - 1 /\ k \in 0 .. m - 1 /\ k - 1 \in 0 .. m - 1
        BY <2>2, <3>2
      <4> QED
        BY <2>1, <2>3, <4>1
    <3> QED
      BY <3>1, <3>2
  <2>6. Up(m)
    BY <2>3, <2>4, <2>5
  <2> QED
    BY <2>6
<1>3. n \in Good
  <2> HIDE DEF Good
  <2> QED
    BY <1>1, <1>2, EveryLength
<1> QED
  BY <1>3 DEF Goes

(* A prefix longer by one, and the whole.                                  *)
LEMMA LongerPrefix ==
    ASSUME NEW S, NEW s \in Seq(S), NEW k \in 1 .. Len(s)
    PROVE  /\ SubSeq(s, 1, k - 1) \in Seq(S) /\ s[k] \in S
           /\ SubSeq(s, 1, k) = Append(SubSeq(s, 1, k - 1), s[k])
OBVIOUS

(* No prefix, and the whole.                                               *)
LEMMA WholePrefix ==
    ASSUME NEW S, NEW s \in Seq(S)
    PROVE  SubSeq(s, 1, 0) = << >> /\ SubSeq(s, 1, Len(s)) = s
OBVIOUS

(* Lines after one another.                                                *)
Line == Seq(Int)
Lines == Seq(Line)

(* Two lines make one.                                                     *)
LEMMA ConcatIsText ==
    ASSUME NEW u \in Line, NEW v \in Line
    PROVE  /\ u \o v \in Line /\ Len(u \o v) = Len(u) + Len(v)
           /\ \A k \in 1 .. Len(u) + Len(v) :
                 (u \o v)[k] = IF k <= Len(u) THEN u[k] ELSE v[k - Len(u)]
           /\ u \o << >> = u /\ << >> \o u = u
BY DEF Line

(* The order in which lines are put together does not matter.              *)
LEMMA ConcatAssociates ==
    ASSUME NEW u \in Line, NEW v \in Line, NEW w \in Line
    PROVE  (u \o v) \o w = u \o (v \o w)
BY DEF Line

(* FlattenSeq goes over the texts.                                         *)
LEMMA FlattenGoes ==
    ASSUME NEW s \in Lines, s # << >>
    PROVE  \E f \in [1 .. Len(s) -> Line] :
               /\ FlattenSeq(s) = f[Len(s)]
               /\ \A i \in 1 .. Len(s) : f[i] = IF i = 1 THEN s[i] ELSE f[i - 1] \o s[i]
<1> DEFINE n == Len(s)
           step == [p \in (1 .. n) \X Line |-> p[2] \o s[p[1]]]
<1>0. n \in Nat \ {0} /\ \A k \in 1 .. n : s[k] \in Line
  BY DEF Lines
<1>1. step \in [(1 .. n) \X Line -> Line]
  BY <1>0, ConcatIsText
<1>2. << >> \in Line
  BY DEF Line
<1>3. PICK g : Goes(g, Line, n, << >>, step)
  <2> HIDE DEF step, n
  <2> QED
    BY <1>0, <1>1, <1>2, StepsExist
<1>4. /\ g \in [0 .. n -> Line] /\ g[0] = << >>
      /\ \A k \in 1 .. n : g[k] = g[k - 1] \o s[k]
  <2>1. \A k \in 1 .. n : <<k, g[k - 1]>> \in (1 .. n) \X Line
    BY <1>0, <1>3 DEF Goes
  <2> QED
    BY <1>3, <2>1 DEF Goes
<1> DEFINE f == [i \in 1 .. n |-> g[i]]
           want(h) == h = [i \in 1 .. n |-> IF i = 1 THEN s[i] ELSE h[i - 1] \o s[i]]
<1>5. f \in [1 .. n -> Line]
  BY <1>0, <1>4
<1>6. \A i \in 1 .. n : f[i] = IF i = 1 THEN s[i] ELSE f[i - 1] \o s[i]
  <2>1. 1 \in 1 .. n /\ f[1] = s[1]
    <3>1. g[1] = << >> \o s[1]
      BY <1>0, <1>4
    <3> QED
      BY <1>0, <3>1, ConcatIsText
  <2>2. ASSUME NEW i \in 1 .. n, i # 1 PROVE f[i] = f[i - 1] \o s[i]
    <3>1. i - 1 \in 1 .. n
      BY <1>0, <2>2
    <3> QED
      BY <1>4, <3>1
  <2> QED
    BY <2>1, <2>2
<1> HIDE DEF f
<1>7. want(f)
  BY <1>5, <1>6
<1> DEFINE h == CHOOSE x : want(x)
<1>8. want(h)
  BY <1>7
<1>9. FlattenSeq(s) = h[n]
  BY <1>0 DEF FlattenSeq
<1> HIDE DEF h
<1>10. \A i \in 1 .. n : h[i] = IF i = 1 THEN s[i] ELSE h[i - 1] \o s[i]
  BY <1>8
<1>11. h \in [1 .. n -> Line]
  <2> DEFINE Good == {k \in 0 .. n : \A i \in 1 .. k : h[i] \in Line}
  <2>1. 0 \in Good
    BY <1>0
  <2>2. ASSUME NEW k \in 1 .. n, k - 1 \in Good PROVE k \in Good
    <3>1. k = 1 => h[k] \in Line
      BY <1>0, <1>10
    <3>2. k # 1 => h[k] \in Line
      <4>1. k # 1 => k - 1 \in 1 .. k - 1 /\ s[k] \in Line
        BY <1>0
      <4>2. k # 1 => h[k - 1] \in Line
        BY <2>2, <4>1
      <4> QED
        BY <1>10, <4>1, <4>2, ConcatIsText
    <3>3. \A i \in 1 .. k : i = k \/ i \in 1 .. k - 1
      BY <1>0
    <3> QED
      BY <1>0, <2>2, <3>1, <3>2, <3>3
  <2>3. n \in Good
    <3> HIDE DEF Good
    <3> QED
      BY <1>0, <2>1, <2>2, EveryLength
  <2>4. DOMAIN h = 1 .. n /\ h = [i \in 1 .. n |-> h[i]]
    BY <1>8
  <2> QED
    BY <2>3, <2>4
<1> QED
  BY <1>9, <1>10, <1>11

(* What is put together of lines is a line.                                *)
LEMMA FlattenIsText ==
    ASSUME NEW s \in Lines
    PROVE  FlattenSeq(s) \in Line /\ FlattenSeq(<< >>) = << >>
<1>1. FlattenSeq(<< >>) = << >> /\ << >> \in Line
  BY DEF FlattenSeq, Line
<1>2. CASE s = << >>
  BY <1>1, <1>2
<1>3. CASE s # << >>
  <2>1. Len(s) \in 1 .. Len(s)
    BY <1>3 DEF Lines
  <2> QED
    BY <1>1, <1>3, <2>1, FlattenGoes
<1> QED
  BY <1>2, <1>3

(* A line more at the end comes last.                                      *)
LEMMA FlattenOfAppend ==
    ASSUME NEW s \in Lines, NEW x \in Line
    PROVE  /\ Append(s, x) \in Lines
           /\ FlattenSeq(Append(s, x)) = FlattenSeq(s) \o x
<1> DEFINE t == Append(s, x)
           n == Len(s)
<1>1. /\ n \in Nat /\ t \in Lines /\ t # << >> /\ Len(t) = n + 1
      /\ t[n + 1] = x /\ \A k \in 1 .. n : s[k] \in Line /\ t[k] = s[k]
  BY DEF Lines
<1> HIDE DEF t
<1>2. PICK g \in [1 .. n + 1 -> Line] :
          /\ FlattenSeq(t) = g[n + 1]
          /\ \A i \in 1 .. n + 1 : g[i] = IF i = 1 THEN t[i] ELSE g[i - 1] \o t[i]
  BY <1>1, FlattenGoes
<1>3. CASE s = << >>
  <2>1. n = 0 /\ FlattenSeq(s) = << >>
    BY <1>3, FlattenIsText
  <2>2. FlattenSeq(t) = x
    BY <1>1, <1>2, <2>1
  <2>3. << >> \o x = x
    BY DEF Line
  <2> QED
    BY <1>1, <2>1, <2>2, <2>3 DEF t
<1>4. CASE s # << >>
  <2>1. PICK f \in [1 .. n -> Line] :
            /\ FlattenSeq(s) = f[n]
            /\ \A i \in 1 .. n : f[i] = IF i = 1 THEN s[i] ELSE f[i - 1] \o s[i]
    BY <1>4, FlattenGoes
  <2>2. n # 0
    BY <1>1, <1>4 DEF Lines
  <2> HIDE DEF n
  <2> DEFINE Good == {k \in 0 .. n : k # 0 => f[k] = g[k]}
  <2>3. 0 \in Good
    BY <1>1
  <2>4. ASSUME NEW k \in 1 .. n, k - 1 \in Good PROVE k \in Good
    <3>1. k \in 1 .. n + 1 /\ t[k] = s[k] /\ k \in 0 .. n
      BY <1>1
    <3>2. CASE k = 1
      BY <1>2, <2>1, <3>1, <3>2
    <3>3. CASE k # 1
      <4>1. f[k - 1] = g[k - 1]
        BY <1>1, <2>4, <3>3
      <4>2. f[k] = f[k - 1] \o s[k] /\ g[k] = g[k - 1] \o t[k]
        BY <1>2, <2>1, <3>1, <3>3
      <4>3. f[k] = g[k]
        BY <3>1, <4>1, <4>2, Zenon
      <4> QED
        BY <3>1, <4>3
    <3> QED
      BY <3>2, <3>3
  <2>5. n \in Good
    <3> HIDE DEF Good
    <3> QED
      BY <1>1, <2>3, <2>4, EveryLength
  <2>6. FlattenSeq(s) = g[n]
    BY <2>1, <2>2, <2>5
  <2>7. g[n + 1] = g[n] \o x
    <3>1. n + 1 \in 1 .. n + 1 /\ n + 1 # 1 /\ (n + 1) - 1 = n
      BY <1>1, <2>2
    <3> QED
      BY <1>1, <1>2, <3>1
  <2> QED
    BY <1>1, <1>2, <2>6, <2>7 DEF t
<1> QED
  BY <1>3, <1>4

(* Two sequences of lines, put together.                                   *)
LEMMA FlattenOfConcat ==
    ASSUME NEW s \in Lines, NEW t \in Lines
    PROVE  s \o t \in Lines /\ FlattenSeq(s \o t) = FlattenSeq(s) \o FlattenSeq(t)
<1> DEFINE Good == {n \in 0 .. Len(t) :
                       FlattenSeq(s \o SubSeq(t, 1, n)) =
                           FlattenSeq(s) \o FlattenSeq(SubSeq(t, 1, n))}
<1>1. Len(t) \in Nat /\ s \o t \in Lines
  BY DEF Lines
<1>2. \A w \in Lines : FlattenSeq(w) \in Line
  BY FlattenIsText
<1>3. 0 \in Good
  <2>1. s \o << >> = s /\ SubSeq(t, 1, 0) = << >>
    BY DEF Lines
  <2>2. FlattenSeq(s) \o << >> = FlattenSeq(s)
    BY <1>2, ConcatIsText DEF Line
  <2>3. FlattenSeq(<< >>) = << >> /\ 0 \in 0 .. Len(t)
    BY <1>1, FlattenIsText
  <2> QED
    BY <2>1, <2>2, <2>3, Zenon
<1>4. ASSUME NEW k \in 1 .. Len(t), k - 1 \in Good
      PROVE  k \in Good
  <2> DEFINE p == SubSeq(t, 1, k - 1)
             x == t[k]
  <2>1. p \in Lines /\ x \in Line /\ SubSeq(t, 1, k) = Append(p, x)
    BY LongerPrefix DEF Lines
  <2>2. FlattenSeq(s \o p) = FlattenSeq(s) \o FlattenSeq(p)
    BY <1>4
  <2> HIDE DEF p, x
  <2>3. s \o Append(p, x) = Append(s \o p, x) /\ s \o p \in Lines
    BY <2>1 DEF Lines
  <2>4. \A u \in Lines, y \in Line : FlattenSeq(Append(u, y)) = FlattenSeq(u) \o y
    BY FlattenOfAppend
  <2>5. FlattenSeq(s \o SubSeq(t, 1, k)) = FlattenSeq(s \o p) \o x
    BY <2>1, <2>3, <2>4, Zenon
  <2>6. FlattenSeq(SubSeq(t, 1, k)) = FlattenSeq(p) \o x
    BY <2>1, <2>4, Zenon
  <2>7. \A u, v, w \in Line : (u \o v) \o w = u \o (v \o w)
    BY ConcatAssociates
  <2>8. (FlattenSeq(s) \o FlattenSeq(p)) \o x = FlattenSeq(s) \o (FlattenSeq(p) \o x)
    BY <1>2, <2>1, <2>7, Zenon
  <2>9. k \in 0 .. Len(t)
    BY <1>1
  <2> QED
    BY <2>2, <2>5, <2>6, <2>8, <2>9, Zenon
<1>5. Len(t) \in Good
  <2> HIDE DEF Good
  <2> QED
    BY <1>1, <1>3, <1>4, EveryLength
<1>6. SubSeq(t, 1, Len(t)) = t
  BY WholePrefix DEF Lines
<1> QED
  BY <1>1, <1>5, <1>6

(* Pieces, all of which are kept when memory lasts.                        *)
APiece == [chars : Line, chained : BOOLEAN]
Pieces == Seq(APiece)
CharsOf(pieces) == [k \in 1 .. Len(pieces) |-> pieces[k].chars]
TextOfPieces(pieces) == FlattenSeq(CharsOf(pieces))

(* While memory lasts, all of the pieces are appended.                     *)
LEMMA AppendedText ==
    ASSUME NEW pieces \in Pieces
    PROVE  /\ TextOfPieces(pieces) \in Line
           /\ \A refused : AppendAll(pieces, refused) \in Line
           /\ AppendAll(pieces, {}) = TextOfPieces(pieces)
<1>1. /\ Len(pieces) \in Nat
      /\ \A k \in 1 .. Len(pieces) : pieces[k].chars \in Line
      /\ << >> \in Line
  <2>1. << >> \in Line
    BY DEF Line
  <2>2. Len(pieces) \in Nat /\ \A k \in 1 .. Len(pieces) : pieces[k] \in APiece
    BY DEF Pieces
  <2> QED
    BY <2>1, <2>2 DEF APiece
<1>2. CharsOf(pieces) \in Lines
  BY <1>1 DEF CharsOf, Lines
<1>3. ASSUME NEW refused
      PROVE  AppendAll(pieces, refused) \in Line
  <2> DEFINE s == [k \in 1 .. Len(pieces) |->
                      IF k \in Kept(pieces, refused) THEN pieces[k].chars ELSE <<>>]
  <2>1. s \in Lines
    BY <1>1 DEF Lines
  <2> HIDE DEF s
  <2>2. FlattenSeq(s) \in Line
    BY <2>1, FlattenIsText
  <2> QED
    BY <2>2 DEF s, AppendAll
<1>4. Kept(pieces, {}) = 1 .. Len(pieces)
  BY DEF Kept
<1>5. AppendAll(pieces, {}) = TextOfPieces(pieces)
  BY <1>4 DEF AppendAll, TextOfPieces, CharsOf
<1> QED
  BY <1>2, <1>3, <1>5, FlattenIsText DEF TextOfPieces

(* The text of pieces followed by pieces.                                  *)
LEMMA TextOfConcat ==
    ASSUME NEW p \in Pieces, NEW q \in Pieces
    PROVE  p \o q \in Pieces /\ TextOfPieces(p \o q) = TextOfPieces(p) \o TextOfPieces(q)
<1>1. p \o q \in Pieces
  BY DEF Pieces
<1>2. /\ Len(p) \in Nat /\ Len(q) \in Nat /\ Len(p \o q) = Len(p) + Len(q)
      /\ \A k \in 1 .. Len(p) : p[k].chars \in Line
      /\ \A k \in 1 .. Len(q) : q[k].chars \in Line
      /\ \A k \in 1 .. Len(p) + Len(q) :
            (p \o q)[k] = IF k <= Len(p) THEN p[k] ELSE q[k - Len(p)]
  <2>1. /\ Len(p) \in Nat /\ Len(q) \in Nat /\ Len(p \o q) = Len(p) + Len(q)
        /\ \A k \in 1 .. Len(p) : p[k] \in APiece
        /\ \A k \in 1 .. Len(q) : q[k] \in APiece
        /\ \A k \in 1 .. Len(p) + Len(q) :
              (p \o q)[k] = IF k <= Len(p) THEN p[k] ELSE q[k - Len(p)]
    BY DEF Pieces
  <2> QED
    BY <2>1 DEF APiece
<1>3. CharsOf(p) \in Lines /\ CharsOf(q) \in Lines
  BY <1>2 DEF CharsOf, Lines
<1>4. CharsOf(p \o q) = CharsOf(p) \o CharsOf(q)
  <2> DEFINE u == CharsOf(p)
             v == CharsOf(q)
             w == CharsOf(p \o q)
  <2>1. /\ Len(u) = Len(p) /\ Len(v) = Len(q)
        /\ \A k \in 1 .. Len(p) : u[k] = p[k].chars
        /\ \A k \in 1 .. Len(q) : v[k] = q[k].chars
    BY <1>2 DEF CharsOf
  <2>2. w = [k \in 1 .. Len(p) + Len(q) |-> (p \o q)[k].chars]
    BY <1>2 DEF CharsOf
  <2> HIDE DEF u, v, w
  <2>3. u \o v = [k \in 1 .. Len(p) + Len(q) |->
                     IF k <= Len(p) THEN u[k] ELSE v[k - Len(p)]]
    <3>1. u \in Lines /\ v \in Lines
      BY <1>3 DEF u, v
    <3>2. /\ u \o v \in Lines /\ Len(u \o v) = Len(u) + Len(v)
          /\ \A k \in 1 .. Len(u) + Len(v) :
                (u \o v)[k] = IF k <= Len(u) THEN u[k] ELSE v[k - Len(u)]
      BY <3>1 DEF Lines
    <3>3. \A x \in Lines : x = [k \in 1 .. Len(x) |-> x[k]]
      BY DEF Lines
    <3> DEFINE x == u \o v
    <3>4. x = [k \in 1 .. Len(x) |-> x[k]]
      BY <3>2, <3>3
    <3>5. Len(x) = Len(p) + Len(q)
          /\ \A k \in 1 .. Len(p) + Len(q) :
                x[k] = IF k <= Len(p) THEN u[k] ELSE v[k - Len(p)]
      BY <2>1, <3>2
    <3> HIDE DEF x
    <3>6. x = [k \in 1 .. Len(p) + Len(q) |->
                  IF k <= Len(p) THEN u[k] ELSE v[k - Len(p)]]
      BY <3>4, <3>5
    <3> QED
      BY <3>6 DEF x
  <2>4. ASSUME NEW k \in 1 .. Len(p) + Len(q)
        PROVE  (p \o q)[k].chars = IF k <= Len(p) THEN u[k] ELSE v[k - Len(p)]
    <3>1. k <= Len(p) => k \in 1 .. Len(p)
      BY <1>2
    <3>2. ~ (k <= Len(p)) => k - Len(p) \in 1 .. Len(q)
      BY <1>2
    <3> QED
      BY <1>2, <2>1, <3>1, <3>2
  <2> QED
    BY <2>2, <2>3, <2>4 DEF u, v, w
<1> QED
  BY <1>1, <1>3, <1>4, FlattenOfConcat DEF TextOfPieces

(* The text of one piece is its characters, chained or not.                *)
LEMMA TextOfOnePiece ==
    ASSUME NEW s \in Line
    PROVE  /\ Piece(s) \in Pieces /\ TextOfPieces(Piece(s)) = s
           /\ Chained(s) \in Pieces /\ TextOfPieces(Chained(s)) = s
           /\ << >> \in Pieces /\ TextOfPieces(<< >>) = << >>
<1>1. \A c \in BOOLEAN : <<[chars |-> s, chained |-> c]>> \in Pieces
  BY DEF Pieces, APiece
<1>2. \A c \in BOOLEAN : CharsOf(<<[chars |-> s, chained |-> c]>>) = Append(<< >>, s)
  BY DEF CharsOf
<1>3. FlattenSeq(Append(<< >>, s)) = s
  <2>1. << >> \in Lines
    BY DEF Lines
  <2>2. FlattenSeq(Append(<< >>, s)) = FlattenSeq(<< >>) \o s
    BY <2>1, FlattenOfAppend
  <2>3. FlattenSeq(<< >>) = << >> /\ << >> \o s = s
    BY <2>1, FlattenIsText DEF Line
  <2> QED
    BY <2>2, <2>3
<1>4. << >> \in Pieces /\ CharsOf(<< >>) = << >> /\ FlattenSeq(<< >>) = << >>
  BY DEF Pieces, CharsOf, FlattenSeq
<1> QED
  BY <1>1, <1>2, <1>3, <1>4 DEF TextOfPieces, Piece, Chained

(* The text of pieces followed by one piece.                               *)
LEMMA TextOfAppend ==
    ASSUME NEW p \in Pieces, NEW x \in APiece
    PROVE  /\ Append(p, x) \in Pieces
           /\ TextOfPieces(Append(p, x)) = TextOfPieces(p) \o x.chars
<1>1. x.chars \in Line /\ Len(p) \in Nat /\ \A k \in 1 .. Len(p) : p[k].chars \in Line
  <2>1. Len(p) \in Nat /\ \A k \in 1 .. Len(p) : p[k] \in APiece
    BY DEF Pieces
  <2> QED
    BY <2>1 DEF APiece
<1>2. CharsOf(p) \in Lines
  BY <1>1 DEF CharsOf, Lines
<1>3. CharsOf(Append(p, x)) = Append(CharsOf(p), x.chars)
  <2> DEFINE n == Len(p)
             q == Append(p, x)
             u == CharsOf(p)
             c == x.chars
  <2>1. Len(q) = n + 1 /\ q[n + 1] = x /\ \A k \in 1 .. n : q[k] = p[k]
    BY DEF Pieces
  <2>2. Len(u) = n /\ \A k \in 1 .. n : u[k] = p[k].chars
    BY <1>1 DEF CharsOf
  <2>3. Append(u, c) = [k \in 1 .. n + 1 |-> IF k = n + 1 THEN c ELSE u[k]]
    <3> HIDE DEF n, u, c
    <3>1. u \in Lines /\ c \in Line /\ Len(u) = n /\ n \in Nat
      BY <1>1, <1>2, <2>2 DEF u, c, n
    <3> DEFINE t == Append(u, c)
    <3>2. /\ t \in Lines /\ Len(t) = n + 1 /\ t[n + 1] = c
          /\ \A k \in 1 .. n : t[k] = u[k]
      BY <3>1 DEF Lines
    <3>3. \A z \in Lines : z = [k \in 1 .. Len(z) |-> z[k]]
      BY DEF Lines
    <3> HIDE DEF t
    <3>4. t = [k \in 1 .. n + 1 |-> t[k]]
      BY <3>2, <3>3
    <3>5. ASSUME NEW k \in 1 .. n + 1
          PROVE  t[k] = IF k = n + 1 THEN c ELSE u[k]
      <4>1. k # n + 1 => k \in 1 .. n
        BY <3>1
      <4> QED
        BY <3>2, <4>1
    <3>6. t = [k \in 1 .. n + 1 |-> IF k = n + 1 THEN c ELSE u[k]]
      BY <3>4, <3>5
    <3> QED
      BY <3>6 DEF t
  <2>4. CharsOf(q) = [k \in 1 .. n + 1 |-> q[k].chars]
    BY <2>1 DEF CharsOf
  <2> HIDE DEF q, u, c
  <2>5. ASSUME NEW k \in 1 .. n + 1
        PROVE  q[k].chars = IF k = n + 1 THEN c ELSE u[k]
    <3>1. k # n + 1 => k \in 1 .. n
      BY <1>1
    <3> QED
      BY <2>1, <2>2, <3>1 DEF c
  <2> QED
    BY <2>3, <2>4, <2>5 DEF q, u, c
<1>4. Append(p, x) \in Pieces
  BY DEF Pieces
<1> QED
  BY <1>1, <1>2, <1>3, <1>4, FlattenOfAppend DEF TextOfPieces

(* Blanks and zeros, one at a time or in chunks.                           *)
LEMMA FillSpec ==
    ASSUME NEW m \in Nat, NEW n \in Nat, NEW ch \in Int
    PROVE  /\ Fill(n, ch) \in Line /\ Len(Fill(n, ch)) = n
           /\ \A k \in 1 .. n : Fill(n, ch)[k] = ch
           /\ Fill(0, ch) = << >>
           /\ Fill(m, ch) \o Fill(n, ch) = Fill(m + n, ch)
<1>1. /\ Fill(n, ch) \in Line /\ Len(Fill(n, ch)) = n
      /\ \A k \in 1 .. n : Fill(n, ch)[k] = ch
  BY DEF Fill, Line
<1>2. Fill(0, ch) = << >>
  BY DEF Fill
<1>3. Fill(m, ch) \o Fill(n, ch) = Fill(m + n, ch)
  BY DEF Fill
<1> QED
  BY <1>1, <1>2, <1>3

(* Whole chunks make a fill as long as all of them.                        *)
LEMMA EvenFill ==
    ASSUME NEW p \in Pieces, NEW n \in 0 .. Len(p), NEW m \in Nat, NEW ch \in Int,
           \A k \in 1 .. n : p[k].chars = Fill(m, ch)
    PROVE  TextOfPieces(SubSeq(p, 1, n)) = Fill(n * m, ch)
<1> DEFINE Good == {k \in 0 .. n : TextOfPieces(SubSeq(p, 1, k)) = Fill(k * m, ch)}
<1>0. n \in Nat /\ Len(p) \in Nat
  BY DEF Pieces
<1>1. 0 \in Good
  <2>1. SubSeq(p, 1, 0) = << >> /\ TextOfPieces(<< >>) = << >>
    <3>1. << >> \in Line
      BY DEF Line
    <3> QED
      BY <3>1, WholePrefix, TextOfOnePiece DEF Pieces
  <2>2. 0 * m = 0 /\ Fill(0, ch) = << >> /\ 0 \in 0 .. n
    BY <1>0, FillSpec
  <2> QED
    BY <2>1, <2>2
<1>2. ASSUME NEW k \in 1 .. n, k - 1 \in Good PROVE k \in Good
  <2> DEFINE q == SubSeq(p, 1, k - 1)
  <2>1. q \in Pieces /\ p[k] \in APiece /\ SubSeq(p, 1, k) = Append(q, p[k])
    <3>1. k \in 1 .. Len(p)
      BY <1>0
    <3> QED
      BY <3>1, LongerPrefix DEF Pieces
  <2>2. TextOfPieces(q) = Fill((k - 1) * m, ch) /\ k \in 0 .. n
    BY <1>0, <1>2
  <2> HIDE DEF q
  <2>3. TextOfPieces(SubSeq(p, 1, k)) = Fill((k - 1) * m, ch) \o Fill(m, ch)
    BY <2>1, <2>2, TextOfAppend
  <2>4. (k - 1) * m \in Nat /\ (k - 1) * m + m = k * m
    BY <1>0, SMT
  <2> HIDE DEF Good
  <2>5. Fill((k - 1) * m, ch) \o Fill(m, ch) = Fill((k - 1) * m + m, ch)
    BY <2>4, FillSpec
  <2> QED
    BY <2>2, <2>3, <2>4, <2>5 DEF Good
<1>3. n \in Good
  <2> HIDE DEF Good
  <2> QED
    BY <1>0, <1>1, <1>2, EveryLength
<1> QED
  BY <1>3

(* As many pieces of one character as there are to be.                     *)
LEMMA BlanksAreFill ==
    ASSUME NEW n \in Nat
    PROVE  LET p == [k \in 1 .. n |-> Piece(<<Space>>)[1]]
           IN  p \in Pieces /\ TextOfPieces(p) = Fill(n, Space)
<1> DEFINE blank == Piece(<<Space>>)[1]
           p == [k \in 1 .. n |-> blank]
<1>1. blank \in APiece /\ blank.chars = Fill(1, Space)
  BY DEF Piece, Fill, Space, APiece, Line
<1> HIDE DEF blank
<1>2. p \in Pieces /\ Len(p) = n /\ \A k \in 1 .. n : p[k] = blank
  BY <1>1 DEF Pieces
<1> HIDE DEF p
<1>3. TextOfPieces(SubSeq(p, 1, n)) = Fill(n * 1, Space)
  <2>1. n \in 0 .. Len(p) /\ \A k \in 1 .. n : p[k].chars = Fill(1, Space)
    BY <1>1, <1>2
  <2> QED
    BY <1>2, <2>1, EvenFill DEF Space
<1>4. SubSeq(p, 1, n) = p /\ n * 1 = n
  BY <1>2, WholePrefix DEF Pieces
<1> QED
  BY <1>2, <1>3, <1>4 DEF p, blank

(* The chunks make up the whole.                                           *)
LEMMA PadIsFill ==
    ASSUME NEW n \in Nat, NEW ch \in Int
    PROVE  Pad(n, ch) \in Pieces /\ TextOfPieces(Pad(n, ch)) = Fill(n, ch)
<1> DEFINE chunks == IF n = 0 THEN 1 ELSE (n + Chunk - 1) \div Chunk
           rest == n - Chunk * (chunks - 1)
           p == Pad(n, ch)
<1>0. Chunk \in Nat \ {0}
  BY ChunkAssumption
<1>1. chunks \in Nat \ {0} /\ rest \in Nat /\ (chunks - 1) * Chunk + rest = n
  <2>1. CASE n = 0
    BY <1>0, <2>1
  <2>2. CASE n # 0
    <3> DEFINE a == n + Chunk - 1
               q == a \div Chunk
    <3>1. a \in Nat /\ a >= Chunk
      BY <1>0, <2>2
    <3> HIDE DEF a
    <3>2. q \in Int /\ Chunk * q <= a /\ a < Chunk * q + Chunk
      BY <1>0, <3>1, SMT
    <3> HIDE DEF q
    <3>3. q >= 1
      BY <1>0, <3>1, <3>2, SMT
    <3>4. Chunk * (q - 1) = Chunk * q - Chunk /\ (q - 1) * Chunk = Chunk * q - Chunk
      BY <1>0, <3>2, SMT
    <3>5. chunks = q
      BY <2>2 DEF q, a
    <3> QED
      BY <1>0, <3>2, <3>3, <3>4, <3>5 DEF a
  <2> QED
    BY <2>1, <2>2
<1>2. p = [k \in 1 .. chunks |->
             [chars |-> Fill(IF k < chunks THEN Chunk ELSE rest, ch), chained |-> k > 1]]
  BY DEF Pad
<1> HIDE DEF chunks, rest, p
<1>3. \A m \in Nat : Fill(m, ch) \in Line
  BY FillSpec
<1> DEFINE piece(k) == [chars |-> Fill(IF k < chunks THEN Chunk ELSE rest, ch),
                        chained |-> k > 1]
<1>3a. ASSUME NEW k \in 1 .. chunks
       PROVE  /\ piece(k) \in APiece
              /\ piece(k).chars = Fill(IF k < chunks THEN Chunk ELSE rest, ch)
  <2>1. (IF k < chunks THEN Chunk ELSE rest) \in Nat /\ (k > 1) \in BOOLEAN
    BY <1>0, <1>1
  <2> QED
    BY <1>3, <2>1 DEF APiece
<1>3b. p = [k \in 1 .. chunks |-> piece(k)]
  BY <1>2
<1> HIDE DEF piece
<1>3c. p \in Pieces /\ Len(p) = chunks /\ \A k \in 1 .. chunks : p[k] = piece(k)
  BY <1>1, <1>3a, <1>3b DEF Pieces
<1>4. /\ p \in Pieces /\ Len(p) = chunks
      /\ \A k \in 1 .. chunks : p[k].chars = Fill(IF k < chunks THEN Chunk ELSE rest, ch)
  <2>1. \A k \in 1 .. chunks : p[k].chars = Fill(IF k < chunks THEN Chunk ELSE rest, ch)
    BY <1>3a, <1>3c
  <2> QED
    BY <1>3c, <2>1
<1> DEFINE q == SubSeq(p, 1, chunks - 1)
<1>5. TextOfPieces(q) = Fill((chunks - 1) * Chunk, ch)
  <2>1. /\ chunks - 1 \in 0 .. Len(p)
        /\ \A k \in 1 .. chunks - 1 : p[k].chars = Fill(Chunk, ch)
    BY <1>1, <1>4
  <2> QED
    BY <1>0, <1>4, <2>1, EvenFill
<1>6. q \in Pieces /\ p[chunks] \in APiece /\ p = Append(q, p[chunks])
  <2>1. chunks \in 1 .. Len(p)
    BY <1>1, <1>4
  <2>2. SubSeq(p, 1, chunks) = p
    BY <1>4, WholePrefix DEF Pieces
  <2> QED
    BY <1>4, <2>1, <2>2, LongerPrefix DEF Pieces
<1> HIDE DEF q
<1>7. p[chunks].chars = Fill(rest, ch)
  BY <1>1, <1>4
<1>8. TextOfPieces(p) = Fill((chunks - 1) * Chunk, ch) \o Fill(rest, ch)
  <2>1. TextOfPieces(Append(q, p[chunks])) = TextOfPieces(q) \o p[chunks].chars
    BY <1>6, TextOfAppend
  <2> QED
    BY <1>5, <1>6, <1>7, <2>1, Zenon
<1>9. (chunks - 1) * Chunk \in Nat
  BY <1>0, <1>1, SMT
<1>10. Fill((chunks - 1) * Chunk, ch) \o Fill(rest, ch) = Fill(n, ch)
  BY <1>1, <1>9, FillSpec
<1> QED
  BY <1>4, <1>8, <1>10 DEF p
(* Reads goes over the digits.                                             *)
LEMMA ReadsGoes ==
    ASSUME NEW s \in Line, NEW base \in Nat
    PROVE  \E f \in [0 .. Len(s) -> Int] :
               /\ Reads(s, base) = f[Len(s)] /\ f[0] = 0
               /\ \A k \in 1 .. Len(s) : f[k] = f[k - 1] * base + DigitValue(s[k])
<1> DEFINE n == Len(s)
           step == [p \in (1 .. n) \X Int |-> p[2] * base + DigitValue(s[p[1]])]
           want(h) == h = [k \in 0 .. n |->
                             IF k = 0 THEN 0 ELSE h[k - 1] * base + DigitValue(s[k])]
           h == CHOOSE x : want(x)
<1>0. n \in Nat /\ \A k \in 1 .. n : DigitValue(s[k]) \in Int
  BY DEF Line, DigitValue, Zero
<1>1. \A x \in Int : x * base \in Int
  BY SMT
<1>2. step \in [(1 .. n) \X Int -> Int]
  <2> SUFFICES ASSUME NEW p \in (1 .. n) \X Int
               PROVE  p[2] * base + DigitValue(s[p[1]]) \in Int
    OBVIOUS
  <2>1. p[2] \in Int /\ p[1] \in 1 .. n
    OBVIOUS
  <2> QED
    BY <1>0, <1>1, <2>1
<1>3. PICK g : Goes(g, Int, n, 0, step)
  <2>1. 0 \in Int
    OBVIOUS
  <2> HIDE DEF step, n
  <2> QED
    BY <1>0, <1>2, <2>1, StepsExist, Zenon
<1>4. /\ g \in [0 .. n -> Int] /\ g[0] = 0
      /\ \A k \in 1 .. n : g[k] = g[k - 1] * base + DigitValue(s[k])
  <2>1. g \in [0 .. n -> Int] /\ g[0] = 0
    BY <1>3 DEF Goes
  <2>2. ASSUME NEW k \in 1 .. n
        PROVE  g[k] = g[k - 1] * base + DigitValue(s[k])
    <3>1. k - 1 \in 0 .. n
      BY <1>0
    <3>2. g[k - 1] \in Int
      BY <2>1, <3>1, Zenon
    <3>3. g[k] = step[<<k, g[k - 1]>>]
      BY <1>3 DEF Goes
    <3>4. step[<<k, g[k - 1]>>] = g[k - 1] * base + DigitValue(s[k])
      BY <3>2
    <3> QED
      BY <3>3, <3>4
  <2> QED
    BY <2>1, <2>2
<1>5. want(g)
  <2>1. g = [k \in 0 .. n |-> g[k]]
    BY <1>4
  <2>2. \A k \in 0 .. n : k # 0 => k \in 1 .. n
    BY <1>0
  <2> QED
    BY <1>4, <2>1, <2>2
<1>6. want(h)
  <2> HIDE DEF want
  <2> QED
    BY <1>5
<1>7. Reads(s, base) = h[n]
  BY DEF Reads
<1> HIDE DEF h
<1>8. /\ h[0] = 0
      /\ \A k \in 1 .. n : h[k] = h[k - 1] * base + DigitValue(s[k])
  <2>1. 0 \in 0 .. n /\ \A k \in 1 .. n : k \in 0 .. n /\ k # 0
    BY <1>0
  <2> QED
    BY <1>6, <2>1
<1>9. h \in [0 .. n -> Int]
  <2> DEFINE Good == {k \in 0 .. n : \A i \in 0 .. k : h[i] \in Int}
  <2>1. 0 \in Good
    BY <1>0, <1>8
  <2>2. ASSUME NEW k \in 1 .. n, k - 1 \in Good PROVE k \in Good
    <3>1. k - 1 \in 0 .. k - 1 /\ k \in 0 .. n
      BY <1>0
    <3>2. h[k - 1] \in Int
      BY <2>2, <3>1
    <3>3. h[k] \in Int
      BY <1>0, <1>1, <1>8, <3>2
    <3>4. \A i \in 0 .. k : i = k \/ i \in 0 .. k - 1
      BY <1>0
    <3> QED
      BY <2>2, <3>1, <3>3, <3>4
  <2>3. n \in Good
    <3> HIDE DEF Good
    <3> QED
      BY <1>0, <2>1, <2>2, EveryLength
  <2>4. h = [i \in 0 .. n |-> h[i]]
    BY <1>6
  <2> QED
    BY <2>3, <2>4
<1> QED
  BY <1>7, <1>8, <1>9

(* One digit more is the number times the base, and the digit.             *)
LEMMA ReadsOneMore ==
    ASSUME NEW s \in Line, NEW c \in Int, NEW base \in Nat
    PROVE  /\ Reads(s, base) \in Int /\ Reads(<< >>, base) = 0
           /\ Reads(Append(s, c), base) = Reads(s, base) * base + DigitValue(c)
<1> DEFINE t == Append(s, c)
           n == Len(s)
<1>1. /\ n \in Nat /\ t \in Line /\ Len(t) = n + 1 /\ t[n + 1] = c
      /\ \A k \in 1 .. n : t[k] = s[k]
      /\ << >> \in Line /\ Len(<< >>) = 0
  BY DEF Line
<1>2. PICK f \in [0 .. n -> Int] :
          /\ Reads(s, base) = f[n] /\ f[0] = 0
          /\ \A k \in 1 .. n : f[k] = f[k - 1] * base + DigitValue(s[k])
  BY ReadsGoes
<1> HIDE DEF t
<1>3. PICK g \in [0 .. n + 1 -> Int] :
          /\ Reads(t, base) = g[n + 1] /\ g[0] = 0
          /\ \A k \in 1 .. n + 1 : g[k] = g[k - 1] * base + DigitValue(t[k])
  <2>1. PICK g \in [0 .. Len(t) -> Int] :
            /\ Reads(t, base) = g[Len(t)] /\ g[0] = 0
            /\ \A k \in 1 .. Len(t) : g[k] = g[k - 1] * base + DigitValue(t[k])
    BY <1>1, ReadsGoes
  <2> QED
    BY <1>1, <2>1
<1>4. Reads(<< >>, base) = 0
  <2>1. PICK e \in [0 .. Len(<< >>) -> Int] :
            Reads(<< >>, base) = e[Len(<< >>)] /\ e[0] = 0
    BY <1>1, ReadsGoes, Zenon
  <2>2. Len(<< >>) = 0
    BY <1>1
  <2> QED
    BY <2>1, <2>2
<1> HIDE DEF n
<1> DEFINE Good == {k \in 0 .. n : f[k] = g[k]}
<1>5. 0 \in Good
  BY <1>1, <1>2, <1>3
<1>6. ASSUME NEW k \in 1 .. n, k - 1 \in Good PROVE k \in Good
  <2>1. k \in 1 .. n + 1 /\ k \in 0 .. n /\ t[k] = s[k]
    BY <1>1
  <2>2. f[k - 1] = g[k - 1]
    BY <1>6
  <2>3. f[k] = f[k - 1] * base + DigitValue(s[k])
    BY <1>2
  <2>4. g[k] = g[k - 1] * base + DigitValue(t[k])
    BY <1>3, <2>1
  <2>5. f[k] = g[k]
    BY <2>1, <2>2, <2>3, <2>4, Zenon
  <2> QED
    BY <2>1, <2>5
<1>7. n \in Good
  <2> HIDE DEF Good
  <2> QED
    BY <1>1, <1>5, <1>6, EveryLength
<1>8. f[n] \in Int
  BY <1>1, <1>2
<1>9. g[n + 1] = g[n] * base + DigitValue(c)
  <2>1. n + 1 \in 1 .. n + 1 /\ (n + 1) - 1 = n
    BY <1>1
  <2> QED
    BY <1>1, <1>3, <2>1
<1>10. f[n] = g[n]
  BY <1>7
<1> QED
  BY <1>2, <1>3, <1>4, <1>8, <1>9, <1>10 DEF t

(* Zeros in front say nothing.                                             *)
LEMMA ReadsPastZeros ==
    ASSUME NEW n \in Nat, NEW s \in Line, NEW base \in Nat
    PROVE  Reads(Fill(n, Zero) \o s, base) = Reads(s, base)
<1> DEFINE z == Fill(n, Zero)
<1>1. z \in Line /\ Zero \in Int
  BY FillSpec DEF Zero
<1>2. Reads(z, base) = 0
  <2> DEFINE Good == {k \in 0 .. n : Reads(Fill(k, Zero), base) = 0}
  <2>1. 0 \in Good
    <3>1. 0 \in 0 .. n /\ Fill(0, Zero) = << >>
      BY <1>1, FillSpec
    <3>2. << >> \in Line
      BY DEF Line
    <3>3. Reads(<< >>, base) = 0
      BY <1>1, <3>2, ReadsOneMore
    <3> QED
      BY <3>1, <3>3
  <2>2. ASSUME NEW k \in 1 .. n, k - 1 \in Good PROVE k \in Good
    <3>1. /\ Fill(k - 1, Zero) \in Line
          /\ Fill(k, Zero) = Append(Fill(k - 1, Zero), Zero)
      <4>1. Fill(k - 1, Zero) \in Line
        BY <1>1, FillSpec
      <4>2. Fill(k, Zero) = Append(Fill(k - 1, Zero), Zero)
        BY DEF Fill
      <4> QED
        BY <4>1, <4>2
    <3>2. Reads(Fill(k - 1, Zero), base) = 0 /\ k \in 0 .. n
      BY <2>2
    <3>3. DigitValue(Zero) = 0
      BY DEF DigitValue, Zero
    <3>4. Reads(Append(Fill(k - 1, Zero), Zero), base)
            = Reads(Fill(k - 1, Zero), base) * base + DigitValue(Zero)
      BY <1>1, <3>1, ReadsOneMore
    <3>5. Reads(Append(Fill(k - 1, Zero), Zero), base) = 0 * base + 0
      BY <3>2, <3>3, <3>4
    <3>6. 0 * base + 0 = 0
      OBVIOUS
    <3>7. Reads(Fill(k, Zero), base) = 0
      BY <3>1, <3>5, <3>6, Zenon
    <3> QED
      BY <3>2, <3>7
  <2>3. n \in Good
    <3> HIDE DEF Good
    <3> QED
      BY <2>1, <2>2, EveryLength
  <2> QED
    BY <2>3
<1> HIDE DEF z
<1> DEFINE m == Len(s)
           Good == {k \in 0 .. m : Reads(z \o SubSeq(s, 1, k), base)
                                       = Reads(SubSeq(s, 1, k), base)}
<1>3. m \in Nat
  BY DEF Line
<1>4. 0 \in Good
  <2>1. SubSeq(s, 1, 0) = << >> /\ z \o << >> = z /\ 0 \in 0 .. m
    BY <1>1, <1>3, WholePrefix, ConcatIsText DEF Line
  <2>2. Reads(<< >>, base) = 0
    BY <1>1, ReadsOneMore
  <2>3. Reads(z \o SubSeq(s, 1, 0), base) = Reads(SubSeq(s, 1, 0), base)
    BY <1>2, <2>1, <2>2, Zenon
  <2> QED
    BY <2>1, <2>3
<1>5. ASSUME NEW k \in 1 .. m, k - 1 \in Good PROVE k \in Good
  <2> DEFINE u == SubSeq(s, 1, k - 1)
             c == s[k]
  <2>1. u \in Line /\ c \in Int /\ SubSeq(s, 1, k) = Append(u, c)
    BY LongerPrefix DEF Line
  <2>2. Reads(z \o u, base) = Reads(u, base) /\ k \in 0 .. m
    BY <1>3, <1>5
  <2> HIDE DEF u, c
  <2>3. z \o u \in Line /\ z \o Append(u, c) = Append(z \o u, c)
    BY <1>1, <2>1 DEF Line
  <2>4. \A x \in Line, y \in Int :
            Reads(Append(x, y), base) = Reads(x, base) * base + DigitValue(y)
    BY ReadsOneMore
  <2>5. Reads(z \o SubSeq(s, 1, k), base) = Reads(z \o u, base) * base + DigitValue(c)
    BY <2>1, <2>3, <2>4, Zenon
  <2>6. Reads(SubSeq(s, 1, k), base) = Reads(u, base) * base + DigitValue(c)
    BY <2>1, <2>4, Zenon
  <2>7. Reads(z \o SubSeq(s, 1, k), base) = Reads(SubSeq(s, 1, k), base)
    BY <2>2, <2>5, <2>6, Zenon
  <2> QED
    BY <2>2, <2>7
<1>6. m \in Good
  <2> HIDE DEF Good
  <2> QED
    BY <1>3, <1>4, <1>5, EveryLength
<1>7. SubSeq(s, 1, m) = s
  BY WholePrefix DEF Line
<1> QED
  BY <1>6, <1>7 DEF z
(* The digits of a number.                                                 *)
Bases == {10, 16}
Letters == {65, 97}
DigitOf(d, letter) == IF d < 10 THEN Zero + d ELSE letter + d - 10
DigitChars(base, letter) == (48 .. 57) \cup {c \in letter .. letter + 5 : base = 16}

(* Division by 10 or 16: a digit remains, and the quotient is smaller.     *)
LEMMA Division ==
    ASSUME NEW base \in Bases, NEW m \in Nat
    PROVE  /\ m % base \in 0 .. base - 1
           /\ m \div base \in Nat
           /\ m >= base => m \div base \in 1 .. m - 1
           /\ (m \div base) * base + (m % base) = m
<1>0. base = 10 \/ base = 16
  BY DEF Bases
<1>1. CASE base = 10
  <2>1. m % 10 \in 0 .. 9
    OBVIOUS
  <2>2. m \div 10 \in Nat
    OBVIOUS
  <2>3. m >= 10 => m \div 10 \in 1 .. m - 1
    OBVIOUS
  <2>4. (m \div 10) * 10 + (m % 10) = m
    <3> DEFINE q == m \div 10
    <3>1. m % 10 = m - 10 * q
      BY SMT
    <3>2. q \in Nat /\ m % 10 \in Nat
      BY <2>1, <2>2
    <3> DEFINE r == m % 10
    <3> HIDE DEF q, r
    <3>3. q \in Nat /\ r \in Nat /\ r = m - 10 * q
      BY <3>1, <3>2 DEF r
    <3>4. q * 10 + r = m
      BY <3>3
    <3> QED
      BY <3>4, Zenon DEF q, r
  <2> QED
    BY <1>1, <2>1, <2>2, <2>3, <2>4
<1>2. CASE base = 16
  <2>1. m % 16 \in 0 .. 15
    OBVIOUS
  <2>2. m \div 16 \in Nat
    OBVIOUS
  <2>3. m >= 16 => m \div 16 \in 1 .. m - 1
    OBVIOUS
  <2>4. (m \div 16) * 16 + (m % 16) = m
    <3> DEFINE q == m \div 16
    <3>1. m % 16 = m - 16 * q
      BY SMT
    <3>2. q \in Nat /\ m % 16 \in Nat
      BY <2>1, <2>2
    <3> DEFINE r == m % 16
    <3> HIDE DEF q, r
    <3>3. q \in Nat /\ r \in Nat /\ r = m - 16 * q
      BY <3>1, <3>2 DEF r
    <3>4. q * 16 + r = m
      BY <3>3
    <3> QED
      BY <3>4, Zenon DEF q, r
  <2> QED
    BY <1>2, <2>1, <2>2, <2>3, <2>4
<1> QED
  BY <1>0, <1>1, <1>2

(* A digit's character stands for the digit, whichever the letters.        *)
LEMMA DigitOfSpec ==
    ASSUME NEW base \in Bases, NEW letter \in Letters, NEW d \in 0 .. base - 1
    PROVE  /\ DigitOf(d, letter) \in Int
           /\ DigitOf(d, letter) \in DigitChars(base, letter)
           /\ DigitValue(DigitOf(d, letter)) = d
           /\ d # 0 => DigitOf(d, letter) # Zero
BY DEF DigitOf, DigitValue, DigitChars, Zero, Bases, Letters

(* A function on the numbers up to n that holds the digits of each.        *)
LEMMA DigitsGo ==
    ASSUME NEW n \in Nat, NEW base \in Bases, NEW letter \in Letters
    PROVE  \E f : /\ Digits(n, base, letter) = f[n]
                  /\ \A m \in 0 .. n :
                        f[m] = IF m < base THEN <<DigitOf(m, letter)>>
                               ELSE Append(f[m \div base], DigitOf(m % base, letter))
<1> DEFINE half(m) == m \div base
           digit(m) == DigitOf(m % base, letter)
           entry(f, m) == IF m < base THEN <<DigitOf(m, letter)>>
                          ELSE Append(f[half(m)], digit(m))
           go(f, k) == f = [m \in 0 .. k |-> entry(f, m)]
           Good == {k \in 0 .. n : \E f : go(f, k)}
<1>1. \A m \in Nat : m >= base => m \div base \in 0 .. m - 1
  BY Division
<1>2. base \in Nat /\ base > 0
  BY DEF Bases
<1>1a. \A m \in Nat : m >= base => half(m) \in 0 .. m - 1
  BY <1>1
<1> HIDE DEF half, digit
<1>3. 0 \in Good
  <2> DEFINE f == [m \in 0 .. 0 |-> <<DigitOf(m, letter)>>]
  <2>1. go(f, 0)
    BY <1>2
  <2> HIDE DEF f, go
  <2> QED
    BY <2>1
<1>4. ASSUME NEW k \in 1 .. n, k - 1 \in Good
      PROVE  k \in Good
  <2>1. PICK g : go(g, k - 1)
    BY <1>4
  <2> DEFINE x == IF k < base THEN <<DigitOf(k, letter)>>
                  ELSE Append(g[half(k)], digit(k))
             f == [m \in 0 .. k |-> IF m = k THEN x ELSE g[m]]
  <2>2. k \in Nat /\ k \in 0 .. n /\ \A m \in 0 .. k : m \in Nat /\ (m # k => m \in 0 .. k - 1)
    OBVIOUS
  <2>3. \A m \in 0 .. k - 1 : g[m] = entry(g, m)
    <3> HIDE DEF entry
    <3> QED
      BY <2>1
  <2>4. /\ f[k] = x /\ \A m \in 0 .. k - 1 : f[m] = g[m]
        /\ f = [m \in 0 .. k |-> f[m]]
    BY <2>2
  <2> HIDE DEF x, f
  <2>5. ASSUME NEW m \in 0 .. k
        PROVE  f[m] = IF m < base THEN <<DigitOf(m, letter)>>
                      ELSE Append(f[half(m)], digit(m))
    <3>1. m >= base => half(m) \in 0 .. k - 1 /\ f[half(m)] = g[half(m)]
      <4>1. m >= base => half(m) \in 0 .. m - 1
        BY <1>1a, <2>2
      <4>2. 0 .. m - 1 \subseteq 0 .. k - 1
        OBVIOUS
      <4> QED
        BY <2>4, <4>1, <4>2
    <3>2. f[m] = IF m < base THEN <<DigitOf(m, letter)>>
                 ELSE Append(g[half(m)], digit(m))
      <4>1. CASE m = k
        BY <2>4, <4>1 DEF x
      <4>2. CASE m # k
        BY <2>2, <2>3, <2>4, <4>2
      <4> QED
        BY <4>1, <4>2
    <3>3. m < base \/ m >= base
      BY <1>2, <2>2
    <3> QED
      BY <3>1, <3>2, <3>3, Zenon
  <2>6. f = [m \in 0 .. k |-> entry(f, m)]
    <3>1. \A m \in 0 .. k : f[m] = entry(f, m)
      BY <2>5
    <3> HIDE DEF entry
    <3> QED
      BY <2>4, <3>1
  <2>7. go(f, k)
    BY <2>6
  <2> HIDE DEF go
  <2> QED
    BY <2>2, <2>7
<1>5. n \in Good
  <2> HIDE DEF Good
  <2> QED
    BY <1>3, <1>4, EveryLength
<1> DEFINE h == CHOOSE f : go(f, n)
<1>6. go(h, n)
  <2>1. PICK f : go(f, n)
    BY <1>5
  <2> HIDE DEF go
  <2> QED
    BY <2>1
<1>7. Digits(n, base, letter) = h[n]
  BY DEF Digits, DigitOf, half, digit
<1> HIDE DEF h
<1>8. \A m \in 0 .. n : h[m] = entry(h, m)
  <2> HIDE DEF entry
  <2> QED
    BY <1>6
<1> QED
  BY <1>7, <1>8 DEF half, digit

(* What the digits of v are: digits of the base that read back as v, the   *)
(* first of them a zero only when it is the only one.                      *)
IsNumeral(s, v, base, letter) ==
    /\ s \in Line /\ Len(s) >= 1
    /\ \A k \in 1 .. Len(s) : s[k] \in DigitChars(base, letter)
    /\ Reads(s, base) = v
    /\ s[1] = Zero => Len(s) = 1

(* A number below the base is shown as one digit.                          *)
LEMMA OneDigit ==
    ASSUME NEW base \in Bases, NEW letter \in Letters, NEW d \in 0 .. base - 1
    PROVE  IsNumeral(<<DigitOf(d, letter)>>, d, base, letter)
<1> DEFINE c == DigitOf(d, letter)
<1>1. c \in Int /\ c \in DigitChars(base, letter) /\ DigitValue(c) = d
  BY DigitOfSpec
<1> HIDE DEF c
<1>2. /\ <<c>> \in Line /\ Len(<<c>>) = 1 /\ <<c>>[1] = c
      /\ << >> \in Line /\ Append(<< >>, c) = <<c>>
  BY <1>1 DEF Line
<1>3a. base \in Nat
  BY DEF Bases
<1>3. base \in Nat /\ 0 * base = 0 /\ 0 + d = d
  BY <1>3a, SMT
<1>4. Reads(<<c>>, base) = d
  <2>1. Reads(Append(<< >>, c), base) = Reads(<< >>, base) * base + DigitValue(c)
    BY <1>1, <1>2, <1>3, ReadsOneMore
  <2>2. Reads(<< >>, base) = 0
    BY <1>2, <1>3, ReadsOneMore
  <2> QED
    BY <1>1, <1>2, <1>3, <2>1, <2>2
<1>5. \A k \in 1 .. Len(<<c>>) : <<c>>[k] \in DigitChars(base, letter)
  BY <1>1, <1>2
<1> QED
  BY <1>2, <1>4, <1>5 DEF IsNumeral, c

(* The digits of a larger number are those of its quotient and one more.   *)
LEMMA OneDigitMore ==
    ASSUME NEW base \in Bases, NEW letter \in Letters, NEW d \in 0 .. base - 1,
           NEW v \in Nat \ {0}, NEW s, IsNumeral(s, v, base, letter)
    PROVE  IsNumeral(Append(s, DigitOf(d, letter)), v * base + d, base, letter)
<1> DEFINE c == DigitOf(d, letter)
           t == Append(s, c)
<1>1. c \in Int /\ c \in DigitChars(base, letter) /\ DigitValue(c) = d
  BY DigitOfSpec
<1> HIDE DEF c
<1>2. s \in Line /\ Len(s) \in Nat /\ Len(s) >= 1
  BY DEF IsNumeral, Line
<1>3. /\ t \in Line /\ Len(t) = Len(s) + 1 /\ t[Len(s) + 1] = c
      /\ \A k \in 1 .. Len(s) : t[k] = s[k]
  BY <1>1, <1>2 DEF Line
<1>4. Reads(t, base) = v * base + d
  <2>1. base \in Nat
    BY DEF Bases
  <2>2. Reads(t, base) = Reads(s, base) * base + DigitValue(c)
    BY <1>1, <1>2, <2>1, ReadsOneMore
  <2>3. Reads(s, base) = v
    BY DEF IsNumeral
  <2> QED
    BY <1>1, <2>2, <2>3, Zenon
<1>5. s[1] # Zero
  <2>1. CASE Len(s) = 1
    <3>1. s = Append(<< >>, s[1]) /\ s[1] \in Int /\ << >> \in Line
      <4>1. s[1] \in Int /\ << >> \in Line /\ s \in Seq(Int)
        <5>1. s \in Seq(Int) /\ 1 \in 1 .. Len(s)
          BY <1>2, <2>1 DEF Line
        <5>2. s[1] \in Int
          BY <5>1, LongerPrefix
        <5>3. << >> \in Line
          BY DEF Line
        <5> QED
          BY <5>1, <5>2, <5>3
      <4>2. SubSeq(s, 1, 0) = << >> /\ SubSeq(s, 1, 1) = s
        BY <2>1, <4>1, WholePrefix, Zenon
      <4>3. SubSeq(s, 1, 1) = Append(SubSeq(s, 1, 1 - 1), s[1])
        <5>1. 1 \in 1 .. Len(s)
          BY <1>2
        <5> QED
          BY <4>1, <5>1, LongerPrefix
      <4>4. 1 - 1 = 0
        OBVIOUS
      <4> QED
        BY <4>1, <4>2, <4>3, <4>4, Zenon
    <3>2. Reads(s, base) = Reads(<< >>, base) * base + DigitValue(s[1])
      <4>1. \A y \in Int : Reads(Append(<< >>, y), base)
                               = Reads(<< >>, base) * base + DigitValue(y)
        <5>1. base \in Nat
          BY DEF Bases
        <5> QED
          BY <3>1, <5>1, ReadsOneMore, Zenon
      <4> HIDE DEF c
      <4>2. Reads(Append(<< >>, s[1]), base) = Reads(<< >>, base) * base + DigitValue(s[1])
        BY <3>1, <4>1, Zenon
      <4> QED
        BY <3>1, <4>2, Zenon
    <3>3. Reads(<< >>, base) = 0 /\ Reads(s, base) = v
      <4>1. base \in Nat
        BY DEF Bases
      <4> QED
        BY <3>1, <4>1, ReadsOneMore DEF IsNumeral
    <3>3a. base \in Nat
      BY DEF Bases
    <3>4. v = DigitValue(s[1])
      <4>1. \A z \in Int : 0 * base + z = z
        BY <3>3a
      <4>2. DigitValue(s[1]) \in Int
        BY <3>1 DEF DigitValue, Zero
      <4> QED
        BY <3>2, <3>3, <4>1, <4>2
    <3> QED
      BY <3>4 DEF DigitValue, Zero
  <2>2. CASE Len(s) # 1
    BY <2>2 DEF IsNumeral
  <2> QED
    BY <2>1, <2>2
<1>6. t[1] # Zero
  BY <1>2, <1>3, <1>5
<1>7. ASSUME NEW k \in 1 .. Len(t) PROVE t[k] \in DigitChars(base, letter)
  <2>1. k = Len(s) + 1 \/ k \in 1 .. Len(s)
    BY <1>2, <1>3
  <2>2. k \in 1 .. Len(s) => s[k] \in DigitChars(base, letter)
    BY DEF IsNumeral
  <2> QED
    BY <1>1, <1>3, <2>1, <2>2
<1>8. Len(t) >= 1
  BY <1>2, <1>3
<1> HIDE DEF t
<1> QED
  BY <1>3, <1>4, <1>6, <1>7, <1>8 DEF IsNumeral, t, c

(* The digits of every number, by induction over the number.               *)
LEMMA DigitsAreNumeral ==
    ASSUME NEW n \in Nat, NEW base \in Bases, NEW letter \in Letters
    PROVE  IsNumeral(Digits(n, base, letter), n, base, letter)
<1>1. PICK f : /\ Digits(n, base, letter) = f[n]
               /\ \A m \in 0 .. n :
                     f[m] = IF m < base THEN <<DigitOf(m, letter)>>
                            ELSE Append(f[m \div base], DigitOf(m % base, letter))
  BY DigitsGo, Zenon
<1> DEFINE Good == {k \in 0 .. n :
                      \A m \in 0 .. k : IsNumeral(f[m], m, base, letter)}
<1>0. base \in Nat /\ base > 0
  BY DEF Bases
<1>2. ASSUME NEW m \in 0 .. n, m < base PROVE IsNumeral(f[m], m, base, letter)
  <2>1. m \in 0 .. base - 1
    BY <1>0, <1>2
  <2>2. f[m] = <<DigitOf(m, letter)>>
    BY <1>1, <1>2, Zenon
  <2> QED
    BY <2>1, <2>2, OneDigit, Zenon
<1>3. 0 \in Good
  BY <1>0, <1>2
<1>4. ASSUME NEW k \in 1 .. n, k - 1 \in Good PROVE k \in Good
  <2>1. IsNumeral(f[k], k, base, letter)
    <3>1. CASE k < base
      BY <1>2, <3>1
    <3>2. CASE ~(k < base)
      <4> DEFINE q == k \div base
                 d == k % base
      <4>1. /\ d \in 0 .. base - 1 /\ q \in 1 .. k - 1 /\ q * base + d = k
            /\ f[k] = Append(f[q], DigitOf(d, letter))
        <5>1. k \in Nat /\ k >= base /\ k \in 0 .. n
          BY <1>0, <3>2
        <5>2. d \in 0 .. base - 1 /\ q \in 1 .. k - 1 /\ q * base + d = k
          BY <5>1, Division
        <5>3. f[k] = Append(f[q], DigitOf(d, letter))
          BY <1>1, <3>2, <5>1, Zenon
        <5> QED
          BY <5>2, <5>3
      <4> HIDE DEF q, d
      <4>2. IsNumeral(f[q], q, base, letter) /\ q \in Nat \ {0}
        BY <1>4, <4>1
      <4>3. IsNumeral(Append(f[q], DigitOf(d, letter)), q * base + d, base, letter)
        BY <4>1, <4>2, OneDigitMore, Zenon
      <4> QED
        BY <4>1, <4>3, Zenon
    <3> QED
      BY <3>1, <3>2
  <2>2. k \in 0 .. n /\ \A m \in 0 .. k : m = k \/ m \in 0 .. k - 1
    OBVIOUS
  <2>3. \A m \in 0 .. k - 1 : IsNumeral(f[m], m, base, letter)
    BY <1>4
  <2> QED
    BY <2>1, <2>2, <2>3
<1>5. n \in Good
  <2> HIDE DEF Good
  <2> QED
    BY <1>3, <1>4, EveryLength
<1> QED
  BY <1>1, <1>5
(* What stands where, in a text made of two.                               *)
LEMMA SecondPart ==
    ASSUME NEW u \in Line, NEW v \in Line
    PROVE  /\ SubSeq(u \o v, Len(u) + 1, Len(u \o v)) = v
           /\ IsPrefix(u, u \o v)
<1>1. u \o v \in Line /\ Len(u \o v) = Len(u) + Len(v) /\ Len(u) \in Nat /\ Len(v) \in Nat
  BY DEF Line
<1>2. SubSeq(u \o v, Len(u) + 1, Len(u \o v)) = v
  BY DEF Line
<1>3. SubSeq(u \o v, 1, Len(u)) = u /\ SubSeq(u, 1, Len(u)) = u
  BY DEF Line
<1> QED
  BY <1>1, <1>2, <1>3 DEF IsPrefix

(* What stands in the middle of three.                                     *)
LEMMA MiddlePart ==
    ASSUME NEW u \in Line, NEW v \in Line, NEW w \in Line
    PROVE  /\ u \o (v \o w) = (u \o v) \o w
           /\ SubSeq((u \o v) \o w, Len(u) + 1, Len((u \o v) \o w) - Len(w)) = v
<1>1. u \o (v \o w) = (u \o v) \o w
  BY DEF Line
<1> DEFINE s == u \o v
           t == s \o w
<1>2. /\ s \in Line /\ t \in Line /\ Len(s) = Len(u) + Len(v)
      /\ Len(t) = Len(s) + Len(w) /\ Len(u) \in Nat /\ Len(v) \in Nat /\ Len(w) \in Nat
  BY DEF Line
<1>3. SubSeq(t, Len(u) + 1, Len(s)) = SubSeq(s, Len(u) + 1, Len(s))
  <2>1. \A k \in 1 .. Len(s) : t[k] = s[k]
    BY DEF Line
  <2>2. \A x \in Line : \A m \in 1 .. Len(x) + 1 : \A n \in m - 1 .. Len(x) :
            SubSeq(x, m, n) = [k \in 1 .. n - m + 1 |-> x[k + m - 1]]
    BY DEF Line
  <2> HIDE DEF s, t
  <2> DEFINE m == Len(u) + 1
             n == Len(s)
  <2>3. /\ m \in 1 .. Len(s) + 1 /\ n \in m - 1 .. Len(s)
        /\ m \in 1 .. Len(t) + 1 /\ n \in m - 1 .. Len(t)
        /\ \A k \in 1 .. n - m + 1 : k + m - 1 \in 1 .. Len(s)
    BY <1>2
  <2> HIDE DEF m, n
  <2>4. SubSeq(t, m, n) = [k \in 1 .. n - m + 1 |-> t[k + m - 1]]
    BY <1>2, <2>2, <2>3
  <2>5. SubSeq(s, m, n) = [k \in 1 .. n - m + 1 |-> s[k + m - 1]]
    BY <1>2, <2>2, <2>3
  <2>6. \A k \in 1 .. n - m + 1 : t[k + m - 1] = s[k + m - 1]
    BY <2>1, <2>3
  <2>7. SubSeq(t, m, n) = SubSeq(s, m, n)
    BY <2>4, <2>5, <2>6
  <2> QED
    BY <2>7 DEF m, n
<1>4. SubSeq(s, Len(u) + 1, Len(s)) = v
  BY SecondPart
<1>5. Len(t) - Len(w) = Len(s)
  <2> HIDE DEF s, t
  <2> QED
    BY <1>2
<1> HIDE DEF s, t
<1>6. SubSeq(t, Len(u) + 1, Len(t) - Len(w)) = v
  BY <1>3, <1>4, <1>5, Zenon
<1> QED
  BY <1>1, <1>6 DEF s, t

(* A field of blanks, a sign, zeros and a numeral shows the number.        *)
AFormat == [prefix : Seq(Nat), percent : BOOLEAN, minus : BOOLEAN, plus : BOOLEAN,
            zero : BOOLEAN, width : Nat, ells : Nat,
            conv : SUBSET {"s", "d", "u", "x", "X"}, suffix : Seq(Nat)]
SignOf(v, plus) == IF v < 0 THEN <<Minus>> ELSE IF plus THEN <<Plus>> ELSE << >>
Size(v) == IF v < 0 THEN -v ELSE v
Letter(f, base, letter) ==
    base = 16 => (f.conv = {"x"} /\ letter = 97) \/ (f.conv = {"X"} /\ letter = 65)

(* The number is read back from its field.                                 *)
LEMMA FieldShows ==
    ASSUME NEW f \in AFormat, NEW v \in Int, NEW base \in Bases, NEW letter \in Letters,
           Letter(f, base, letter),
           NEW b \in Nat, NEW z \in Nat, NEW num,
           IsNumeral(num, Size(v), base, letter),
           NEW field,
           field = Fill(b, Space) \o (SignOf(v, f.plus) \o (Fill(z, Zero) \o num)),
           b > 0 => Len(field) = f.width /\ ~f.zero,
           z > 0 => Len(field) = f.width /\ f.zero,
           Len(field) >= f.width
    PROVE  ShowsNumber(field, f, v, base)
<1> DEFINE sign == SignOf(v, f.plus)
           digits == Fill(z, Zero) \o num
           body == sign \o digits
           blanks == Fill(b, Space)
<1>1. num \in Line /\ Len(num) \in Nat /\ Len(num) >= 1
  BY DEF IsNumeral, Line
<1>2. sign \in Line
  BY DEF SignOf, Line, Plus, Minus
<1>3. /\ Fill(z, Zero) \in Line /\ Len(Fill(z, Zero)) = z
      /\ \A k \in 1 .. z : Fill(z, Zero)[k] = Zero
      /\ blanks \in Line /\ Len(blanks) = b
      /\ \A k \in 1 .. b : blanks[k] = Space
  <2>1. \A n \in Nat, ch \in Int :
            /\ Fill(n, ch) \in Line /\ Len(Fill(n, ch)) = n
            /\ \A k \in 1 .. n : Fill(n, ch)[k] = ch
    BY FillSpec
  <2>2. Zero \in Int /\ Space \in Int
    BY DEF Zero, Space
  <2> QED
    BY <2>1, <2>2, Zenon
<1>4. /\ digits \in Line /\ Len(digits) = z + Len(num)
      /\ \A k \in 1 .. z + Len(num) : digits[k] = IF k <= z THEN Zero ELSE num[k - z]
  <2>1. /\ digits \in Line /\ Len(digits) = z + Len(num)
        /\ \A k \in 1 .. z + Len(num) :
              digits[k] = IF k <= z THEN Fill(z, Zero)[k] ELSE num[k - z]
    <3> DEFINE u == Fill(z, Zero)
    <3>1. u \in Line /\ Len(u) = z
      BY <1>3
    <3> HIDE DEF u
    <3>2. /\ u \o num \in Line /\ Len(u \o num) = z + Len(num)
          /\ \A k \in 1 .. z + Len(num) :
                (u \o num)[k] = IF k <= z THEN u[k] ELSE num[k - z]
      <4>1. /\ u \o num \in Line /\ Len(u \o num) = Len(u) + Len(num)
            /\ \A k \in 1 .. Len(u) + Len(num) :
                  (u \o num)[k] = IF k <= Len(u) THEN u[k] ELSE num[k - Len(u)]
        BY <1>1, <3>1, ConcatIsText, Zenon
      <4> QED
        BY <3>1, <4>1
    <3> QED
      BY <3>2 DEF u
  <2> HIDE DEF digits
  <2>2. ASSUME NEW k \in 1 .. z + Len(num)
        PROVE  digits[k] = IF k <= z THEN Zero ELSE num[k - z]
    <3>1. k <= z => k \in 1 .. z
      BY <1>1
    <3> QED
      BY <1>3, <2>1, <3>1
  <2> QED
    BY <2>1, <2>2
<1>5. Reads(digits, base) = Size(v)
  <2>1. base \in Nat
    BY DEF Bases
  <2> QED
    BY <1>1, <2>1, ReadsPastZeros DEF IsNumeral
<1> HIDE DEF sign, digits, blanks
<1>6. body \in Line /\ SubSeq(body, Len(sign) + 1, Len(body)) = digits /\ IsPrefix(sign, body)
  BY <1>2, <1>4, SecondPart, ConcatIsText
<1>7. Len(body) = Len(sign) + Len(digits) /\ Len(sign) \in Nat
  <2>1. Len(body) = Len(sign) + Len(digits)
    BY <1>2, <1>4, ConcatIsText, Zenon
  <2> QED
    BY <1>2, <2>1 DEF Line
<1>8. field = blanks \o body
  BY DEF sign, digits, blanks
<1> HIDE DEF body
<1>9. /\ field \in Line /\ SubSeq(field, b + 1, Len(field)) = body
      /\ Len(field) = b + Len(body)
      /\ \A k \in 1 .. b : field[k] = Space
  <2>1. field \in Line /\ SubSeq(field, Len(blanks) + 1, Len(field)) = body
    <3>1. blanks \o body \in Line
      BY <1>3, <1>6, ConcatIsText, Zenon
    <3>2. SubSeq(blanks \o body, Len(blanks) + 1, Len(blanks \o body)) = body
      BY <1>3, <1>6, SecondPart, Zenon
    <3> QED
      BY <1>8, <3>1, <3>2
  <2>2. /\ Len(blanks \o body) = Len(blanks) + Len(body)
        /\ \A k \in 1 .. Len(blanks) + Len(body) :
              (blanks \o body)[k] = IF k <= Len(blanks) THEN blanks[k] ELSE body[k - Len(blanks)]
    BY <1>3, <1>6, ConcatIsText
  <2>3. Len(body) \in Nat
    BY <1>6 DEF Line
  <2> QED
    BY <1>3, <1>8, <2>1, <2>2, <2>3
<1>10. b \in 0 .. Len(field) - 1 /\ Len(field) \in Nat /\ Len(digits) >= 1
  BY <1>1, <1>4, <1>7, <1>9
<1>11. digits # << >>
  BY <1>10
<1>12. ASSUME NEW k \in DOMAIN digits
       PROVE  digits[k] \in (48 .. 57) \cup (IF f.conv = {"x"} THEN 97 .. 102
                                             ELSE IF f.conv = {"X"} THEN 65 .. 70
                                             ELSE {})
  <2>1. k \in 1 .. z + Len(num)
    BY <1>4 DEF Line
  <2>2. CASE k <= z
    BY <1>4, <2>1, <2>2 DEF Zero
  <2>3. CASE ~(k <= z)
    <3>1. k - z \in 1 .. Len(num)
      BY <1>1, <2>1, <2>3
    <3>2. num[k - z] \in DigitChars(base, letter)
      BY <3>1 DEF IsNumeral
    <3>3. digits[k] = num[k - z]
      BY <1>4, <2>1, <2>3
    <3>4. {"x"} # {"X"}
      OBVIOUS
    <3>5. CASE num[k - z] \in 48 .. 57
      BY <3>3, <3>5
    <3>6. CASE base = 16 /\ num[k - z] \in letter .. letter + 5
      <4>1. CASE f.conv = {"x"} /\ letter = 97
        BY <3>3, <3>6, <4>1
      <4>2. CASE f.conv = {"X"} /\ letter = 65
        <5>1. ~(f.conv = {"x"}) /\ f.conv = {"X"}
          BY <3>4, <4>2, Zenon
        <5>2. digits[k] \in 65 .. 70
          BY <3>3, <3>6, <4>2
        <5> QED
          BY <5>1, <5>2, Zenon
      <4> QED
        BY <3>6, <4>1, <4>2 DEF Letter
    <3> QED
      BY <3>2, <3>5, <3>6 DEF DigitChars
  <2> QED
    BY <2>2, <2>3
<1>13. b > 0 => Len(field) = f.width /\ ~f.zero
  OBVIOUS
<1>14. digits[1] = Zero /\ Len(digits) > 1 => Len(field) = f.width /\ f.zero
  <2>1. CASE z = 0
    <3>1. digits[1] = num[1] /\ Len(digits) = Len(num)
      BY <1>1, <1>4, <2>1
    <3> QED
      <4>1. num[1] = Zero => Len(num) = 1
        BY DEF IsNumeral
      <4>2. ~(1 > 1)
        OBVIOUS
      <4> QED
        BY <3>1, <4>1, <4>2, Zenon
  <2>2. CASE z # 0
    BY <2>2
  <2> QED
    BY <2>1, <2>2
<1>15. SubSeq(SubSeq(field, b + 1, Len(field)), Len(sign) + 1,
              Len(SubSeq(field, b + 1, Len(field)))) = digits
  BY <1>6, <1>9
<1>16. IsPrefix(sign, SubSeq(field, b + 1, Len(field)))
  BY <1>6, <1>9
<1>17. Len(field) >= f.width
  OBVIOUS
<1>18. sign = IF v < 0 THEN <<Minus>> ELSE IF f.plus THEN <<Plus>> ELSE << >>
  BY DEF sign, SignOf
<1> DEFINE goal(x, s, r, d) ==
             /\ \A k \in 1 .. x : field[k] = Space
             /\ IsPrefix(s, r)
             /\ d # << >>
             /\ \A k \in DOMAIN d :
                  d[k] \in (48 .. 57) \cup (IF f.conv = {"x"} THEN 97 .. 102
                                            ELSE IF f.conv = {"X"} THEN 65 .. 70
                                            ELSE {})
             /\ Reads(d, base) = (IF v < 0 THEN -v ELSE v)
             /\ x > 0 => Len(field) = f.width /\ ~f.zero
             /\ d[1] = Zero /\ Len(d) > 1 => Len(field) = f.width /\ f.zero
             /\ Len(field) >= f.width
<1>19. goal(b, sign, SubSeq(field, b + 1, Len(field)), digits)
  BY <1>5, <1>9, <1>11, <1>12, <1>13, <1>14, <1>16, <1>17 DEF Size
<1> DEFINE sg == IF v < 0 THEN <<Minus>> ELSE IF f.plus THEN <<Plus>> ELSE << >>
           rest(x) == SubSeq(field, x + 1, Len(field))
           dg(x) == SubSeq(rest(x), Len(sg) + 1, Len(rest(x)))
<1>20. goal(b, sg, rest(b), dg(b))
  <2>1. sg = sign
    BY <1>18
  <2>2. dg(b) = digits
    BY <1>15, <2>1
  <2> HIDE DEF goal, sg, dg
  <2> QED
    BY <1>19, <2>1, <2>2
<1>21. ShowsNumber(field, f, v, base) = \E x \in 0 .. Len(field) - 1 : goal(x, sg, rest(x), dg(x))
  BY DEF ShowsNumber
<1> HIDE DEF goal, sg, rest, dg
<1> QED
  BY <1>10, <1>20, <1>21
(* The three ways a number is padded.                                      *)
LEMMA PaddedShows ==
    ASSUME NEW f \in AFormat, NEW v \in Int, NEW base \in Bases, NEW letter \in Letters,
           Letter(f, base, letter),
           NEW num, IsNumeral(num, Size(v), base, letter)
    PROVE  LET p == PaddedNumber(SignOf(v, f.plus) \o num, f)
           IN  p \in Pieces /\ ShowsNumber(TextOfPieces(p), f, v, base)
<1> DEFINE sign == SignOf(v, f.plus)
           d == sign \o num
           n == f.width - Len(d)
           p == PaddedNumber(d, f)
           t == TextOfPieces(p)
           field(b, z) == Fill(b, Space) \o (sign \o (Fill(z, Zero) \o num))
<1>1. num \in Line /\ Len(num) \in Nat /\ Len(num) >= 1
  BY DEF IsNumeral, Line
<1>2. sign \in Line /\ Len(sign) \in {0, 1}
  BY DEF SignOf, Line, Plus, Minus
<1>3. \A x, y \in Line : x \o y \in Line /\ Len(x \o y) = Len(x) + Len(y)
  BY ConcatIsText
<1>4. \A x \in Line : << >> \o x = x
  BY ConcatIsText
<1>5. \A m \in Nat, ch \in Int : /\ Fill(m, ch) \in Line /\ Len(Fill(m, ch)) = m
                                 /\ Fill(0, ch) = << >>
  BY FillSpec
<1>6. Zero \in Int /\ Space \in Int /\ 0 \in Nat
  BY DEF Zero, Space
<1>7. \A x \in Pieces, y \in Pieces :
          x \o y \in Pieces /\ TextOfPieces(x \o y) = TextOfPieces(x) \o TextOfPieces(y)
  BY TextOfConcat
<1>8. \A x \in Line : Piece(x) \in Pieces /\ TextOfPieces(Piece(x)) = x
  BY TextOfOnePiece
<1>9. \A m \in Nat, ch \in Int :
          Pad(m, ch) \in Pieces /\ TextOfPieces(Pad(m, ch)) = Fill(m, ch)
  BY PadIsFill
<1>10. \A x, y, z \in Line : (x \o y) \o z = x \o (y \o z)
  BY ConcatAssociates
<1>11. f.width \in Nat /\ f.zero \in BOOLEAN
  BY DEF AFormat
<1> HIDE DEF sign
<1>12. d \in Line /\ Len(d) = Len(sign) + Len(num)
  BY <1>1, <1>2, <1>3, Zenon
<1>13. n \in Int
  BY <1>1, <1>2, <1>11, <1>12
<1>14. Fill(0, Space) = << >> /\ Fill(0, Zero) = << >>
  BY <1>5, <1>6, Zenon
<1>15. field(0, 0) = d
  <2>1. << >> \o num = num /\ << >> \o d = d
    BY <1>1, <1>4, <1>12, Zenon
  <2> QED
    BY <1>14, <2>1, Zenon
<1> HIDE DEF d, field
<1>16. ASSUME NEW b \in Nat, NEW z \in Nat, t = field(b, z),
              b > 0 => Len(t) = f.width /\ ~f.zero,
              z > 0 => Len(t) = f.width /\ f.zero,
              Len(t) >= f.width
       PROVE  ShowsNumber(t, f, v, base)
  <2> HIDE DEF t
  <2>1. t = Fill(b, Space) \o (SignOf(v, f.plus) \o (Fill(z, Zero) \o num))
    BY <1>16 DEF field, sign
  <2> QED
    BY <1>16, <2>1, FieldShows
<1>17. CASE n <= 0
  <2>1. p = Piece(d)
    <3>1. n <= 0 /\ ~(n > 0)
      BY <1>13, <1>17
    <3> QED
      BY <3>1 DEF PaddedNumber
  <2>2. p \in Pieces /\ t = d
    BY <1>8, <1>12, <2>1
  <2>3. Len(t) >= f.width
    BY <1>1, <1>2, <1>11, <1>12, <1>17, <2>2
  <2>4. t = field(0, 0) /\ ~(0 > 0)
    BY <1>15, <2>2
  <2> HIDE DEF p, t
  <2>5. ShowsNumber(t, f, v, base)
    BY <1>6, <1>16, <2>3, <2>4
  <2> QED
    BY <2>2, <2>5 DEF d, sign, p, t
<1>18. CASE n > 0 /\ ~f.zero
  <2>1. p = Pad(n, Space) \o Piece(d) /\ n \in Nat
    <3>1. n \in Nat /\ ~(n <= 0)
      BY <1>13, <1>18
    <3> QED
      BY <1>18, <3>1 DEF PaddedNumber
  <2> HIDE DEF n
  <2>2. /\ Pad(n, Space) \in Pieces /\ TextOfPieces(Pad(n, Space)) = Fill(n, Space)
        /\ Piece(d) \in Pieces /\ TextOfPieces(Piece(d)) = d
    BY <1>6, <1>8, <1>9, <1>12, <2>1, Zenon
  <2>3. p \in Pieces /\ t = Fill(n, Space) \o d
    BY <1>7, <2>1, <2>2, Zenon
  <2>4. Len(t) = n + Len(d)
    <3>1. Fill(n, Space) \in Line /\ Len(Fill(n, Space)) = n
      BY <1>5, <1>6, <2>1, Zenon
    <3>2. Len(Fill(n, Space) \o d) = Len(Fill(n, Space)) + Len(d)
      BY <1>3, <1>12, <3>1, Zenon
    <3> QED
      BY <2>3, <3>1, <3>2, Zenon
  <2>5. Len(t) = f.width
    BY <1>1, <1>2, <1>11, <1>12, <2>4 DEF n
  <2>6. t = field(n, 0)
    <3>1. << >> \o num = num
      BY <1>1, <1>4, Zenon
    <3> QED
      BY <1>14, <2>3, <3>1, Zenon DEF field, d
  <2> HIDE DEF p, t
  <2>7. ~(0 > 0) /\ f.width >= f.width
    BY <1>11
  <2>8. ShowsNumber(t, f, v, base)
    BY <1>6, <1>16, <1>18, <2>1, <2>5, <2>6, <2>7
  <2> QED
    BY <2>3, <2>8 DEF d, sign, p, t
<1>19. CASE n > 0 /\ f.zero
  <2>0. n \in Nat /\ ~(n <= 0)
    BY <1>13, <1>19
  <2>1. \/ p = Pad(n, Zero) \o Piece(d) /\ t = field(0, n) /\ p \in Pieces
        \/ /\ p = Piece(<<d[1]>>) \o Pad(n, Zero) \o Piece(Tail(d))
           /\ t = field(0, n) /\ p \in Pieces
    <3>1. num[1] \notin {Plus, Minus}
      <4>1. 1 \in 1 .. Len(num)
        BY <1>1
      <4>2. num[1] \in DigitChars(base, letter)
        BY <4>1 DEF IsNumeral
      <4> QED
        BY <4>2 DEF DigitChars, Letters, Plus, Minus
    <3>2. /\ Pad(n, Zero) \in Pieces /\ TextOfPieces(Pad(n, Zero)) = Fill(n, Zero)
          /\ Fill(n, Zero) \in Line
      <4> HIDE DEF n
      <4> QED
        BY <1>5, <1>6, <1>9, <2>0, Zenon
    <3>3. CASE sign = << >>
      <4>1. d = num
        BY <1>1, <1>4, <3>3 DEF d
      <4>2. p = Pad(n, Zero) \o Piece(d)
        BY <1>19, <2>0, <3>1, <4>1 DEF PaddedNumber
      <4> HIDE DEF n
      <4>3. p \in Pieces /\ t = Fill(n, Zero) \o num
        <5>1. Piece(d) \in Pieces /\ TextOfPieces(Piece(d)) = num
          BY <1>1, <1>8, <4>1, Zenon
        <5> QED
          BY <1>7, <3>2, <4>2, <5>1, Zenon
      <4>4. field(0, n) = Fill(n, Zero) \o num
        <5>1. Fill(n, Zero) \o num \in Line
          BY <1>1, <1>3, <3>2, Zenon
        <5>2. << >> \o (Fill(n, Zero) \o num) = Fill(n, Zero) \o num
          BY <1>4, <5>1, Zenon
        <5> QED
          BY <1>14, <3>3, <5>2, Zenon DEF field
      <4> QED
        BY <4>2, <4>3, <4>4
    <3>4. CASE sign # << >>
      <4>1. sign = <<Plus>> \/ sign = <<Minus>>
        BY <3>4 DEF sign, SignOf
      <4>2. d[1] \in {Plus, Minus} /\ <<d[1]>> = sign /\ Tail(d) = num
        <5>1. \A c \in Int : /\ (<<c>> \o num)[1] = c
                             /\ Tail(<<c>> \o num) = num
          BY <1>1 DEF Line
        <5>2. Plus \in Int /\ Minus \in Int
          BY DEF Plus, Minus
        <5> QED
          BY <4>1, <5>1, <5>2, Zenon DEF d
      <4>3. p = Piece(<<d[1]>>) \o Pad(n, Zero) \o Piece(Tail(d))
        BY <1>19, <2>0, <4>2 DEF PaddedNumber
      <4>4. p = Piece(sign) \o Pad(n, Zero) \o Piece(num)
        BY <4>2, <4>3, Zenon
      <4> HIDE DEF n
      <4>5. p \in Pieces /\ t = (sign \o Fill(n, Zero)) \o num
        <5>1. /\ Piece(sign) \in Pieces /\ TextOfPieces(Piece(sign)) = sign
              /\ Piece(num) \in Pieces /\ TextOfPieces(Piece(num)) = num
          BY <1>1, <1>2, <1>8, Zenon
        <5>2. /\ Piece(sign) \o Pad(n, Zero) \in Pieces
              /\ TextOfPieces(Piece(sign) \o Pad(n, Zero)) = sign \o Fill(n, Zero)
          BY <1>7, <3>2, <5>1, Zenon
        <5> QED
          BY <1>7, <4>4, <5>1, <5>2, Zenon
      <4>6. field(0, n) = (sign \o Fill(n, Zero)) \o num
        <5>1. sign \o (Fill(n, Zero) \o num) \in Line
          BY <1>1, <1>2, <1>3, <3>2, Zenon
        <5>2. << >> \o (sign \o (Fill(n, Zero) \o num)) = sign \o (Fill(n, Zero) \o num)
          BY <1>4, <5>1, Zenon
        <5>3. sign \o (Fill(n, Zero) \o num) = (sign \o Fill(n, Zero)) \o num
          BY <1>1, <1>2, <1>10, <3>2, Zenon
        <5> QED
          BY <1>14, <5>2, <5>3, Zenon DEF field
      <4> QED
        BY <4>3, <4>5, <4>6
    <3> QED
      BY <3>3, <3>4
  <2>2. p \in Pieces /\ t = field(0, n)
    BY <2>1
  <2> HIDE DEF p, t, n
  <2>3. Len(t) = n + Len(d)
    <3>1. Fill(n, Zero) \in Line /\ Len(Fill(n, Zero)) = n
      BY <1>5, <1>6, <2>0, Zenon
    <3>2. /\ Fill(n, Zero) \o num \in Line
          /\ Len(Fill(n, Zero) \o num) = n + Len(num)
      BY <1>1, <1>3, <3>1, Zenon
    <3>3. /\ sign \o (Fill(n, Zero) \o num) \in Line
          /\ Len(sign \o (Fill(n, Zero) \o num)) = Len(sign) + (n + Len(num))
      BY <1>2, <1>3, <3>2, Zenon
    <3>4. t = sign \o (Fill(n, Zero) \o num)
      BY <1>4, <1>14, <2>2, <3>3, Zenon DEF field
    <3> QED
      BY <1>1, <1>2, <1>12, <2>0, <3>3, <3>4
  <2>4. Len(t) = f.width
    BY <1>1, <1>2, <1>11, <1>12, <2>3 DEF n
  <2>5. ~(0 > 0) /\ f.width >= f.width
    BY <1>11
  <2>6. ShowsNumber(t, f, v, base)
    BY <1>6, <1>16, <1>19, <2>0, <2>2, <2>4, <2>5
  <2> QED
    BY <2>2, <2>6 DEF d, sign, p, t
<1>20. n <= 0 \/ (n > 0 /\ ~f.zero) \/ (n > 0 /\ f.zero)
  BY <1>11, <1>13
<1> QED
  BY <1>17, <1>18, <1>19, <1>20
(* What each of the three functions appends when memory lasts.             *)
LEMMA WordIsText ==
    ASSUME NEW s \in Seq(Nat)
    PROVE  s \in Line
BY DEF Line

(* A piece of text before a field, or behind it, is appended as it is.     *)
LEMMA Around ==
    ASSUME NEW prefix \in Line, NEW suffix \in Line, NEW p \in Pieces
    PROVE  /\ Piece(prefix) \o p \in Pieces
           /\ TextOfPieces(Piece(prefix) \o p) = prefix \o TextOfPieces(p)
           /\ p \o Piece(suffix) \in Pieces
           /\ TextOfPieces(p \o Piece(suffix)) = TextOfPieces(p) \o suffix
           /\ TextOfPieces(p) \in Line
<1>1. \A x \in Pieces, y \in Pieces :
          x \o y \in Pieces /\ TextOfPieces(x \o y) = TextOfPieces(x) \o TextOfPieces(y)
  BY TextOfConcat
<1>2. \A x \in Line : Piece(x) \in Pieces /\ TextOfPieces(Piece(x)) = x
  BY TextOfOnePiece
<1>3. TextOfPieces(p) \in Line
  BY AppendedText
<1> DEFINE x == Piece(prefix)
           y == Piece(suffix)
<1>3a. x \in Pieces /\ TextOfPieces(x) = prefix /\ y \in Pieces /\ TextOfPieces(y) = suffix
  BY <1>2, Zenon
<1> HIDE DEF x, y
<1>4. TextOfPieces(x \o p) = prefix \o TextOfPieces(p)
  <2>1. TextOfPieces(x \o p) = TextOfPieces(x) \o TextOfPieces(p)
    BY <1>1, <1>3a
  <2> QED
    BY <1>3a, <2>1, Zenon
<1>5. TextOfPieces(p \o y) = TextOfPieces(p) \o suffix
  <2>1. TextOfPieces(p \o y) = TextOfPieces(p) \o TextOfPieces(y)
    BY <1>1, <1>3a
  <2> QED
    BY <1>3a, <2>1, Zenon
<1> QED
  BY <1>1, <1>3, <1>3a, <1>4, <1>5, Zenon DEF x, y

(* A format the function does not accept: the mark of an error is          *)
(* appended.                                                               *)
LEMMA ErrorText ==
    ASSUME NEW prefix \in Line
    PROVE  /\ Piece(prefix) \o Piece(<<ErrorMark>>) \in Pieces
           /\ TextOfPieces(Piece(prefix) \o Piece(<<ErrorMark>>)) = prefix \o <<ErrorMark>>
<1>1. <<ErrorMark>> \in Line
  BY DEF Line, ErrorMark
<1>2. /\ Piece(<<ErrorMark>>) \in Pieces
      /\ TextOfPieces(Piece(<<ErrorMark>>)) = <<ErrorMark>>
  BY <1>1, TextOfOnePiece, Zenon
<1> QED
  <2> DEFINE p == Piece(<<ErrorMark>>)
  <2>1. p \in Pieces /\ TextOfPieces(p) = <<ErrorMark>>
    BY <1>2
  <2> HIDE DEF p
  <2>2. /\ Piece(prefix) \o p \in Pieces
        /\ TextOfPieces(Piece(prefix) \o p) = prefix \o TextOfPieces(p)
    BY <2>1, Around
  <2>3. TextOfPieces(Piece(prefix) \o p) = prefix \o <<ErrorMark>>
    BY <2>1, <2>2, Zenon
  <2> QED
    BY <2>2, <2>3 DEF p

(* A number with the text around it: its field shows it.                   *)
LEMMA TextOfNumber ==
    ASSUME NEW f \in AFormat, NEW v \in Int, NEW base \in Bases, NEW letter \in Letters,
           Letter(f, base, letter),
           NEW num, IsNumeral(num, Size(v), base, letter)
    PROVE  LET p == PaddedNumber(SignOf(v, f.plus) \o num, f)
               q == Piece(f.prefix) \o (p \o Piece(f.suffix))
           IN  /\ q \in Pieces
               /\ \E field \in Line : /\ TextOfPieces(q) = f.prefix \o (field \o f.suffix)
                                      /\ ShowsNumber(field, f, v, base)
<1> DEFINE p == PaddedNumber(SignOf(v, f.plus) \o num, f)
           q == p \o Piece(f.suffix)
<1>1. p \in Pieces /\ ShowsNumber(TextOfPieces(p), f, v, base)
  BY PaddedShows
<1>2. f.prefix \in Line /\ f.suffix \in Line
  BY WordIsText DEF AFormat
<1> HIDE DEF p
<1>3. /\ q \in Pieces /\ TextOfPieces(q) = TextOfPieces(p) \o f.suffix
      /\ TextOfPieces(p) \in Line
  BY <1>1, <1>2, Around, Zenon
<1> HIDE DEF q
<1>4. /\ Piece(f.prefix) \o q \in Pieces
      /\ TextOfPieces(Piece(f.prefix) \o q) = f.prefix \o TextOfPieces(q)
  BY <1>2, <1>3, Around, Zenon
<1> DEFINE t == TextOfPieces(p)
<1>5. t \in Line /\ TextOfPieces(Piece(f.prefix) \o q) = f.prefix \o (t \o f.suffix)
  BY <1>3, <1>4, Zenon
<1> QED
  BY <1>1, <1>4, <1>5, Zenon DEF p, q

(* What dwarfstring_append_printf_i appends: the number in its field.      *)
LEMMA TextOfPiecesI ==
    ASSUME NEW f \in AFormat, NEW v \in Int
    PROVE  LET p == PiecesI(f, v)
           IN  /\ p \in Pieces
               /\ RefusedI(f) => TextOfPieces(p) = f.prefix \o <<ErrorMark>>
               /\ ~RefusedI(f) =>
                    \E field \in Line : /\ TextOfPieces(p) = f.prefix \o (field \o f.suffix)
                                        /\ ShowsNumber(field, f, v, 10)
<1>1. f.prefix \in Line
  BY WordIsText DEF AFormat
<1>2. CASE RefusedI(f)
  <2>1. PiecesI(f, v) = Piece(f.prefix) \o Piece(<<ErrorMark>>)
    BY <1>2, Zenon DEF PiecesI
  <2> QED
    BY <1>1, <1>2, <2>1, ErrorText, Zenon
<1>3. CASE ~RefusedI(f)
  <2> DEFINE num == Digits(Size(v), 10, 97)
             d == SignOf(v, f.plus) \o num
             q == Piece(f.prefix) \o (PaddedNumber(d, f) \o Piece(f.suffix))
  <2>1. Size(v) \in Nat /\ 10 \in Bases /\ 97 \in Letters /\ Letter(f, 10, 97)
    BY DEF Size, Bases, Letters, Letter
  <2>2. IsNumeral(num, Size(v), 10, 97)
    BY <2>1, DigitsAreNumeral, Zenon
  <2>3. num \in Line
    BY <2>2 DEF IsNumeral
  <2>4. Decimal(v, f.plus) = d
    <3>1. f.plus \in BOOLEAN
      BY DEF AFormat
    <3>2. << >> \o num = num
      BY <2>3, ConcatIsText, Zenon
    <3>3. CASE v < 0
      <4>1. Size(v) = -v /\ SignOf(v, f.plus) = <<Minus>>
        BY <3>3 DEF Size, SignOf
      <4>2. CASE v = Least
        <5>1. Decimal(v, f.plus) = <<Minus>> \o Digits(-v, 10, 97)
          BY <3>3, <4>2 DEF Decimal, LeastWritten
        <5> QED
          BY <4>1, <5>1
      <4>3. CASE v # Least
        <5>1. Decimal(v, f.plus) = <<Minus>> \o Digits(-v, 10, 97)
          BY <3>3, <4>3 DEF Decimal, Negated
        <5> QED
          BY <4>1, <5>1
      <4> QED
        BY <4>2, <4>3
    <3>4. CASE ~(v < 0)
      <4>1. v >= 0 /\ Size(v) = v
        BY <3>4 DEF Size
      <4>2. CASE f.plus
        BY <3>4, <4>1, <4>2 DEF Decimal, SignOf
      <4>3. CASE ~f.plus
        <5>1. Decimal(v, f.plus) = num
          BY <3>4, <4>1, <4>3 DEF Decimal
        <5> QED
          BY <3>2, <3>4, <4>3, <5>1, Zenon DEF SignOf
      <4> QED
        BY <4>2, <4>3
    <3> QED
      BY <3>3, <3>4
  <2>5. PiecesI(f, v) = q
    BY <1>3, <2>4, Zenon DEF PiecesI
  <2> HIDE DEF num
  <2>6. /\ q \in Pieces
        /\ \E field \in Line : /\ TextOfPieces(q) = f.prefix \o (field \o f.suffix)
                               /\ ShowsNumber(field, f, v, 10)
    BY <2>1, <2>2, TextOfNumber, Zenon
  <2> HIDE DEF d, q
  <2> QED
    BY <1>3, <2>5, <2>6, Zenon
<1> QED
  BY <1>2, <1>3

(* What dwarfstring_append_printf_u appends: the number in its field.      *)
LEMMA TextOfPiecesU ==
    ASSUME NEW f \in AFormat, NEW v \in Nat, ~f.plus
    PROVE  LET p == PiecesU(f, v)
           IN  /\ p \in Pieces
               /\ RefusedU(f) => TextOfPieces(p) = f.prefix \o <<ErrorMark>>
               /\ ~RefusedU(f) =>
                    \E field \in Line :
                        /\ TextOfPieces(p) = f.prefix \o (field \o f.suffix)
                        /\ ShowsNumber(field, f, v, IF f.conv = {"u"} THEN 10 ELSE 16)
<1>1. f.prefix \in Line
  BY WordIsText DEF AFormat
<1>2. CASE RefusedU(f)
  <2>1. PiecesU(f, v) = Piece(f.prefix) \o Piece(<<ErrorMark>>)
    BY <1>2, Zenon DEF PiecesU
  <2> QED
    BY <1>1, <1>2, <2>1, ErrorText, Zenon
<1>3. CASE ~RefusedU(f)
  <2> DEFINE base == IF f.conv = {"u"} THEN 10 ELSE 16
             letter == IF f.conv = {"X"} THEN 65 ELSE 97
             num == Digits(v, base, letter)
             d == SignOf(v, f.plus) \o num
             q == Piece(f.prefix) \o (PaddedNumber(d, f) \o Piece(f.suffix))
  <2>1. Size(v) = v /\ v \in Int /\ ~(v < 0)
    BY DEF Size
  <2>2. base \in Bases /\ letter \in Letters
    BY DEF Bases, Letters
  <2>3. Letter(f, base, letter)
    <3>1. f.conv \in {{"u"}, {"x"}, {"X"}}
      BY <1>3, Zenon DEF RefusedU, Refused
    <3>2. f.conv = {"u"} \/ f.conv = {"x"} \/ f.conv = {"X"}
      BY <3>1, Zenon
    <3>3. 10 # 16
      OBVIOUS
    <3>4. {"x"} # {"X"} /\ {"x"} # {"u"} /\ {"X"} # {"u"}
      OBVIOUS
    <3>5. CASE f.conv = {"u"}
      BY <3>3, <3>5, Zenon DEF Letter
    <3>6. CASE f.conv = {"x"}
      BY <3>4, <3>6, Zenon DEF Letter
    <3>7. CASE f.conv = {"X"}
      BY <3>4, <3>7, Zenon DEF Letter
    <3> QED
      BY <3>2, <3>5, <3>6, <3>7
  <2>4. IsNumeral(num, v, base, letter)
    <3> HIDE DEF base, letter
    <3> QED
      BY <2>2, DigitsAreNumeral, Zenon
  <2>5. num \in Line
    BY <2>4, Zenon DEF IsNumeral
  <2>6. d = num
    <3>1. << >> \o num = num
      BY <2>5, ConcatIsText, Zenon
    <3> QED
      BY <2>1, <3>1, Zenon DEF SignOf
  <2>7. PiecesU(f, v) = Piece(f.prefix) \o (PaddedNumber(num, f) \o Piece(f.suffix))
    BY <1>3, Zenon DEF PiecesU
  <2> HIDE DEF num, base, letter
  <2>8. /\ q \in Pieces
        /\ \E field \in Line : /\ TextOfPieces(q) = f.prefix \o (field \o f.suffix)
                               /\ ShowsNumber(field, f, v, base)
    <3>1. IsNumeral(num, Size(v), base, letter)
      BY <2>1, <2>4, Zenon
    <3> QED
      BY <2>1, <2>2, <2>3, <3>1, TextOfNumber, Zenon
  <2>9. PiecesU(f, v) = q
    BY <2>6, <2>7, Zenon
  <2> HIDE DEF d, q
  <2> QED
    BY <1>3, <2>8, <2>9, Zenon DEF base
<1> QED
  BY <1>2, <1>3
Plain(f) == f.percent /\ f.conv = {"s"} /\ f.ells = 0

(* What dwarfstring_append_printf_s appends: the word, filled up with      *)
(* blanks.                                                                 *)
LEMMA TextOfPiecesS ==
    ASSUME NEW f \in AFormat, NEW s \in Seq(Nat)
    PROVE  LET p == PiecesS(f, s)
           IN  /\ p \in Pieces
               /\ ~Plain(f) => TextOfPieces(p) = f.prefix \o <<ErrorMark>>
               /\ Plain(f) =>
                    \E field \in Line : /\ TextOfPieces(p) = f.prefix \o (field \o f.suffix)
                                        /\ ShowsString(field, f, s)
<1>1. f.prefix \in Line /\ f.suffix \in Line /\ s \in Line
  BY WordIsText DEF AFormat
<1>2. CASE ~Plain(f)
  <2>1. PiecesS(f, s) = Piece(f.prefix) \o Piece(<<ErrorMark>>)
    BY <1>2 DEF PiecesS, Plain
  <2> QED
    BY <1>1, <1>2, <2>1, ErrorText, Zenon
<1>3. CASE Plain(f)
  <2> DEFINE n == IF f.width > Len(s) THEN f.width - Len(s) ELSE 0
             left == f.minus /\ (f.width = 0 \/ f.width > Len(s))
             short == f.width # 0 /\ f.width < Len(s)
             row == [k \in 1 .. n |-> Piece(<<Space>>)[1]]
             core == CASE left  -> Piece(s) \o Pad(n, Space) \o Piece(f.suffix)
                        [] short -> Piece(s) \o Piece(f.suffix)
                        [] OTHER -> row \o Piece(s) \o Chained(f.suffix)
             field == IF f.minus THEN s \o Fill(n, Space) ELSE Fill(n, Space) \o s
  <2>1. PiecesS(f, s) = Piece(f.prefix) \o core
    <3>1. f.percent /\ f.conv = {"s"} /\ f.ells = 0
      BY <1>3 DEF Plain
    <3>2. ~(~f.percent \/ f.conv # {"s"} \/ f.ells # 0)
      BY <3>1, Zenon
    <3> QED
      BY <3>2, Zenon DEF PiecesS
  <2>2. Len(s) \in Nat /\ f.width \in Nat /\ f.minus \in BOOLEAN /\ n \in Nat
    BY DEF AFormat
  <2>3. \A x \in Pieces, y \in Pieces :
            x \o y \in Pieces /\ TextOfPieces(x \o y) = TextOfPieces(x) \o TextOfPieces(y)
    BY TextOfConcat
  <2>4. /\ Piece(s) \in Pieces /\ TextOfPieces(Piece(s)) = s
        /\ Piece(f.suffix) \in Pieces /\ TextOfPieces(Piece(f.suffix)) = f.suffix
        /\ Chained(f.suffix) \in Pieces /\ TextOfPieces(Chained(f.suffix)) = f.suffix
    <3>1. \A x \in Line : /\ Piece(x) \in Pieces /\ TextOfPieces(Piece(x)) = x
                          /\ Chained(x) \in Pieces /\ TextOfPieces(Chained(x)) = x
      BY TextOfOnePiece
    <3> QED
      BY <1>1, <3>1, Zenon
  <2>5. /\ Pad(n, Space) \in Pieces /\ TextOfPieces(Pad(n, Space)) = Fill(n, Space)
        /\ row \in Pieces /\ TextOfPieces(row) = Fill(n, Space)
        /\ Fill(n, Space) \in Line /\ Space \in Int
        /\ Fill(0, Space) = << >>
    <3>1. Space \in Int
      BY DEF Space
    <3> HIDE DEF n
    <3>2. Pad(n, Space) \in Pieces /\ TextOfPieces(Pad(n, Space)) = Fill(n, Space)
      BY <2>2, <3>1, PadIsFill, Zenon
    <3>3. row \in Pieces /\ TextOfPieces(row) = Fill(n, Space)
      BY <2>2, BlanksAreFill, Zenon
    <3>4. Fill(n, Space) \in Line /\ Fill(0, Space) = << >>
      BY <2>2, <3>1, FillSpec
    <3> QED
      BY <3>1, <3>2, <3>3, <3>4
  <2>6. /\ s \o Fill(n, Space) \in Line /\ Fill(n, Space) \o s \in Line
        /\ s \o << >> = s /\ << >> \o s = s
    <3>1. \A x, y \in Line : x \o y \in Line /\ x \o << >> = x /\ << >> \o x = x
      BY ConcatIsText
    <3> HIDE DEF n
    <3> QED
      BY <1>1, <2>5, <3>1, Zenon
  <2>7. field \in Line
    BY <2>6
  <2>8. ShowsString(field, f, s)
    BY DEF ShowsString
  <2>9. core \in Pieces /\ TextOfPieces(core) = field \o f.suffix
    <3>1. CASE left
      <4>1. core = (Piece(s) \o Pad(n, Space)) \o Piece(f.suffix)
        <5>1. ~short
          BY <2>2, <3>1
        <5> HIDE DEF left, short, n
        <5> QED
          BY <3>1, <5>1
      <4>2. field = s \o Fill(n, Space)
        BY <3>1
      <4> HIDE DEF n, core, field
      <4> DEFINE u == Piece(s)
                 w == Pad(n, Space)
                 x == u \o w
                 y == Piece(f.suffix)
      <4>3. x \in Pieces /\ TextOfPieces(x) = s \o Fill(n, Space)
        <5>1. u \in Pieces /\ w \in Pieces /\ TextOfPieces(u) = s /\ TextOfPieces(w) = Fill(n, Space)
          BY <2>4, <2>5
        <5> HIDE DEF u, w
        <5>2. x \in Pieces /\ TextOfPieces(x) = TextOfPieces(u) \o TextOfPieces(w)
          BY <2>3, <5>1
        <5> HIDE DEF x
        <5> QED
          BY <5>1, <5>2, Zenon
      <4>4. y \in Pieces /\ TextOfPieces(y) = f.suffix
        BY <2>4
      <4> HIDE DEF x, y
      <4>5. x \o y \in Pieces /\ TextOfPieces(x \o y) = TextOfPieces(x) \o TextOfPieces(y)
        BY <2>3, <4>3, <4>4
      <4>6. core = x \o y
        BY <4>1 DEF x, y
      <4> QED
        BY <4>2, <4>3, <4>4, <4>5, <4>6, Zenon
    <3>2. CASE short
      <4>1. ~left
        BY <2>2, <3>2
      <4>2. core = Piece(s) \o Piece(f.suffix)
        <5> HIDE DEF left, short
        <5> QED
          BY <3>2, <4>1
      <4>3. field = s
        <5>1. n = 0
          BY <2>2, <3>2
        <5> HIDE DEF n
        <5> QED
          BY <2>5, <2>6, <5>1, Zenon
      <4> DEFINE x == Piece(s)
                 y == Piece(f.suffix)
      <4>4. x \in Pieces /\ TextOfPieces(x) = s /\ y \in Pieces /\ TextOfPieces(y) = f.suffix
        BY <2>4
      <4>5. core = x \o y
        BY <4>2
      <4> HIDE DEF x, y, core, field
      <4>6. x \o y \in Pieces /\ TextOfPieces(x \o y) = TextOfPieces(x) \o TextOfPieces(y)
        BY <2>3, <4>4
      <4> QED
        BY <4>3, <4>4, <4>5, <4>6, Zenon
    <3>3. CASE ~left /\ ~short
      <4>1. core = (row \o Piece(s)) \o Chained(f.suffix)
        <5> HIDE DEF left, short, row
        <5> QED
          BY <3>3
      <4>2. field = Fill(n, Space) \o s
        <5>1. f.minus => n = 0
          BY <2>2, <3>3
        <5> HIDE DEF n
        <5>2. CASE f.minus
          BY <2>5, <2>6, <5>1, <5>2, Zenon
        <5>3. CASE ~f.minus
          BY <5>3
        <5> QED
          BY <5>2, <5>3
      <4> HIDE DEF n, core, field, row
      <4> DEFINE w == Piece(s)
                 x == row \o w
                 y == Chained(f.suffix)
      <4>3. x \in Pieces /\ TextOfPieces(x) = Fill(n, Space) \o s
        <5>1. w \in Pieces /\ TextOfPieces(w) = s
          BY <2>4
        <5> HIDE DEF w
        <5>2. x \in Pieces /\ TextOfPieces(x) = TextOfPieces(row) \o TextOfPieces(w)
          BY <2>3, <2>5, <5>1
        <5> HIDE DEF x
        <5> QED
          BY <2>5, <5>1, <5>2, Zenon
      <4>4. y \in Pieces /\ TextOfPieces(y) = f.suffix
        BY <2>4
      <4> HIDE DEF x, y
      <4>5. x \o y \in Pieces /\ TextOfPieces(x \o y) = TextOfPieces(x) \o TextOfPieces(y)
        BY <2>3, <4>3, <4>4
      <4>6. core = x \o y
        BY <4>1 DEF x, y
      <4> QED
        BY <4>2, <4>3, <4>4, <4>5, <4>6, Zenon
    <3> HIDE DEF left, short, core, field
    <3> QED
      BY <3>1, <3>2, <3>3
  <2> HIDE DEF core, field, n
  <2>10. /\ Piece(f.prefix) \o core \in Pieces
         /\ TextOfPieces(Piece(f.prefix) \o core) = f.prefix \o TextOfPieces(core)
    BY <1>1, <2>9, Around
  <2>11. TextOfPieces(PiecesS(f, s)) = f.prefix \o (field \o f.suffix)
    BY <2>1, <2>9, <2>10, Zenon
  <2> QED
    BY <1>3, <2>1, <2>7, <2>8, <2>10, <2>11, Zenon
<1> QED
  BY <1>2, <1>3

(* One call, as far as text and memory go.                                 *)
LEMMA AppendsSpec ==
    ASSUME NEW pieces \in Pieces, NEW c, text \in Line, Appends(pieces, c)
    PROVE  /\ text' \in Line /\ before' = text /\ call' = c
           /\ ~lost' => text' = text \o TextOfPieces(pieces)
<1>1. PICK refused : /\ text' = text \o AppendAll(pieces, refused)
                     /\ before' = text /\ call' = c /\ lost' = (refused # {})
  BY DEF Appends
<1>2. AppendAll(pieces, refused) \in Line /\ AppendAll(pieces, {}) = TextOfPieces(pieces)
  BY AppendedText
<1>3. text' \in Line
  <2> DEFINE t == AppendAll(pieces, refused)
  <2>1. t \in Line
    BY <1>2
  <2> HIDE DEF t
  <2>2. text \o t \in Line
    BY <2>1, ConcatIsText
  <2> QED
    BY <1>1, <2>2 DEF t
<1>4. ASSUME ~lost' PROVE text' = text \o TextOfPieces(pieces)
  <2>1. refused = {}
    BY <1>1, <1>4
  <2> QED
    BY <1>1, <1>2, <2>1, Zenon
<1> QED
  BY <1>1, <1>3, <1>4

(* What stands in the field, read off the text.                            *)
FieldPart(t, b, prefix, suffix) ==
    SubSeq(t, Len(b) + Len(prefix) + 1, Len(t) - Len(suffix))

(* The field is found where the text before it and the text behind it say. *)
LEMMA FieldOfText ==
    ASSUME NEW b \in Line, NEW prefix \in Line, NEW field \in Line, NEW suffix \in Line
    PROVE  /\ b \o (prefix \o (field \o suffix)) = b \o prefix \o field \o suffix
           /\ FieldPart(b \o prefix \o field \o suffix, b, prefix, suffix) = field
<1> DEFINE u == b \o prefix
           t == b \o (prefix \o (field \o suffix))
<1>1. u \in Line /\ Len(u) = Len(b) + Len(prefix) /\ field \o suffix \in Line
  BY ConcatIsText, Zenon
<1>2. t = u \o (field \o suffix)
  <2>1. b \o (prefix \o (field \o suffix)) = (b \o prefix) \o (field \o suffix)
    BY <1>1, ConcatAssociates, Zenon
  <2> QED
    BY <2>1, Zenon
<1> HIDE DEF u
<1>3. /\ u \o (field \o suffix) = (u \o field) \o suffix
      /\ SubSeq((u \o field) \o suffix, Len(u) + 1, Len((u \o field) \o suffix) - Len(suffix)) = field
  BY <1>1, MiddlePart, Zenon
<1> HIDE DEF t
<1>4. t = (u \o field) \o suffix
  BY <1>2, <1>3, Zenon
<1>5. SubSeq((u \o field) \o suffix, Len(b) + Len(prefix) + 1,
             Len((u \o field) \o suffix) - Len(suffix)) = field
  BY <1>1, <1>3, Zenon
<1> QED
  BY <1>4, <1>5, Zenon DEF t, u, FieldPart
(* The invariant, and that each call leaves it.                            *)
LikeC == text \in Line /\ FormatsLikeC

(* What a format is made of.                                               *)
LEMMA FormatIsTyped ==
    Formats \subseteq AFormat /\ Words \subseteq Seq(Nat)
BY FormatsAssumption DEF AFormat

(* What a call appended, said the way FormatsLikeC says it.                *)
LEMMA FormatLegal ==
    ASSUME NEW f \in AFormat, NEW b \in Line, NEW t, NEW legal \in BOOLEAN,
           NEW Showing \in SUBSET Line,
           ~legal => t = b \o (f.prefix \o <<ErrorMark>>),
           legal => \E field \in Showing : t = b \o (f.prefix \o (field \o f.suffix))
    PROVE  LET first == Len(b) + Len(f.prefix)
               field == SubSeq(t, first + 1, Len(t) - Len(f.suffix))
           IN  IF ~legal THEN t = b \o f.prefix \o <<ErrorMark>>
               ELSE t = b \o f.prefix \o field \o f.suffix /\ field \in Showing
<1>1. f.prefix \in Line /\ f.suffix \in Line
  BY WordIsText DEF AFormat
<1>2. CASE ~legal
  <2>1. <<ErrorMark>> \in Line
    BY DEF Line, ErrorMark
  <2>2. b \o (f.prefix \o <<ErrorMark>>) = (b \o f.prefix) \o <<ErrorMark>>
    BY <1>1, <2>1, ConcatAssociates, Zenon
  <2> QED
    BY <1>2, <2>2, Zenon
<1>3. CASE legal
  <2>1. PICK field \in Showing : t = b \o (f.prefix \o (field \o f.suffix))
    BY <1>3
  <2> DEFINE first == Len(b) + Len(f.prefix)
             core == SubSeq(t, first + 1, Len(t) - Len(f.suffix))
  <2>2. field \in Line
    OBVIOUS
  <2>3. core = field /\ t = b \o f.prefix \o core \o f.suffix
    <3>1. FieldPart(t, b, f.prefix, f.suffix) = field /\ t = b \o f.prefix \o field \o f.suffix
      <4> DEFINE x == f.prefix
                 y == f.suffix
      <4>1. x \in Line /\ y \in Line
        BY <1>1
      <4>2. t = b \o (x \o (field \o y))
        BY <2>1
      <4> HIDE DEF x, y
      <4>3. /\ b \o (x \o (field \o y)) = b \o x \o field \o y
            /\ FieldPart(b \o x \o field \o y, b, x, y) = field
        <5>1. \A p \in Line, q \in Line, r \in Line :
                 /\ b \o (p \o (q \o r)) = b \o p \o q \o r
                 /\ FieldPart(b \o p \o q \o r, b, p, r) = q
          BY FieldOfText
        <5> QED
          BY <2>2, <4>1, <5>1, Zenon
      <4>4. FieldPart(t, b, x, y) = field /\ t = b \o x \o field \o y
        BY <4>2, <4>3, Zenon
      <4> QED
        BY <4>4 DEF x, y
    <3>2. core = field
      BY <3>1, Zenon DEF FieldPart
    <3> HIDE DEF core
    <3> QED
      BY <3>1, <3>2, Zenon
  <2> QED
    BY <1>3, <2>1, <2>3, Zenon
<1> QED
  BY <1>2, <1>3

(* Words: the call keeps the invariant.                                    *)
LEMMA StepS ==
    ASSUME LikeC, dwarfstring_append_printf_s
    PROVE  LikeC'
<1>1. text \in Line
  BY DEF LikeC
<1>2. PICK f \in Formats, s \in Words :
          Appends(PiecesS(f, s), [op |-> "s", format |-> f, arg |-> s])
  BY DEF dwarfstring_append_printf_s
<1>3. f \in AFormat /\ s \in Seq(Nat)
  BY FormatIsTyped
<1> DEFINE p == PiecesS(f, s)
           legal == Plain(f)
           Showing == {x \in Line : ShowsString(x, f, s)}
           c == [op |-> "s", format |-> f, arg |-> s]
<1>4. /\ p \in Pieces
      /\ ~legal => TextOfPieces(p) = f.prefix \o <<ErrorMark>>
      /\ legal => \E field \in Showing : TextOfPieces(p) = f.prefix \o (field \o f.suffix)
  <2>1. /\ p \in Pieces
        /\ ~Plain(f) => TextOfPieces(p) = f.prefix \o <<ErrorMark>>
        /\ Plain(f) =>
             \E field \in Line : /\ TextOfPieces(p) = f.prefix \o (field \o f.suffix)
                                 /\ ShowsString(field, f, s)
    BY <1>3, TextOfPiecesS, Zenon
  <2> HIDE DEF p
  <2> QED
    BY <2>1, Zenon
<1> HIDE DEF p, c
<1>5. /\ text' \in Line /\ before' = text /\ call' = c
      /\ ~lost' => text' = text \o TextOfPieces(p)
  BY <1>1, <1>2, <1>4, AppendsSpec DEF p, c
<1>6. ASSUME ~lost' PROVE FormatsLikeC'
  <2>1. /\ ~legal => text' = text \o (f.prefix \o <<ErrorMark>>)
        /\ legal => \E field \in Showing : text' = text \o (f.prefix \o (field \o f.suffix))
    BY <1>4, <1>5, <1>6, Zenon
  <2>2. legal \in BOOLEAN /\ Showing \in SUBSET Line
    BY <1>3 DEF Plain, AFormat
  <2> DEFINE first == Len(text) + Len(f.prefix)
             field == SubSeq(text', first + 1, Len(text') - Len(f.suffix))
  <2>3. IF ~legal THEN text' = text \o f.prefix \o <<ErrorMark>>
        ELSE text' = text \o f.prefix \o field \o f.suffix /\ field \in Showing
    <3> HIDE DEF legal, Showing
    <3> QED
      BY <1>1, <1>3, <2>1, <2>2, FormatLegal, Zenon
  <2>4. call'.op = "s" /\ call'.format = f /\ call'.arg = s
    BY <1>5 DEF c
  <2>5. "s" # "i" /\ "s" # "u"
    OBVIOUS
  <2> QED
    BY <1>5, <2>3, <2>4, <2>5, Zenon DEF FormatsLikeC, Plain
<1>7. lost' => FormatsLikeC'
  BY DEF FormatsLikeC
<1> QED
  BY <1>5, <1>6, <1>7 DEF LikeC

(* Signed numbers: the call keeps the invariant.                           *)
LEMMA StepI ==
    ASSUME LikeC, dwarfstring_append_printf_i
    PROVE  LikeC'
<1>1. text \in Line
  BY DEF LikeC
<1>2. PICK f \in Formats, v \in Signed :
          Appends(PiecesI(f, v), [op |-> "i", format |-> f, arg |-> v])
  BY DEF dwarfstring_append_printf_i
<1>3. f \in AFormat /\ v \in Int
  BY FormatIsTyped, ValuesAssumption
<1> DEFINE p == PiecesI(f, v)
           legal == ~RefusedI(f)
           Showing == {x \in Line : ShowsNumber(x, f, v, 10)}
           c == [op |-> "i", format |-> f, arg |-> v]
<1>4. /\ p \in Pieces
      /\ ~legal => TextOfPieces(p) = f.prefix \o <<ErrorMark>>
      /\ legal => \E field \in Showing : TextOfPieces(p) = f.prefix \o (field \o f.suffix)
  <2>1. /\ p \in Pieces
        /\ RefusedI(f) => TextOfPieces(p) = f.prefix \o <<ErrorMark>>
        /\ ~RefusedI(f) =>
             \E field \in Line : /\ TextOfPieces(p) = f.prefix \o (field \o f.suffix)
                                 /\ ShowsNumber(field, f, v, 10)
    BY <1>3, TextOfPiecesI, Zenon
  <2> HIDE DEF p
  <2> QED
    BY <2>1, Zenon
<1> HIDE DEF p, c
<1>5. /\ text' \in Line /\ before' = text /\ call' = c
      /\ ~lost' => text' = text \o TextOfPieces(p)
  BY <1>1, <1>2, <1>4, AppendsSpec DEF p, c
<1>6. ASSUME ~lost' PROVE FormatsLikeC'
  <2>1. /\ ~legal => text' = text \o (f.prefix \o <<ErrorMark>>)
        /\ legal => \E field \in Showing : text' = text \o (f.prefix \o (field \o f.suffix))
    BY <1>4, <1>5, <1>6, Zenon
  <2>2. legal \in BOOLEAN /\ Showing \in SUBSET Line
    BY DEF RefusedI
  <2> DEFINE first == Len(text) + Len(f.prefix)
             field == SubSeq(text', first + 1, Len(text') - Len(f.suffix))
  <2>3. IF ~legal THEN text' = text \o f.prefix \o <<ErrorMark>>
        ELSE text' = text \o f.prefix \o field \o f.suffix /\ field \in Showing
    <3> HIDE DEF legal, Showing
    <3> QED
      BY <1>1, <1>3, <2>1, <2>2, FormatLegal, Zenon
  <2>4. call'.op = "i" /\ call'.format = f /\ call'.arg = v
    BY <1>5 DEF c
  <2>5. "i" # "s" /\ "i" # "u"
    OBVIOUS
  <2> QED
    BY <1>5, <2>3, <2>4, <2>5, Zenon DEF FormatsLikeC
<1>7. lost' => FormatsLikeC'
  BY DEF FormatsLikeC
<1> QED
  BY <1>5, <1>6, <1>7 DEF LikeC

(* Unsigned numbers: the call keeps the invariant.                         *)
LEMMA StepU ==
    ASSUME LikeC, dwarfstring_append_printf_u
    PROVE  LikeC'
<1>1. text \in Line
  BY DEF LikeC
<1>2. PICK f \in Formats, v \in Unsigned :
          /\ ~f.plus
          /\ Appends(PiecesU(f, v), [op |-> "u", format |-> f, arg |-> v])
  BY DEF dwarfstring_append_printf_u
<1>3. f \in AFormat /\ v \in Nat
  BY FormatIsTyped, ValuesAssumption
<1> DEFINE p == PiecesU(f, v)
           legal == ~RefusedU(f)
           base == IF f.conv = {"u"} THEN 10 ELSE 16
           Showing == {x \in Line : ShowsNumber(x, f, v, base)}
           c == [op |-> "u", format |-> f, arg |-> v]
<1>4. /\ p \in Pieces
      /\ ~legal => TextOfPieces(p) = f.prefix \o <<ErrorMark>>
      /\ legal => \E field \in Showing : TextOfPieces(p) = f.prefix \o (field \o f.suffix)
  <2>1. /\ p \in Pieces
        /\ RefusedU(f) => TextOfPieces(p) = f.prefix \o <<ErrorMark>>
        /\ ~RefusedU(f) =>
             \E field \in Line : /\ TextOfPieces(p) = f.prefix \o (field \o f.suffix)
                                 /\ ShowsNumber(field, f, v, base)
    BY <1>2, <1>3, TextOfPiecesU, Zenon
  <2> HIDE DEF p, base
  <2> QED
    BY <2>1, Zenon
<1> HIDE DEF p, c
<1>5. /\ text' \in Line /\ before' = text /\ call' = c
      /\ ~lost' => text' = text \o TextOfPieces(p)
  BY <1>1, <1>2, <1>4, AppendsSpec DEF p, c
<1>6. ASSUME ~lost' PROVE FormatsLikeC'
  <2>1. /\ ~legal => text' = text \o (f.prefix \o <<ErrorMark>>)
        /\ legal => \E field \in Showing : text' = text \o (f.prefix \o (field \o f.suffix))
    <3> HIDE DEF base
    <3> QED
      BY <1>4, <1>5, <1>6, Zenon
  <2>2. legal \in BOOLEAN /\ Showing \in SUBSET Line
    BY DEF RefusedU
  <2> DEFINE first == Len(text) + Len(f.prefix)
             field == SubSeq(text', first + 1, Len(text') - Len(f.suffix))
  <2>3. IF ~legal THEN text' = text \o f.prefix \o <<ErrorMark>>
        ELSE text' = text \o f.prefix \o field \o f.suffix /\ field \in Showing
    <3> HIDE DEF legal, Showing
    <3> QED
      BY <1>1, <1>3, <2>1, <2>2, FormatLegal, Zenon
  <2>4. call'.op = "u" /\ call'.format = f /\ call'.arg = v
    BY <1>5 DEF c
  <2>5. "u" # "s" /\ "u" # "i"
    OBVIOUS
  <2> QED
    BY <1>5, <2>3, <2>4, <2>5, Zenon DEF FormatsLikeC
<1>7. lost' => FormatsLikeC'
  BY DEF FormatsLikeC
<1> QED
  BY <1>5, <1>6, <1>7 DEF LikeC
-----------------------------------------------------------------------------
(* The names of constants.  A name is a character past 256.                *)
Has(s) == {c \in Int : c > 256 /\ \E i \in 1 .. Len(s) : s[i] = c}

(* The names in a line of two are those in the one and in the other.       *)
LEMMA HasConcat ==
    ASSUME NEW u \in Line, NEW v \in Line
    PROVE  Has(u \o v) = Has(u) \cup Has(v)
<1> DEFINE t == u \o v
<1>1. /\ Len(t) = Len(u) + Len(v) /\ Len(u) \in Nat /\ Len(v) \in Nat
      /\ \A k \in 1 .. Len(u) + Len(v) :
            t[k] = IF k <= Len(u) THEN u[k] ELSE v[k - Len(u)]
  <2>1. /\ Len(t) = Len(u) + Len(v)
        /\ \A k \in 1 .. Len(u) + Len(v) :
              t[k] = IF k <= Len(u) THEN u[k] ELSE v[k - Len(u)]
    BY ConcatIsText, Zenon
  <2> QED
    BY <2>1 DEF Line
<1> HIDE DEF t
<1>2. ASSUME NEW i \in 1 .. Len(t)
      PROVE  (\E j \in 1 .. Len(u) : u[j] = t[i]) \/ (\E j \in 1 .. Len(v) : v[j] = t[i])
  <2>1. CASE i <= Len(u)
    <3>1. i \in 1 .. Len(u) /\ u[i] = t[i]
      BY <1>1, <2>1
    <3> QED
      BY <3>1
  <2>2. CASE ~(i <= Len(u))
    <3>1. i - Len(u) \in 1 .. Len(v) /\ v[i - Len(u)] = t[i]
      BY <1>1, <2>2
    <3> QED
      BY <3>1
  <2> QED
    BY <2>1, <2>2
<1>3. ASSUME NEW j \in 1 .. Len(u)
      PROVE  \E i \in 1 .. Len(t) : t[i] = u[j]
  <2>1. j \in 1 .. Len(t) /\ t[j] = u[j]
    BY <1>1
  <2> QED
    BY <2>1
<1>4. ASSUME NEW j \in 1 .. Len(v)
      PROVE  \E i \in 1 .. Len(t) : t[i] = v[j]
  <2> DEFINE i == Len(u) + j
  <2>1. i \in 1 .. Len(t) /\ i \in 1 .. Len(u) + Len(v) /\ ~(i <= Len(u)) /\ i - Len(u) = j
    BY <1>1
  <2> HIDE DEF i
  <2>2. t[i] = v[i - Len(u)]
    BY <1>1, <2>1
  <2>3. t[i] = v[j]
    BY <2>1, <2>2
  <2> QED
    BY <2>1, <2>3
<1>5. ASSUME NEW c PROVE c \in Has(t) <=> c \in Has(u) \cup Has(v)
  <2>1. ASSUME c \in Has(t) PROVE c \in Has(u) \cup Has(v)
    <3>1. PICK i \in 1 .. Len(t) : t[i] = c
      BY <2>1 DEF Has
    <3> QED
      BY <1>2, <2>1, <3>1 DEF Has
  <2>2. ASSUME c \in Has(u) PROVE c \in Has(t)
    <3>1. PICK i \in 1 .. Len(u) : u[i] = c
      BY <2>2 DEF Has
    <3> QED
      BY <1>3, <2>2, <3>1 DEF Has
  <2>3. ASSUME c \in Has(v) PROVE c \in Has(t)
    <3>1. PICK i \in 1 .. Len(v) : v[i] = c
      BY <2>3 DEF Has
    <3> QED
      BY <1>4, <2>3, <3>1 DEF Has
  <2> QED
    BY <2>1, <2>2, <2>3
<1> QED
  BY <1>5 DEF t

(* A line of one character has a name only if the character is one.        *)
LEMMA HasOne ==
    ASSUME NEW c \in Int
    PROVE  /\ <<c>> \in Line /\ Len(<<c>>) = 1 /\ << >> \in Line
           /\ Has(<<c>>) = {x \in {c} : x > 256}
           /\ Has(<< >>) = {}
<1>1. <<c>> \in Line /\ Len(<<c>>) = 1 /\ <<c>>[1] = c /\ << >> \in Line /\ Len(<< >>) = 0
  BY DEF Line
<1>2. \A i \in 1 .. 1 : i = 1
  OBVIOUS
<1>3. Has(<<c>>) = {x \in {c} : x > 256}
  BY <1>1, <1>2 DEF Has
<1>4. Has(<< >>) = {}
  BY <1>1 DEF Has
<1> QED
  BY <1>1, <1>3, <1>4

(* There is no name among digits.                                          *)
LEMMA NumeralHasNone ==
    ASSUME NEW s, NEW v, NEW base \in Bases, NEW letter \in Letters,
           IsNumeral(s, v, base, letter)
    PROVE  s \in Line /\ Has(s) = {}
<1>1. s \in Line /\ \A k \in 1 .. Len(s) : s[k] \in DigitChars(base, letter)
  BY DEF IsNumeral
<1>2. \A c \in DigitChars(base, letter) : ~(c > 256)
  BY DEF DigitChars, Letters
<1> QED
  BY <1>1, <1>2 DEF Has

(* A number in no field.                                                   *)
Bare(prefix, conv, suffix) ==
    [prefix |-> prefix, percent |-> TRUE, minus |-> FALSE, plus |-> FALSE,
     zero |-> FALSE, width |-> 0, ells |-> 0, conv |-> conv, suffix |-> suffix]
Convs == {{"u"}, {"x"}}
InBase(v, conv) == Digits(v, IF conv = {"u"} THEN 10 ELSE 16, 97)

(* Its digits, with the text before them and behind them.                  *)
LEMMA BareNumber ==
    ASSUME NEW prefix \in Line, NEW suffix \in Line, NEW v \in Nat, NEW conv \in Convs
    PROVE  /\ PiecesU(Bare(prefix, conv, suffix), v) \in Pieces
           /\ TextOfPieces(PiecesU(Bare(prefix, conv, suffix), v))
                = prefix \o (InBase(v, conv) \o suffix)
           /\ InBase(v, conv) \in Line /\ Has(InBase(v, conv)) = {}
<1> DEFINE f == Bare(prefix, conv, suffix)
           base == IF conv = {"u"} THEN 10 ELSE 16
           num == Digits(v, base, 97)
<1>1. base \in Bases /\ 97 \in Letters
  BY DEF Bases, Letters
<1>2. /\ f.prefix = prefix /\ f.suffix = suffix /\ f.conv = conv /\ f.percent = TRUE
      /\ f.minus = FALSE /\ f.width = 0 /\ f.ells = 0
  BY DEF Bare
<1> HIDE DEF f, base
<1>3. IsNumeral(num, v, base, 97)
  BY <1>1, DigitsAreNumeral, Zenon
<1>4. num \in Line /\ Has(num) = {} /\ Len(num) \in Nat /\ Len(num) >= 1
  <2>1. num \in Line /\ Has(num) = {}
    BY <1>1, <1>3, NumeralHasNone, Zenon
  <2>2. Len(num) >= 1
    BY <1>3 DEF IsNumeral
  <2> HIDE DEF num
  <2> QED
    BY <2>1, <2>2 DEF Line
<1>5. ~RefusedU(f)
  <2>1. f.conv \in {{"u"}, {"x"}, {"X"}} /\ ~(0 > 2)
    BY <1>2 DEF Convs
  <2> QED
    BY <1>2, <2>1, Zenon DEF RefusedU, Refused
<1>6. {"x"} # {"X"} /\ {"u"} # {"X"}
  OBVIOUS
<1>7. ~(f.conv = {"X"})
  BY <1>2, <1>6, Zenon DEF Convs
<1>8. PiecesU(f, v) = Piece(prefix) \o (PaddedNumber(num, f) \o Piece(suffix))
  BY <1>2, <1>5, <1>7, Zenon DEF PiecesU, base
<1> HIDE DEF num
<1>9. PaddedNumber(num, f) = Piece(num)
  <2>1. f.width - Len(num) <= 0 /\ ~(f.width - Len(num) > 0)
    BY <1>2, <1>4
  <2> QED
    BY <2>1 DEF PaddedNumber
<1> DEFINE p == Piece(num)
           q == p \o Piece(suffix)
<1>10. p \in Pieces /\ TextOfPieces(p) = num
  BY <1>4, TextOfOnePiece, Zenon
<1> HIDE DEF p
<1>11. q \in Pieces /\ TextOfPieces(q) = num \o suffix
  <2>1. q \in Pieces /\ TextOfPieces(q) = TextOfPieces(p) \o suffix
    BY <1>10, Around, Zenon
  <2> QED
    BY <1>10, <2>1, Zenon
<1>12. PiecesU(f, v) = Piece(prefix) \o q
  BY <1>8, <1>9, Zenon DEF p
<1> HIDE DEF q
<1>13. /\ Piece(prefix) \o q \in Pieces
       /\ TextOfPieces(Piece(prefix) \o q) = prefix \o TextOfPieces(q)
  BY <1>11, Around
<1>14. TextOfPieces(PiecesU(f, v)) = prefix \o (num \o suffix)
  BY <1>11, <1>12, <1>13, Zenon
<1> QED
  BY <1>4, <1>12, <1>13, <1>14, Zenon DEF f, num, base, InBase

(* An unknown number is shown with its digits and without a name.          *)
LEMMA UnknownText ==
    ASSUME NEW opened \in Line, Has(opened) = {}, NEW n \in Nat
    PROVE  /\ UnknownNumber(opened, n) \in Pieces
           /\ Has(TextOfPieces(UnknownNumber(opened, n))) = {}
           /\ \E rest \in Line :
                 TextOfPieces(UnknownNumber(opened, n)) =
                     ((opened \o <<Unknown>>) \o Digits(n, 10, 97)) \o (<<Hex>> \o rest)
<1> DEFINE first == opened \o <<Unknown>>
           f == Bare(first, {"u"}, << >>)
           g == Bare(<<Hex>>, {"x"}, <<Close>>)
           p == PiecesU(f, n)
           q == PiecesU(g, n)
           ten == Digits(n, 10, 97)
           sixteen == Digits(n, 16, 97)
           rest == sixteen \o <<Close>>
<1>1. Unknown \in Int /\ Hex \in Int /\ Close \in Int
        /\ ~(Unknown > 256) /\ ~(Hex > 256) /\ ~(Close > 256)
  BY DEF Unknown, Hex, Close
<1>2. /\ <<Unknown>> \in Line /\ <<Hex>> \in Line /\ <<Close>> \in Line /\ << >> \in Line
      /\ Has(<<Unknown>>) = {} /\ Has(<<Hex>>) = {} /\ Has(<<Close>>) = {}
      /\ Has(<< >>) = {}
  <2>1. \A c \in Int : ~(c > 256) => <<c>> \in Line /\ << >> \in Line /\ Has(<<c>>) = {}
                                       /\ Has(<< >>) = {}
    BY HasOne
  <2> QED
    BY <1>1, <2>1, Zenon
<1>3. \A x, y \in Line : x \o y \in Line /\ x \o << >> = x
  BY ConcatIsText
<1>4. \A x, y \in Line : Has(x) = {} /\ Has(y) = {} => Has(x \o y) = {}
  BY HasConcat
<1>5. first \in Line /\ Has(first) = {}
  BY <1>2, <1>3, <1>4, Zenon
<1>6. UnknownNumber(opened, n) = p \o q
  BY Zenon DEF UnknownNumber, Bare
<1>7. {"u"} # {"x"} /\ {"u"} \in Convs /\ {"x"} \in Convs
  BY DEF Convs
<1> HIDE DEF first, ten, sixteen
<1>8. /\ p \in Pieces /\ TextOfPieces(p) = first \o (ten \o << >>)
      /\ ten \in Line /\ Has(ten) = {}
  <2>1. /\ PiecesU(Bare(first, {"u"}, << >>), n) \in Pieces
        /\ TextOfPieces(PiecesU(Bare(first, {"u"}, << >>), n))
             = first \o (InBase(n, {"u"}) \o << >>)
        /\ InBase(n, {"u"}) \in Line /\ Has(InBase(n, {"u"})) = {}
    BY <1>2, <1>5, <1>7, BareNumber, Zenon
  <2> QED
    BY <2>1, Zenon DEF ten, InBase
<1>9. /\ q \in Pieces /\ TextOfPieces(q) = <<Hex>> \o (sixteen \o <<Close>>)
      /\ sixteen \in Line /\ Has(sixteen) = {}
  <2>1. /\ PiecesU(Bare(<<Hex>>, {"x"}, <<Close>>), n) \in Pieces
        /\ TextOfPieces(PiecesU(Bare(<<Hex>>, {"x"}, <<Close>>), n))
             = <<Hex>> \o (InBase(n, {"x"}) \o <<Close>>)
        /\ InBase(n, {"x"}) \in Line /\ Has(InBase(n, {"x"})) = {}
    BY <1>2, <1>5, <1>7, BareNumber, Zenon
  <2>2. ~({"x"} = {"u"})
    BY <1>7
  <2> QED
    BY <2>1, <2>2, Zenon DEF sixteen, InBase
<1> HIDE DEF p, q
<1>10. TextOfPieces(p) = first \o ten
  <2>1. ten \o << >> = ten
    BY <1>2, <1>3, <1>8, Zenon
  <2> QED
    BY <1>8, <2>1, Zenon
<1>11. rest \in Line /\ Has(rest) = {} /\ TextOfPieces(q) = <<Hex>> \o rest
  BY <1>2, <1>3, <1>4, <1>9, Zenon
<1> HIDE DEF rest
<1>12. p \o q \in Pieces /\ TextOfPieces(p \o q) = (first \o ten) \o (<<Hex>> \o rest)
  <2>1. p \o q \in Pieces /\ TextOfPieces(p \o q) = TextOfPieces(p) \o TextOfPieces(q)
    BY <1>8, <1>9, TextOfConcat, Zenon
  <2> QED
    BY <1>10, <1>11, <2>1, Zenon
<1>13. Has((first \o ten) \o (<<Hex>> \o rest)) = {}
  <2>1. first \o ten \in Line /\ Has(first \o ten) = {}
    BY <1>3, <1>4, <1>5, <1>8, Zenon
  <2>2. <<Hex>> \o rest \in Line /\ Has(<<Hex>> \o rest) = {}
    BY <1>2, <1>3, <1>4, <1>11, Zenon
  <2> QED
    BY <1>4, <2>1, <2>2, Zenon
<1>14. TextOfPieces(UnknownNumber(opened, n)) = (first \o ten) \o (<<Hex>> \o rest)
  BY <1>6, <1>12, Zenon
<1>15. UnknownNumber(opened, n) \in Pieces
  BY <1>6, <1>12, Zenon
<1>16. Has(TextOfPieces(UnknownNumber(opened, n))) = {}
  BY <1>13, <1>14, Zenon
<1> QED
  BY <1>11, <1>14, <1>15, <1>16, Zenon DEF first, ten

(* The names at some places of a table, each of them and no other.         *)
LEMMA NamesText ==
    ASSUME NEW n \in Nat, NEW places \in SUBSET (1 .. n)
    PROVE  /\ NamesAt(n, places) \in Pieces
           /\ Has(TextOfPieces(NamesAt(n, places))) = {NameOf(k) : k \in places}
<1> DEFINE blank == Piece(<<Space>>)
           label(k) == Piece(<<NameOf(k)>>)
           entry(h, k) ==
             IF k = 0 THEN << >>
             ELSE IF k \notin places THEN h[k - 1]
             ELSE h[k - 1] \o (IF h[k - 1] = << >> THEN << >> ELSE blank) \o label(k)
           want(h) == h = [k \in 0 .. n |-> entry(h, k)]
           step == [p \in (1 .. n) \X Pieces |->
                      IF p[1] \notin places THEN p[2]
                      ELSE p[2] \o (IF p[2] = << >> THEN << >> ELSE blank) \o label(p[1])]
           h == CHOOSE x : want(x)
<1>1. \A p, q \in Pieces :
          p \o q \in Pieces /\ TextOfPieces(p \o q) = TextOfPieces(p) \o TextOfPieces(q)
  BY TextOfConcat
<1>2. \A p \in Pieces : TextOfPieces(p) \in Line
  BY AppendedText
<1>3. /\ blank \in Pieces /\ Has(TextOfPieces(blank)) = {}
      /\ << >> \in Pieces /\ Has(TextOfPieces(<< >>)) = {}
  <2>1. Space \in Int /\ ~(Space > 256)
    BY DEF Space
  <2>2. <<Space>> \in Line /\ Has(<<Space>>) = {} /\ Has(<< >>) = {}
    BY <2>1, HasOne
  <2>3. blank \in Pieces /\ TextOfPieces(blank) = <<Space>>
    BY <2>2, TextOfOnePiece, Zenon
  <2>4. << >> \in Pieces /\ TextOfPieces(<< >>) = << >>
    BY <2>2, TextOfOnePiece, Zenon
  <2> QED
    BY <2>2, <2>3, <2>4, Zenon
<1>4. ASSUME NEW k \in 1 .. n
      PROVE  label(k) \in Pieces /\ Has(TextOfPieces(label(k))) = {NameOf(k)}
  <2>1. NameOf(k) \in Int /\ NameOf(k) > 256
    BY DEF NameOf
  <2>2. <<NameOf(k)>> \in Line /\ Has(<<NameOf(k)>>) = {NameOf(k)}
    BY <2>1, HasOne
  <2>3. label(k) \in Pieces /\ TextOfPieces(label(k)) = <<NameOf(k)>>
    BY <2>2, TextOfOnePiece, Zenon
  <2> QED
    BY <2>2, <2>3, Zenon
<1> HIDE DEF blank, label
<1>5. step \in [(1 .. n) \X Pieces -> Pieces]
  <2> SUFFICES ASSUME NEW k \in 1 .. n, NEW x \in Pieces
               PROVE  (IF k \notin places THEN x
                       ELSE x \o (IF x = << >> THEN << >> ELSE blank) \o label(k)) \in Pieces
    OBVIOUS
  <2>1. (IF x = << >> THEN << >> ELSE blank) \in Pieces /\ label(k) \in Pieces
    BY <1>3, <1>4
  <2> QED
    BY <1>1, <2>1, Zenon
<1>6. PICK g : Goes(g, Pieces, n, << >>, step)
  <2> HIDE DEF step
  <2> QED
    BY <1>3, <1>5, StepsExist, Zenon
<1>7. want(g)
  <2>1. g \in [0 .. n -> Pieces] /\ g[0] = << >>
    BY <1>6 DEF Goes
  <2>2. ASSUME NEW k \in 0 .. n PROVE g[k] = entry(g, k)
    <3>1. CASE k = 0
      BY <2>1, <3>1
    <3>2. CASE k # 0
      <4>1. k \in 1 .. n /\ k - 1 \in 0 .. n
        BY <3>2
      <4>2. g[k - 1] \in Pieces
        BY <2>1, <4>1
      <4>3. g[k] = step[<<k, g[k - 1]>>]
        BY <1>6, <4>1 DEF Goes
      <4>4. step[<<k, g[k - 1]>>] = entry(g, k)
        BY <3>2, <4>1, <4>2
      <4> QED
        BY <4>3, <4>4
    <3> QED
      BY <3>1, <3>2
  <2> HIDE DEF entry
  <2> QED
    BY <2>1, <2>2
<1>8. want(h)
  <2> HIDE DEF want
  <2> QED
    BY <1>7
<1>9. NamesAt(n, places) = h[n]
  BY DEF NamesAt, blank, label
<1> HIDE DEF h
<1>10. \A k \in 0 .. n : h[k] = entry(h, k)
  <2> HIDE DEF entry
  <2> QED
    BY <1>8
<1> DEFINE upto(k) == {NameOf(j) : j \in {i \in places : i <= k}}
           Good == {k \in 0 .. n : h[k] \in Pieces /\ Has(TextOfPieces(h[k])) = upto(k)}
<1>11. 0 \in Good
  <2>1. h[0] = << >>
    BY <1>10
  <2>2. upto(0) = {} /\ 0 \in 0 .. n
    OBVIOUS
  <2> HIDE DEF upto
  <2> QED
    BY <1>3, <2>1, <2>2
<1>12. ASSUME NEW k \in 1 .. n, k - 1 \in Good PROVE k \in Good
  <2>1. k \in 0 .. n /\ k # 0
    OBVIOUS
  <2>2. h[k - 1] \in Pieces /\ Has(TextOfPieces(h[k - 1])) = upto(k - 1)
    BY <1>12
  <2>3. CASE k \notin places
    <3>1. h[k] = h[k - 1]
      BY <1>10, <2>1, <2>3
    <3>2. upto(k) = upto(k - 1)
      <4>1. {i \in places : i <= k} = {i \in places : i <= k - 1}
        <5>1. \A i \in places : i \in Int /\ i # k /\ (i <= k <=> i <= k - 1)
          BY <2>3
        <5> QED
          BY <5>1, Zenon
      <4> QED
        BY <4>1, Zenon
    <3> HIDE DEF upto
    <3> QED
      BY <2>1, <2>2, <3>1, <3>2
  <2>4. CASE k \in places
    <3> DEFINE x == h[k - 1]
               y == IF h[k - 1] = << >> THEN << >> ELSE blank
               z == label(k)
    <3>1. h[k] = (x \o y) \o z
      BY <1>10, <2>1, <2>4
    <3>2. x \in Pieces /\ y \in Pieces /\ z \in Pieces
      BY <1>3, <1>4, <2>2
    <3>3. Has(TextOfPieces(y)) = {} /\ Has(TextOfPieces(z)) = {NameOf(k)}
      BY <1>3, <1>4
    <3>4. Has(TextOfPieces(x)) = upto(k - 1)
      BY <2>2
    <3> HIDE DEF x, y, z
    <3>5. \A p, q \in Pieces : Has(TextOfPieces(p \o q)) = Has(TextOfPieces(p)) \cup Has(TextOfPieces(q))
      <4> TAKE p, q \in Pieces
      <4> DEFINE s == TextOfPieces(p)
                 t == TextOfPieces(q)
      <4>1. s \in Line /\ t \in Line /\ TextOfPieces(p \o q) = s \o t
        BY <1>1, <1>2
      <4> HIDE DEF s, t
      <4>2. Has(s \o t) = Has(s) \cup Has(t)
        BY <4>1, HasConcat
      <4> QED
        BY <4>1, <4>2, Zenon DEF s, t
    <3>6. x \o y \in Pieces /\ (x \o y) \o z \in Pieces
      BY <1>1, <3>2, Zenon
    <3>7. Has(TextOfPieces((x \o y) \o z)) = (upto(k - 1) \cup {}) \cup {NameOf(k)}
      <4>1. Has(TextOfPieces((x \o y) \o z)) = Has(TextOfPieces(x \o y)) \cup Has(TextOfPieces(z))
        BY <3>2, <3>5, <3>6, Zenon
      <4>2. Has(TextOfPieces(x \o y)) = Has(TextOfPieces(x)) \cup Has(TextOfPieces(y))
        BY <3>2, <3>5, Zenon
      <4> HIDE DEF upto
      <4> QED
        BY <3>3, <3>4, <4>1, <4>2
    <3>8. (upto(k - 1) \cup {}) \cup {NameOf(k)} = upto(k)
      <4>1. {i \in places : i <= k} = {i \in places : i <= k - 1} \cup {k}
        <5>1. \A i \in places : i \in Int /\ (i <= k <=> i <= k - 1 \/ i = k)
          OBVIOUS
        <5> QED
          BY <2>4, <5>1, Zenon
      <4> QED
        BY <4>1
    <3> HIDE DEF upto
    <3> QED
      BY <2>1, <3>1, <3>6, <3>7, <3>8
  <2> QED
    BY <2>3, <2>4
<1>13. n \in Good
  <2> HIDE DEF Good
  <2> QED
    BY <1>11, <1>12, EveryLength
<1>14. upto(n) = {NameOf(k) : k \in places}
  <2>1. {i \in places : i <= n} = places
    <3>1. \A i \in places : i <= n
      OBVIOUS
    <3> QED
      BY <3>1, Zenon
  <2> QED
    BY <2>1, Zenon
<1> HIDE DEF upto
<1> QED
  BY <1>9, <1>13, <1>14
(* The table of machines is in order.                                      *)
Ordered(s, lo, hi) ==
    /\ s \in Line
    /\ \A i \in 1 .. Len(s) : lo <= s[i] /\ s[i] <= hi
    /\ \A i \in 1 .. Len(s) : \A j \in i .. Len(s) : s[i] <= s[j]

(* A run of numbers is in order.                                           *)
LEMMA UptoSpec ==
    ASSUME NEW a \in Int, NEW b \in Int, a <= b
    PROVE  Upto(a, b) \in Line /\ Len(Upto(a, b)) = b - a + 1 /\ Ordered(Upto(a, b), a, b)
<1>1. Upto(a, b) \in Line
  BY DEF Upto, Line
<1>2. Len(Upto(a, b)) = b - a + 1 /\ \A k \in 1 .. b - a + 1 : Upto(a, b)[k] = a + k - 1
  BY DEF Upto
<1> QED
  BY <1>1, <1>2 DEF Ordered

(* A single number is in order.                                            *)
LEMMA OrderedOne ==
    ASSUME NEW c \in Int
    PROVE  Ordered(<<c>>, c, c)
BY DEF Ordered, Line

(* Runs in order, one behind the other, are in order.                      *)
LEMMA OrderedConcat ==
    ASSUME NEW u, NEW v, NEW lo \in Int, NEW m \in Int, NEW k \in Int, NEW hi \in Int,
           Ordered(u, lo, m), Ordered(v, k, hi), lo <= m, m <= k, k <= hi
    PROVE  Ordered(u \o v, lo, hi)
<1> DEFINE t == u \o v
<1>1. /\ u \in Line /\ v \in Line
      /\ Len(u) \in Nat /\ Len(v) \in Nat
  BY DEF Ordered, Line
<1>2. /\ t \in Line /\ Len(t) = Len(u) + Len(v)
      /\ \A i \in 1 .. Len(u) + Len(v) :
            t[i] = IF i <= Len(u) THEN u[i] ELSE v[i - Len(u)]
  BY <1>1, ConcatIsText, Zenon
<1> HIDE DEF t
<1>3. /\ \A i \in 1 .. Len(u) : u[i] \in Int /\ lo <= u[i] /\ u[i] <= m
      /\ \A i \in 1 .. Len(v) : v[i] \in Int /\ k <= v[i] /\ v[i] <= hi
      /\ \A i \in 1 .. Len(u) : \A j \in i .. Len(u) : u[i] <= u[j]
      /\ \A i \in 1 .. Len(v) : \A j \in i .. Len(v) : v[i] <= v[j]
  BY DEF Ordered, Line
<1>4. ASSUME NEW i \in 1 .. Len(t) PROVE lo <= t[i] /\ t[i] <= hi
  <2>1. CASE i <= Len(u)
    <3>1. i \in 1 .. Len(u) /\ t[i] = u[i]
      BY <1>1, <1>2, <2>1
    <3> QED
      BY <1>3, <3>1
  <2>2. CASE ~(i <= Len(u))
    <3>1. i - Len(u) \in 1 .. Len(v) /\ t[i] = v[i - Len(u)]
      BY <1>1, <1>2, <2>2
    <3> QED
      BY <1>3, <3>1
  <2> QED
    BY <2>1, <2>2
<1>5. ASSUME NEW i \in 1 .. Len(t), NEW j \in i .. Len(t) PROVE t[i] <= t[j]
  <2>0. j \in 1 .. Len(t)
    BY <1>1, <1>2
  <2>1. CASE j <= Len(u)
    <3>1. i \in 1 .. Len(u) /\ t[i] = u[i] /\ j \in i .. Len(u) /\ t[j] = u[j]
      BY <1>1, <1>2, <2>0, <2>1
    <3> QED
      BY <1>3, <3>1
  <2>2. CASE i <= Len(u) /\ ~(j <= Len(u))
    <3>1. i \in 1 .. Len(u) /\ t[i] = u[i] /\ j - Len(u) \in 1 .. Len(v) /\ t[j] = v[j - Len(u)]
      BY <1>1, <1>2, <2>0, <2>2
    <3> QED
      BY <1>3, <3>1
  <2>3. CASE ~(i <= Len(u))
    <3>1. /\ i - Len(u) \in 1 .. Len(v) /\ t[i] = v[i - Len(u)]
          /\ j - Len(u) \in i - Len(u) .. Len(v) /\ t[j] = v[j - Len(u)]
      BY <1>1, <1>2, <2>0, <2>3
    <3> QED
      BY <1>3, <3>1
  <2> QED
    BY <1>1, <2>1, <2>2, <2>3
<1> QED
  BY <1>2, <1>4, <1>5 DEF Ordered, t

(* The entries of the table stand in the order of their numbers.           *)
LEMMA MachinesOrdered ==
    Ordered(emvals, 0, 16727)
<1> DEFINE last == <<224, 243, 244, 247, 252, 258, 16727>>
<1>1. \A a, b \in Int : a <= b => Ordered(Upto(a, b), a, b)
  BY UptoSpec
<1>2. \A c \in Int : Ordered(<<c>>, c, c)
  BY OrderedOne
<1>3. Ordered(last, 224, 16727)
  <2>1. last \in Line /\ Len(last) = 7
    BY DEF Line
  <2>2. \A i \in 1 .. 7 : 224 <= last[i] /\ last[i] <= 16727
    OBVIOUS
  <2>3. \A i \in 1 .. 6 : last[i] <= last[i + 1]
    OBVIOUS
  <2>4. \A i \in 1 .. 7 : \A j \in i .. 7 : last[i] <= last[j]
    OBVIOUS
  <2> QED
    BY <2>1, <2>2, <2>4 DEF Ordered
<1> HIDE DEF last
<1> DEFINE t1 == Upto(0, 10) \o <<15>>
           t2 == t1 \o Upto(17, 23)
           t3 == t2 \o Upto(36, 120)
           t4 == t3 \o Upto(131, 142)
           t5 == t4 \o Upto(160, 168)
           t6 == t5 \o <<168>>
           t7 == t6 \o Upto(169, 181)
           t8 == t7 \o <<183>>
           t9 == t8 \o Upto(185, 188)
           t10 == t9 \o Upto(190, 219)
           t11 == t10 \o last
<1>4. Ordered(t1, 0, 15)
  <2>1. Ordered(Upto(0, 10), 0, 10) /\ Ordered(<<15>>, 15, 15)
    BY <1>1, <1>2
  <2> QED
    BY <2>1, OrderedConcat
<1> HIDE DEF t1
<1>5. Ordered(t2, 0, 23)
  <2>1. Ordered(Upto(17, 23), 17, 23)
    BY <1>1
  <2> QED
    BY <1>4, <2>1, OrderedConcat
<1> HIDE DEF t2
<1>6. Ordered(t3, 0, 120)
  <2>1. Ordered(Upto(36, 120), 36, 120)
    BY <1>1
  <2> QED
    BY <1>5, <2>1, OrderedConcat
<1> HIDE DEF t3
<1>7. Ordered(t4, 0, 142)
  <2>1. Ordered(Upto(131, 142), 131, 142)
    BY <1>1
  <2> QED
    BY <1>6, <2>1, OrderedConcat
<1> HIDE DEF t4
<1>8. Ordered(t5, 0, 168)
  <2>1. Ordered(Upto(160, 168), 160, 168)
    BY <1>1
  <2> QED
    BY <1>7, <2>1, OrderedConcat
<1> HIDE DEF t5
<1>9. Ordered(t6, 0, 168)
  <2>1. Ordered(<<168>>, 168, 168)
    BY <1>2
  <2> QED
    BY <1>8, <2>1, OrderedConcat
<1> HIDE DEF t6
<1>10. Ordered(t7, 0, 181)
  <2>1. Ordered(Upto(169, 181), 169, 181)
    BY <1>1
  <2> QED
    BY <1>9, <2>1, OrderedConcat
<1> HIDE DEF t7
<1>11. Ordered(t8, 0, 183)
  <2>1. Ordered(<<183>>, 183, 183)
    BY <1>2
  <2> QED
    BY <1>10, <2>1, OrderedConcat
<1> HIDE DEF t8
<1>12. Ordered(t9, 0, 188)
  <2>1. Ordered(Upto(185, 188), 185, 188)
    BY <1>1
  <2> QED
    BY <1>11, <2>1, OrderedConcat
<1> HIDE DEF t9
<1>13. Ordered(t10, 0, 219)
  <2>1. Ordered(Upto(190, 219), 190, 219)
    BY <1>1
  <2> QED
    BY <1>12, <2>1, OrderedConcat
<1> HIDE DEF t10
<1>14. Ordered(t11, 0, 16727)
  BY <1>3, <1>13, OrderedConcat
<1> QED
  BY <1>14 DEF emvals, t1, t2, t3, t4, t5, t6, t7, t8, t9, t10, t11, last
(* Every table is a sequence.                                              *)
LEMMA DtValsAreText ==
    dtvals \in Line
<1> DEFINE p1 == Upto(0, 30)
           p2 == <<32, 32, 33, Os, Proc - 1, Proc, Topmost>>
           p3 == Upto(Os + 15, Os + 18)
           p4 == <<Proc - 267, Proc - 6, Proc - 5, Proc - 16, Proc - 4, Proc - 3>>
           p5 == <<Proc - 1, Proc, Proc + 1, Proc + 2>>
           p6 == Upto(Proc + 1, Proc + 11)
           p7 == Upto(Proc + 16, Proc + 20)
           p8 == Upto(Proc + 22, Proc + 30)
           p9 == Upto(Proc + 32, Proc + 50)
           p10 == <<Proc + 52, Proc + 53>>
           p11 == Upto(Topmost - 2, Topmost)
           p12 == <<Proc - 768>>
           p13 == Upto(Proc - 523, Proc - 513)
           p14 == <<Proc - 513, Proc - 512>>
           p15 == Upto(Proc - 266, Proc - 257)
           p16 == <<Proc - 257, Proc - 7, Proc - 2>>
           p17 == <<Proc, Proc + 1>>
           p18 == Upto(Proc, Proc + 3)
           p19 == <<Proc + 1>>
<1>0. \A x, y \in Line : x \o y \in Line
  BY ConcatIsText
<1>1. p1 \in Line
  BY SMT, UptoSpec
<1>2. p2 \in Line
  BY SMT DEF Os, Proc, Topmost, Line
<1>3. p3 \in Line
  BY SMT, UptoSpec DEF Os
<1>4. p4 \in Line
  BY SMT DEF Proc, Line
<1>5. p5 \in Line
  BY SMT DEF Proc, Line
<1>6. p6 \in Line
  BY SMT, UptoSpec DEF Proc
<1>7. p7 \in Line
  BY SMT, UptoSpec DEF Proc
<1>8. p8 \in Line
  BY SMT, UptoSpec DEF Proc
<1>9. p9 \in Line
  BY SMT, UptoSpec DEF Proc
<1>10. p10 \in Line
  BY SMT DEF Proc, Line
<1>11. p11 \in Line
  BY SMT, UptoSpec DEF Topmost
<1>12. p12 \in Line
  BY SMT DEF Proc, Line
<1>13. p13 \in Line
  BY SMT, UptoSpec DEF Proc
<1>14. p14 \in Line
  BY SMT DEF Proc, Line
<1>15. p15 \in Line
  BY SMT, UptoSpec DEF Proc
<1>16. p16 \in Line
  BY SMT DEF Proc, Line
<1>17. p17 \in Line
  BY SMT DEF Proc, Line
<1>18. p18 \in Line
  BY SMT, UptoSpec DEF Proc
<1>19. p19 \in Line
  BY SMT DEF Proc, Line
<1>20. dtvals =
             p1 \o p2 \o p3 \o p4 \o p5 \o p6 \o p7 \o p8 \o p9 \o p10
             \o p11 \o p12 \o p13 \o p14 \o p15 \o p16 \o p17 \o p18 \o p19
  BY SMT DEF dtvals
<1> HIDE DEF p1, p2, p3, p4, p5, p6, p7, p8, p9, p10, p11, p12, p13, p14, p15, p16, p17, p18, p19
<1>21. p1 \o p2 \o p3 \o p4 \o p5 \o p6 \o p7 \o p8 \o p9 \o p10
         \o p11 \o p12 \o p13 \o p14 \o p15 \o p16 \o p17 \o p18 \o p19 \in Line
  BY <1>0, <1>1, <1>2, <1>3, <1>4, <1>5, <1>6, <1>7, <1>8, <1>9, <1>10, <1>11,
     <1>12, <1>13, <1>14, <1>15, <1>16, <1>17, <1>18, <1>19, Zenon
<1> QED
  BY <1>20, <1>21, Zenon

(* The table of segment types.                                             *)
LEMMA PtValsAreText ==
    pt_vals \in Line
<1> DEFINE p1 == Upto(0, 7)
           p2 == <<Os, Proc - 1, Proc, Topmost>>
           p3 == <<1685382480, 1685382480, 1684333904, 1685382481, 1685382482>>
           p4 == <<1705237478, 1705237479, 1694766464, 1705253862>>
           p5 == <<Proc, Proc + 1, Proc + 1>>
           p6 == Upto(Proc, Proc + 3)
           p7 == <<Proc>>
<1>0. \A x, y \in Line : x \o y \in Line
  BY ConcatIsText
<1>1. p1 \in Line
  BY SMT, UptoSpec
<1>2. p2 \in Line
  BY SMT DEF Os, Proc, Topmost, Line
<1>3. p3 \in Line
  BY SMT DEF Line
<1>4. p4 \in Line
  BY SMT DEF Line
<1>5. p5 \in Line
  BY SMT DEF Proc, Line
<1>6. p6 \in Line
  BY SMT, UptoSpec DEF Proc
<1>7. p7 \in Line
  BY SMT DEF Proc, Line
<1>8. pt_vals = p1 \o p2 \o p3 \o p4 \o p5 \o p6 \o p7
  BY SMT DEF pt_vals
<1> HIDE DEF p1, p2, p3, p4, p5, p6, p7
<1>9. p1 \o p2 \o p3 \o p4 \o p5 \o p6 \o p7 \in Line
  BY <1>0, <1>1, <1>2, <1>3, <1>4, <1>5, <1>6, <1>7, Zenon
<1> QED
  BY <1>8, <1>9, Zenon

(* The table of section types.                                             *)
LEMMA ShtValsAreText ==
    sht_vals \in Line
<1> DEFINE p1 == Upto(0, 11)
           p2 == Upto(14, 18)
           p3 == Upto(Os, Os + 2)
           p4 == <<Proc - 46080, Proc - 11, Proc - 10, Proc - 3, Proc - 2>>
           p5 == <<Proc - 1, Proc - 1>>
           p6 == Upto(Proc, Proc + 5)
           p7 == <<Proc, Proc + 1>>
           p8 == <<Proc + 6, Proc + 13, Proc + 30, Proc + 42, Topmost, -Topmost - 1, -1>>
<1>0. \A x, y \in Line : x \o y \in Line
  BY ConcatIsText
<1>1. p1 \in Line
  BY SMT, UptoSpec
<1>2. p2 \in Line
  BY SMT, UptoSpec
<1>3. p3 \in Line
  BY SMT, UptoSpec DEF Os
<1>4. p4 \in Line
  BY SMT DEF Proc, Line
<1>5. p5 \in Line
  BY SMT DEF Proc, Line
<1>6. p6 \in Line
  BY SMT, UptoSpec DEF Proc
<1>7. p7 \in Line
  BY SMT DEF Proc, Line
<1>8. p8 \in Line
  BY SMT DEF Proc, Topmost, Line
<1>9. sht_vals = p1 \o p2 \o p3 \o p4 \o p5 \o p6 \o p7 \o p8
  BY SMT DEF sht_vals
<1> HIDE DEF p1, p2, p3, p4, p5, p6, p7, p8
<1>10. p1 \o p2 \o p3 \o p4 \o p5 \o p6 \o p7 \o p8 \in Line
  BY <1>0, <1>1, <1>2, <1>3, <1>4, <1>5, <1>6, <1>7, <1>8, Zenon
<1> QED
  BY <1>9, <1>10, Zenon

(* The table of symbol visibilities.                                       *)
LEMMA StoValsAreText ==
    sto_vals \in Line
<1> DEFINE p1 == Upto(0, 4)
           p2 == <<8, 32, 128, 240, 5, 224>>
<1>0. \A x, y \in Line : x \o y \in Line
  BY ConcatIsText
<1>1. p1 \in Line
  BY SMT, UptoSpec
<1>2. p2 \in Line
  BY SMT DEF Line
<1>3. sto_vals = p1 \o p2
  BY SMT DEF sto_vals
<1> HIDE DEF p1, p2
<1>4. p1 \o p2 \in Line
  BY <1>0, <1>1, <1>2, Zenon
<1> QED
  BY <1>3, <1>4, Zenon

(* The table of section numbers.                                           *)
LEMMA ShnValsAreText ==
    shn_vals \in Line
<1> DEFINE p1 == <<0, 65280, 65280, 65311, 65312, 65343, 65521, 65522, 65535, 65535>>
           p2 == Upto(65280, 65284)
<1>0. \A x, y \in Line : x \o y \in Line
  BY ConcatIsText
<1>1. p1 \in Line
  BY SMT DEF Line
<1>2. p2 \in Line
  BY SMT, UptoSpec
<1>3. shn_vals = p1 \o p2
  BY SMT DEF shn_vals
<1> HIDE DEF p1, p2
<1>4. p1 \o p2 \in Line
  BY <1>0, <1>1, <1>2, Zenon
<1> QED
  BY <1>3, <1>4, Zenon

(* The table of symbol bindings.                                           *)
LEMMA StbValsAreText ==
    stb_vals \in Line
<1> DEFINE p1 == <<0, 1, 2, 10, 10, 12, 13, 15>>
<1>0. \A x, y \in Line : x \o y \in Line
  BY ConcatIsText
<1>1. p1 \in Line
  BY SMT DEF Line
<1>2. stb_vals = p1
  BY SMT DEF stb_vals
<1> HIDE DEF p1
<1>3. p1 \in Line
  BY <1>0, <1>1, Zenon
<1> QED
  BY <1>2, <1>3, Zenon

(* The table of symbol types.                                              *)
LEMMA SttValsAreText ==
    stt_vals \in Line
<1> DEFINE p1 == Upto(0, 6)
           p2 == <<10, 10, 12, 13, 15, 10>>
<1>0. \A x, y \in Line : x \o y \in Line
  BY ConcatIsText
<1>1. p1 \in Line
  BY SMT, UptoSpec
<1>2. p2 \in Line
  BY SMT DEF Line
<1>3. stt_vals = p1 \o p2
  BY SMT DEF stt_vals
<1> HIDE DEF p1, p2
<1>4. p1 \o p2 \in Line
  BY <1>0, <1>1, <1>2, Zenon
<1> QED
  BY <1>3, <1>4, Zenon

(* The table of ABIs.                                                      *)
LEMMA OsabiValsAreText ==
    osabi_vals \in Line
<1> DEFINE p1 == Upto(0, 3)
           p2 == <<3, 4>>
           p3 == Upto(6, 17)
           p4 == <<64, 64, 65, 66, 97, 64, 65, 255, 255>>
<1>0. \A x, y \in Line : x \o y \in Line
  BY ConcatIsText
<1>1. p1 \in Line
  BY SMT, UptoSpec
<1>2. p2 \in Line
  BY SMT DEF Line
<1>3. p3 \in Line
  BY SMT, UptoSpec
<1>4. p4 \in Line
  BY SMT DEF Line
<1>5. osabi_vals = p1 \o p2 \o p3 \o p4
  BY SMT DEF osabi_vals
<1> HIDE DEF p1, p2, p3, p4
<1>6. p1 \o p2 \o p3 \o p4 \in Line
  BY <1>0, <1>1, <1>2, <1>3, <1>4, Zenon
<1> QED
  BY <1>5, <1>6, Zenon

(* All of the tables that are looked up by number.                         *)
LEMMA TablesAreTexts ==
    ASSUME NEW t \in DOMAIN Tables
    PROVE  Tables[t] \in Line
BY DtValsAreText, PtValsAreText, ShtValsAreText, StoValsAreText, ShnValsAreText,
   StbValsAreText, SttValsAreText, OsabiValsAreText DEF Tables

(* The table of flags.                                                     *)
LEMMA FlagsAreSequence ==
    shf_vals \in Seq(SUBSET Int)
<1> DEFINE p1 == <<{0}, {1}, {2}>>
           p2 == [k \in 1 .. 8 |-> {k + 3}]
           p3 == <<{31}, 20 .. 27, 28 .. 31, {28}, {29}, {28}, {28}>>
           p4 == [k \in 1 .. 8 |-> {k + 23}]
           p5 == <<{29}>>
<1>0. \A x, y \in Seq(SUBSET Int) : x \o y \in Seq(SUBSET Int)
  OBVIOUS
<1>1. p1 \in Seq(SUBSET Int)
  BY SMT
<1>2. p2 \in Seq(SUBSET Int)
  BY SMT
<1>3. p3 \in Seq(SUBSET Int)
  BY SMT
<1>4. p4 \in Seq(SUBSET Int)
  BY SMT
<1>5. p5 \in Seq(SUBSET Int)
  BY SMT
<1>6. shf_vals = p1 \o p2 \o p3 \o p4 \o p5
  BY SMT DEF shf_vals
<1> HIDE DEF p1, p2, p3, p4, p5
<1>7. p1 \o p2 \o p3 \o p4 \o p5 \in Seq(SUBSET Int)
  BY <1>0, <1>1, <1>2, <1>3, <1>4, <1>5, Zenon
<1> QED
  BY <1>6, <1>7, Zenon
(* What the lookups append.                                                *)
LEMMA LeastElement ==
    ASSUME NEW S \in SUBSET Nat, S # {}
    PROVE  Min(S) \in S /\ \A y \in S : Min(S) <= y
<1>1. \E x \in S : \A y \in S : x <= y
  BY Smallest
<1> QED
  BY <1>1, Zenon DEF Min

(* The names found in a text are the places its names stand for.           *)
LEMMA NamesRead ==
    ASSUME NEW t \in Line, NEW places \in SUBSET Nat,
           Has(t) = {NameOf(k) : k \in places}
    PROVE  NamesIn(t) = places
<1>1. DOMAIN t = 1 .. Len(t) /\ \A i \in 1 .. Len(t) : t[i] \in Int
  BY DEF Line
<1>2. NameOf(0) = 256 /\ \A k \in Nat : NameOf(k) = 256 + k
  BY DEF NameOf
<1>3. ASSUME NEW k \in NamesIn(t) PROVE k \in places
  <2>1. PICK i \in DOMAIN t : t[i] > NameOf(0) /\ k = t[i] - NameOf(0)
    BY <1>3 DEF NamesIn
  <2>2. t[i] \in Has(t)
    BY <1>1, <1>2, <2>1 DEF Has
  <2>3. PICK j \in places : t[i] = NameOf(j)
    BY <2>2
  <2>4. k = j
    BY <1>2, <2>1, <2>3
  <2> QED
    BY <2>3, <2>4
<1>4. ASSUME NEW k \in places, k > 0 PROVE k \in NamesIn(t)
  <2>1. NameOf(k) \in Has(t)
    OBVIOUS
  <2>2. PICK i \in 1 .. Len(t) : t[i] = NameOf(k)
    BY <2>1 DEF Has
  <2>3. i \in DOMAIN t /\ t[i] > NameOf(0) /\ t[i] - NameOf(0) = k
    <3>1. k \in Nat /\ NameOf(k) = 256 + k
      BY <1>2
    <3> DEFINE v == t[i]
    <3>2. v = 256 + k /\ NameOf(0) = 256 /\ k > 0 /\ k \in Nat
      BY <1>2, <1>4, <2>2, <3>1
    <3> HIDE DEF v
    <3>3. v > NameOf(0) /\ v - NameOf(0) = k
      BY <3>2
    <3> QED
      BY <1>1, <2>2, <3>3 DEF v
  <2> QED
    BY <2>3 DEF NamesIn
<1>5. \A k \in places : k > 0
  <2> SUFFICES ASSUME NEW k \in places PROVE k > 0
    OBVIOUS
  <2>1. NameOf(k) \in Has(t)
    OBVIOUS
  <2>2. NameOf(k) > 256
    BY <2>1 DEF Has
  <2> QED
    <3>1. k \in Nat /\ NameOf(k) = 256 + k
      BY <1>2
    <3> QED
      BY <2>2, <3>1
<1> QED
  BY <1>3, <1>4, <1>5

(* Brackets and blanks are lines without names.                            *)
LEMMA TheOpened ==
    /\ <<Open>> \in Line /\ <<Close>> \in Line /\ << >> \in Line
    /\ Has(<<Open>>) = {} /\ Has(<<Close>>) = {} /\ Has(<< >>) = {}
<1>1. Open \in Int /\ Close \in Int /\ ~(Open > 256) /\ ~(Close > 256)
  BY DEF Open, Close
<1> QED
  BY <1>1, HasOne

(* Both lookups of tables: the number that is shown as unknown, or names.  *)
LEMMA LookedUp ==
    ASSUME NEW n \in Nat, NEW places \in SUBSET (1 .. n), NEW value \in Nat
    PROVE  LET p == Piece(<<Open>>) \o
                      IF places = {} THEN UnknownNumber(<<Open>>, value)
                      ELSE NamesAt(n, places) \o Piece(<<Close>>)
               t == TextOfPieces(p)
           IN  /\ p \in Pieces
               /\ NamesIn(t) = places
               /\ places = {} =>
                    IsPrefix(<<Open, Open, Unknown>> \o Digits(value, 10, 97) \o <<Hex>>, t)
               /\ places # {} => Head(t) = Open /\ Last(t) = Close
<1> DEFINE core == IF places = {} THEN UnknownNumber(<<Open>>, value)
                    ELSE NamesAt(n, places) \o Piece(<<Close>>)
           p == Piece(<<Open>>) \o core
           t == TextOfPieces(p)
           names == {NameOf(k) : k \in places}
<1>1. \A x, y \in Line : Has(x \o y) = Has(x) \cup Has(y)
  BY HasConcat
<1>2. \A x, y \in Line : x \o y \in Line
  BY ConcatIsText
<1>3. places \in SUBSET Nat
  OBVIOUS
<1>4. ASSUME NEW x \in Line, core \in Pieces, TextOfPieces(core) = x, Has(x) = names
      PROVE  p \in Pieces /\ t = <<Open>> \o x /\ t \in Line /\ NamesIn(t) = places
  <2> HIDE DEF core
  <2>1. p \in Pieces /\ t = <<Open>> \o TextOfPieces(core)
    BY <1>4, TheOpened, Around
  <2> HIDE DEF p, t
  <2>2. t = <<Open>> \o x
    BY <1>4, <2>1, Zenon
  <2>3. <<Open>> \o x \in Line /\ Has(<<Open>> \o x) = Has(<<Open>>) \cup Has(x)
    BY <1>1, <1>2, TheOpened, Zenon
  <2> HIDE DEF names
  <2>4. t \in Line /\ Has(t) = names
    <3>1. Has(<<Open>>) \cup Has(x) = names
      BY <1>4, TheOpened
    <3> QED
      BY <2>2, <2>3, <3>1, Zenon
  <2>5. NamesIn(t) = places
    BY <1>3, <2>4, NamesRead DEF names
  <2> QED
    BY <2>1, <2>2, <2>4, <2>5
<1>5. CASE places = {}
  <2> DEFINE q == UnknownNumber(<<Open>>, value)
             x == TextOfPieces(q)
             ten == Digits(value, 10, 97)
             front == <<Open, Open, Unknown>> \o ten \o <<Hex>>
  <2>1. q \in Pieces /\ Has(x) = {}
    BY TheOpened, UnknownText, Zenon
  <2>2. PICK rest \in Line : x = ((<<Open>> \o <<Unknown>>) \o ten) \o (<<Hex>> \o rest)
    <3>1. \A o \in Line : Has(o) = {} =>
              \E r \in Line : TextOfPieces(UnknownNumber(o, value)) =
                               ((o \o <<Unknown>>) \o Digits(value, 10, 97)) \o (<<Hex>> \o r)
      BY UnknownText
    <3> QED
      BY <3>1, TheOpened
  <2>3. core = q /\ names = {}
    BY <1>5
  <2>4. x \in Line
    <3> HIDE DEF q
    <3> QED
      BY <2>1, AppendedText
  <2> HIDE DEF q, x
  <2>5. p \in Pieces /\ t = <<Open>> \o x /\ t \in Line /\ NamesIn(t) = places
    <3>1. core \in Pieces /\ TextOfPieces(core) = x /\ Has(x) = names
      BY <2>1, <2>3 DEF x
    <3> HIDE DEF core, p, t, names
    <3> QED
      BY <1>4, <2>4, <3>1
  <2>6. /\ ten \in Line /\ <<Unknown>> \in Line /\ <<Hex>> \in Line
        /\ <<Open, Open, Unknown>> \in Line
        /\ <<Open>> \o (<<Open>> \o <<Unknown>>) = <<Open, Open, Unknown>>
    <3>1. IsNumeral(ten, value, 10, 97)
      <4>1. 10 \in Bases /\ 97 \in Letters
        BY DEF Bases, Letters
      <4> QED
        BY <4>1, DigitsAreNumeral, Zenon
    <3>2. ten \in Line
      BY <3>1, Zenon DEF IsNumeral
    <3> HIDE DEF ten
    <3>3. /\ <<Unknown>> \in Line /\ <<Hex>> \in Line
          /\ <<Open, Open, Unknown>> \in Line
      BY DEF Line, Unknown, Hex, Open
    <3>4. <<Open>> \o (<<Open>> \o <<Unknown>>) = <<Open, Open, Unknown>>
      <4>1. ASSUME NEW a \in Int, NEW b \in Int, NEW c \in Int
            PROVE  <<a>> \o (<<b>> \o <<c>>) = <<a, b, c>>
        <5> DEFINE u == <<a>> \o (<<b>> \o <<c>>)
                   w == <<a, b, c>>
        <5>1. /\ u \in Line /\ Len(u) = 3 /\ u[1] = a /\ u[2] = b /\ u[3] = c
              /\ w \in Line /\ Len(w) = 3 /\ w[1] = a /\ w[2] = b /\ w[3] = c
          BY DEF Line
        <5>2. \A z \in Line : z = [k \in 1 .. Len(z) |-> z[k]]
          BY DEF Line
        <5> HIDE DEF u, w
        <5>3. u = [k \in 1 .. 3 |-> u[k]] /\ w = [k \in 1 .. 3 |-> w[k]]
          BY <5>1, <5>2
        <5>4. \A k \in 1 .. 3 : u[k] = w[k]
          <6>1. \A k \in 1 .. 3 : k = 1 \/ k = 2 \/ k = 3
            OBVIOUS
          <6> QED
            BY <5>1, <6>1
        <5>5. u = w
          BY <5>3, <5>4
        <5> QED
          BY <5>5 DEF u, w
      <4>2. Open \in Int /\ Unknown \in Int
        BY DEF Open, Unknown
      <4> QED
        BY <4>1, <4>2
    <3> QED
      BY <3>2, <3>3, <3>4
  <2> HIDE DEF ten, front
  <2>7. t = front \o rest /\ front \in Line
    <3> DEFINE ou == <<Open>> \o <<Unknown>>
               oou == <<Open, Open, Unknown>>
    <3>1. ou \in Line /\ oou \in Line /\ <<Open>> \o ou = oou
      BY <1>2, <2>6, TheOpened
    <3>2. \A a, b, c \in Line : (a \o b) \o c = a \o (b \o c)
      BY ConcatAssociates
    <3>3. x = (ou \o ten) \o (<<Hex>> \o rest) /\ front = (oou \o ten) \o <<Hex>>
      BY <2>2, Zenon DEF front
    <3> HIDE DEF ou, oou
    <3>4. /\ ou \o ten \in Line /\ <<Hex>> \o rest \in Line
          /\ oou \o ten \in Line /\ (oou \o ten) \o <<Hex>> \in Line
      BY <1>2, <2>6, <3>1, Zenon
    <3>5. <<Open>> \o ((ou \o ten) \o (<<Hex>> \o rest))
            = (<<Open>> \o (ou \o ten)) \o (<<Hex>> \o rest)
      <4> DEFINE a == <<Open>>
                 b == ou \o ten
                 c == <<Hex>> \o rest
      <4>1. a \in Line /\ b \in Line /\ c \in Line
        BY <3>4, TheOpened
      <4> HIDE DEF a, b, c
      <4>2. a \o (b \o c) = (a \o b) \o c
        BY <3>2, <4>1
      <4> QED
        BY <4>2 DEF a, b, c
    <3>6. <<Open>> \o (ou \o ten) = (<<Open>> \o ou) \o ten
      <4> DEFINE a == <<Open>>
      <4>1. a \in Line /\ ten \in Line /\ ou \in Line
        BY <2>6, <3>1, TheOpened, Zenon
      <4> HIDE DEF a
      <4>2. a \o (ou \o ten) = (a \o ou) \o ten
        BY <4>1, ConcatAssociates
      <4> QED
        BY <4>2 DEF a
    <3>7. (oou \o ten) \o (<<Hex>> \o rest) = ((oou \o ten) \o <<Hex>>) \o rest
      <4> DEFINE a == oou \o ten
                 b == <<Hex>>
      <4>1. a \in Line /\ b \in Line
        BY <2>6, <3>4
      <4> HIDE DEF a, b
      <4>2. (a \o b) \o rest = a \o (b \o rest)
        BY <3>2, <4>1
      <4> QED
        BY <4>2 DEF a, b
    <3>8. t = (oou \o ten) \o (<<Hex>> \o rest)
      <4> HIDE DEF t
      <4> QED
        BY <2>5, <3>1, <3>3, <3>5, <3>6, Zenon
    <3> HIDE DEF t
    <3> QED
      BY <3>3, <3>4, <3>7, <3>8, Zenon
  <2>8. IsPrefix(front, front \o rest)
    BY <2>7, SecondPart
  <2> HIDE DEF p, t
  <2>9. IsPrefix(front, t)
    BY <2>7, <2>8, Zenon
  <2> QED
    BY <1>5, <2>5, <2>9 DEF front, ten, p, t, core
<1>6. CASE places # {}
  <2> DEFINE q == NamesAt(n, places)
             y == TextOfPieces(q)
             x == y \o <<Close>>
  <2>1. q \in Pieces /\ Has(y) = names
    BY NamesText, Zenon
  <2>2. core = q \o Piece(<<Close>>)
    BY <1>6
  <2> HIDE DEF q
  <2>3. y \in Line /\ q \o Piece(<<Close>>) \in Pieces
        /\ TextOfPieces(q \o Piece(<<Close>>)) = y \o <<Close>>
    BY <2>1, TheOpened, Around
  <2> HIDE DEF y
  <2>4. x \in Line /\ Has(x) = names
    <3>1. Has(x) = Has(y) \cup Has(<<Close>>)
      BY <1>1, <2>3, TheOpened, Zenon
    <3> HIDE DEF names
    <3> QED
      BY <1>2, <2>1, <2>3, <3>1, TheOpened
  <2>5. p \in Pieces /\ t = <<Open>> \o x /\ t \in Line /\ NamesIn(t) = places
    <3>1. core \in Pieces /\ TextOfPieces(core) = x
      BY <2>2, <2>3, Zenon
    <3> HIDE DEF core, p, t, names, x
    <3> QED
      BY <1>4, <2>4, <3>1
  <2>6. Head(<<Open>> \o x) = Open
    <3> HIDE DEF x
    <3>1. x \in Seq(Int) /\ Open \in Int
      BY <2>4 DEF Line, Open
    <3> QED
      BY <3>1
  <2>7. Last(<<Open>> \o x) = Close
    <3>1. \A z \in Line, c \in Int : (z \o <<c>>)[Len(z \o <<c>>)] = c
      BY DEF Line
    <3>2. <<Open>> \o (y \o <<Close>>) = (<<Open>> \o y) \o <<Close>>
      BY <2>3, TheOpened, ConcatAssociates, Zenon
    <3>3. <<Open>> \o y \in Line /\ Close \in Int
      <4>1. Close \in Int
        BY DEF Close
      <4> QED
        BY <1>2, <2>3, <4>1, TheOpened
    <3> QED
      BY <3>1, <3>2, <3>3, Zenon DEF Last
  <2> HIDE DEF x, p, t
  <2>8. Head(t) = Open /\ Last(t) = Close
    BY <2>5, <2>6, <2>7, Zenon
  <2> QED
    BY <1>6, <2>5, <2>8 DEF p, t
<1> HIDE DEF p, t
<1> QED
  BY <1>5, <1>6 DEF p, t
(* The invariant of both properties, and that each lookup leaves it.       *)
NamingInv == LikeC /\ NamesAreTheNumbers

(* What a call appended is what stands behind the text it found.           *)
LEMMA WhatIsShown ==
    ASSUME NEW pieces \in Pieces, NEW c, text \in Line, Appends(pieces, c)
    PROVE  /\ text' \in Line /\ call' = c
           /\ ~lost' => Shown' = TextOfPieces(pieces)
<1>1. /\ text' \in Line /\ before' = text /\ call' = c
      /\ ~lost' => text' = text \o TextOfPieces(pieces)
  BY AppendsSpec
<1>2. TextOfPieces(pieces) \in Line
  BY AppendedText
<1>3. ASSUME ~lost' PROVE Shown' = TextOfPieces(pieces)
  <2> DEFINE t == TextOfPieces(pieces)
  <2>1. t \in Line /\ text' = text \o t
    BY <1>1, <1>2, <1>3
  <2> HIDE DEF t
  <2>2. SubSeq(text \o t, Len(text) + 1, Len(text \o t)) = t
    BY <2>1, SecondPart
  <2>3. Shown' = t
    BY <1>1, <2>1, <2>2, Zenon DEF Shown
  <2> QED
    BY <2>3 DEF t
<1> QED
  BY <1>1, <1>3

(* Machines: the search stops at the first entry not below the number.     *)
LEMMA StepMachine ==
    ASSUME NamingInv, dwarf_get_elf_machine_name
    PROVE  NamingInv'
<1>1. text \in Line
  BY DEF NamingInv, LikeC
<1>2. PICK value \in Machines :
          Appends(MachineName(value), [op |-> "machine", value |-> value])
  BY DEF dwarf_get_elf_machine_name
<1>3. value \in Nat
  BY NumbersAssumption
<1> DEFINE p == MachineName(value)
           c == [op |-> "machine", value |-> value]
           stops == {k \in DOMAIN emvals : value <= emvals[k]}
           places == {k \in DOMAIN emvals : emvals[k] = value}
           stop == Min(stops)
           found == IF places = {} THEN {} ELSE {Min(places)}
           t == TextOfPieces(p)
<1>4. /\ DOMAIN emvals = 1 .. Len(emvals) /\ Len(emvals) \in Nat
      /\ \A k \in 1 .. Len(emvals) : emvals[k] \in Nat
      /\ \A i \in 1 .. Len(emvals) : \A j \in i .. Len(emvals) : emvals[i] <= emvals[j]
  <2>1. Ordered(emvals, 0, 16727)
    BY MachinesOrdered
  <2> QED
    BY <2>1 DEF Ordered, Line
<1>5. stops \in SUBSET Nat /\ places \in SUBSET stops
  BY <1>3, <1>4
<1>6. stops # {} => stop \in stops /\ \A k \in stops : stop <= k
  <2> HIDE DEF stops
  <2> QED
    BY <1>5, LeastElement
<1>7. \A k \in stops : k \in 1 .. Len(emvals) /\ value <= emvals[k]
  BY <1>4
<1>8. p \in Pieces /\ NamesIn(t) = found
  <2>1. ASSUME NEW n \in Nat, p = UnknownNumber(<< >>, n), places = {}
        PROVE  p \in Pieces /\ NamesIn(t) = found
    <3>1. p \in Pieces /\ Has(t) = {}
      BY <2>1, TheOpened, UnknownText, Zenon
    <3> HIDE DEF p
    <3>2. t \in Line
      BY <3>1, AppendedText
    <3> HIDE DEF t
    <3>3. Has(t) = {NameOf(k) : k \in {}} /\ {} \in SUBSET Nat
      BY <3>1
    <3>4. NamesIn(t) = {}
      BY <3>2, <3>3, NamesRead
    <3> QED
      BY <2>1, <3>1, <3>4
  <2>2. CASE stops = {}
    <3>1. p = UnknownNumber(<< >>, 0) /\ places = {}
      <4>1. places = {}
        <5> HIDE DEF places, stops
        <5> QED
          BY <1>5, <2>2
      <4>2. p = UnknownNumber(<< >>, 0)
        <5> HIDE DEF stops
        <5>1. ~(stops # {})
          BY <2>2
        <5> QED
          BY <2>2, <5>1, Zenon DEF MachineName, stops
      <4> QED
        BY <4>1, <4>2
    <3> HIDE DEF p, t, places, found
    <3> QED
      BY <2>1, <3>1
  <2>3. CASE stops # {} /\ emvals[stop] = value
    <3>1. p = Piece(<<NameOf(stop)>>)
      <4> HIDE DEF stops
      <4>1. ~(stops = {})
        BY <2>3
      <4> QED
        BY <2>3, <4>1 DEF MachineName, stops
    <3>2. stop \in places /\ stop \in Nat
      BY <1>4, <1>5, <1>6, <2>3
    <3>3. Min(places) = stop
      <4> HIDE DEF places, stop, stops
      <4>1. places \in SUBSET Nat /\ places # {} /\ \A k \in places : stop <= k
        BY <1>5, <1>6, <2>3, <3>2
      <4>2. Min(places) \in places /\ Min(places) <= stop
        BY <3>2, <4>1, LeastElement
      <4>3. stop <= Min(places) /\ Min(places) \in Nat
        BY <4>1, <4>2
      <4> QED
        BY <3>2, <4>2, <4>3
    <3>4. found = {stop}
      BY <3>2, <3>3
    <3>5. NameOf(stop) \in Int /\ NameOf(stop) > 256
      <4> HIDE DEF stop
      <4>1. stop > 0
        BY <1>6, <1>7, <2>3
      <4> QED
        BY <3>2, <4>1 DEF NameOf
    <3>6. <<NameOf(stop)>> \in Line /\ Has(<<NameOf(stop)>>) = {NameOf(stop)}
      BY <3>5, HasOne
    <3>7. p \in Pieces /\ t = <<NameOf(stop)>>
      <4>1. Piece(<<NameOf(stop)>>) \in Pieces
            /\ TextOfPieces(Piece(<<NameOf(stop)>>)) = <<NameOf(stop)>>
        BY <3>6, TextOfOnePiece, Zenon
      <4> HIDE DEF stop
      <4> QED
        BY <3>1, <4>1, Zenon
    <3> HIDE DEF p, t, stop, found
    <3>8. NamesIn(t) = {stop}
      <4>1. t \in Line /\ Has(t) = {NameOf(stop)}
        BY <3>6, <3>7, Zenon
      <4>2. {NameOf(stop)} = {NameOf(k) : k \in {stop}} /\ {stop} \in SUBSET Nat
        BY <3>2
      <4> QED
        BY <4>1, <4>2, NamesRead
    <3> QED
      BY <3>4, <3>7, <3>8
  <2>4. CASE stops # {} /\ ~(emvals[stop] = value)
    <3>1. p = UnknownNumber(<< >>, emvals[stop])
      <4> HIDE DEF stops
      <4>1. ~(stops = {})
        BY <2>4
      <4> QED
        BY <2>4, <4>1 DEF MachineName, stops
    <3> HIDE DEF stops, stop, p, t
    <3>2. stop \in 1 .. Len(emvals) /\ value < emvals[stop] /\ emvals[stop] \in Nat
      BY <1>3, <1>4, <1>6, <1>7, <2>4
    <3>3. places = {}
      <4> SUFFICES ASSUME NEW k \in places PROVE FALSE
        OBVIOUS
      <4>1. k \in stops /\ stop <= k /\ k \in 1 .. Len(emvals) /\ emvals[k] = value
        BY <1>5, <1>6, <1>7, <2>4
      <4>2. k \in stop .. Len(emvals)
        BY <1>4, <3>2, <4>1
      <4>3. emvals[stop] <= emvals[k]
        BY <1>4, <3>2, <4>2
      <4> QED
        BY <1>3, <3>2, <4>1, <4>3
    <3> HIDE DEF places, found
    <3> QED
      BY <2>1, <3>1, <3>2, <3>3
  <2> QED
    BY <2>2, <2>3, <2>4
<1>9. /\ text' \in Line /\ call' = c
      /\ ~lost' => Shown' = t
  <2> HIDE DEF p, c
  <2>1. Appends(p, c)
    BY <1>2 DEF p, c
  <2> QED
    BY <1>1, <1>8, <2>1, WhatIsShown
<1>10. /\ call'.op = "machine" /\ call'.value = value
       /\ call'.op # "s" /\ call'.op # "i" /\ call'.op # "u"
       /\ call'.op # "table" /\ call'.op # "flags"
  BY <1>9 DEF c
<1> HIDE DEF p, t, c, stops, stop
<1>11. LikeC'
  BY <1>9, <1>10, Zenon DEF LikeC, FormatsLikeC
<1>12. NamesAreTheNumbers'
  <2>1. ~lost' => NamesIn(Shown') = found
    BY <1>8, <1>9, Zenon
  <2>2. NamesIn(Shown)' = NamesIn(Shown')
    BY Zenon DEF NamesIn
  <2> QED
    BY <1>10, <2>1, <2>2, Zenon DEF NamesAreTheNumbers
<1> QED
  BY <1>11, <1>12 DEF NamingInv

(* Tables of numbers: the lookup keeps the invariant.                      *)
LEMMA StepTable ==
    ASSUME NamingInv, dwarf_get_elf_table_name
    PROVE  NamingInv'
<1>1. text \in Line
  BY DEF NamingInv, LikeC
<1>2. PICK tag \in DOMAIN Tables, value \in Numbers :
          Appends(standard_table_name(Tables[tag], value),
                  [op |-> "table", table |-> tag, value |-> value])
  BY DEF dwarf_get_elf_table_name
<1>3. value \in Nat
  BY NumbersAssumption
<1> DEFINE table == Tables[tag]
           p == standard_table_name(table, value)
           c == [op |-> "table", table |-> tag, value |-> value]
           places == {k \in DOMAIN table : table[k] = value}
           t == TextOfPieces(p)
           front == <<Open, Open, Unknown>> \o Digits(value, 10, 97) \o <<Hex>>
<1>4. table \in Line
  BY TablesAreTexts
<1>5. Len(table) \in Nat /\ places \in SUBSET (1 .. Len(table))
  <2> HIDE DEF table
  <2> QED
    BY <1>4 DEF Line
<1>6. /\ p \in Pieces /\ NamesIn(t) = places
      /\ places = {} => IsPrefix(front, t)
  <2>1. p = Piece(<<Open>>) \o
              IF places = {} THEN UnknownNumber(<<Open>>, value)
              ELSE NamesAt(Len(table), places) \o Piece(<<Close>>)
    BY Zenon DEF standard_table_name
  <2> DEFINE n == Len(table)
             q == Piece(<<Open>>) \o
                    IF places = {} THEN UnknownNumber(<<Open>>, value)
                    ELSE NamesAt(n, places) \o Piece(<<Close>>)
  <2> HIDE DEF places, table
  <2>2. n \in Nat /\ places \in SUBSET (1 .. n)
    BY <1>5
  <2> HIDE DEF n
  <2>3. /\ q \in Pieces
        /\ NamesIn(TextOfPieces(q)) = places
        /\ places = {} => IsPrefix(front, TextOfPieces(q))
    BY <1>3, <2>2, LookedUp, Zenon
  <2>4. p = q
    BY <2>1, Zenon DEF n
  <2> HIDE DEF p, q
  <2> QED
    BY <2>3, <2>4, Zenon
<1>7. /\ text' \in Line /\ call' = c
      /\ ~lost' => Shown' = t
  <2> HIDE DEF p, c
  <2>1. Appends(p, c)
    BY <1>2 DEF p, c
  <2> QED
    BY <1>1, <1>6, <2>1, WhatIsShown
<1>8. /\ call'.op = "table" /\ call'.value = value /\ call'.table = tag
      /\ call'.op # "s" /\ call'.op # "i" /\ call'.op # "u"
      /\ call'.op # "machine" /\ call'.op # "flags"
  BY <1>7 DEF c
<1> HIDE DEF p, t, c
<1>9. LikeC'
  BY <1>7, <1>8, Zenon DEF LikeC, FormatsLikeC
<1>10. NamesAreTheNumbers'
  <2>1. ~lost' => NamesIn(Shown') = places
    BY <1>6, <1>7, Zenon
  <2>2. ~lost' /\ NamesIn(Shown') = {} => IsPrefix(front, Shown')
    BY <1>6, <1>7, <2>1, Zenon
  <2>3. NamesIn(Shown)' = NamesIn(Shown')
    BY Zenon DEF NamesIn
  <2> QED
    BY <1>8, <2>1, <2>2, <2>3, Zenon DEF NamesAreTheNumbers
<1> QED
  BY <1>9, <1>10 DEF NamingInv

(* Flags: the lookup keeps the invariant.                                  *)
LEMMA StepFlags ==
    ASSUME NamingInv, dwarf_get_elf_section_header_flag_names
    PROVE  NamingInv'
<1>1. text \in Line
  BY DEF NamingInv, LikeC
<1>2. PICK value \in Flags :
          Appends(standard_bitmap_table_name(shf_vals, value),
                  [op |-> "flags", value |-> value])
  BY DEF dwarf_get_elf_section_header_flag_names
<1> DEFINE p == standard_bitmap_table_name(shf_vals, value)
           c == [op |-> "flags", value |-> value]
           places == {k \in DOMAIN shf_vals : shf_vals[k] \subseteq value}
           t == TextOfPieces(p)
<1>3. Len(shf_vals) \in Nat /\ places \in SUBSET (1 .. Len(shf_vals))
  BY FlagsAreSequence
<1>4. /\ p \in Pieces /\ NamesIn(t) = places
      /\ places # {} => Head(t) = Open /\ Last(t) = Close
  <2>1. p = Piece(<<Open>>) \o
              IF places = {} THEN UnknownNumber(<<Open>>, 0)
              ELSE NamesAt(Len(shf_vals), places) \o Piece(<<Close>>)
    BY Zenon DEF standard_bitmap_table_name
  <2> DEFINE n == Len(shf_vals)
             q == Piece(<<Open>>) \o
                    IF places = {} THEN UnknownNumber(<<Open>>, 0)
                    ELSE NamesAt(n, places) \o Piece(<<Close>>)
  <2> HIDE DEF places
  <2>2. n \in Nat /\ places \in SUBSET (1 .. n) /\ 0 \in Nat
    BY <1>3
  <2> HIDE DEF n
  <2>3. /\ q \in Pieces
        /\ NamesIn(TextOfPieces(q)) = places
        /\ places # {} => Head(TextOfPieces(q)) = Open /\ Last(TextOfPieces(q)) = Close
    BY <2>2, LookedUp, Zenon
  <2>4. p = q
    BY <2>1, Zenon DEF n
  <2> HIDE DEF p, q
  <2> QED
    BY <2>3, <2>4, Zenon
<1>5. /\ text' \in Line /\ call' = c
      /\ ~lost' => Shown' = t
  <2> HIDE DEF p, c
  <2>1. Appends(p, c)
    BY <1>2 DEF p, c
  <2> QED
    BY <1>1, <1>4, <2>1, WhatIsShown
<1>6. /\ call'.op = "flags" /\ call'.value = value
      /\ call'.op # "s" /\ call'.op # "i" /\ call'.op # "u"
      /\ call'.op # "machine" /\ call'.op # "table"
  BY <1>5 DEF c
<1> HIDE DEF p, t, c
<1>7. LikeC'
  BY <1>5, <1>6, Zenon DEF LikeC, FormatsLikeC
<1>8. NamesAreTheNumbers'
  <2>1. ~lost' => NamesIn(Shown') = {k \in DOMAIN shf_vals : \A b \in shf_vals[k] : b \in value}
    <3>1. places = {k \in DOMAIN shf_vals : \A b \in shf_vals[k] : b \in value}
      OBVIOUS
    <3> QED
      BY <1>4, <1>5, <3>1, Zenon
  <2>2. ~lost' /\ NamesIn(Shown') # {} => Head(Shown') = Open /\ Last(Shown') = Close
    <3> HIDE DEF places
    <3> QED
      BY <1>4, <1>5, Zenon
  <2>3. NamesIn(Shown)' = NamesIn(Shown')
    BY Zenon DEF NamesIn
  <2>4. Last(Shown)' = Last(Shown')
    BY Zenon DEF Last
  <2> QED
    BY <1>6, <2>1, <2>2, <2>3, <2>4, Zenon DEF NamesAreTheNumbers
<1> QED
  BY <1>7, <1>8 DEF NamingInv

(* A call that is no lookup leaves nothing to say about names.             *)
LEMMA NotALookup ==
    ASSUME call'.op \notin {"machine", "table", "flags"}
    PROVE  NamesAreTheNumbers'
BY DEF NamesAreTheNumbers

(* Every step keeps the invariant.                                         *)
LEMMA NamingStep ==
    ASSUME NamingInv, NamingNext
    PROVE  NamingInv'
<1>1. text \in Line /\ LikeC
  BY DEF NamingInv, LikeC
<1>2. ASSUME call'.op = "none", text' \in Line PROVE NamingInv'
  BY <1>2, NotALookup DEF NamingInv, LikeC, FormatsLikeC
<1>3. CASE dwarfstring_append
  <2>1. PICK s \in Words : text' = text \o s /\ call' = [op |-> "none"]
    BY <1>3 DEF dwarfstring_append
  <2>2. s \in Line
    BY FormatIsTyped, WordIsText
  <2>3. text' \in Line
    BY <1>1, <2>1, <2>2, ConcatIsText
  <2> QED
    BY <1>2, <2>1, <2>3
<1>4. CASE dwarfstring_reset
  <2>1. text' \in Line /\ call'.op = "none"
    BY <1>4 DEF dwarfstring_reset, Line
  <2> QED
    BY <1>2, <2>1
<1>5. CASE dwarfstring_append_printf_s
  <2>1. LikeC'
    BY <1>1, <1>5, StepS
  <2>2. call'.op = "s"
    BY <1>5 DEF dwarfstring_append_printf_s, Appends
  <2> QED
    BY <2>1, <2>2, NotALookup DEF NamingInv
<1>6. CASE dwarfstring_append_printf_i
  <2>1. LikeC'
    BY <1>1, <1>6, StepI
  <2>2. call'.op = "i"
    BY <1>6 DEF dwarfstring_append_printf_i, Appends
  <2> QED
    BY <2>1, <2>2, NotALookup DEF NamingInv
<1>7. CASE dwarfstring_append_printf_u
  <2>1. LikeC'
    BY <1>1, <1>7, StepU
  <2>2. call'.op = "u"
    BY <1>7 DEF dwarfstring_append_printf_u, Appends
  <2> QED
    BY <2>1, <2>2, NotALookup DEF NamingInv
<1>8. CASE dwarf_get_elf_machine_name
  BY <1>8, StepMachine
<1>9. CASE dwarf_get_elf_table_name
  BY <1>9, StepTable
<1>10. CASE dwarf_get_elf_section_header_flag_names
  BY <1>10, StepFlags
<1> QED
  BY <1>3, <1>4, <1>5, <1>6, <1>7, <1>8, <1>9, <1>10 DEF NamingNext

(* A step of the other part of Printing changes neither text nor call.     *)
LEMMA NamingHolds == PrintingSpec => []NamingInv
<1>1. PrintingInit => NamingInv
  <2> SUFFICES ASSUME PrintingInit PROVE NamingInv
    OBVIOUS
  <2>1. text \in Line /\ call.op = "none"
    BY DEF PrintingInit, FormatInit, Line
  <2> QED
    BY <2>1 DEF NamingInv, LikeC, FormatsLikeC, NamesAreTheNumbers
<1>2. NamingInv /\ [PrintingNext]_printingVars => NamingInv'
  <2> SUFFICES ASSUME NamingInv, [PrintingNext]_printingVars PROVE NamingInv'
    OBVIOUS
  <2>1. CASE NamingNext
    BY <2>1, NamingStep
  <2>2. CASE UNCHANGED formatVars
    <3>1. /\ text' = text /\ before' = before /\ call' = call /\ lost' = lost
      BY <2>2 DEF formatVars
    <3>2. text' \in Line
      BY <3>1 DEF NamingInv, LikeC
    <3>3. FormatsLikeC'
      BY <3>1, Zenon DEF NamingInv, LikeC, FormatsLikeC
    <3>4. NamesAreTheNumbers'
      <4>1. Shown' = Shown
        BY <3>1, Zenon DEF Shown
      <4>2. NamesIn(Shown)' = NamesIn(Shown)
        BY <4>1, Zenon DEF NamesIn
      <4>3. Last(Shown)' = Last(Shown)
        BY <4>1, Zenon DEF Last
      <4> QED
        BY <3>1, <4>1, <4>2, <4>3, Zenon DEF NamingInv, NamesAreTheNumbers
    <3> QED
      BY <3>2, <3>3, <3>4 DEF NamingInv, LikeC
  <2> QED
    BY <2>1, <2>2 DEF PrintingNext, printingVars
<1> QED
  BY <1>1, <1>2, PTL DEF PrintingSpec

(* While memory lasts, a printf-like call with a format the function       *)
(* accepts appends what C's printf prints: the text before the conversion, *)
(* the value in a field of the width asked, filled and signed as the flags *)
(* say, with digits that read back as the number, and the text behind;     *)
(* for every format, every word, every number of any width, every size of  *)
(* the chunks padding is appended in and every append memory is refused    *)
(* for.                                                                    *)
THEOREM FormatsCorrect == PrintingSpec => []FormatsLikeC
<1>1. NamingInv => FormatsLikeC
  BY DEF NamingInv, LikeC
<1> QED
  BY <1>1, NamingHolds, PTL

(* While memory lasts, a lookup appends the names of exactly the entries   *)
(* that have the number: the first of them for a machine, whose table is   *)
(* read only as far as its order allows, all of them for the others, every *)
(* entry all of whose bits are set for flags; for every number and every   *)
(* set of flags looked up, not only those tried by TLC.                    *)
THEOREM NamesCorrect == PrintingSpec => []NamesAreTheNumbers
<1>1. NamingInv => NamesAreTheNumbers
  BY DEF NamingInv
<1> QED
  BY <1>1, NamingHolds, PTL

=============================================================================
