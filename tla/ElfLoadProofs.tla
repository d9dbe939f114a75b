---------------------------- MODULE ElfLoadProofs ----------------------------
(***************************************************************************)
(* Proofs about ElfLoad for any number of sections, types and sizes.       *)
(*                                                                         *)
(* A loader replaces the header of one section and allocates or frees      *)
(* blocks of that section only; Replaced says when such a step keeps the   *)
(* invariant, and each loader is shown to be one.                          *)
(***************************************************************************)
EXTENDS ElfLoad, TLAPS

(* What the header of a section holds, which the destructor frees.         *)
Held(h) == h.content \cup h.records \cup h.group

Position ==
    /\ pc \in {"start", "construct", "header", "sectheaders", "progheaders",
               "names"} => sh = 1
    /\ pc \in Passes => sh \in 0 .. LastOf(pc)

Beginning ==
    /\ pc = "start" => live = {}
    /\ pc = "construct" => live = {<<0, "fd">>}
    /\ pc = "closed" => live \subseteq {<<0, "path">>}
    /\ pc \in {"start", "construct", "closed", "header", "sectheaders"} =>
          \A s \in Sections : shdr[s] = Unloaded

(* What is live and is not of the object itself hangs from the header of   *)
(* its section, but for the bytes of 32-bit RELA sections.                 *)
Lost(b) == Rela32(b[1]) /\ b[2] = "file"

NothingLost == \A b \in live : b[1] # 0 => b \in Held(shdr[b[1]]) \/ Lost(b)

(* What hangs from a header is live as long as there was memory.           *)
NothingDangles ==
    outOfMemory = FALSE =>
        /\ fault = FALSE
        /\ \A s \in Sections : Held(shdr[s]) \subseteq live

(* Only GROUP sections have an array of members, and records come with     *)
(* their content, of the size the header says and of that many records.    *)
WellFormed(s, h) ==
    /\ h.group # {} => Type(s) = "GROUP"
    /\ h.records # {} => h.content # {} \/ Rela32(s)
    /\ h.content # {} => h.size <= h.room
    /\ h.records # {} /\ ~ Rela32(s) /\ ~ StaleSymbols(s) =>
          h.count = h.size \div RecordSize

Destructed ==
    pc = "done" => /\ \A s \in Sections : Held(shdr[s]) = {}
                   /\ \A b \in live : b[1] # 0

IInv ==
    /\ TypeOK
    /\ Position
    /\ Beginning
    /\ NothingLost
    /\ NothingDangles
    /\ \A s \in Sections : WellFormed(s, shdr[s])
    /\ Destructed

-----------------------------------------------------------------------------
(* Facts about numbers, passes and headers.                                *)
LEMMA Numbers ==
    /\ LastSection \in Nat /\ LastSection > 0
    /\ \A s \in Sections : s \in 1 .. LastSection /\ s # 0
    /\ 1 \in 0 .. LastSection
    /\ \A pass : LastOf(pass) \in Nat /\ LastOf(pass) <= LastSection
    /\ \A n \in Sizes : n \in Nat
BY SectionsAssumption, SizesAssumption DEF Sections, LastOf

(* A header before any loader holds nothing.                               *)
LEMMA UnloadedHeader ==
    \A s \in Sections : /\ Unloaded \in Header(s) /\ Held(Unloaded) = {}
                        /\ WellFormed(s, Unloaded)
BY DEF Unloaded, Header, Held, WellFormed

(* A number of records is a number.                                        *)
LEMMA Count == \A n \in Nat : n \div RecordSize \in Nat
BY SizesAssumption

(* Content just loaded: read from the file, or decompressed.               *)
LEMMA RawHeader ==
    ASSUME NEW s \in Sections, NEW n \in Nat
    PROVE  /\ Raw(s, n) \in Header(s) /\ Held(Raw(s, n)) = {<<s, "file">>}
           /\ Raw(s, n).records = {} /\ Raw(s, n).group = {}
           /\ Raw(s, n).content = {<<s, "file">>}
           /\ WellFormed(s, Raw(s, n))
<1>1. Raw(s, n) = [content |-> {<<s, "file">>}, size |-> n, room |-> n,
                   records |-> {}, count |-> 0, group |-> {}]
  BY DEF Raw, Filled
<1>2. Raw(s, n) \in Header(s)
  BY <1>1 DEF Header
<1>3. Held(Raw(s, n)) = {<<s, "file">>}
  BY <1>1 DEF Held
<1> QED
  BY <1>1, <1>2, <1>3 DEF WellFormed

(* The same once the bytes are decompressed.                               *)
LEMMA PlainHeader ==
    ASSUME NEW s \in Sections, NEW n \in Nat
    PROVE  /\ Plain(s, n) \in Header(s) /\ Held(Plain(s, n)) = {<<s, "plain">>}
           /\ Plain(s, n).records = {} /\ Plain(s, n).group = {}
           /\ Plain(s, n).content = {<<s, "plain">>}
           /\ WellFormed(s, Plain(s, n))
<1>1. Plain(s, n) = [content |-> {<<s, "plain">>}, size |-> n, room |-> n,
                     records |-> {}, count |-> 0, group |-> {}]
  BY DEF Plain, Filled
<1>2. Plain(s, n) \in Header(s)
  BY <1>1 DEF Header
<1>3. Held(Plain(s, n)) = {<<s, "plain">>}
  BY <1>1 DEF Held
<1> QED
  BY <1>1, <1>2, <1>3 DEF WellFormed

(* Either way the content is one block of the section.                     *)
LEMMA ReadyHeader ==
    ASSUME NEW s \in Sections, NEW h \in Ready(s)
    PROVE  /\ h \in Header(s) /\ WellFormed(s, h)
           /\ h.records = {} /\ h.group = {}
           /\ Held(h) = h.content /\ h.content # {}
           /\ h.size \in Nat
           /\ Compressed(s) => h.content = {<<s, "plain">>}
           /\ ~ Compressed(s) => h.content = {<<s, "file">>}
<1>1. \/ Compressed(s) /\ \E n \in Sizes : h = Plain(s, n)
      \/ ~ Compressed(s) /\ \E n \in Sizes : h = Raw(s, n)
  BY DEF Ready
<1>2. ASSUME NEW n \in Sizes, h = Plain(s, n) \/ h = Raw(s, n)
      PROVE  /\ h \in Header(s) /\ WellFormed(s, h)
             /\ h.records = {} /\ h.group = {}
             /\ Held(h) = h.content /\ h.content # {}
             /\ h = Plain(s, n) => h.content = {<<s, "plain">>}
             /\ h = Raw(s, n) => h.content = {<<s, "file">>}
  <2>1. n \in Nat
    BY Numbers
  <2>2. CASE h = Plain(s, n)
    BY <2>1, <2>2, PlainHeader, RawHeader
  <2>3. CASE h = Raw(s, n)
    BY <2>1, <2>3, PlainHeader, RawHeader
  <2> QED
    BY <1>2, <2>2, <2>3
<1>3. h \in Header(s) /\ WellFormed(s, h) /\ h.records = {} /\ h.group = {}
      /\ Held(h) = h.content /\ h.content # {}
  BY <1>1, <1>2
<1>4. h.size \in Nat
  BY <1>3 DEF Header
<1> QED
  BY <1>1, <1>2, <1>3, <1>4

(* Records hung beside the content.                                        *)
LEMMA RecordsHeader ==
    ASSUME sh \in Sections, NEW h \in Header(sh), NEW n \in Nat,
           h.group # {} => Type(sh) = "GROUP",
           h.content # {} => h.size <= h.room,
           h.content # {} \/ Rela32(sh),
           n = h.size \/ Rela32(sh) \/ StaleSymbols(sh)
    PROVE  /\ WithRecords(h, n) \in Header(sh)
           /\ Held(WithRecords(h, n))
                = h.content \cup {<<sh, "records">>} \cup h.group
           /\ WithRecords(h, n).content = h.content
           /\ WellFormed(sh, WithRecords(h, n))
<1> DEFINE w == WithRecords(h, n)
<1>1. /\ w.content = h.content /\ w.size = h.size /\ w.room = h.room
      /\ w.records = {<<sh, "records">>} /\ w.count = n \div RecordSize
      /\ w.group = h.group
  BY DEF WithRecords, Header
<1>2. w \in Header(sh)
  BY Count DEF WithRecords, Header
<1> HIDE DEF w
<1>3. Held(w) = h.content \cup {<<sh, "records">>} \cup h.group
  BY <1>1 DEF Held
<1>4. WellFormed(sh, w)
  BY <1>1 DEF WellFormed
<1> QED
  BY <1>1, <1>2, <1>3, <1>4 DEF w

(* The passes stay on sections, and on those they look at.                 *)
LEMMA Advancing ==
    ASSUME pc \in Passes, sh \in 0 .. LastOf(pc), Advance
    PROVE  /\ pc' \in Passes \cup {"print"}
           /\ sh' \in 0 .. LastSection
           /\ Position'
<1> USE Numbers
<1>1. CASE sh = LastOf(pc)
  <2>1. /\ pc' \in Passes \cup {"print"}
        /\ pc' = "groups" => sh' = 0
        /\ pc' # "groups" => sh' = 1
    BY <1>1 DEF Advance, NextPhase, NextPass, Passes
  <2>2. sh' \in 0 .. LastSection /\ (pc' \in Passes => sh' \in 0 .. LastOf(pc'))
    BY <2>1 DEF LastOf
  <2> QED
    BY <2>1, <2>2 DEF Position, Passes, LastOf
<1>2. CASE sh # LastOf(pc)
  <2>1. pc' = pc /\ sh' = sh + 1
    BY <1>2 DEF Advance
  <2>2. sh' \in 0 .. LastOf(pc)
    BY <2>1, <1>2
  <2> QED
    BY <2>1, <2>2 DEF Position, Passes, LastOf
<1> QED
  BY <1>1, <1>2

-----------------------------------------------------------------------------
(* Steps that keep the invariant.                                          *)

(* Whatever a section holds is named after it.                             *)
LEMMA HeldIsOwn ==
    ASSUME NEW s \in Sections, NEW h \in Header(s)
    PROVE  \A b \in Held(h) : b \in Blocks /\ b[1] = s
BY DEF Header, Held, Blocks

(* The object chosen at the start stays.                                   *)
LEMMA SameObject ==
    ASSUME obj' = obj
    PROVE  /\ \A s : Rela32(s)' <=> Rela32(s)
           /\ \A s : StaleSymbols(s)' <=> StaleSymbols(s)
           /\ \A s : Type(s)' = Type(s)
BY DEF Rela32, StaleSymbols, Type, Is64, Compressed

(* Only blocks of the object itself come, and no header changes.           *)
LEMMA Elsewhere ==
    ASSUME IInv, UNCHANGED <<obj, shdr, names, fault, outOfMemory>>,
           live' \subseteq Blocks, live \subseteq live',
           \A b \in live' : b \in live \/ b[1] = 0,
           pc' \in Passes \cup {"crashed", "construct", "header", "sectheaders",
                                "progheaders", "names", "print", "destruct"},
           sh' \in 0 .. LastSection, Position', Beginning'
    PROVE  IInv'
<1> USE DEF IInv
<1>1. TypeOK'
  BY DEF TypeOK, Ends
<1>2. NothingLost'
  BY SameObject DEF NothingLost, Lost
<1>3. NothingDangles'
  BY DEF NothingDangles
<1>4. \A s \in Sections : WellFormed(s, shdr[s])'
  BY SameObject DEF WellFormed
<1>5. Destructed'
  BY DEF Destructed, Passes
<1> QED
  BY <1>1, <1>2, <1>3, <1>4, <1>5

(* The header of one section is replaced, blocks of that section come and  *)
(* go, and none of them is lost.                                           *)
LEMMA Replaced ==
    ASSUME IInv, NEW s \in Sections, NEW h \in Header(s), WellFormed(s, h),
           shdr' = [shdr EXCEPT ![s] = h],
           live' \subseteq Blocks,
           \A b \in live : b[1] # s => b \in live',
           \A b \in live' : b[1] # s => b \in live \/ b[1] = 0,
           \A b \in live' : b[1] = s => b \in Held(h) \/ Lost(b),
           outOfMemory' \in BOOLEAN, fault' \in BOOLEAN,
           outOfMemory' = FALSE =>
               outOfMemory = FALSE /\ fault' = fault /\ Held(h) \subseteq live',
           pc' \in Passes \cup {"progheaders", "print", "destruct"},
           sh' \in 0 .. LastSection, Position',
           obj' = obj, names' \in 0 .. LastSection
    PROVE  IInv'
<1> USE DEF IInv
<1>1. /\ DOMAIN shdr' = Sections /\ shdr'[s] = h
      /\ \A t \in Sections : t # s => shdr'[t] = shdr[t]
      /\ \A t \in Sections : shdr[t] \in Header(t)
  BY DEF TypeOK
<1>2. TypeOK'
  <2>1. \A t \in Sections : shdr'[t] \in Header(t)
    BY <1>1
  <2> QED
    BY <1>1, <2>1 DEF TypeOK
<1>3. NothingLost'
  <2> SUFFICES ASSUME NEW b \in live', b[1] # 0
               PROVE  b \in Held(shdr'[b[1]]) \/ Lost(b)
    BY SameObject DEF NothingLost, Lost
  <2>1. CASE b[1] = s
    BY <2>1, <1>1
  <2>2. CASE b[1] # s
    <3>1. b \in live /\ b[1] \in Sections
      BY <2>2 DEF Blocks
    <3> QED
      BY <2>2, <3>1, <1>1 DEF NothingLost
  <2> QED
    BY <2>1, <2>2
<1>4. NothingDangles'
  <2> SUFFICES ASSUME outOfMemory' = FALSE
               PROVE  /\ fault' = FALSE
                      /\ \A t \in Sections : Held(shdr'[t]) \subseteq live'
    BY DEF NothingDangles
  <2>1. /\ fault' = FALSE /\ Held(h) \subseteq live'
        /\ \A t \in Sections : Held(shdr[t]) \subseteq live
    BY DEF NothingDangles
  <2>2. ASSUME NEW t \in Sections, t # s PROVE Held(shdr'[t]) \subseteq live'
    <3>1. shdr'[t] = shdr[t]
      BY <1>1, <2>2
    <3>2. \A b \in Held(shdr[t]) : b \in live /\ b[1] # s
      BY <2>1, <2>2, <1>1, HeldIsOwn
    <3> QED
      BY <3>1, <3>2
  <2> QED
    BY <1>1, <2>1, <2>2
<1>5. \A t \in Sections : WellFormed(t, shdr[t])'
  <2>1. \A t \in Sections : WellFormed(t, shdr'[t])
    BY <1>1
  <2> QED
    BY <2>1, SameObject DEF WellFormed
<1>6. Beginning' /\ Destructed'
  BY DEF Beginning, Destructed, Passes
<1> QED
  BY <1>2, <1>3, <1>4, <1>5, <1>6

(* A section a pass wants, and which is not a 32-bit RELA section, holds   *)
(* nothing yet.                                                            *)
LEMMA Fresh ==
    ASSUME IInv, Loading
    PROVE  /\ sh \in Sections /\ pc \in Passes /\ sh \in 0 .. LastOf(pc)
           /\ Type(sh) # "GROUP"
           /\ shdr[sh] \in Header(sh) /\ WellFormed(sh, shdr[sh])
           /\ shdr[sh].content = {} /\ shdr[sh].group = {}
           /\ ~ Rela32(sh) => /\ Held(shdr[sh]) = {}
                              /\ \A b \in live : b[1] # sh
<1> USE DEF IInv
<1>1. PICK pass \in Passes \ {"groups"} : Wanted(pass)
  BY DEF Loading
<1>2. /\ sh \in Sections /\ pc \in Passes /\ sh \in 0 .. LastOf(pc)
      /\ Type(sh) # "GROUP" /\ shdr[sh].content = {}
      /\ shdr[sh] \in Header(sh) /\ WellFormed(sh, shdr[sh])
  BY <1>1 DEF Wanted, Passes, TypesOf, Position, TypeOK
<1>3. shdr[sh].group = {}
  BY <1>2 DEF WellFormed
<1>4. ASSUME ~ Rela32(sh)
      PROVE  Held(shdr[sh]) = {} /\ \A b \in live : b[1] # sh
  <2>1. shdr[sh].records = {}
    BY <1>2, <1>4 DEF WellFormed
  <2>2. Held(shdr[sh]) = {}
    BY <1>2, <1>3, <2>1 DEF Held
  <2> QED
    BY <1>2, <1>4, <2>2, Numbers DEF NothingLost, Lost
<1> QED
  BY <1>2, <1>3, <1>4

(* A loader has made h the header of its section and allocated blocks it   *)
(* holds: all of them, unless memory ran out.                              *)
LEMMA Loaded ==
    ASSUME IInv, Loading, ~ Rela32(sh),
           NEW h \in Header(sh), WellFormed(sh, h), NEW new \in SUBSET Held(h),
           shdr' = [shdr EXCEPT ![sh] = h], live' = live \cup new,
           outOfMemory' \in BOOLEAN, fault' \in BOOLEAN,
           outOfMemory' = FALSE =>
               outOfMemory = FALSE /\ fault' = fault /\ new = Held(h),
           pc' \in Passes \cup {"print", "destruct"},
           sh' \in 0 .. LastSection, Position', UNCHANGED <<obj, names>>
    PROVE  IInv'
<1>1. sh \in Sections /\ \A b \in live : b[1] # sh
  BY Fresh
<1>2. \A b \in Held(h) : b \in Blocks /\ b[1] = sh
  BY <1>1, HeldIsOwn
<1>3. live \subseteq Blocks /\ names \in 0 .. LastSection
  BY DEF IInv, TypeOK
<1>4. live' \subseteq Blocks
  BY <1>2, <1>3
<1>5. /\ \A b \in live : b[1] # sh => b \in live'
      /\ \A b \in live' : b[1] # sh => b \in live \/ b[1] = 0
      /\ \A b \in live' : b[1] = sh => b \in Held(h) \/ Lost(b)
  BY <1>1, <1>2
<1>6. outOfMemory' = FALSE =>
          outOfMemory = FALSE /\ fault' = fault /\ Held(h) \subseteq live'
  OBVIOUS
<1> QED
  BY <1>1, <1>3, <1>4, <1>5, <1>6, Replaced

(* The same for a 32-bit RELA section, whose records may be there already  *)
(* and whose bytes nothing points to.                                      *)
LEMMA RelaLoaded ==
    ASSUME IInv, Loading, Rela32(sh),
           NEW h \in Header(sh), WellFormed(sh, h), Held(shdr[sh]) \subseteq Held(h),
           NEW new \in SUBSET (Held(h) \cup {<<sh, "file">>}),
           shdr' = [shdr EXCEPT ![sh] = h], live' = live \cup new,
           outOfMemory' \in BOOLEAN, fault' \in BOOLEAN,
           outOfMemory' = FALSE =>
               /\ outOfMemory = FALSE /\ fault' = fault
               /\ Held(h) \subseteq Held(shdr[sh]) \cup new,
           pc' \in Passes \cup {"print", "destruct"},
           sh' \in 0 .. LastSection, Position', UNCHANGED <<obj, names>>
    PROVE  IInv'
<1>1. sh \in Sections
  BY Fresh
<1>2. \A b \in new : b \in Blocks /\ b[1] = sh /\ (b \in Held(h) \/ Lost(b))
  <2>1. \A b \in Held(h) : b \in Blocks /\ b[1] = sh
    BY <1>1, HeldIsOwn
  <2>2. <<sh, "file">> \in Blocks /\ <<sh, "file">>[1] = sh /\ Lost(<<sh, "file">>)
    BY <1>1 DEF Blocks, Lost
  <2> QED
    BY <2>1, <2>2
<1>3. live \subseteq Blocks /\ names \in 0 .. LastSection
  BY DEF IInv, TypeOK
<1>4. live' \subseteq Blocks
  BY <1>2, <1>3
<1>5. /\ \A b \in live : b[1] # sh => b \in live'
      /\ \A b \in live' : b[1] # sh => b \in live \/ b[1] = 0
  BY <1>2
<1>6. \A b \in live' : b[1] = sh => b \in Held(h) \/ Lost(b)
  BY <1>1, <1>2, Numbers DEF IInv, NothingLost
<1>7. outOfMemory' = FALSE =>
          outOfMemory = FALSE /\ fault' = fault /\ Held(h) \subseteq live'
  BY <1>1 DEF IInv, NothingDangles
<1> QED
  BY <1>1, <1>3, <1>4, <1>5, <1>6, <1>7, Replaced

-----------------------------------------------------------------------------
(* The three ways a loader ends.                                           *)
LEMMA Booleans == IInv => fault \in BOOLEAN /\ outOfMemory \in BOOLEAN
BY DEF IInv, TypeOK

(* A success keeps the invariant if the header holds what was allocated.   *)
LEMMA Succeeding ==
    ASSUME IInv, Loading, ~ Rela32(sh), NEW h \in Header(sh), WellFormed(sh, h),
           Succeed(h, live \cup Held(h))
    PROVE  IInv'
<1> DEFINE new == Held(h)
<1>1. /\ shdr' = [shdr EXCEPT ![sh] = h] /\ live' = live \cup new
      /\ Advance /\ UNCHANGED <<obj, names>>
      /\ fault' = fault /\ outOfMemory' = outOfMemory
  BY DEF Succeed, Leave
<1>2. pc' \in Passes \cup {"print"} /\ sh' \in 0 .. LastSection /\ Position'
  BY <1>1, Fresh, Advancing
<1>3. new \in SUBSET Held(h) /\ new = Held(h)
  OBVIOUS
<1> HIDE DEF new
<1> QED
  BY <1>1, <1>2, <1>3, Booleans, Loaded

(* So does an error that leaves in the header what is allocated.           *)
LEMMA Failing ==
    ASSUME IInv, Loading, ~ Rela32(sh), NEW h \in Header(sh), WellFormed(sh, h),
           Fail(h, live \cup Held(h))
    PROVE  IInv'
<1> DEFINE new == Held(h)
<1>1. /\ shdr' = [shdr EXCEPT ![sh] = h] /\ live' = live \cup new
      /\ pc' = "destruct" /\ UNCHANGED <<obj, names>>
      /\ sh' = sh /\ fault' = fault /\ outOfMemory' = outOfMemory
  BY DEF Fail, Leave
<1>2. sh' \in 0 .. LastSection /\ Position'
  BY <1>1 DEF IInv, TypeOK, Position, Passes
<1>3. new \in SUBSET Held(h) /\ new = Held(h)
  OBVIOUS
<1> HIDE DEF new
<1> QED
  BY <1>1, <1>2, <1>3, Booleans, Loaded

(* Without memory less may be allocated than the header holds.             *)
LEMMA RunningOut ==
    ASSUME IInv, Loading, ~ Rela32(sh), NEW h \in Header(sh), WellFormed(sh, h),
           NEW new \in SUBSET Held(h), NEW again \in BOOLEAN,
           FailWithoutMemory(h, live \cup new, again)
    PROVE  IInv'
<1>1. /\ shdr' = [shdr EXCEPT ![sh] = h] /\ live' = live \cup new
      /\ pc' = "destruct" /\ UNCHANGED <<obj, names>>
      /\ sh' = sh /\ outOfMemory' = TRUE
  BY DEF FailWithoutMemory, Leave
<1>2. sh' \in 0 .. LastSection /\ Position'
  BY <1>1 DEF IInv, TypeOK, Position, Passes
<1>3. fault' \in BOOLEAN
  BY Booleans DEF FailWithoutMemory
<1> QED
  BY <1>1, <1>2, <1>3, Loaded

-----------------------------------------------------------------------------
(* The loaders.                                                            *)

(* Which type a loader is for.                                             *)
LEMMA NotRela32 ==
    ASSUME Type(sh) # "RELA" \/ Is64
    PROVE  ~ Rela32(sh)
BY DEF Rela32

(* A fresh section holds nothing that a loader could lose.                 *)
LEMMA Kept ==
    ASSUME IInv, Loading, ~ Rela32(sh)
    PROVE  live = live \cup Held(shdr[sh])
BY Fresh

(* Nothing is read: the header stays as it is.                             *)
LEMMA LoadFailsStep == IInv /\ LoadFails => IInv'
<1> SUFFICES ASSUME IInv, LoadFails PROVE IInv'
  OBVIOUS
<1>1. Loading /\ Fail(shdr[sh], live)
  BY DEF LoadFails
<1>2. CASE ~ Rela32(sh)
  <2>1. Fail(shdr[sh], live \cup Held(shdr[sh]))
    BY <1>1, <1>2, Kept
  <2> QED
    BY <1>1, <1>2, <2>1, Fresh, Failing
<1>3. CASE Rela32(sh)
  <2> DEFINE h == shdr[sh]
             new == {}
  <2>1. /\ shdr' = [shdr EXCEPT ![sh] = h] /\ live' = live \cup new
        /\ pc' = "destruct" /\ UNCHANGED <<obj, names>>
        /\ sh' = sh /\ fault' = fault /\ outOfMemory' = outOfMemory
    BY <1>1 DEF Fail, Leave
  <2>2. sh' \in 0 .. LastSection /\ Position'
    BY <2>1 DEF IInv, TypeOK, Position, Passes
  <2>3. /\ h \in Header(sh) /\ WellFormed(sh, h)
        /\ Held(shdr[sh]) \subseteq Held(h)
        /\ new \in SUBSET (Held(h) \cup {<<sh, "file">>})
        /\ Held(h) \subseteq Held(shdr[sh]) \cup new
    BY <1>1, Fresh
  <2> HIDE DEF h, new
  <2> QED
    BY <1>1, <1>3, <2>1, <2>2, <2>3, Booleans, RelaLoaded
<1> QED
  BY <1>2, <1>3

(* Compressed bytes stay in the header or are freed.                       *)
LEMMA DecompressFailsStep == IInv /\ DecompressFails => IInv'
<1> SUFFICES ASSUME IInv, DecompressFails PROVE IInv'
  OBVIOUS
<1>1. Loading /\ ~ Rela32(sh) /\ sh \in Sections
  BY Fresh DEF DecompressFails
<1>2. CASE Type(sh) = "STRTAB"
  <2>1. Fail(shdr[sh], live \cup Held(shdr[sh]))
    BY <1>1, <1>2, Kept DEF DecompressFails
  <2> QED
    BY <1>1, <2>1, Fresh, Failing
<1>3. CASE Type(sh) # "STRTAB"
  <2>1. PICK n \in Sizes : Fail(Raw(sh, n), live \cup {<<sh, "file">>})
    BY <1>3 DEF DecompressFails
  <2>2. n \in Nat
    BY Numbers
  <2>3. Fail(Raw(sh, n), live \cup Held(Raw(sh, n)))
    BY <1>1, <2>1, <2>2, RawHeader
  <2> QED
    BY <1>1, <2>2, <2>3, RawHeader, Failing
<1> QED
  BY <1>2, <1>3

(* String tables.                                                          *)
LEMMA LoadSymstrStep == IInv /\ LoadSymstr => IInv'
<1> SUFFICES ASSUME IInv, LoadSymstr PROVE IInv'
  OBVIOUS
<1>1. Loading /\ ~ Rela32(sh)
  BY NotRela32 DEF LoadSymstr, Loading, Wanted, TypesOf, Passes
<1>2. sh \in Sections
  BY <1>1, Fresh
<1>3. PICK h \in Ready(sh) : Succeed(h, live \cup h.content)
  BY DEF LoadSymstr
<1>4. h \in Header(sh) /\ WellFormed(sh, h) /\ Held(h) = h.content
  BY <1>2, ReadyHeader
<1>5. Succeed(h, live \cup Held(h))
  BY <1>3, <1>4
<1> QED
  BY <1>1, <1>4, <1>5, Succeeding

(* The members of a group hang beside whatever else is held.               *)
LEMMA LoadGroupStep == IInv /\ LoadGroup => IInv'
<1> SUFFICES ASSUME IInv, LoadGroup PROVE IInv'
  OBVIOUS
<1> DEFINE h == [shdr[sh] EXCEPT !.group = {<<sh, "group">>}]
<1>1. /\ sh \in Sections /\ pc = "groups" /\ pc \in Passes /\ sh \in 0 .. LastOf(pc)
      /\ Type(sh) = "GROUP"
      /\ shdr[sh] \in Header(sh) /\ WellFormed(sh, shdr[sh])
      /\ names \in 0 .. LastSection /\ live \subseteq Blocks
      /\ sh \in 0 .. LastSection
  BY DEF LoadGroup, Wanted, TypesOf, Passes, IInv, TypeOK, Position
<1>2. CASE Succeed(h, live \cup {<<sh, "group">>})
  <2>1. /\ h.content = shdr[sh].content /\ h.records = shdr[sh].records
        /\ h.size = shdr[sh].size /\ h.room = shdr[sh].room
        /\ h.count = shdr[sh].count /\ h.group = {<<sh, "group">>}
        /\ h \in Header(sh)
    BY <1>1 DEF Header
  <2> HIDE DEF h
  <2>2. WellFormed(sh, h)
    BY <1>1, <2>1 DEF WellFormed
  <2>3. /\ shdr' = [shdr EXCEPT ![sh] = h] /\ live' = live \cup {<<sh, "group">>}
        /\ Advance /\ UNCHANGED <<obj, names>>
        /\ fault' = fault /\ outOfMemory' = outOfMemory
    BY <1>2 DEF Succeed, Leave
  <2>4. pc' \in Passes \cup {"print"} /\ sh' \in 0 .. LastSection /\ Position'
    BY <1>1, <2>3, Advancing
  <2>5. Held(h) = Held(shdr[sh]) \cup {<<sh, "group">>}
        \/ Held(h) = shdr[sh].content \cup shdr[sh].records \cup {<<sh, "group">>}
    BY <2>1 DEF Held
  <2>6. /\ Held(shdr[sh]) \subseteq Held(h) /\ <<sh, "group">> \in Held(h)
        /\ Held(h) \subseteq Held(shdr[sh]) \cup {<<sh, "group">>}
    BY <1>1, <2>1 DEF Held, Header
  <2>7. live' \subseteq Blocks
    BY <1>1, <2>3 DEF Blocks
  <2>8. /\ \A b \in live : b[1] # sh => b \in live'
        /\ \A b \in live' : b[1] # sh => b \in live \/ b[1] = 0
    BY <2>3
  <2>9. \A b \in live' : b[1] = sh => b \in Held(h) \/ Lost(b)
    BY <1>1, <2>3, <2>6, Numbers DEF IInv, NothingLost
  <2>10. outOfMemory' = FALSE =>
             outOfMemory = FALSE /\ fault' = fault /\ Held(h) \subseteq live'
    BY <1>1, <2>3, <2>6 DEF IInv, NothingDangles
  <2> QED
    BY <1>1, <2>1, <2>2, <2>3, <2>4, <2>7, <2>8, <2>9, <2>10, Booleans, Replaced
<1>3. CASE NextPhase /\ UNCHANGED <<obj, shdr, names, live, fault, outOfMemory>>
  <2>1. pc' = "symtabs" /\ sh' = 1
    BY <1>1, <1>3 DEF NextPhase, NextPass
  <2>2. sh' \in 0 .. LastSection /\ Position' /\ Beginning'
    BY <2>1, Numbers DEF Position, LastOf, Beginning, Passes
  <2> QED
    BY <1>1, <1>3, <2>1, <2>2, Elsewhere DEF Passes
<1> QED
  BY <1>2, <1>3 DEF LoadGroup

(* Symbols: whatever size they are counted in, for StaleSymbols; otherwise *)
(* the size of the content.                                                *)
LEMMA SymbolsStep ==
    ASSUME IInv, WantedSymbols, NEW h \in Ready(sh), NEW size \in Nat,
           size = h.size \/ StaleSymbols(sh), Symbols(h, size)
    PROVE  IInv'
<1>1. Loading /\ ~ Rela32(sh)
  BY NotRela32 DEF WantedSymbols, Loading, Passes
<1>2. sh \in Sections
  BY <1>1, Fresh
<1>3. /\ h \in Header(sh) /\ WellFormed(sh, h) /\ Held(h) = h.content
      /\ h.content # {} /\ h.group = {}
  BY <1>2, ReadyHeader
<1>4. CASE Succeed(h, live \cup h.content)
  <2>1. Succeed(h, live \cup Held(h))
    BY <1>3, <1>4
  <2> QED
    BY <1>1, <1>3, <2>1, Succeeding
<1>5. CASE Succeed(WithRecords(h, size), live \cup h.content \cup {<<sh, "records">>})
  <2>1. /\ WithRecords(h, size) \in Header(sh)
        /\ Held(WithRecords(h, size)) = h.content \cup {<<sh, "records">>}
        /\ WellFormed(sh, WithRecords(h, size))
    BY <1>2, <1>3, RecordsHeader DEF WellFormed
  <2>2. Succeed(WithRecords(h, size), live \cup Held(WithRecords(h, size)))
    <3>1. live \cup h.content \cup {<<sh, "records">>}
            = live \cup Held(WithRecords(h, size))
      BY <2>1
    <3> QED
      BY <1>5, <3>1
  <2> QED
    BY <1>1, <2>1, <2>2, Succeeding
<1>6. CASE FailWithoutMemory(h, (live \cup h.content) \ {<<sh, "file">>},
                             Compressed(sh))
  <2> DEFINE new == h.content \ {<<sh, "file">>}
             again == Compressed(sh)
  <2>1. (live \cup h.content) \ {<<sh, "file">>} = live \cup new
    <3>1. <<sh, "file">> \notin live
      BY <1>1, <1>2, Fresh
    <3> QED
      BY <3>1
  <2>2. new \in SUBSET Held(h)
    BY <1>3
  <2>3. again \in BOOLEAN
    BY DEF Compressed
  <2>4. FailWithoutMemory(h, live \cup new, again)
    BY <1>6, <2>1
  <2> HIDE DEF new, again
  <2> QED
    BY <1>1, <1>3, <2>2, <2>3, <2>4, RunningOut
<1> QED
  BY <1>4, <1>5, <1>6 DEF Symbols

(* Symbols, counted in the size or in the stale one.                       *)
LEMMA LoadSymbolsStep == IInv /\ (LoadSymbols32 \/ LoadSymbols64) => IInv'
<1> SUFFICES ASSUME IInv, LoadSymbols32 \/ LoadSymbols64 PROVE IInv'
  OBVIOUS
<1>1. WantedSymbols /\ sh \in Sections
  BY DEF LoadSymbols32, LoadSymbols64, WantedSymbols, Wanted
<1>2. CASE LoadSymbols64
  <2>1. PICK h \in Ready(sh) : Symbols(h, h.size)
    BY <1>2 DEF LoadSymbols64
  <2>2. h.size \in Nat
    BY <1>1, ReadyHeader
  <2> QED
    BY <1>1, <2>1, <2>2, SymbolsStep
<1>3. CASE LoadSymbols32
  <2>1. PICK h \in Ready(sh), raw \in Sizes :
            Symbols(h, IF Compressed(sh) THEN raw ELSE h.size)
    BY <1>3 DEF LoadSymbols32
  <2> DEFINE size == IF Compressed(sh) THEN raw ELSE h.size
  <2>2. size \in Nat
    BY <1>1, ReadyHeader, Numbers
  <2>3. size = h.size \/ StaleSymbols(sh)
    BY <1>3 DEF LoadSymbols32, WantedSymbols, StaleSymbols
  <2>4. Symbols(h, size)
    BY <2>1
  <2> HIDE DEF size
  <2> QED
    BY <1>1, <2>2, <2>3, <2>4, SymbolsStep
<1> QED
  BY <1>2, <1>3

(* Content with records of its size: what the other loaders leave.         *)
LEMMA WholeRecords ==
    ASSUME IInv, Loading, ~ Rela32(sh), NEW h \in Ready(sh),
           Succeed(WithRecords(h, h.size), live \cup h.content \cup {<<sh, "records">>})
    PROVE  IInv'
<1>1. sh \in Sections
  BY Fresh
<1>2. /\ h \in Header(sh) /\ WellFormed(sh, h) /\ h.content # {} /\ h.group = {}
      /\ h.size \in Nat
  BY <1>1, ReadyHeader
<1>3. /\ WithRecords(h, h.size) \in Header(sh)
      /\ Held(WithRecords(h, h.size)) = h.content \cup {<<sh, "records">>}
      /\ WellFormed(sh, WithRecords(h, h.size))
  BY <1>1, <1>2, RecordsHeader DEF WellFormed
<1>4. live \cup h.content \cup {<<sh, "records">>}
        = live \cup Held(WithRecords(h, h.size))
  BY <1>3
<1>5. Succeed(WithRecords(h, h.size), live \cup Held(WithRecords(h, h.size)))
  BY <1>4
<1> QED
  BY <1>3, <1>5, Succeeding

(* And what they leave when the records cannot be allocated.               *)
LEMMA NoRecords ==
    ASSUME IInv, Loading, ~ Rela32(sh), NEW h \in Ready(sh),
           FailWithoutMemory(h, live, FALSE)
    PROVE  IInv'
<1>1. h \in Header(sh) /\ WellFormed(sh, h)
  BY Fresh, ReadyHeader
<1> DEFINE new == {}
           again == FALSE
<1>2. new \in SUBSET Held(h) /\ again \in BOOLEAN
  OBVIOUS
<1>3. FailWithoutMemory(h, live \cup new, again)
  OBVIOUS
<1> HIDE DEF new, again
<1> QED
  BY <1>1, <1>2, <1>3, RunningOut

(* A crash changes nothing but where the program is.                       *)
LEMMA CrashStep == IInv /\ Crash => IInv'
<1> SUFFICES ASSUME IInv, Crash PROVE IInv'
  OBVIOUS
<1>1. UNCHANGED <<obj, sh, shdr, names, fault, outOfMemory, live>> /\ pc' = "crashed"
  BY DEF Crash, Unmoved
<1>2. /\ live' \subseteq Blocks /\ live \subseteq live'
      /\ \A b \in live' : b \in live \/ b[1] = 0
      /\ sh' \in 0 .. LastSection
  BY <1>1 DEF IInv, TypeOK
<1>3. Position' /\ Beginning'
  BY <1>1 DEF Position, Beginning, Passes
<1> QED
  BY <1>1, <1>2, <1>3, Elsewhere

(* Dynamic entries.                                                        *)
LEMMA LoadDynamicStep == IInv /\ (LoadDynamic32 \/ LoadDynamic64) => IInv'
<1> SUFFICES ASSUME IInv, LoadDynamic32 \/ LoadDynamic64 PROVE IInv'
  OBVIOUS
<1>1. Loading /\ ~ Rela32(sh)
  BY NotRela32 DEF LoadDynamic32, LoadDynamic64, Loading, Passes
<1>2. PICK h \in Ready(sh) :
          \/ Dynamic(h) \/ FailWithoutMemory(h, live, FALSE) \/ Crash
  BY DEF LoadDynamic32, LoadDynamic64
<1>3. CASE Dynamic(h)
  BY <1>1, <1>3, WholeRecords DEF Dynamic
<1>4. CASE FailWithoutMemory(h, live, FALSE)
  BY <1>1, <1>4, NoRecords
<1>5. CASE Crash
  BY <1>5, CrashStep
<1> QED
  BY <1>2, <1>3, <1>4, <1>5

(* Relocations but those of 32-bit RELA sections.                          *)
LEMMA RelocationsStep ==
    ASSUME IInv, Loading, ~ Rela32(sh), Relocations
    PROVE  IInv'
<1>1. PICK h \in Ready(sh) :
          \/ Succeed(WithRecords(h, h.size),
                     live \cup h.content \cup {<<sh, "records">>})
          \/ Fail(h, live \cup h.content)
          \/ FailWithoutMemory(h, live, FALSE)
  BY DEF Relocations
<1>2. CASE Fail(h, live \cup h.content)
  <2>1. h \in Header(sh) /\ WellFormed(sh, h) /\ Held(h) = h.content
    BY Fresh, ReadyHeader
  <2>2. Fail(h, live \cup Held(h))
    BY <1>2, <2>1
  <2> QED
    BY <2>1, <2>2, Failing
<1> QED
  BY <1>1, <1>2, WholeRecords, NoRecords

(* A lack of memory that is not taken for an error.                        *)
LEMMA RelWithoutMemoryStep ==
    ASSUME IInv, Loading, ~ Rela32(sh), RelWithoutMemory
    PROVE  IInv'
<1> DEFINE h == shdr[sh]
           new == {}
<1>1. /\ shdr' = [shdr EXCEPT ![sh] = h] /\ live' = live \cup new
      /\ Advance /\ UNCHANGED <<obj, names>>
      /\ fault' = fault /\ outOfMemory' = TRUE
  BY DEF RelWithoutMemory, Leave
<1>2. pc' \in Passes \cup {"print"} /\ sh' \in 0 .. LastSection /\ Position'
  BY <1>1, Fresh, Advancing
<1>3. h \in Header(sh) /\ WellFormed(sh, h) /\ new \in SUBSET Held(h)
  BY Fresh
<1> HIDE DEF h, new
<1> QED
  BY <1>1, <1>2, <1>3, Booleans, Loaded

(* The three loaders of such relocations.                                  *)
LEMMA LoadRelocationsStep ==
    IInv /\ (LoadRel32 \/ LoadRel64 \/ LoadRela64) => IInv'
<1> SUFFICES ASSUME IInv, LoadRel32 \/ LoadRel64 \/ LoadRela64 PROVE IInv'
  OBVIOUS
<1>1. Loading /\ ~ Rela32(sh)
  BY NotRela32 DEF LoadRel32, LoadRel64, LoadRela64, Loading, Passes
<1>2. Relocations \/ RelWithoutMemory
  BY DEF LoadRel32, LoadRel64, LoadRela64
<1> QED
  BY <1>1, <1>2, RelocationsStep, RelWithoutMemoryStep

(* Records of a 32-bit RELA section, beside no content.                    *)
LEMMA RelaRecords ==
    ASSUME IInv, Loading, Rela32(sh), NEW n \in Nat
    PROVE  LET h == WithRecords([shdr[sh] EXCEPT !.size = n], n)
           IN  /\ h \in Header(sh) /\ WellFormed(sh, h)
               /\ Held(h) = {<<sh, "records">>}
               /\ Held(shdr[sh]) \subseteq Held(h)
<1> DEFINE g == [shdr[sh] EXCEPT !.size = n]
<1>1. /\ sh \in Sections /\ shdr[sh] \in Header(sh)
      /\ shdr[sh].content = {} /\ shdr[sh].group = {}
  BY Fresh
<1>2. g \in Header(sh) /\ g.content = {} /\ g.group = {} /\ g.size = n
  BY <1>1 DEF Header
<1> HIDE DEF g
<1>3. /\ WithRecords(g, n) \in Header(sh)
      /\ Held(WithRecords(g, n)) = {<<sh, "records">>}
      /\ WellFormed(sh, WithRecords(g, n))
  BY <1>1, <1>2, RecordsHeader
<1>4. Held(shdr[sh]) \subseteq {<<sh, "records">>}
  BY <1>1 DEF Held, Header
<1> QED
  BY <1>3, <1>4 DEF g

(* 32-bit RELA sections, whose bytes hang from nothing.                    *)
LEMMA LoadRela32Step == IInv /\ LoadRela32 => IInv'
<1> SUFFICES ASSUME IInv, LoadRela32 PROVE IInv'
  OBVIOUS
<1>1. Loading /\ Rela32(sh)
  BY DEF LoadRela32, Loading, Passes
<1>2. /\ sh \in Sections /\ shdr[sh] \in Header(sh) /\ WellFormed(sh, shdr[sh])
      /\ pc \in Passes /\ sh \in 0 .. LastOf(pc) /\ sh \in 0 .. LastSection
  BY <1>1, Fresh DEF IInv, TypeOK
<1>3. ASSUME Succeed(shdr[sh], live) PROVE IInv'
  <2> DEFINE h == shdr[sh]
             new == {}
  <2>1. /\ shdr' = [shdr EXCEPT ![sh] = h] /\ live' = live \cup new
        /\ Advance /\ UNCHANGED <<obj, names>>
        /\ fault' = fault /\ outOfMemory' = outOfMemory
    BY <1>3 DEF Succeed, Leave
  <2>2. pc' \in Passes \cup {"print"} /\ sh' \in 0 .. LastSection /\ Position'
    BY <1>2, <2>1, Advancing
  <2>3. /\ h \in Header(sh) /\ WellFormed(sh, h)
        /\ Held(shdr[sh]) \subseteq Held(h)
        /\ new \in SUBSET (Held(h) \cup {<<sh, "file">>})
        /\ Held(h) \subseteq Held(shdr[sh]) \cup new
    BY <1>2
  <2> HIDE DEF h, new
  <2> QED
    BY <1>1, <2>1, <2>2, <2>3, Booleans, RelaLoaded
<1>4. ASSUME NEW n \in Sizes,
             Succeed(WithRecords([shdr[sh] EXCEPT !.size = n], n),
                     live \cup {<<sh, "file">>, <<sh, "records">>})
      PROVE  IInv'
  <2> DEFINE h == WithRecords([shdr[sh] EXCEPT !.size = n], n)
             new == {<<sh, "file">>, <<sh, "records">>}
  <2>1. /\ shdr' = [shdr EXCEPT ![sh] = h] /\ live' = live \cup new
        /\ Advance /\ UNCHANGED <<obj, names>>
        /\ fault' = fault /\ outOfMemory' = outOfMemory
    BY <1>4 DEF Succeed, Leave
  <2>2. pc' \in Passes \cup {"print"} /\ sh' \in 0 .. LastSection /\ Position'
    BY <1>2, <2>1, Advancing
  <2>3. n \in Nat
    BY Numbers
  <2>4. /\ h \in Header(sh) /\ WellFormed(sh, h) /\ Held(h) = {<<sh, "records">>}
        /\ Held(shdr[sh]) \subseteq Held(h)
    BY <1>1, <2>3, RelaRecords
  <2>5. /\ new \in SUBSET (Held(h) \cup {<<sh, "file">>})
        /\ Held(h) \subseteq Held(shdr[sh]) \cup new
    BY <2>4
  <2> HIDE DEF h, new
  <2> QED
    BY <1>1, <2>1, <2>2, <2>4, <2>5, Booleans, RelaLoaded
<1>5. ASSUME Fail(shdr[sh], live \cup {<<sh, "file">>}) PROVE IInv'
  <2> DEFINE h == shdr[sh]
             new == {<<sh, "file">>}
  <2>1. /\ shdr' = [shdr EXCEPT ![sh] = h] /\ live' = live \cup new
        /\ pc' = "destruct" /\ UNCHANGED <<obj, names>>
        /\ sh' = sh /\ fault' = fault /\ outOfMemory' = outOfMemory
    BY <1>5 DEF Fail, Leave
  <2>2. sh' \in 0 .. LastSection /\ Position'
    BY <1>2, <2>1 DEF Position, Passes
  <2>3. /\ h \in Header(sh) /\ WellFormed(sh, h)
        /\ Held(shdr[sh]) \subseteq Held(h)
        /\ new \in SUBSET (Held(h) \cup {<<sh, "file">>})
        /\ Held(h) \subseteq Held(shdr[sh]) \cup new
    BY <1>2
  <2> HIDE DEF h, new
  <2> QED
    BY <1>1, <2>1, <2>2, <2>3, Booleans, RelaLoaded
<1>6. ASSUME FailWithoutMemory(shdr[sh], live, FALSE) PROVE IInv'
  <2> DEFINE h == shdr[sh]
             new == {}
  <2>1. /\ shdr' = [shdr EXCEPT ![sh] = h] /\ live' = live \cup new
        /\ pc' = "destruct" /\ UNCHANGED <<obj, names>>
        /\ sh' = sh /\ fault' \in BOOLEAN /\ outOfMemory' = TRUE
    BY <1>6, Booleans DEF FailWithoutMemory, Leave
  <2>2. sh' \in 0 .. LastSection /\ Position'
    BY <1>2, <2>1 DEF Position, Passes
  <2>3. /\ h \in Header(sh) /\ WellFormed(sh, h)
        /\ Held(shdr[sh]) \subseteq Held(h)
        /\ new \in SUBSET (Held(h) \cup {<<sh, "file">>})
    BY <1>2
  <2> HIDE DEF h, new
  <2> QED
    BY <1>1, <2>1, <2>2, <2>3, RelaLoaded
<1> QED
  BY <1>3, <1>4, <1>5, <1>6, CrashStep DEF LoadRela32

-----------------------------------------------------------------------------
(* Before and after the passes.                                            *)
LEMMA InitIInv == Init => IInv
<1> SUFFICES ASSUME Init PROVE IInv
  OBVIOUS
<1>1. /\ DOMAIN shdr = Sections /\ live = {} /\ pc = "start"
      /\ \A s \in Sections : shdr[s] = Unloaded
  BY DEF Init
<1>2. TypeOK
  <2>1. \A s \in Sections : shdr[s] \in Header(s)
    BY <1>1, UnloadedHeader
  <2>2. /\ obj.offsetsize \in {32, 64} /\ obj.type \in [Sections -> Types]
        /\ obj.compressed \subseteq Sections
    BY DEF Init
  <2>3. /\ sh = 1 /\ names = 0 /\ fault = FALSE /\ outOfMemory = FALSE
    BY DEF Init
  <2>4. sh \in 0 .. LastSection /\ names \in 0 .. LastSection
    BY <2>3, Numbers
  <2> QED
    BY <1>1, <2>1, <2>2, <2>3, <2>4 DEF TypeOK
<1>3. Position /\ Beginning /\ Destructed
  BY <1>1 DEF Init, Position, Beginning, Destructed, Passes
<1>4. NothingLost
  BY <1>1 DEF NothingLost
<1>5. NothingDangles /\ \A s \in Sections : WellFormed(s, shdr[s])
  BY <1>1, UnloadedHeader DEF Init, NothingDangles
<1> QED
  BY <1>2, <1>3, <1>4, <1>5 DEF IInv

(* Opening: the run is over, or a descriptor and the object are live.      *)
LEMMA OpenStep == IInv /\ (Open \/ Construct) => IInv'
<1> SUFFICES ASSUME IInv, Open \/ Construct PROVE IInv'
  OBVIOUS
<1>1. UNCHANGED <<obj, sh, shdr, names, fault, outOfMemory>>
  BY DEF Open, Construct, Unmoved
<1>2. \A s \in Sections : shdr[s] = Unloaded
  BY DEF IInv, Beginning, Open, Construct
<1>3. /\ pc' \in {"closed", "construct", "header"}
      /\ pc' = "closed" => live' \subseteq {<<0, "path">>}
      /\ pc' = "construct" => live' = {<<0, "fd">>}
      /\ live' \subseteq {<<0, "fd">>, <<0, "path">>, <<0, "ep">>, <<0, "paths">>}
  BY DEF IInv, Beginning, Open, Construct
<1>4. TypeOK'
  <2>1. live' \subseteq Blocks
    BY <1>3 DEF Blocks
  <2>2. pc' \in Passes \cup Ends \cup {"start", "construct", "header",
            "sectheaders", "progheaders", "names", "print", "destruct"}
    BY <1>3 DEF Ends
  <2> QED
    BY <1>1, <2>1, <2>2 DEF IInv, TypeOK
<1>5. Position'
  BY <1>1, <1>3 DEF IInv, Position, Open, Construct, Passes
<1>6. Beginning' /\ Destructed'
  BY <1>1, <1>2, <1>3 DEF Beginning, Destructed
<1>7. NothingLost'
  BY <1>3 DEF NothingLost
<1>8. NothingDangles' /\ \A s \in Sections : WellFormed(s, shdr[s])'
  <2>1. \A s \in Sections : Held(shdr[s]) = {}
    BY <1>2, UnloadedHeader
  <2>2. NothingDangles'
    BY <1>1, <2>1 DEF IInv, NothingDangles
  <2> QED
    BY <1>1, <2>2, SameObject DEF IInv, WellFormed
<1> QED
  BY <1>4, <1>5, <1>6, <1>7, <1>8 DEF IInv

(* The headers of the object, and what is between the passes.              *)
LEMMA HeadersStep ==
    IInv /\ (LoadHeader \/ NoSectHeaders \/ NoSectStrings \/ LoadProgHeaders
             \/ NameSections \/ PrintObject) => IInv'
<1> SUFFICES ASSUME IInv,
                    LoadHeader \/ NoSectHeaders \/ NoSectStrings
                    \/ LoadProgHeaders \/ NameSections \/ PrintObject
             PROVE  IInv'
  OBVIOUS
<1> USE DEF LoadHeader, NoSectHeaders, NoSectStrings, LoadProgHeaders,
            NameSections, PrintObject, Unmoved
<1>1. UNCHANGED <<obj, sh, shdr, names, fault, outOfMemory>>
  OBVIOUS
<1>2. \E new \in SUBSET {<<0, "ehdr">>, <<0, "shdr">>, <<0, "phdr">>} :
          live' = live \cup new
  <2> DEFINE none == {}
             ehdr == {<<0, "ehdr">>}
             section == {<<0, "shdr">>}
             phdr == {<<0, "phdr">>}
  <2>1. \/ live' = live \cup none \/ live' = live \cup ehdr
        \/ live' = live \cup section \/ live' = live \cup phdr
    OBVIOUS
  <2> QED
    BY <2>1
<1>3. /\ live' \subseteq Blocks /\ live \subseteq live'
      /\ \A b \in live' : b \in live \/ b[1] = 0
  BY <1>2 DEF IInv, TypeOK, Blocks
<1>4. pc' \in {"sectheaders", "progheaders", "names", "strtabs", "crashed",
               "destruct"}
  OBVIOUS
<1>5. Position'
  <2>1. pc # "print" => sh = 1
    BY DEF IInv, Position
  <2>2. pc = "print" => pc' = "destruct"
    OBVIOUS
  <2> QED
    BY <1>1, <1>4, <2>1, <2>2, Numbers DEF Position, Passes, LastOf
<1>6. Beginning'
  <2>1. pc' = "sectheaders" => \A s \in Sections : shdr[s] = Unloaded
    BY DEF IInv, Beginning
  <2> QED
    BY <1>1, <1>4, <2>1 DEF Beginning
<1>7. sh' \in 0 .. LastSection
  BY <1>1 DEF IInv, TypeOK
<1> QED
  BY <1>1, <1>3, <1>4, <1>5, <1>6, <1>7, Elsewhere DEF Passes

(* The section of the names is loaded before any pass.                     *)
LEMMA SectStringsStep ==
    ASSUME IInv, NEW s \in Sections, LoadSectStrings(s)
    PROVE  IInv'
<1>1. /\ pc = "sectheaders" /\ sh = 1 /\ shdr[s] = Unloaded
      /\ UNCHANGED <<obj, sh, fault, outOfMemory>>
      /\ live \subseteq Blocks /\ names \in 0 .. LastSection
  BY DEF LoadSectStrings, IInv, Position, Beginning, TypeOK
<1>2. \A b \in live : b[1] = s => Lost(b)
  BY <1>1, UnloadedHeader, Numbers DEF IInv, NothingLost
<1>3. PICK h \in Header(s) :
          /\ WellFormed(s, h)
          /\ shdr' = [shdr EXCEPT ![s] = h]
          /\ live' = live \cup {<<0, "shdr">>} \cup Held(h)
          /\ pc' \in {"progheaders", "destruct"} /\ names' \in 0 .. LastSection
  <2>1. CASE \E h \in Ready(s) :
                /\ pc' = "progheaders" /\ names' = s
                /\ shdr' = [shdr EXCEPT ![s] = h]
                /\ live' = live \cup {<<0, "shdr">>} \cup h.content
    <3>1. PICK h \in Ready(s) :
                /\ pc' = "progheaders" /\ names' = s
                /\ shdr' = [shdr EXCEPT ![s] = h]
                /\ live' = live \cup {<<0, "shdr">>} \cup h.content
      BY <2>1
    <3>2. h \in Header(s) /\ WellFormed(s, h) /\ Held(h) = h.content
      BY ReadyHeader
    <3>3. names' \in 0 .. LastSection
      BY <3>1, Numbers
    <3> QED
      BY <3>1, <3>2, <3>3
  <2>2. CASE \E n \in Sizes :
                /\ pc' = "destruct" /\ UNCHANGED names
                /\ shdr' = [shdr EXCEPT ![s] = Raw(s, n)]
                /\ live' = live \cup {<<0, "shdr">>, <<s, "file">>}
    <3>1. PICK n \in Sizes :
                /\ pc' = "destruct" /\ UNCHANGED names
                /\ shdr' = [shdr EXCEPT ![s] = Raw(s, n)]
                /\ live' = live \cup {<<0, "shdr">>, <<s, "file">>}
      BY <2>2
    <3>2. n \in Nat
      BY Numbers
    <3>3. /\ Raw(s, n) \in Header(s) /\ WellFormed(s, Raw(s, n))
          /\ Held(Raw(s, n)) = {<<s, "file">>}
      BY <3>2, RawHeader
    <3>4. live' = live \cup {<<0, "shdr">>} \cup Held(Raw(s, n))
      BY <3>1, <3>3
    <3> QED
      BY <1>1, <3>1, <3>3, <3>4
  <2> QED
    BY <2>1, <2>2 DEF LoadSectStrings
<1>4. \A b \in Held(h) : b \in Blocks /\ b[1] = s
  BY HeldIsOwn
<1>5. <<0, "shdr">> \in Blocks /\ <<0, "shdr">>[1] = 0 /\ s # 0
  BY Numbers DEF Blocks
<1>6. /\ live' \subseteq Blocks
      /\ \A b \in live : b[1] # s => b \in live'
      /\ \A b \in live' : b[1] # s => b \in live \/ b[1] = 0
      /\ \A b \in live' : b[1] = s => b \in Held(h) \/ Lost(b)
      /\ Held(h) \subseteq live'
  BY <1>1, <1>2, <1>3, <1>4, <1>5
<1>7. sh' \in 0 .. LastSection /\ Position'
  BY <1>1, <1>3, Numbers DEF Position, Passes
<1>8. /\ outOfMemory' \in BOOLEAN /\ fault' \in BOOLEAN
      /\ outOfMemory' = outOfMemory /\ fault' = fault
  BY <1>1, Booleans
<1> QED
  BY <1>1, <1>3, <1>6, <1>7, <1>8, Replaced

(* A section of another pass, or loaded already.                           *)
LEMMA SkipStep == IInv /\ Skip => IInv'
<1> SUFFICES ASSUME IInv, Skip PROVE IInv'
  OBVIOUS
<1>1. /\ pc \in Passes /\ Advance
      /\ UNCHANGED <<obj, shdr, names, live, fault, outOfMemory>>
  BY DEF Skip
<1>2. sh \in 0 .. LastOf(pc)
  BY <1>1 DEF IInv, Position
<1>3. pc' \in Passes \cup {"print"} /\ sh' \in 0 .. LastSection /\ Position'
  BY <1>1, <1>2, Advancing
<1>4. live' \subseteq Blocks /\ live \subseteq live'
      /\ \A b \in live' : b \in live \/ b[1] = 0
  BY <1>1 DEF IInv, TypeOK
<1>5. Beginning'
  BY <1>3 DEF Beginning, Passes
<1> QED
  BY <1>1, <1>3, <1>4, <1>5, Elsewhere

(* The destructor frees what the headers hold, which is live unless memory *)
(* ran out, and the blocks of the object.                                  *)
LEMMA DestructStep == IInv /\ Destruct => IInv'
<1> SUFFICES ASSUME IInv, Destruct PROVE IInv'
  OBVIOUS
<1> DEFINE held == UNION {Pointers(s) : s \in Sections}
<1>1. /\ pc' = "done" /\ live' = live \ (held \cup ObjectBlocks)
      /\ fault' = (fault \/ ~ (held \subseteq live))
      /\ UNCHANGED <<obj, sh, names, outOfMemory>>
      /\ shdr' = [s \in Sections |-> [shdr[s] EXCEPT !.content = {}, !.records = {},
                                                     !.group = {}]]
  BY DEF Destruct
<1>2. \A s \in Sections : Pointers(s) = Held(shdr[s])
  BY DEF Pointers, Held
<1>3. ASSUME NEW s \in Sections
      PROVE  /\ shdr'[s] \in Header(s)
             /\ shdr'[s].content = {} /\ shdr'[s].records = {}
             /\ shdr'[s].group = {}
  <2>1. shdr[s] \in Header(s)
    BY DEF IInv, TypeOK
  <2>2. shdr'[s] = [shdr[s] EXCEPT !.content = {}, !.records = {}, !.group = {}]
    BY <1>1
  <2> QED
    BY <2>1, <2>2 DEF Header
<1>4. \A s \in Sections : Held(shdr'[s]) = {} /\ WellFormed(s, shdr'[s])
  BY <1>3 DEF Held, WellFormed
<1>5. \A b \in live' : b[1] # 0 /\ Lost(b)
  <2> SUFFICES ASSUME NEW b \in live' PROVE b[1] # 0 /\ Lost(b)
    OBVIOUS
  <2>1. b \in live /\ b \notin held /\ b[1] # 0
    BY <1>1 DEF ObjectBlocks
  <2>2. b[1] \in Sections
    BY <2>1 DEF IInv, TypeOK, Blocks
  <2> QED
    BY <1>2, <2>1, <2>2 DEF IInv, NothingLost
<1>6. outOfMemory = FALSE => held \subseteq live
  BY <1>2 DEF IInv, NothingDangles
<1>7. fault' \in BOOLEAN /\ (outOfMemory = FALSE => fault' = FALSE)
  <2>1. outOfMemory = FALSE => fault = FALSE
    BY DEF IInv, NothingDangles
  <2> HIDE DEF held
  <2> QED
    BY <1>1, <1>6, <2>1, Booleans
<1>8. TypeOK'
  <2>1. DOMAIN shdr' = Sections /\ live' \subseteq Blocks
    BY <1>1 DEF IInv, TypeOK
  <2> QED
    BY <1>1, <1>3, <1>7, <2>1 DEF IInv, TypeOK, Ends
<1>9. NothingLost'
  BY <1>1, <1>5, SameObject DEF NothingLost, Lost
<1>10. NothingDangles'
  BY <1>1, <1>4, <1>7 DEF NothingDangles
<1>11. \A s \in Sections : WellFormed(s, shdr[s])'
  BY <1>1, <1>4, SameObject DEF WellFormed
<1>12. Position' /\ Beginning' /\ Destructed'
  BY <1>1, <1>4, <1>5 DEF Position, Beginning, Destructed, Passes
<1> QED
  BY <1>8, <1>9, <1>10, <1>11, <1>12 DEF IInv

(* The invariant is kept by every step.                                    *)
LEMMA NextIInv == IInv /\ [Next]_vars => IInv'
<1> SUFFICES ASSUME IInv, [Next]_vars PROVE IInv'
  OBVIOUS
<1>1. ASSUME NEW s \in Sections, LoadSectStrings(s) PROVE IInv'
  BY <1>1, SectStringsStep
<1>2. ASSUME UNCHANGED vars PROVE IInv'
  <2>1. UNCHANGED <<obj, pc, sh, shdr, names, live, fault, outOfMemory>>
    BY <1>2 DEF vars
  <2>2. TypeOK' /\ Position' /\ Beginning' /\ Destructed' /\ NothingDangles'
    BY <2>1 DEF IInv, TypeOK, Position, Beginning, Destructed, NothingDangles
  <2>3. NothingLost' /\ \A s \in Sections : WellFormed(s, shdr[s])'
    BY <2>1, SameObject DEF IInv, NothingLost, Lost, WellFormed
  <2> QED
    BY <2>2, <2>3 DEF IInv
<1> QED
  BY <1>1, <1>2, OpenStep, HeadersStep, SkipStep, LoadFailsStep,
     DecompressFailsStep, LoadSymstrStep, LoadGroupStep, LoadSymbolsStep,
     LoadDynamicStep, LoadRelocationsStep, LoadRela32Step, DestructStep
  DEF Next

(* The inductive invariant holds throughout.                               *)
THEOREM Invariant == Spec => []IInv
BY InitIInv, NextIInv, PTL DEF Spec

(* Every variable keeps its type: a header points to blocks of its own     *)
(* section only, at most one of each use.                                  *)
THEOREM TypeCorrect == Spec => []TypeOK
<1>1. IInv => TypeOK
  BY DEF IInv
<1> QED
  BY <1>1, Invariant, PTL

(* Whatever fails, in whatever order the sections come, the destructor     *)
(* leaves nothing allocated but the bytes of 32-bit RELA sections, and a   *)
(* run that ends earlier nothing but the copy of the path.                 *)
THEOREM FreesAllButRela32 == Spec => []DestructFreesAllButRela32
<1>1. IInv => DestructFreesAllButRela32
  <2> SUFFICES ASSUME IInv PROVE DestructFreesAllButRela32
    OBVIOUS
  <2>1. ASSUME pc = "done", NEW b \in live
        PROVE  b[1] # 0 /\ Rela32(b[1]) /\ b[2] = "file"
    <3>1. b[1] # 0 /\ b[1] \in Sections /\ Held(shdr[b[1]]) = {}
      BY <2>1 DEF IInv, TypeOK, Destructed, Blocks
    <3> QED
      BY <2>1, <3>1 DEF IInv, NothingLost, Lost
  <2>2. pc = "closed" => live \subseteq {<<0, "path">>}
    BY DEF IInv, Beginning
  <2> QED
    BY <2>1, <2>2 DEF DestructFreesAllButRela32
<1> QED
  BY <1>1, Invariant, PTL

(* A block is freed twice only after an allocation failed.                 *)
THEOREM FreesOnce == Spec => []OnlyOutOfMemoryFreesTwice
<1>1. IInv => OnlyOutOfMemoryFreesTwice
  <2> SUFFICES ASSUME IInv, fault PROVE outOfMemory
    BY DEF OnlyOutOfMemoryFreesTwice
  <2>1. outOfMemory # FALSE
    BY DEF IInv, NothingDangles
  <2> QED
    BY <2>1, Booleans
<1> QED
  BY <1>1, Invariant, PTL

(* The bytes the header of a section promises are allocated.               *)
THEOREM ContentIsThere == Spec => []SizeIsReadable
<1>1. IInv => SizeIsReadable
  <2> SUFFICES ASSUME IInv, ~ outOfMemory,
                      NEW s \in Sections, shdr[s].content # {}
               PROVE  shdr[s].content \subseteq live /\ shdr[s].size <= shdr[s].room
    BY DEF SizeIsReadable
  <2>1. outOfMemory = FALSE
    BY Booleans
  <2>2. shdr[s].content \subseteq live
    BY <2>1 DEF IInv, NothingDangles, Held
  <2> QED
    BY <2>2 DEF IInv, WellFormed
<1> QED
  BY <1>1, Invariant, PTL

(* The records of a section are those of its content, but for the symbols  *)
(* of compressed sections of 32-bit objects.                               *)
THEOREM RecordsAreOfTheContent == Spec => []RecordsMatchContent
<1>1. IInv => RecordsMatchContent
  BY DEF IInv, WellFormed, RecordsMatchContent
<1> QED
  BY <1>1, Invariant, PTL

-----------------------------------------------------------------------------
(* What has been loaded when the object is printed: the sections of the    *)
(* passes that are over, and those a pass has gone past.                   *)
LoadedBy(pass, s) ==
    /\ pass # "groups" /\ Type(s) \in TypesOf(pass) /\ ~ Rela32(s)

After == [strtabs |-> {"groups", "symtabs", "relocs", "print"},
          groups |-> {"symtabs", "relocs", "print"},
          symtabs |-> {"relocs", "print"}, relocs |-> {"print"}]

Behind(pass, s) == pc \in After[pass] \/ (pc = pass /\ s < sh)

Progress ==
    outOfMemory = FALSE =>
        \A pass \in Passes, s \in Sections :
            LoadedBy(pass, s) /\ Behind(pass, s) => shdr[s].content # {}

(* Outside the passes nothing is behind the program.                       *)
LEMMA ProgressOver ==
    ASSUME pc' \notin Passes \cup {"print"}
    PROVE  Progress'
BY DEF Progress, Behind, After, Passes

(* Going on, a pass leaves behind what it had left and its section.        *)
LEMMA GoneBy ==
    ASSUME pc \in Passes, sh \in 0 .. LastOf(pc), Advance,
           NEW pass \in Passes, pass # "groups", NEW s \in Sections,
           Behind(pass, s)'
    PROVE  Behind(pass, s) \/ (pass = pc /\ s = sh)
<1>1. s \in 1 .. LastSection /\ sh \in Nat /\ LastSection \in Nat
  BY Numbers
<1>2. CASE sh = LastOf(pc)
  <2>1. pc' = NextPass[pc] /\ (pc' = "groups" => sh' = 0)
        /\ (pc' # "groups" => sh' = 1)
    BY <1>2 DEF Advance, NextPhase, NextPass, Passes
  <2>2. pc' \in After[pass]
    BY <1>1, <2>1 DEF Behind, Passes, NextPass
  <2>3. pc \in After[pass] \/ pass = pc
    BY <2>1, <2>2 DEF After, NextPass, Passes
  <2>4. pass = pc => s < sh \/ s = sh
    BY <1>1, <1>2 DEF LastOf
  <2> QED
    BY <2>3, <2>4 DEF Behind
<1>3. CASE sh # LastOf(pc)
  <2>1. pc' = pc /\ sh' = sh + 1
    BY <1>3 DEF Advance
  <2> QED
    BY <1>1, <2>1 DEF Behind
<1> QED
  BY <1>2, <1>3

(* A pass may go on when its section has got the content it awaits.        *)
LEMMA ProgressGoesOn ==
    ASSUME IInv, Progress, pc \in Passes, Advance, obj' = obj,
           \A s \in Sections : shdr[s].content # {} => shdr'[s].content # {},
           outOfMemory' = FALSE => outOfMemory = FALSE,
           sh \in Sections /\ LoadedBy(pc, sh) => shdr'[sh].content # {}
    PROVE  Progress'
<1> SUFFICES ASSUME outOfMemory' = FALSE, NEW pass \in Passes, NEW s \in Sections,
                    LoadedBy(pass, s), Behind(pass, s)'
             PROVE  shdr'[s].content # {}
  BY SameObject DEF Progress, LoadedBy
<1>1. sh \in 0 .. LastOf(pc) /\ pass # "groups"
  BY DEF IInv, Position, LoadedBy
<1>2. Behind(pass, s) \/ (pass = pc /\ s = sh)
  BY <1>1, GoneBy
<1>3. CASE Behind(pass, s)
  BY <1>3 DEF Progress
<1>4. CASE pass = pc /\ s = sh
  BY <1>4
<1> QED
  BY <1>2, <1>3, <1>4

(* A loader that succeeds leaves its section content.                      *)
LEMMA ProgressSucceed ==
    ASSUME IInv, Progress, Loading, NEW h, NEW lv, Succeed(h, lv),
           h.content # {} \/ Rela32(sh)
    PROVE  Progress'
<1>1. sh \in Sections /\ pc \in Passes /\ shdr[sh].content = {}
  BY Fresh
<1>2. /\ shdr' = [shdr EXCEPT ![sh] = h] /\ Advance
      /\ obj' = obj /\ outOfMemory' = outOfMemory
  BY DEF Succeed, Leave
<1>3. /\ shdr'[sh] = h
      /\ \A s \in Sections : s # sh => shdr'[s] = shdr[s]
  BY <1>1, <1>2 DEF IInv, TypeOK
<1>4. \A s \in Sections : shdr[s].content # {} => shdr'[s].content # {}
  BY <1>1, <1>3
<1>5. LoadedBy(pc, sh) => shdr'[sh].content # {}
  BY <1>3 DEF LoadedBy
<1> QED
  BY <1>1, <1>2, <1>4, <1>5, ProgressGoesOn

(* A loader that does not succeed stops the passes, or memory ran out.     *)
LEMMA ProgressFail ==
    ASSUME NEW h, NEW lv, NEW again,
           \/ Fail(h, lv) \/ FailWithoutMemory(h, lv, again) \/ Crash
           \/ RelWithoutMemory
    PROVE  Progress'
<1>1. pc' \in {"destruct", "crashed"} \/ outOfMemory' = TRUE
  BY DEF Fail, FailWithoutMemory, Crash, RelWithoutMemory
<1>2. CASE pc' \in {"destruct", "crashed"}
  BY <1>2, ProgressOver DEF Passes
<1>3. CASE outOfMemory' = TRUE
  BY <1>3 DEF Progress
<1> QED
  BY <1>1, <1>2, <1>3

(* A loader of sections other than 32-bit RELA leaves them some content.   *)
LEMMA SucceedWithContent ==
    ASSUME IInv, Loading, NEW h \in Ready(sh), NEW n
    PROVE  h.content # {} /\ WithRecords(h, n).content # {}
<1>1. h \in Header(sh) /\ h.content # {}
  BY Fresh, ReadyHeader
<1>2. WithRecords(h, n).content = h.content
  BY <1>1 DEF WithRecords, Header
<1> QED
  BY <1>1, <1>2

(* No loader lets a pass go on without content.                            *)
LEMMA LoadersProgress ==
    ASSUME IInv, Progress,
           \/ LoadFails \/ DecompressFails \/ LoadSymstr
           \/ LoadSymbols32 \/ LoadSymbols64 \/ LoadDynamic32 \/ LoadDynamic64
           \/ LoadRel32 \/ LoadRel64 \/ LoadRela64 \/ LoadRela32
    PROVE  Progress'
<1>1. Loading
  BY DEF LoadFails, DecompressFails, LoadSymstr, LoadSymbols32, LoadSymbols64,
     LoadDynamic32, LoadDynamic64, LoadRel32, LoadRel64, LoadRela64, LoadRela32,
     WantedSymbols, Loading, Passes
<1>2. ASSUME LoadFails \/ DecompressFails PROVE Progress'
  <2>1. \E h, lv : Fail(h, lv)
    BY <1>2 DEF LoadFails, DecompressFails
  <2> QED
    BY <2>1, ProgressFail
<1>3. ASSUME LoadSymstr PROVE Progress'
  <2>1. PICK h \in Ready(sh) : Succeed(h, live \cup h.content)
    BY <1>3 DEF LoadSymstr
  <2> QED
    BY <1>1, <2>1, SucceedWithContent, ProgressSucceed
<1>4. ASSUME NEW h \in Ready(sh), NEW size, Symbols(h, size) PROVE Progress'
  <2>1. h.content # {} /\ WithRecords(h, size).content # {}
    BY <1>1, SucceedWithContent
  <2>2. CASE Succeed(h, live \cup h.content)
    BY <1>1, <2>1, <2>2, ProgressSucceed
  <2>3. CASE Succeed(WithRecords(h, size),
                     live \cup h.content \cup {<<sh, "records">>})
    BY <1>1, <2>1, <2>3, ProgressSucceed
  <2>4. CASE FailWithoutMemory(h, (live \cup h.content) \ {<<sh, "file">>},
                               Compressed(sh))
    BY <2>4, ProgressFail
  <2> QED
    BY <1>4, <2>2, <2>3, <2>4 DEF Symbols
<1>5. ASSUME LoadSymbols32 \/ LoadSymbols64 PROVE Progress'
  BY <1>4, <1>5 DEF LoadSymbols32, LoadSymbols64
<1>6. ASSUME NEW h \in Ready(sh),
             Succeed(WithRecords(h, h.size),
                     live \cup h.content \cup {<<sh, "records">>})
      PROVE  Progress'
  BY <1>1, <1>6, SucceedWithContent, ProgressSucceed
<1>7. ASSUME LoadDynamic32 \/ LoadDynamic64 PROVE Progress'
  <2>1. PICK h \in Ready(sh) :
            \/ Dynamic(h) \/ FailWithoutMemory(h, live, FALSE) \/ Crash
    BY <1>7 DEF LoadDynamic32, LoadDynamic64
  <2> QED
    BY <1>6, <2>1, ProgressFail DEF Dynamic
<1>8. ASSUME LoadRel32 \/ LoadRel64 \/ LoadRela64 PROVE Progress'
  <2>1. CASE RelWithoutMemory
    BY <2>1, ProgressFail
  <2>2. CASE Relocations
    <3>1. PICK h \in Ready(sh) :
              \/ Succeed(WithRecords(h, h.size),
                         live \cup h.content \cup {<<sh, "records">>})
              \/ Fail(h, live \cup h.content)
              \/ FailWithoutMemory(h, live, FALSE)
      BY <2>2 DEF Relocations
    <3> QED
      BY <1>6, <3>1, ProgressFail
  <2> QED
    BY <1>8, <2>1, <2>2 DEF LoadRel32, LoadRel64, LoadRela64
<1>9. ASSUME LoadRela32 PROVE Progress'
  <2>1. Rela32(sh)
    BY <1>9 DEF LoadRela32
  <2>2. \/ \E h, lv : Succeed(h, lv) \/ Fail(h, lv) \/ FailWithoutMemory(h, lv, FALSE)
        \/ Crash
    BY <1>9 DEF LoadRela32
  <2>3. ASSUME NEW h, NEW lv,
               Succeed(h, lv) \/ Fail(h, lv) \/ FailWithoutMemory(h, lv, FALSE)
        PROVE  Progress'
    BY <1>1, <2>1, <2>3, ProgressSucceed, ProgressFail
  <2> QED
    BY <2>2, <2>3, ProgressFail
<1> QED
  BY <1>2, <1>3, <1>5, <1>7, <1>8, <1>9

(* A section is skipped when it has content or is of another pass.         *)
LEMMA SkipProgress ==
    ASSUME IInv, Progress, Skip
    PROVE  Progress'
<1>1. /\ pc \in Passes /\ ~ Wanted(pc) /\ Advance /\ obj' = obj
      /\ shdr' = shdr /\ outOfMemory' = outOfMemory
  BY DEF Skip
<1>2. sh \in Sections /\ LoadedBy(pc, sh) => shdr[sh].content # {}
  BY <1>1 DEF Wanted, LoadedBy
<1> QED
  BY <1>1, <1>2, ProgressGoesOn

(* The pass over the groups loads no content.                              *)
LEMMA GroupProgress ==
    ASSUME IInv, Progress, LoadGroup
    PROVE  Progress'
<1>1. /\ pc = "groups" /\ pc \in Passes /\ sh \in Sections
      /\ shdr[sh] \in Header(sh) /\ obj' = obj /\ outOfMemory' = outOfMemory
  BY DEF LoadGroup, Wanted, Passes, IInv, TypeOK, Succeed
<1>2. CASE Succeed([shdr[sh] EXCEPT !.group = {<<sh, "group">>}],
                   live \cup {<<sh, "group">>})
  <2>1. /\ shdr' = [shdr EXCEPT ![sh] = [shdr[sh] EXCEPT !.group = {<<sh, "group">>}]]
        /\ Advance
    BY <1>2 DEF Succeed, Leave
  <2>2. shdr'[sh].content = shdr[sh].content
        /\ \A s \in Sections : s # sh => shdr'[s] = shdr[s]
    BY <1>1, <2>1 DEF IInv, TypeOK, Header
  <2>3. \A s \in Sections : shdr[s].content # {} => shdr'[s].content # {}
    BY <2>2
  <2>4. ~ LoadedBy(pc, sh)
    BY <1>1 DEF LoadedBy
  <2> QED
    BY <1>1, <2>1, <2>3, <2>4, ProgressGoesOn
<1>3. CASE NextPhase /\ UNCHANGED <<obj, shdr, names, live, fault, outOfMemory>>
  <2>1. pc' = "symtabs" /\ sh' = 1
    BY <1>1, <1>3 DEF NextPhase, NextPass
  <2>2. \A pass \in Passes, s \in Sections : Behind(pass, s)' =>
            pass = "groups" \/ Behind(pass, s)
    BY <1>1, <2>1, Numbers DEF Behind, After, Passes
  <2> QED
    BY <1>3, <2>2, SameObject DEF Progress, LoadedBy
<1> QED
  BY <1>2, <1>3 DEF LoadGroup

(* Nothing is behind before the passes, and nothing matters after them.    *)
LEMMA OutsideProgress ==
    ASSUME IInv, Progress,
           \/ Open \/ Construct \/ LoadHeader \/ NoSectHeaders \/ NoSectStrings
           \/ (\E s \in Sections : LoadSectStrings(s))
           \/ LoadProgHeaders \/ NameSections \/ PrintObject \/ Destruct
    PROVE  Progress'
<1>1. CASE NameSections
  <2>1. (pc' = "strtabs" \/ pc' = "crashed") /\ sh' = 1
    BY <1>1 DEF NameSections, Unmoved, IInv, Position
  <2>2. \A pass \in Passes, s \in Sections : ~ Behind(pass, s)'
    BY <2>1, Numbers DEF Behind, After, Passes
  <2> QED
    BY <2>2 DEF Progress
<1>2. CASE ~ NameSections
  <2>1. pc' \in {"closed", "construct", "header", "sectheaders", "destruct",
                 "progheaders", "names", "done"}
    BY <1>2 DEF Open, Construct, LoadHeader, NoSectHeaders, NoSectStrings,
       LoadSectStrings, LoadProgHeaders, PrintObject, Destruct
  <2> QED
    BY <2>1, ProgressOver DEF Passes
<1> QED
  BY <1>1, <1>2

(* Whatever order the sections come in and whichever holds the names, what *)
(* is printed has been loaded.                                             *)
THEOREM PrintsWhatIsLoaded == Spec => []PrintedIsLoaded
<1>1. Init => Progress
  BY DEF Init, Progress, Behind, After, Passes
<1>2. IInv /\ Progress /\ [Next]_vars => Progress'
  <2> SUFFICES ASSUME IInv, Progress, [Next]_vars PROVE Progress'
    OBVIOUS
  <2>1. CASE UNCHANGED vars
    <3>1. UNCHANGED <<obj, pc, sh, shdr, outOfMemory>>
      BY <2>1 DEF vars
    <3> QED
      BY <3>1, SameObject DEF Progress, Behind, LoadedBy
  <2>2. CASE Next
    BY <2>2, LoadersProgress, SkipProgress, GroupProgress, OutsideProgress DEF Next
  <2> QED
    BY <2>1, <2>2
<1>3. Progress => PrintedIsLoaded
  <2> SUFFICES ASSUME Progress, pc = "print", ~ outOfMemory, NEW s \in Sections
               PROVE  /\ Type(s) \in {"STRTAB", "SYMTAB", "DYNAMIC", "REL"} =>
                            shdr[s].content # {}
                      /\ Type(s) = "RELA" /\ Is64 => shdr[s].content # {}
    BY DEF PrintedIsLoaded
  <2> QED
    BY DEF Progress, LoadedBy, Behind, After, Passes, TypesOf, Rela32
<1> QED
  BY <1>1, <1>2, <1>3, Invariant, PTL DEF Spec
=============================================================================
