-------------------------- MODULE DebugLinkProofs --------------------------
(***************************************************************************)
(* What DebugLink says of the list of paths, of the block answered and of  *)
(* the places in the sections holds for objects with any sections, paths   *)
(* and prefixes.                                                           *)
(***************************************************************************)
EXTENDS DebugLink, FiniteSetTheorems, SequenceTheorems, TLAPS

Element == Name \cup {Slash, DotDebug, IdDir, IdFile}

-----------------------------------------------------------------------------
(* A set of naturals has a least element: 1 .. n is a smallest of the sets *)
(* 1 .. n when n is the least.  With it what a recursive function gives is *)
(* shown by the first place where it would be wrong.                       *)
LEMMA Smallest ==
    ASSUME NEW T \in SUBSET Nat, T # {}
    PROVE  \E x \in T : \A y \in T : x <= y
<1> DEFINE U == {1 .. n : n \in T}
<1>1. IsWellFoundedOn(StrictSubsetOrdering(Nat), FiniteSubsetsOf(Nat))
  BY FS_StrictSubsetOrderingWellFounded
<1>2. U \subseteq FiniteSubsetsOf(Nat) /\ U # {}
  <2>1. \A n \in T : IsFiniteSet(1 .. n) /\ 1 .. n \subseteq Nat
    BY FS_Interval
  <2> QED
    BY <2>1 DEF FiniteSubsetsOf
<1>3. PICK u \in U : \A v \in U : ~ (<<v, u>> \in StrictSubsetOrdering(Nat))
  <2> HIDE DEF U
  <2> QED
    BY <1>1, <1>2, WFMin
<1>4. PICK x \in T : u = 1 .. x
  BY <1>3
<1>5. ASSUME NEW y \in T, y < x
      PROVE  FALSE
  <2>1. 1 .. y \subseteq 1 .. x /\ x \in 1 .. x /\ x \notin 1 .. y
    BY <1>5
  <2>2. 1 .. y \in U /\ 1 .. y \in SUBSET Nat /\ u \in SUBSET Nat
    BY <1>4
  <2>3. <<1 .. y, u>> \in StrictSubsetOrdering(Nat)
    BY <1>4, <2>1, <2>2 DEF StrictSubsetOrdering
  <2> QED
    BY <1>3, <2>2, <2>3
<1> QED
  BY <1>5

-----------------------------------------------------------------------------
(* Paths.                                                                  *)

(* mydirlen is where the last slash is: of finitely many slashes there is  *)
(* one.                                                                    *)
LEMMA DirLenInPath ==
    ASSUME NEW p \in Path
    PROVE  /\ DirLen(p) \in 0 .. Len(p)
           /\ DirLen(p) # 0 => p[DirLen(p)] = Slash
           /\ \A k \in DirLen(p) + 1 .. Len(p) : p[k] # Slash
<1> DEFINE slashes == {k \in DOMAIN p : p[k] = Slash}
           bounds == {n \in Nat : \A k \in slashes : k <= n}
<1>1. Len(p) \in Nat /\ DOMAIN p = 1 .. Len(p)
  BY DEF Path
<1>2. CASE slashes = {}
  BY <1>1, <1>2 DEF DirLen
<1>3. CASE slashes # {}
  <2>1. PICK n \in bounds : \A m \in bounds : n <= m
    <3>1. bounds \in SUBSET Nat /\ Len(p) \in bounds
      BY <1>1
    <3> QED
      BY <3>1, Smallest
  <2>2. PICK k \in slashes : k > n - 1
    <3>1. PICK j \in slashes : j \in 1 .. Len(p)
      BY <1>1, <1>3
    <3>2. n \in Nat /\ j <= n
      BY <2>1, <3>1
    <3>3. n - 1 \in Nat /\ n - 1 \notin bounds
      BY <2>1, <3>1, <3>2
    <3> QED
      BY <1>1, <3>3
  <2>3. \A j \in slashes : j <= k
    BY <1>1, <2>1, <2>2
  <2>4. DirLen(p) \in slashes /\ \A j \in slashes : j <= DirLen(p)
    BY <1>3, <2>2, <2>3 DEF DirLen
  <2>5. DirLen(p) \in 1 .. Len(p) /\ p[DirLen(p)] = Slash
    BY <1>1, <2>4
  <2>6. ASSUME NEW m \in DirLen(p) + 1 .. Len(p), p[m] = Slash
        PROVE  FALSE
    <3>1. m \in 1 .. Len(p) /\ m > DirLen(p)
      BY <1>1, <2>5
    <3>2. m \in slashes
      BY <1>1, <2>6, <3>1
    <3> QED
      BY <1>1, <2>4, <2>5, <3>1, <3>2
  <2> QED
    BY <1>1, <2>5, <2>6
<1> QED
  BY <1>2, <1>3

(* The directory and the last part of a path are paths.                    *)
LEMMA PartsArePaths ==
    ASSUME NEW p \in Path
    PROVE  DirName(p) \in Path /\ BasePath(p) \in Path
<1>1. Len(p) \in Nat /\ \A k \in 1 .. Len(p) : p[k] \in Element
  BY DEF Path, Element
<1>2. DirLen(p) \in 0 .. Len(p)
  BY DirLenInPath
<1>3. SubSeq(p, 1, DirLen(p)) \in Seq(Element)
  BY <1>1, <1>2, SubSeqProperties
<1>4. SubSeq(p, DirLen(p) + 1, Len(p)) \in Seq(Element)
  <2>1. DirLen(p) + 1 \in Int /\ Len(p) \in Int
    BY <1>1, <1>2
  <2>2. \A k \in DirLen(p) + 1 .. Len(p) : p[k] \in Element
    BY <1>1, <1>2
  <2> QED
    BY <2>1, <2>2, SubSeqProperties
<1> QED
  BY <1>3, <1>4 DEF DirName, BasePath, Path, Element

(* _dwarf_pathjoinl makes a path of two.                                   *)
LEMMA JoinIsPath ==
    ASSUME NEW target \in Path, NEW input \in Path
    PROVE  Join(target, input) \in Path
<1>1. target \in Seq(Element) /\ input \in Seq(Element)
  BY DEF Path, Element
<1>2. <<Slash>> \in Seq(Element) /\ <<Slash>> \o input \in Seq(Element)
  BY <1>1 DEF Element
<1>3. Starts(input) => Tail(input) \in Seq(Element)
  BY <1>1 DEF Starts
<1>4. \A s \in Seq(Element) : target \o s \in Seq(Element)
  BY <1>1, ConcatProperties
<1>5. Join(target, input) \in Seq(Element)
  BY <1>1, <1>2, <1>3, <1>4 DEF Join
<1> QED
  BY <1>5 DEF Path, Element

(* So does build_buildid_filename of the length of a build-id.             *)
LEMMA BuildidIsPath ==
    ASSUME NEW n \in Nat
    PROVE  BuildidFilename(n) \in Path
<1>1. \A a \in Element : <<a>> \in Seq(Element)
  OBVIOUS
<1>2. \A a, b, c \in Element : <<a, b, c>> \in Seq(Element)
  OBVIOUS
<1>3. BuildidFilename(n) \in Seq(Element)
  BY <1>1, <1>2 DEF BuildidFilename, Element
<1> QED
  BY <1>3 DEF Path, Element

-----------------------------------------------------------------------------
(* The block answered.                                                     *)
Sums(f, texts, n) ==
    f = [k \in 0 .. n |-> IF k = 0 THEN 0 ELSE f[k - 1] + Len(texts[k]) + 1]

(* Sums exist for every list: one that did not would have a first prefix   *)
(* without them, and the sums of the prefix before it can be continued.    *)
LEMMA SumsExist ==
    ASSUME NEW texts \in Seq(Path)
    PROVE  \E f : Sums(f, texts, Len(texts))
<1> DEFINE Bad == {n \in 0 .. Len(texts) : ~ \E f : Sums(f, texts, n)}
<1>0. Len(texts) \in Nat
  BY DEF Path
<1>1. SUFFICES ASSUME Bad # {} PROVE FALSE
  BY <1>0
<1>2. PICK n \in Bad : \A m \in Bad : n <= m
  <2>1. Bad \in SUBSET Nat
    BY <1>0
  <2> HIDE DEF Bad
  <2> QED
    BY <1>1, <2>1, Smallest
<1>3. CASE n = 0
  <2>1. Sums([k \in 0 .. 0 |-> 0], texts, 0)
    BY DEF Sums
  <2> QED
    BY <1>2, <1>3, <2>1
<1>4. CASE n # 0
  <2>1. n - 1 \in 0 .. Len(texts) /\ n - 1 \notin Bad
    BY <1>0, <1>2, <1>4
  <2>2. PICK g : Sums(g, texts, n - 1)
    BY <2>1
  <2> DEFINE f == [k \in 0 .. n |-> IF k = n THEN g[n - 1] + Len(texts[n]) + 1
                                              ELSE g[k]]
  <2>3. \A k \in 0 .. n :
            f[k] = IF k = 0 THEN 0 ELSE f[k - 1] + Len(texts[k]) + 1
    <3>1. n \in Nat \ {0}
      BY <1>2, <1>4
    <3> QED
      BY <2>2, <3>1 DEF Sums
  <2>4. Sums(f, texts, n)
    BY <2>3 DEF Sums
  <2> QED
    BY <1>2, <2>4
<1> QED
  BY <1>3, <1>4

(* The recursive definition gives them.                                    *)
LEMMA LengthsAreSums ==
    ASSUME NEW texts \in Seq(Path)
    PROVE  Sums(Lengths(texts), texts, Len(texts))
BY SumsExist DEF Sums, Lengths


(* No sum is negative: the first such would follow one that is not.        *)
LEMMA LengthsAreNaturals ==
    ASSUME NEW texts \in Seq(Path)
    PROVE  \A k \in 0 .. Len(texts) : Lengths(texts)[k] \in Nat
<1> DEFINE f == Lengths(texts)
           Bad == {k \in 0 .. Len(texts) : f[k] \notin Nat}
<1>0. Len(texts) \in Nat /\ \A k \in 1 .. Len(texts) : Len(texts[k]) \in Nat
  BY DEF Path
<1>1. SUFFICES ASSUME Bad # {} PROVE FALSE
  OBVIOUS
<1>2. PICK n \in Bad : \A m \in Bad : n <= m
  <2>1. Bad \in SUBSET Nat
    BY <1>0
  <2> HIDE DEF Bad
  <2> QED
    BY <1>1, <2>1, Smallest
<1>3. \A k \in 0 .. Len(texts) :
          f[k] = IF k = 0 THEN 0 ELSE f[k - 1] + Len(texts[k]) + 1
  <2>1. Sums(f, texts, Len(texts))
    BY LengthsAreSums
  <2> HIDE DEF f
  <2> QED
    BY <2>1 DEF Sums
<1> HIDE DEF f
<1>4. n \in 0 .. Len(texts) /\ f[n] \notin Nat
  BY <1>2
<1>5. CASE n = 0
  BY <1>3, <1>4, <1>5
<1>6. CASE n # 0
  <2>1. n - 1 \in 0 .. Len(texts) /\ n \in 1 .. Len(texts)
    BY <1>0, <1>4, <1>6
  <2>2. f[n - 1] \in Nat
    BY <1>0, <1>2, <2>1
  <2> QED
    BY <1>0, <1>3, <1>4, <2>1, <2>2
<1> QED
  BY <1>5, <1>6

(* The strings of a block follow the pointers and one another.             *)
LEMMA AreaIsPacked ==
    ASSUME NEW texts \in Seq(Path), texts # << >>,
           NEW at, NEW size,
           size = PointerArraySize(texts) + Lengths(texts)[Len(texts)] + 8,
           at = [k \in DOMAIN texts |->
                    PointerArraySize(texts) + Lengths(texts)[k - 1]]
    PROVE  /\ size \in Nat
           /\ at[1] >= PtrSize * (Len(texts) + 1)
           /\ \A k \in 1 .. Len(texts) - 1 : at[k] + Len(texts[k]) + 1 <= at[k + 1]
           /\ at[Len(texts)] + Len(texts[Len(texts)]) + 1 <= size
<1> DEFINE f == Lengths(texts)
           start == PointerArraySize(texts)
           n == Len(texts)
<1>1. n \in Nat \ {0} /\ DOMAIN texts = 1 .. n
      /\ \A k \in 1 .. n : Len(texts[k]) \in Nat
  BY DEF Path
<1>2. start \in Nat /\ start = PtrSize * (n + 1)
  BY <1>1, SizesAssumption, SMT DEF PointerArraySize
<1>3. \A k \in 0 .. n : f[k] \in Nat
  BY LengthsAreNaturals
<1>4. /\ f[0] = 0
      /\ \A k \in 1 .. n : f[k] = f[k - 1] + Len(texts[k]) + 1
  <2>1. Sums(f, texts, n)
    BY LengthsAreSums
  <2> HIDE DEF f
  <2> QED
    BY <1>1, <2>1 DEF Sums
<1>5. size = start + f[n] + 8 /\ \A k \in 1 .. n : at[k] = start + f[k - 1]
  BY <1>1
<1> DEFINE len == [k \in 1 .. n |-> Len(texts[k])]
<1>6. \A k \in 1 .. n : len[k] = Len(texts[k]) /\ len[k] \in Nat
  BY <1>1
<1>7. \A k \in 1 .. n : f[k] = f[k - 1] + len[k] + 1
  BY <1>4, <1>6
<1> HIDE DEF f, start, n, len
<1>8. /\ at[1] = start
      /\ \A k \in 1 .. n : at[k] + len[k] + 1 = start + f[k]
      /\ \A k \in 1 .. n - 1 : at[k + 1] = start + f[k]
  <2>0. n \in Nat \ {0} /\ start \in Nat /\ f[0] = 0
        /\ \A k \in 1 .. n : at[k] = start + f[k - 1]
    BY <1>1, <1>2, <1>4, <1>5
  <2>1. at[1] = start
    <3>1. 1 \in 1 .. n /\ 1 - 1 = 0
      BY <2>0
    <3>2. at[1] = start + f[1 - 1]
      BY <2>0, <3>1, Zenon
    <3>3. at[1] = start + 0
      BY <2>0, <3>1, <3>2, Zenon
    <3> QED
      BY <2>0, <3>3
  <2>2. ASSUME NEW k \in 1 .. n
        PROVE  at[k] + len[k] + 1 = start + f[k]
    <3>1. k - 1 \in 0 .. n /\ k \in 0 .. n
      BY <2>0
    <3>2. f[k - 1] \in Nat /\ f[k] \in Nat /\ len[k] \in Nat
      BY <1>3, <1>6, <3>1
    <3>3. at[k] = start + f[k - 1] /\ f[k] = f[k - 1] + len[k] + 1
      BY <1>7, <2>0
    <3> QED
      BY <2>0, <3>2, <3>3
  <2>3. ASSUME NEW k \in 1 .. n - 1
        PROVE  at[k + 1] = start + f[k]
    <3>1. k + 1 \in 1 .. n /\ (k + 1) - 1 = k
      BY <2>0
    <3> QED
      BY <2>0, <3>1
  <2> QED
    BY <2>0, <2>1, <2>2, <2>3
<1>9. size \in Nat /\ start + f[n] <= size
  <2>1. f[n] \in Nat
    BY <1>1, <1>3
  <2> QED
    BY <1>2, <1>5, <2>1
<1>10. \A k \in 0 .. n : start + f[k] \in Nat
  BY <1>2, <1>3
<1>11. \A k \in 1 .. n - 1 : at[k] + Len(texts[k]) + 1 <= at[k + 1]
  <2> SUFFICES ASSUME NEW k \in 1 .. n - 1
               PROVE  at[k] + Len(texts[k]) + 1 <= at[k + 1]
    OBVIOUS
  <2>1. k \in 0 .. n /\ k \in 1 .. n
    BY <1>1
  <2>2. at[k] + Len(texts[k]) + 1 = start + f[k] /\ at[k + 1] = start + f[k]
    BY <1>6, <1>8, <2>1
  <2>3. start + f[k] \in Nat
    BY <1>10, <2>1
  <2> QED
    BY <2>2, <2>3
<1>12. \A k \in 1 .. n : k = n => at[k] + Len(texts[k]) + 1 <= size
  <2> SUFFICES ASSUME NEW k \in 1 .. n, k = n
               PROVE  at[k] + Len(texts[k]) + 1 <= size
    OBVIOUS
  <2>1. start + f[k] <= size
    BY <1>9, Zenon
  <2>2. at[k] + Len(texts[k]) + 1 = start + f[k]
    BY <1>6, <1>8
  <2>3. start + f[k] \in Nat
    BY <1>10
  <2>4. at[k] \in Nat /\ Len(texts[k]) \in Nat
    <3>1. k - 1 \in 0 .. n
      BY <1>1
    <3>2. f[k - 1] \in Nat
      BY <1>3, <3>1
    <3> QED
      BY <1>1, <1>2, <1>5, <3>2
  <2> QED
    BY <1>9, <2>1, <2>2, <2>3, <2>4
<1>13. at[1] >= start
  BY <1>2, <1>8
<1>14. at[1] >= PtrSize * (n + 1)
  BY <1>2, <1>13, Zenon
<1>15. at[n] + Len(texts[n]) + 1 <= size
  <2>1. n \in 1 .. n
    BY <1>1
  <2> QED
    BY <1>12, <2>1, Zenon
<1> QED
  BY <1>9, <1>11, <1>14, <1>15, Zenon DEF n

-----------------------------------------------------------------------------
(* The invariant.                                                          *)
BeforePaths == {"find", "link", "id", "paths"}
Tried == {"ids", "same", "debug", "global"}

Types ==
    /\ sections \in Seq(Section) /\ path \in Path \cup {NoPath}
    /\ prefixes \in Seq(Path)
    /\ pc \in BeforePaths \cup Tried
              \cup {"area", "print", "done", "failed", "noentry"}
    /\ i \in 1 .. Len(sections) + 1
    /\ linkshdr \in 0 .. i - 1 /\ idshdr \in 0 .. i - 1
    /\ name \in Path \cup {NoName}
    /\ crc \in Nat /\ owner \in Nat /\ id \in Nat /\ idlen \in Nat
    /\ js_cwd \in Path /\ original \in Path
    /\ prefix \in 1 .. Len(prefixes) + 1

(* Whatever a candidate is made of is there.                               *)
Ready ==
    /\ pc \in BeforePaths => prefix = 1
    /\ pc \in {"ids", "global"} => prefix <= Len(prefixes)
    /\ pc \in {"same", "debug", "global"} => name # NoName

(* The list has a first entry that is not on the heap, and is empty before *)
(* the first path and after the last one was copied or given up.           *)
List ==
    /\ chain \in Seq(Path) /\ Len(chain) >= 1
    /\ nodes = Len(chain) - 1
    /\ last = 0 => Len(chain) = 1
    /\ last \in {0, Len(chain)}
    /\ pc \notin Tried \cup {"area"} => chain = EmptyList

(* The block is there between its making and its printing.                 *)
Area ==
    /\ pc # "print" => area = NoArea
    /\ area # NoArea =>
           /\ area.text \in Seq(Path) /\ area.text # << >>
           /\ area.size = PointerArraySize(area.text)
                          + Lengths(area.text)[Len(area.text)] + 8
           /\ area.at = [k \in DOMAIN area.text |->
                            PointerArraySize(area.text) + Lengths(area.text)[k - 1]]

(* Nothing is answered before the search has ended, and then only of the   *)
(* sections it has found.                                                  *)
Answers ==
    /\ pc = "find" => name = NoName /\ id = 0
    /\ AnswersAreInTheirSections

IInv == Types /\ Ready /\ List /\ Area /\ Answers

(* The invariant holds before the search.                                  *)
LEMMA InitIInv == Init => IInv
<1> SUFFICES ASSUME Init PROVE IInv
  OBVIOUS
<1>1. /\ sections \in Seq(Section) /\ path \in Path \cup {NoPath}
      /\ prefixes \in Seq(Path)
  BY TablesAssumption, PathsAssumption DEF Init
<1>2. << >> \in Path /\ EmptyList \in Seq(Path) /\ Len(EmptyList) = 1
  BY DEF Path, EmptyList
<1>3. Types
  BY <1>1, <1>2 DEF Init, Types, BeforePaths
<1>4. Ready /\ List /\ Area /\ Answers
  BY <1>2 DEF Init, Ready, List, Area, Answers, AnswersAreInTheirSections,
     BeforePaths, Tried
<1> QED
  BY <1>3, <1>4 DEF IInv

(* The path tried next is a path.                                          *)
LEMMA CandidateIsPath ==
    ASSUME Types, Ready, Trying
    PROVE  Candidate \in Path
<1>1. js_cwd \in Path /\ idlen \in Nat /\ <<DotDebug>> \in Path
  BY DEF Types, Path
<1>2. pc \in {"ids", "global"} => prefixes[prefix] \in Path
  BY DEF Types, Ready
<1>3. pc \in {"same", "debug", "global"} => name \in Path
  BY DEF Types, Ready
<1>4. CASE pc = "ids"
  BY <1>1, <1>2, <1>4, JoinIsPath, BuildidIsPath DEF Candidate
<1>5. CASE pc = "same"
  BY <1>1, <1>3, <1>5, JoinIsPath DEF Candidate
<1>6. CASE pc = "debug"
  BY <1>1, <1>3, <1>6, JoinIsPath DEF Candidate
<1>7. CASE pc = "global"
  BY <1>1, <1>2, <1>3, <1>7, JoinIsPath DEF Candidate
<1> QED
  BY <1>4, <1>5, <1>6, <1>7 DEF Trying

(* The place of the crc when the tests are passed.                         *)
LEMMA CrcIsLast ==
    ASSUME NEW s \in Section, LinkIsGood(s)
    PROVE  /\ CrcAt(s) \in Nat /\ CrcAt(s) % 4 = 0 /\ CrcAt(s) + 4 = s.size
           /\ CrcAt(s) \in s.nul + 1 .. s.nul + 4
<1>1. s.nul \in Nat /\ s.size \in Nat
  BY DEF Section
<1> QED
  BY <1>1, SMT DEF LinkIsGood, CrcAt

(* And those of the owner and the build-id.                                *)
LEMMA IdIsInSection ==
    ASSUME NEW s \in Section, IdIsGood(s)
    PROVE  /\ s.namesize - 1 \in Nat /\ BuildidSize + s.namesize \in Nat
           /\ s.descrsize \in Nat
           /\ BuildidSize + s.namesize + s.descrsize <= s.size
BY SizesAssumption DEF IdIsGood, OwnerIsGood, Section


(* The next path to try, or the end of them, is one that can be built.     *)
LEMMA AdvanceIsReady ==
    ASSUME Types, Ready, Trying, Advance, UNCHANGED <<given, answers>>
    PROVE  /\ Ready' /\ pc' \in Tried \cup {"area"}
           /\ prefix' \in 1 .. Len(prefixes) + 1
           /\ js_cwd' = js_cwd /\ original' = original
<1>1. Len(prefixes) \in Nat /\ (prefixes # << >> => Len(prefixes) >= 1)
  BY DEF Types
<1>2. prefix' \in 1 .. Len(prefixes) + 1
      /\ (pc' \in {"ids", "global"} => prefix' <= Len(prefixes))
  <2>1. CASE MorePrefixes
    BY <1>1, <2>1 DEF Types, Advance, MorePrefixes
  <2>2. CASE ~ MorePrefixes
    BY <1>1, <2>2 DEF Types, Ready, Trying, Advance, MorePrefixes, AfterIds
  <2> QED
    BY <2>1, <2>2
<1>3. pc' \in Tried \cup {"area"}
  BY DEF Trying, Advance, AfterIds, Tried
<1>4. pc' \in {"same", "debug", "global"} => name' # NoName
  BY DEF Trying, Ready, Advance, AfterIds, MorePrefixes, answers
<1>5. prefixes' = prefixes
  BY DEF given
<1> QED
  BY <1>2, <1>3, <1>4, <1>5 DEF Ready, BeforePaths, Tried, Advance

(* Every step keeps the invariant.                                         *)
LEMMA NextIInv == IInv /\ [Next]_vars => IInv'
<1> SUFFICES ASSUME IInv, [Next]_vars PROVE IInv'
  OBVIOUS
<1> USE DEF given, found, answers, dirs, list
<1>0. Types /\ Ready /\ List /\ Area /\ Answers
  BY DEF IInv
<1>1. CASE LookAtSection
  <2>1. i' = i + 1 /\ i \in 1 .. Len(sections) /\ Len(sections) \in Nat
    BY <1>0, <1>1 DEF LookAtSection, Searching, Types
  <2>2. linkshdr' \in 0 .. i' - 1 /\ idshdr' \in 0 .. i' - 1
    BY <1>0, <1>1, <2>1 DEF LookAtSection, Types
  <2>3. Types'
    BY <1>0, <1>1, <2>1, <2>2 DEF LookAtSection, Types
  <2>4. Ready' /\ List' /\ Area' /\ Answers'
    BY <1>0, <1>1 DEF LookAtSection, Ready, List, Area, Answers,
       AnswersAreInTheirSections
  <2> QED
    BY <2>3, <2>4 DEF IInv
<1>2. CASE NamesInvalid \/ SearchEnds \/ NoLink \/ NoBuildid
  <2>1. /\ pc \in BeforePaths
        /\ pc' \in (BeforePaths \cup {"noentry"}) \ {"find"}
        /\ UNCHANGED <<given, found, answers, dirs, list, area>>
    BY <1>2 DEF NamesInvalid, SearchEnds, NoLink, NoBuildid, BeforePaths
  <2>2. Types'
    BY <1>0, <2>1 DEF Types, BeforePaths
  <2>3. Ready' /\ List' /\ Area' /\ Answers'
    BY <1>0, <2>1 DEF Ready, List, Area, Answers, AnswersAreInTheirSections,
       BeforePaths, Tried
  <2> QED
    BY <2>2, <2>3 DEF IInv
<1>3. CASE ExtractDebuglinkFails \/ ExtractBuildidFails \/ GetcwdFails
  <2>1. /\ pc \in BeforePaths /\ pc' = "failed"
        /\ UNCHANGED <<given, found, answers, dirs, list, area>>
    BY <1>3 DEF ExtractDebuglinkFails, ExtractBuildidFails, GetcwdFails, BeforePaths
  <2>2. Types'
    BY <1>0, <2>1 DEF Types, BeforePaths
  <2>3. Ready' /\ List' /\ Area' /\ Answers'
    BY <1>0, <2>1 DEF Ready, List, Area, Answers, AnswersAreInTheirSections,
       BeforePaths, Tried
  <2> QED
    BY <2>2, <2>3 DEF IInv
<1>4. CASE ExtractDebuglink
  <2>1. sections[linkshdr] \in Section /\ LinkIsGood(sections[linkshdr])
    BY <1>0, <1>4 DEF ExtractDebuglink, Types
  <2>2. /\ crc' \in Nat /\ crc' % 4 = 0 /\ crc' + 4 = sections[linkshdr].size
        /\ crc' \in sections[linkshdr].nul + 1 .. sections[linkshdr].nul + 4
    BY <1>4, <2>1, CrcIsLast DEF ExtractDebuglink
  <2>3. name' \in Path
    BY <1>4, <2>1 DEF ExtractDebuglink, Section
  <2>4. Types'
    BY <1>0, <1>4, <2>2, <2>3 DEF ExtractDebuglink, Types, BeforePaths
  <2>5. Answers'
    BY <1>0, <1>4, <2>2 DEF ExtractDebuglink, Answers, AnswersAreInTheirSections
  <2>6. Ready' /\ List' /\ Area'
    BY <1>0, <1>4 DEF ExtractDebuglink, Ready, List, Area, BeforePaths, Tried
  <2> QED
    BY <2>4, <2>5, <2>6 DEF IInv
<1>5. CASE ExtractBuildid
  <2>1. sections[idshdr] \in Section /\ IdIsGood(sections[idshdr])
    BY <1>0, <1>5 DEF ExtractBuildid, Types
  <2>2. /\ owner' \in Nat /\ id' \in Nat /\ idlen' \in Nat
        /\ BuildidSize + owner' + 1 = id'
        /\ id' + idlen' <= sections[idshdr].size
    <3>1. BuildidSize \in Nat /\ sections[idshdr].namesize \in Nat
      BY <2>1, SizesAssumption DEF Section
    <3> QED
      BY <1>5, <2>1, <3>1, IdIsInSection DEF ExtractBuildid
  <2>3. Types'
    BY <1>0, <1>5, <2>2 DEF ExtractBuildid, Types, BeforePaths
  <2>4. Answers'
    BY <1>0, <1>5, <2>2 DEF ExtractBuildid, Answers, AnswersAreInTheirSections
  <2>5. Ready' /\ List' /\ Area'
    BY <1>0, <1>5 DEF ExtractBuildid, Ready, List, Area, BeforePaths, Tried
  <2> QED
    BY <2>3, <2>4, <2>5 DEF IInv
<1>6. CASE NoPathname
  <2>1. Types'
    BY <1>0, <1>6 DEF NoPathname, Types
  <2>2. Ready' /\ List' /\ Area' /\ Answers'
    BY <1>0, <1>6 DEF NoPathname, Ready, List, Area, Answers,
       AnswersAreInTheirSections, BeforePaths, Tried
  <2> QED
    BY <2>1, <2>2 DEF IInv
<1>7. CASE ConstructPaths
  <2>1. path \in Path /\ << >> \in Path /\ Cwd \in Path
    BY <1>0, <1>7, PathsAssumption DEF ConstructPaths, Types, Path
  <2>2. js_cwd' \in Path /\ original' \in Path
    BY <1>7, <2>1, PartsArePaths, JoinIsPath DEF ConstructPaths
  <2>3. pc' \in {"ids", "same", "area"}
        /\ (pc' = "ids" => Len(prefixes) >= 1)
        /\ (pc' = "same" => name # NoName)
    BY <1>0, <1>7 DEF ConstructPaths, AfterIds, Types
  <2>4. Types'
    BY <1>0, <1>7, <2>2, <2>3 DEF ConstructPaths, Types, Tried
  <2>5. Ready'
    BY <1>0, <1>7, <2>3 DEF ConstructPaths, Ready, BeforePaths
  <2>6. List' /\ Area' /\ Answers'
    BY <1>0, <1>7, <2>3 DEF ConstructPaths, List, Area, Answers,
       AnswersAreInTheirSections, Tried
  <2> QED
    BY <2>4, <2>5, <2>6 DEF IInv
<1>8. CASE SkipOriginal
  <2>1. /\ Ready' /\ pc' \in Tried \cup {"area"}
        /\ prefix' \in 1 .. Len(prefixes) + 1
        /\ js_cwd' = js_cwd /\ original' = original
    BY <1>0, <1>8, AdvanceIsReady DEF SkipOriginal
  <2>2. Types'
    BY <1>0, <1>8, <2>1 DEF SkipOriginal, Types
  <2>3. List' /\ Area' /\ Answers'
    BY <1>0, <1>8, <2>1 DEF SkipOriginal, List, Area, Answers,
       AnswersAreInTheirSections, Trying, Tried
  <2> QED
    BY <2>1, <2>2, <2>3 DEF IInv
<1>9. CASE AddPath
  <2>1. /\ Ready' /\ pc' \in Tried \cup {"area"}
        /\ prefix' \in 1 .. Len(prefixes) + 1
        /\ js_cwd' = js_cwd /\ original' = original
    BY <1>0, <1>9, AdvanceIsReady DEF AddPath
  <2>2. Candidate \in Path
    BY <1>0, <1>9, CandidateIsPath DEF AddPath
  <2>3. /\ chain' \in Seq(Path) /\ Len(chain') >= 1
        /\ nodes' = Len(chain') - 1 /\ last' = Len(chain')
    <3>1. CASE last = 0
      <4>1. chain[1] \o Candidate \in Path
        BY <1>0, <2>2, ConcatProperties DEF List, Path
      <4> QED
        BY <1>0, <1>9, <3>1, <4>1 DEF AddPath, List
    <3>2. CASE last # 0
      <4>1. Append(chain, Candidate) \in Seq(Path)
            /\ Len(Append(chain, Candidate)) = Len(chain) + 1
        BY <1>0, <2>2, AppendProperties DEF List
      <4>2. Len(chain) \in Nat
        BY <1>0 DEF List
      <4> QED
        BY <1>0, <1>9, <3>2, <4>1, <4>2 DEF AddPath, List
    <3> QED
      BY <3>1, <3>2
  <2>4. Types'
    BY <1>0, <1>9, <2>1 DEF AddPath, Types
  <2>5. List'
    BY <2>1, <2>3 DEF List
  <2>6. Area' /\ Answers'
    BY <1>0, <1>9, <2>1 DEF AddPath, Area, Answers,
       AnswersAreInTheirSections, Trying, Tried
  <2> QED
    BY <2>1, <2>4, <2>5, <2>6 DEF IInv
<1>10. EmptyList \in Seq(Path) /\ Len(EmptyList) = 1
  BY DEF EmptyList, Path
<1>15. nodes - (Len(chain) - 1) = 0
  <2>1. Len(chain) \in Nat /\ nodes = Len(chain) - 1
    BY <1>0 DEF List
  <2> QED
    BY <2>1
<1>11. CASE AddPathFails \/ MakeAreaFails
  <2>1. /\ pc \in Tried \cup {"area"} /\ pc' = "failed" /\ DestroyList
        /\ UNCHANGED <<given, found, answers, dirs, area>>
    BY <1>11 DEF AddPathFails, MakeAreaFails, Trying, Tried
  <2>2. Types'
    BY <1>0, <2>1 DEF Types
  <2>3. List'
    <3>1. chain' = EmptyList /\ last' = 0 /\ nodes' = 0
      BY <1>15, <2>1 DEF DestroyList
    <3> QED
      BY <1>10, <3>1 DEF List
  <2>4. Ready' /\ Area' /\ Answers'
    BY <1>0, <2>1 DEF Ready, Area, Answers, AnswersAreInTheirSections,
       BeforePaths, Tried
  <2> QED
    BY <2>2, <2>3, <2>4 DEF IInv
<1>12. CASE MakeArea
  <2>1. Types'
    BY <1>0, <1>12 DEF MakeArea, Types
  <2>2. List'
    <3>1. chain' = EmptyList /\ last' = 0 /\ nodes' = 0
      BY <1>12, <1>15 DEF MakeArea, DestroyList
    <3> QED
      BY <1>10, <3>1 DEF List
  <2>3. Area'
    <3>1. chain \in Seq(Path) /\ chain # << >>
      BY <1>0 DEF List
    <3> QED
      BY <1>12, <3>1 DEF MakeArea, Area
  <2>4. Ready' /\ Answers'
    BY <1>0, <1>12 DEF MakeArea, Ready, Answers, AnswersAreInTheirSections,
       BeforePaths
  <2> QED
    BY <2>1, <2>2, <2>3, <2>4 DEF IInv
<1>13. CASE PrintPaths
  <2>1. Types'
    BY <1>0, <1>13 DEF PrintPaths, Types
  <2>2. Ready' /\ List' /\ Area' /\ Answers'
    BY <1>0, <1>13 DEF PrintPaths, Ready, List, Area, Answers,
       AnswersAreInTheirSections, BeforePaths, Tried
  <2> QED
    BY <2>1, <2>2 DEF IInv
<1>14. CASE UNCHANGED vars
  BY <1>0, <1>14 DEF vars, IInv, Types, Ready, List, Area, Answers,
     AnswersAreInTheirSections
<1> QED
  BY <1>1, <1>2, <1>3, <1>4, <1>5, <1>6, <1>7, <1>8, <1>9, <1>11, <1>12, <1>13,
     <1>14 DEF Next

(* So the invariant holds in every reachable state.                        *)
LEMMA Invariant == Spec => []IInv
BY InitIInv, NextIInv, PTL DEF Spec


-----------------------------------------------------------------------------
(* Every variable keeps its type: each path built is a path, whatever the  *)
(* object, its link and the prefixes are.                                  *)
THEOREM TypeCorrect == Spec => []TypeOK
<1>1. IInv => TypeOK
  <2> SUFFICES ASSUME IInv PROVE TypeOK
    OBVIOUS
  <2>1. area.size \in Nat /\ area.text \in Seq(Path)
    <3>1. CASE area = NoArea
      BY <3>1 DEF NoArea
    <3>2. CASE area # NoArea
      BY <3>2, AreaIsPacked DEF IInv, Area
    <3> QED
      BY <3>1, <3>2
  <2>2. nodes \in Nat /\ chain \in Seq(Path) /\ last \in {0, Len(chain)}
    BY DEF IInv, List
  <2> QED
    BY <2>1, <2>2 DEF IInv, Types, TypeOK, BeforePaths, Tried
<1> QED
  BY <1>1, Invariant, PTL

(* The nodes of the list on the heap are those of the list, and none of    *)
(* them, and no block, is left when a run is over, however it ended.       *)
THEOREM OwnershipCorrect == Spec => []OwnsItsMemory
<1>1. IInv => OwnsItsMemory
  BY DEF IInv, List, Area, OwnsItsMemory, EmptyList, Tried
<1> QED
  BY <1>1, Invariant, PTL

(* The crc, the owner and the build-id answered lie in their sections,     *)
(* whatever the heads of the sections say.                                 *)
THEOREM AnswersCorrect == Spec => []AnswersAreInTheirSections
<1>1. IInv => AnswersAreInTheirSections
  BY DEF IInv, Answers
<1> QED
  BY <1>1, Invariant, PTL

(* Pointers and strings of any number of paths of any length do not        *)
(* overlap and end in the block.                                           *)
THEOREM AreaCorrect == Spec => []AreaHoldsThePaths
<1>1. IInv => AreaHoldsThePaths
  BY AreaIsPacked DEF IInv, Area, AreaHoldsThePaths
<1> QED
  BY <1>1, Invariant, PTL
-----------------------------------------------------------------------------
(* What is left of a sequence without one of its values.                   *)
Lefts(f, s, e, n) ==
    f = [k \in 0 .. n |->
            IF k = 0 THEN << >>
            ELSE IF s[k] = e THEN f[k - 1] ELSE Append(f[k - 1], s[k])]

(* As for the sums: a first prefix without it would follow one with it.    *)
LEMMA LeftsExist ==
    ASSUME NEW s, Len(s) \in Nat, NEW e
    PROVE  \E f : Lefts(f, s, e, Len(s))
<1> DEFINE Bad == {n \in 0 .. Len(s) : ~ \E f : Lefts(f, s, e, n)}
<1>1. SUFFICES ASSUME Bad # {} PROVE FALSE
  OBVIOUS
<1>2. PICK n \in Bad : \A m \in Bad : n <= m
  <2>1. Bad \in SUBSET Nat
    OBVIOUS
  <2> HIDE DEF Bad
  <2> QED
    BY <1>1, <2>1, Smallest
<1>3. CASE n = 0
  <2>1. Lefts([k \in 0 .. 0 |-> << >>], s, e, 0)
    BY DEF Lefts
  <2> QED
    BY <1>2, <1>3, <2>1
<1>4. CASE n # 0
  <2>1. n - 1 \in 0 .. Len(s) /\ n - 1 \notin Bad
    BY <1>2, <1>4
  <2>2. PICK g : Lefts(g, s, e, n - 1)
    BY <2>1
  <2> DEFINE f == [k \in 0 .. n |->
                      IF k # n THEN g[k]
                      ELSE IF s[n] = e THEN g[n - 1] ELSE Append(g[n - 1], s[n])]
  <2>3. \A k \in 0 .. n :
            f[k] = IF k = 0 THEN << >>
                   ELSE IF s[k] = e THEN f[k - 1] ELSE Append(f[k - 1], s[k])
    <3>1. n \in Nat \ {0}
      BY <1>2, <1>4
    <3>2. \A k \in 0 .. n - 1 :
              g[k] = IF k = 0 THEN << >>
                     ELSE IF s[k] = e THEN g[k - 1] ELSE Append(g[k - 1], s[k])
      BY <2>2 DEF Lefts
    <3>3. f[n] = IF s[n] = e THEN f[n - 1] ELSE Append(f[n - 1], s[n])
      BY <3>1
    <3>4. ASSUME NEW k \in 0 .. n - 1
          PROVE  f[k] = IF k = 0 THEN << >>
                        ELSE IF s[k] = e THEN f[k - 1] ELSE Append(f[k - 1], s[k])
      <4>1. f[k] = g[k] /\ (k # 0 => f[k - 1] = g[k - 1])
        BY <3>1
      <4> HIDE DEF f
      <4> QED
        BY <3>2, <4>1
    <3> HIDE DEF f
    <3> QED
      BY <3>1, <3>3, <3>4
  <2>4. Lefts(f, s, e, n)
    BY <2>3 DEF Lefts
  <2> QED
    BY <1>2, <2>4
<1> QED
  BY <1>3, <1>4

(* What the recursive definition gives, prefix by prefix.                  *)
Upto(s, e) == CHOOSE f : Lefts(f, s, e, Len(s))

LEMMA WithoutSpec ==
    ASSUME NEW s, Len(s) \in Nat, NEW e
    PROVE  /\ Without(s, e) = Upto(s, e)[Len(s)]
           /\ Upto(s, e)[0] = << >>
           /\ \A k \in 1 .. Len(s) :
                 Upto(s, e)[k] = IF s[k] = e THEN Upto(s, e)[k - 1]
                                 ELSE Append(Upto(s, e)[k - 1], s[k])
<1> DEFINE f == Upto(s, e)
<1>1. Lefts(f, s, e, Len(s))
  BY LeftsExist, Zenon DEF Upto
<1>2. Without(s, e) = f[Len(s)]
  BY DEF Without, Upto, Lefts
<1> HIDE DEF f
<1>3. \A k \in 0 .. Len(s) :
          f[k] = IF k = 0 THEN << >>
                 ELSE IF s[k] = e THEN f[k - 1] ELSE Append(f[k - 1], s[k])
  BY <1>1 DEF Lefts
<1>4. f[0] = << >>
  BY <1>3
<1>5. \A k \in 1 .. Len(s) :
          f[k] = IF s[k] = e THEN f[k - 1] ELSE Append(f[k - 1], s[k])
  BY <1>3
<1> QED
  BY <1>2, <1>4, <1>5 DEF f

(* Sequences that begin alike leave alike what they begin with.            *)
LEMMA SamePrefix ==
    ASSUME NEW s, NEW t, NEW e, Len(s) \in Nat, Len(t) \in Nat, NEW n \in Nat,
           n <= Len(s), n <= Len(t), \A k \in 1 .. n : s[k] = t[k]
    PROVE  Upto(s, e)[n] = Upto(t, e)[n]
<1> DEFINE f == Upto(s, e)
           g == Upto(t, e)
           Bad == {k \in 0 .. n : f[k] # g[k]}
<1>1. SUFFICES ASSUME Bad # {} PROVE FALSE
  OBVIOUS
<1>2. PICK m \in Bad : \A k \in Bad : m <= k
  <2>1. Bad \in SUBSET Nat
    OBVIOUS
  <2> HIDE DEF Bad
  <2> QED
    BY <1>1, <2>1, Smallest
<1>3. /\ f[0] = << >>
      /\ \A k \in 1 .. Len(s) :
            f[k] = IF s[k] = e THEN f[k - 1] ELSE Append(f[k - 1], s[k])
  BY WithoutSpec
<1>4. /\ g[0] = << >>
      /\ \A k \in 1 .. Len(t) :
            g[k] = IF t[k] = e THEN g[k - 1] ELSE Append(g[k - 1], t[k])
  BY WithoutSpec
<1> HIDE DEF f, g
<1>5. m # 0
  BY <1>2, <1>3, <1>4
<1>6. m - 1 \in 0 .. n /\ m \in 1 .. n /\ m \in 1 .. Len(s) /\ m \in 1 .. Len(t)
  BY <1>2, <1>5
<1>7. f[m - 1] = g[m - 1]
  <2>1. m - 1 \notin Bad
    BY <1>2, <1>6
  <2> QED
    BY <1>6, <2>1
<1>8. s[m] = t[m]
  BY <1>6
<1>9. f[m] = g[m]
  BY <1>3, <1>4, <1>6, <1>7, <1>8
<1> QED
  BY <1>2, <1>9

(* So a value at the end is there at the end, unless it is the one left    *)
(* out.                                                                    *)
LEMMA WithoutOfAppend ==
    ASSUME NEW S, NEW s \in Seq(S), NEW x \in S, NEW e
    PROVE  Without(Append(s, x), e) =
               IF x = e THEN Without(s, e) ELSE Append(Without(s, e), x)
<1> DEFINE t == Append(s, x)
           n == Len(s)
<1>1. n \in Nat /\ Len(t) = n + 1 /\ t[n + 1] = x /\ \A k \in 1 .. n : s[k] = t[k]
  OBVIOUS
<1>2. Without(s, e) = Upto(s, e)[n]
  BY <1>1, WithoutSpec
<1> HIDE DEF t, n
<1>3. Without(t, e) = Upto(t, e)[n + 1]
      /\ \A k \in 1 .. Len(t) : Upto(t, e)[k] = IF t[k] = e THEN Upto(t, e)[k - 1]
                                 ELSE Append(Upto(t, e)[k - 1], t[k])
  <2>1. Len(t) \in Nat
    BY <1>1
  <2> QED
    BY <1>1, <2>1, WithoutSpec
<1>4. Upto(t, e)[n] = Upto(s, e)[n]
  <2>1. Len(s) = n /\ Len(t) \in Nat /\ n <= Len(s) /\ n <= Len(t)
    BY <1>1 DEF n
  <2> QED
    BY <1>1, <2>1, SamePrefix
<1>5. n + 1 \in 1 .. Len(t) /\ (n + 1) - 1 = n
  BY <1>1
<1> QED
  BY <1>1, <1>2, <1>3, <1>4, <1>5 DEF t

LEMMA WithoutOfEmpty ==
    ASSUME NEW e
    PROVE  Without(<< >>, e) = << >>
<1> DEFINE s == << >>
<1>1. Len(s) = 0
  OBVIOUS
<1> HIDE DEF s
<1>2. Without(s, e) = << >>
  BY <1>1, WithoutSpec
<1> QED
  BY <1>2 DEF s

(* What holds of nothing, and of a sequence with one more value whenever   *)
(* it holds of the sequence, holds of its prefixes and of itself: stated   *)
(* for the lengths of which it holds.                                      *)
LEMMA EveryLength ==
    ASSUME NEW n \in Nat, NEW Good, 0 \in Good,
           \A k \in 1 .. n : k - 1 \in Good => k \in Good
    PROVE  n \in Good
<1>1. SUFFICES ASSUME n \notin Good PROVE FALSE
  OBVIOUS
<1> DEFINE Bad == {k \in 0 .. n : k \notin Good}
<1>2. PICK m \in Bad : \A k \in Bad : m <= k
  <2>1. Bad \in SUBSET Nat /\ n \in Bad
    BY <1>1
  <2>2. Bad # {}
    BY <2>1
  <2> HIDE DEF Bad
  <2> QED
    BY <2>1, <2>2, Smallest
<1>3. m # 0 /\ m - 1 \in 0 .. n /\ m \in 1 .. n
  BY <1>2
<1>4. m - 1 \in Good
  BY <1>2, <1>3
<1> QED
  BY <1>2, <1>3, <1>4

(* A prefix longer by one.                                                 *)
LEMMA LongerPrefix ==
    ASSUME NEW S, NEW s \in Seq(S), NEW k \in 1 .. Len(s)
    PROVE  /\ SubSeq(s, 1, k - 1) \in Seq(S) /\ s[k] \in S
           /\ SubSeq(s, 1, k) = Append(SubSeq(s, 1, k - 1), s[k])
OBVIOUS

LEMMA WholePrefix ==
    ASSUME NEW S, NEW s \in Seq(S)
    PROVE  SubSeq(s, 1, 0) = << >> /\ SubSeq(s, 1, Len(s)) = s
OBVIOUS

LEMMA WithoutIsSeq ==
    ASSUME NEW S, NEW s \in Seq(S), NEW e
    PROVE  Without(s, e) \in Seq(S \ {e})
<1> DEFINE Good == {n \in 0 .. Len(s) : Without(SubSeq(s, 1, n), e) \in Seq(S \ {e})}
<1>1. Len(s) \in Nat
  OBVIOUS
<1>2. 0 \in Good
  <2>1. << >> \in Seq(S \ {e})
    OBVIOUS
  <2>2. Without(SubSeq(s, 1, 0), e) = << >>
    BY WholePrefix, WithoutOfEmpty, Zenon
  <2>3. 0 \in 0 .. Len(s)
    BY <1>1
  <2> QED
    BY <2>1, <2>2, <2>3, Zenon
<1>3. ASSUME NEW k \in 1 .. Len(s), k - 1 \in Good
      PROVE  k \in Good
  <2> DEFINE p == SubSeq(s, 1, k - 1)
  <2>1. p \in Seq(S) /\ s[k] \in S /\ SubSeq(s, 1, k) = Append(p, s[k])
    BY LongerPrefix
  <2>2. Without(p, e) \in Seq(S \ {e})
    BY <1>3
  <2> HIDE DEF p
  <2>3. Without(SubSeq(s, 1, k), e) =
            IF s[k] = e THEN Without(p, e) ELSE Append(Without(p, e), s[k])
    <3>1. \A u \in Seq(S), x \in S :
              Without(Append(u, x), e) =
                  IF x = e THEN Without(u, e) ELSE Append(Without(u, e), x)
      BY WithoutOfAppend
    <3> QED
      BY <2>1, <3>1, Zenon
  <2>4. s[k] # e => Append(Without(p, e), s[k]) \in Seq(S \ {e})
    BY <2>1, <2>2
  <2>5. Without(SubSeq(s, 1, k), e) \in Seq(S \ {e})
    BY <2>2, <2>3, <2>4, Zenon
  <2>6. k \in 0 .. Len(s)
    BY <1>1
  <2> QED
    BY <2>5, <2>6, Zenon
<1>4. Len(s) \in Good
  <2> HIDE DEF Good
  <2> QED
    BY <1>1, <1>2, <1>3, EveryLength
<1> QED
  BY <1>4, WholePrefix

(* Of two sequences one after the other, what is left of each.             *)
LEMMA WithoutOfConcat ==
    ASSUME NEW S, NEW s \in Seq(S), NEW t \in Seq(S), NEW e
    PROVE  Without(s \o t, e) = Without(s, e) \o Without(t, e)
<1> DEFINE Good == {n \in 0 .. Len(t) :
                       Without(s \o SubSeq(t, 1, n), e) =
                           Without(s, e) \o Without(SubSeq(t, 1, n), e)}
<1>1. Len(t) \in Nat
  OBVIOUS
<1>2. 0 \in Good
  <2>1. s \o << >> = s /\ Without(s, e) \o << >> = Without(s, e)
    <3>1. Without(s, e) \in Seq(S \ {e})
      BY WithoutIsSeq
    <3> QED
      BY <3>1
  <2>2. SubSeq(t, 1, 0) = << >> /\ Without(<< >>, e) = << >>
    BY WholePrefix, WithoutOfEmpty, Zenon
  <2>3. 0 \in 0 .. Len(t)
    BY <1>1
  <2> QED
    BY <2>1, <2>2, <2>3, Zenon
<1>3. ASSUME NEW k \in 1 .. Len(t), k - 1 \in Good
      PROVE  k \in Good
  <2> DEFINE p == SubSeq(t, 1, k - 1)
  <2>1. p \in Seq(S) /\ t[k] \in S /\ SubSeq(t, 1, k) = Append(p, t[k])
    BY LongerPrefix
  <2>2. Without(s \o p, e) = Without(s, e) \o Without(p, e)
    BY <1>3
  <2> HIDE DEF p
  <2>0. \A u \in Seq(S), x \in S :
            Without(Append(u, x), e) =
                IF x = e THEN Without(u, e) ELSE Append(Without(u, e), x)
    BY WithoutOfAppend
  <2>3. s \o Append(p, t[k]) = Append(s \o p, t[k]) /\ s \o p \in Seq(S)
    BY <2>1
  <2>4. Without(s \o SubSeq(t, 1, k), e) =
            IF t[k] = e THEN Without(s \o p, e) ELSE Append(Without(s \o p, e), t[k])
    BY <2>0, <2>1, <2>3, Zenon
  <2>5. Without(SubSeq(t, 1, k), e) =
            IF t[k] = e THEN Without(p, e) ELSE Append(Without(p, e), t[k])
    BY <2>0, <2>1, Zenon
  <2>6. Without(s, e) \in Seq(S) /\ Without(p, e) \in Seq(S)
    <3>1. \A u \in Seq(S) : Without(u, e) \in Seq(S \ {e})
      BY WithoutIsSeq
    <3>2. Seq(S \ {e}) \subseteq Seq(S)
      OBVIOUS
    <3> QED
      BY <2>1, <3>1, <3>2
  <2>7. Append(Without(s, e) \o Without(p, e), t[k]) =
            Without(s, e) \o Append(Without(p, e), t[k])
    <3> DEFINE u == Without(s, e)
               v == Without(p, e)
               x == t[k]
    <3>1. u \in Seq(S) /\ v \in Seq(S) /\ x \in S
      BY <2>1, <2>6
    <3> HIDE DEF u, v, x
    <3>2. /\ u \o v \in Seq(S) /\ <<x>> \in Seq(S)
          /\ Append(v, x) = v \o <<x>>
      BY <3>1
    <3>3. Append(u \o v, x) = (u \o v) \o <<x>>
      BY <3>2
    <3>4. (u \o v) \o <<x>> = u \o (v \o <<x>>)
      BY <3>1, <3>2
    <3> QED
      BY <3>2, <3>3, <3>4 DEF u, v, x
  <2>8. k \in 0 .. Len(t)
    BY <1>1
  <2>9. Without(s \o SubSeq(t, 1, k), e) =
            Without(s, e) \o Without(SubSeq(t, 1, k), e)
    <3>1. CASE t[k] = e
      BY <2>2, <2>4, <2>5, <3>1, Zenon
    <3>2. CASE t[k] # e
      BY <2>2, <2>4, <2>5, <2>7, <3>2, Zenon
    <3> QED
      BY <3>1, <3>2
  <2> QED
    BY <2>8, <2>9, Zenon
<1>4. Len(t) \in Good
  <2> HIDE DEF Good
  <2> QED
    BY <1>1, <1>2, <1>3, EveryLength
<1> QED
  BY <1>4, WholePrefix

-----------------------------------------------------------------------------
(* What paths mean.                                                        *)
Tidy(p) == OneSlashBetweenNames(p)

LEMMA PathIsSeq ==
    /\ Path = Seq(Element) /\ Slash \in Element
    /\ {DotDebug, IdDir, IdFile} \subseteq Element /\ Slash \notin {DotDebug, IdDir, IdFile}
BY SlashAssumption DEF Path, Element

(* The names of a path are no slashes; a slash has none, anything else is  *)
(* its own.                                                                *)
LEMMA NamesOfPath ==
    ASSUME NEW p \in Path
    PROVE  Names(p) \in Seq(Element \ {Slash}) /\ Names(p) \in Seq(Element)
<1>1. Names(p) \in Seq(Element \ {Slash})
  BY PathIsSeq, WithoutIsSeq DEF Names
<1> QED
  BY <1>1

LEMMA NamesOfConcat ==
    ASSUME NEW p \in Path, NEW q \in Path
    PROVE  p \o q \in Path /\ Names(p \o q) = Names(p) \o Names(q)
<1>1. p \in Seq(Element) /\ q \in Seq(Element)
  BY PathIsSeq
<1>2. p \o q \in Seq(Element)
  BY <1>1
<1>3. Without(p \o q, Slash) = Without(p, Slash) \o Without(q, Slash)
  BY <1>1, WithoutOfConcat
<1> QED
  BY <1>2, <1>3, PathIsSeq DEF Names

LEMMA NamesOfOne ==
    ASSUME NEW x \in Element
    PROVE  /\ <<x>> \in Path /\ << >> \in Path /\ Names(<< >>) = << >>
           /\ Names(<<x>>) = IF x = Slash THEN << >> ELSE <<x>>
<1>1. << >> \in Seq(Element) /\ <<x>> \in Seq(Element)
      /\ Append(<< >>, x) = <<x>>
  OBVIOUS
<1>2. Without(<< >>, Slash) = << >>
  BY WithoutOfEmpty
<1>3. \A u \in Seq(Element), y \in Element :
          Without(Append(u, y), Slash) =
              IF y = Slash THEN Without(u, Slash) ELSE Append(Without(u, Slash), y)
  BY WithoutOfAppend
<1>4. Without(Append(<< >>, x), Slash) =
          IF x = Slash THEN Without(<< >>, Slash) ELSE Append(Without(<< >>, Slash), x)
  BY <1>1, <1>3, Zenon
<1> QED
  BY <1>1, <1>2, <1>4, PathIsSeq DEF Names

(* The first and the last element of two paths one after the other.        *)
LEMMA EndsOfConcat ==
    ASSUME NEW p \in Path, NEW q \in Path
    PROVE  /\ Starts(p \o q) <=> IF p = << >> THEN Starts(q) ELSE Starts(p)
           /\ Ends(p \o q) <=> IF q = << >> THEN Ends(p) ELSE Ends(q)
<1>1. p \in Seq(Element) /\ q \in Seq(Element)
  BY PathIsSeq
<1>2. CASE p = << >>
  <2>1. p \o q = q
    BY <1>1, <1>2
  <2> QED
    BY <1>2, <2>1 DEF Ends
<1>3. CASE p # << >> /\ q = << >>
  <2>1. p \o q = p
    BY <1>1, <1>3
  <2> QED
    BY <1>3, <2>1
<1>4. CASE p # << >> /\ q # << >>
  <2>1. /\ p \o q # << >> /\ Head(p \o q) = p[1] /\ Head(p) = p[1]
        /\ Len(p \o q) = Len(p) + Len(q)
        /\ (p \o q)[Len(p) + Len(q)] = q[Len(q)]
    BY <1>1, <1>4
  <2> QED
    BY <1>4, <2>1 DEF Starts, Ends
<1> QED
  BY <1>2, <1>3, <1>4

LEMMA ConcatIsTidy ==
    ASSUME NEW p \in Path, NEW q \in Path, Tidy(p), Tidy(q),
           p # << >> /\ q # << >> => ~ (Ends(p) <=> Starts(q))
    PROVE  Tidy(p \o q)
<1>1. p \in Seq(Element) /\ q \in Seq(Element)
  BY PathIsSeq
<1>2. SUFFICES ASSUME NEW k \in 1 .. Len(p \o q) - 1
               PROVE  ((p \o q)[k] = Slash) # ((p \o q)[k + 1] = Slash)
  BY DEF Tidy, OneSlashBetweenNames
<1>3. /\ Len(p) \in Nat /\ Len(q) \in Nat /\ Len(p \o q) = Len(p) + Len(q)
      /\ k \in 1 .. Len(p) + Len(q) - 1
  BY <1>1
<1>4. \A j \in 1 .. Len(p) + Len(q) :
          (p \o q)[j] = IF j <= Len(p) THEN p[j] ELSE q[j - Len(p)]
  BY <1>1
<1>5. CASE k < Len(p)
  <2>1. (p \o q)[k] = p[k] /\ (p \o q)[k + 1] = p[k + 1]
    BY <1>3, <1>4, <1>5
  <2>2. k \in 1 .. Len(p) - 1
    BY <1>3, <1>5
  <2> QED
    BY <2>1, <2>2 DEF Tidy, OneSlashBetweenNames
<1>6. CASE k = Len(p)
  <2>1. (p \o q)[k] = p[Len(p)] /\ (p \o q)[k + 1] = q[1]
    BY <1>3, <1>4, <1>6
  <2>2. p # << >> /\ q # << >> /\ Head(q) = q[1]
    BY <1>1, <1>3, <1>6
  <2>3. (Ends(p) <=> p[Len(p)] = Slash) /\ (Starts(q) <=> q[1] = Slash)
    BY <2>2 DEF Ends, Starts
  <2> QED
    BY <2>1, <2>2, <2>3
<1>7. CASE k > Len(p)
  <2> DEFINE j == k - Len(p)
  <2>1. (p \o q)[k] = q[j] /\ (p \o q)[k + 1] = q[j + 1]
    <3>1. k + 1 - Len(p) = j + 1 /\ k + 1 \in 1 .. Len(p) + Len(q) /\ k + 1 > Len(p)
      BY <1>3, <1>7
    <3> QED
      BY <1>3, <1>4, <1>7, <3>1
  <2>2. j \in 1 .. Len(q) - 1
    BY <1>3, <1>7
  <2> HIDE DEF j
  <2> QED
    BY <2>1, <2>2 DEF Tidy, OneSlashBetweenNames
<1> QED
  BY <1>3, <1>5, <1>6, <1>7

(* _dwarf_pathjoinl joins what the two paths mean: the names of the one    *)
(* and those of the other, from the root if the first of them is, a        *)
(* directory if the last is; and one slash is between them.                *)
LEMMA JoinMeans ==
    ASSUME NEW target \in Path, NEW input \in Path
    PROVE  /\ Join(target, input) \in Path
           /\ Names(Join(target, input)) = Names(target) \o Names(input)
           /\ Join(target, input) = << >> => target = << >>
           /\ Starts(Join(target, input)) <=>
                  IF target = << >> THEN Starts(input) ELSE Starts(target)
           /\ Ends(Join(target, input)) <=>
                  IF target = << >> THEN Ends(input) ELSE input = << >> \/ Ends(input)
           /\ Tidy(target) /\ Tidy(input) => Tidy(Join(target, input))
<1>0. target \in Seq(Element) /\ input \in Seq(Element)
  BY PathIsSeq
<1>1. CASE target = << >>
  <2>1. Join(target, input) = input
    BY <1>1 DEF Join
  <2>2. Names(target) = << >> /\ << >> \o Names(input) = Names(input)
    <3>1. Names(target) = << >>
      BY <1>1, NamesOfOne, PathIsSeq
    <3>2. Names(input) \in Seq(Element)
      BY NamesOfPath
    <3> QED
      BY <3>1, <3>2
  <2> QED
    BY <1>1, <2>1, <2>2
<1>2. CASE target # << >>
  <2> DEFINE slash == <<Slash>>
             rest == IF Ends(target)
                     THEN (IF Starts(input) THEN Tail(input) ELSE input)
                     ELSE (IF Starts(input) THEN input ELSE slash \o input)
  <2>1. Join(target, input) = target \o rest
    BY <1>2 DEF Join
  <2>2. slash \in Path /\ Names(slash) = << >> /\ Starts(slash) /\ Ends(slash)
        /\ Tidy(slash) /\ slash # << >>
    <3>1. Names(slash) = << >> /\ slash \in Path
      BY NamesOfOne, PathIsSeq
    <3> QED
      BY <3>1 DEF Starts, Ends, Tidy, OneSlashBetweenNames
  <2> HIDE DEF slash
  <2>3. Names(input) \in Seq(Element) /\ << >> \o Names(input) = Names(input)
    BY NamesOfPath
  <2>4. ASSUME Starts(input)
        PROVE  /\ Tail(input) \in Path /\ Names(Tail(input)) = Names(input)
               /\ Tidy(input) => Tidy(Tail(input)) /\ ~ Starts(Tail(input))
               /\ Ends(input) <=> Tail(input) = << >> \/ Ends(Tail(input))
    <3> DEFINE t == Tail(input)
    <3>1. /\ input # << >> /\ input[1] = Slash /\ t \in Seq(Element)
          /\ Len(t) = Len(input) - 1 /\ \A k \in 1 .. Len(t) : t[k] = input[k + 1]
          /\ Len(input) \in Nat
      BY <1>0, <2>4 DEF Starts
    <3>2. input = slash \o t
      BY <1>0, <3>1 DEF slash
    <3>3. t \in Path
      BY <3>1, PathIsSeq
    <3> HIDE DEF t
    <3>4. Names(input) = << >> \o Names(t) /\ Names(t) \in Seq(Element)
      <4>1. Names(slash \o t) = Names(slash) \o Names(t)
        BY <2>2, <3>3, NamesOfConcat
      <4>2. Names(input) = << >> \o Names(t)
        BY <2>2, <3>2, <4>1, Zenon
      <4> QED
        BY <3>3, <4>2, NamesOfPath
    <3>5. Names(t) = Names(input)
      BY <3>4
    <3>6. Ends(input) <=> t = << >> \/ Ends(t)
      BY <2>2, <3>2, <3>3, EndsOfConcat
    <3>7. ASSUME Tidy(input)
          PROVE  Tidy(t) /\ ~ Starts(t)
      <4>1. \A k \in 1 .. Len(t) - 1 : (t[k] = Slash) # (t[k + 1] = Slash)
        <5> SUFFICES ASSUME NEW k \in 1 .. Len(t) - 1
                     PROVE  (t[k] = Slash) # (t[k + 1] = Slash)
          OBVIOUS
        <5>1. t[k] = input[k + 1] /\ t[k + 1] = input[(k + 1) + 1]
          BY <3>1
        <5>2. k + 1 \in 1 .. Len(input) - 1
          BY <3>1
        <5> QED
          BY <3>7, <5>1, <5>2 DEF Tidy, OneSlashBetweenNames
      <4>2. t # << >> => Head(t) # Slash
        <5> SUFFICES ASSUME t # << >> PROVE Head(t) # Slash
          OBVIOUS
        <5>1. Len(t) >= 1 /\ Head(t) = t[1]
          BY <3>1
        <5>2. 1 \in 1 .. Len(input) - 1 /\ t[1] = input[1 + 1]
          BY <3>1, <5>1
        <5>3. (input[1] = Slash) # (input[1 + 1] = Slash)
          BY <3>7, <5>2 DEF Tidy, OneSlashBetweenNames
        <5> QED
          BY <3>1, <5>1, <5>2, <5>3
      <4> QED
        BY <4>1, <4>2 DEF Tidy, OneSlashBetweenNames, Starts
    <3> QED
      BY <3>3, <3>5, <3>6, <3>7 DEF t
  <2>5. ASSUME ~ Starts(input)
        PROVE  /\ slash \o input \in Path /\ Names(slash \o input) = Names(input)
               /\ Tidy(input) => Tidy(slash \o input)
               /\ Starts(slash \o input) /\ slash \o input # << >>
               /\ Ends(slash \o input) <=> input = << >> \/ Ends(input)
    <3>1. slash \o input \in Path /\ Names(slash \o input) = << >> \o Names(input)
      BY <2>2, NamesOfConcat
    <3>2. /\ Starts(slash \o input)
          /\ Ends(slash \o input) <=> input = << >> \/ Ends(input)
      BY <2>2, EndsOfConcat
    <3>3. Tidy(input) => Tidy(slash \o input)
      BY <2>2, <2>5, ConcatIsTidy
    <3> QED
      BY <2>3, <3>1, <3>2, <3>3 DEF Starts
  <2>6. /\ rest \in Path /\ Names(rest) = Names(input)
        /\ Tidy(input) => Tidy(rest)
        /\ Tidy(input) /\ rest # << >> => ~ (Ends(target) <=> Starts(rest))
        /\ rest = << >> => Ends(target) /\ (input = << >> \/ Ends(input))
        /\ rest # << >> => (Ends(rest) <=> input = << >> \/ Ends(input))
    <3>1. CASE Ends(target) /\ Starts(input)
      <4>1. rest = Tail(input) /\ input # << >>
        BY <3>1 DEF Starts
      <4> QED
        BY <2>4, <3>1, <4>1
    <3>2. CASE Ends(target) /\ ~ Starts(input)
      <4>1. rest = input
        BY <3>2
      <4> QED
        BY <3>2, <4>1
    <3>3. CASE ~ Ends(target) /\ Starts(input)
      <4>1. rest = input /\ input # << >>
        BY <3>3 DEF Starts
      <4> QED
        BY <3>3, <4>1
    <3>4. CASE ~ Ends(target) /\ ~ Starts(input)
      <4>1. rest = slash \o input
        BY <3>4
      <4> QED
        BY <2>5, <3>4, <4>1
    <3> QED
      BY <3>1, <3>2, <3>3, <3>4
  <2> HIDE DEF rest
  <2>7. target \o rest # << >> /\ target \o rest \in Path
    BY <1>0, <1>2, <2>6, PathIsSeq
  <2>8. Names(target \o rest) = Names(target) \o Names(input)
    BY <2>6, NamesOfConcat
  <2>9. /\ Starts(target \o rest) <=> Starts(target)
        /\ Ends(target \o rest) <=> IF rest = << >> THEN Ends(target) ELSE Ends(rest)
    BY <1>2, <2>6, EndsOfConcat
  <2>10. Tidy(target) /\ Tidy(input) => Tidy(target \o rest)
    BY <2>6, ConcatIsTidy
  <2> QED
    BY <1>2, <2>1, <2>6, <2>7, <2>8, <2>9, <2>10
<1> QED
  BY <1>1, <1>2

-----------------------------------------------------------------------------
(* Paths with one slash between names are known by what they mean.         *)

(* Where the names stand: at every other place, the first or the second    *)
(* being the first of them.                                                *)
LEMMA NamesAlternate ==
    ASSUME NEW p \in Path, Tidy(p), p # << >>
    PROVE  LET o == IF Starts(p) THEN 1 ELSE 0
               l == Len(Names(p))
           IN  /\ l \in Nat
               /\ 2 * l + o = IF Ends(p) THEN Len(p) ELSE Len(p) + 1
               /\ \A j \in 1 .. l : p[2 * j - 1 + o] = Names(p)[j]
               /\ \A k \in 1 .. Len(p) : p[k] = Slash \/ \E j \in 1 .. l : k = 2 * j - 1 + o
<1> DEFINE o == IF Starts(p) THEN 1 ELSE 0
           N(n) == Names(SubSeq(p, 1, n))
           Found(n) ==
               /\ 2 * Len(N(n)) + o = IF p[n] = Slash THEN n ELSE n + 1
               /\ \A j \in 1 .. Len(N(n)) : p[2 * j - 1 + o] = N(n)[j]
               /\ \A k \in 1 .. n :
                     p[k] = Slash \/ \E j \in 1 .. Len(N(n)) : k = 2 * j - 1 + o
           Good == {n \in 0 .. Len(p) : n = 0 \/ Found(n)}
<1>0. p \in Seq(Element) /\ Len(p) \in Nat \ {0} /\ o \in {0, 1}
      /\ (o = 1 <=> p[1] = Slash)
  BY PathIsSeq DEF Starts
<1>1. \A n \in 0 .. Len(p) : N(n) \in Seq(Element) /\ Len(N(n)) \in Nat
  <2> SUFFICES ASSUME NEW n \in 0 .. Len(p)
               PROVE  N(n) \in Seq(Element) /\ Len(N(n)) \in Nat
    OBVIOUS
  <2>1. SubSeq(p, 1, n) \in Path
    BY <1>0, PathIsSeq
  <2>2. N(n) \in Seq(Element)
    BY <2>1, NamesOfPath
  <2> HIDE DEF N
  <2> QED
    BY <2>2
<1>2. \A n \in 1 .. Len(p) :
          N(n) = IF p[n] = Slash THEN N(n - 1) ELSE Append(N(n - 1), p[n])
  <2> SUFFICES ASSUME NEW n \in 1 .. Len(p)
               PROVE  N(n) = IF p[n] = Slash THEN N(n - 1) ELSE Append(N(n - 1), p[n])
    OBVIOUS
  <2> DEFINE q == SubSeq(p, 1, n - 1)
  <2>1. q \in Seq(Element) /\ p[n] \in Element /\ SubSeq(p, 1, n) = Append(q, p[n])
    BY <1>0, LongerPrefix
  <2> HIDE DEF q
  <2>2. \A u \in Seq(Element), y \in Element :
            Without(Append(u, y), Slash) =
                IF y = Slash THEN Without(u, Slash) ELSE Append(Without(u, Slash), y)
    BY WithoutOfAppend
  <2>3. Names(SubSeq(p, 1, n)) =
            IF p[n] = Slash THEN Names(q) ELSE Append(Names(q), p[n])
    BY <2>1, <2>2, Zenon DEF Names
  <2> QED
    BY <2>3 DEF q
<1>3. N(0) = << >>
  <2>1. SubSeq(p, 1, 0) = << >>
    BY <1>0, WholePrefix
  <2> QED
    BY <2>1, NamesOfOne, PathIsSeq
<1> HIDE DEF N, o
<1>4. ASSUME NEW n \in 1 .. Len(p), n - 1 \in Good
      PROVE  n \in Good
  <2> DEFINE a == N(n - 1)
             b == N(n)
  <2>1. a \in Seq(Element) /\ Len(a) \in Nat /\ b \in Seq(Element) /\ Len(b) \in Nat
        /\ n \in Nat \ {0} /\ p[n] \in Element
    BY <1>0, <1>1
  <2>2. b = IF p[n] = Slash THEN a ELSE Append(a, p[n])
    BY <1>2
  <2>3. CASE n = 1
    <3>1. a = << >>
      BY <1>3, <2>3
    <3>2. CASE p[n] = Slash
      <4>1. b = << >> /\ Len(b) = 0 /\ o = 1
        BY <1>0, <2>2, <2>3, <3>1, <3>2
      <4>2. Found(n)
        BY <2>3, <3>2, <4>1
      <4> QED
        BY <4>2
    <3>3. CASE p[n] # Slash
      <4>1. Len(b) = 1 /\ b[1] = p[1] /\ o = 0
        BY <1>0, <2>2, <2>3, <3>1, <3>3
      <4> HIDE DEF a, b
      <4>2. 2 * Len(b) + o = IF p[n] = Slash THEN n ELSE n + 1
        BY <2>3, <3>3, <4>1
      <4>3. \A j \in 1 .. Len(b) : p[2 * j - 1 + o] = b[j]
        <5> SUFFICES ASSUME NEW j \in 1 .. Len(b) PROVE p[2 * j - 1 + o] = b[j]
          OBVIOUS
        <5>1. j = 1 /\ 2 * j - 1 + o = 1
          BY <4>1
        <5> QED
          BY <4>1, <5>1
      <4>4. \A k \in 1 .. n :
                p[k] = Slash \/ \E j \in 1 .. Len(b) : k = 2 * j - 1 + o
        <5> SUFFICES ASSUME NEW k \in 1 .. n
                     PROVE  \E j \in 1 .. Len(b) : k = 2 * j - 1 + o
          OBVIOUS
        <5>1. k = 2 * 1 - 1 + o /\ 1 \in 1 .. Len(b)
          BY <2>3, <4>1
        <5> QED
          BY <5>1
      <4>5. Found(n)
        BY <4>2, <4>3, <4>4 DEF b
      <4> QED
        BY <4>5
    <3> QED
      BY <3>2, <3>3
  <2>4. CASE n > 1
    <3>1. /\ 2 * Len(a) + o = IF p[n - 1] = Slash THEN n - 1 ELSE n
          /\ \A j \in 1 .. Len(a) : p[2 * j - 1 + o] = a[j]
          /\ \A k \in 1 .. n - 1 :
                p[k] = Slash \/ \E j \in 1 .. Len(a) : k = 2 * j - 1 + o
      <4>1. Found(n - 1)
        BY <1>4, <2>4
      <4>2. (n - 1) + 1 = n
        BY <2>1
      <4> QED
        BY <4>1, <4>2
    <3>2. (p[n - 1] = Slash) # (p[n] = Slash)
      <4>1. n - 1 \in 1 .. Len(p) - 1 /\ (n - 1) + 1 = n
        BY <2>1, <2>4
      <4> QED
        BY <4>1 DEF Tidy, OneSlashBetweenNames
    <3> HIDE DEF a, b
    <3>3. CASE p[n] = Slash
      <4>1. b = a /\ 2 * Len(b) + o = n
        BY <2>2, <3>1, <3>2, <3>3
      <4>2. \A k \in 1 .. n :
                p[k] = Slash \/ \E j \in 1 .. Len(b) : k = 2 * j - 1 + o
        <5>1. \A k \in 1 .. n : k = n \/ k \in 1 .. n - 1
          BY <2>1
        <5> QED
          BY <3>1, <3>3, <4>1, <5>1, Zenon
      <4>3. Found(n)
        BY <3>1, <3>3, <4>1, <4>2 DEF b
      <4> QED
        BY <4>3
    <3>4. CASE p[n] # Slash
      <4>1. /\ Len(b) = Len(a) + 1 /\ b[Len(b)] = p[n]
            /\ \A j \in 1 .. Len(a) : b[j] = a[j]
        BY <2>1, <2>2, <3>4
      <4>2. 2 * Len(a) + o = n - 1 /\ 2 * Len(b) + o = n + 1
            /\ 2 * Len(b) - 1 + o = n
        BY <1>0, <2>1, <3>1, <3>2, <3>4, <4>1
      <4>3. \A j \in 1 .. Len(b) : j \in 1 .. Len(a) \/ j = Len(b)
        BY <2>1, <4>1
      <4>4. \A j \in 1 .. Len(b) : p[2 * j - 1 + o] = b[j]
        <5> SUFFICES ASSUME NEW j \in 1 .. Len(b) PROVE p[2 * j - 1 + o] = b[j]
          OBVIOUS
        <5>1. CASE j \in 1 .. Len(a)
          BY <3>1, <4>1, <5>1
        <5>2. CASE j = Len(b)
          BY <4>1, <4>2, <5>2
        <5> QED
          BY <4>3, <5>1, <5>2
      <4>5. \A k \in 1 .. n :
                p[k] = Slash \/ \E j \in 1 .. Len(b) : k = 2 * j - 1 + o
        <5> SUFFICES ASSUME NEW k \in 1 .. n
                     PROVE  p[k] = Slash \/ \E j \in 1 .. Len(b) : k = 2 * j - 1 + o
          OBVIOUS
        <5>1. CASE k = n
          <6>1. Len(b) \in 1 .. Len(b)
            BY <2>1, <4>1
          <6> QED
            BY <4>2, <5>1, <6>1
        <5>2. CASE k \in 1 .. n - 1
          <6>1. 1 .. Len(a) \subseteq 1 .. Len(b)
            BY <2>1, <4>1
          <6> QED
            BY <3>1, <5>2, <6>1, Zenon
        <5> QED
          BY <2>1, <5>1, <5>2
      <4>6. Found(n)
        BY <3>4, <4>2, <4>4, <4>5 DEF b
      <4> QED
        BY <4>6
    <3> QED
      BY <3>3, <3>4
  <2> QED
    BY <2>1, <2>3, <2>4
<1>5. Len(p) \in Good
  <2>1. 0 \in Good
    BY <1>0
  <2> HIDE DEF Good
  <2> QED
    BY <1>0, <1>4, <2>1, EveryLength
<1>6. Found(Len(p))
  BY <1>0, <1>5
<1>7. SubSeq(p, 1, Len(p)) = p
  BY <1>0, WholePrefix
<1>8. N(Len(p)) = Names(p)
  BY <1>7 DEF N
<1>9. Ends(p) <=> p[Len(p)] = Slash
  BY DEF Ends
<1>10. Len(Names(p)) \in Nat
  BY <1>0, <1>1, <1>8
<1> QED
  BY <1>6, <1>8, <1>9, <1>10 DEF o

LEMMA PathsOfAPlace ==
    ASSUME NEW p \in Path, NEW q \in Path, Tidy(p), Tidy(q), PlaceOf(p) = PlaceOf(q)
    PROVE  p = q
<1>0. p \in Seq(Element) /\ q \in Seq(Element)
  BY PathIsSeq
<1>1. Starts(p) = Starts(q) /\ Names(p) = Names(q) /\ Ends(p) = Ends(q)
  BY DEF PlaceOf, Place
<1> DEFINE o == IF Starts(p) THEN 1 ELSE 0
           l == Len(Names(p))
<1>2. Names(<< >>) = << >> /\ Len(Names(<< >>)) = 0 /\ ~ Starts(<< >>)
  <2>1. Names(<< >>) = << >>
    BY NamesOfOne, PathIsSeq
  <2>2. ~ Starts(<< >>) /\ Len(<< >>) = 0
    BY DEF Starts
  <2> QED
    BY <2>1, <2>2
<1>3. p # << >> =>
          /\ l \in Nat
          /\ 2 * l + o = IF Ends(p) THEN Len(p) ELSE Len(p) + 1
          /\ \A j \in 1 .. l : p[2 * j - 1 + o] = Names(p)[j]
          /\ \A k \in 1 .. Len(p) : p[k] = Slash \/ \E j \in 1 .. l : k = 2 * j - 1 + o
  BY NamesAlternate
<1>4. q # << >> =>
          /\ l \in Nat
          /\ 2 * l + o = IF Ends(p) THEN Len(q) ELSE Len(q) + 1
          /\ \A j \in 1 .. l : q[2 * j - 1 + o] = Names(p)[j]
          /\ \A k \in 1 .. Len(q) : q[k] = Slash \/ \E j \in 1 .. l : k = 2 * j - 1 + o
  <2> SUFFICES ASSUME q # << >>
               PROVE  LET m == IF Starts(q) THEN 1 ELSE 0
                          n == Len(Names(q))
                      IN  /\ n \in Nat
                          /\ 2 * n + m = IF Ends(q) THEN Len(q) ELSE Len(q) + 1
                          /\ \A j \in 1 .. n : q[2 * j - 1 + m] = Names(q)[j]
                          /\ \A k \in 1 .. Len(q) :
                                q[k] = Slash \/ \E j \in 1 .. n : k = 2 * j - 1 + m
    BY <1>1
  <2> QED
    BY NamesAlternate, Zenon
<1>5. (p = << >> \/ q = << >>) => l = 0 /\ o = 0
  BY <1>1, <1>2
<1> HIDE DEF l, o
<1>6. p = << >> <=> q = << >>
  <2>1. p # << >> => Len(p) \in Nat \ {0}
    BY <1>0
  <2>2. q # << >> => Len(q) \in Nat \ {0}
    BY <1>0
  <2> QED
    <3>1. CASE p = << >> /\ q # << >>
      <4>1. l = 0 /\ o = 0
        BY <1>5, <3>1
      <4>2. 2 * l + o = IF Ends(p) THEN Len(q) ELSE Len(q) + 1
        BY <1>4, <3>1
      <4> QED
        BY <2>2, <3>1, <4>1, <4>2
    <3>2. CASE p # << >> /\ q = << >>
      <4>1. l = 0 /\ o = 0
        BY <1>5, <3>2
      <4>2. 2 * l + o = IF Ends(p) THEN Len(p) ELSE Len(p) + 1
        BY <1>3, <3>2
      <4> QED
        BY <2>1, <3>2, <4>1, <4>2
    <3> QED
      BY <3>1, <3>2
<1>7. ASSUME p # << >>
      PROVE  p = q
  <2>1. Len(p) = Len(q) /\ Len(p) \in Nat
    BY <1>0, <1>3, <1>4, <1>6, <1>7
  <2>2. ASSUME NEW k \in 1 .. Len(p)
        PROVE  p[k] = q[k]
    <3>1. CASE \E j \in 1 .. l : k = 2 * j - 1 + o
      BY <1>3, <1>4, <1>6, <1>7, <3>1
    <3>2. CASE ~ \E j \in 1 .. l : k = 2 * j - 1 + o
      <4>1. p[k] = Slash
        BY <1>3, <1>7, <3>2
      <4>2. q[k] = Slash
        BY <1>4, <1>6, <1>7, <2>1, <3>2
      <4> QED
        BY <4>1, <4>2
    <3> QED
      BY <3>1, <3>2
  <2> QED
    BY <1>0, <2>1, <2>2, SeqEqual
<1> QED
  BY <1>6, <1>7

-----------------------------------------------------------------------------
(* The object, its directory, and the file named by a build-id.            *)

(* A beginning of a path is written like the path.                         *)
LEMMA PrefixIsTidy ==
    ASSUME NEW p \in Path, Tidy(p), NEW n \in 0 .. Len(p)
    PROVE  SubSeq(p, 1, n) \in Path /\ Tidy(SubSeq(p, 1, n))
<1>1. p \in Seq(Element) /\ Len(p) \in Nat
  BY PathIsSeq
<1>2. /\ SubSeq(p, 1, n) \in Seq(Element) /\ Len(SubSeq(p, 1, n)) = n
      /\ \A k \in 1 .. n : SubSeq(p, 1, n)[k] = p[k]
  BY <1>1
<1>3. \A k \in 1 .. n - 1 : /\ k \in 1 .. Len(p) - 1 /\ k \in 1 .. n /\ k + 1 \in 1 .. n
  BY <1>1
<1> QED
  BY <1>2, <1>3, PathIsSeq DEF Tidy, OneSlashBetweenNames

(* The path of the object is its directory and one name.                   *)
LEMMA PartsOfObject ==
    ASSUME NEW p \in Path, Tidy(p), p # << >>, p[Len(p)] # Slash
    PROVE  \E x \in Element \ {Slash} :
               /\ BasePath(p) = <<x>>
               /\ p = DirName(p) \o <<x>>
               /\ DirName(p) \in Path /\ Tidy(DirName(p))
               /\ DirName(p) = << >> => ~ Starts(p)
               /\ DirName(p) # << >> => (Starts(DirName(p)) <=> Starts(p))
<1> DEFINE d == DirLen(p)
           n == Len(p)
           x == p[n]
<1>0. p \in Seq(Element) /\ n \in Nat \ {0} /\ x \in Element \ {Slash}
  BY PathIsSeq
<1>1. /\ d \in 0 .. n /\ (d # 0 => p[d] = Slash)
      /\ \A k \in d + 1 .. n : p[k] # Slash
  BY DirLenInPath
<1> HIDE DEF d
<1>2. d = n - 1
  <2>1. d # n
    BY <1>0, <1>1
  <2>2. ASSUME d < n - 1 PROVE FALSE
    <3>1. d + 1 \in 1 .. Len(p) - 1 /\ d + 1 \in d + 1 .. n /\ (d + 1) + 1 \in d + 1 .. n
      BY <1>0, <1>1, <2>2
    <3>2. (p[d + 1] = Slash) # (p[(d + 1) + 1] = Slash)
      BY <3>1 DEF Tidy, OneSlashBetweenNames
    <3> QED
      BY <1>1, <3>1, <3>2
  <2> QED
    BY <1>0, <1>1, <2>1, <2>2
<1>3. SubSeq(p, d + 1, n) = <<x>>
  <2>1. d + 1 = n /\ n \in Nat \ {0}
    BY <1>0, <1>2
  <2>2. SubSeq(p, n, n) = <<x>>
    <3>1. SubSeq(p, n, n) = SubSeq(p, n, n - 1) \o <<p[n]>>
      BY <1>0, SubSeqRecursiveSecond
    <3>2. SubSeq(p, n, n - 1) = << >>
      BY <1>0, SubSeqEmpty
    <3>3. << >> \o <<x>> = <<x>>
      OBVIOUS
    <3> QED
      BY <3>1, <3>2, <3>3, Zenon
  <2> QED
    BY <2>1, <2>2, Zenon
<1>4. p = SubSeq(p, 1, d) \o <<x>>
  <2>1. SubSeq(p, 1, n) = Append(SubSeq(p, 1, n - 1), x) /\ SubSeq(p, 1, n) = p
        /\ SubSeq(p, 1, n - 1) \in Seq(Element)
    <3>1. n \in 1 .. Len(p)
      BY <1>0
    <3> QED
      BY <1>0, <3>1, LongerPrefix, WholePrefix
  <2>2. \A u \in Seq(Element) : Append(u, x) = u \o <<x>>
    BY <1>0
  <2> QED
    BY <1>2, <2>1, <2>2, Zenon
<1>5. SubSeq(p, 1, d) \in Path /\ Tidy(SubSeq(p, 1, d))
  BY <1>1, PrefixIsTidy
<1>6. SubSeq(p, 1, d) = << >> => ~ Starts(p)
  <2>1. SubSeq(p, 1, d) = << >> => d = 0
    BY <1>0, <1>1
  <2>2. d = 0 => Head(p) = x
    <3>1. Head(p) = p[1]
      BY <1>0
    <3>2. d = 0 => n = 1
      BY <1>0, <1>2
    <3> QED
      BY <3>1, <3>2
  <2> QED
    BY <1>0, <2>1, <2>2 DEF Starts
<1>7. SubSeq(p, 1, d) # << >> => (Starts(SubSeq(p, 1, d)) <=> Starts(p))
  <2> DEFINE q == SubSeq(p, 1, d)
             one == <<x>>
  <2>1. one \in Path
    BY <1>0, PathIsSeq
  <2>2. q \in Path /\ p = q \o one
    BY <1>4, <1>5
  <2> HIDE DEF q, one
  <2>3. q # << >> => (Starts(q) <=> Starts(p))
    BY <2>1, <2>2, EndsOfConcat
  <2> QED
    BY <2>3 DEF q
<1> QED
  BY <1>0, <1>3, <1>4, <1>5, <1>6, <1>7 DEF BasePath, DirName, d

(* js_cwd and js_originalfullpath, as the code makes them.                 *)
Here == Join(IF Starts(path) THEN << >> ELSE Cwd, DirName(path))

LEMMA ObjectIsMeant ==
    ASSUME path \in Path, path # << >>, path[Len(path)] # Slash, Tidy(path), Tidy(Cwd)
    PROVE  /\ Here \in Path /\ Tidy(Here) /\ Here # << >> /\ Starts(Here)
           /\ Names(Here) = Directory
           /\ Join(Here, BasePath(path)) \in Path /\ Tidy(Join(Here, BasePath(path)))
           /\ PlaceOf(Join(Here, BasePath(path))) = Object
<1> DEFINE dir == DirName(path)
           start == IF Starts(path) THEN << >> ELSE Cwd
           names == IF Starts(path) THEN << >> ELSE Names(Cwd)
<1>1. PICK x \in Element \ {Slash} :
          /\ BasePath(path) = <<x>> /\ path = dir \o <<x>>
          /\ dir \in Path /\ Tidy(dir)
          /\ dir = << >> => ~ Starts(path)
          /\ dir # << >> => (Starts(dir) <=> Starts(path))
  BY PartsOfObject
<1> DEFINE one == <<x>>
<1>2. one \in Path /\ Names(one) = one /\ one # << >> /\ ~ Starts(one) /\ ~ Ends(one)
      /\ Tidy(one) /\ one \in Seq(Element)
  <2>1. one \in Path /\ Names(one) = one
    BY NamesOfOne
  <2>2. one # << >> /\ ~ Starts(one) /\ ~ Ends(one) /\ Tidy(one)
    BY DEF Starts, Ends, Tidy, OneSlashBetweenNames
  <2> QED
    BY <2>1, <2>2, PathIsSeq
<1>3. Cwd \in Path /\ Starts(Cwd) /\ Cwd # << >>
  BY PathsAssumption DEF Starts
<1>4. /\ start \in Path /\ Tidy(start) /\ Names(start) = names
      /\ start = << >> => Starts(path)
      /\ start # << >> => Starts(start)
  <2>1. << >> \in Path /\ Names(<< >>) = << >> /\ Tidy(<< >>)
    <3>1. << >> \in Path /\ Names(<< >>) = << >>
      BY NamesOfOne, PathIsSeq
    <3>2. Tidy(<< >>)
      BY DEF Tidy, OneSlashBetweenNames
    <3> QED
      BY <3>1, <3>2
  <2> QED
    BY <1>3, <2>1
<1>5. /\ Here \in Path /\ Names(Here) = names \o Names(dir)
      /\ Here = << >> => start = << >>
      /\ Starts(Here) <=> IF start = << >> THEN Starts(dir) ELSE Starts(start)
      /\ Tidy(Here)
  <2>0. Here = Join(start, dir)
    BY DEF Here
  <2> HIDE DEF start, dir, names
  <2> QED
    BY <1>1, <1>4, <2>0, JoinMeans
<1> HIDE DEF start, dir
<1>6. Starts(Here) /\ Here # << >>
  <2>1. Starts(Here)
    BY <1>1, <1>4, <1>5
  <2> QED
    BY <2>1 DEF Starts
<1>7. names \in Seq(Element) /\ Names(dir) \in Seq(Element)
  BY <1>1, <1>4, NamesOfPath
<1>8. Names(path) = Names(dir) \o one
  <2>1. Names(dir \o one) = Names(dir) \o Names(one)
    BY <1>1, <1>2, NamesOfConcat
  <2> QED
    BY <1>1, <1>2, <2>1, Zenon
<1>9. ObjectNames = names \o Names(path)
  BY DEF ObjectNames
<1> HIDE DEF one, names
<1> DEFINE before == names \o Names(dir)
<1>10. ObjectNames = before \o one /\ before \in Seq(Element)
  <2>1. names \o (Names(dir) \o one) = (names \o Names(dir)) \o one
    BY <1>2, <1>7
  <2> QED
    BY <1>7, <1>8, <1>9, <2>1
<1>11. Len(one) = 1
  BY DEF one
<1>12. Directory = before
  <2> HIDE DEF before
  <2>1. before \o one \in Seq(Element) /\ Len(before \o one) = Len(before) + 1
        /\ Len(before) \in Nat
        /\ \A k \in 1 .. Len(before) : (before \o one)[k] = before[k]
    <3>1. before \in Seq(Element) /\ one \in Seq(Element)
      BY <1>2, <1>10
    <3>2. Len(before) \in Nat
      BY <3>1
    <3> QED
      <4>1. /\ before \o one \in Seq(Element)
            /\ Len(before \o one) = Len(before) + Len(one)
            /\ \A k \in 1 .. Len(before) + Len(one) :
                  (before \o one)[k] = IF k <= Len(before) THEN before[k]
                                        ELSE one[k - Len(before)]
        BY <3>1, ConcatProperties, Zenon
      <4>2. \A k \in 1 .. Len(before) :
                k \in 1 .. Len(before) + Len(one) /\ k <= Len(before)
        BY <1>11, <3>2
      <4>3. \A k \in 1 .. Len(before) : (before \o one)[k] = before[k]
        BY <4>1, <4>2, Zenon
      <4> QED
        BY <1>11, <3>2, <4>1, <4>3, Zenon
  <2>2. Len(before \o one) - 1 = Len(before)
    BY <2>1
  <2>3. SubSeq(before \o one, 1, Len(before)) = before
    <3> DEFINE s == SubSeq(before \o one, 1, Len(before))
    <3>1. s \in Seq(Element) /\ Len(s) = Len(before)
          /\ \A k \in 1 .. Len(s) : s[k] = before[k]
      <4>1. \A k \in 1 .. Len(before) : (before \o one)[k] \in Element
        BY <1>10, <2>1
      <4> HIDE DEF s
      <4>2. s \in Seq(Element)
        BY <2>1, <4>1, SubSeqProperties DEF s
      <4>3. Len(s) = Len(before)
        BY <2>1 DEF s
      <4>4. \A k \in 1 .. Len(before) : s[k] = (before \o one)[k]
        BY <2>1 DEF s
      <4> QED
        BY <2>1, <4>2, <4>3, <4>4
    <3> HIDE DEF s
    <3>2. s = before
      BY <1>10, <3>1, SeqEqual
    <3> QED
      BY <3>2 DEF s
  <2> QED
    BY <1>10, <2>2, <2>3 DEF Directory
<1>13. /\ Join(Here, one) \in Path
       /\ Names(Join(Here, one)) = ObjectNames
       /\ Starts(Join(Here, one)) /\ ~ Ends(Join(Here, one))
       /\ Tidy(Join(Here, one))
  <2>1. /\ Join(Here, one) \in Path
        /\ Names(Join(Here, one)) = Names(Here) \o Names(one)
        /\ Starts(Join(Here, one)) /\ ~ Ends(Join(Here, one))
        /\ Tidy(Join(Here, one))
    BY <1>2, <1>5, <1>6, JoinMeans
  <2> QED
    BY <1>2, <1>5, <1>10, <2>1
<1>14. PlaceOf(Join(Here, one)) = Object
  <2> DEFINE j == Join(Here, one)
  <2>1. Starts(j) = TRUE /\ Ends(j) = FALSE /\ Names(j) = ObjectNames
    BY <1>13 DEF Starts, Ends
  <2> HIDE DEF j
  <2>2. PlaceOf(j) = Object
    BY <2>1 DEF PlaceOf, Object, Place
  <2> QED
    BY <2>2 DEF j
<1> QED
  BY <1>1, <1>5, <1>6, <1>12, <1>13, <1>14 DEF one

(* The file of a build-id is a relative path to a file.                    *)
LEMMA BuildidIsMeant ==
    ASSUME NEW n \in Nat
    PROVE  /\ BuildidFilename(n) \in Path /\ Tidy(BuildidFilename(n))
           /\ BuildidFilename(n) # << >>
           /\ ~ Starts(BuildidFilename(n)) /\ ~ Ends(BuildidFilename(n))
<1>1. BuildidFilename(n) \in Path
  BY BuildidIsPath
<1>2. Slash \notin {DotDebug, IdDir, IdFile}
  BY PathIsSeq
<1>3. CASE n = 0
  BY <1>1, <1>2, <1>3 DEF BuildidFilename, Starts, Ends, Tidy, OneSlashBetweenNames
<1>4. ASSUME NEW y \in {DotDebug, IdFile}, BuildidFilename(n) = <<IdDir, Slash, y>>
      PROVE  /\ Tidy(BuildidFilename(n)) /\ BuildidFilename(n) # << >>
             /\ ~ Starts(BuildidFilename(n)) /\ ~ Ends(BuildidFilename(n))
  <2> DEFINE b == <<IdDir, Slash, y>>
  <2>1. Len(b) = 3 /\ b[1] = IdDir /\ b[2] = Slash /\ b[3] = y /\ Head(b) = IdDir
        /\ b # << >>
    OBVIOUS
  <2> HIDE DEF b
  <2>2. \A k \in 1 .. Len(b) - 1 : (b[k] = Slash) # (b[k + 1] = Slash)
    <3>1. \A k \in 1 .. Len(b) - 1 : k = 1 \/ k = 2
      BY <2>1
    <3>2. (b[1] = Slash) # (b[1 + 1] = Slash) /\ (b[2] = Slash) # (b[2 + 1] = Slash)
      BY <1>2, <2>1
    <3> QED
      BY <3>1, <3>2
  <2>3. ~ Starts(b) /\ ~ Ends(b) /\ Tidy(b)
    BY <1>2, <2>1, <2>2 DEF Starts, Ends, Tidy, OneSlashBetweenNames
  <2> QED
    BY <1>4, <2>1, <2>3 DEF b
<1>5. CASE n = 1
  BY <1>1, <1>4, <1>5 DEF BuildidFilename
<1>6. CASE n \notin {0, 1}
  BY <1>1, <1>4, <1>6 DEF BuildidFilename
<1> QED
  BY <1>3, <1>5, <1>6

(* Its names are those the places of a build-id end in.                    *)
LEMMA BuildidNames ==
    ASSUME NEW n \in Nat, n = idlen, n # 0
    PROVE  IdNames \in Seq(Element) /\ Names(BuildidFilename(n)) = IdNames
<1>1. ASSUME NEW y \in {DotDebug, IdFile}
      PROVE  <<IdDir, y>> \in Seq(Element) /\ Names(<<IdDir, Slash, y>>) = <<IdDir, y>>
  <2> DEFINE d == <<IdDir>>
             ds == <<IdDir, Slash>>
  <2>1. y \in Element /\ IdDir \in Element /\ Slash \in Element /\ y # Slash /\ IdDir # Slash
    BY PathIsSeq
  <2>2. d \in Seq(Element) /\ ds \in Seq(Element) /\ ds = Append(d, Slash)
    BY <2>1
  <2>3. <<IdDir, Slash, y>> = Append(ds, y) /\ <<IdDir, y>> = Append(d, y)
    BY <2>1
  <2>4. Append(d, y) \in Seq(Element)
    BY <2>1, <2>2
  <2>5. Names(d) = d
    BY <2>1, NamesOfOne
  <2> HIDE DEF d, ds
  <2>0. \A s \in Seq(Element), x \in Element :
            Names(Append(s, x)) = IF x = Slash THEN Names(s) ELSE Append(Names(s), x)
    BY WithoutOfAppend DEF Names
  <2>6. Names(ds) = d
    BY <2>0, <2>1, <2>2, <2>5
  <2>7. Names(Append(ds, y)) = Append(d, y)
    BY <2>0, <2>1, <2>2, <2>6
  <2> QED
    BY <2>3, <2>4, <2>7
<1>2. CASE n = 1
  BY <1>1, <1>2 DEF IdNames, BuildidFilename
<1>3. CASE n # 1
  BY <1>1, <1>3 DEF IdNames, BuildidFilename
<1> QED
  BY <1>2, <1>3

-----------------------------------------------------------------------------
(* The paths tried so far are the places before the next one, those of the *)
(* object left out.                                                        *)
All == BuildidPlaces \o LinkPlaces
APlace == [absolute : BOOLEAN, names : Seq(Element), directory : BOOLEAN]

(* How many places have been tried.                                        *)
Count ==
    CASE pc = "ids" -> prefix - 1
      [] pc = "same" -> Len(BuildidPlaces)
      [] pc = "debug" -> Len(BuildidPlaces) + 1
      [] pc = "global" -> Len(BuildidPlaces) + 1 + prefix
      [] OTHER -> Len(All)

Meanings(texts) == [k \in DOMAIN texts |-> PlaceOf(texts[k])]
Building == pc \in Tried \cup {"area"}

DirsInv ==
    /\ path \in Pathnames
    /\ Building => path # NoPath
    /\ pc = "ids" => idlen # 0
    /\ Building /\ WrittenWithOneSlash =>
           /\ js_cwd # << >> /\ Starts(js_cwd) /\ Tidy(js_cwd)
           /\ Names(js_cwd) = Directory
           /\ Tidy(original) /\ PlaceOf(original) = Object

(* The list c, of which l is the last entry in use, means the first n of   *)
(* the places.                                                             *)
Lists(c, l, n) ==
    /\ n \in 0 .. Len(All)
    /\ IF l = 0 THEN Without(SubSeq(All, 1, n), Object) = << >>
       ELSE /\ Meanings(c) = Without(SubSeq(All, 1, n), Object)
            /\ \A k \in DOMAIN c : Tidy(c[k])

ListInv ==
    /\ ~ Building => last = 0
    /\ last = 0 => chain = EmptyList
    /\ Building /\ WrittenWithOneSlash => Lists(chain, last, Count)

PathsInv == IInv /\ DirsInv /\ ListInv /\ PathsAreTheCandidates

(* A place is a place.                                                     *)
LEMMA PlaceIsPlace ==
    ASSUME NEW a \in BOOLEAN, NEW s \in Seq(Element), NEW d \in BOOLEAN
    PROVE  Place(a, s, d) \in APlace
BY DEF Place, APlace

(* One sequence after another.                                             *)
LEMMA ConcatSpec ==
    ASSUME NEW S, NEW u \in Seq(S), NEW v \in Seq(S)
    PROVE  /\ u \o v \in Seq(S) /\ Len(u \o v) = Len(u) + Len(v)
           /\ \A k \in 1 .. Len(u) + Len(v) :
                 (u \o v)[k] = IF k <= Len(u) THEN u[k] ELSE v[k - Len(u)]
OBVIOUS

(* How many places there are, and which.                                   *)
LEMMA PlacesSpec ==
    ASSUME Types, path \in Path
    PROVE  LET p == Len(prefixes)
               b == IF idlen = 0 THEN 0 ELSE p
           IN  /\ p \in Nat /\ All \in Seq(APlace)
               /\ Len(BuildidPlaces) = b
               /\ Len(All) = IF name = NoName THEN b ELSE b + 2 + p
               /\ idlen # 0 => \A k \in 1 .. p : All[k] = BuildidPlaces[k]
               /\ name # NoName =>
                      /\ All[b + 1] = Place(TRUE, Directory \o Names(name), LinkIsDirectory)
                      /\ All[b + 2] = Place(TRUE, Directory \o <<DotDebug>> \o Names(name),
                                            LinkIsDirectory)
                      /\ \A k \in 1 .. p :
                            All[b + 2 + k] =
                                Place(prefixes[k] = << >> \/ Starts(prefixes[k]),
                                      Names(prefixes[k]) \o Directory \o Names(name),
                                      LinkIsDirectory)
<1> DEFINE p == Len(prefixes)
           b == IF idlen = 0 THEN 0 ELSE p
           same == Place(TRUE, Directory \o Names(name), LinkIsDirectory)
           debug == Place(TRUE, Directory \o <<DotDebug>> \o Names(name), LinkIsDirectory)
           global(k) == Place(prefixes[k] = << >> \/ Starts(prefixes[k]),
                              Names(prefixes[k]) \o Directory \o Names(name),
                              LinkIsDirectory)
           globals == [k \in DOMAIN prefixes |-> global(k)]
           two == <<same, debug>>
<1>1. /\ p \in Nat /\ DOMAIN prefixes = 1 .. p /\ \A k \in 1 .. p : prefixes[k] \in Path
      /\ idlen \in Nat /\ (name # NoName => name \in Path)
  BY DEF Types
<1>2. \A k \in 1 .. p : Names(prefixes[k]) \in Seq(Element)
  BY <1>1, NamesOfPath
<1>3. Directory \in Seq(Element)
  <2>1. Names(path) \in Seq(Element) /\ Names(Cwd) \in Seq(Element)
    BY NamesOfPath, PathsAssumption
  <2>2. (IF Starts(path) THEN << >> ELSE Names(Cwd)) \in Seq(Element)
    BY <2>1
  <2>3. ObjectNames \in Seq(Element)
    BY <2>1, <2>2 DEF ObjectNames
  <2>4. Len(ObjectNames) \in Nat /\ \A k \in 1 .. Len(ObjectNames) : ObjectNames[k] \in Element
    BY <2>3
  <2>5. \A k \in 1 .. Len(ObjectNames) - 1 : ObjectNames[k] \in Element
    BY <2>4
  <2>6. 1 \in Int /\ Len(ObjectNames) - 1 \in Int
    BY <2>4
  <2> QED
    BY <2>5, <2>6, SubSeqProperties DEF Directory
<1>4. BuildidPlaces \in Seq(APlace) /\ Len(BuildidPlaces) = b
  <2>1. CASE idlen = 0
    BY <2>1 DEF BuildidPlaces
  <2>2. CASE idlen # 0
    <3> DEFINE id_(k) == Place(Starts(prefixes[k]),
                               Names(prefixes[k]) \o IdNames, FALSE)
    <3>1. ASSUME NEW k \in 1 .. p PROVE id_(k) \in APlace
      <4>1. Names(prefixes[k]) \o IdNames \in Seq(Element)
        <5>1. IdNames \in Seq(Element)
          BY <1>1, <2>2, BuildidNames
        <5> QED
          BY <1>2, <5>1
      <4>2. Starts(prefixes[k]) \in BOOLEAN
        BY DEF Starts
      <4> QED
        BY <4>1, <4>2, PlaceIsPlace
    <3>2. BuildidPlaces = [k \in 1 .. p |-> id_(k)]
      BY <1>1, <2>2 DEF BuildidPlaces
    <3> HIDE DEF id_
    <3> QED
      BY <1>1, <2>2, <3>1, <3>2
  <2> QED
    BY <2>1, <2>2
<1>5. CASE name = NoName
  <2>1. LinkPlaces = << >>
    BY <1>5 DEF LinkPlaces
  <2>2. All = BuildidPlaces
    BY <1>4, <2>1 DEF All
  <2> QED
    BY <1>1, <1>4, <1>5, <2>2
<1>6. CASE name # NoName
  <2>1. LinkIsDirectory \in BOOLEAN
    BY DEF LinkIsDirectory, Ends
  <2>2. Names(name) \in Seq(Element) /\ <<DotDebug>> \in Seq(Element)
    BY <1>1, <1>6, NamesOfPath, PathIsSeq
  <2>3. same \in APlace
    <3>1. Directory \o Names(name) \in Seq(Element)
      BY <1>3, <2>2
    <3> QED
      BY <2>1, <3>1, PlaceIsPlace
  <2>4. debug \in APlace
    <3>1. Directory \o <<DotDebug>> \o Names(name) \in Seq(Element)
      BY <1>3, <2>2
    <3> QED
      BY <2>1, <3>1, PlaceIsPlace
  <2>5. ASSUME NEW k \in 1 .. p PROVE global(k) \in APlace
    <3>1. Names(prefixes[k]) \o Directory \o Names(name) \in Seq(Element)
      BY <1>2, <1>3, <2>2
    <3>2. (prefixes[k] = << >> \/ Starts(prefixes[k])) \in BOOLEAN
      BY DEF Starts
    <3> QED
      BY <2>1, <3>1, <3>2, PlaceIsPlace
  <2>6. LinkPlaces = two \o globals
    BY <1>6 DEF LinkPlaces
  <2> HIDE DEF same, debug, global
  <2>7. globals \in Seq(APlace) /\ Len(globals) = p
        /\ \A k \in 1 .. p : globals[k] = global(k)
    BY <1>1, <2>5
  <2>8. two \in Seq(APlace) /\ Len(two) = 2 /\ two[1] = same /\ two[2] = debug
    BY <2>3, <2>4
  <2> HIDE DEF globals, two
  <2>9. /\ LinkPlaces \in Seq(APlace) /\ Len(LinkPlaces) = 2 + p
        /\ LinkPlaces[1] = same /\ LinkPlaces[2] = debug
        /\ \A k \in 1 .. p : LinkPlaces[2 + k] = global(k)
    <3>1. /\ two \o globals \in Seq(APlace)
          /\ Len(two \o globals) = Len(two) + Len(globals)
          /\ \A k \in 1 .. Len(two) + Len(globals) :
                (two \o globals)[k] = IF k <= Len(two) THEN two[k]
                                      ELSE globals[k - Len(two)]
      <4>1. \A u, v \in Seq(APlace) :
                /\ u \o v \in Seq(APlace) /\ Len(u \o v) = Len(u) + Len(v)
                /\ \A k \in 1 .. Len(u) + Len(v) :
                      (u \o v)[k] = IF k <= Len(u) THEN u[k] ELSE v[k - Len(u)]
        BY ConcatSpec
      <4> QED
        BY <2>7, <2>8, <4>1, Zenon
    <3>2. \A k \in 1 .. 2 + p :
              LinkPlaces[k] = IF k <= 2 THEN two[k] ELSE globals[k - 2]
      BY <2>6, <2>7, <2>8, <3>1, Zenon
    <3>3. 1 \in 1 .. 2 + p /\ 2 \in 1 .. 2 + p
      BY <1>1
    <3>4. LinkPlaces[1] = same /\ LinkPlaces[2] = debug
      BY <2>8, <3>2, <3>3
    <3>5. ASSUME NEW k \in 1 .. p
          PROVE  LinkPlaces[2 + k] = global(k)
      <4>1. 2 + k \in 1 .. 2 + p /\ ~ (2 + k <= 2) /\ (2 + k) - 2 = k
        BY <1>1
      <4> QED
        BY <2>7, <3>2, <4>1
    <3> QED
      BY <2>6, <2>7, <2>8, <3>1, <3>4, <3>5, Zenon
  <2> HIDE DEF p, b
  <2>10. p \in Nat /\ b \in Nat
    BY <1>1 DEF b
  <2>11. /\ All \in Seq(APlace) /\ Len(All) = b + 2 + p
         /\ \A k \in 1 .. b : All[k] = BuildidPlaces[k]
         /\ \A k \in 1 .. 2 + p : All[b + k] = LinkPlaces[k]
    BY <1>4, <2>9, <2>10 DEF All
  <2>12. All[b + 1] = same /\ All[b + 2] = debug
    <3>1. 1 \in 1 .. 2 + p /\ 2 \in 1 .. 2 + p
      BY <2>10
    <3> QED
      BY <2>9, <2>11, <3>1
  <2>13. ASSUME NEW k \in 1 .. p PROVE All[b + 2 + k] = global(k)
    <3>1. 2 + k \in 1 .. 2 + p /\ b + 2 + k = b + (2 + k)
      BY <2>10
    <3> QED
      BY <2>9, <2>11, <3>1
  <2> QED
    BY <1>4, <1>6, <2>10, <2>11, <2>12, <2>13 DEF p, b, same, debug, global
<1> QED
  BY <1>5, <1>6

(* The path tried is written with one slash between names, and means the   *)
(* next place.                                                             *)
LEMMA CandidateIsMeant ==
    ASSUME IInv, DirsInv, Trying, WrittenWithOneSlash
    PROVE  /\ Candidate \in Path /\ Tidy(Candidate)
           /\ Count \in Nat /\ Count + 1 \in 1 .. Len(All)
           /\ PlaceOf(Candidate) = All[Count + 1]
<1> DEFINE p == Len(prefixes)
           b == IF idlen = 0 THEN 0 ELSE p
<1>0. Types /\ Ready /\ Building /\ path \in Path /\ pc \in Tried
  <2>1. Types /\ Ready /\ Building /\ pc \in Tried
    BY DEF IInv, Trying, Building, Tried
  <2> QED
    BY <2>1 DEF DirsInv, Types
<1>1. /\ p \in Nat /\ b \in Nat /\ idlen \in Nat /\ Len(BuildidPlaces) = b
      /\ Len(All) = IF name = NoName THEN b ELSE b + 2 + p
      /\ idlen # 0 => \A k \in 1 .. p : All[k] = BuildidPlaces[k]
      /\ name # NoName =>
             /\ All[b + 1] = Place(TRUE, Directory \o Names(name), LinkIsDirectory)
             /\ All[b + 2] = Place(TRUE, Directory \o <<DotDebug>> \o Names(name),
                                   LinkIsDirectory)
             /\ \A k \in 1 .. p :
                   All[b + 2 + k] =
                       Place(prefixes[k] = << >> \/ Starts(prefixes[k]),
                             Names(prefixes[k]) \o Directory \o Names(name),
                             LinkIsDirectory)
  BY <1>0, PlacesSpec DEF Types
<1>2. /\ js_cwd \in Path /\ js_cwd # << >> /\ Starts(js_cwd) /\ Tidy(js_cwd)
      /\ Names(js_cwd) = Directory
  BY <1>0 DEF DirsInv, Types
<1>3. pc \in {"ids", "global"} => /\ prefix \in 1 .. p /\ prefixes[prefix] \in Path
                                  /\ Tidy(prefixes[prefix])
  <2>1. pc \in {"ids", "global"} => prefix \in 1 .. p
    BY <1>0 DEF Types, Ready
  <2>2. \A k \in 1 .. p : prefixes[k] \in Path /\ Tidy(prefixes[k])
    BY <1>0 DEF Types, WrittenWithOneSlash, Tidy
  <2> QED
    BY <2>1, <2>2
<1>4. pc # "ids" => name # NoName /\ name \in Path /\ Tidy(name)
  BY <1>0 DEF Types, Ready, WrittenWithOneSlash, Tidy, Tried
<1> HIDE DEF p, b
<1> DEFINE pre == prefixes[prefix]
<1>5. CASE pc = "ids"
  <2> DEFINE f == BuildidFilename(idlen)
  <2>1. f \in Path /\ Tidy(f) /\ f # << >> /\ ~ Starts(f) /\ ~ Ends(f)
    BY <1>1, BuildidIsMeant
  <2>2. pre \in Path /\ Tidy(pre) /\ prefix \in 1 .. p /\ idlen # 0
    BY <1>3, <1>5 DEF DirsInv
  <2>3. BuildidPlaces[prefix] = Place(Starts(pre), Names(pre) \o Names(f), FALSE)
    <3>1. DOMAIN prefixes = 1 .. p
      BY <1>0 DEF Types, p
    <3>2. Names(f) = IdNames
      BY <1>1, <2>2, BuildidNames
    <3> HIDE DEF f
    <3> QED
      BY <2>2, <3>1, <3>2 DEF BuildidPlaces
  <2>4. Candidate = Join(pre, f)
    BY <1>5 DEF Candidate
  <2> HIDE DEF f, pre
  <2>5. /\ Join(pre, f) \in Path /\ Tidy(Join(pre, f))
        /\ Names(Join(pre, f)) = Names(pre) \o Names(f)
        /\ Starts(Join(pre, f)) <=> IF pre = << >> THEN Starts(f) ELSE Starts(pre)
        /\ ~ Ends(Join(pre, f))
    BY <2>1, <2>2, JoinMeans
  <2>6. Starts(Join(pre, f)) = Starts(pre) /\ Ends(Join(pre, f)) = FALSE
    BY <2>1, <2>5 DEF Starts, Ends
  <2>7. PlaceOf(Candidate) = BuildidPlaces[prefix]
    BY <2>3, <2>4, <2>5, <2>6, Zenon DEF PlaceOf
  <2>8. Count = prefix - 1 /\ Count + 1 = prefix /\ Count \in Nat
        /\ Count + 1 \in 1 .. Len(All)
    <3>1. Count = prefix - 1
      BY <1>5 DEF Count
    <3> QED
      BY <1>1, <2>2, <3>1 DEF b
  <2> QED
    BY <1>1, <2>2, <2>4, <2>5, <2>7, <2>8
<1>6. ASSUME pc \in {"same", "debug", "global"}, NEW dir \in Path, Tidy(dir), dir # << >>
      PROVE  LET c == Join(dir, name)
             IN  /\ c \in Path /\ Tidy(c)
                 /\ PlaceOf(c) = Place(Starts(dir), Names(dir) \o Names(name),
                                       LinkIsDirectory)
  <2>1. name \in Path /\ Tidy(name)
    BY <1>4, <1>6
  <2> DEFINE c == Join(dir, name)
  <2>2. /\ c \in Path /\ Tidy(c) /\ Names(c) = Names(dir) \o Names(name)
        /\ Starts(c) <=> Starts(dir)
        /\ Ends(c) <=> name = << >> \/ Ends(name)
    BY <1>6, <2>1, JoinMeans
  <2> HIDE DEF c
  <2>3. Starts(c) = Starts(dir) /\ Ends(c) = LinkIsDirectory
    BY <2>2 DEF Starts, Ends, LinkIsDirectory
  <2>4. PlaceOf(c) = Place(Starts(dir), Names(dir) \o Names(name), LinkIsDirectory)
    BY <2>2, <2>3, Zenon DEF PlaceOf
  <2> QED
    BY <2>2, <2>4 DEF c
<1>7. Starts(js_cwd) = TRUE
  BY <1>2 DEF Starts
<1>8. CASE pc = "same"
  <2>1. Candidate = Join(js_cwd, name) /\ Count = b
    BY <1>1, <1>8 DEF Candidate, Count
  <2>2. Candidate \in Path /\ Tidy(Candidate)
        /\ PlaceOf(Candidate) = Place(Starts(js_cwd), Names(js_cwd) \o Names(name),
                                      LinkIsDirectory)
    BY <1>2, <1>6, <1>8, <2>1, Zenon
  <2>3. PlaceOf(Candidate) = All[b + 1]
    BY <1>1, <1>2, <1>4, <1>7, <1>8, <2>2
  <2> QED
    BY <1>1, <1>4, <1>8, <2>1, <2>2, <2>3
<1>9. CASE pc = "debug"
  <2> DEFINE one == <<DotDebug>>
             dir == Join(js_cwd, one)
  <2>1. one \in Path /\ Names(one) = one /\ Tidy(one)
    <3>1. one \in Path /\ Names(one) = one
      BY NamesOfOne, PathIsSeq
    <3> QED
      BY <3>1 DEF Tidy, OneSlashBetweenNames
  <2>2. Candidate = Join(dir, name) /\ Count = b + 1
    BY <1>1, <1>9 DEF Candidate, Count
  <2>3. All[b + 2] = Place(TRUE, Directory \o one \o Names(name), LinkIsDirectory)
    BY <1>1, <1>4, <1>9
  <2> HIDE DEF one
  <2>4. /\ dir \in Path /\ Tidy(dir) /\ dir # << >> /\ Names(dir) = Directory \o one
        /\ Starts(dir)
    <3>1. /\ dir \in Path /\ Names(dir) = Names(js_cwd) \o Names(one)
          /\ dir = << >> => js_cwd = << >>
          /\ Starts(dir) <=> IF js_cwd = << >> THEN Starts(one) ELSE Starts(js_cwd)
          /\ Tidy(js_cwd) /\ Tidy(one) => Tidy(dir)
      <4>1. js_cwd \in Path /\ one \in Path
        BY <1>2, <2>1
      <4> QED
        BY <4>1, JoinMeans
    <3> HIDE DEF dir
    <3> QED
      BY <1>2, <2>1, <3>1
  <2> HIDE DEF dir
  <2>5. Candidate \in Path /\ Tidy(Candidate)
        /\ PlaceOf(Candidate) = Place(Starts(dir), Names(dir) \o Names(name),
                                      LinkIsDirectory)
    BY <1>6, <1>9, <2>2, <2>4, Zenon
  <2>6. Starts(dir) = TRUE
    BY <2>4 DEF Starts
  <2>7. PlaceOf(Candidate) = All[b + 2]
    BY <2>3, <2>4, <2>5, <2>6
  <2> QED
    BY <1>1, <1>4, <1>9, <2>2, <2>5, <2>7
<1>10. CASE pc = "global"
  <2> DEFINE dir == Join(pre, js_cwd)
  <2>1. pre \in Path /\ Tidy(pre) /\ prefix \in 1 .. p
    BY <1>3, <1>10
  <2>2. Candidate = Join(dir, name) /\ Count = b + 1 + prefix
    BY <1>1, <1>10 DEF Candidate, Count
  <2>3. All[b + 2 + prefix] = Place(pre = << >> \/ Starts(pre),
                                    Names(pre) \o Directory \o Names(name),
                                    LinkIsDirectory)
    BY <1>1, <1>4, <1>10, <2>1
  <2> HIDE DEF pre
  <2>4. /\ dir \in Path /\ Tidy(dir) /\ dir # << >> /\ Names(dir) = Names(pre) \o Directory
        /\ Starts(dir) <=> pre = << >> \/ Starts(pre)
    <3>1. /\ dir \in Path /\ Names(dir) = Names(pre) \o Names(js_cwd)
          /\ dir = << >> => pre = << >>
          /\ Starts(dir) <=> IF pre = << >> THEN Starts(js_cwd) ELSE Starts(pre)
          /\ Tidy(pre) /\ Tidy(js_cwd) => Tidy(dir)
      <4>1. js_cwd \in Path /\ pre \in Path
        BY <1>2, <2>1
      <4> QED
        BY <4>1, JoinMeans
    <3> HIDE DEF dir
    <3>2. pre = << >> => dir # << >>
      BY <1>2, <3>1 DEF Starts
    <3> QED
      BY <1>2, <2>1, <3>1, <3>2
  <2> HIDE DEF dir
  <2>5. Candidate \in Path /\ Tidy(Candidate)
        /\ PlaceOf(Candidate) = Place(Starts(dir), Names(dir) \o Names(name),
                                      LinkIsDirectory)
    BY <1>6, <1>10, <2>2, <2>4, Zenon
  <2>6. Starts(dir) = (pre = << >> \/ Starts(pre))
    BY <2>4 DEF Starts
  <2>7. PlaceOf(Candidate) = All[b + 2 + prefix]
    BY <2>3, <2>4, <2>5, <2>6
  <2>8. Count + 1 = b + 2 + prefix /\ Count \in Nat /\ Count + 1 \in 1 .. Len(All)
    BY <1>1, <1>4, <1>10, <2>1, <2>2
  <2> QED
    BY <2>5, <2>7, <2>8
<1> QED
  BY <1>0, <1>5, <1>8, <1>9, <1>10 DEF Tried

(* While the object and the answers are as they are, so are the places.    *)
LEMMA SamePlaces ==
    ASSUME UNCHANGED <<given, answers>>
    PROVE  /\ path' = path /\ prefixes' = prefixes /\ name' = name /\ idlen' = idlen
           /\ Directory' = Directory /\ Object' = Object
           /\ BuildidPlaces' = BuildidPlaces /\ All' = All /\ Places' = Places
           /\ WrittenWithOneSlash' <=> WrittenWithOneSlash
<1>1. path' = path /\ prefixes' = prefixes /\ name' = name /\ idlen' = idlen
  BY DEF given, answers
<1>2. /\ BuildidPlaces' = BuildidPlaces /\ LinkPlaces' = LinkPlaces
      /\ ObjectNames' = ObjectNames /\ Directory' = Directory
  BY <1>1 DEF BuildidPlaces, IdNames, LinkPlaces, ObjectNames, Directory, LinkIsDirectory
<1>3. All' = All /\ Object' = Object
  BY <1>2 DEF All, Object
<1>4. Places' = Places
  BY <1>3 DEF Places, All
<1>5. WrittenWithOneSlash' <=> WrittenWithOneSlash
  BY <1>1 DEF WrittenWithOneSlash
<1> QED
  BY <1>1, <1>2, <1>3, <1>4, <1>5

(* The next path tried is the next place.                                  *)
LEMMA AdvanceCounts ==
    ASSUME IInv, DirsInv, Trying, Advance, UNCHANGED <<given, answers>>
    PROVE  /\ Count' = Count + 1 /\ All' = All /\ Object' = Object
           /\ DirsInv' /\ Building'
           /\ WrittenWithOneSlash' <=> WrittenWithOneSlash
<1>0. Types /\ Ready /\ Building /\ path \in Path /\ pc \in Tried
  <2>1. Types /\ Ready /\ Building /\ pc \in Tried
    BY DEF IInv, Trying, Building, Tried
  <2> QED
    BY <2>1 DEF DirsInv, Types
<1>1. Ready' /\ pc' \in Tried \cup {"area"} /\ js_cwd' = js_cwd /\ original' = original
  BY <1>0, AdvanceIsReady
<1>2. /\ path' = path /\ prefixes' = prefixes /\ name' = name /\ idlen' = idlen
      /\ Directory' = Directory
  BY SamePlaces
<1>3. BuildidPlaces' = BuildidPlaces
  BY SamePlaces
<1>4. All' = All /\ Object' = Object
  BY SamePlaces
<1>5. WrittenWithOneSlash' <=> WrittenWithOneSlash
  BY SamePlaces
<1>6. pc' = "ids" => idlen # 0
  BY <1>0 DEF Advance, MorePrefixes, AfterIds, DirsInv, Trying
<1>7. DirsInv' /\ Building'
  <2>1. Building'
    BY <1>1 DEF Building
  <2>2. PlaceOf(original)' = PlaceOf(original) /\ Names(js_cwd)' = Names(js_cwd)
    BY <1>1
  <2> QED
    BY <1>0, <1>1, <1>2, <1>3, <1>4, <1>5, <1>6, <2>1, <2>2 DEF DirsInv
<1> DEFINE p == Len(prefixes)
           b == IF idlen = 0 THEN 0 ELSE p
<1>8. /\ p \in Nat /\ b \in Nat /\ idlen \in Nat /\ Len(BuildidPlaces) = b
      /\ Len(All) = IF name = NoName THEN b ELSE b + 2 + p
  BY <1>0, PlacesSpec DEF Types
<1>9. /\ pc = "ids" => idlen # 0
      /\ pc \in {"ids", "global"} => prefix \in 1 .. p
      /\ pc # "ids" => name # NoName
      /\ prefixes = << >> <=> p = 0
  BY <1>0 DEF DirsInv, Ready, Types, Tried
<1>10. Len(BuildidPlaces)' = b /\ Len(All)' = Len(All)
  BY <1>3, <1>4, <1>8
<1> HIDE DEF p
<1>11. CASE MorePrefixes
  <2>1. pc \in {"ids", "global"} /\ pc' = pc /\ prefix' = prefix + 1 /\ prefix \in 1 .. p
    BY <1>9, <1>11 DEF Advance, MorePrefixes
  <2> QED
    BY <1>1, <1>4, <1>5, <1>7, <1>8, <1>10, <2>1 DEF Count
<1>12. CASE pc = "ids" /\ ~ MorePrefixes
  <2>1. prefix = p /\ pc' = AfterIds /\ b = p
    BY <1>8, <1>9, <1>12 DEF Advance, MorePrefixes, p
  <2>2. Count = prefix - 1
    BY <1>12 DEF Count
  <2>3. Count' = b
    BY <1>8, <1>10, <2>1 DEF Count, AfterIds
  <2> QED
    BY <1>4, <1>5, <1>7, <1>8, <1>9, <1>12, <2>1, <2>2, <2>3
<1>13. CASE pc = "same"
  <2>1. pc' = "debug"
    BY <1>13 DEF Advance, MorePrefixes
  <2> QED
    BY <1>4, <1>5, <1>7, <1>8, <1>10, <1>13, <2>1 DEF Count
<1>14. CASE pc = "debug"
  <2>1. prefix' = 1 /\ pc' = IF prefixes # << >> THEN "global" ELSE "area"
    BY <1>14 DEF Advance, MorePrefixes
  <2>2. Count = b + 1
    BY <1>8, <1>14 DEF Count
  <2>3. Count' = b + 2
    BY <1>8, <1>9, <1>10, <1>14, <2>1 DEF Count
  <2> QED
    BY <1>4, <1>5, <1>7, <1>8, <2>2, <2>3
<1>15. CASE pc = "global" /\ ~ MorePrefixes
  <2>1. prefix = p /\ pc' = "area" /\ name # NoName
    BY <1>8, <1>9, <1>15 DEF Advance, MorePrefixes, p
  <2>2. Count = b + 1 + p /\ Count' = b + 2 + p
    BY <1>8, <1>10, <1>15, <2>1 DEF Count
  <2> QED
    BY <1>4, <1>5, <1>7, <1>8, <2>2
<1> QED
  BY <1>0, <1>11, <1>12, <1>13, <1>14, <1>15 DEF MorePrefixes, Tried


(* One more place tried: it is left out when it is that of the object.     *)
LEMMA PrefixesOfPlaces ==
    ASSUME Types, path \in Path
    PROVE  /\ Without(SubSeq(All, 1, 0), Object) = << >>
           /\ Without(SubSeq(All, 1, Len(All)), Object) = Places
           /\ \A n \in 0 .. Len(All) :
                 /\ Without(SubSeq(All, 1, n), Object) \in Seq(APlace)
                 /\ n < Len(All) =>
                        Without(SubSeq(All, 1, n + 1), Object) =
                            IF All[n + 1] = Object
                            THEN Without(SubSeq(All, 1, n), Object)
                            ELSE Append(Without(SubSeq(All, 1, n), Object), All[n + 1])
<1>1. All \in Seq(APlace) /\ Len(All) \in Nat
  BY PlacesSpec
<1>2. Places = Without(All, Object)
  BY DEF Places, All
<1> DEFINE s == All
           e == Object
<1> HIDE DEF s, e
<1>3. s \in Seq(APlace) /\ Len(s) \in Nat
  BY <1>1 DEF s
<1>4. SubSeq(s, 1, 0) = << >> /\ SubSeq(s, 1, Len(s)) = s
  BY <1>3, WholePrefix
<1>5. Without(<< >>, e) = << >>
  BY WithoutOfEmpty
<1>6. ASSUME NEW n \in 0 .. Len(s)
      PROVE  SubSeq(s, 1, n) \in Seq(APlace) /\ Without(SubSeq(s, 1, n), e) \in Seq(APlace)
  <2>1. SubSeq(s, 1, n) \in Seq(APlace)
    BY <1>3
  <2>2. Without(SubSeq(s, 1, n), e) \in Seq(APlace \ {e})
    BY <2>1, WithoutIsSeq
  <2> DEFINE w == Without(SubSeq(s, 1, n), e)
  <2> HIDE DEF w
  <2>3. w \in Seq(APlace \ {e}) => w \in Seq(APlace)
    OBVIOUS
  <2> QED
    BY <2>1, <2>2, <2>3 DEF w
<1>7. ASSUME NEW n \in 0 .. Len(s), n < Len(s)
      PROVE  Without(SubSeq(s, 1, n + 1), e) =
                 IF s[n + 1] = e THEN Without(SubSeq(s, 1, n), e)
                 ELSE Append(Without(SubSeq(s, 1, n), e), s[n + 1])
  <2>1. n + 1 \in 1 .. Len(s) /\ (n + 1) - 1 = n
    BY <1>3, <1>7
  <2>2. /\ SubSeq(s, 1, n) \in Seq(APlace) /\ s[n + 1] \in APlace
        /\ SubSeq(s, 1, n + 1) = Append(SubSeq(s, 1, n), s[n + 1])
    <3>1. /\ SubSeq(s, 1, (n + 1) - 1) \in Seq(APlace) /\ s[n + 1] \in APlace
          /\ SubSeq(s, 1, n + 1) = Append(SubSeq(s, 1, (n + 1) - 1), s[n + 1])
      BY <1>3, <2>1, LongerPrefix
    <3> QED
      BY <2>1, <3>1
  <2>3. \A u \in Seq(APlace), x \in APlace :
            Without(Append(u, x), e) =
                IF x = e THEN Without(u, e) ELSE Append(Without(u, e), x)
    BY WithoutOfAppend
  <2> QED
    BY <2>2, <2>3, Zenon
<1>8. \A n \in 0 .. Len(s) :
         /\ Without(SubSeq(s, 1, n), e) \in Seq(APlace)
         /\ n < Len(s) =>
                Without(SubSeq(s, 1, n + 1), e) =
                    IF s[n + 1] = e THEN Without(SubSeq(s, 1, n), e)
                    ELSE Append(Without(SubSeq(s, 1, n), e), s[n + 1])
  BY <1>6, <1>7
<1> QED
  BY <1>2, <1>4, <1>5, <1>8, Zenon DEF s, e

(* What a list means with one more text.                                   *)
LEMMA MeaningsOfAppend ==
    ASSUME NEW c \in Seq(Path), NEW q \in Path
    PROVE  /\ Meanings(Append(c, q)) = Append(Meanings(c), PlaceOf(q))
           /\ Meanings(<<q>>) = Append(<< >>, PlaceOf(q))
           /\ Len(Meanings(c)) = Len(c)
<1> DEFINE n == Len(c)
           place(x) == PlaceOf(x)
           m == [k \in DOMAIN c |-> place(c[k])]
<1>1. n \in Nat /\ DOMAIN c = 1 .. n
  OBVIOUS
<1> HIDE DEF place
<1>2. m = [k \in 1 .. n |-> place(c[k])] /\ Len(m) = n
  BY <1>1
<1>3. /\ DOMAIN Append(c, q) = 1 .. n + 1
      /\ \A k \in 1 .. n + 1 : Append(c, q)[k] = IF k = n + 1 THEN q ELSE c[k]
  OBVIOUS
<1>4. [k \in DOMAIN Append(c, q) |-> place(Append(c, q)[k])]
      = [k \in 1 .. n + 1 |-> IF k = n + 1 THEN place(q) ELSE place(c[k])]
  BY <1>1, <1>3
<1>5. Append(m, place(q))
      = [k \in 1 .. n + 1 |-> IF k = n + 1 THEN place(q) ELSE place(c[k])]
  BY <1>1, <1>2
<1>6. [k \in DOMAIN <<q>> |-> place(<<q>>[k])] = Append(<< >>, place(q))
  OBVIOUS
<1> QED
  BY <1>2, <1>4, <1>5, <1>6 DEF Meanings, place

(* No place has been tried when the directory of the object is known.      *)
LEMMA ConstructIsMeant ==
    ASSUME IInv, DirsInv, ListInv, ConstructPaths
    PROVE  DirsInv' /\ ListInv' /\ Building' /\ pc' # "print"
<1>0. /\ Types /\ Ready /\ pc = "paths" /\ path # NoPath
      /\ UNCHANGED <<given, answers, prefix, list>>
  BY DEF IInv, ConstructPaths
<1>1. /\ path \in Path /\ path # << >> /\ path[Len(path)] # Slash /\ path \in Pathnames
      /\ prefixes \in Seq(Path) /\ idlen \in Nat /\ prefix = 1
  BY <1>0, PathsAssumption DEF DirsInv, Types, Ready, BeforePaths
<1>2. /\ path' = path /\ prefixes' = prefixes /\ name' = name /\ idlen' = idlen
      /\ Directory' = Directory /\ Object' = Object
      /\ BuildidPlaces' = BuildidPlaces /\ All' = All /\ Places' = Places
      /\ WrittenWithOneSlash' <=> WrittenWithOneSlash
  BY <1>0, SamePlaces
<1>3. js_cwd' = Here /\ original' = Join(Here, BasePath(path))
  BY DEF ConstructPaths, Here
<1>4. pc' = IF idlen # 0 /\ prefixes # << >> THEN "ids"
            ELSE IF name = NoName THEN "area" ELSE "same"
  BY DEF ConstructPaths, AfterIds
<1>5. Building' /\ pc' # "print"
  BY <1>4 DEF Building, Tried
<1>6. ASSUME WrittenWithOneSlash
      PROVE  /\ js_cwd' # << >> /\ Starts(js_cwd') /\ Tidy(js_cwd')
             /\ Names(js_cwd') = Directory
             /\ Tidy(original') /\ PlaceOf(original') = Object
  <2>1. Tidy(path) /\ Tidy(Cwd)
    BY <1>6 DEF WrittenWithOneSlash, Tidy
  <2> QED
    BY <1>1, <1>3, <2>1, ObjectIsMeant
<1>7. DirsInv'
  <2>1. pc' = "ids" => idlen' # 0
    BY <1>2, <1>4
  <2> QED
    BY <1>0, <1>1, <1>2, <1>6, <2>1 DEF DirsInv
<1>8. last' = 0 /\ chain' = EmptyList
  <2>1. last = 0 /\ chain = EmptyList
    BY <1>0 DEF ListInv, Building, Tried
  <2> QED
    BY <1>0, <2>1 DEF list
<1>9. Len(All) \in Nat /\ Without(SubSeq(All, 1, 0), Object) = << >>
  BY <1>0, <1>1, PlacesSpec, PrefixesOfPlaces
<1>10. Count' = 0
  <2>1. /\ Len(BuildidPlaces) = IF idlen = 0 THEN 0 ELSE Len(prefixes)
        /\ name = NoName => Len(All) = Len(BuildidPlaces)
    BY <1>0, <1>1, PlacesSpec
  <2>2. CASE idlen # 0 /\ prefixes # << >>
    BY <1>0, <1>1, <1>4, <2>2 DEF Count
  <2>3. CASE ~ (idlen # 0 /\ prefixes # << >>)
    <3>1. Len(BuildidPlaces)' = 0 /\ (name = NoName => Len(All)' = 0)
      BY <1>1, <1>2, <2>1, <2>3
    <3> QED
      BY <1>4, <2>3, <3>1 DEF Count
  <2> QED
    BY <2>2, <2>3
<1>11. ListInv'
  <2>1. Lists(chain, last, Count)'
    BY <1>2, <1>8, <1>9, <1>10 DEF Lists
  <2> QED
    BY <1>5, <1>8, <2>1 DEF ListInv
<1> QED
  BY <1>5, <1>7, <1>11

(* The path of the object is the one that means it.                        *)
LEMMA SkipIsMeant ==
    ASSUME IInv, DirsInv, ListInv, SkipOriginal
    PROVE  DirsInv' /\ ListInv' /\ Building' /\ pc' # "print"
<1>0. /\ Types /\ Trying /\ Building /\ Candidate = original /\ Advance
      /\ path \in Path /\ UNCHANGED <<given, answers, list>>
  <2>1. Building /\ Trying /\ Types
    BY DEF IInv, SkipOriginal, Trying, Building, Tried
  <2> QED
    BY <2>1 DEF SkipOriginal, DirsInv, Types
<1>1. /\ Count' = Count + 1 /\ All' = All /\ Object' = Object
      /\ DirsInv' /\ Building'
      /\ WrittenWithOneSlash' <=> WrittenWithOneSlash
  BY <1>0, AdvanceCounts
<1>2. last' = last /\ chain' = chain /\ (last = 0 => chain = EmptyList)
  BY <1>0 DEF list, ListInv
<1>3. ASSUME WrittenWithOneSlash PROVE Lists(chain, last, Count)'
  <2>1. Lists(chain, last, Count)
    BY <1>0, <1>3 DEF ListInv
  <2>2. /\ Count \in Nat /\ Count + 1 \in 1 .. Len(All)
        /\ PlaceOf(Candidate) = All[Count + 1]
    BY <1>0, <1>3, CandidateIsMeant
  <2>3. All[Count + 1] = Object
    BY <1>0, <1>3, <2>2 DEF DirsInv
  <2>4. Len(All) \in Nat
    BY <1>0, PlacesSpec
  <2> DEFINE n == Count
  <2> HIDE DEF n
  <2>5. Without(SubSeq(All, 1, n + 1), Object) = Without(SubSeq(All, 1, n), Object)
    <3>1. n \in 0 .. Len(All) /\ n < Len(All) /\ All[n + 1] = Object
      BY <2>2, <2>3, <2>4 DEF n
    <3> QED
      BY <1>0, <3>1, PrefixesOfPlaces
  <2>6. n + 1 \in 0 .. Len(All) /\ Lists(chain, last, n) /\ Count' = n + 1
    BY <1>1, <2>1, <2>2, <2>4 DEF n
  <2> QED
    BY <1>1, <1>2, <2>5, <2>6 DEF Lists
<1>4. ListInv'
  BY <1>1, <1>2, <1>3 DEF ListInv
<1>5. pc' # "print"
  BY <1>1 DEF Building, Tried
<1> QED
  BY <1>1, <1>4, <1>5

(* Any other path tried means no object, and is added as it is.            *)
LEMMA AddIsMeant ==
    ASSUME IInv, DirsInv, ListInv, AddPath
    PROVE  DirsInv' /\ ListInv' /\ Building' /\ pc' # "print"
<1>0. /\ Types /\ List /\ Trying /\ Building /\ Candidate # original /\ Advance
      /\ path \in Path /\ original \in Path /\ UNCHANGED <<given, answers>>
  <2>1. Building /\ Trying /\ Types /\ List
    BY DEF IInv, AddPath, Trying, Building, Tried
  <2> QED
    BY <2>1 DEF AddPath, DirsInv, Types
<1>1. /\ Count' = Count + 1 /\ All' = All /\ Object' = Object
      /\ DirsInv' /\ Building'
      /\ WrittenWithOneSlash' <=> WrittenWithOneSlash
  BY <1>0, AdvanceCounts
<1>2. Candidate \in Path /\ chain \in Seq(Path)
  BY <1>0, CandidateIsPath DEF IInv, List
<1>3. last = 0 => chain[1] = << >>
  BY DEF ListInv, EmptyList
<1> DEFINE q == Candidate
<1>4. chain' = IF last = 0 THEN <<q>> ELSE Append(chain, q)
  <2>1. << >> \o q = q
    BY <1>2 DEF Path
  <2> QED
    BY <1>3, <2>1 DEF AddPath
<1> HIDE DEF q
<1>5. q \in Path
  BY <1>2 DEF q
<1>6. last' # 0
  <2>1. Len(chain') \in Nat \ {0}
    BY <1>2, <1>4, <1>5
  <2> QED
    BY <2>1 DEF AddPath
<1>7. ASSUME WrittenWithOneSlash PROVE Lists(chain, last, Count)'
  <2>1. Lists(chain, last, Count)
    BY <1>0, <1>7 DEF ListInv
  <2>2. /\ Count \in Nat /\ Count + 1 \in 1 .. Len(All) /\ Tidy(q)
        /\ PlaceOf(q) = All[Count + 1]
    BY <1>0, <1>7, CandidateIsMeant DEF q
  <2>3. All[Count + 1] # Object
    <3>1. Tidy(original) /\ PlaceOf(original) = Object /\ q # original
      BY <1>0, <1>7 DEF DirsInv, q
    <3> QED
      BY <1>0, <1>5, <2>2, <3>1, PathsOfAPlace
  <2>4. Len(All) \in Nat
    BY <1>0, PlacesSpec
  <2> DEFINE n == Count
             before == Without(SubSeq(All, 1, n), Object)
             after == Without(SubSeq(All, 1, n + 1), Object)
  <2> HIDE DEF n
  <2>5. after = Append(before, PlaceOf(q))
    <3>1. n \in 0 .. Len(All) /\ n < Len(All) /\ All[n + 1] # Object
          /\ All[n + 1] = PlaceOf(q)
      BY <2>2, <2>3, <2>4 DEF n
    <3>2. after = Append(before, All[n + 1])
      BY <1>0, <3>1, PrefixesOfPlaces
    <3> QED
      BY <3>1, <3>2, Zenon
  <2>6. n + 1 \in 0 .. Len(All) /\ Lists(chain, last, n) /\ Count' = n + 1
    BY <1>1, <2>1, <2>2, <2>4 DEF n
  <2> HIDE DEF before, after
  <2>7. IF last = 0 THEN before = << >>
        ELSE Meanings(chain) = before /\ \A k \in DOMAIN chain : Tidy(chain[k])
    BY <2>6 DEF Lists, before
  <2>8. CASE last = 0
    <3>1. Meanings(<<q>>) = Append(<< >>, PlaceOf(q))
      BY <1>2, <1>5, MeaningsOfAppend
    <3>2. Meanings(chain') = after
      BY <1>4, <2>5, <2>7, <2>8, <3>1, Zenon
    <3>3. \A k \in DOMAIN chain' : Tidy(chain'[k])
      BY <1>4, <2>2, <2>8
    <3> QED
      BY <1>1, <1>6, <2>6, <3>2, <3>3 DEF Lists, after, Meanings
  <2>9. CASE last # 0
    <3>1. Meanings(Append(chain, q)) = Append(Meanings(chain), PlaceOf(q))
      BY <1>2, <1>5, MeaningsOfAppend
    <3>2. Meanings(chain') = after
      BY <1>4, <2>5, <2>7, <2>9, <3>1, Zenon
    <3>3. \A k \in DOMAIN chain' : Tidy(chain'[k])
      BY <1>2, <1>4, <1>5, <2>2, <2>7, <2>9
    <3> QED
      BY <1>1, <1>6, <2>6, <3>2, <3>3 DEF Lists, after, Meanings
  <2> QED
    BY <2>8, <2>9
<1>8. ListInv'
  BY <1>1, <1>6, <1>7 DEF ListInv
<1>9. pc' # "print"
  BY <1>1 DEF Building, Tried
<1> QED
  BY <1>1, <1>8, <1>9

(* All of the places have been tried when the block is made.               *)
LEMMA AreaIsMeant ==
    ASSUME IInv, DirsInv, ListInv, MakeArea
    PROVE  DirsInv' /\ ListInv' /\ PathsAreTheCandidates'
<1>0. /\ Types /\ List /\ pc = "area" /\ Building /\ path \in Path
      /\ path \in Pathnames /\ UNCHANGED <<given, answers>>
  <2>1. Building /\ Types /\ List /\ pc = "area"
    BY DEF IInv, MakeArea, Building
  <2> QED
    BY <2>1 DEF MakeArea, DirsInv, Types
<1>1. /\ path' = path /\ Places' = Places
      /\ WrittenWithOneSlash' <=> WrittenWithOneSlash
  BY <1>0, SamePlaces
<1>2. pc' = "print" /\ area'.text = chain /\ last' = 0 /\ chain' = EmptyList
  BY DEF MakeArea, DestroyList
<1>3. DirsInv' /\ ListInv'
  BY <1>0, <1>1, <1>2 DEF DirsInv, ListInv, Building, Tried
<1>4. ASSUME WrittenWithOneSlash
      PROVE  IF Places = << >> THEN chain = EmptyList
             ELSE Meanings(chain) = Places /\ \A k \in DOMAIN chain : Tidy(chain[k])
  <2>1. Lists(chain, last, Len(All))
    BY <1>0, <1>4 DEF ListInv, Count
  <2>2. IF last = 0 THEN Places = << >>
        ELSE Meanings(chain) = Places /\ \A k \in DOMAIN chain : Tidy(chain[k])
    BY <1>0, <2>1, PrefixesOfPlaces DEF Lists
  <2>3. last = 0 => chain = EmptyList
    BY DEF ListInv
  <2>4. chain \in Seq(Path) /\ Len(chain) >= 1
    BY <1>0 DEF List
  <2>5. Meanings(chain) # << >>
    <3>1. Len(Meanings(chain)) >= 1
      <4>1. Len(Meanings(chain)) = Len(chain)
        <5> DEFINE n == Len(chain)
        <5>1. DOMAIN chain = 1 .. n /\ n \in Nat
          BY <2>4
        <5> QED
          BY <5>1 DEF Meanings
      <4> QED
        BY <2>4, <4>1
    <3> QED
      BY <3>1
  <2> QED
    BY <2>2, <2>3, <2>5
<1>5. PathsAreTheCandidates'
  BY <1>1, <1>2, <1>4 DEF PathsAreTheCandidates, Meanings, Tidy
<1> QED
  BY <1>3, <1>5

(* Every step keeps what is said of the list, and the block made of it     *)
(* holds the places.                                                       *)
LEMMA NextPathsInv == PathsInv /\ [Next]_vars => PathsInv'
<1> SUFFICES ASSUME PathsInv, [Next]_vars PROVE PathsInv'
  OBVIOUS
<1>0. IInv /\ DirsInv /\ ListInv /\ PathsAreTheCandidates /\ IInv'
  BY NextIInv DEF PathsInv
<1>1. SUFFICES DirsInv' /\ ListInv' /\ PathsAreTheCandidates'
  BY <1>0 DEF PathsInv
<1>2. ASSUME pc \in BeforePaths, pc' \notin Tried \cup {"area", "print"},
             UNCHANGED <<given, list>>
      PROVE  DirsInv' /\ ListInv' /\ PathsAreTheCandidates'
  BY <1>0, <1>2 DEF DirsInv, ListInv, PathsAreTheCandidates, Building, BeforePaths,
     Tried, given, list
<1>3. CASE LookAtSection \/ NamesInvalid \/ SearchEnds
  <2>1. pc \in BeforePaths /\ pc' \notin Tried \cup {"area", "print"}
    BY <1>3 DEF LookAtSection, NamesInvalid, SearchEnds, BeforePaths, Tried
  <2>2. UNCHANGED <<given, list>>
    BY <1>3 DEF LookAtSection, NamesInvalid, SearchEnds
  <2> QED
    BY <1>2, <2>1, <2>2
<1>4. CASE NoLink \/ ExtractDebuglink \/ ExtractDebuglinkFails
  <2>1. pc \in BeforePaths /\ pc' \notin Tried \cup {"area", "print"}
    BY <1>4 DEF NoLink, ExtractDebuglink, ExtractDebuglinkFails, BeforePaths, Tried
  <2>2. UNCHANGED <<given, list>>
    BY <1>4 DEF NoLink, ExtractDebuglink, ExtractDebuglinkFails
  <2> QED
    BY <1>2, <2>1, <2>2
<1>5. CASE NoBuildid \/ ExtractBuildid \/ ExtractBuildidFails \/ GetcwdFails
  <2>1. pc \in BeforePaths /\ pc' \notin Tried \cup {"area", "print"}
    BY <1>5 DEF NoBuildid, ExtractBuildid, ExtractBuildidFails, GetcwdFails,
       BeforePaths, Tried
  <2>2. UNCHANGED <<given, list>>
    BY <1>5 DEF NoBuildid, ExtractBuildid, ExtractBuildidFails, GetcwdFails
  <2> QED
    BY <1>2, <2>1, <2>2
<1>6. CASE NoPathname
  <2>1. /\ pc = "paths" /\ pc' = "print" /\ path = NoPath
        /\ UNCHANGED <<given, list>>
    BY <1>6 DEF NoPathname
  <2> QED
    BY <1>0, <2>1 DEF DirsInv, ListInv, PathsAreTheCandidates, Building, Tried, given, list
<1>7. CASE ConstructPaths
  BY <1>0, <1>7, ConstructIsMeant DEF PathsAreTheCandidates
<1>8. CASE SkipOriginal
  BY <1>0, <1>8, SkipIsMeant DEF PathsAreTheCandidates
<1>9. CASE AddPath
  BY <1>0, <1>9, AddIsMeant DEF PathsAreTheCandidates
<1>10. CASE AddPathFails \/ MakeAreaFails
  <2>1. /\ pc' = "failed" /\ last' = 0 /\ chain' = EmptyList
        /\ UNCHANGED given
    BY <1>10 DEF AddPathFails, MakeAreaFails, DestroyList
  <2> QED
    BY <1>0, <2>1 DEF DirsInv, ListInv, PathsAreTheCandidates, Building, Tried, given
<1>11. CASE MakeArea
  BY <1>0, <1>11, AreaIsMeant
<1>12. CASE PrintPaths
  <2>1. pc = "print" /\ pc' = "done" /\ UNCHANGED <<given, list>>
    BY <1>12 DEF PrintPaths
  <2> QED
    BY <1>0, <2>1 DEF DirsInv, ListInv, PathsAreTheCandidates, Building, Tried, given, list
<1>13. CASE UNCHANGED vars
  <2>1. /\ UNCHANGED <<given, answers, list>>
        /\ pc' = pc /\ js_cwd' = js_cwd /\ original' = original /\ prefix' = prefix
        /\ area' = area
    BY <1>13 DEF vars, dirs
  <2>2. /\ path' = path /\ prefixes' = prefixes /\ name' = name /\ idlen' = idlen
        /\ Directory' = Directory /\ Object' = Object
        /\ BuildidPlaces' = BuildidPlaces /\ All' = All /\ Places' = Places
        /\ WrittenWithOneSlash' <=> WrittenWithOneSlash
    BY <2>1, SamePlaces
  <2>3. last' = last /\ chain' = chain /\ Count' = Count
    BY <2>1, <2>2 DEF list, Count
  <2>4. PlaceOf(original)' = PlaceOf(original) /\ Names(js_cwd)' = Names(js_cwd)
    BY <2>1
  <2>5. DirsInv'
    BY <1>0, <2>1, <2>2, <2>4 DEF DirsInv, Building
  <2>6. Lists(chain, last, Count)' <=> Lists(chain, last, Count)
    BY <2>2, <2>3 DEF Lists, Meanings
  <2>7. ListInv'
    BY <1>0, <2>1, <2>2, <2>3, <2>6 DEF ListInv, Building
  <2>8. PathsAreTheCandidates'
    BY <1>0, <2>1, <2>2 DEF PathsAreTheCandidates
  <2> QED
    BY <2>5, <2>7, <2>8
<1> QED
  BY <1>3, <1>4, <1>5, <1>6, <1>7, <1>8, <1>9, <1>10, <1>11, <1>12, <1>13 DEF Next

(* The paths printed are the places the program's tests list (not those of *)
(* gdb, see BuildidPlacesAreGdbs), each of them, in that order and written *)
(* with one slash between names, the object itself left out: whatever the  *)
(* names in the link, the build-id, the path of the object and the         *)
(* prefixes, and however many there are.                                   *)
THEOREM PathsCorrect == Spec => []PathsAreTheCandidates
<1>1. Init => PathsInv
  <2> SUFFICES ASSUME Init PROVE PathsInv
    OBVIOUS
  <2>1. IInv
    BY InitIInv
  <2> QED
    BY <2>1 DEF Init, PathsInv, DirsInv, ListInv, PathsAreTheCandidates, Building, Tried
<1>2. PathsInv => PathsAreTheCandidates
  BY DEF PathsInv
<1> QED
  BY <1>1, <1>2, NextPathsInv, PTL DEF Spec
=============================================================================
