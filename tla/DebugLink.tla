------------------------------ MODULE DebugLink ------------------------------
(***************************************************************************)
(* Where the debug information of a stripped Elf object may be             *)
(* (dwarf_debuglink.c): the sections .gnu_debuglink and .note.gnu.build-id *)
(* are found and read, the paths to look at are built from them, and       *)
(* elf_print_gnu_debuglink prints the answer and frees it.                 *)
(*                                                                         *)
(* A path is a sequence of names and slashes.  Of a section the model has  *)
(* its name and its size; of a debuglink the text and the offset of its    *)
(* first NUL; of a build-id the two sizes in its head and the offset, from *)
(* the owner's name on, of the first NUL.  malloc, read and getcwd may     *)
(* fail.                                                                   *)
(***************************************************************************)
EXTENDS Integers, Sequences

CONSTANTS
    Name,          \* names of directories and files
    Slash,         \* joinchar
    DotDebug,      \* the name ".debug"
    IdDir,         \* the first byte of a build-id in hexadecimal,
    IdFile,        \* and its other bytes followed by ".debug"
    Cwd,           \* what getcwd answers
    Pathnames,     \* what f_path may be, NoPath when there is none
    PrefixLists,   \* what f_gnu_global_paths may be
    Tables,        \* the sections of an object after section 0
    BuildidSize,   \* sizeof(struct buildid_s)
    PtrSize        \* sizeof(void *)

Path == Seq(Name \cup {Slash, DotDebug, IdDir, IdFile})
NoPath == <<"null pointer">>
NoName == <<"null pointer">>

(* The name is "link", "id", "other", "none" (a null pointer) or           *)
(* "invalid" (no section strings were found).                              *)
Section == [name : {"link", "id", "other", "none", "invalid"}, size : Nat,
            text : Path, nul : Nat, namesize : Nat, descrsize : Nat]

ASSUME TablesAssumption == Tables \subseteq Seq(Section)
(* The object has been opened and read: its path ends in a name.  getcwd   *)
(* answers a path from the root.                                           *)
ASSUME PathsAssumption ==
    /\ Pathnames \subseteq Path \cup {NoPath}
    /\ \A p \in Pathnames : p # << >> /\ p[Len(p)] # Slash
    /\ PrefixLists \subseteq Seq(Path)
    /\ Cwd \in Path /\ Cwd # << >> /\ Head(Cwd) = Slash
ASSUME SlashAssumption ==
    /\ Slash \notin Name
    /\ {DotDebug, IdDir, IdFile, "null pointer"} \cap (Name \cup {Slash}) = {}
ASSUME SizesAssumption == BuildidSize \in Nat /\ PtrSize \in Nat \ {0}

VARIABLES
    sections, path, prefixes,   \* the object, given
    pc,
    i,                  \* the section looked at
    linkshdr, idshdr,   \* the sections found, 0 for none
    name,               \* the text of the debuglink, or NoName
    crc,                \* the offset of its crc
    owner,              \* the length of the owner's name, without its NUL
    id, idlen,          \* offset and length of the build-id
    js_cwd, original,   \* the directory looked in, the path of the object
    prefix,             \* the global prefix looked at
    chain,              \* the texts of the list of paths
    last,               \* the number of entries in use: 0, or all of them
    nodes,              \* the nodes of the list on the heap
    area                \* the block answered, or NoArea

given == <<sections, path, prefixes>>
found == <<i, linkshdr, idshdr>>
answers == <<name, crc, owner, id, idlen>>
dirs == <<js_cwd, original, prefix>>
list == <<chain, last, nodes>>
vars == <<given, pc, found, answers, dirs, list, area>>

NoArea == [size |-> 0, at |-> << >>, text |-> << >>]
EmptyList == << << >> >>

-----------------------------------------------------------------------------
(* Paths.                                                                  *)
Starts(p) == p # << >> /\ Head(p) = Slash
Ends(p) == p # << >> /\ p[Len(p)] = Slash

(* _dwarf_pathjoinl: one slash between the two, whoever brings it; but an  *)
(* empty target takes the input as it is.                                  *)
JoinKeepsBoth(target, input) ==
    IF target = << >> \/ Ends(target) \/ Starts(input) THEN target \o input
    ELSE target \o <<Slash>> \o input

Join(target, input) ==
    IF target = << >> THEN input
    ELSE IF Ends(target)
         THEN target \o (IF Starts(input) THEN Tail(input) ELSE input)
         ELSE target \o (IF Starts(input) THEN input ELSE <<Slash>> \o input)

(* mydirlen, and the two parts of a path: with the last slash and after it. *)
DirLen(p) ==
    LET slashes == {k \in DOMAIN p : p[k] = Slash}
    IN  IF slashes = {} THEN 0
        ELSE CHOOSE k \in slashes : \A j \in slashes : j <= k

DirName(p) == SubSeq(p, 1, DirLen(p))
BasePath(p) == SubSeq(p, DirLen(p) + 1, Len(p))

(* build_buildid_filename: a directory named by the first byte.            *)
BuildidFilename(n) ==
    CASE n = 0 -> <<DotDebug>>
      [] n = 1 -> <<IdDir, Slash, DotDebug>>
      [] OTHER -> <<IdDir, Slash, IdFile>>

-----------------------------------------------------------------------------
(* What a section must be like.                                            *)
(* extract_debuglink: a NUL ends the name, and the crc, aligned to 4, is   *)
(* the rest.                                                               *)
CrcAt(s) == s.nul + 1 + ((4 - ((s.nul + 1) % 4)) % 4)

LinkIsGood(s) == s.nul < s.size /\ CrcAt(s) + 4 = s.size

(* extract_buildid: the last byte of the owner's name is made a NUL, and   *)
(* must be the first one.                                                  *)
OwnerIsGood(s) == s.namesize # 0 /\ s.nul >= s.namesize - 1

IdIsGoodAnyEnd(s) ==
    s.size >= BuildidSize + 4 /\ s.namesize < s.size /\ OwnerIsGood(s)

IdIsGood(s) ==
    /\ s.size >= BuildidSize + 4
    /\ s.namesize < s.size
    /\ OwnerIsGood(s)
    /\ BuildidSize + s.namesize + s.descrsize <= s.size

-----------------------------------------------------------------------------
Init ==
    /\ sections \in Tables /\ path \in Pathnames /\ prefixes \in PrefixLists
    /\ pc = "find" /\ i = 1 /\ linkshdr = 0 /\ idshdr = 0
    /\ name = NoName /\ crc = 0 /\ owner = 0 /\ id = 0 /\ idlen = 0
    /\ js_cwd = << >> /\ original = << >> /\ prefix = 1
    /\ chain = EmptyList /\ last = 0 /\ nodes = 0
    /\ area = NoArea

(* dwarf_gnu_debuglink: the last section of each name counts, up to where  *)
(* both have been seen.                                                    *)
Searching == i <= Len(sections) /\ (linkshdr = 0 \/ idshdr = 0)

LookAtSection ==
    /\ pc = "find" /\ Searching
    /\ sections[i].name # "invalid"
    /\ i' = i + 1
    /\ linkshdr' = IF sections[i].name = "link" THEN i ELSE linkshdr
    /\ idshdr' = IF sections[i].name = "id" THEN i ELSE idshdr
    /\ UNCHANGED <<given, pc, answers, dirs, list, area>>

NamesInvalid ==
    /\ pc = "find" /\ Searching
    /\ sections[i].name = "invalid"
    /\ pc' = "noentry"
    /\ UNCHANGED <<given, found, answers, dirs, list, area>>

SearchEnds ==
    /\ pc = "find" /\ ~ Searching
    /\ pc' = IF linkshdr = 0 /\ idshdr = 0 THEN "noentry" ELSE "link"
    /\ UNCHANGED <<given, found, answers, dirs, list, area>>

(* An empty section is no error, and neither is its absence.               *)
NoLink ==
    /\ pc = "link"
    /\ linkshdr # 0 => sections[linkshdr].size = 0
    /\ pc' = "id"
    /\ UNCHANGED <<given, found, answers, dirs, list, area>>

ExtractDebuglink ==
    /\ pc = "link" /\ linkshdr # 0
    /\ LinkIsGood(sections[linkshdr])
    /\ name' = sections[linkshdr].text
    /\ crc' = CrcAt(sections[linkshdr])
    /\ pc' = "id"
    /\ UNCHANGED <<given, found, owner, id, idlen, dirs, list, area>>

(* Not as it must be, no memory, or a failed read.                         *)
ExtractDebuglinkFails ==
    /\ pc = "link" /\ linkshdr # 0
    /\ pc' = "failed"
    /\ UNCHANGED <<given, found, answers, dirs, list, area>>

NoBuildid ==
    /\ pc = "id" /\ idshdr = 0
    /\ pc' = "paths"
    /\ UNCHANGED <<given, found, answers, dirs, list, area>>

ExtractBuildid ==
    /\ pc = "id" /\ idshdr # 0
    /\ IdIsGood(sections[idshdr])
    /\ owner' = sections[idshdr].namesize - 1
    /\ id' = BuildidSize + sections[idshdr].namesize
    /\ idlen' = sections[idshdr].descrsize
    /\ pc' = "paths"
    /\ UNCHANGED <<given, found, name, crc, dirs, list, area>>

ExtractBuildidFails ==
    /\ pc = "id" /\ idshdr # 0
    /\ pc' = "failed"
    /\ UNCHANGED <<given, found, answers, dirs, list, area>>

-----------------------------------------------------------------------------
(* _dwarf_construct_linkedto_path.                                         *)
NoPathname ==
    /\ pc = "paths" /\ path = NoPath
    /\ pc' = "print"
    /\ UNCHANGED <<given, found, answers, dirs, list, area>>

(* After the build-ids: the places for the name of the debuglink, if any.  *)
AfterIds == IF name = NoName THEN "area" ELSE "same"

ConstructPaths ==
    /\ pc = "paths" /\ path # NoPath
    /\ LET start == IF Starts(path) THEN << >> ELSE Cwd
       IN  /\ original' = Join(Join(start, DirName(path)), BasePath(path))
           /\ js_cwd' = Join(start, DirName(path))
    /\ pc' = IF idlen # 0 /\ prefixes # << >> THEN "ids" ELSE AfterIds
    /\ UNCHANGED <<given, found, answers, prefix, list, area>>

GetcwdFails ==
    /\ pc = "paths" /\ path # NoPath /\ ~ Starts(path)
    /\ pc' = "failed"
    /\ UNCHANGED <<given, found, answers, dirs, list, area>>

(* The path tried next: the build-id under each prefix, the name beside    *)
(* the object, in .debug beside it, and under each prefix.                 *)
Candidate ==
    CASE pc = "ids" -> Join(prefixes[prefix], BuildidFilename(idlen))
      [] pc = "same" -> Join(js_cwd, name)
      [] pc = "debug" -> Join(Join(js_cwd, <<DotDebug>>), name)
      [] pc = "global" -> Join(Join(prefixes[prefix], js_cwd), name)

Trying == pc \in {"ids", "same", "debug", "global"}

MorePrefixes == pc \in {"ids", "global"} /\ prefix < Len(prefixes)

Advance ==
    /\ prefix' = IF MorePrefixes THEN prefix + 1 ELSE 1
    /\ pc' = CASE MorePrefixes -> pc
               [] pc = "ids" /\ ~ MorePrefixes -> AfterIds
               [] pc = "same" -> "debug"
               [] pc = "debug" /\ prefixes # << >> -> "global"
               [] OTHER -> "area"
    /\ UNCHANGED <<js_cwd, original>>

(* The object itself is not a place to look.                               *)
SkipOriginal ==
    /\ Trying /\ Candidate = original
    /\ Advance
    /\ UNCHANGED <<given, found, answers, list, area>>

(* dwarfstring_list_add_new: the first path goes in the entry that is      *)
(* there, each other one in a node of its own.                             *)
AddPath ==
    /\ Trying /\ Candidate # original
    /\ chain' = IF last = 0 THEN << chain[1] \o Candidate >>
                ELSE Append(chain, Candidate)
    /\ nodes' = IF last = 0 THEN nodes ELSE nodes + 1
    /\ last' = Len(chain')
    /\ Advance
    /\ UNCHANGED <<given, found, answers, area>>

(* dwarfstring_list_destructor                                             *)
KeepFirstNode ==
    /\ chain' = EmptyList /\ last' = 0
    /\ nodes' = IF Len(chain) > 1 THEN nodes - (Len(chain) - 2) ELSE nodes

DestroyList ==
    /\ chain' = EmptyList /\ last' = 0
    /\ nodes' = nodes - (Len(chain) - 1)

AddPathFails ==
    /\ Trying /\ Candidate # original /\ last # 0
    /\ DestroyList
    /\ pc' = "failed"
    /\ UNCHANGED <<given, found, answers, dirs, area>>

(* The block answered: pointers, a null pointer, then the strings.         *)
LengthsWithoutNul(texts) ==
    LET upto[k \in 0 .. Len(texts)] ==
            IF k = 0 THEN 0 ELSE upto[k - 1] + Len(texts[k])
    IN  upto

Lengths(texts) ==
    LET upto[k \in 0 .. Len(texts)] ==
            IF k = 0 THEN 0 ELSE upto[k - 1] + Len(texts[k]) + 1
    IN  upto

PointerArraySize(texts) == PtrSize * (Len(texts) + 1)

MakeArea ==
    /\ pc = "area"
    /\ area' = [size |-> PointerArraySize(chain) + Lengths(chain)[Len(chain)] + 8,
                at |-> [k \in DOMAIN chain |->
                           PointerArraySize(chain) + Lengths(chain)[k - 1]],
                text |-> chain]
    /\ DestroyList
    /\ pc' = "print"
    /\ UNCHANGED <<given, found, answers, dirs>>

MakeAreaFails ==
    /\ pc = "area"
    /\ DestroyList
    /\ pc' = "failed"
    /\ UNCHANGED <<given, found, answers, dirs, area>>

(* elf_print_gnu_debuglink                                                 *)
PrintPaths ==
    /\ pc = "print"
    /\ area' = NoArea
    /\ pc' = "done"
    /\ UNCHANGED <<given, found, answers, dirs, list>>

Next ==
    \/ LookAtSection \/ NamesInvalid \/ SearchEnds
    \/ NoLink \/ ExtractDebuglink \/ ExtractDebuglinkFails
    \/ NoBuildid \/ ExtractBuildid \/ ExtractBuildidFails
    \/ NoPathname \/ ConstructPaths \/ GetcwdFails
    \/ SkipOriginal \/ AddPath \/ AddPathFails
    \/ MakeArea \/ MakeAreaFails \/ PrintPaths

Spec == Init /\ [][Next]_vars

-----------------------------------------------------------------------------
(* Properties.                                                             *)
TypeOK ==
    /\ pc \in {"find", "link", "id", "paths", "ids", "same", "debug", "global",
               "area", "print", "done", "failed", "noentry"}
    /\ i \in 1 .. Len(sections) + 1
    /\ {linkshdr, idshdr} \subseteq 0 .. i - 1
    /\ name \in Path \cup {NoName}
    /\ {crc, owner, id, idlen, nodes} \subseteq Nat
    /\ js_cwd \in Path /\ original \in Path
    /\ prefix \in 1 .. Len(prefixes) + 1
    /\ chain \in Seq(Path) /\ last \in {0, Len(chain)}
    /\ area.size \in Nat /\ area.text \in Seq(Path)

(* What is left of a sequence without one of its values.                   *)
Without(s, e) ==
    LET upto[k \in 0 .. Len(s)] ==
            IF k = 0 THEN << >>
            ELSE IF s[k] = e THEN upto[k - 1] ELSE Append(upto[k - 1], s[k])
    IN  upto[Len(s)]

(* What a path means: from the root or not, the names it goes through, and *)
(* whether it can only be a directory.                                     *)
Names(p) == Without(p, Slash)
Place(absolute, names, directory) ==
    [absolute |-> absolute, names |-> names, directory |-> directory]
PlaceOf(p) == Place(Starts(p), Names(p), Ends(p))

(* Names and slashes take turns.                                           *)
OneSlashBetweenNames(p) ==
    \A k \in 1 .. Len(p) - 1 : (p[k] = Slash) # (p[k + 1] = Slash)

WrittenWithOneSlash ==
    /\ \A p \in {path, Cwd, name} : OneSlashBetweenNames(p)
    /\ \A k \in DOMAIN prefixes : OneSlashBetweenNames(prefixes[k])

ObjectNames == (IF Starts(path) THEN << >> ELSE Names(Cwd)) \o Names(path)
Directory == SubSeq(ObjectNames, 1, Len(ObjectNames) - 1)
Object == Place(TRUE, ObjectNames, FALSE)

(* The places the program's tests list (baseline.ltp:5-10, and line 105 of *)
(* test029.base): under each global prefix nn/rest.debug, where nn is the  *)
(* first byte of the build-id; the link beside the object, in .debug       *)
(* beside it, and under each prefix.                                       *)
IdNames == IF idlen = 1 THEN <<IdDir, DotDebug>> ELSE <<IdDir, IdFile>>

BuildidPlaces ==
    IF idlen = 0 THEN << >>
    ELSE [k \in DOMAIN prefixes |->
             Place(Starts(prefixes[k]), Names(prefixes[k]) \o IdNames, FALSE)]

LinkIsDirectory == name = << >> \/ Ends(name)

LinkPlaces ==
    IF name = NoName THEN << >>
    ELSE <<Place(TRUE, Directory \o Names(name), LinkIsDirectory),
           Place(TRUE, Directory \o <<DotDebug>> \o Names(name), LinkIsDirectory)>>
         \o [k \in DOMAIN prefixes |->
                 Place(prefixes[k] = << >> \/ Starts(prefixes[k]),
                       Names(prefixes[k]) \o Directory \o Names(name),
                       LinkIsDirectory)]

Places == Without(BuildidPlaces \o LinkPlaces, Object)

(* The paths printed are those places, each of them and in this order, the *)
(* object itself left out; each path is written with one slash between two *)
(* names whatever the directory of the object, the link and the prefixes   *)
(* begin and end with.  When no place is left one empty path is answered.  *)
(* (Paths are compared as they are written, so this is of what has no      *)
(* doubled slashes.  For a build-id they are not the places gdb looks in:  *)
(* see BuildidPlacesAreGdbs.)                                              *)
PathsAreTheCandidates ==
    pc = "print" /\ path # NoPath /\ WrittenWithOneSlash =>
        IF Places = << >> THEN area.text = EmptyList
        ELSE /\ [k \in DOMAIN area.text |-> PlaceOf(area.text[k])] = Places
             /\ \A k \in DOMAIN area.text : OneSlashBetweenNames(area.text[k])

(* This does not hold.  The manual of gdb, which the code is written after *)
(* (dwarf_debuglink.c:372-377), looks for a build-id in the subdirectory   *)
(* .build-id of each global directory; build_buildid_filename leaves that  *)
(* name out, and unless a prefix given ends in it the paths answered are   *)
(* places where gdb does not look.                                         *)
DotBuildId == ".build-id"

BuildidPlacesAreGdbs ==
    pc = "print" /\ path # NoPath /\ WrittenWithOneSlash /\ idlen > 0 =>
        \A k \in DOMAIN prefixes :
            LET place == Place(Starts(prefixes[k]),
                               Names(prefixes[k]) \o <<DotBuildId>> \o IdNames, FALSE)
            IN  place # Object => \E j \in DOMAIN area.text : PlaceOf(area.text[j]) = place

(* Every node of the list is on the heap as long as it is on the list, and *)
(* no longer: whichever allocation fails, and however many paths there     *)
(* are, nothing is kept when the answer has been printed or refused.       *)
OwnsItsMemory ==
    /\ nodes = Len(chain) - 1
    /\ pc \in {"done", "failed", "noentry"} => nodes = 0 /\ area = NoArea

(* The crc answered is the aligned last word of its section, after the     *)
(* name, and the owner and the bytes of the build-id are in their section, *)
(* one after the other.                                                    *)
AnswersAreInTheirSections ==
    /\ name # NoName =>
           /\ crc % 4 = 0 /\ crc + 4 = sections[linkshdr].size
           /\ crc \in sections[linkshdr].nul + 1 .. sections[linkshdr].nul + 4
    /\ id # 0 =>
           /\ BuildidSize + owner + 1 = id
           /\ id + idlen <= sections[idshdr].size

(* In the block answered the strings, with their NULs, lie after the       *)
(* pointers and the null pointer that ends them, one after the other, and  *)
(* in the block.                                                           *)
AreaHoldsThePaths ==
    LET n == Len(area.text)
        end(k) == area.at[k] + Len(area.text[k]) + 1
    IN  area # NoArea =>
            /\ area.at[1] >= PtrSize * (n + 1)
            /\ \A k \in 1 .. n - 1 : end(k) <= area.at[k + 1]
            /\ end(n) <= area.size
=============================================================================
