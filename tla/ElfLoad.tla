------------------------------ MODULE ElfLoad ------------------------------
(***************************************************************************)
(* One run of readelfobj on an Elf object (readelfobj.c, do_one_file) and  *)
(* who owns what it allocates: opening the object, its header, its section *)
(* headers with the section names, the passes that load string tables,     *)
(* group arrays, symbols and dynamic entries, relocations, and the         *)
(* destructor that must give everything back whatever failed on the way.   *)
(*                                                                         *)
(* The object is chosen freely, and any allocation, read or decompression  *)
(* may fail.  What a section weighs is chosen when it is loaded.  Pointers *)
(* are sets of at most one block, so that {} is the null pointer; a block  *)
(* is named by its section (0 for the object itself) and its use.  Type    *)
(* SYMTAB stands for DYNSYM too, which the program treats alike.           *)
(***************************************************************************)
EXTENDS Integers

CONSTANTS
    LastSection,   \* sections are numbered from 0 to LastSection
    Types,         \* the sh_type values the sections of the object may have
    Sizes,         \* sizes of sections, compressed or not
    RecordSize     \* size of one symbol, dynamic or relocation record

ASSUME SectionsAssumption == LastSection \in Nat \ {0}
ASSUME SizesAssumption == Sizes \subseteq Nat /\ RecordSize \in Nat \ {0}

VARIABLES
    obj,           \* the object: offset size, section types and compression
    pc,            \* where do_one_file is
    sh,            \* the section of the current pass
    shdr,          \* what the generic header of each section points to
    names,         \* the section that holds the section names, 0 before
    live,          \* blocks allocated, and descriptors open
    fault,         \* has a block been freed twice?
    outOfMemory    \* has an allocation failed after the content was read?

vars == <<obj, pc, sh, shdr, names, live, fault, outOfMemory>>

Sections == 1 .. LastSection
Passes == {"strtabs", "groups", "symtabs", "relocs"}
Ends == {"closed", "done", "crashed"}

Blocks == ({0} \X {"fd", "ep", "path", "paths", "ehdr", "shdr", "phdr"})
          \cup (Sections \X {"file", "plain", "records", "group"})

Unloaded == [content |-> {}, size |-> 0, room |-> 0,
             records |-> {}, count |-> 0, group |-> {}]

Is64 == obj.offsetsize = 64
Type(s) == obj.type[s]
Compressed(s) == s \in obj.compressed

(* dwarf_elf_load_rela_32 keeps the bytes it reads in a variable of its    *)
(* own, never in gh_content.                                               *)
Rela32(s) == Type(s) = "RELA" /\ ~ Is64

-----------------------------------------------------------------------------
Init ==
    /\ obj \in [offsetsize : {32, 64}, type : [Sections -> Types],
                compressed : SUBSET Sections]
    /\ pc = "start" /\ sh = 1
    /\ shdr = [s \in Sections |-> Unloaded]
    /\ names = 0 /\ live = {} /\ fault = FALSE /\ outOfMemory = FALSE

Unmoved == UNCHANGED <<obj, sh, shdr, names, fault, outOfMemory>>

(* dwarf_construct_elf_access_path.                                        *)
Open ==
    /\ pc = "start"
    /\ \/ pc' = "closed" /\ live' = {}
       \/ pc' = "construct" /\ live' = {<<0, "fd">>}
    /\ Unmoved

(* dwarf_construct_elf_access: the detector or the first allocation fails, *)
(* the second one fails, which forgets f_path, or all goes well.           *)
Construct ==
    /\ pc = "construct"
    /\ \/ pc' = "closed" /\ live' = live \ {<<0, "fd">>}
       \/ pc' = "closed" /\ live' = (live \ {<<0, "fd">>}) \cup {<<0, "path">>}
       \/ /\ pc' = "header"
          /\ live' = live \cup {<<0, "ep">>, <<0, "path">>, <<0, "paths">>}
    /\ Unmoved

(* dwarf_load_elf_header; do_one_file gives up on ERROR and NO_ENTRY.  The *)
(* class or the data encoding may be found wrong once the header is read.  *)
LoadHeader ==
    /\ pc = "header"
    /\ \/ pc' = "sectheaders" /\ live' = live \cup {<<0, "ehdr">>}
       \/ pc' = "destruct" /\ live' \in {live, live \cup {<<0, "ehdr">>}}
    /\ Unmoved

(* dwarf_load_elf_sectheaders.  NO_ENTRY, for a count of zero, does not    *)
(* stop do_one_file.                                                       *)
NoSectHeaders ==
    /\ pc = "sectheaders"
    /\ pc' \in {"destruct", "progheaders"}
    /\ UNCHANGED live /\ Unmoved

(* The headers are loaded, the index of the section names is out of range  *)
(* or names a section without content.                                     *)
NoSectStrings ==
    /\ pc = "sectheaders"
    /\ pc' = "destruct"
    /\ live' = live \cup {<<0, "shdr">>}
    /\ Unmoved

(* What a loader leaves in the header of section s once it has read n      *)
(* bytes, and after decompressing them to n bytes.                         *)
Filled(block, n, space) ==
    [content |-> {block}, size |-> n, room |-> space,
     records |-> {}, count |-> 0, group |-> {}]

Raw(s, n) == Filled(<<s, "file">>, n, n)

PlainKeepsSize(s, n) == Filled(<<s, "plain">>, n + 1, n)

Plain(s, n) == Filled(<<s, "plain">>, n, n)

Ready(s) == IF Compressed(s) THEN {Plain(s, n) : n \in Sizes}
                             ELSE {Raw(s, n) : n \in Sizes}

(* elf_load_sectstrings on section s: nothing is kept of a failed read, a  *)
(* failed decompression leaves the compressed bytes.                       *)
LoadSectStrings(s) ==
    /\ pc = "sectheaders" /\ Type(s) # "NOBITS"
    /\ \/ \E h \in Ready(s) :
             /\ pc' = "progheaders" /\ names' = s
             /\ shdr' = [shdr EXCEPT ![s] = h]
             /\ live' = live \cup {<<0, "shdr">>} \cup h.content
       \/ \E n \in Sizes :
             /\ Compressed(s)
             /\ pc' = "destruct" /\ UNCHANGED names
             /\ shdr' = [shdr EXCEPT ![s] = Raw(s, n)]
             /\ live' = live \cup {<<0, "shdr">>, <<s, "file">>}
    /\ UNCHANGED <<obj, sh, fault, outOfMemory>>

(* dwarf_load_elf_progheaders: whatever it returns, do_one_file goes on.   *)
LoadProgHeaders ==
    /\ pc = "progheaders"
    /\ pc' = "names"
    /\ live' \in {live, live \cup {<<0, "phdr">>}}
    /\ Unmoved

(* The names are assigned through f_shdr, null when there are no headers.  *)
NameSections ==
    /\ pc = "names"
    /\ pc' = IF <<0, "shdr">> \in live THEN "strtabs" ELSE "crashed"
    /\ UNCHANGED live /\ Unmoved

-----------------------------------------------------------------------------
(* The passes over the sections from 1, and over 0 .. LastSection - 1 for  *)
(* the groups: a pass loads the sections of its types that have no content *)
(* yet.                                                                    *)
NextPass == [strtabs |-> "groups", groups |-> "symtabs",
             symtabs |-> "relocs", relocs |-> "print"]

LastOfShort(pass) == LastSection - 1

LastOf(pass) == IF pass = "groups" THEN LastSection - 1 ELSE LastSection

NextPhase ==
    /\ pc' = NextPass[pc]
    /\ sh' = IF pc = "strtabs" THEN 0 ELSE 1


Advance ==
    IF sh = LastOf(pc) THEN NextPhase ELSE pc' = pc /\ sh' = sh + 1

TypesOf(pass) ==
    CASE pass = "strtabs" -> {"STRTAB"}
      [] pass = "groups"  -> {"GROUP"}
      [] pass = "symtabs" -> {"SYMTAB", "DYNAMIC"}
      [] pass = "relocs"  -> {"REL", "RELA"}

Wanted(pass) ==
    /\ pc = pass /\ sh \in Sections
    /\ Type(sh) \in TypesOf(pass)
    /\ pass # "groups" => shdr[sh].content = {}

Skip ==
    /\ pc \in Passes /\ ~ Wanted(pc)
    /\ Advance
    /\ UNCHANGED <<obj, shdr, names, live, fault, outOfMemory>>

Leave(h, lv) == shdr' = [shdr EXCEPT ![sh] = h] /\ live' = lv

Succeed(h, lv) ==
    Leave(h, lv) /\ Advance /\ UNCHANGED <<obj, names, fault, outOfMemory>>

Fail(h, lv) ==
    /\ Leave(h, lv) /\ pc' = "destruct"
    /\ UNCHANGED <<obj, sh, names, fault, outOfMemory>>

(* The records of the section cannot be allocated; the loader frees what   *)
(* it takes for the content, which may be freed already.                   *)
FailWithoutMemory(h, lv, again) ==
    /\ Leave(h, lv) /\ pc' = "destruct"
    /\ fault' = (fault \/ again) /\ outOfMemory' = TRUE
    /\ UNCHANGED <<obj, sh, names>>

Crash == pc' = "crashed" /\ UNCHANGED live /\ Unmoved

Loading == \E pass \in Passes \ {"groups"} : Wanted(pass)

(* The content of the section cannot be allocated or read, or the header   *)
(* does not fit the file: in all loaders nothing is kept and do_one_file   *)
(* gives up.                                                               *)
LoadFails == Loading /\ Fail(shdr[sh], live)

(* dwarf_elf_do_decompress fails: dwarf_load_elf_symstr frees the content, *)
(* the other loaders leave it to the destructor.                           *)
DecompressFailsDangling ==
    /\ Loading /\ Compressed(sh) /\ ~ Rela32(sh)
    /\ \E n \in Sizes :
          IF Type(sh) = "STRTAB"
          THEN Fail(Raw(sh, n), live)
          ELSE Fail(Raw(sh, n), live \cup {<<sh, "file">>})

DecompressFails ==
    /\ Loading /\ Compressed(sh) /\ ~ Rela32(sh)
    /\ IF Type(sh) = "STRTAB"
       THEN Fail(shdr[sh], live)
       ELSE \E n \in Sizes :
               Fail(Raw(sh, n), live \cup {<<sh, "file">>})

(* dwarf_load_elf_symstr.                                                  *)
LoadSymstr ==
    /\ Wanted("strtabs")
    /\ \E h \in Ready(sh) : Succeed(h, live \cup h.content)

(* read_gs_section_group for section sh; an error ends the pass only.      *)
LoadGroup ==
    /\ Wanted("groups")
    /\ \/ Succeed([shdr[sh] EXCEPT !.group = {<<sh, "group">>}],
                  live \cup {<<sh, "group">>})
       \/ NextPhase /\ UNCHANGED <<obj, shdr, names, live, fault, outOfMemory>>

WithRecords(h, n) ==
    [h EXCEPT !.records = {<<sh, "records">>}, !.count = n \div RecordSize]

(* The symbols are counted in size: a size that is not a number of records *)
(* is complained of and left.  Without memory for the records the bytes    *)
(* read from the file are freed, once more when decompression did already. *)
Symbols(h, size) ==
    \/ /\ size % RecordSize # 0
       /\ Succeed(h, live \cup h.content)
    \/ /\ size % RecordSize = 0
       /\ Succeed(WithRecords(h, size),
                  live \cup h.content \cup {<<sh, "records">>})
    \/ /\ size % RecordSize = 0
       /\ FailWithoutMemory(h, (live \cup h.content) \ {<<sh, "file">>},
                            Compressed(sh))

WantedSymbols == Wanted("symtabs") /\ Type(sh) = "SYMTAB"

LoadSymbols64StaleSize ==
    /\ WantedSymbols /\ Is64
    /\ \E h \in Ready(sh), raw \in Sizes :
          Symbols(h, IF Compressed(sh) THEN raw ELSE h.size)

LoadSymbols64 ==
    /\ WantedSymbols /\ Is64
    /\ \E h \in Ready(sh) : Symbols(h, h.size)

(* dwarf_generic_elf_load_symbols32 counts in the size the section had     *)
(* before it was decompressed, raw.                                        *)
LoadSymbols32 ==
    /\ WantedSymbols /\ ~ Is64
    /\ \E h \in Ready(sh), raw \in Sizes :
          Symbols(h, IF Compressed(sh) THEN raw ELSE h.size)

(* generic_dyn_from_dyn64 does not look at what malloc gave it.            *)
Dynamic(h) ==
    Succeed(WithRecords(h, h.size), live \cup h.content \cup {<<sh, "records">>})

LoadDynamic32 ==
    /\ Wanted("symtabs") /\ Type(sh) = "DYNAMIC" /\ ~ Is64
    /\ \E h \in Ready(sh) : Dynamic(h) \/ FailWithoutMemory(h, live, FALSE)

LoadDynamic64 ==
    /\ Wanted("symtabs") /\ Type(sh) = "DYNAMIC" /\ Is64
    /\ \E h \in Ready(sh) : Dynamic(h) \/ (h.size >= RecordSize /\ Crash)

(* The loaders of relocations that keep the content in gh_content free it  *)
(* when the records cannot be allocated, and leave it there when its size  *)
(* is wrong or a record is.                                                *)
Relocations ==
    \E h \in Ready(sh) :
       /\ ~ Compressed(sh) => h.size # 0
       /\ \/ /\ h.size % RecordSize = 0
             /\ Succeed(WithRecords(h, h.size),
                        live \cup h.content \cup {<<sh, "records">>})
          \/ Fail(h, live \cup h.content)
          \/ h.size % RecordSize = 0 /\ FailWithoutMemory(h, live, FALSE)

(* Without memory for the content dwarf_elf_load_rel_32 returns            *)
(* RO_ERR_MALLOC, which its caller does not take for an error.             *)
RelWithoutMemory ==
    /\ Leave(shdr[sh], live) /\ Advance /\ outOfMemory' = TRUE
    /\ UNCHANGED <<obj, names, fault>>

LoadRel32 ==
    /\ Wanted("relocs") /\ Type(sh) = "REL" /\ ~ Is64
    /\ Relocations \/ RelWithoutMemory

LoadRel64 == Wanted("relocs") /\ Type(sh) = "REL" /\ Is64 /\ Relocations

LoadRela64 == Wanted("relocs") /\ Type(sh) = "RELA" /\ Is64 /\ Relocations

(* dwarf_elf_load_rela_32: nothing for an empty section; otherwise the     *)
(* bytes it read are lost, with the records or without, unless there is no *)
(* memory for the records.                                                 *)
LoadRela32 ==
    /\ Wanted("relocs") /\ Rela32(sh)
    /\ \/ Succeed(shdr[sh], live)
       \/ ~ Compressed(sh) /\ \E n \in Sizes \ {0} :
             \/ /\ n % RecordSize = 0
                /\ Succeed(WithRecords([shdr[sh] EXCEPT !.size = n], n),
                           live \cup {<<sh, "file">>, <<sh, "records">>})
             \/ Fail(shdr[sh], live \cup {<<sh, "file">>})
             \/ n % RecordSize = 0 /\ FailWithoutMemory(shdr[sh], live, FALSE)
       \/ Compressed(sh) /\ Fail(shdr[sh], live \cup {<<sh, "file">>})
       \/ Compressed(sh) /\ Crash

-----------------------------------------------------------------------------
PrintObject == pc = "print" /\ pc' = "destruct" /\ UNCHANGED live /\ Unmoved

PointersButGroup(s) == shdr[s].content \cup shdr[s].records

(* dwarf_destruct_elf_access: every pointer of every section once.         *)
Pointers(s) == shdr[s].content \cup shdr[s].records \cup shdr[s].group

ObjectBlocks == {b \in live : b[1] = 0}

Destruct ==
    /\ pc = "destruct"
    /\ pc' = "done"
    /\ LET held == UNION {Pointers(s) : s \in Sections}
       IN  /\ live' = live \ (held \cup ObjectBlocks)
           /\ fault' = (fault \/ ~ (held \subseteq live))
    /\ shdr' = [s \in Sections |-> [shdr[s] EXCEPT !.content = {}, !.records = {},
                                                   !.group = {}]]
    /\ UNCHANGED <<obj, sh, names, outOfMemory>>

Next ==
    \/ Open \/ Construct \/ LoadHeader
    \/ NoSectHeaders \/ NoSectStrings \/ \E s \in Sections : LoadSectStrings(s)
    \/ LoadProgHeaders \/ NameSections
    \/ Skip \/ LoadFails \/ DecompressFails
    \/ LoadSymstr \/ LoadGroup
    \/ LoadSymbols32 \/ LoadSymbols64 \/ LoadDynamic32 \/ LoadDynamic64
    \/ LoadRel32 \/ LoadRel64 \/ LoadRela32 \/ LoadRela64
    \/ PrintObject \/ Destruct

Spec == Init /\ [][Next]_vars /\ WF_vars(Next)

-----------------------------------------------------------------------------
(* Properties.                                                             *)
Header(s) ==
    [content : {{}, {<<s, "file">>}, {<<s, "plain">>}}, size : Nat, room : Nat,
     records : {{}, {<<s, "records">>}}, count : Nat,
     group : {{}, {<<s, "group">>}}]

TypeOK ==
    /\ obj.offsetsize \in {32, 64} /\ obj.type \in [Sections -> Types]
    /\ obj.compressed \subseteq Sections
    /\ pc \in Passes \cup Ends \cup {"start", "construct", "header",
            "sectheaders", "progheaders", "names", "print", "destruct"}
    /\ sh \in 0 .. LastSection /\ names \in 0 .. LastSection
    /\ DOMAIN shdr = Sections
    /\ \A s \in Sections : shdr[s] \in Header(s)
    /\ live \subseteq Blocks
    /\ fault \in BOOLEAN /\ outOfMemory \in BOOLEAN

(* A run that ends in the destructor leaves nothing allocated and nothing  *)
(* open, but for the bytes of 32-bit RELA sections, which nothing points   *)
(* to (dwarf_destruct_elf_access, dwarf_elf_load_rela_32).                 *)
DestructFreesAllButRela32 ==
    /\ pc = "done" => \A b \in live : b[1] # 0 /\ Rela32(b[1]) /\ b[2] = "file"
    /\ pc = "closed" => live \subseteq {<<0, "path">>}

(* Whatever fails, in whatever order the sections come, no block is freed  *)
(* twice unless an allocation failed after the content was read.           *)
OnlyOutOfMemoryFreesTwice == fault => outOfMemory

(* The bytes gh_size promises are there: the content of a section is an    *)
(* allocated block of that size, decompressed or not.                      *)
SizeIsReadable ==
    pc \notin Ends /\ ~ outOfMemory =>
        \A s \in Sections : shdr[s].content # {} =>
            shdr[s].content \subseteq live /\ shdr[s].size <= shdr[s].room

(* The records of a section are those of its content, except the symbols   *)
(* of a compressed 32-bit object.                                          *)
StaleSymbols(s) == Type(s) = "SYMTAB" /\ ~ Is64 /\ Compressed(s)

RecordsMatchContent ==
    \A s \in Sections :
        /\ shdr[s].records # {} /\ ~ Rela32(s) /\ ~ StaleSymbols(s) =>
              /\ shdr[s].content # {}
              /\ shdr[s].count = shdr[s].size \div RecordSize

(* When the object is printed, every section a pass loads has been loaded, *)
(* whichever sections come first and whichever holds the section names.    *)
PrintedIsLoaded ==
    pc = "print" /\ ~ outOfMemory =>
        \A s \in Sections :
            /\ Type(s) \in {"STRTAB", "SYMTAB", "DYNAMIC", "REL"} =>
                  shdr[s].content # {}
            /\ Type(s) = "RELA" /\ Is64 => shdr[s].content # {}

(* A symbol table of a valid size is not taken for a bogus one: if its     *)
(* content holds whole records, they are loaded.                           *)
SymbolsAreLoaded ==
    pc = "print" =>
        \A s \in Sections :
            /\ Type(s) = "SYMTAB" /\ s # names
            /\ shdr[s].size % RecordSize = 0
            => shdr[s].records # {} /\ shdr[s].count = shdr[s].size \div RecordSize

(* A null pointer is followed in three places only: where there are no     *)
(* section headers to name (readelfobj.c:717), in a 64-bit dynamic section *)
(* whose records were given no memory, and in a compressed 32-bit RELA     *)
(* section.                                                                *)
NullIsFollowed ==
    \/ <<0, "shdr">> \notin live
    \/ Type(sh) = "DYNAMIC" /\ Is64
    \/ Rela32(sh) /\ Compressed(sh)


(* This does not hold, for each of the three reasons; a file without       *)
(* section headers, which is no error, ends the program before anything is *)
(* printed.                                                                *)
RunEndsClean == <>(pc \in {"closed", "done"})
=============================================================================
