----------------------------- MODULE ElfHeaders -----------------------------
(***************************************************************************)
(* How many sections an Elf object has, which one holds their names, and   *)
(* where the tables of headers are (dwarf_load_elf_headers.c), up to the   *)
(* use the print functions make of it (readelfobj.c).                      *)
(*                                                                         *)
(* The Elf header has 16 bits for the number of sections and for the index *)
(* of the section of names.  Values that do not fit are in section header  *)
(* zero (its size and its link), which is read before the table itself.    *)
(* The 32- and the 64-bit readers answer differently which of the two they *)
(* found there.                                                            *)
(*                                                                         *)
(* A header is the numbers these functions read.  A section header that    *)
(* was read is the place its bytes come from and the place gh_fdoffset     *)
(* says.  Any read may fail and any allocation may.                        *)
(***************************************************************************)
EXTENDS Integers

CONSTANTS
    Objects,      \* the files, see Object
    EhdrSize,     \* by offset size (32 or 64), the bytes of an Elf header,
    ShdrSize,     \* of a section header
    PhdrSize,     \* and of a program header
    MaxEntSize,   \* the largest entry that is believed (200)
    Xindex,       \* SHN_XINDEX, the largest value of a 16-bit field
    Modulus       \* Dwarf_Unsigned counts modulo this (2^64)

OffsetSizes == {32, 64}
Field == 0 .. Xindex
Unsigned == 0 .. Modulus - 1

(* filesize; of the Elf header: where a table starts, the size of its      *)
(* entries and their number, for sections (s) and program headers (p), and *)
(* the index of the section of names; and the size and the link of the     *)
(* bytes that are taken for section header zero.                           *)
Object ==
    [filesize : Nat, bits : OffsetSizes,
     shoff : Unsigned, shentsize : Field, shnum : Field, shstrndx : Field,
     phoff : Unsigned, phentsize : Field, phnum : Field,
     zero_size : Unsigned, zero_link : Unsigned]

ASSUME ObjectsAssumption == Objects \subseteq Object
ASSUME SizesAssumption ==
    /\ EhdrSize \in [OffsetSizes -> Nat \ {0}]
    /\ ShdrSize \in [OffsetSizes -> Nat \ {0}]
    /\ PhdrSize \in [OffsetSizes -> Nat \ {0}]
ASSUME BoundsAssumption ==
    /\ MaxEntSize \in Nat /\ Xindex \in Nat
    /\ Modulus \in Nat /\ Modulus > Xindex
(* A file is so small that a table of as many of the largest entries as it *)
(* has bytes still has an end that can be written: below 2^56 bytes.       *)
ASSUME FilesAssumption ==
    \A f \in Objects : f.filesize * MaxEntSize + f.filesize < Modulus

VARIABLES
    obj,            \* the file
    pc,             \* "start", "counts", "check", "read", "strings",
                    \* "progheaders", "names", "minimum", "requested",
                    \* "sectstrings", "done", "crashed"
    fdpos,          \* the position of f_fd until the headers are read
    shnum,          \* ge_shnum
    shstrndx,       \* ge_shstrndx
    in_header,      \* which of the two the header holds: ge_*_in_*
    extended,       \* and which come from section zero: ge_*_extended
    strings_index,  \* f_elf_shstrings_sect_index
    finalcount,
    shdr,           \* f_shdr: where each section header is from, or NoTable
    shstrings,      \* the section f_shstrings_shdr points to, or NoSection
    phdr,           \* f_phdr: where each program header is from, or NoTable
    used            \* the section the printed names are taken from, or NoSection

ehdr == <<shnum, shstrndx, in_header, extended>>
vars == <<obj, pc, fdpos, ehdr, strings_index, finalcount, shdr, shstrings,
          phdr, used>>

NoTable == [count |-> 0, from |-> <<>>, said |-> <<>>]
NoSection == -1
Wrap(n) == n % Modulus

-----------------------------------------------------------------------------
Init ==
    /\ obj \in Objects
    /\ pc = "start" /\ fdpos = 0
    /\ shnum = 0 /\ shstrndx = 0 /\ in_header = {} /\ extended = {}
    /\ strings_index = 0 /\ finalcount = 0
    /\ shdr = NoTable /\ shstrings = NoSection /\ phdr = NoTable
    /\ used = NoSection

(* dwarf_object_read_random: what is not all in the file cannot be read,   *)
(* at the latest because read answers with fewer bytes.                    *)
Readable(offset, length) ==
    offset < obj.filesize /\ offset + length <= obj.filesize

(* The numbers that do not fit: the index by its mark, the count by 0.     *)
InZero ==
    {number \in {"strndx", "shnum"} :
        IF number = "strndx" THEN obj.shstrndx = Xindex ELSE obj.shnum = 0}

(* elf_load_elf_header32 and 64.  A header whose table of sections would   *)
(* start inside the header itself is kept, with neither number classified. *)
ReadHeader ==
    /\ pc = "start"
    /\ obj.filesize > EhdrSize[obj.bits]
    /\ fdpos' = EhdrSize[obj.bits]
    /\ shnum' = obj.shnum /\ shstrndx' = obj.shstrndx
    /\ IF obj.shoff < EhdrSize[obj.bits]
       THEN UNCHANGED <<in_header, extended>>
       ELSE /\ extended' = InZero
            /\ in_header' = {"strndx", "shnum"} \ InZero
    /\ pc' = "counts"
    /\ UNCHANGED <<obj, strings_index, finalcount, shdr, shstrings, phdr, used>>

(* Without a header nothing is printed: too small a file, a failed read, no *)
(* memory.                                                                  *)
NoHeader ==
    /\ pc = "start"
    /\ pc' = "done"
    /\ UNCHANGED <<obj, fdpos, ehdr, strings_index, finalcount, shdr, shstrings,
                   phdr, used>>

-----------------------------------------------------------------------------
(* elf_load_sectheaders32 and 64, first part.                              *)
CountsInHeader ==
    /\ pc = "counts"
    /\ in_header = {"strndx", "shnum"}
    /\ finalcount' = shnum /\ strings_index' = shstrndx
    /\ pc' = "check"
    /\ UNCHANGED <<obj, fdpos, ehdr, shdr, shstrings, phdr, used>>

(* A mistake: one mark in the header brings both from section zero.        *)
FromZeroTogether(number, zero, header) ==
    IF extended # {} THEN zero ELSE header

(* The number of section zero, when the header has the mark for it.        *)
FromZero(number, zero, header) ==
    IF number \in extended THEN zero ELSE header

(* get_counts_from_sec32_zero and 64: what is extended comes from section  *)
(* zero.  The 64-bit reader always says that it has both numbers.          *)
CountsFromZero ==
    LET have == IF obj.bits = 64 THEN {"strndx", "shnum"} ELSE extended
    IN  /\ pc = "counts"
        /\ in_header # {"strndx", "shnum"}
        /\ Readable(obj.shoff, ShdrSize[obj.bits])
        /\ fdpos' = obj.shoff + ShdrSize[obj.bits]
        /\ shnum' = FromZero("shnum", obj.zero_size, shnum)
        /\ shstrndx' = FromZero("strndx", obj.zero_link, shstrndx)
        /\ in_header' = in_header \cup extended
        /\ finalcount' = IF "shnum" \in have THEN shnum' ELSE shnum
        /\ strings_index' = IF "strndx" \in have THEN shstrndx' ELSE shstrndx
        /\ pc' = "check"
        /\ UNCHANGED <<obj, extended, shdr, shstrings, phdr, used>>

ZeroUnreadable ==
    /\ pc = "counts"
    /\ in_header # {"strndx", "shnum"}
    /\ pc' = "minimum"
    /\ UNCHANGED <<obj, fdpos, ehdr, strings_index, finalcount, shdr, shstrings,
                   phdr, used>>

NoSections ==
    /\ pc = "check"
    /\ finalcount = 0
    /\ pc' = "progheaders"
    /\ UNCHANGED <<obj, fdpos, ehdr, strings_index, finalcount, shdr, shstrings,
                   phdr, used>>

(* A mistake: without a look at the count the product may wrap.            *)
BelievableAnyCount(offset, entsize, count, minimum) ==
    /\ entsize >= minimum
    /\ offset <= obj.filesize
    /\ entsize <= MaxEntSize
    /\ Wrap(count * entsize + offset) <= obj.filesize

(* The references to a table make sense: tested in this order, so that the *)
(* product is that of numbers known to be small.                           *)
Believable(offset, entsize, count, minimum) ==
    /\ entsize >= minimum
    /\ offset <= obj.filesize
    /\ entsize <= MaxEntSize
    /\ count <= obj.filesize
    /\ Wrap(count * entsize + offset) <= obj.filesize

SectHeadersBad ==
    /\ pc = "check"
    /\ finalcount # 0
    /\ ~ Believable(obj.shoff, obj.shentsize, finalcount, ShdrSize[obj.bits])
    /\ pc' = "minimum"
    /\ UNCHANGED <<obj, fdpos, ehdr, strings_index, finalcount, shdr, shstrings,
                   phdr, used>>

SectHeadersGood ==
    /\ pc = "check"
    /\ finalcount # 0
    /\ Believable(obj.shoff, obj.shentsize, finalcount, ShdrSize[obj.bits])
    /\ pc' = "read"
    /\ UNCHANGED <<obj, fdpos, ehdr, strings_index, finalcount, shdr, shstrings,
                   phdr, used>>

(* generic_shdr_from_shdr32 and 64.  The bytes of the whole table are read  *)
(* and the headers are taken from them one structure after another; what    *)
(* lseek answers when asked to move by offset becomes f_fdoffset, and       *)
(* gh_fdoffset counts entries from it.                                      *)
From(offset, size, count) == [i \in 0 .. count - 1 |-> offset + i * size]

ReadSectHeaders ==
    /\ pc = "read"
    /\ Readable(obj.shoff, finalcount * obj.shentsize)
    /\ shdr' = [count |-> finalcount,
                from |-> From(obj.shoff, ShdrSize[obj.bits], finalcount),
                said |-> From(fdpos + obj.shoff, obj.shentsize, finalcount)]
    /\ fdpos' = obj.shoff + finalcount * obj.shentsize
    /\ pc' = "strings"
    /\ UNCHANGED <<obj, ehdr, strings_index, finalcount, shstrings, phdr, used>>

(* No memory, or the read fails.                                           *)
SectHeadersFail ==
    /\ pc = "read"
    /\ pc' = "minimum"
    /\ UNCHANGED <<obj, fdpos, ehdr, strings_index, finalcount, shdr, shstrings,
                   phdr, used>>

(* dwarf_load_elf_sectheaders: the names are loaded from the section with  *)
(* the index (elf_load_sectstrings), or the headers are an error.          *)
LoadStrings ==
    /\ pc = "strings"
    /\ strings_index < shdr.count
    /\ shstrings' = strings_index
    /\ pc' = "progheaders"
    /\ UNCHANGED <<obj, fdpos, ehdr, strings_index, finalcount, shdr, phdr, used>>

NoStrings ==
    /\ pc = "strings"
    /\ pc' = "minimum"
    /\ UNCHANGED <<obj, fdpos, ehdr, strings_index, finalcount, shdr, shstrings,
                   phdr, used>>

-----------------------------------------------------------------------------
(* dwarf_load_elf_progheaders and elf_load_progheaders32 and 64.  Without  *)
(* program headers, or when they are wrong or cannot be read, there is no  *)
(* table and the run goes on.                                              *)
ReadProgHeaders ==
    /\ pc = "progheaders"
    /\ obj.phnum # 0
    /\ Believable(obj.phoff, obj.phentsize, obj.phnum, PhdrSize[obj.bits])
    /\ Readable(obj.phoff, obj.phnum * obj.phentsize)
    /\ phdr' = [count |-> obj.phnum,
                from |-> From(obj.phoff, PhdrSize[obj.bits], obj.phnum),
                said |-> <<>>]
    /\ pc' = "names"
    /\ UNCHANGED <<obj, fdpos, ehdr, strings_index, finalcount, shdr, shstrings,
                   used>>

NoProgHeaders ==
    /\ pc = "progheaders"
    /\ pc' = "names"
    /\ UNCHANGED <<obj, fdpos, ehdr, strings_index, finalcount, shdr, shstrings,
                   phdr, used>>

(* do_one_file gives every section its name, section zero first; what it   *)
(* loads afterwards (module ElfLoad) may fail.                             *)
NameSections ==
    /\ pc = "names"
    /\ IF shdr = NoTable THEN pc' = "crashed"
                         ELSE pc' \in {"requested", "minimum"}
    /\ UNCHANGED <<obj, fdpos, ehdr, strings_index, finalcount, shdr, shstrings,
                   phdr, used>>

(* print_minimum and print_requested print the Elf header, which forgets   *)
(* an index of the names that is too large.                                *)
PrintHeader ==
    /\ pc \in {"minimum", "requested"}
    /\ shstrndx' = IF shstrndx > shnum THEN 0 ELSE shstrndx
    /\ pc' = "sectstrings"
    /\ UNCHANGED <<obj, fdpos, shnum, in_header, extended, strings_index,
                   finalcount, shdr, shstrings, phdr, used>>

(* only_wasted_summary                                                     *)
PrintSummaryOnly ==
    /\ pc = "requested"
    /\ pc' = "done"
    /\ UNCHANGED <<obj, fdpos, ehdr, strings_index, finalcount, shdr, shstrings,
                   phdr, used>>

(* A mistake: an index that is the number of sections is not too large.    *)
HasSectStringsAtCount == shstrndx # 0 /\ shdr # NoTable /\ shstrndx <= shnum

(* elf_print_sectstrings, given ge_shstrndx.                               *)
HasSectStrings == shstrndx # 0 /\ shdr # NoTable /\ shstrndx < shnum

PrintSectStrings ==
    /\ pc = "sectstrings"
    /\ used' = IF HasSectStrings THEN shstrndx ELSE NoSection
    /\ pc' = "done"
    /\ UNCHANGED <<obj, fdpos, ehdr, strings_index, finalcount, shdr, shstrings,
                   phdr>>

Next ==
    \/ ReadHeader \/ NoHeader
    \/ CountsInHeader \/ CountsFromZero \/ ZeroUnreadable
    \/ NoSections \/ SectHeadersBad \/ SectHeadersGood
    \/ ReadSectHeaders \/ SectHeadersFail \/ LoadStrings \/ NoStrings
    \/ ReadProgHeaders \/ NoProgHeaders \/ NameSections
    \/ PrintHeader \/ PrintSummaryOnly \/ PrintSectStrings

Spec == Init /\ [][Next]_vars

-----------------------------------------------------------------------------
(* The tables have as many places as they say; what is read or extended is *)
(* one of the two numbers.                                                 *)
TypeOK ==
    /\ obj \in Object
    /\ pc \in {"start", "counts", "check", "read", "strings", "progheaders",
               "names", "minimum", "requested", "sectstrings", "done", "crashed"}
    /\ fdpos \in Nat
    /\ shnum \in Unsigned /\ shstrndx \in Unsigned
    /\ in_header \subseteq {"strndx", "shnum"}
    /\ extended \subseteq {"strndx", "shnum"}
    /\ strings_index \in Unsigned /\ finalcount \in Unsigned
    /\ \A t \in {shdr, phdr} :
          /\ t.count \in Unsigned
          /\ DOMAIN t.from = 0 .. t.count - 1
          /\ \A i \in DOMAIN t.from : t.from[i] \in Nat
    /\ shstrings \in Unsigned \cup {NoSection}
    /\ used \in Unsigned \cup {NoSection}

(* The tests of the header leave no table that reaches past the file, even *)
(* when the product or the sum would wrap, before memory for it is asked   *)
(* for (elf_load_sectheaders32 and 64); and every structure taken from a   *)
(* table, of sections or of program headers, lies in the bytes read for it *)
(* although the pointer moves by its own size and not that of an entry.    *)
HeadersAreInTheTable ==
    /\ pc = "read" => obj.shoff + finalcount * obj.shentsize <= obj.filesize
    /\ \A i \in DOMAIN shdr.from :
          shdr.from[i] + ShdrSize[obj.bits]
              <= obj.shoff + shdr.count * obj.shentsize
    /\ \A i \in DOMAIN phdr.from :
          phdr.from[i] + PhdrSize[obj.bits]
              <= obj.phoff + phdr.count * obj.phentsize

(* Both readers (get_counts_from_sec32_zero, get_counts_from_sec64_zero)   *)
(* find the numbers that the Elf rules give: that of section zero when the *)
(* header holds the mark for it, else that of the header.                  *)
NumbersAreElfs ==
    shdr # NoTable /\ obj.shoff >= EhdrSize[obj.bits] =>
        /\ shdr.count = IF obj.shnum = 0 THEN obj.zero_size ELSE obj.shnum
        /\ strings_index =
              IF obj.shstrndx = Xindex THEN obj.zero_link ELSE obj.shstrndx

(* The program keeps each number twice: ge_shnum bounds the section        *)
(* numbers that index a table of g_count headers, and the names are loaded *)
(* from f_elf_shstrings_sect_index but printed from ge_shstrndx, which     *)
(* printing may change.  The bound is that of the table, the index printed *)
(* is in it, and it is that of the section loaded.                         *)
BothNumbersAgree ==
    /\ shdr # NoTable => shnum = shdr.count
    /\ shstrings # NoSection => shstrings < shdr.count
    /\ used # NoSection => used < shdr.count
    /\ used # NoSection /\ shstrings # NoSection => used = shstrings

(* "f_fdoffset is the file position of the start of some blob, such as     *)
(* section header" (readelfobj.h:1228): the position printed for a section *)
(* header is where its bytes were read.                                    *)
HdrOffsetIsTheHeaders ==
    obj.shoff >= EhdrSize[obj.bits] =>
        \A i \in DOMAIN shdr.from : shdr.said[i] = shdr.from[i]

=============================================================================
