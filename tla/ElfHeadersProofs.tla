-------------------------- MODULE ElfHeadersProofs --------------------------
(***************************************************************************)
(* What ElfHeaders says of tables and numbers holds for files, fields and  *)
(* sizes of structures of any width that satisfy the assumptions.          *)
(***************************************************************************)
EXTENDS ElfHeaders, Sequences, TLAPS

Both == {"strndx", "shnum"}
ElfShnum == IF obj.shnum = 0 THEN obj.zero_size ELSE obj.shnum
ElfShstrndx == IF obj.shstrndx = Xindex THEN obj.zero_link ELSE obj.shstrndx
Outside == obj.shoff >= EhdrSize[obj.bits]

BeforeTables == {"start", "counts", "check", "read"}
Deciding == {"check", "read", "strings", "progheaders", "names", "requested"}

(* What the header says is remembered until section zero is looked at.     *)
Classified ==
    pc = "counts" =>
        /\ shnum = obj.shnum /\ shstrndx = obj.shstrndx
        /\ Outside => extended = InZero
        /\ Outside => in_header = Both \ extended

ElfNumbers ==
    Outside => finalcount = ElfShnum /\ strings_index = ElfShstrndx

(* Then the two copies are equal, and are those of the Elf rules.          *)
Decided ==
    pc \in Deciding =>
        finalcount = shnum /\ strings_index = shstrndx /\ ElfNumbers

NothingYet ==
    /\ pc \in BeforeTables =>
          shdr = NoTable /\ shstrings = NoSection /\ phdr = NoTable
    /\ pc # "done" => used = NoSection

Fits(offset, entsize, count, minimum) ==
    /\ entsize >= minimum
    /\ offset + count * entsize <= obj.filesize

ToRead ==
    pc = "read" => Fits(obj.shoff, obj.shentsize, finalcount, ShdrSize[obj.bits])

(* A table has the numbers that were decided and the shape of From.        *)
SectTable ==
    shdr # NoTable =>
        /\ shdr.count = shnum /\ shdr.count = finalcount /\ ElfNumbers
        /\ shdr.from = From(obj.shoff, ShdrSize[obj.bits], shdr.count)
        /\ Fits(obj.shoff, obj.shentsize, shdr.count, ShdrSize[obj.bits])

ProgTable ==
    phdr # NoTable =>
        /\ phdr.count = obj.phnum
        /\ phdr.from = From(obj.phoff, PhdrSize[obj.bits], phdr.count)
        /\ Fits(obj.phoff, obj.phentsize, phdr.count, PhdrSize[obj.bits])

(* The names are loaded from the section the header still names, or its    *)
(* printing has forgotten it.                                              *)
Strings ==
    /\ shstrings # NoSection =>
          /\ shdr # NoTable /\ shstrings < shdr.count
          /\ shstrndx \in {shstrings, 0}
    /\ used # NoSection =>
          /\ shdr # NoTable /\ used < shdr.count
          /\ shstrings # NoSection => used = shstrings

Types ==
    /\ obj \in Objects
    /\ pc \in {"start", "counts", "check", "read", "strings", "progheaders",
               "names", "minimum", "requested", "sectstrings", "done", "crashed"}
    /\ fdpos \in Nat
    /\ shnum \in Unsigned /\ shstrndx \in Unsigned
    /\ in_header \subseteq Both /\ extended \subseteq Both
    /\ strings_index \in Unsigned /\ finalcount \in Unsigned
    /\ shdr.count \in Unsigned /\ phdr.count \in Unsigned
    /\ shstrings \in Unsigned \cup {NoSection}
    /\ used \in Unsigned \cup {NoSection}

IInv ==
    /\ Types /\ Classified /\ Decided /\ NothingYet /\ ToRead
    /\ SectTable /\ ProgTable /\ Strings

-----------------------------------------------------------------------------
(* Structures no larger than the entries of a table lie inside it.         *)
LEMMA InTable ==
    ASSUME NEW size \in Nat, NEW entsize \in Nat, NEW count \in Nat,
           NEW i \in 0 .. count - 1, size <= entsize
    PROVE  i * size + size <= count * entsize
<1>1. i \in Nat /\ i + 1 <= count
  OBVIOUS
<1>2. i * size <= i * entsize
  BY <1>1, SMT
<1>3. (i + 1) * entsize = i * entsize + entsize
  BY <1>1, SMT
<1>4. (i + 1) * entsize <= count * entsize
  BY <1>1, SMT
<1>5. i * size \in Nat /\ i * entsize \in Nat /\ count * entsize \in Nat
  BY <1>1, SMT
<1> QED
  BY <1>2, <1>3, <1>4, <1>5, SMT

(* What passes the tests of a table is inside the file: nothing wraps.     *)
LEMMA BelievableFits ==
    ASSUME obj \in Objects, NEW offset \in Nat, NEW entsize \in Nat,
           NEW count \in Nat, NEW minimum \in Nat,
           Believable(offset, entsize, count, minimum)
    PROVE  Fits(offset, entsize, count, minimum)
<1> DEFINE size == obj.filesize
           product == count * entsize
<1>1. size \in Nat /\ MaxEntSize \in Nat /\ Modulus \in Nat
  BY ObjectsAssumption, BoundsAssumption DEF Object
<1>2. size * MaxEntSize + size < Modulus
  BY FilesAssumption
<1>3. offset <= size /\ entsize <= MaxEntSize /\ count <= size
      /\ entsize >= minimum /\ (product + offset) % Modulus <= size
  BY DEF Believable, Wrap
<1>4. product \in Nat /\ size * MaxEntSize \in Nat
  BY <1>1, SMT
<1>5. product <= size * MaxEntSize
  <2>1. count * entsize <= size * entsize
    BY <1>1, <1>3, SMT
  <2>2. size * entsize <= size * MaxEntSize
    BY <1>1, <1>3, SMT
  <2>3. size * entsize \in Nat
    BY <1>1, SMT
  <2> QED
    BY <2>1, <2>2, <2>3, <1>1, <1>4, SMT
<1> HIDE DEF size, product
<1>6. product + offset < Modulus
  BY <1>1, <1>2, <1>3, <1>4, <1>5, SMT
<1>7. (product + offset) % Modulus = product + offset
  BY <1>1, <1>4, <1>6, SMT
<1> QED
  BY <1>1, <1>3, <1>4, <1>7, SMT DEF Fits, size, product

-----------------------------------------------------------------------------
(* The numbers of a file, of its structures and of no table.               *)
LEMMA Numbers ==
    /\ Objects \subseteq Object /\ Xindex \in Nat
    /\ Modulus \in Nat /\ Xindex < Modulus /\ Field \subseteq Unsigned
    /\ \A b \in OffsetSizes : EhdrSize[b] \in Nat /\ ShdrSize[b] \in Nat
                             /\ PhdrSize[b] \in Nat
    /\ NoTable.count = 0 /\ 0 \in Unsigned
    /\ \A n \in Unsigned : n # NoSection
BY ObjectsAssumption, SizesAssumption, BoundsAssumption
   DEF Field, Unsigned, NoTable, NoSection

(* The numbers of a file are natural numbers, and so are those of tables.  *)
LEMMA NaturalNumbers ==
    ASSUME Types
    PROVE  /\ obj \in Object
           /\ obj.shoff \in Nat /\ obj.shentsize \in Nat
           /\ obj.phoff \in Nat /\ obj.phentsize \in Nat
           /\ ShdrSize[obj.bits] \in Nat /\ PhdrSize[obj.bits] \in Nat
           /\ shdr.count \in Nat /\ phdr.count \in Nat
BY Numbers DEF Types, Object, Field, Unsigned

(* The invariant holds of every file before its header is read.            *)
LEMMA InitIInv == Init => IInv
BY Numbers DEF Init, IInv, Types, Classified, Decided, NothingYet, ToRead,
   SectTable, ProgTable, Strings, BeforeTables, Deciding

(* Every step of a run keeps the invariant.                                *)
LEMMA NextIInv == IInv /\ [Next]_vars => IInv'
<1> SUFFICES ASSUME IInv, [Next]_vars PROVE IInv'
  OBVIOUS
<1> USE Numbers DEF ehdr
<1>0. obj \in Object /\ obj.bits \in OffsetSizes
  BY DEF IInv, Types, Object
<1>1. CASE ReadHeader
  <2>1. extended' \subseteq Both /\ in_header' \subseteq Both
    <3>1. CASE obj.shoff < EhdrSize[obj.bits]
      BY <1>1, <3>1 DEF ReadHeader, IInv, Types
    <3>2. CASE ~ (obj.shoff < EhdrSize[obj.bits])
      BY <1>1, <3>2 DEF ReadHeader, Both, InZero
    <3> QED
      BY <3>1, <3>2
  <2>2. fdpos' \in Nat /\ shnum' \in Unsigned /\ shstrndx' \in Unsigned
    BY <1>0, <1>1, Numbers DEF ReadHeader, Object
  <2>3. obj.shnum \in Unsigned /\ obj.shstrndx \in Unsigned
    BY <1>0 DEF Object
  <2>4. Types'
    BY <1>0, <1>1, <2>1, <2>2, <2>3 DEF ReadHeader, IInv, Types, Both
  <2>5. Classified'
    <3>1. CASE Outside
      <4>1. ~ (obj.shoff < EhdrSize[obj.bits])
        BY <1>0, <3>1 DEF Outside, Object, Unsigned
      <4> QED
        BY <1>1, <4>1 DEF ReadHeader, Classified, Both, InZero
    <3>2. CASE ~ Outside
      BY <1>1, <3>2 DEF ReadHeader, Classified, Outside
    <3> QED
      BY <3>1, <3>2
  <2>6. Decided'
    BY <1>0, <1>1, <2>1, <2>2, <2>3 DEF ReadHeader, IInv, Decided, Deciding,
       ElfNumbers, ElfShnum, ElfShstrndx, Outside
  <2>7. NothingYet'
    BY <1>0, <1>1, <2>1, <2>2, <2>3 DEF ReadHeader, IInv, NothingYet,
       BeforeTables
  <2>8. ToRead'
    BY <1>0, <1>1, <2>1, <2>2, <2>3 DEF ReadHeader, IInv, ToRead, Fits
  <2>9. SectTable'
    BY <1>0, <1>1, <2>1, <2>2, <2>3 DEF ReadHeader, IInv, SectTable,
       NothingYet, BeforeTables, ElfNumbers, ElfShnum, ElfShstrndx, Outside,
       Fits
  <2>10. ProgTable'
    BY <1>0, <1>1, <2>1, <2>2, <2>3 DEF ReadHeader, IInv, ProgTable,
       NothingYet, BeforeTables, Fits
  <2>11. Strings'
    BY <1>0, <1>1, <2>1, <2>2, <2>3 DEF ReadHeader, IInv, Strings, NothingYet,
       BeforeTables
  <2> QED
    BY <2>4, <2>5, <2>6, <2>7, <2>8, <2>9, <2>10, <2>11 DEF IInv
<1>2. CASE NoHeader
  BY <1>0, <1>2 DEF NoHeader, IInv, Types, Classified, Decided, NothingYet,
     ToRead, SectTable, ProgTable, Strings,
     Both, InZero, Outside, ElfNumbers, ElfShnum, ElfShstrndx, BeforeTables, Deciding,
     Fits
<1>3. CASE CountsInHeader
  BY <1>0, <1>3 DEF CountsInHeader, IInv, Types, Classified, Decided,
     NothingYet, ToRead, SectTable, ProgTable, Strings,
     Both, InZero, Outside, ElfNumbers, ElfShnum, ElfShstrndx, BeforeTables, Deciding,
     Fits
<1>4. CASE CountsFromZero
  <2>1. /\ obj.zero_size \in Unsigned /\ obj.zero_link \in Unsigned
          /\ obj.shoff \in Nat
    BY <1>0 DEF Object, Unsigned
  <2>2. Types'
    BY <1>0, <1>4, <2>1 DEF CountsFromZero, FromZero, IInv, Types, Both
  <2>3. Classified'
    BY <1>0, <1>4, <2>1 DEF CountsFromZero, FromZero, IInv, Classified, Both,
       Outside
  <2>4. Decided'
    BY <1>0, <1>4, <2>1 DEF CountsFromZero, FromZero, IInv, Decided,
       Classified, InZero, Both, Types, Deciding, ElfNumbers, ElfShnum, ElfShstrndx,
       Outside
  <2>5. NothingYet'
    BY <1>0, <1>4, <2>1 DEF CountsFromZero, FromZero, IInv, NothingYet,
       BeforeTables
  <2>6. ToRead'
    BY <1>0, <1>4, <2>1 DEF CountsFromZero, FromZero, IInv, ToRead, Fits
  <2>7. SectTable'
    BY <1>0, <1>4, <2>1 DEF CountsFromZero, FromZero, IInv, SectTable,
       NothingYet, BeforeTables, ElfNumbers, ElfShnum, ElfShstrndx, Outside,
       Fits
  <2>8. ProgTable'
    BY <1>0, <1>4, <2>1 DEF CountsFromZero, FromZero, IInv, ProgTable,
       NothingYet, BeforeTables, Fits
  <2>9. Strings'
    BY <1>0, <1>4, <2>1 DEF CountsFromZero, FromZero, IInv, Strings,
       NothingYet, BeforeTables
  <2> QED
    BY <2>2, <2>3, <2>4, <2>5, <2>6, <2>7, <2>8, <2>9 DEF IInv
<1>5. CASE ZeroUnreadable
  BY <1>0, <1>5 DEF ZeroUnreadable, IInv, Types, Classified, Decided,
     NothingYet, ToRead, SectTable, ProgTable, Strings,
     Both, InZero, Outside, ElfNumbers, ElfShnum, ElfShstrndx, BeforeTables, Deciding,
     Fits
<1>6. CASE NoSections
  BY <1>0, <1>6 DEF NoSections, IInv, Types, Classified, Decided, NothingYet,
     ToRead, SectTable, ProgTable, Strings,
     Both, InZero, Outside, ElfNumbers, ElfShnum, ElfShstrndx, BeforeTables, Deciding,
     Fits
<1>7. CASE SectHeadersBad
  BY <1>0, <1>7 DEF SectHeadersBad, IInv, Types, Classified, Decided,
     NothingYet, ToRead, SectTable, ProgTable, Strings,
     Both, InZero, Outside, ElfNumbers, ElfShnum, ElfShstrndx, BeforeTables, Deciding,
     Fits
<1>8. CASE SectHeadersGood
  <2>1. Fits(obj.shoff, obj.shentsize, finalcount, ShdrSize[obj.bits])
    <3>1. /\ obj \in Objects /\ finalcount \in Nat
          /\ obj.shoff \in Nat /\ obj.shentsize \in Nat
          /\ ShdrSize[obj.bits] \in Nat
      BY NaturalNumbers DEF IInv, Types, Unsigned
    <3>2. Believable(obj.shoff, obj.shentsize, finalcount, ShdrSize[obj.bits])
      BY <1>8 DEF SectHeadersGood
    <3> QED
      BY <3>1, <3>2, BelievableFits
  <2>2. Types'
    BY <1>0, <1>8, <2>1 DEF SectHeadersGood, IInv, Types, Both
  <2>3. Classified'
    BY <1>0, <1>8, <2>1 DEF SectHeadersGood, IInv, Classified, Both, Outside
  <2>4. Decided'
    BY <1>0, <1>8, <2>1 DEF SectHeadersGood, IInv, Decided, Deciding,
       ElfNumbers, ElfShnum, ElfShstrndx, Outside
  <2>5. NothingYet'
    BY <1>0, <1>8, <2>1 DEF SectHeadersGood, IInv, NothingYet, BeforeTables
  <2>6. ToRead'
    BY <1>0, <1>8, <2>1 DEF SectHeadersGood, IInv, ToRead, Fits
  <2>7. SectTable'
    BY <1>0, <1>8, <2>1 DEF SectHeadersGood, IInv, SectTable, ElfNumbers,
       ElfShnum, ElfShstrndx, Outside, Fits
  <2>8. ProgTable'
    BY <1>0, <1>8, <2>1 DEF SectHeadersGood, IInv, ProgTable, Fits
  <2>9. Strings'
    BY <1>0, <1>8, <2>1 DEF SectHeadersGood, IInv, Strings
  <2> QED
    BY <2>2, <2>3, <2>4, <2>5, <2>6, <2>7, <2>8, <2>9 DEF IInv
<1>9. CASE ReadSectHeaders
  <2>1. obj.shoff \in Nat /\ obj.shentsize \in Nat /\ finalcount \in Nat
    BY <1>0 DEF IInv, Types, Object, Field, Unsigned
  <2>2. fdpos' \in Nat
    BY <1>9, <2>1 DEF ReadSectHeaders
  <2>3. Types'
    BY <1>0, <1>9, <2>1, <2>2 DEF ReadSectHeaders, IInv, Types, From, Both
  <2>4. Classified'
    BY <1>0, <1>9, <2>1, <2>2 DEF ReadSectHeaders, IInv, Classified, Both,
       Outside
  <2>5. Decided'
    BY <1>0, <1>9, <2>1, <2>2 DEF ReadSectHeaders, IInv, Decided, Deciding,
       ElfNumbers, ElfShnum, ElfShstrndx, Outside
  <2>6. NothingYet'
    BY <1>0, <1>9, <2>1, <2>2 DEF ReadSectHeaders, IInv, NothingYet,
       BeforeTables
  <2>7. ToRead'
    BY <1>0, <1>9, <2>1, <2>2 DEF ReadSectHeaders, IInv, ToRead, Fits
  <2>8. SectTable'
    BY <1>0, <1>9, <2>1, <2>2 DEF ReadSectHeaders, IInv, SectTable, ToRead,
       Decided, Deciding, Types, ElfNumbers, ElfShnum, ElfShstrndx, Outside,
       Fits
  <2>9. ProgTable'
    BY <1>0, <1>9, <2>1, <2>2 DEF ReadSectHeaders, IInv, ProgTable, Fits
  <2>10. Strings'
    BY <1>0, <1>9, <2>1, <2>2 DEF ReadSectHeaders, IInv, Strings, NothingYet,
       BeforeTables
  <2> QED
    BY <2>3, <2>4, <2>5, <2>6, <2>7, <2>8, <2>9, <2>10 DEF IInv
<1>10. CASE SectHeadersFail
  BY <1>0, <1>10 DEF SectHeadersFail, IInv, Types, Classified, Decided,
     NothingYet, ToRead, SectTable, ProgTable, Strings,
     Both, InZero, Outside, ElfNumbers, ElfShnum, ElfShstrndx, BeforeTables, Deciding,
     Fits
<1>11. CASE LoadStrings
  <2>1. Types'
    BY <1>0, <1>11 DEF LoadStrings, IInv, Types, Both
  <2>2. Classified'
    BY <1>0, <1>11 DEF LoadStrings, IInv, Classified, Both, Outside
  <2>3. Decided'
    BY <1>0, <1>11 DEF LoadStrings, IInv, Decided, Deciding, ElfNumbers,
       ElfShnum, ElfShstrndx, Outside
  <2>4. NothingYet'
    BY <1>0, <1>11 DEF LoadStrings, IInv, NothingYet, BeforeTables
  <2>5. ToRead'
    BY <1>0, <1>11 DEF LoadStrings, IInv, ToRead, Fits
  <2>6. SectTable'
    BY <1>0, <1>11 DEF LoadStrings, IInv, SectTable, ElfNumbers, ElfShnum,
       ElfShstrndx, Outside, Fits
  <2>7. ProgTable'
    BY <1>0, <1>11 DEF LoadStrings, IInv, ProgTable, Fits
  <2>8. Strings'
    BY <1>0, <1>11 DEF LoadStrings, IInv, Strings, NothingYet, Decided,
       Deciding, Types, Unsigned
  <2> QED
    BY <2>1, <2>2, <2>3, <2>4, <2>5, <2>6, <2>7, <2>8 DEF IInv
<1>12. CASE NoStrings
  BY <1>0, <1>12 DEF NoStrings, IInv, Types, Classified, Decided, NothingYet,
     ToRead, SectTable, ProgTable, Strings,
     Both, InZero, Outside, ElfNumbers, ElfShnum, ElfShstrndx, BeforeTables, Deciding,
     Fits
<1>13. CASE ReadProgHeaders
  <2>1. obj.phoff \in Nat /\ obj.phentsize \in Nat /\ obj.phnum \in Nat
    BY <1>0 DEF Object, Field, Unsigned
  <2>2. Fits(obj.phoff, obj.phentsize, obj.phnum, PhdrSize[obj.bits])
    BY <1>0, <1>13, <2>1, BelievableFits DEF ReadProgHeaders, IInv, Types
  <2>3. obj.phnum \in Unsigned
    BY <1>0 DEF Object
  <2>4. Types'
    BY <1>0, <1>13, <2>1, <2>2, <2>3 DEF ReadProgHeaders, IInv, Types, Both
  <2>5. Classified'
    BY <1>0, <1>13, <2>1, <2>2, <2>3 DEF ReadProgHeaders, IInv, Classified,
       Both, Outside
  <2>6. Decided'
    BY <1>0, <1>13, <2>1, <2>2, <2>3 DEF ReadProgHeaders, IInv, Decided,
       Deciding, ElfNumbers, ElfShnum, ElfShstrndx, Outside
  <2>7. NothingYet'
    BY <1>0, <1>13, <2>1, <2>2, <2>3 DEF ReadProgHeaders, IInv, NothingYet,
       BeforeTables
  <2>8. ToRead'
    BY <1>0, <1>13, <2>1, <2>2, <2>3 DEF ReadProgHeaders, IInv, ToRead, Fits
  <2>9. SectTable'
    BY <1>0, <1>13, <2>1, <2>2, <2>3 DEF ReadProgHeaders, IInv, SectTable,
       ElfNumbers, ElfShnum, ElfShstrndx, Outside, Fits
  <2>10. ProgTable'
    BY <1>0, <1>13, <2>1, <2>2, <2>3 DEF ReadProgHeaders, IInv, ProgTable, Fits
  <2>11. Strings'
    BY <1>0, <1>13, <2>1, <2>2, <2>3 DEF ReadProgHeaders, IInv, Strings
  <2> QED
    BY <2>4, <2>5, <2>6, <2>7, <2>8, <2>9, <2>10, <2>11 DEF IInv
<1>14. CASE NoProgHeaders
  BY <1>0, <1>14 DEF NoProgHeaders, IInv, Types, Classified, Decided,
     NothingYet, ToRead, SectTable, ProgTable, Strings,
     Both, InZero, Outside, ElfNumbers, ElfShnum, ElfShstrndx, BeforeTables, Deciding,
     Fits
<1>15. CASE NameSections
  BY <1>0, <1>15 DEF NameSections, IInv, Types, Classified, Decided,
     NothingYet, ToRead, SectTable, ProgTable, Strings,
     Both, InZero, Outside, ElfNumbers, ElfShnum, ElfShstrndx, BeforeTables, Deciding,
     Fits
<1>16. CASE PrintHeader
  BY <1>0, <1>16 DEF PrintHeader, IInv, Types, Classified, Decided, NothingYet,
     ToRead, SectTable, ProgTable, Strings,
     Both, InZero, Outside, ElfNumbers, ElfShnum, ElfShstrndx, BeforeTables, Deciding,
     Fits
<1>17. CASE PrintSummaryOnly
  BY <1>0, <1>17 DEF PrintSummaryOnly, IInv, Types, Classified, Decided,
     NothingYet, ToRead, SectTable, ProgTable, Strings,
     Both, InZero, Outside, ElfNumbers, ElfShnum, ElfShstrndx, BeforeTables, Deciding,
     Fits
<1>18. CASE PrintSectStrings
  <2>1. used' \in Unsigned \cup {NoSection}
    BY <1>18 DEF PrintSectStrings, IInv, Types
  <2>2. Types'
    BY <1>0, <1>18, <2>1 DEF PrintSectStrings, IInv, Types, Both
  <2>3. Classified'
    BY <1>0, <1>18, <2>1 DEF PrintSectStrings, IInv, Classified, Both, Outside
  <2>4. Decided'
    BY <1>0, <1>18, <2>1 DEF PrintSectStrings, IInv, Decided, Deciding,
       ElfNumbers, ElfShnum, ElfShstrndx, Outside
  <2>5. NothingYet'
    BY <1>0, <1>18, <2>1 DEF PrintSectStrings, IInv, NothingYet, BeforeTables
  <2>6. ToRead'
    BY <1>0, <1>18, <2>1 DEF PrintSectStrings, IInv, ToRead, Fits
  <2>7. SectTable'
    BY <1>0, <1>18, <2>1 DEF PrintSectStrings, IInv, SectTable, ElfNumbers,
       ElfShnum, ElfShstrndx, Outside, Fits
  <2>8. ProgTable'
    BY <1>0, <1>18, <2>1 DEF PrintSectStrings, IInv, ProgTable, Fits
  <2>9. Strings'
    BY <1>0, <1>18, <2>1 DEF PrintSectStrings, IInv, Strings, NothingYet,
       SectTable, HasSectStrings
  <2> QED
    BY <2>2, <2>3, <2>4, <2>5, <2>6, <2>7, <2>8, <2>9 DEF IInv
<1>19. CASE UNCHANGED vars
  BY <1>19 DEF vars, IInv, Types, Classified, Decided, NothingYet, ToRead,
     SectTable, ProgTable, Strings,
     Both, InZero, Outside, ElfNumbers, ElfShnum, ElfShstrndx, BeforeTables, Deciding,
     Fits
<1> QED
  BY <1>1, <1>2, <1>3, <1>4, <1>5, <1>6, <1>7, <1>8, <1>9, <1>10, <1>11, <1>12,
     <1>13, <1>14, <1>15, <1>16, <1>17, <1>18, <1>19 DEF Next

-----------------------------------------------------------------------------
(* Every state of a run satisfies the invariant: what was decided when the *)
(* counts were read is still so when the names are printed.                *)
THEOREM Invariant == Spec => []IInv
BY InitIInv, NextIInv, PTL DEF Spec

(* A table made by From has a place for each of its entries.               *)
LEMMA PlacesOfFrom ==
    ASSUME NEW offset \in Nat, NEW size \in Nat, NEW count \in Nat
    PROVE  /\ DOMAIN From(offset, size, count) = 0 .. count - 1
           /\ \A i \in 0 .. count - 1 :
                 /\ From(offset, size, count)[i] = offset + i * size
                 /\ From(offset, size, count)[i] \in Nat
<1>1. \A i \in 0 .. count - 1 : i * size \in Nat
  BY SMT
<1> QED
  BY <1>1, SMT DEF From

(* In a table that fits no structure leaves the entries.                   *)
LEMMA PlacesFit ==
    ASSUME NEW offset \in Nat, NEW size \in Nat, NEW entsize \in Nat,
           NEW count \in Nat, Fits(offset, entsize, count, size)
    PROVE  \A i \in 0 .. count - 1 :
               From(offset, size, count)[i] + size <= offset + count * entsize
<1> SUFFICES ASSUME NEW i \in 0 .. count - 1
             PROVE  From(offset, size, count)[i] + size <= offset + count * entsize
  OBVIOUS
<1>1. size <= entsize
  BY DEF Fits
<1>2. i * size + size <= count * entsize
  BY <1>1, InTable
<1>3. i * size \in Nat /\ count * entsize \in Nat
  BY SMT
<1>4. From(offset, size, count)[i] = offset + i * size
  BY PlacesOfFrom
<1> QED
  BY <1>2, <1>3, <1>4, SMT

(* The table that was not read has no places.                              *)
LEMMA NoPlaces == DOMAIN NoTable.from = {} /\ 0 .. NoTable.count - 1 = {}
<1>1. NoTable.from = <<>> /\ NoTable.count = 0
  BY DEF NoTable
<1>2. 0 .. 0 - 1 = {}
  BY SMT
<1>3. DOMAIN <<>> = {}
  <2>1. <<>> \in Seq({}) /\ Len(<<>>) = 0
    BY SMT
  <2>2. DOMAIN <<>> = 1 .. Len(<<>>)
    BY <2>1, SMT
  <2> QED
    BY <2>1, <2>2, SMT
<1> QED
  BY <1>1, <1>2, <1>3

(* Every variable keeps its type: tables have as many places as they say,  *)
(* whatever the file.                                                      *)
THEOREM TypeCorrect == Spec => []TypeOK
<1>1. IInv => TypeOK
  <2> SUFFICES ASSUME IInv PROVE TypeOK
    OBVIOUS
  <2>1. Types
    BY DEF IInv
  <2>2. /\ DOMAIN shdr.from = 0 .. shdr.count - 1
        /\ \A i \in DOMAIN shdr.from : shdr.from[i] \in Nat
    <3>1. CASE shdr = NoTable
      BY <3>1, NoPlaces
    <3>2. CASE shdr # NoTable
      <4>1. shdr.from = From(obj.shoff, ShdrSize[obj.bits], shdr.count)
        BY <3>2 DEF IInv, SectTable
      <4>2. /\ obj.shoff \in Nat /\ ShdrSize[obj.bits] \in Nat
            /\ shdr.count \in Nat
        BY <2>1, NaturalNumbers
      <4>3. DOMAIN From(obj.shoff, ShdrSize[obj.bits], shdr.count) = 0 ..
      shdr.count - 1
        BY <4>2, PlacesOfFrom
      <4>4. \A i \in 0 .. shdr.count - 1 : From(obj.shoff, ShdrSize[obj.bits],
      shdr.count)[i] \in Nat
        BY <4>2, PlacesOfFrom
      <4> QED
        BY <4>1, <4>3, <4>4
    <3> QED
      BY <3>1, <3>2
  <2>3. /\ DOMAIN phdr.from = 0 .. phdr.count - 1
        /\ \A i \in DOMAIN phdr.from : phdr.from[i] \in Nat
    <3>1. CASE phdr = NoTable
      BY <3>1, NoPlaces
    <3>2. CASE phdr # NoTable
      <4>1. phdr.from = From(obj.phoff, PhdrSize[obj.bits], phdr.count)
        BY <3>2 DEF IInv, ProgTable
      <4>2. /\ obj.phoff \in Nat /\ PhdrSize[obj.bits] \in Nat
            /\ phdr.count \in Nat
        BY <2>1, NaturalNumbers
      <4>3. DOMAIN From(obj.phoff, PhdrSize[obj.bits], phdr.count) = 0 ..
      phdr.count - 1
        BY <4>2, PlacesOfFrom
      <4>4. \A i \in 0 .. phdr.count - 1 : From(obj.phoff, PhdrSize[obj.bits],
      phdr.count)[i] \in Nat
        BY <4>2, PlacesOfFrom
      <4> QED
        BY <4>1, <4>3, <4>4
    <3> QED
      BY <3>1, <3>2
  <2> QED
    BY <2>1, <2>2, <2>3, Numbers DEF TypeOK, Types, Both
<1> QED
  BY <1>1, Invariant, PTL

(* No table that is read reaches past the file although its size is        *)
(* computed modulo Modulus, and no structure is taken from beyond the      *)
(* bytes that were read.                                                   *)
THEOREM TablesAreBounded == Spec => []HeadersAreInTheTable
<1>1. IInv => HeadersAreInTheTable
  <2> SUFFICES ASSUME IInv PROVE HeadersAreInTheTable
    OBVIOUS
  <2>1. Types
    BY DEF IInv
  <2>2. pc = "read" => obj.shoff + finalcount * obj.shentsize <= obj.filesize
    BY DEF IInv, ToRead, Fits
  <2>3. \A i \in DOMAIN shdr.from :
            shdr.from[i] + ShdrSize[obj.bits]
                <= obj.shoff + shdr.count * obj.shentsize
    <3>1. CASE shdr = NoTable
      BY <3>1, NoPlaces
    <3>2. CASE shdr # NoTable
      <4>1. /\ shdr.from = From(obj.shoff, ShdrSize[obj.bits], shdr.count)
            /\ Fits(obj.shoff, obj.shentsize, shdr.count, ShdrSize[obj.bits])
        BY <3>2 DEF IInv, SectTable
      <4>2. /\ obj.shoff \in Nat /\ ShdrSize[obj.bits] \in Nat
            /\ obj.shentsize \in Nat /\ shdr.count \in Nat
        BY <2>1, NaturalNumbers
      <4>3. DOMAIN From(obj.shoff, ShdrSize[obj.bits], shdr.count)
                = 0 .. shdr.count - 1
        BY <4>2, PlacesOfFrom, Zenon
      <4>4. DOMAIN shdr.from = 0 .. shdr.count - 1
        BY <4>1, <4>3, Zenon
      <4> QED
        BY <4>1, <4>2, <4>4, PlacesFit
    <3> QED
      BY <3>1, <3>2
  <2>4. \A i \in DOMAIN phdr.from :
            phdr.from[i] + PhdrSize[obj.bits]
                <= obj.phoff + phdr.count * obj.phentsize
    <3>1. CASE phdr = NoTable
      BY <3>1, NoPlaces
    <3>2. CASE phdr # NoTable
      <4>1. /\ phdr.from = From(obj.phoff, PhdrSize[obj.bits], phdr.count)
            /\ Fits(obj.phoff, obj.phentsize, phdr.count, PhdrSize[obj.bits])
        BY <3>2 DEF IInv, ProgTable
      <4>2. /\ obj.phoff \in Nat /\ PhdrSize[obj.bits] \in Nat
            /\ obj.phentsize \in Nat /\ phdr.count \in Nat
        BY <2>1, NaturalNumbers
      <4>3. DOMAIN From(obj.phoff, PhdrSize[obj.bits], phdr.count)
                = 0 .. phdr.count - 1
        BY <4>2, PlacesOfFrom, Zenon
      <4>4. DOMAIN phdr.from = 0 .. phdr.count - 1
        BY <4>1, <4>3, Zenon
      <4> QED
        BY <4>1, <4>2, <4>4, PlacesFit
    <3> QED
      BY <3>1, <3>2
  <2> QED
    BY <2>2, <2>3, <2>4 DEF HeadersAreInTheTable
<1> QED
  BY <1>1, Invariant, PTL

(* Both readers find the numbers the Elf rules give.                       *)
THEOREM NumbersCorrect == Spec => []NumbersAreElfs
<1>1. IInv => NumbersAreElfs
  BY DEF IInv, SectTable, ElfNumbers, ElfShnum, ElfShstrndx, Outside,
     NumbersAreElfs
<1> QED
  BY <1>1, Invariant, PTL

(* The two copies of each number do not come apart where they are used.    *)
THEOREM CopiesAgree == Spec => []BothNumbersAgree
<1>1. IInv => BothNumbersAgree
  BY DEF IInv, SectTable, Strings, BothNumbersAgree
<1> QED
  BY <1>1, Invariant, PTL

=============================================================================
