------------------------------ MODULE ElfNaming ------------------------------
(***************************************************************************)
(* The names of the constants of Elf, dwarf_elf_naming.c: tables of a name *)
(* and a number, looked up by three functions that append what they find   *)
(* to a dwarfstring.                                                       *)
(*                                                                         *)
(* A table is the sequence of its numbers, in the order of the source; its *)
(* k-th name is the one character NameOf(k).  Numbers past 2^31 - 1 are    *)
(* written as their two's complement, which a test for equality does not   *)
(* tell apart.  A number that is a set of flags is the set of its bits.    *)
(***************************************************************************)
EXTENDS StringFormat

CONSTANTS
    Machines,    \* values of e_machine looked up
    Numbers,     \* values looked up in the other tables
    Flags        \* values of sh_flags looked up, each a set of bits

ASSUME NumbersAssumption == Machines \cup Numbers \subseteq Nat

NameOf(k) == 256 + k
Open == 40
Close == 41
Unknown == -2            \* "Unknown ", "Unknown em_machine "
Hex == -3                \* " 0x", " (0x"

Upto(a, b) == [k \in 1 .. b - a + 1 |-> a + k - 1]
Os == 1610612736         \* 0x60000000
Proc == 1879048192       \* 0x70000000
Topmost == 2147483647    \* 0x7fffffff

-----------------------------------------------------------------------------
(* The tables.                                                             *)
EmOutOfOrder ==
    Upto(0, 10) \o <<15>> \o Upto(17, 23) \o Upto(36, 120) \o Upto(131, 142)
      \o <<183>> \o Upto(160, 168) \o <<168>> \o Upto(169, 181)
      \o Upto(185, 188) \o Upto(190, 219)
      \o <<224, 243, 244, 247, 252, 258, 16727>>

emvals ==
    Upto(0, 10) \o <<15>> \o Upto(17, 23) \o Upto(36, 120) \o Upto(131, 142)
      \o Upto(160, 168) \o <<168>> \o Upto(169, 181) \o <<183>>
      \o Upto(185, 188) \o Upto(190, 219)
      \o <<224, 243, 244, 247, 252, 258, 16727>>

dtvals ==
    Upto(0, 30) \o <<32, 32, 33, Os, Proc - 1, Proc, Topmost>>
      \o Upto(Os + 15, Os + 18)
      \o <<Proc - 267, Proc - 6, Proc - 5, Proc - 16, Proc - 4, Proc - 3>>
      \o <<Proc - 1, Proc, Proc + 1, Proc + 2>>
      \o Upto(Proc + 1, Proc + 11) \o Upto(Proc + 16, Proc + 20)
      \o Upto(Proc + 22, Proc + 30) \o Upto(Proc + 32, Proc + 50)
      \o <<Proc + 52, Proc + 53>> \o Upto(Topmost - 2, Topmost)
      \o <<Proc - 768>> \o Upto(Proc - 523, Proc - 513)
      \o <<Proc - 513, Proc - 512>> \o Upto(Proc - 266, Proc - 257)
      \o <<Proc - 257, Proc - 7, Proc - 2>> \o <<Proc, Proc + 1>>
      \o Upto(Proc, Proc + 3) \o <<Proc + 1>>

pt_vals ==
    Upto(0, 7) \o <<Os, Proc - 1, Proc, Topmost>>
      \o <<1685382480, 1685382480, 1684333904, 1685382481, 1685382482>>
      \o <<1705237478, 1705237479, 1694766464, 1705253862>>
      \o <<Proc, Proc + 1, Proc + 1>> \o Upto(Proc, Proc + 3) \o <<Proc>>

sht_vals ==
    Upto(0, 11) \o Upto(14, 18) \o Upto(Os, Os + 2)
      \o <<Proc - 46080, Proc - 11, Proc - 10, Proc - 3, Proc - 2>>
      \o <<Proc - 1, Proc - 1>> \o Upto(Proc, Proc + 5) \o <<Proc, Proc + 1>>
      \o <<Proc + 6, Proc + 13, Proc + 30, Proc + 42, Topmost, -Topmost - 1, -1>>

sto_vals == Upto(0, 4) \o <<8, 32, 128, 240, 5, 224>>

shn_vals ==
    <<0, 65280, 65280, 65311, 65312, 65343, 65521, 65522, 65535, 65535>>
      \o Upto(65280, 65284)

stb_vals == <<0, 1, 2, 10, 10, 12, 13, 15>>

stt_vals == Upto(0, 6) \o <<10, 10, 12, 13, 15, 10>>

osabi_vals ==
    Upto(0, 3) \o <<3, 4>> \o Upto(6, 17)
      \o <<64, 64, 65, 66, 97, 64, 65, 255, 255>>

shf_vals ==
    <<{0}, {1}, {2}>> \o [k \in 1 .. 8 |-> {k + 3}]
      \o <<{31}, 20 .. 27, 28 .. 31, {28}, {29}, {28}, {28}>>
      \o [k \in 1 .. 8 |-> {k + 23}] \o <<{29}>>

Tables == [dt  |-> dtvals,   pt  |-> pt_vals,  sht |-> sht_vals,
           sto |-> sto_vals, shn |-> shn_vals, stb |-> stb_vals,
           stt |-> stt_vals, osabi |-> osabi_vals]

-----------------------------------------------------------------------------
(* "Unknown %u" and " 0x%x)": two calls of dwarfstring_append_printf_u.    *)
UnknownNumber(opened, n) ==
    LET bare(prefix, conv, suffix) ==
            [prefix |-> prefix, percent |-> TRUE, minus |-> FALSE, plus |-> FALSE,
             zero |-> FALSE, width |-> 0, ells |-> 0, conv |-> conv, suffix |-> suffix]
    IN  PiecesU(bare(opened \o <<Unknown>>, {"u"}, <<>>), n) \o
        PiecesU(bare(<<Hex>>, {"x"}, <<Close>>), n)

(* The names at the given places of a table of n entries, in order, with a *)
(* blank between them.                                                     *)
NamesAt(n, places) ==
    LET upto[k \in 0 .. n] ==
            IF k = 0 THEN <<>>
            ELSE IF k \notin places THEN upto[k - 1]
            ELSE upto[k - 1] \o (IF upto[k - 1] = <<>> THEN <<>> ELSE Piece(<<Space>>))
                             \o Piece(<<NameOf(k)>>)
    IN  upto[n]

standard_table_name(table, value) ==
    LET places == {k \in DOMAIN table : table[k] = value} IN
    Piece(<<Open>>) \o
    IF places = {} THEN UnknownNumber(<<Open>>, value)
    ELSE NamesAt(Len(table), places) \o Piece(<<Close>>)

(* Every entry all of whose bits are in the value.  When there is none the *)
(* number shown is that of the entry that ends the table.                  *)
standard_bitmap_table_name(table, value) ==
    LET places == {k \in DOMAIN table : table[k] \subseteq value} IN
    Piece(<<Open>>) \o
    IF places = {} THEN UnknownNumber(<<Open>>, 0)
    ELSE NamesAt(Len(table), places) \o Piece(<<Close>>)

(* The table is read up to the first number that is not below the value.   *)
(* When that is not the value's, it is the number shown as unknown; past   *)
(* the table it is the 0 of the entry that ends it.                        *)
MachineName(value) ==
    LET stops == {k \in DOMAIN emvals : value <= emvals[k]}
        stop == Min(stops)
    IN  CASE stops = {} -> UnknownNumber(<<>>, 0)
          [] stops # {} /\ emvals[stop] = value -> Piece(<<NameOf(stop)>>)
          [] OTHER -> UnknownNumber(<<>>, emvals[stop])

-----------------------------------------------------------------------------
dwarf_get_elf_machine_name ==
    \E value \in Machines :
        /\ Ready
        /\ Appends(MachineName(value), [op |-> "machine", value |-> value])

(* dwarf_get_elf_dynamic_table_name and the seven others like it.          *)
dwarf_get_elf_table_name ==
    \E t \in DOMAIN Tables, value \in Numbers :
        /\ Ready
        /\ Appends(standard_table_name(Tables[t], value),
                   [op |-> "table", table |-> t, value |-> value])

dwarf_get_elf_section_header_flag_names ==
    \E value \in Flags :
        /\ Ready
        /\ Appends(standard_bitmap_table_name(shf_vals, value),
                   [op |-> "flags", value |-> value])

NamingNext ==
    \/ dwarfstring_append
    \/ dwarfstring_append_printf_s
    \/ dwarfstring_append_printf_i
    \/ dwarfstring_append_printf_u
    \/ dwarfstring_reset
    \/ dwarf_get_elf_machine_name
    \/ dwarf_get_elf_table_name
    \/ dwarf_get_elf_section_header_flag_names

-----------------------------------------------------------------------------
Shown == SubSeq(text, Len(before) + 1, Len(text))
NamesIn(s) == {s[i] - NameOf(0) : i \in {j \in DOMAIN s : s[j] > NameOf(0)}}

(* While memory lasts, a lookup appends names exactly of the entries that  *)
(* have the number: all of them for a table that is read to its end, the   *)
(* first for the machines, which are read only until their order says the  *)
(* number cannot come; and every entry whose flags are all set.            *)
NamesAreTheNumbers ==
    ~lost =>
      /\ call.op = "machine" =>
            LET places == {k \in DOMAIN emvals : emvals[k] = call.value} IN
            NamesIn(Shown) = IF places = {} THEN {} ELSE {Min(places)}
      /\ call.op = "table" =>
            LET table == Tables[call.table] IN
            /\ NamesIn(Shown) = {k \in DOMAIN table : table[k] = call.value}
            /\ NamesIn(Shown) = {} =>
                 IsPrefix(<<Open, Open, Unknown>> \o Digits(call.value, 10, 97)
                             \o <<Hex>>, Shown)
      /\ call.op = "flags" =>
            /\ NamesIn(Shown) = {k \in DOMAIN shf_vals :
                                    \A b \in shf_vals[k] : b \in call.value}
            /\ NamesIn(Shown) # {} => Head(Shown) = Open /\ Last(Shown) = Close

=============================================================================
