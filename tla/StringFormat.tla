---------------------------- MODULE StringFormat ----------------------------
(***************************************************************************)
(* The printf-like calls of dwarf_string.c: dwarfstring_append_printf_s,   *)
(* _i and _u, which append a string, a signed or an unsigned number to a   *)
(* dwarfstring in the way a format says.                                   *)
(*                                                                         *)
(* A call is a series of dwarfstring_append_length calls.  Module          *)
(* DwarfString models what each of them does to memory; here one either    *)
(* appends its characters or, when memory is refused, leaves the text as   *)
(* it was.  The values the calls return are left out: no caller looks at   *)
(* them.  A character is its ASCII code.                                   *)
(***************************************************************************)
EXTENDS Integers, Sequences, SequencesExt, FiniteSetsExt

CONSTANTS
    Formats,     \* formats, read into their parts
    Words,       \* strings given for %s
    Bits,        \* width of dwarfstring_i and dwarfstring_u
    Signed,      \* values tried for %d
    Unsigned,    \* values tried for %u, %x, %X
    Chunk,       \* blanks or zeros appended at a time (39 and 40 in the code)
    MaxText,     \* bound: strings are appended to texts at most this long
    MaxRefused   \* bound: appends of one call that memory is refused for

ASSUME FormatsAssumption ==
    /\ Formats \subseteq [prefix : Seq(Nat), percent : BOOLEAN, minus : BOOLEAN,
                          plus : BOOLEAN, zero : BOOLEAN, width : Nat, ells : Nat,
                          conv : SUBSET {"s", "d", "u", "x", "X"}, suffix : Seq(Nat)]
    /\ Words \subseteq Seq(Nat)
ASSUME ValuesAssumption == /\ Signed \subseteq -(2^(Bits-1)) .. 2^(Bits-1) - 1
                           /\ Unsigned \subseteq 0 .. 2^Bits - 1
ASSUME ChunkAssumption == Chunk \in Nat \ {0} /\ MaxText \in Nat

VARIABLES
    text,      \* the characters of the dwarfstring
    before,    \* those it had before the last call
    call,      \* the last call: its name and arguments
    lost       \* was memory refused to a part of it?

formatVars == <<text, before, call, lost>>

Space == 32
Plus == 43
Minus == 45
Zero == 48
ErrorMark == -1          \* "<DWARFSTRINGERR: ...>"

-----------------------------------------------------------------------------
(* A piece is one append; a chained one is made only if the append before  *)
(* it succeeded, and so fails with the one its chain hangs on.             *)
Piece(s) == <<[chars |-> s, chained |-> FALSE]>>
Chained(s) == <<[chars |-> s, chained |-> TRUE]>>
Fill(n, ch) == [k \in 1 .. n |-> ch]

Kept(pieces, refused) ==
    {k \in 1 .. Len(pieces) :
        \A j \in refused \cap 1 .. k : \E m \in j + 1 .. k : ~pieces[m].chained}

AppendAll(pieces, refused) ==
    FlattenSeq([k \in 1 .. Len(pieces) |->
                  IF k \in Kept(pieces, refused) THEN pieces[k].chars ELSE <<>>])

(* The pieces are appended, but for those memory is refused for.           *)
Appends(pieces, c) ==
    \E n \in 0 .. MaxRefused :
    \E refused \in kSubset(n, {k \in 1 .. Len(pieces) : pieces[k].chars # <<>>}) :
        /\ text' = text \o AppendAll(pieces, refused)
        /\ before' = text
        /\ call' = c
        /\ lost' = (refused # {})

(* _dwarfstring_append_spaces and _zeros: a chunk at a time, up to the     *)
(* first that fails.                                                       *)
Pad(n, ch) ==
    LET chunks == IF n = 0 THEN 1 ELSE (n + Chunk - 1) \div Chunk IN
    [k \in 1 .. chunks |->
        [chars |-> Fill(IF k < chunks THEN Chunk ELSE n - Chunk * (chunks - 1), ch),
         chained |-> k > 1]]

(* The digits of a number, and the number with the sign it is shown with.  *)
Digits(n, base, letter) ==
    LET digit(d) == IF d < 10 THEN Zero + d ELSE letter + d - 10
        digits[m \in 0 .. n] ==
            IF m < base THEN <<digit(m)>>
            ELSE Append(digits[m \div base], digit(m % base))
    IN  digits[n]

(* The least number is its own negation on the machine; its text is ready  *)
(* made (v64m, v32m), sign and all, and is copied without its NUL.         *)
Least == -(2^(Bits-1))
Negated(v) == IF v = Least THEN v ELSE -v

LeastWithItsNul == <<Minus>> \o Digits(-Least, 10, 97) \o <<0>>

LeastWritten == <<Minus>> \o Digits(-Least, 10, 97)

Decimal(v, plus) ==
    CASE v < 0 /\ v = Least -> LeastWritten
      [] v < 0 /\ v # Least -> <<Minus>> \o Digits(Negated(v), 10, 97)
      [] v >= 0 /\ plus     -> <<Plus>> \o Digits(v, 10, 97)
      [] OTHER              -> Digits(v, 10, 97)

-----------------------------------------------------------------------------
(* A format: what stands before the %, whether there is one, its flags,    *)
(* the width (0 when there is none), the number of l's, the set of         *)
(* conversion letters, and what stands behind them.                        *)
PiecesS(f, s) ==
    Piece(f.prefix) \o
    IF ~f.percent \/ f.conv # {"s"} \/ f.ells # 0 THEN Piece(<<ErrorMark>>)
    ELSE LET left == f.minus /\ (f.width = 0 \/ f.width > Len(s))
             short == f.width # 0 /\ f.width < Len(s)
             blanks == IF f.width > Len(s) THEN f.width - Len(s) ELSE 0
         IN  CASE left  -> Piece(s) \o Pad(blanks, Space) \o Piece(f.suffix)
               [] short -> Piece(s) \o Piece(f.suffix)
               [] OTHER -> [k \in 1 .. blanks |-> Piece(<<Space>>)[1]]
                               \o Piece(s) \o Chained(f.suffix)

Refused(f, convs) ==
    ~f.percent \/ f.conv \notin convs \/ f.ells > 2

(* A %+ and a %- are both read, but not together; a %- by itself changes   *)
(* nothing.                                                                *)
RefusedI(f) == Refused(f, {{"d"}}) \/ (f.plus /\ f.minus)

SignBehindZeros(digits, f) ==
    LET n == f.width - Len(digits) IN
    IF n <= 0 THEN Piece(digits)
    ELSE Pad(n, IF f.zero THEN Zero ELSE Space) \o Piece(digits)

PaddedNumber(digits, f) ==
    LET n == f.width - Len(digits)
        signed == digits[1] \in {Plus, Minus}
    IN  CASE n <= 0           -> Piece(digits)
          [] n > 0 /\ ~f.zero -> Pad(n, Space) \o Piece(digits)
          [] n > 0 /\ f.zero /\ signed ->
                Piece(<<digits[1]>>) \o Pad(n, Zero) \o Piece(Tail(digits))
          [] OTHER            -> Pad(n, Zero) \o Piece(digits)

PiecesI(f, v) ==
    Piece(f.prefix) \o
    IF RefusedI(f) THEN Piece(<<ErrorMark>>)
    ELSE PaddedNumber(Decimal(v, f.plus), f) \o Piece(f.suffix)

RefusedU(f) == Refused(f, {{"u"}, {"x"}, {"X"}}) \/ f.minus

PiecesU(f, v) ==
    Piece(f.prefix) \o
    IF RefusedU(f) THEN Piece(<<ErrorMark>>)
    ELSE PaddedNumber(Digits(v, IF f.conv = {"u"} THEN 10 ELSE 16,
                             IF f.conv = {"X"} THEN 65 ELSE 97), f)
         \o Piece(f.suffix)

-----------------------------------------------------------------------------
FormatInit ==
    /\ text = <<>> /\ before = <<>> /\ lost = FALSE
    /\ call = [op |-> "none"]

(* Bound: one of these calls between two of the plain ones.                *)
Ready == call.op = "none"

dwarfstring_append_printf_s ==
    \E f \in Formats, s \in Words :
        /\ Ready /\ ~f.plus
        /\ Appends(PiecesS(f, s), [op |-> "s", format |-> f, arg |-> s])

dwarfstring_append_printf_i ==
    \E f \in Formats, v \in Signed :
        /\ Ready
        /\ Appends(PiecesI(f, v), [op |-> "i", format |-> f, arg |-> v])

dwarfstring_append_printf_u ==
    \E f \in Formats, v \in Unsigned :
        /\ Ready /\ ~f.plus
        /\ Appends(PiecesU(f, v), [op |-> "u", format |-> f, arg |-> v])

dwarfstring_append ==
    \E s \in Words :
        /\ Len(text) <= MaxText
        /\ text' = text \o s /\ before' = text \o s /\ lost' = FALSE
        /\ call' = [op |-> "none"]

dwarfstring_reset ==
    /\ text # <<>>
    /\ text' = <<>> /\ before' = <<>> /\ lost' = FALSE
    /\ call' = [op |-> "none"]

-----------------------------------------------------------------------------
(* What a run of digits stands for, read from the left.                    *)
DigitValue(ch) == IF ch <= 57 THEN ch - Zero ELSE ch - (IF ch < 97 THEN 55 ELSE 87)
Reads(s, base) ==
    LET upto[k \in 0 .. Len(s)] ==
            IF k = 0 THEN 0 ELSE upto[k - 1] * base + DigitValue(s[k])
    IN  upto[Len(s)]

(* A number shown in a field: blanks, then a sign if there is one to show, *)
(* then digits that read back as the number, the first of them a zero only *)
(* when zeros fill the field; no longer than its width or its digits ask.  *)
ShowsNumber(field, f, v, base) ==
    \E b \in 0 .. Len(field) - 1 :
    LET sign == IF v < 0 THEN <<Minus>> ELSE IF f.plus THEN <<Plus>> ELSE <<>>
        rest == SubSeq(field, b + 1, Len(field))
        digits == SubSeq(rest, Len(sign) + 1, Len(rest))
    IN  /\ \A k \in 1 .. b : field[k] = Space
        /\ IsPrefix(sign, rest)
        /\ digits # <<>>
        /\ \A k \in DOMAIN digits :
              /\ digits[k] \in (48 .. 57) \cup (IF f.conv = {"x"} THEN 97 .. 102
                                               ELSE IF f.conv = {"X"} THEN 65 .. 70
                                               ELSE {})
        /\ Reads(digits, base) = (IF v < 0 THEN -v ELSE v)
        /\ b > 0 => Len(field) = f.width /\ ~f.zero
        /\ digits[1] = Zero /\ Len(digits) > 1 => Len(field) = f.width /\ f.zero
        /\ Len(field) >= f.width

ShowsString(field, f, s) ==
    LET n == IF f.width > Len(s) THEN f.width - Len(s) ELSE 0 IN
    field = IF f.minus THEN s \o Fill(n, Space) ELSE Fill(n, Space) \o s

(* While memory lasts, a call with a format the function accepts appends   *)
(* what C's printf prints: the characters around the conversion, and       *)
(* between them the value in a field of the width asked, filled and signed *)
(* as the flags say.  (A %-d is the exception the code makes: its field is *)
(* filled from the left.)                                                  *)
FormatsLikeC ==
    LET f == call.format
        legal == CASE call.op = "s" -> f.percent /\ f.conv = {"s"} /\ f.ells = 0
                   [] call.op = "i" -> ~RefusedI(f)
                   [] call.op = "u" -> ~RefusedU(f)
        first == Len(before) + Len(f.prefix)
        field == SubSeq(text, first + 1, Len(text) - Len(f.suffix))
    IN  call.op \in {"s", "i", "u"} /\ ~lost =>
          IF ~legal THEN text = before \o f.prefix \o <<ErrorMark>>
          ELSE /\ text = before \o f.prefix \o field \o f.suffix
               /\ CASE call.op = "s" -> ShowsString(field, f, call.arg)
                    [] call.op = "i" -> ShowsNumber(field, f, call.arg, 10)
                    [] call.op = "u" -> ShowsNumber(field, f, call.arg,
                                            IF f.conv = {"u"} THEN 10 ELSE 16)
=============================================================================
