----------------------------- MODULE Sanitizer -----------------------------
(***************************************************************************)
(* sanitized.c: the characters of a name that might upset a terminal are   *)
(* shown as %xx.  A name without any is shown as it is; any other is       *)
(* rewritten into a static buffer of the caller, which keeps what the last *)
(* call left in it.  The lengths are parameters, so that a small buffer    *)
(* meets its limit as the one of 1000 bytes does.                          *)
(***************************************************************************)
EXTENDS Integers, Sequences, SequencesExt, FiniteSetsExt

CONSTANTS
    Names,       \* names to show, sequences of character codes
    OutLen,      \* length of the buffer (BUFFERSIZE)
    Margin,      \* space kept for the last character and the marker (30)
    Marker       \* what is written when room is short ("...Truncated...")

NameChar == 1 .. 255

(* The margin has room for the marker behind three characters, %xx.        *)
ASSUME LengthsAssumption ==
    /\ OutLen \in Nat /\ Margin \in Nat /\ Margin <= OutLen
    /\ Marker \in Seq(NameChar) /\ Len(Marker) + 3 < Margin
ASSUME NamesAssumption == Names \subseteq Seq(NameChar)

VARIABLES
    outbuf,      \* the bytes of the buffer, 0 for the null byte
    name,        \* the name of the last call, <<0>> for a null pointer
    shown,       \* the characters the caller prints
    reached      \* the highest position of the buffer ever written

sanitizerVars == <<outbuf, name, shown, reached>>

Percent == 37
NullPointer == <<0>>
NoName == <<60, 62>>     \* "<no-name!>"

-----------------------------------------------------------------------------
(* A buffer and the highest position written in it.  Store puts characters *)
(* at a position, Strcpy a null byte behind them.                          *)
Store(b, at, s) ==
    [mem  |-> [k \in DOMAIN b.mem |-> IF at <= k /\ k < at + Len(s)
                                      THEN s[k - at + 1] ELSE b.mem[k]],
     high |-> Max({b.high, at + Len(s) - 1})]

StrcpyWithoutNul(b, at, s) == Store(b, at, s)

Strcpy(b, at, s) == Store(b, at, s \o <<0>>)

(* strlen from a position; a buffer with no null byte there runs on.       *)
StringEnd(mem, at) ==
    LET nulls == {k \in DOMAIN mem : k >= at /\ mem[k] = 0} IN
    IF nulls = {} THEN OutLen ELSE Min(nulls)

CString(mem) == SubSeq([k \in 1 .. OutLen |-> mem[k - 1]], 1, StringEnd(mem, 0))

HexDigit(d) == IF d < 10 THEN 48 + d ELSE 97 + d - 10
Escape(c) == <<Percent, HexDigit(c \div 16), HexDigit(c % 16)>>

PrintablePercent(c) == c \in 32 .. 126

Printable(c) == c \in 32 .. 126 /\ c # Percent

(* One character of do_sanity_insert: a full buffer ends the work, with a  *)
(* marker written behind what is there and then cut off again.             *)
InsertCharacter(w, c) ==
    IF w.done THEN w
    ELSE IF w.count > OutLen - Margin
    THEN LET marked == IF OutLen - w.count < Len(Marker) THEN w.buf
                       ELSE Strcpy(w.buf, StringEnd(w.buf.mem, w.count), Marker)
         IN  [w EXCEPT !.buf = Store(marked, w.count, <<0>>), !.done = TRUE]
    ELSE IF Printable(c)
    THEN [w EXCEPT !.buf = Store(w.buf, w.count, <<c>>), !.count = w.count + 1]
    ELSE [w EXCEPT !.buf = Strcpy(w.buf, w.count, Escape(c)), !.count = w.count + 3]

(* The work as it stands behind each character of the name.                *)
Insertions(s, b) ==
    LET work[k \in 0 .. Len(s)] ==
            IF k = 0 THEN [buf |-> b, count |-> 0, done |-> FALSE]
            ELSE InsertCharacter(work[k - 1], s[k])
    IN  work

do_sanity_insert(s, b) ==
    LET w == Insertions(s, b)[Len(s)]
    IN  IF w.done THEN w.buf ELSE Store(w.buf, w.count, <<0>>)

(* A tab or a newline makes no name questionable, but is escaped once      *)
(* another character does.                                                 *)
no_questionable_chars(s) == \A k \in DOMAIN s : Printable(s[k]) \/ s[k] \in {9, 10}

-----------------------------------------------------------------------------
SanitizerInit ==
    /\ outbuf = [k \in 0 .. OutLen - 1 |-> 0]
    /\ name = <<>> /\ shown = <<>> /\ reached = 0

ShowAsItIs(s) ==
    /\ no_questionable_chars(s)
    /\ outbuf' = [outbuf EXCEPT ![0] = 0]
    /\ shown' = s /\ name' = s
    /\ UNCHANGED reached

ShowFromBuffer(s, source) ==
    LET b == do_sanity_insert(s, [mem |-> [outbuf EXCEPT ![0] = 0], high |-> reached])
    IN  /\ outbuf' = b.mem
        /\ reached' = b.high
        /\ shown' = CString(b.mem)
        /\ name' = source

sanitized ==
    \/ ShowFromBuffer(NoName, NullPointer)
    \/ \E s \in Names : ShowAsItIs(s)
    \/ \E s \in Names : ~no_questionable_chars(s) /\ ShowFromBuffer(s, s)

-----------------------------------------------------------------------------
HexValue(ch) == IF ch <= 57 THEN ch - 48 ELSE ch - 87

(* What a reader makes of the characters printed: a % and two hexadecimal  *)
(* digits are the character they number.                                   *)
DecodedFrom(s) ==
    LET from[k \in 1 .. Len(s) + 3] ==
          IF k > Len(s) THEN <<>>
          ELSE IF s[k] # Percent THEN <<s[k]>> \o from[k + 1]
          ELSE IF k + 2 > Len(s) THEN <<Percent>>
          ELSE <<16 * HexValue(s[k + 1]) + HexValue(s[k + 2])>> \o from[k + 3]
    IN  from

Decoded(s) == DecodedFrom(s)[1]

(* What is printed can be read back as the name that was given, or as its  *)
(* first characters when room is short: no % is left in doubt, no          *)
(* character that upsets a terminal gets through, and nothing of what an   *)
(* earlier call left in the buffer shows.                                  *)
SanitizedIsUnambiguous ==
    LET given == IF name = NullPointer THEN NoName ELSE name IN
    /\ \A k \in DOMAIN shown : shown[k] \in (32 .. 126) \cup {9, 10}
    /\ IsPrefix(Decoded(shown), given)
    /\ Len(Decoded(shown)) < Len(given) => Len(shown) > OutLen - Margin

(* No call writes past the end of the buffer, whatever calls came before:  *)
(* not the last character shown as %xx, and not the marker, which strcat   *)
(* puts behind the first null byte it finds.                               *)
WritesStayInTheBuffer == reached < OutLen

=============================================================================
