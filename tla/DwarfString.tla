---------------------------- MODULE DwarfString ----------------------------
(***************************************************************************)
(* The growing string buffer of dwarf_string.c, and who owns its memory.   *)
(*                                                                         *)
(* A dwarfstring starts on the constant "", on an array of its caller or   *)
(* on a block of the heap, and moves to a new block whenever what is       *)
(* appended does not fit.  malloc may fail at every call.  The cells of    *)
(* the current block are modelled one by one, so that a write past its end *)
(* or a missing terminator shows; a fresh block holds garbage.             *)
(***************************************************************************)
EXTENDS Integers, Sequences

CONSTANTS
    Char,        \* the characters of the strings
    Nul,         \* the null byte
    Garbage,     \* what a cell nobody wrote holds
    Strings,     \* the strings users append
    SpaceSizes,  \* lengths of callers' arrays (dwarfstring_constructor_static)
    FixedSizes,  \* lengths given to dwarfstring_constructor_fixed
    Block,       \* addresses malloc can return
    minimumnewlen,
    MaxLen       \* bound on the length of the string

ASSUME CharAssumption == Nul \notin Char /\ Garbage \notin Char
ASSUME StringsAssumption == Strings \subseteq Seq(Char)
ASSUME SizesAssumption == /\ SpaceSizes \subseteq Nat \ {0}
                          /\ FixedSizes \subseteq Nat
                          /\ minimumnewlen \in Nat
ASSUME BlockAssumption == "literal" \notin Block /\ "space" \notin Block

VARIABLES
    s_data,    \* the block in use: "literal", "space" or one of the heap
    cells,     \* the bytes of that block, from 0
    s_size, s_avail, s_malloc,
    live,      \* blocks allocated and not freed
    fault,     \* has memory been misused?
    result,    \* what the last call returned
    phase      \* "new" before a constructor runs, then "built"

vars == <<s_data, cells, s_size, s_avail, s_malloc, live, fault, result, phase>>

Cell == Char \cup {Nul, Garbage}
Literal == [k \in {0} |-> Nul]

-----------------------------------------------------------------------------
(* Helpers: the string length, and writes to the cells from 0.             *)
lastpos == s_size - s_avail

Write(c, pos, s) ==
    [k \in DOMAIN c |-> IF pos <= k /\ k < pos + Len(s) THEN s[k - pos + 1]
                                                        ELSE c[k]]

Terminate(c, pos) == [c EXCEPT ![pos] = Nul]

(* strlen(s) cells and a null byte are written from pos; the constant ""   *)
(* may not be written at all.                                              *)
Fits(c, pos, s) == pos + Len(s) \in DOMAIN c

(* dwarfstring_add_to: a block of newlen + 1 bytes at least, with the old  *)
(* string and a null byte in it.                                           *)
MallocLenWithoutNul(newlen) ==
    IF newlen < minimumnewlen THEN minimumnewlen ELSE newlen

MallocLen(newlen) ==
    IF newlen + 1 < minimumnewlen THEN minimumnewlen ELSE newlen + 1

CopiedNothing(newlen) ==
    [k \in 0 .. MallocLen(newlen) - 1 |-> IF k = lastpos THEN Nul ELSE Garbage]

Copied(newlen) ==
    [k \in 0 .. MallocLen(newlen) - 1 |->
        IF k < lastpos THEN cells[k] ELSE IF k = lastpos THEN Nul ELSE Garbage]

Freed == IF s_malloc THEN {s_data} ELSE {}

-----------------------------------------------------------------------------
Init ==
    /\ s_data = "literal" /\ cells = Literal
    /\ s_size = 0 /\ s_avail = 0 /\ s_malloc = FALSE
    /\ live = {} /\ fault = FALSE /\ result = TRUE
    /\ phase = "new"

Constructor ==
    /\ phase = "new"
    /\ s_data' = "literal" /\ cells' = Literal
    /\ s_size' = 0 /\ s_avail' = 0 /\ s_malloc' = FALSE
    /\ result' = TRUE /\ phase' = "built"
    /\ UNCHANGED <<live, fault>>

ConstructorStatic(len) ==
    /\ phase = "new"
    /\ s_data' = "space"
    /\ cells' = Terminate([k \in 0 .. len - 1 |-> Garbage], 0)
    /\ s_size' = len /\ s_avail' = len /\ s_malloc' = FALSE
    /\ result' = TRUE /\ phase' = "built"
    /\ UNCHANGED <<live, fault>>

(* The constructor runs first, so lastpos is 0 when the block is made.     *)
ConstructorFixed(len) ==
    /\ phase = "new"
    /\ len # 0
    /\ \E b \in Block \ live :
          /\ s_data' = b
          /\ live' = live \cup {b}
    /\ cells' = Terminate([k \in 0 .. MallocLen(len) - 1 |-> Garbage], 0)
    /\ s_size' = len /\ s_avail' = len /\ s_malloc' = TRUE
    /\ result' = TRUE /\ phase' = "built"
    /\ UNCHANGED fault

(* No length, which leaves the constant, or no memory.                     *)
ConstructorFixedLiteral(len) ==
    /\ phase = "new"
    /\ s_data' = "literal" /\ cells' = Literal
    /\ s_size' = 0 /\ s_avail' = 0 /\ s_malloc' = FALSE
    /\ result' = (len = 0)
    /\ phase' = "built"
    /\ UNCHANGED <<live, fault>>

(* dwarfstring_append and dwarfstring_append_length: four outcomes.        *)
Appending(s) == phase = "built" /\ s \in Strings /\ lastpos + Len(s) <= MaxLen

AppendNothing(s) ==
    /\ Appending(s)
    /\ Len(s) = 0
    /\ result' = TRUE
    /\ UNCHANGED <<s_data, cells, s_size, s_avail, s_malloc, live, fault, phase>>

RoomWithoutNul(s) == Len(s) <= s_avail

Room(s) == Len(s) < s_avail

AppendInPlace(s) ==
    /\ Appending(s)
    /\ Len(s) # 0 /\ Room(s)
    /\ cells' = Terminate(Write(cells, lastpos, s), lastpos + Len(s))
    /\ fault' = (fault \/ s_data = "literal" \/ ~ Fits(cells, lastpos, s))
    /\ s_avail' = s_avail - Len(s)
    /\ result' = TRUE
    /\ UNCHANGED <<s_data, s_size, s_malloc, live, phase>>

NewLen(s) == s_size + Len(s) + 2

AppendGrows(s) ==
    /\ Appending(s)
    /\ Len(s) # 0 /\ ~ Room(s)
    /\ \E b \in Block \ live :
          /\ s_data' = b
          /\ live' = (live \ Freed) \cup {b}
    /\ cells' = Terminate(Write(Copied(NewLen(s)), lastpos, s), lastpos + Len(s))
    /\ fault' = \/ fault
                \/ ~ Fits(Copied(NewLen(s)), lastpos, s)
                \/ ~ (Freed \subseteq live)
    /\ s_size' = NewLen(s)
    /\ s_avail' = NewLen(s) - lastpos - Len(s)
    /\ s_malloc' = TRUE
    /\ result' = TRUE
    /\ UNCHANGED phase

AppendFails(s) ==
    /\ Appending(s)
    /\ Len(s) # 0 /\ ~ Room(s)
    /\ result' = FALSE
    /\ UNCHANGED <<s_data, cells, s_size, s_avail, s_malloc, live, fault, phase>>

ResetKeepsText ==
    /\ phase = "built"
    /\ s_avail' = s_size
    /\ result' = TRUE
    /\ UNCHANGED <<s_data, cells, s_size, s_malloc, live, fault, phase>>

Reset ==
    /\ phase = "built"
    /\ IF s_size = 0
       THEN UNCHANGED <<s_avail, cells, fault>>
       ELSE /\ s_avail' = s_size
            /\ cells' = Terminate(cells, 0)
            /\ fault' = (fault \/ s_data = "literal")
    /\ result' = TRUE
    /\ UNCHANGED <<s_data, s_size, s_malloc, live, phase>>

(* The destructor runs the plain constructor: the string can be used again *)
(* or constructed anew.                                                    *)
DestructorKeepsMalloc ==
    /\ phase = "built"
    /\ live' = live \ Freed
    /\ fault' = (fault \/ ~ (Freed \subseteq live))
    /\ s_data' = "literal" /\ cells' = Literal
    /\ s_size' = 0 /\ s_avail' = 0
    /\ result' = TRUE /\ phase' \in {"new", "built"}
    /\ UNCHANGED s_malloc

Destructor ==
    /\ phase = "built"
    /\ live' = live \ Freed
    /\ fault' = (fault \/ ~ (Freed \subseteq live))
    /\ s_data' = "literal" /\ cells' = Literal
    /\ s_size' = 0 /\ s_avail' = 0 /\ s_malloc' = FALSE
    /\ result' = TRUE /\ phase' \in {"new", "built"}

Next ==
    \/ Constructor
    \/ \E len \in SpaceSizes : ConstructorStatic(len)
    \/ \E len \in FixedSizes : ConstructorFixed(len) \/ ConstructorFixedLiteral(len)
    \/ \E s \in Strings : \/ AppendNothing(s) \/ AppendInPlace(s)
                          \/ AppendGrows(s) \/ AppendFails(s)
    \/ Reset \/ Destructor

Spec == Init /\ [][Next]_vars

-----------------------------------------------------------------------------
(* Properties.                                                             *)
IsBlock(c) == /\ c \in [DOMAIN c -> Cell]
              /\ DOMAIN c \subseteq Nat
              /\ \A k \in DOMAIN c : 0 .. k \subseteq DOMAIN c

FlagType == s_malloc \in BOOLEAN /\ fault \in BOOLEAN /\ result \in BOOLEAN

TypeOK ==
    /\ FlagType
    /\ IsBlock(cells)
    /\ s_data \in Block \cup {"literal", "space"}
    /\ s_size \in Nat /\ s_avail \in 0 .. s_size
    /\ live \subseteq Block
    /\ phase \in {"new", "built"}

(* "data always has a NUL byte following the data area used": the byte     *)
(* after the string is in the block and is null, and no byte of the string *)
(* is, so strlen(s_data) is what dwarfstring_strlen returns.               *)
NulTerminated ==
    /\ lastpos \in DOMAIN cells
    /\ cells[lastpos] = Nul
    /\ \A k \in 0 .. lastpos - 1 : cells[k] \in Char

(* The string owns a block of the heap exactly when s_malloc says so, and  *)
(* that block is the only one alive: none leaks, none is freed while used. *)
OwnsItsBlock ==
    /\ s_malloc <=> s_data \in Block
    /\ live = Freed

(* No write leaves the block, none touches the constant "", and nothing    *)
(* is freed that is not allocated.                                         *)
MemorySafe == ~fault

(* The bookkeeping fits the block: the constant has no room, an array      *)
(* holds s_size bytes, a block of the heap one more.                       *)
RoomIsReal ==
    /\ s_data = "literal" => s_size = 0 /\ cells = Literal
    /\ s_data = "space" => s_size # 0 /\ s_size - 1 \in DOMAIN cells
    /\ s_data \in Block => s_size \in DOMAIN cells
    /\ s_size # 0 /\ s_data = "space" => s_avail # 0

(* Between a destructor and the next constructor nothing is owned.         *)
NewIsLiteral == phase = "new" => s_data = "literal"

Inv == TypeOK /\ NulTerminated /\ OwnsItsBlock /\ MemorySafe /\ RoomIsReal
       /\ NewIsLiteral

(* The text the buffer holds is the one StringBuffer describes.            *)
Text == [k \in 1 .. lastpos |-> cells[k - 1]]

Abstract == INSTANCE StringBuffer WITH text <- Text, returned <- result

ImplementsStringBuffer == Abstract!Spec
=============================================================================
