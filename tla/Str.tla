-------------------------------- MODULE Str ---------------------------------
(***************************************************************************)
(* struct string of misc/string.c: a string that may begin in a buffer of  *)
(* the caller and move to the heap when it grows.  Its memory is a function *)
(* from offsets to characters, so that the terminating null is a fact      *)
(* about it.  An allocation may fail.                                      *)
(***************************************************************************)
EXTENDS Integers, Sequences

CONSTANTS Chars, Texts, \* the characters, and the texts that are appended
          BufSizes,     \* sizes of the callers' buffers
          MaxLength     \* bound: no operation asks for a longer text

Nul == "nul"
Junk == "junk"  \* memory nobody has written

ASSUME StrAssumption ==
    /\ MaxLength \in Nat /\ BufSizes \subseteq 1..MaxLength
    /\ Texts \subseteq Seq(Chars)

VARIABLES str,      \* the struct and its memory
          wanted,   \* history: what the operations so far should have left
          starved   \* history: an allocation has failed

strVars == <<str, wanted, starved>>

Offsets == 0..MaxLength
StrType == [home : {"none", "caller", "heap"},      \* where data points to
            capacity : 0..MaxLength + 1, length : Offsets,
            resizable : BOOLEAN, autogrow : BOOLEAN, overflow : BOOLEAN,
            mem : [Offsets -> Chars \cup {Nul, Junk}]]

Fresh == [i \in Offsets |-> Junk]

(* memcpy() of a text to an offset and the null behind it *)
Put(mem, at, text) ==
    [i \in Offsets |-> IF i >= at /\ i < at + Len(text) THEN text[i - at + 1]
                       ELSE IF i = at + Len(text) THEN Nul ELSE mem[i]]

Text(s) == [i \in 1..s.length |-> s.mem[i - 1]]

(* string_new_empty_from_stkbuf(), with autogrow set by the caller or not *)
FromStkBuf(sz, grow) ==
    [home |-> "caller", capacity |-> sz, length |-> 0, resizable |-> FALSE,
     autogrow |-> grow, overflow |-> FALSE, mem |-> Put(Fresh, 0, <<>>)]

(* string_new() *)
New(sz) ==
    [home |-> "heap", capacity |-> sz, length |-> 0, resizable |-> TRUE,
     autogrow |-> FALSE, overflow |-> FALSE, mem |-> Put(Fresh, 0, <<>>)]

(* zeroed memory with one flag set: last_config_name, and sess->response *)
Zeroed(resize) ==
    [home |-> "none", capacity |-> 0, length |-> 0, resizable |-> resize,
     autogrow |-> ~resize, overflow |-> FALSE, mem |-> Fresh]

StrInit ==
    /\ \/ \E sz \in BufSizes : str = New(sz) \/ \E grow \in BOOLEAN : str = FromStkBuf(sz, grow)
       \/ \E resize \in BOOLEAN : str = Zeroed(resize)
    /\ wanted = <<>> /\ starved = FALSE

-----------------------------------------------------------------------------
Room(s) == s.capacity - s.length
Growable(s) == s.resizable \/ s.autogrow

(* string_try_resize() to more than the length, when the memory is there:  *)
(* realloc(), or the text is copied out of the caller's buffer.            *)
Resized(s, sz) ==
    IF s.resizable
    THEN [s EXCEPT !.home = "heap", !.capacity = sz]
    ELSE [s EXCEPT !.home = "heap", !.capacity = sz, !.resizable = TRUE,
                   !.mem = IF s.home = "none" THEN Put(Fresh, 0, <<>>) ELSE Put(Fresh, 0, Text(s))]

Written(s, text) ==
    [s EXCEPT !.mem = Put(s.mem, s.length, text), !.length = s.length + Len(text)]

(* Mutant of Fits: no room for the null. *)
FitsExactly(s, text) == Room(s) >= Len(text)

Fits(s, text) == Room(s) > Len(text)

(* Mutant of Cut: everything that fits is written. *)
CutNone(s, text) == IF Room(s) = 0 THEN s ELSE Written(s, SubSeq(text, 1, Room(s) - 1))

(* What an append that cannot grow the string leaves *)
Cut(s, text) ==
    IF Room(s) = 0 THEN [s EXCEPT !.overflow = TRUE]
    ELSE Written([s EXCEPT !.overflow = TRUE], SubSeq(text, 1, Room(s) - 1))

(* string_append_from_buf(), with memory to be had or not, and, with the   *)
(* same result in another order, string_append_from_fmt().                 *)
Appended(s, text, memory) ==
    IF text = <<>> THEN s
    ELSE IF Fits(s, text) THEN Written(s, text)
    ELSE IF memory /\ Growable(s) THEN Written(Resized(s, s.length + Len(text) + 1), text)
    ELSE Cut(s, text)

(* string_clear() *)
Cleared(s) ==
    [s EXCEPT !.length = 0, !.overflow = FALSE,
              !.mem = IF s.home = "none" THEN s.mem ELSE Put(s.mem, 0, <<>>)]

(* string_remove_range() *)
Without(text, start, len) == SubSeq(text, 1, start) \o SubSeq(text, start + len + 1, Len(text))
Removed(s, start, len) ==
    IF start >= s.length THEN s
    ELSE LET n == IF len > s.length - start THEN s.length - start ELSE len
             moved == [i \in 1..s.length - start - n |-> s.mem[start + n + i - 1]]
         IN [s EXCEPT !.mem = Put(s.mem, start, moved), !.length = s.length - n]

(* string_free() *)
Freed(s) ==
    [s EXCEPT !.capacity = 0, !.length = 0, !.mem = Fresh,
              !.home = IF s.resizable THEN "none" ELSE s.home]

-----------------------------------------------------------------------------
InUse == str.capacity # 0 \/ str.home = "none"

StrAppend(text, memory) ==
    /\ InUse /\ Len(wanted) + Len(text) <= MaxLength /\ str.length + Len(text) <= MaxLength
    /\ str' = Appended(str, text, memory)
    /\ wanted' = wanted \o text
    /\ starved' = (starved \/ ~memory)

(* string_set_contents_from_buf() and _from_fmt() *)
StrSet(text, memory) ==
    /\ InUse /\ Len(text) <= MaxLength
    /\ str' = Appended(Cleared(str), text, memory)
    /\ wanted' = text
    /\ starved' = ~memory

StrRemove(start, len) ==
    /\ InUse
    /\ str' = Removed(str, start, len)
    /\ wanted' = IF start >= Len(wanted) THEN wanted ELSE Without(wanted, start, len)
    /\ UNCHANGED starved

StrFree ==
    /\ InUse
    /\ str' = Freed(str) /\ wanted' = <<>>
    /\ UNCHANGED starved

StrNext ==
    \/ \E text \in Texts, memory \in BOOLEAN : StrAppend(text, memory) \/ StrSet(text, memory)
    \/ \E start, len \in Offsets : StrRemove(start, len)
    \/ StrFree

StrSpec == StrInit /\ [][StrNext]_strVars

-----------------------------------------------------------------------------
(* Between two operations a string is of this shape. *)
Shaped(s) ==
    /\ s \in StrType
    /\ s.capacity > 0 => s.length < s.capacity /\ s.mem[s.length] = Nul
    /\ s.capacity = 0 => s.length = 0
    /\ s.home = "none" => s.capacity = 0
    /\ s.resizable => s.home # "caller"
    /\ ~s.resizable => s.home # "heap"
    /\ \A i \in Offsets : i >= s.capacity => s.mem[i] = Junk

(* The text and its null lie inside the memory the string has and nothing  *)
(* is written behind it; realloc() and free() never get the caller's       *)
(* buffer, and memory of the heap is always marked to be freed             *)
(* (string_try_resize(), string_free()).                                   *)
StrShape == Shaped(str)

(* The string has the text that was asked for unless it says it overflowed, *)
(* and one that may grow only overflows when there is no memory.           *)
StrFaithful ==
    /\ ~str.overflow => Text(str) = wanted
    /\ str.overflow /\ Growable(str) => starved
=============================================================================
