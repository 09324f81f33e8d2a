---------------------------- MODULE CmdStringify ----------------------------
(***************************************************************************)
(* cmd() and cmd.stringify() of cfg.c: a command and its arguments become  *)
(* one line for the game with as few quotes as will do.  The size is       *)
(* computed first, to reserve room for the line (BufferList), and then the *)
(* line is written, by two functions that decide about quotes and spaces   *)
(* each in its own way.                                                    *)
(*                                                                         *)
(* A character stands for its class in charflags: a letter, a space (also  *)
(* a tab and everything else that is only quoted), a single quote (one of  *)
(* the characters the game makes words of), a double quote, a control      *)
(* character, and DEL, which replaces the latter.                          *)
(***************************************************************************)
EXTENDS Integers, Sequences, SequencesExt, SeqFold

CONSTANTS MaxWord, MaxWords,    \* bounds of the words, their number ...
          MaxChars              \* ... and that of their characters

ASSUME CmdAssumption == MaxWord \in Nat /\ MaxWords \in Nat /\ MaxChars \in Nat

Letter == "a"
Space == "s"
Single == "'"
Double == "q"
Control == "c"
Del == "d"
Classes == {Letter, Space, Single, Double, Control, Del}

(* Mutant of NeedsQuotes: the characters that are words are left out. *)
NeedsQuotesFew == {Space, Control, Del}

(* cfg_init_badchars() *)
NeedsQuotes == {Space, Single, Control, Del}
Evil == {Double, Control}

VARIABLES words,    \* the arguments
          mode      \* cmd_get_quoting_mode(): "say" and "echo" have arguments

cmdVars == <<words, mode>>

CmdInit ==
    /\ words \in {ws \in BoundedSeq(BoundedSeq({Letter, Space, Single, Double, Control}, MaxWord),
                                    MaxWords) : ws # <<>> /\ Len(FlattenSeq(ws)) <= MaxChars}
    /\ mode = "default" \/ (mode \in {"say", "echo"} /\ Len(words) >= 2 /\ words[1] = <<Letter>>)

CmdSpec == CmdInit /\ [][FALSE]_cmdVars     \* the arguments stay what they are

-----------------------------------------------------------------------------
Count == Len(words)
Indices == [i \in 1..Count |-> i]

(* cmd_preparse() *)
Has(w, class) == \E i \in DOMAIN w : w[i] \in class
Quoted(w) == w = <<>> \/ Has(w, NeedsQuotes)

(* Mutant of QuoteSize: the closing quote of the last word is counted. *)
QuoteSizeFull(i) == IF Quoted(words[i]) THEN 2 ELSE IF i > 1 /\ ~Quoted(words[i - 1]) THEN 1 ELSE 0

(* cmd_get_outsize(): what a word needs besides its characters *)
QuoteSize(i) ==
    IF Quoted(words[i]) THEN IF i = Count THEN 1 ELSE 2
    ELSE IF i > 1 /\ ~Quoted(words[i - 1]) THEN 1 ELSE 0

SizeOf(i) == Len(words[i]) + (IF mode = "default" THEN QuoteSize(i) ELSE 1)
AddSize == [n \in Nat |-> [i \in Nat |-> n + SizeOf(i)]]
OutSize == Fold(AddSize, 0, Indices)

(* cmd_replace_evil_chars(), called for words with such a character *)
Replaced(w) ==
    [i \in DOMAIN w |-> IF w[i] = Control THEN Del
                        ELSE IF w[i] = Double /\ mode # "say" THEN Single ELSE w[i]]

(* cmd_stringify() of an ordinary command: whether a space is needed shows *)
(* in the last character written, ...                                      *)
WithWord(out, i) ==
    IF ~Quoted(words[i])
    THEN out \o (IF i > 1 /\ Last(out) # Double THEN <<Space>> ELSE <<>>) \o Replaced(words[i])
    ELSE out \o <<Double>> \o Replaced(words[i]) \o (IF i # Count THEN <<Double>> ELSE <<>>)
AddWord == [out \in Seq(Classes) |-> [i \in Nat |-> WithWord(out, i)]]

(* ... and of one that takes its arguments as one.                         *)
WithArgument(out, i) == out \o Replaced(words[i]) \o <<IF i = 1 THEN Double ELSE Space>>
AddArgument == [out \in Seq(Classes) |-> [i \in Nat |-> WithArgument(out, i)]]

Stringify ==
    IF mode = "default" THEN Fold(AddWord, <<>>, Indices)
    ELSE Append(Front(Fold(AddArgument, <<>>, Indices)), IF mode = "say" THEN Double ELSE Del)

-----------------------------------------------------------------------------
(* The words the game makes of a line (external, from what NeedsQuotes     *)
(* says of it): quotes begin and end a word, so does a space; a single     *)
(* quote is a word of its own.                                             *)
TokenState == [open : BOOLEAN, word : Seq(Classes), words : Seq(Seq(Classes))]
Flushed(t) == IF t.word = <<>> THEN t.words ELSE Append(t.words, t.word)
State(open, word, ws) == [open |-> open, word |-> word, words |-> ws]
AfterChar(t, c) ==
    IF t.open
    THEN IF c = Double THEN State(FALSE, <<>>, Append(t.words, t.word))
         ELSE State(TRUE, Append(t.word, c), t.words)
    ELSE CASE c = Double -> State(TRUE, <<>>, Flushed(t))
           [] c = Space -> State(FALSE, <<>>, Flushed(t))
           [] c = Single -> State(FALSE, <<>>, Append(Flushed(t), <<Single>>))
           [] OTHER -> State(FALSE, Append(t.word, c), t.words)
ReadChar == [t \in TokenState |-> [c \in Classes |-> AfterChar(t, c)]]
Tokens(line) ==
    LET end == Fold(ReadChar, State(FALSE, <<>>, <<>>), line)
    IN IF end.open THEN Append(end.words, end.word) ELSE Flushed(end)

(* cmd() asserts it: the line has the size that was reserved for it.       *)
SizeAgrees == Len(Stringify) = OutSize

(* What "echo" is to get *)
AddText == [r \in Seq(Classes) |-> [w \in Seq(Classes) |-> r \o <<Space>> \o Replaced(w)]]
OneArgument == Fold(AddText, Replaced(words[2]), SubSeq(words, 3, Count))

(* The game reads the words that were given, with the characters replaced  *)
(* that it could not read, one by one, or those of "echo" as one.  A word  *)
(* whose double quote is the only thing about it is the exception: the     *)
(* single quote that replaces it would need quotes, and the game takes it  *)
(* for a word of its own (charflags, cmd_stringify()).                     *)
WordsArrive ==
    /\ mode = "default" /\ (\A i \in 1..Count : Has(words[i], {Double}) => Quoted(words[i])) =>
          Tokens(Stringify) = [i \in 1..Count |-> Replaced(words[i])]
    /\ mode = "echo" => Tokens(Stringify) = <<words[1], Append(OneArgument, Del)>>
=============================================================================
