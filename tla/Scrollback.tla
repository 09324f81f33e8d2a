----------------------------- MODULE Scrollback -----------------------------
(***************************************************************************)
(* The scrollback of the command line, cli_scrollback.c: the last lines of *)
(* a run are kept in a ring, written to a file at the orderly end of the   *)
(* program and read back into the ring by the next run.  The file is       *)
(* written under another name first.  A crash may end a run anywhere, and  *)
(* the disk may be full, which nobody checks.                              *)
(***************************************************************************)
EXTENDS Naturals, Sequences, SequencesExt, SeqFold

CONSTANTS LinesMax, \* LINES_MAX
          MaxLines  \* bound: lines output in all

ASSUME ScrollAssumption == LinesMax \in Nat \ {0} /\ MaxLines \in Nat

NoLine == 0     \* lines are numbered from 1

VARIABLES
    ring, lines_idx,    \* the ring and the next place in it
    run,                \* "no", "yes", "off" (CFGFS_NO_SCROLLBACK), "writing", "cut"
    file, tmp,          \* the lines of the file and of the one being written
    output,             \* lines output so far
    kept                \* history: the lines of this run and those it inherited

scrollVars == <<ring, lines_idx, run, file, tmp, output, kept>>

EmptyRing == [i \in 0..LinesMax - 1 |-> NoLine]

ScrollInit ==
    /\ ring = EmptyRing /\ lines_idx = 0 /\ run = "no"
    /\ file = <<>> /\ tmp = <<>> /\ output = 0 /\ kept = <<>>

-----------------------------------------------------------------------------
(* Mutant of AddOutput: the index wraps a line too late. *)
AddOutputFar(r, line) ==
    [ring |-> IF r.idx = LinesMax THEN r.ring ELSE [r.ring EXCEPT ![r.idx] = line],
     idx |-> (r.idx + 1) % (LinesMax + 1)]

(* cli_scrollback_add_output() *)
AddOutput(r, line) == [ring |-> [r.ring EXCEPT ![r.idx] = line], idx |-> (r.idx + 1) % LinesMax]

(* ... for each line of a file *)
AddLine == [r \in [ring : [0..LinesMax - 1 -> Nat], idx : Nat] |->
               [line \in Nat |-> AddOutput(r, line)]]

(* cli_scrollback_load_and_print(): each line of the file is output again  *)
LoadScrollback(off) ==
    /\ run = "no"
    /\ LET r == Fold(AddLine, [ring |-> EmptyRing, idx |-> 0], IF off THEN <<>> ELSE file)
       IN ring' = r.ring /\ lines_idx' = r.idx
    /\ run' = IF off THEN "off" ELSE "yes"
    /\ kept' = IF off THEN <<>> ELSE file
    /\ UNCHANGED <<file, tmp, output>>

(* A line is output, or entered: cli_scrollback_add_input() *)
OutputLine ==
    /\ run \in {"yes", "off"} /\ output < MaxLines
    /\ LET r == AddOutput([ring |-> ring, idx |-> lines_idx], output + 1)
       IN ring' = r.ring /\ lines_idx' = r.idx
    /\ output' = output + 1 /\ kept' = Append(kept, output + 1)
    /\ UNCHANGED <<run, file, tmp>>

(* The lines of the ring, oldest first *)
AddKept == [ls \in Seq(Nat) |-> [l \in Nat |-> IF l = NoLine THEN ls ELSE Append(ls, l)]]
InOrder == Fold(AddKept, <<>>, [i \in 1..LinesMax |-> ring[(lines_idx + i - 1) % LinesMax]])

(* cli_scrollback_flush_and_free(): the file may not be to be had, its     *)
(* writing may fail at any line, ...                                       *)
FlushBegin ==
    /\ run \in {"yes", "off"}
    /\ \/ /\ run = "yes" /\ ring # EmptyRing
          /\ \/ run' = "writing" /\ tmp' = InOrder
             \/ run' = "cut" /\ \E n \in 0..Len(InOrder) - 1 : tmp' = SubSeq(InOrder, 1, n)
       \/ run' = "no" /\ UNCHANGED tmp
    /\ UNCHANGED <<ring, lines_idx, file, output, kept>>

(* ... and when it is closed it replaces the old one.                      *)
FlushEnd ==
    /\ run \in {"writing", "cut"}
    /\ run' = "no" /\ file' = tmp
    /\ UNCHANGED <<ring, lines_idx, tmp, output, kept>>

Killed ==
    /\ run # "no"
    /\ run' = "no"
    /\ UNCHANGED <<ring, lines_idx, file, tmp, output, kept>>

ScrollNext ==
    \/ \E off \in BOOLEAN : LoadScrollback(off)
    \/ OutputLine \/ FlushBegin \/ FlushEnd \/ Killed

ScrollSpec == ScrollInit /\ [][ScrollNext]_scrollVars

-----------------------------------------------------------------------------
Newest(lines) ==
    IF Len(lines) <= LinesMax THEN lines
    ELSE SubSeq(lines, Len(lines) - LinesMax + 1, Len(lines))

(* The file only ever changes to the newest lines of a run and of those it *)
(* inherited, in order, or with a full disk to the oldest of these; any    *)
(* other end of a run leaves it (cli_scrollback_flush_and_free()).         *)
NewestKept ==
    [][file' # file => /\ IsPrefix(file', Newest(kept))
                       /\ run = "writing" => file' = Newest(kept)]_scrollVars
=============================================================================
