---------------------------- MODULE CommandQueue ----------------------------
(***************************************************************************)
(* What the output buffers of cfgfs promise, with no buffers in it: a      *)
(* first-in first-out queue of config commands.  Lua appends commands, a   *)
(* read of a config file takes a non-empty prefix (empty only when nothing *)
(* is queued) and tells the game whether there is more to come, running    *)
(* the user script records the startup commands, and a reload forgets both *)
(* the queue and the recorded commands.                                    *)
(***************************************************************************)
EXTENDS Sequences, Naturals

CONSTANT Line    \* the commands Lua may write

VARIABLES
    queue,       \* commands written and not yet handed to the game
    startup,     \* commands recorded for cfgfs/init.cfg
    chunk        \* the last reply: its commands and whether more are queued

vars == <<queue, startup, chunk>>

Chunk == [cmds : Seq(Line), more : BOOLEAN]

TypeOK ==
    /\ queue \in Seq(Line)
    /\ startup \in Seq(Line)
    /\ chunk \in Chunk

Init ==
    /\ queue = <<>>
    /\ startup = <<>>
    /\ chunk = [cmds |-> <<>>, more |-> FALSE]

(* _cfg() and _cmd(): one more command at the end of the queue. *)
Write(l) ==
    /\ queue' = Append(queue, l)
    /\ UNCHANGED <<startup, chunk>>

(* _init(): the recorded commands, in order, after what is queued. *)
WriteStartup ==
    /\ startup # <<>>
    /\ queue' = queue \o startup
    /\ UNCHANGED <<startup, chunk>>

(* The end of a run of the user script: what it wrote becomes the record. *)
Record ==
    /\ startup' = queue
    /\ queue' = <<>>
    /\ UNCHANGED chunk

(* The beginning of a reload. *)
Forget ==
    /\ queue' = <<>>
    /\ startup' = <<>>
    /\ UNCHANGED chunk

(* A read hands over the first n commands and announces the others. *)
Deliver ==
    \E n \in 0 .. Len(queue) :
        /\ n = 0 => queue = <<>>
        /\ chunk' = [cmds |-> SubSeq(queue, 1, n), more |-> n < Len(queue)]
        /\ queue' = SubSeq(queue, n + 1, Len(queue))
        /\ UNCHANGED startup

Next ==
    \/ \E l \in Line : Write(l)
    \/ WriteStartup
    \/ Record
    \/ Forget
    \/ Deliver

Spec == Init /\ [][Next]_vars
=============================================================================
