---------------------------- MODULE MCBufferList ----------------------------
(***************************************************************************)
(* A short and a long line; three bytes close a buffer of nine, so that    *)
(* the six bytes left are filled exactly by a short and a long line.       *)
(***************************************************************************)
EXTENDS BufferList

CONSTANTS short, long

MCLine == {short, long}
MCLineLen == (short :> 1) @@ (long :> 3)

MaxQueued == 4      \* commands in `buffers'
MaxRecorded == 3    \* commands in `init_cfg'

MCBound ==
    /\ Len(Commands(buffers.bufs)) <= MaxQueued
    /\ Len(Commands(init_cfg.bufs)) <= MaxRecorded
=============================================================================
