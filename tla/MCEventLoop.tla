---------------------------- MODULE MCEventLoop ----------------------------
(***************************************************************************)
(* Four coroutines: one calls, one waits, one is its timer, and one is the *)
(* loop's.  Delays of 0 and 1 tell expired timeouts from pending ones.     *)
(***************************************************************************)
EXTENDS EventLoop, TLC

CONSTANTS c1, c2, c3, c4

MCThree == {c1, c2, c3}
MCFour  == {c1, c2, c3, c4}

(* Coroutines are interchangeable (used in the runs without liveness). *)
MCSymmetry == Permutations(Co)
=============================================================================
