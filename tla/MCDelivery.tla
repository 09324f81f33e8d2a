----------------------------- MODULE MCDelivery -----------------------------
(***************************************************************************)
(* One or two writers compete with the attention, click and FUSE threads;  *)
(* two commands need two buffers, so the game has to come back.            *)
(***************************************************************************)
EXTENDS Delivery, TLC

CONSTANTS cli, rcon

MCTwoWriters == {cli, rcon}
MCOneWriter  == {cli}

(* The writers are interchangeable (used in the run without liveness). *)
MCSymmetry == Permutations(Writers)
=============================================================================
