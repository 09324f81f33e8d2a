------------------------------ MODULE MCShell -------------------------------
(***************************************************************************)
(* Two commands that run at the same time, each with a write of output.    *)
(***************************************************************************)
EXTENDS Shell, TLC

CONSTANTS s1, s2

MCCmds == {s1, s2}
=============================================================================
