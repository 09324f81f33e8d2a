------------------------------- MODULE MCRcon -------------------------------
(***************************************************************************)
(* One command that connects and one that may overtake it.                 *)
(***************************************************************************)
EXTENDS Rcon, TLC

CONSTANTS cmd1, cmd2

MCCallers == {cmd1, cmd2}
=============================================================================
