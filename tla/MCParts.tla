------------------------------ MODULE MCParts -------------------------------
(***************************************************************************)
(* The parts that share no state, one at a time: the initial state says    *)
(* which of them takes steps, and the others stay where they are.          *)
(***************************************************************************)
EXTENDS Str, CmdStringify, Scrollback, ConsoleOutput, Supervisor, Lifecycle, Binds, TLC

CONSTANTS a, b, k1, k2, child

MCChars == {a, b}
MCTexts == {<<>>, <<a>>, <<a, b>>, <<b, b, a>>}
MCAskers == {k1, k2}
MCShellCommands == {child}
MCHolds == {a, b}

VARIABLE part   \* the part that takes steps
vars == <<strVars, cmdVars, scrollVars, consoleVars, superVars, lifeVars, bindVars,
          part>>

(* What the variables of the other parts are meanwhile; no action that is  *)
(* fair is enabled in the parts that rest.                                 *)
StrRests == str = Zeroed(TRUE) /\ wanted = <<>> /\ starved = FALSE
CmdRests == words = <<<<Letter>>>> /\ mode = "default"

MCInit ==
    /\ part \in {"str", "cmd", "scroll", "console", "supervisor", "life", "binds"}
    /\ IF part = "str" THEN StrInit ELSE StrRests
    /\ IF part = "cmd" THEN CmdInit ELSE CmdRests
    /\ ScrollInit
    /\ ConsoleInit /\ (part # "console" => value = 0 /\ ~active)
    /\ SupervisorInit /\ (part # "supervisor" => mount = "none" /\ ~linked)
    /\ IF part = "life" THEN LifeInit ELSE LifeStart("over")
    /\ BindInit

MCNext ==
    /\ UNCHANGED <<part, cmdVars>>
    /\ \/ /\ part = "str" /\ StrNext
          /\ UNCHANGED <<scrollVars, consoleVars, superVars, lifeVars, bindVars>>
       \/ /\ part = "scroll" /\ ScrollNext
          /\ UNCHANGED <<strVars, consoleVars, superVars, lifeVars, bindVars>>
       \/ /\ part = "console" /\ ConsoleNext
          /\ UNCHANGED <<strVars, scrollVars, superVars, lifeVars, bindVars>>
       \/ /\ part = "supervisor" /\ SupervisorNext
          /\ UNCHANGED <<strVars, scrollVars, consoleVars, lifeVars, bindVars>>
       \/ /\ part = "life" /\ LifeNext
          /\ UNCHANGED <<strVars, scrollVars, consoleVars, superVars, bindVars>>
       \/ /\ part = "binds" /\ BindNext
          /\ UNCHANGED <<strVars, scrollVars, consoleVars, superVars, lifeVars>>

MCSpec ==
    /\ MCInit /\ [][MCNext]_vars
    /\ ConsoleFairness /\ SupervisorFairness /\ LifeFairness
=============================================================================
