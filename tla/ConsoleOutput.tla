---------------------------- MODULE ConsoleOutput ----------------------------
(***************************************************************************)
(* What the game prints, and the cvars read from it: cfgfs_write() of      *)
(* console.log, the events _game_console_output() fires, and get_cvars()   *)
(* behind the table "cvar", here for one variable of the game.  It is read *)
(* by having the game execute "help <name>" and looking for the value in   *)
(* what the game prints.  One write is one call of Lua; if that gets no    *)
(* lock in two seconds, the text is lost.  A write is whole lines; that     *)
(* commands arrive in order is the business of BufferList.                 *)
(***************************************************************************)
EXTENDS Naturals, Sequences, SequencesExt

CONSTANTS Askers,   \* coroutines that read the variable, each of them once
          MaxSets,  \* bound: assignments of the variable
          MaxNoise, \* bound: lines the game prints of its own
          Patience  \* the 1000 ms of wait_for_events(), in ticks

ASSUME ConsoleAssumption ==
    /\ IsFiniteSet(Askers)
    /\ MaxSets \in Nat /\ MaxNoise \in Nat /\ Patience \in Nat \ {0}

VARIABLES
    commands,   \* queued for the game: Help or the number of an assignment
    sets,       \* assignments so far
    value,      \* the last one the game has executed, or NoCvar
    writes,     \* what the game is about to write
    noise,      \* lines it has printed of its own
    active,     \* is_game_window_active()
    asker,      \* where each coroutine is: "late" if its click was lost, ...
    timer,      \* ... what is left of its time, ...
    answer,     \* ... the value it got, ...
    atAsk       \* ... and history: the assignments when it asked, and whether
                \*     another answer was on its way

gameVars == <<commands, sets, value, writes, noise>>
askVars == <<asker, timer, answer, atAsk>>
consoleVars == <<gameVars, active, askVars>>

NoAnswer == MaxSets + 1
NoCvar == MaxSets + 2    \* the game has no such variable

Help == 0

(* A write that is a whole line, a part of one, or its end.  The text is   *)
(* an answer, an echo of the program or anything else.                     *)
Write(kind, text) == [kind |-> kind, text |-> text, value |-> value]
Reply == IF value = NoCvar THEN <<Write("line", "answer")>>
         ELSE <<Write("piece", "answer"), Write("piece", "rest"), Write("newline", "")>>

ConsoleInit ==
    /\ commands = <<>> /\ sets = 0 /\ value \in {0, NoCvar} /\ writes = <<>> /\ noise = 0
    /\ active \in BOOLEAN
    /\ asker = [c \in Askers |-> "idle"] /\ timer = [c \in Askers |-> 0]
    /\ answer = [c \in Askers |-> NoAnswer]
    /\ atAsk = [c \in Askers |-> [sets |-> 0, others |-> FALSE]]

-----------------------------------------------------------------------------
(* cmd.help(k) by some coroutines, which then wait *)
AnswerComing == Contains(commands, Help) \/ \E i \in DOMAIN writes : writes[i].text = "answer"

(* Mutant of AskGame: the command overtakes what is queued. *)
AskGameFirst(cs) == commands' = [i \in 1..Len(cs) |-> Help] \o commands

AskGame(cs) == commands' = commands \o [i \in 1..Len(cs) |-> Help]

(* Mutant of StartWait: no timeout. *)
StartWaitForever(cs) ==
    /\ asker' = [c \in Askers |-> IF Contains(cs, c) THEN "waiting" ELSE asker[c]]
    /\ timer' = [c \in Askers |-> IF Contains(cs, c) THEN Patience + 1 ELSE timer[c]]

StartWait(cs) ==
    /\ asker' = [c \in Askers |-> IF Contains(cs, c) THEN "waiting" ELSE asker[c]]
    /\ timer' = [c \in Askers |-> IF Contains(cs, c) THEN Patience ELSE timer[c]]

Request(cs) ==
    /\ AskGame(cs) /\ StartWait(cs)
    /\ atAsk' = [c \in Askers |-> IF Contains(cs, c)
                                  THEN [sets |-> sets, others |-> AnswerComing] ELSE atAsk[c]]

(* cvar[k]: get_cvars(), which first waits for the window.                 *)
Ask(c) ==
    /\ asker[c] = "idle"
    /\ IF active THEN Request(<<c>>)
       ELSE asker' = [asker EXCEPT ![c] = "attention"] /\ UNCHANGED <<commands, timer, atAsk>>
    /\ UNCHANGED <<sets, value, writes, noise, active, answer>>

(* The event "attention" *)
Attention ==
    /\ active' \in BOOLEAN
    /\ IF active' THEN Request(SetToSeq({c \in Askers : asker[c] = "attention"}))
       ELSE UNCHANGED <<commands, asker, timer, atAsk>>
    /\ UNCHANGED <<sets, value, writes, noise, answer>>

(* cvar[k] = v *)
Set ==
    /\ sets < MaxSets
    /\ sets' = sets + 1 /\ commands' = Append(commands, sets + 1)
    /\ UNCHANGED <<value, writes, noise, active, askVars>>

Waiting == {c \in Askers : asker[c] \in {"waiting", "late"}}

Tick ==
    /\ \E c \in Waiting : timer[c] > 0
    /\ timer' = [c \in Askers |-> IF c \in Waiting /\ timer[c] \in 1..Patience
                                  THEN timer[c] - 1 ELSE timer[c]]
    /\ UNCHANGED <<gameVars, active, asker, answer, atAsk>>

(* The coroutines whose time is over: they are resumed with nothing when   *)
(* the game reads click.cfg the next time, for whatever reason, ...        *)
Due == {c \in Waiting : timer[c] = 0}

ClickRead ==
    /\ Due # {}
    /\ asker' = [c \in Askers |-> IF c \in Due THEN "done" ELSE asker[c]]
    /\ UNCHANGED <<gameVars, active, timer, answer, atAsk>>

(* ... and the click made for them may come to nothing (see Delivery).     *)
ClickLost ==
    /\ \E c \in Due : asker[c] = "waiting"
    /\ asker' = [c \in Askers |-> IF c \in Due THEN "late" ELSE asker[c]]
    /\ UNCHANGED <<gameVars, active, timer, answer, atAsk>>

-----------------------------------------------------------------------------
(* The loop of get_cvars(): a line that tells the value ends it, any other *)
(* one starts the waiting time anew.                                       *)
Hear(w) ==
    /\ UNCHANGED atAsk
    /\ IF w.text = "answer"
       THEN /\ asker' = [c \in Askers |-> IF c \in Waiting THEN "done" ELSE asker[c]]
            /\ answer' = [c \in Askers |-> IF c \in Waiting THEN w.value ELSE answer[c]]
            /\ UNCHANGED timer
       ELSE StartWait(SetToSeq(Waiting)) /\ UNCHANGED answer

(* _game_console_output(): whole lines, spam too, and parts of lines other *)
(* than the program's own echos are events, which a listener may keep from *)
(* the next ones; the end of a line is none.                               *)
Heard(w) == w.kind = "line" \/ (w.kind = "piece" /\ w.text # "echo")

GameConsoleOutput ==
    /\ writes # <<>>
    /\ \/ Heard(Head(writes)) /\ Hear(Head(writes))
       \/ UNCHANGED askVars
    /\ writes' = Tail(writes)
    /\ UNCHANGED <<commands, sets, value, noise, active>>

(* cfgfs_write() without the lock *)
WriteLost ==
    /\ writes # <<>> /\ writes' = Tail(writes)
    /\ UNCHANGED <<commands, sets, value, noise, active, askVars>>

-----------------------------------------------------------------------------
(* The game (external): it executes commands, and prints of its own.       *)
GameExec ==
    /\ writes = <<>> /\ commands # <<>>
    /\ commands' = Tail(commands)
    /\ IF Head(commands) = Help THEN writes' = Reply /\ UNCHANGED value
       ELSE value' = (IF value = NoCvar THEN NoCvar ELSE Head(commands)) /\ UNCHANGED writes
    /\ UNCHANGED <<sets, noise, active, askVars>>

GamePrint ==
    /\ writes = <<>> /\ noise < MaxNoise
    /\ noise' = noise + 1
    /\ writes' \in {<<Write("line", "chat")>>, <<Write("piece", "chat"), Write("newline", "")>>,
                    <<Write("piece", "echo"), Write("newline", "")>>}
    /\ UNCHANGED <<commands, sets, value, active, askVars>>

ConsoleNext ==
    \/ \E c \in Askers : Ask(c)
    \/ Attention \/ Set \/ Tick \/ ClickRead \/ ClickLost
    \/ GameConsoleOutput \/ WriteLost \/ GameExec \/ GamePrint

ConsoleSpec == ConsoleInit /\ [][ConsoleNext]_consoleVars

-----------------------------------------------------------------------------
(* A coroutine that reads a variable gets a value not older than its       *)
(* request, so it reads what it has assigned before, unless the answer to  *)
(* an earlier request was still to come (get_cvars()).                     *)
CvarFresh ==
    \A c \in Askers :
        asker[c] = "done" /\ answer[c] # NoAnswer /\ answer[c] < atAsk[c].sets => atAsk[c].others

(* A click made for somebody, while the game's window is active *)
DueClick ==
    /\ active /\ \E c \in Due : asker[c] = "waiting"
    /\ ClickRead \/ ClickLost

(* The clock goes on, and a click that is due is made if the window is     *)
(* active, which the game reads if it is not lost (Delivery).              *)
ConsoleFairness == WF_consoleVars(Tick) /\ WF_consoleVars(DueClick)

(* Reading a variable ends although answers are lost, once the game prints *)
(* no more (every other line starts the time anew), as long as the game's  *)
(* window is active and the click that resumes the coroutine is not lost   *)
(* (wait_for_events(), ev_do_timeouts()).                                  *)
CvarEnds == \A c \in Askers : asker[c] = "waiting" ~> (asker[c] \in {"done", "late"} \/ ~active)
=============================================================================
