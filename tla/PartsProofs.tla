---------------------------- MODULE PartsProofs -----------------------------
(***************************************************************************)
(* Proofs about the small parts that share no state: the supervisor, the   *)
(* program's beginning and end, the variables read from the game, the keys *)
(* the game holds, struct string, the scrollback, and the lines of cmd().  *)
(***************************************************************************)
EXTENDS Supervisor, Lifecycle, ConsoleOutput, Binds, Str, Scrollback, CmdStringify,
        SeqFoldProofs, SequenceTheorems, FiniteSetTheorems, TLAPS

-----------------------------------------------------------------------------
(* The supervisor *)

(* The task starts after the first check of the mount, judges a run only   *)
(* when cfgfs has ended, and so cleans up when no cfgfs can mount again,   *)
(* if it gets that far.  Neither meets a mount of another supervisor.      *)
SuperInv ==
    /\ boss = "start" <=> worker = "none"
    /\ worker # "run" => cfgfs = "none"
    /\ worker \notin {"none", "done"} => mount # "other"
    /\ boss \notin {"start", "done"} => mount # "other"
    /\ worker = "done" /\ ~threw =>
          mount \in {"none", "other"} /\ (linked => mount = "other")

(* Each step of the two threads and of cfgfs keeps the two in step.        *)
LEMMA SuperInvStep == SuperInv /\ [SupervisorNext]_superVars => SuperInv'
<1> SUFFICES ASSUME SuperInv, [SupervisorNext]_superVars
             PROVE  SuperInv'
  OBVIOUS
<1> USE DEF SuperInv, taskVars, processVars
<1>1. CASE BossStart
  BY <1>1 DEF BossStart, CheckMount
<1>2. CASE Poll \/ GameEnds
  BY <1>2 DEF Poll, GameEnds
<1>3. CASE Unmount
  BY <1>3 DEF Unmount
<1>4. CASE WorkerRun
  BY <1>4 DEF WorkerRun, CheckMount
<1>5. CASE WorkerLink \/ WorkerStop \/ WorkerSleep
  BY <1>5 DEF WorkerLink, WorkerStop, WorkerSleep
<1>6. ASSUME NEW length, WorkerJudge(length)
      PROVE  SuperInv'
  BY <1>6 DEF WorkerJudge
<1>7. CASE WorkerFinal \/ WorkerThrows
  BY <1>7 DEF WorkerFinal, WorkerThrows, CleanUp, CheckMount
<1>8. CASE Mounts \/ Crash \/ Quit \/ Ends
  BY <1>8 DEF Mounts, Crash, Quit, Ends
<1>9. CASE UseFile
  BY <1>9 DEF UseFile
<1>10. CASE BossThrows
  <2>1. CASE boss = "start"
    BY <1>10, <2>1 DEF BossThrows, CheckMount
  <2>2. CASE boss # "start"
    BY <1>10, <2>2 DEF BossThrows
  <2> QED
    BY <2>1, <2>2
<1>11. CASE UNCHANGED superVars
  BY <1>11 DEF superVars
<1> QED
  BY <1>1, <1>2, <1>3, <1>4, <1>5, <1>6, <1>7, <1>8, <1>9, <1>10, <1>11 DEF SupervisorNext

(* However often cfgfs crashes and however long the game runs, in the end  *)
(* nothing of cfgfs's is left mounted or linked, unless an exception ended *)
(* the task or kept it from starting (runMain()).                          *)
THEOREM LeftCleanTheorem == SupervisorSpec => []LeftClean
<1>1. SupervisorInit => SuperInv
  BY DEF SupervisorInit, SuperInv
<1>2. SuperInv => LeftClean
  BY DEF SuperInv, LeftClean
<1> QED
  BY <1>1, <1>2, SuperInvStep, PTL DEF SupervisorSpec

(* A run of cfgfs is started only when there is none (runMain()).          *)
THEOREM OneCfgfsAtATime ==
    SupervisorSpec => [][cfgfs' = "starting" /\ cfgfs # "starting" => cfgfs = "none"]_superVars
<1>1. SupervisorInit => SuperInv
  BY DEF SupervisorInit, SuperInv
<1>2. SuperInv /\ [SupervisorNext]_superVars
         => [cfgfs' = "starting" /\ cfgfs # "starting" => cfgfs = "none"]_superVars
  BY DEF SuperInv, SupervisorNext, BossStart, Poll, GameEnds, Unmount, BossThrows, WorkerLink,
         WorkerRun, WorkerStop, WorkerSleep, WorkerFinal, WorkerThrows, WorkerJudge, Mounts,
         Crash, Quit, Ends, UseFile, superVars, processVars, taskVars
<1> QED
  BY <1>1, <1>2, SuperInvStep, PTL DEF SupervisorSpec

-----------------------------------------------------------------------------
(* The program's beginning and end *)

(* Where main() may be ... *)
Starting == {"setup", "script", "no script", "lua_init"}
Serving == {"threads", "loop", "clear"}
Ending == {"handlers", "unmount", "lua_deinit", "lua_close", "deinit", "join", "flush", "over"}

(* ... and what holds there: Lua is opened once and closed by main() with  *)
(* the lock, the signal is only sent while it is handled, and the mount is *)
(* gone before Lua is closed.                                              *)
LifeInv ==
    /\ at \in Starting \cup Serving \cup Ending \cup {"over without script"}
    /\ at \in Starting \cup {"over without script"} => lua = "none"
    /\ mounted \in BOOLEAN /\ handled \in BOOLEAN /\ quitdata \in BOOLEAN
    /\ at = "lua_close" => holder = "main"
    /\ holder # NoOne => lua = "open"
    /\ quitdata => handled /\ at \notin Ending
    /\ sigint # "deadly"
    /\ at = "setup" => ~mounted /\ ~quitdata
    /\ mounted => at \notin {"lua_deinit", "lua_close", "deinit", "join", "flush", "over"}

(* main() goes on.                                                         *)
LEMMA MainStep ==
    ASSUME LifeInv, Main \/ LoopEnds
    PROVE  LifeInv'
<1> USE DEF LifeInv, Starting, Serving, Ending, NoOne, mountVars, quitVars, luaVars
<1>0. Then("flush") \in {"flush", "deinit"}
  BY DEF Then
<1>1. CASE Setup
  <2>1. UNCHANGED <<lua, holder, sigint>>
    BY <1>1 DEF Setup
  <2>2. CASE at' = "lua_deinit" /\ UNCHANGED <<mounted, handled, quitdata>>
    BY <1>1, <2>1, <2>2 DEF Setup
  <2>3. CASE at' = "unmount" /\ mounted' = TRUE /\ UNCHANGED <<handled, quitdata>>
    BY <1>1, <2>1, <2>3 DEF Setup
  <2>4. CASE at' = "script" /\ mounted' = TRUE /\ handled' = TRUE /\ quitdata' = TRUE
    BY <1>1, <2>1, <2>4 DEF Setup
  <2> QED
    BY <1>1, <2>2, <2>3, <2>4 DEF Setup
<1>2. CASE FindScript
  BY <1>2 DEF FindScript
<1>3. CASE LuaInit
  BY <1>3 DEF LuaInit
<1>4. CASE StartThreads
  BY <1>4 DEF StartThreads
<1>5. CASE LoopEnds
  BY <1>5 DEF LoopEnds
<1>6. CASE ClearQuitdata
  BY <1>6 DEF ClearQuitdata
<1>7. CASE RemoveHandlers
  BY <1>7 DEF RemoveHandlers
<1>8. CASE Unmounts
  BY <1>8 DEF Unmounts
<1>9. CASE LuaDeinit
  BY <1>9 DEF LuaDeinit
<1>10. CASE LuaClose
  BY <1>10 DEF LuaClose
<1>11. CASE TellThread
  BY <1>0, <1>11 DEF TellThread
<1>12. CASE Joined
  BY <1>0, <1>12 DEF Joined
<1>13. CASE JoinTimeout
  BY <1>0, <1>13 DEF JoinTimeout
<1>14. CASE Flush
  BY <1>14 DEF Flush
<1> QED
  BY <1>1, <1>2, <1>3, <1>4, <1>5, <1>6, <1>7, <1>8, <1>9, <1>10, <1>11, <1>12, <1>13, <1>14
     DEF Main

(* The threads call Lua, quit and end.                                     *)
LEMMA ThreadStep ==
    ASSUME LifeInv, NEW t,
           WantLua(t) \/ Lock(t) \/ Release(t) \/ ThreadExit(t),
           t \notin {"main", NoOne}
    PROVE  LifeInv'
<1> USE DEF LifeInv, Starting, Serving, Ending, NoOne, mountVars, quitVars, luaVars, threadVars,
            Over
<1>1. CASE WantLua(t)
  BY <1>1 DEF WantLua
<1>2. CASE Lock(t)
  <2>1. UNCHANGED <<at, mounted, handled, quitdata, sigint, lua>>
    BY <1>2 DEF Lock
  <2>2. \/ holder' = t /\ holder = NoOne /\ lua = "open"
        \/ holder' = holder
    BY <1>2 DEF Lock, MayCall
  <2> QED
    BY <2>1, <2>2
<1>3. CASE Release(t)
  <2>1. /\ holder' = NoOne /\ holder = t
        /\ UNCHANGED <<at, mounted, handled, lua>>
    BY <1>3 DEF Release
  <2>2. CASE MainQuit
    BY <2>1, <2>2 DEF MainQuit
  <2>3. CASE UNCHANGED quitVars
    BY <2>1, <2>3
  <2> QED
    BY <1>3, <2>2, <2>3 DEF Release
<1>4. CASE ThreadExit(t)
  BY <1>4 DEF ThreadExit, AfterExit, MainQuit
<1> QED
  BY <1>1, <1>2, <1>3, <1>4

(* No thread is in Lua when its state is not open, no SIGINT kills, and    *)
(* the program leaves no mount (main(), main_quit()), with any number of   *)
(* shell commands to wait for.                                             *)
THEOREM ShutdownSafeTheorem == LifeSpec => []ShutdownSafe
<1>1. LifeInit => LifeInv
  BY DEF LifeInit, LifeStart, LifeInv, Starting, Serving, Ending, NoOne
<1>2. LifeInv /\ [LifeNext]_lifeVars => LifeInv'
  <2> SUFFICES ASSUME LifeInv, [LifeNext]_lifeVars
               PROVE  LifeInv'
    OBVIOUS
  <2>1. \A t \in Threads \cup {"fuse"} : t \notin {"main", NoOne}
    <3>1. DOMAIN Order = 1 .. 4
      BY DEF Order
    <3>2. \A i \in 1 .. 4 : Order[i] \in {"attention", "cli", "click", "reloader"}
      BY DEF Order
    <3> QED
      BY <3>1, <3>2 DEF Threads, NoOne
  <2>2. CASE Main \/ LoopEnds
    BY <2>2, MainStep
  <2>3. ASSUME NEW t \in Threads \cup {"fuse"}, WantLua(t) \/ Lock(t) \/ Release(t)
        PROVE  LifeInv'
    BY <2>1, <2>3, ThreadStep
  <2>4. ASSUME NEW t \in Threads, ThreadExit(t)
        PROVE  LifeInv'
    BY <2>1, <2>4, ThreadStep
  <2>5. CASE Eof
    BY <2>5 DEF LifeInv, Eof, mountVars, quitVars, luaVars
  <2>6. ASSUME NEW c \in ShellCommands, ChildEnds(c)
        PROVE  LifeInv'
    BY <2>6 DEF LifeInv, ChildEnds, mountVars, quitVars
  <2>7. CASE UNCHANGED lifeVars
    BY <2>7 DEF LifeInv, lifeVars, mountVars, quitVars, luaVars
  <2> QED
    BY <2>2, <2>3, <2>4, <2>5, <2>6, <2>7 DEF LifeNext
<1>3. LifeInv => ShutdownSafe
  BY DEF LifeInv, ShutdownSafe
<1> QED
  BY <1>1, <1>2, <1>3, PTL DEF LifeSpec

-----------------------------------------------------------------------------
(* Variables read from the game *)

Message == [kind : {"line", "piece", "newline"},
            text : {"answer", "rest", "chat", "echo", ""},
            value : (0 .. MaxSets) \cup {NoCvar}]

ConsoleTypes ==
    /\ sets \in 0 .. MaxSets
    /\ commands \in Seq(0 .. sets)
    /\ value \in (0 .. sets) \cup {NoCvar}
    /\ writes \in Seq(Message)
    /\ asker \in [Askers -> {"idle", "attention", "waiting", "late", "done"}]
    /\ answer \in [Askers -> (0 .. MaxSets) \cup {NoAnswer, NoCvar}]
    /\ atAsk \in [Askers -> [sets : 0 .. MaxSets, others : BOOLEAN]]

(* The assignments that are queued come in order after the last executed,  *)
(* and the last made is the last of them, ...                              *)
AssignmentsInOrder ==
    value # NoCvar =>
        /\ \A i \in 1 .. Len(commands) : commands[i] # Help => value < commands[i]
        /\ \A i, j \in 1 .. Len(commands) :
              i < j /\ commands[i] # Help /\ commands[j] # Help => commands[i] < commands[j]
        /\ value = sets \/ \E i \in 1 .. Len(commands) : commands[i] # Help /\ commands[i] = sets

(* ... so the game has executed assignment n, or will before any request.  *)
Executed(n, v, cs) ==
    v >= n \/ \E i \in 1 .. Len(cs) : cs[i] = n /\ \A j \in 1 .. i : cs[j] # Help

(* What an asker that was alone will hear, and has heard, is new enough.   *)
AnswersFresh ==
    \A c \in Askers :
        /\ asker[c] # "done" => answer[c] = NoAnswer
        /\ ~atAsk[c].others =>
              /\ Executed(atAsk[c].sets, value, commands)
              /\ \A i \in 1 .. Len(writes) :
                    writes[i].text = "answer" => writes[i].value >= atAsk[c].sets
              /\ answer[c] # NoAnswer => answer[c] >= atAsk[c].sets

ConsoleInv == ConsoleTypes /\ AssignmentsInOrder /\ AnswersFresh

(* The order in which sleepers are woken has only those in it.             *)
LEMMA SetToSeqRange ==
    ASSUME NEW S \in SUBSET Askers
    PROVE  SetToSeq(S) \in Seq(S) /\ \A c : Contains(SetToSeq(S), c) => c \in S
<1> DEFINE n == Cardinality(S)
           f == SetToSeq(S)
<1>1. IsFiniteSet(S)
  BY FS_Subset, ConsoleAssumption
<1>2. n \in Nat /\ ExistsBijection(1 .. n, S)
  BY <1>1, FS_CardinalityType
<1>3. \E g \in [1 .. n -> S] : IsInjective(g)
  BY <1>2 DEF ExistsBijection, Bijection, Injection
<1>4. f \in [1 .. n -> S]
  BY <1>3 DEF SetToSeq
<1> HIDE DEF f, n
<1>5. f \in Seq(S)
  BY <1>2, <1>4
<1>6. ASSUME NEW c, Contains(f, c)
      PROVE  c \in S
  BY <1>5, <1>6, ElementOfSeq DEF Contains
<1> QED
  BY <1>5, <1>6 DEF f

(* What is in a write of one message, of two and of three.                 *)
LEMMA OneMessage ==
    ASSUME NEW a \in Message
    PROVE  <<a>> \in Seq(Message) /\ \A i \in 1 .. Len(<<a>>) : <<a>>[i] = a
OBVIOUS

(* See OneMessage.                                                         *)
LEMMA TwoMessages ==
    ASSUME NEW a \in Message, NEW b \in Message
    PROVE  <<a, b>> \in Seq(Message) /\ \A i \in 1 .. Len(<<a, b>>) : <<a, b>>[i] \in {a, b}
OBVIOUS

(* See OneMessage.                                                         *)
LEMMA ThreeMessages ==
    ASSUME NEW a \in Message, NEW b \in Message, NEW c \in Message
    PROVE  /\ <<a, b, c>> \in Seq(Message)
           /\ \A i \in 1 .. Len(<<a, b, c>>) : <<a, b, c>>[i] \in {a, b, c}
OBVIOUS

(* A number of requests is put behind the commands.                        *)
LEMMA HelpsQueued ==
    ASSUME ConsoleTypes, NEW n \in Nat, commands' = commands \o [i \in 1 .. n |-> Help]
    PROVE  /\ commands' \in Seq(0 .. sets)
           /\ Len(commands') = Len(commands) + n /\ Len(commands) \in Nat
           /\ \A i \in 1 .. Len(commands') :
                 commands'[i] = IF i <= Len(commands) THEN commands[i] ELSE Help
<1> DEFINE helps == [i \in 1 .. n |-> Help]
<1>1. helps \in Seq(0 .. sets) /\ Len(helps) = n /\ \A i \in 1 .. n : helps[i] = Help
  BY DEF Help, ConsoleTypes
<1>2. commands \in Seq(0 .. sets) /\ Len(commands) \in Nat
  BY DEF ConsoleTypes
<1>3. commands' = commands \o helps
  OBVIOUS
<1> HIDE DEF helps
<1>4. /\ commands \o helps \in Seq(0 .. sets)
      /\ Len(commands \o helps) = Len(commands) + Len(helps)
      /\ \A i \in 1 .. Len(commands) + Len(helps) :
            (commands \o helps)[i] = IF i <= Len(commands) THEN commands[i]
                                     ELSE helps[i - Len(commands)]
  BY <1>1, <1>2, ConcatProperties
<1>5. \A i \in 1 .. Len(commands) + n : ~(i <= Len(commands)) => i - Len(commands) \in 1 .. n
  BY <1>2
<1> QED
  BY <1>1, <1>2, <1>3, <1>4, <1>5

(* Some coroutines ask: what they will hear comes after all assignments,   *)
(* unless an answer was on its way.                                        *)
LEMMA RequestStep ==
    ASSUME ConsoleInv, NEW cs \in Seq(Askers), Request(cs),
           \A c \in Askers : Contains(cs, c) => asker[c] # "done",
           UNCHANGED <<sets, value, writes, answer>>
    PROVE  ConsoleInv'
<1> DEFINE n == Len(cs)
<1>1. n \in Nat /\ commands' = commands \o [i \in 1 .. n |-> Help]
  BY DEF Request, AskGame
<1> HIDE DEF n
<1>2. /\ commands' \in Seq(0 .. sets)
      /\ Len(commands') = Len(commands) + n /\ Len(commands) \in Nat
      /\ \A i \in 1 .. Len(commands') :
            commands'[i] = IF i <= Len(commands) THEN commands[i] ELSE Help
  BY <1>1, HelpsQueued DEF ConsoleInv
<1>3. /\ asker' = [c \in Askers |-> IF Contains(cs, c) THEN "waiting" ELSE asker[c]]
      /\ atAsk' = [c \in Askers |-> IF Contains(cs, c)
                                    THEN [sets |-> sets, others |-> AnswerComing] ELSE atAsk[c]]
  BY DEF Request, StartWait
<1>4. ConsoleTypes'
  <2>1. AnswerComing \in BOOLEAN
    BY DEF AnswerComing, Contains
  <2> QED
    BY <1>2, <1>3, <2>1 DEF ConsoleInv, ConsoleTypes
<1>5. AssignmentsInOrder'
  BY <1>1, <1>2 DEF ConsoleInv, AssignmentsInOrder
<1>6. ASSUME NEW k, Executed(k, value, commands)
      PROVE  Executed(k, value', commands')
  BY <1>1, <1>2, <1>6 DEF Executed
<1>7. ASSUME NEW c \in Askers
      PROVE  /\ asker'[c] # "done" => answer'[c] = NoAnswer
             /\ ~atAsk'[c].others =>
                   /\ Executed(atAsk'[c].sets, value', commands')
                   /\ \A i \in 1 .. Len(writes') :
                         writes'[i].text = "answer" => writes'[i].value >= atAsk'[c].sets
                   /\ answer'[c] # NoAnswer => answer'[c] >= atAsk'[c].sets
  <2>1. CASE ~Contains(cs, c)
    <3>1. atAsk'[c] = atAsk[c] /\ asker'[c] = asker[c]
      BY <1>3, <2>1
    <3> QED
      BY <1>6, <3>1 DEF ConsoleInv, AnswersFresh
  <2>2. CASE Contains(cs, c)
    <3>1. /\ atAsk'[c].sets = sets /\ atAsk'[c].others = AnswerComing
          /\ asker'[c] = "waiting" /\ answer'[c] = NoAnswer
      BY <1>3, <2>2 DEF ConsoleInv, AnswersFresh
    <3>2. ASSUME ~AnswerComing
          PROVE  /\ Executed(sets, value, commands)
                 /\ \A i \in 1 .. Len(writes) : writes[i].text # "answer"
      <4>1. /\ \A i \in 1 .. Len(commands) : commands[i] # Help
            /\ \A i \in 1 .. Len(writes) : writes[i].text # "answer"
        BY <3>2 DEF AnswerComing, Contains, ConsoleInv, ConsoleTypes
      <4>2. CASE value = NoCvar
        BY <4>1, <4>2, ConsoleAssumption DEF Executed, NoCvar, ConsoleInv, ConsoleTypes
      <4>3. CASE value # NoCvar
        BY <4>1, <4>3, <1>2 DEF Executed, ConsoleInv, ConsoleTypes, AssignmentsInOrder
      <4> QED
        BY <4>1, <4>2, <4>3
    <3> QED
      BY <3>1, <3>2, <1>6
  <2> QED
    BY <2>1, <2>2
<1>8. AnswersFresh'
  BY <1>7 DEF AnswersFresh
<1> QED
  BY <1>4, <1>5, <1>8 DEF ConsoleInv

(* A request, or one that waits for the window.                            *)
LEMMA AskStep ==
    ASSUME ConsoleInv, (\E c \in Askers : Ask(c)) \/ Attention
    PROVE  ConsoleInv'
<1>1. ASSUME NEW c \in Askers, Ask(c), active
      PROVE  ConsoleInv'
  <2>1. <<c>> \in Seq(Askers) /\ \A d : Contains(<<c>>, d) => d = c
    BY DEF Contains
  <2>2. asker[c] # "done" /\ Request(<<c>>) /\ UNCHANGED <<sets, value, writes, answer>>
    BY <1>1 DEF Ask
  <2> QED
    BY <2>1, <2>2, RequestStep
<1>2. ASSUME NEW c \in Askers, Ask(c), ~active
      PROVE  ConsoleInv'
  <2>1. /\ asker[c] = "idle" /\ asker' = [asker EXCEPT ![c] = "attention"]
        /\ UNCHANGED <<commands, sets, value, writes, answer, atAsk>>
    BY <1>2 DEF Ask
  <2> QED
    BY <2>1 DEF ConsoleInv, ConsoleTypes, AssignmentsInOrder, AnswersFresh
<1>3. CASE Attention /\ active'
  <2> DEFINE S == {c \in Askers : asker[c] = "attention"}
  <2>1. SetToSeq(S) \in Seq(Askers) /\ \A c : Contains(SetToSeq(S), c) => c \in S
    <3>1. SetToSeq(S) \in Seq(S) /\ S \subseteq Askers
      BY SetToSeqRange
    <3> QED
      BY <3>1, SetToSeqRange, SeqMonotonic
  <2>2. Request(SetToSeq(S)) /\ UNCHANGED <<sets, value, writes, answer>>
    BY <1>3 DEF Attention
  <2>3. \A c \in Askers : Contains(SetToSeq(S), c) => asker[c] # "done"
    BY <2>1
  <2> QED
    BY <2>1, <2>2, <2>3, RequestStep
<1>4. CASE Attention /\ ~active'
  BY <1>4 DEF Attention, ConsoleInv, ConsoleTypes, AssignmentsInOrder, AnswersFresh
<1> QED
  BY <1>1, <1>2, <1>3, <1>4

(* One more assignment is queued.                                          *)
LEMMA SetStep ==
    ASSUME ConsoleInv, Set
    PROVE  ConsoleInv'
<1>1. /\ sets \in Nat /\ sets' = sets + 1 /\ sets' \in 0 .. MaxSets
      /\ UNCHANGED <<value, writes, asker, answer, atAsk>>
  BY ConsoleAssumption DEF Set, askVars, ConsoleInv, ConsoleTypes
<1>2. commands \in Seq(0 .. sets') /\ \A i \in 1 .. Len(commands) : commands[i] \in 0 .. sets
  <2>1. commands \in Seq(0 .. sets) /\ 0 .. sets \subseteq 0 .. sets'
    BY <1>1 DEF ConsoleInv, ConsoleTypes
  <2> QED
    BY <2>1, SeqMonotonic, ElementOfSeq
<1>3. /\ commands' \in Seq(0 .. sets')
      /\ Len(commands') = Len(commands) + 1 /\ Len(commands) \in Nat
      /\ \A i \in 1 .. Len(commands) : commands'[i] = commands[i]
      /\ commands'[Len(commands) + 1] = sets'
  BY <1>1, <1>2, AppendProperties DEF Set
<1>4. ConsoleTypes'
  BY <1>1, <1>3 DEF ConsoleInv, ConsoleTypes
<1>5. AssignmentsInOrder'
  <2> SUFFICES ASSUME value # NoCvar
               PROVE  /\ \A i \in 1 .. Len(commands') : commands'[i] # Help => value < commands'[i]
                      /\ \A i, j \in 1 .. Len(commands') :
                            i < j /\ commands'[i] # Help /\ commands'[j] # Help
                                => commands'[i] < commands'[j]
                      /\ \E i \in 1 .. Len(commands') : commands'[i] # Help /\ commands'[i] = sets'
    BY <1>1 DEF AssignmentsInOrder, NoCvar
  <2>1. \A i \in 1 .. Len(commands') : i \in 1 .. Len(commands) \/ i = Len(commands) + 1
    BY <1>3
  <2>2. value \in 0 .. sets
    BY DEF ConsoleInv, ConsoleTypes
  <2>3. ASSUME NEW i \in 1 .. Len(commands'), commands'[i] # Help
        PROVE  value < commands'[i]
    <3>1. CASE i \in 1 .. Len(commands)
      BY <1>3, <2>3, <3>1 DEF ConsoleInv, AssignmentsInOrder
    <3>2. CASE i = Len(commands) + 1
      BY <1>1, <1>3, <2>2, <3>2
    <3> QED
      BY <2>1, <3>1, <3>2
  <2>4. \A i, j \in 1 .. Len(commands') :
           i < j /\ commands'[i] # Help /\ commands'[j] # Help => commands'[i] < commands'[j]
    <3> SUFFICES ASSUME NEW i \in 1 .. Len(commands'), NEW j \in 1 .. Len(commands'),
                        i < j, commands'[i] # Help, commands'[j] # Help
                 PROVE  commands'[i] < commands'[j]
      OBVIOUS
    <3>1. i \in 1 .. Len(commands) /\ commands'[i] = commands[i] /\ commands[i] \in 0 .. sets
      BY <1>2, <1>3
    <3>2. CASE j = Len(commands) + 1
      BY <1>1, <1>3, <3>1, <3>2
    <3>3. CASE j \in 1 .. Len(commands)
      BY <1>3, <3>1, <3>3 DEF ConsoleInv, AssignmentsInOrder
    <3> QED
      BY <2>1, <3>2, <3>3
  <2>5. commands'[Len(commands) + 1] # Help /\ commands'[Len(commands) + 1] = sets'
    BY <1>1, <1>3 DEF Help
  <2> QED
    BY <1>3, <2>3, <2>4, <2>5
<1>6. ASSUME NEW k, Executed(k, value, commands)
      PROVE  Executed(k, value', commands')
  <2>1. CASE value >= k
    BY <1>1, <2>1 DEF Executed
  <2>2. ASSUME NEW i \in 1 .. Len(commands), commands[i] = k, \A j \in 1 .. i : commands[j] # Help
        PROVE  Executed(k, value', commands')
    <3>1. i \in 1 .. Len(commands') /\ \A j \in 1 .. i : commands'[j] = commands[j]
      BY <1>3
    <3>2. commands'[i] = k /\ \A j \in 1 .. i : commands'[j] # Help
      BY <2>2, <3>1
    <3> QED
      BY <3>1, <3>2 DEF Executed
  <2> QED
    BY <1>6, <2>1, <2>2 DEF Executed
<1> QED
  BY <1>1, <1>4, <1>5, <1>6 DEF ConsoleInv, AnswersFresh

(* The game executes a command: an answer tells what came before it.       *)
LEMMA GameExecStep ==
    ASSUME ConsoleInv, GameExec
    PROVE  ConsoleInv'
<1>1. /\ writes = <<>> /\ commands # <<>> /\ commands' = Tail(commands)
      /\ UNCHANGED <<sets, asker, answer, atAsk>>
  BY DEF GameExec, askVars
<1>2. /\ commands' \in Seq(0 .. sets)
      /\ Len(commands) \in Nat /\ Len(commands) > 0
      /\ Len(commands') = Len(commands) - 1
      /\ \A i \in 1 .. Len(commands) - 1 : commands'[i] = commands[i + 1]
      /\ commands[1] \in 0 .. sets
  <2>1. commands \in Seq(0 .. sets)
    BY DEF ConsoleInv, ConsoleTypes
  <2>2. Len(commands) \in Nat /\ Len(commands) > 0
    BY <1>1, <2>1, EmptySeq, LenProperties
  <2>3. Tail(commands) \in Seq(0 .. sets) /\ Len(Tail(commands)) = Len(commands) - 1
        /\ \A i \in 1 .. Len(Tail(commands)) : Tail(commands)[i] = commands[i + 1]
    BY <1>1, <2>1, HeadTailProperties
  <2>4. commands[1] \in 0 .. sets
    <3>1. 1 \in 1 .. Len(commands)
      BY <2>2
    <3> QED
      BY <2>1, <3>1, ElementOfSeq
  <2> QED
    BY <1>1, <2>2, <2>3, <2>4
<1>21. \A i \in 1 .. Len(commands') :
         i + 1 \in 1 .. Len(commands) /\ commands'[i] = commands[i + 1]
  BY <1>2
<1>22. \A i \in 1 .. Len(commands) : i = 1 \/ (i - 1 \in 1 .. Len(commands') /\ i - 1 + 1 = i)
  BY <1>2
<1>23. \A i \in 1 .. Len(commands) : i = 1 \/ commands'[i - 1] = commands[i]
  BY <1>21, <1>22
<1> DEFINE Later(v) ==
      /\ \A i \in 1 .. Len(commands') : commands'[i] # Help => v < commands'[i]
      /\ \A i, j \in 1 .. Len(commands') :
            i < j /\ commands'[i] # Help /\ commands'[j] # Help => commands'[i] < commands'[j]
<1>24. value # NoCvar => Later(value) /\ (commands[1] # Help => Later(commands[1]))
  <2> SUFFICES ASSUME value # NoCvar
               PROVE  Later(value) /\ (commands[1] # Help => Later(commands[1]))
    OBVIOUS
  <2>1. \A i \in 1 .. Len(commands') : commands'[i] # Help => value < commands'[i]
    BY <1>21 DEF ConsoleInv, AssignmentsInOrder
  <2>2. ASSUME NEW i \in 1 .. Len(commands'), NEW j \in 1 .. Len(commands'), i < j,
               commands'[i] # Help, commands'[j] # Help
        PROVE  commands'[i] < commands'[j]
    <3>1. i + 1 < j + 1
      BY <2>2
    <3> QED
      BY <1>21, <2>2, <3>1 DEF ConsoleInv, AssignmentsInOrder
  <2>3. ASSUME commands[1] # Help, NEW i \in 1 .. Len(commands'), commands'[i] # Help
        PROVE  commands[1] < commands'[i]
    <3>1. 1 \in 1 .. Len(commands) /\ 1 < i + 1
      BY <1>2
    <3> QED
      BY <1>21, <2>3, <3>1 DEF ConsoleInv, AssignmentsInOrder
  <2> QED
    BY <2>1, <2>2, <2>3
<1>25. value # NoCvar =>
         value = sets \/ commands[1] = sets
           \/ \E i \in 1 .. Len(commands') : commands'[i] # Help /\ commands'[i] = sets
  BY <1>22, <1>23 DEF ConsoleInv, AssignmentsInOrder
<1> HIDE DEF Later
<1>20. Head(commands) = commands[1]
  BY <1>1 DEF ConsoleInv, ConsoleTypes
<1>3. CASE commands[1] = Help
  <2>1. writes' = Reply /\ value' = value
    BY <1>20, <1>3 DEF GameExec
  <2>2. \A k \in 0 .. MaxSets : Executed(k, value, commands) => value >= k
    BY <1>2, <1>3 DEF Executed
  <2>3. /\ writes' \in Seq(Message)
        /\ \A i \in 1 .. Len(writes') : writes'[i].value = value
    <3>1. value \in (0 .. MaxSets) \cup {NoCvar}
      BY ConsoleAssumption DEF ConsoleInv, ConsoleTypes
    <3>2. \A kind \in {"line", "piece", "newline"}, text \in {"answer", "rest", ""} :
             Write(kind, text) \in Message /\ Write(kind, text).value = value
      BY <3>1 DEF Write, Message
    <3>3. CASE value = NoCvar
      <4>1. writes' = <<Write("line", "answer")>>
        BY <2>1, <3>3 DEF Reply
      <4>2. Write("line", "answer") \in Message /\ Write("line", "answer").value = value
        BY <3>2
      <4> QED
        BY <4>1, <4>2, OneMessage
    <3>4. CASE value # NoCvar
      <4> DEFINE piece == Write("piece", "answer")
                 rest == Write("piece", "rest")
                 newline == Write("newline", "")
      <4>1. writes' = <<piece, rest, newline>>
        BY <2>1, <3>4 DEF Reply
      <4>2. \A m \in {piece, rest, newline} : m \in Message /\ m.value = value
        BY <3>2
      <4> HIDE DEF piece, rest, newline
      <4>3. /\ <<piece, rest, newline>> \in Seq(Message)
            /\ \A i \in 1 .. Len(<<piece, rest, newline>>) :
                  <<piece, rest, newline>>[i] \in {piece, rest, newline}
        BY <4>2, ThreeMessages
      <4> QED
        BY <4>1, <4>2, <4>3
    <3> QED
      BY <3>3, <3>4
  <2>4. ConsoleTypes'
    BY <1>1, <1>2, <2>1, <2>3 DEF ConsoleInv, ConsoleTypes
  <2>5. AssignmentsInOrder'
    <3>1. value # NoCvar => value = sets
             \/ \E i \in 1 .. Len(commands') : commands'[i] # Help /\ commands'[i] = sets
      <4>1. sets = 0 => (value # NoCvar => value = 0)
        BY DEF ConsoleInv, ConsoleTypes
      <4> QED
        BY <1>3, <1>25, <4>1 DEF Help
    <3> QED
      BY <1>1, <1>24, <2>1, <3>1 DEF AssignmentsInOrder, Later, NoCvar
  <2>6. ASSUME NEW c \in Askers, ~atAsk[c].others
        PROVE  value >= atAsk[c].sets
    BY <2>2, <2>6 DEF ConsoleInv, ConsoleTypes, AnswersFresh
  <2> QED
    BY <1>1, <2>1, <2>3, <2>4, <2>5, <2>6 DEF ConsoleInv, AnswersFresh, Executed
<1>4. CASE commands[1] # Help
  <2>1. writes' = writes /\ value' = IF value = NoCvar THEN NoCvar ELSE commands[1]
    BY <1>20, <1>4 DEF GameExec
  <2>2. ConsoleTypes'
    BY <1>1, <1>2, <2>1 DEF ConsoleInv, ConsoleTypes
  <2>3. AssignmentsInOrder'
    <3> SUFFICES ASSUME value' # NoCvar'
                 PROVE  /\ Later(value')
                        /\ value' = sets \/ \E i \in 1 .. Len(commands') :
                                                commands'[i] # Help /\ commands'[i] = sets
      BY <1>1 DEF AssignmentsInOrder, Later
    <3>1. value # NoCvar /\ value' = commands[1]
      BY <2>1 DEF NoCvar
    <3>2. value < commands[1] /\ commands[1] <= sets
      <4>1. 1 \in 1 .. Len(commands)
        BY <1>2
      <4> QED
        BY <1>2, <1>4, <3>1, <4>1 DEF ConsoleInv, AssignmentsInOrder
    <3>3. sets \in Nat /\ value \in 0 .. sets
      BY <3>1 DEF ConsoleInv, ConsoleTypes
    <3> QED
      BY <1>2, <1>4, <1>24, <1>25, <3>1, <3>2, <3>3
  <2>4. ASSUME NEW k \in 0 .. MaxSets, Executed(k, value, commands)
        PROVE  Executed(k, value', commands')
    <3>1. CASE value = NoCvar
      BY <2>1, <2>4, <3>1, ConsoleAssumption DEF Executed, NoCvar
    <3>2. CASE value # NoCvar /\ value >= k
      <4>1. 1 \in 1 .. Len(commands) /\ value \in 0 .. sets /\ sets \in Nat
        BY <1>2, <3>2 DEF ConsoleInv, ConsoleTypes
      <4>2. value < commands[1]
        BY <1>4, <3>2, <4>1 DEF ConsoleInv, AssignmentsInOrder
      <4> QED
        BY <1>2, <2>1, <3>2, <4>1, <4>2 DEF Executed
    <3>3. ASSUME value # NoCvar, NEW i \in 1 .. Len(commands), commands[i] = k,
                 \A j \in 1 .. i : commands[j] # Help
          PROVE  Executed(k, value', commands')
      <4>1. CASE i = 1
        BY <1>2, <2>1, <3>3, <4>1 DEF Executed
      <4>2. CASE i # 1
        <5>1. i - 1 \in 1 .. Len(commands') /\ commands'[i - 1] = k
          BY <1>22, <1>23, <3>3, <4>2
        <5>2. ASSUME NEW j \in 1 .. i - 1
              PROVE  commands'[j] # Help
          <6>1. j \in 1 .. Len(commands') /\ j + 1 \in 1 .. i
            BY <5>1
          <6> QED
            BY <1>21, <3>3, <6>1
        <5> QED
          BY <5>1, <5>2 DEF Executed
      <4> QED
        BY <4>1, <4>2
    <3> QED
      BY <2>4, <3>1, <3>2, <3>3 DEF Executed
  <2> QED
    BY <1>1, <2>1, <2>2, <2>3, <2>4 DEF ConsoleInv, ConsoleTypes, AnswersFresh
<1> QED
  BY <1>3, <1>4

(* A line is heard, or not.                                                *)
LEMMA OutputStep ==
    ASSUME ConsoleInv, GameConsoleOutput \/ WriteLost
    PROVE  ConsoleInv'
<1>1. writes # <<>> /\ writes' = Tail(writes) /\ UNCHANGED <<commands, sets, value, atAsk>>
  BY DEF GameConsoleOutput, WriteLost, askVars, Hear
<1>2. /\ writes' \in Seq(Message)
      /\ Len(writes) \in Nat /\ Len(writes) > 0
      /\ Len(writes') = Len(writes) - 1
      /\ \A i \in 1 .. Len(writes) - 1 : writes'[i] = writes[i + 1]
      /\ Head(writes) = writes[1] /\ writes[1] \in Message
  <2>1. writes \in Seq(Message)
    BY DEF ConsoleInv, ConsoleTypes
  <2>2. Len(writes) \in Nat /\ Len(writes) > 0
    BY <1>1, <2>1, EmptySeq, LenProperties
  <2> QED
    BY <1>1, <2>1, <2>2, HeadTailProperties, ElementOfSeq
<1>3. AssignmentsInOrder' /\ \A k : Executed(k, value, commands) => Executed(k, value', commands')
  BY <1>1 DEF ConsoleInv, AssignmentsInOrder, Executed
<1>4. ASSUME NEW c \in Askers, ~atAsk[c].others
      PROVE  \A i \in 1 .. Len(writes') :
                writes'[i].text = "answer" => writes'[i].value >= atAsk[c].sets
  BY <1>2, <1>4 DEF ConsoleInv, AnswersFresh
<1>5. CASE UNCHANGED askVars
  BY <1>1, <1>2, <1>3, <1>4, <1>5 DEF ConsoleInv, ConsoleTypes, AnswersFresh, askVars
<1>6. CASE Hear(Head(writes)) /\ writes[1].text = "answer"
  <2>1. /\ asker' = [c \in Askers |-> IF c \in Waiting THEN "done" ELSE asker[c]]
        /\ answer' = [c \in Askers |-> IF c \in Waiting THEN writes[1].value ELSE answer[c]]
    BY <1>2, <1>6 DEF Hear
  <2>2. writes[1].value \in (0 .. MaxSets) \cup {NoCvar}
    BY <1>2 DEF Message
  <2>3. ConsoleTypes'
    BY <1>1, <1>2, <2>1, <2>2 DEF ConsoleInv, ConsoleTypes
  <2>4. ASSUME NEW c \in Askers, ~atAsk[c].others
        PROVE  writes[1].value >= atAsk[c].sets
    BY <1>2, <1>6, <2>4 DEF ConsoleInv, AnswersFresh
  <2> QED
    BY <1>1, <1>3, <1>4, <2>1, <2>3, <2>4 DEF ConsoleInv, AnswersFresh
<1>7. CASE Hear(Head(writes)) /\ writes[1].text # "answer"
  <2>1. /\ asker' = [c \in Askers |-> IF Contains(SetToSeq(Waiting), c) THEN "waiting"
                                      ELSE asker[c]]
        /\ answer' = answer
    BY <1>2, <1>7 DEF Hear, StartWait
  <2>2. \A c : Contains(SetToSeq(Waiting), c) => c \in Waiting
    <3>1. Waiting \in SUBSET Askers
      BY DEF Waiting
    <3> QED
      BY <3>1, SetToSeqRange
  <2>3. /\ asker' \in [Askers -> {"idle", "attention", "waiting", "late", "done"}]
        /\ \A c \in Askers : asker[c] = "done" => asker'[c] = "done"
    BY <2>1, <2>2 DEF Waiting, ConsoleInv, ConsoleTypes
  <2> QED
    BY <1>1, <1>2, <1>3, <1>4, <2>1, <2>3 DEF ConsoleInv, ConsoleTypes, AnswersFresh
<1> QED
  BY <1>5, <1>6, <1>7 DEF GameConsoleOutput, WriteLost

(* The game prints of its own; time passes.                                *)
LEMMA OtherConsoleStep ==
    ASSUME ConsoleInv, GamePrint \/ Tick \/ ClickRead \/ ClickLost \/ UNCHANGED consoleVars
    PROVE  ConsoleInv'
<1>1. CASE GamePrint
  <2>1. UNCHANGED <<commands, sets, value, asker, answer, atAsk>>
    BY <1>1 DEF GamePrint, askVars
  <2>2. writes' \in Seq(Message) /\ \A i \in 1 .. Len(writes') : writes'[i].text # "answer"
    <3>1. value \in (0 .. MaxSets) \cup {NoCvar}
      BY ConsoleAssumption DEF ConsoleInv, ConsoleTypes
    <3>2. \A kind \in {"line", "piece", "newline"}, text \in {"chat", "echo", ""} :
             Write(kind, text) \in Message /\ Write(kind, text).text = text
      BY <3>1 DEF Write, Message
    <3>3. CASE writes' = <<Write("line", "chat")>>
      <4>1. Write("line", "chat") \in Message /\ Write("line", "chat").text = "chat"
        BY <3>2
      <4> QED
        BY <3>3, <4>1, OneMessage
    <3>4. ASSUME NEW text \in {"chat", "echo"},
                 writes' = <<Write("piece", text), Write("newline", "")>>
          PROVE  writes' \in Seq(Message) /\ \A i \in 1 .. Len(writes') : writes'[i].text # "answer"
      <4>1. /\ Write("piece", text) \in Message /\ Write("piece", text).text = text
            /\ Write("newline", "") \in Message /\ Write("newline", "").text = ""
        BY <3>2
      <4> QED
        BY <3>4, <4>1, TwoMessages
    <3> QED
      BY <1>1, <3>3, <3>4 DEF GamePrint
  <2> QED
    BY <2>1, <2>2 DEF ConsoleInv, ConsoleTypes, AssignmentsInOrder, AnswersFresh
<1>2. CASE ClickRead \/ ClickLost
  <2>1. /\ asker' \in [Askers -> {"idle", "attention", "waiting", "late", "done"}]
        /\ \A c \in Askers : asker[c] = "done" => asker'[c] = "done"
        /\ UNCHANGED <<commands, sets, value, writes, answer, atAsk>>
    BY <1>2 DEF ClickRead, ClickLost, Due, Waiting, gameVars, ConsoleInv, ConsoleTypes
  <2> QED
    BY <2>1 DEF ConsoleInv, ConsoleTypes, AssignmentsInOrder, AnswersFresh
<1>3. CASE Tick \/ UNCHANGED consoleVars
  BY <1>3 DEF Tick, consoleVars, gameVars, askVars, ConsoleInv, ConsoleTypes,
              AssignmentsInOrder, AnswersFresh
<1> QED
  BY <1>1, <1>2, <1>3

(* However many coroutines ask, a value read is not older than the request *)
(* for it unless another answer was on its way (get_cvars()).              *)
THEOREM CvarFreshTheorem == ConsoleSpec => []CvarFresh
<1>1. ConsoleInit => ConsoleInv
  <2> SUFFICES ASSUME ConsoleInit PROVE ConsoleInv
    OBVIOUS
  <2>1. commands = <<>> /\ writes = <<>> /\ sets = 0 /\ value \in {0, NoCvar}
    BY DEF ConsoleInit
  <2>2. /\ commands \in Seq(0 .. sets) /\ writes \in Seq(Message)
        /\ Len(commands) = 0 /\ Len(writes) = 0
    BY <2>1, EmptySeq
  <2>3. ConsoleTypes
    BY <2>1, <2>2, ConsoleAssumption DEF ConsoleInit, ConsoleTypes
  <2> QED
    BY <2>1, <2>2, <2>3, ConsoleAssumption
       DEF ConsoleInit, ConsoleInv, AssignmentsInOrder, AnswersFresh, Executed, NoCvar
<1>2. ConsoleInv /\ [ConsoleNext]_consoleVars => ConsoleInv'
  <2> SUFFICES ASSUME ConsoleInv, [ConsoleNext]_consoleVars
               PROVE  ConsoleInv'
    OBVIOUS
  <2>1. CASE (\E c \in Askers : Ask(c)) \/ Attention
    BY <2>1, AskStep
  <2>2. CASE Set
    BY <2>2, SetStep
  <2>3. CASE GameExec
    BY <2>3, GameExecStep
  <2>4. CASE GameConsoleOutput \/ WriteLost
    BY <2>4, OutputStep
  <2>5. CASE GamePrint \/ Tick \/ ClickRead \/ ClickLost \/ UNCHANGED consoleVars
    BY <2>5, OtherConsoleStep
  <2> QED
    BY <2>1, <2>2, <2>3, <2>4, <2>5 DEF ConsoleNext
<1>3. ConsoleInv => CvarFresh
  <2> SUFFICES ASSUME ConsoleInv, NEW c \in Askers, asker[c] = "done", answer[c] # NoAnswer,
                      answer[c] < atAsk[c].sets
               PROVE  atAsk[c].others
    BY DEF CvarFresh
  <2>1. /\ answer[c] \in (0 .. MaxSets) \cup {NoAnswer, NoCvar}
        /\ atAsk[c] \in [sets : 0 .. MaxSets, others : BOOLEAN]
        /\ ~atAsk[c].others => answer[c] >= atAsk[c].sets
    BY DEF ConsoleInv, ConsoleTypes, AnswersFresh
  <2> QED
    BY <2>1, ConsoleAssumption DEF NoAnswer, NoCvar
<1> QED
  BY <1>1, <1>2, <1>3, PTL DEF ConsoleSpec

-----------------------------------------------------------------------------
(* The keys *)

(* What may be queued for the game by calls that are not reads: nothing    *)
(* there turns anything on.                                                *)
Queued == {Off(c) : c \in Holds} \cup {BindTo(kind) : kind \in {"alias", "toggle", "once"}}

Answers == Queued \cup {On(c) : c \in Holds} \cup {Tap}

(* A command that stays on comes with the one that takes it back.          *)
BindsPaired ==
    \/ binds_down \in {Unbound, Tap} /\ binds_up = Unbound
    \/ \E c \in Holds : binds_down = On(c) /\ binds_up = Off(c)

BindTypes ==
    /\ down \in BOOLEAN /\ is_pressed \in BOOLEAN /\ out \in BOOLEAN /\ stuck \in BOOLEAN
    /\ held \subseteq Holds
    /\ coming \in Seq(Queued)
    /\ BindsPaired

(* What is on is taken back by the release of the key, which is to come    *)
(* since the key is taken for pressed, or by a command on its way.         *)
HeldTracked ==
    ~stuck => \A c \in held :
        \/ is_pressed /\ binds_up = Off(c)
        \/ \E i \in 1 .. Len(coming) : coming[i] = Off(c)

BindInv == BindTypes /\ KeyTracked /\ HeldTracked

(* What is on after some commands was on before or is turned on by the     *)
(* answer, and is not taken back later.                                    *)
LEMMA OnAfterRead ==
    ASSUME BindTypes, NEW said \in Seq(Answers), NEW c \in OnAfter(coming \o said)
    PROVE  /\ c \in Holds
           /\ \/ /\ c \in held
                 /\ \A i \in 1 .. Len(coming) : coming[i] # Off(c)
                 /\ \A i \in 1 .. Len(said) : said[i] # Off(c)
              \/ \E i \in 1 .. Len(said) :
                    said[i] = On(c) /\ \A j \in 1 .. Len(said) : j > i => said[j] # Off(c)
<1> DEFINE cmds == coming \o said
           m == Len(coming)
           n == Len(said)
<1>1. coming \in Seq(Answers) /\ \A i \in 1 .. m : coming[i] \in Queued
  BY SeqMonotonic, ElementOfSeq DEF BindTypes, Answers
<1>2. m \in Nat /\ n \in Nat
  BY <1>1, LenProperties
<1>3. /\ cmds \in Seq(Answers) /\ Len(cmds) = m + n
      /\ \A i \in 1 .. m + n : cmds[i] = IF i <= m THEN coming[i] ELSE said[i - m]
  BY <1>1, ConcatProperties
<1>4. DOMAIN cmds = 1 .. m + n
  BY <1>3, LenProperties
<1> HIDE DEF cmds, m, n
<1>5. /\ \A i \in 1 .. m : i \in 1 .. m + n /\ cmds[i] = coming[i]
      /\ \A i \in 1 .. n : m + i \in 1 .. m + n /\ cmds[m + i] = said[i]
  BY <1>2, <1>3
<1>6. c \in OnAfter(cmds)
  BY DEF cmds
<1>7. CASE c \in held /\ \A i \in DOMAIN cmds : cmds[i] # Off(c)
  <2>1. \A i \in 1 .. m : coming[i] # Off(c)
    BY <1>4, <1>5, <1>7
  <2>2. \A i \in 1 .. n : said[i] # Off(c)
    BY <1>4, <1>5, <1>7
  <2> QED
    BY <1>6, <1>7, <2>1, <2>2 DEF OnAfter, m, n
<1>8. ASSUME NEW k \in 1 .. m + n, cmds[k] = On(c),
             \A j \in 1 .. m + n : j > k => cmds[j] # Off(c)
      PROVE  \E i \in 1 .. n : said[i] = On(c) /\ \A j \in 1 .. n : j > i => said[j] # Off(c)
  <2>1. CASE k <= m
    <3>1. k \in 1 .. m /\ coming[k] = On(c)
      BY <1>2, <1>3, <1>8, <2>1
    <3>2. coming[k] \in Queued
      BY <1>1, <3>1 DEF m
    <3>3. On(c).do = "on" /\ \A q \in Queued : q.do \in {"off", "bind"}
      BY DEF Queued, On, Off, BindTo
    <3> QED
      BY <3>1, <3>2, <3>3
  <2>2. CASE k > m
    <3>1. k - m \in 1 .. n /\ m + (k - m) = k
      BY <1>2, <2>2
    <3>2. said[k - m] = On(c)
      BY <1>5, <1>8, <3>1
    <3>3. ASSUME NEW j \in 1 .. n, j > k - m
          PROVE  said[j] # Off(c)
      <4>1. m + j > k /\ m + j \in 1 .. m + n
        BY <1>2, <3>3, <3>1
      <4> QED
        BY <1>5, <1>8, <4>1
    <3> QED
      BY <3>1, <3>2, <3>3
  <2> QED
    BY <1>2, <2>1, <2>2
<1> QED
  BY <1>4, <1>6, <1>7, <1>8 DEF OnAfter, m, n

(* The answers to reads                                                    *)
LEMMA OutputType ==
    ASSUME BindTypes, NEW c1 \in BOOLEAN, NEW c2 \in BOOLEAN
    PROVE  /\ Output(binds_down, c1) \in Seq(Answers)
           /\ Output(binds_up, c2) \in Seq(Queued)
           /\ Output(binds_down, c1) \o Output(binds_up, c2) \in Seq(Answers)
<1>1. binds_down \in Answers \/ binds_down = Unbound
  BY DEF BindTypes, BindsPaired, Answers
<1>2. binds_up \in Queued \/ binds_up = Unbound
  BY DEF BindTypes, BindsPaired, Queued
<1>3. Output(binds_down, c1) \in Seq(Answers)
  BY <1>1, EmptySeq DEF Output
<1>4. Output(binds_up, c2) \in Seq(Queued)
  BY <1>2, EmptySeq DEF Output
<1>5. Output(binds_up, c2) \in Seq(Answers)
  BY <1>4, SeqMonotonic DEF Answers
<1> QED
  BY <1>3, <1>4, <1>5, ConcatProperties

(* After a press only what the release takes back is on.                   *)
LEMMA Pressed ==
    ASSUME BindInv, ~stuck, NEW c1 \in BOOLEAN,
           NEW c \in OnAfter(coming \o Output(binds_down, c1))
    PROVE  binds_up = Off(c)
<1> DEFINE said == Output(binds_down, c1)
<1>1. said \in Seq(Answers)
  BY OutputType DEF BindInv
<1>2. said = <<>> \/ said = <<binds_down>>
  BY DEF Output
<1> HIDE DEF said
<1>3. c \in OnAfter(coming \o said)
  BY DEF said
<1>4. CASE c \in held /\ \A i \in 1 .. Len(coming) : coming[i] # Off(c)
  BY <1>4 DEF BindInv, HeldTracked
<1>5. ASSUME NEW i \in 1 .. Len(said), said[i] = On(c)
      PROVE  binds_up = Off(c)
  <2>1. binds_down = On(c)
    BY <1>2, <1>5
  <2>2. On(c) # Unbound /\ On(c) # Tap /\ \A d \in Holds : On(c) = On(d) => c = d
    <3>1. \A d : On(d).do = "on" /\ On(d).cmd = d /\ Unbound.do = "nil" /\ Tap.do = "tap"
      BY DEF On, Unbound, Tap
    <3> QED
      BY <3>1
  <2> QED
    BY <2>1, <2>2 DEF BindInv, BindTypes, BindsPaired
<1> QED
  BY <1>1, <1>3, <1>4, <1>5, OnAfterRead DEF BindInv

(* After a release, or a press with its release, nothing is on.            *)
LEMMA ReleasedAll ==
    ASSUME BindInv, ~stuck, NEW press \in Seq(Answers),
           \/ press = <<>>
           \/ press = <<binds_down>>
    PROVE  OnAfter(coming \o (press \o Output(binds_up, FALSE))) = {}
<1> DEFINE up == Output(binds_up, FALSE)
           said == press \o up
<1>1. up \in Seq(Answers) /\ Len(up) \in Nat /\ Len(press) \in Nat
  <2>1. up \in Seq(Queued)
    BY OutputType DEF BindInv
  <2>2. up \in Seq(Answers)
    BY <2>1, SeqMonotonic DEF Answers
  <2> QED
    BY <2>2, LenProperties
<1>2. /\ said \in Seq(Answers) /\ Len(said) = Len(press) + Len(up)
      /\ \A i \in 1 .. Len(press) + Len(up) :
            said[i] = IF i <= Len(press) THEN press[i] ELSE up[i - Len(press)]
  BY <1>1, ConcatProperties
<1>3. IF binds_up = Unbound THEN up = <<>> ELSE up = <<binds_up>>
  BY DEF Output
<1> HIDE DEF up, said
<1>4. SUFFICES ASSUME NEW c \in OnAfter(coming \o said)
               PROVE  FALSE
  BY DEF said, up
<1>5. c \in Holds /\ \A d : On(c) # Off(d) /\ On(c) # Unbound /\ On(c) # Tap /\ Off(c) # Unbound
                            /\ (On(c) = On(d) => c = d)
  <2>1. c \in Holds
    BY <1>2, OnAfterRead DEF BindInv
  <2>2. \A d : On(d).do = "on" /\ On(d).cmd = d /\ Off(d).do = "off"
    BY DEF On, Off
  <2>3. Unbound.do = "nil" /\ Tap.do = "tap"
    BY DEF Unbound, Tap
  <2> QED
    BY <2>1, <2>2, <2>3
<1>6. binds_up # Off(c)
  <2> SUFFICES ASSUME binds_up = Off(c) PROVE FALSE
    OBVIOUS
  <2>1. Len(up) = 1 /\ up[1] = Off(c)
    BY <1>3, <1>5
  <2>2. Len(press) + 1 \in 1 .. Len(said) /\ said[Len(press) + 1] = Off(c)
    BY <1>1, <1>2, <2>1
  <2>3. \A i \in 1 .. Len(said) : said[i] = On(c) => i < Len(press) + 1
    BY <1>1, <1>2, <1>5, <2>1, <2>2
  <2> QED
    BY <1>2, <2>2, <2>3, OnAfterRead DEF BindInv
<1>7. CASE c \in held /\ \A i \in 1 .. Len(coming) : coming[i] # Off(c)
  BY <1>6, <1>7 DEF BindInv, HeldTracked
<1>8. ASSUME NEW i \in 1 .. Len(said), said[i] = On(c)
      PROVE  FALSE
  <2>1. binds_down # On(c)
    BY <1>5, <1>6 DEF BindInv, BindTypes, BindsPaired
  <2>2. binds_up # On(c)
    BY <1>5 DEF BindInv, BindTypes, BindsPaired
  <2>3. CASE i <= Len(press)
    BY <1>1, <1>2, <1>8, <2>1, <2>3
  <2>4. CASE i > Len(press)
    <3>1. i - Len(press) \in 1 .. Len(up) /\ up[i - Len(press)] = On(c)
      BY <1>1, <1>2, <1>8, <2>4
    <3> QED
      BY <1>3, <2>2, <3>1
  <2> QED
    BY <1>1, <1>2, <2>3, <2>4
<1> QED
  BY <1>2, <1>4, <1>7, <1>8, OnAfterRead DEF BindInv

(* What a read for the key says of it, and what it may leave on            *)
ReadSays(type, r) ==
    /\ r.output \in Seq(Answers) /\ r.cancelled \in BOOLEAN
    /\ r.pressed = (type = "down" \/ (type = "toggle" /\ ~is_pressed))
    /\ ~stuck /\ ~r.cancelled =>
          \A c \in OnAfter(coming \o r.output) : binds_up = Off(c) /\ r.pressed = TRUE

(* The three kinds of reads for a key                                      *)
LEMMA ReadForKey ==
    ASSUME BindInv, NEW c1 \in BOOLEAN, NEW c2 \in BOOLEAN,
           NEW type \in {"down", "up", "toggle", "once"},
           NEW r, r = Contents(type, c1, c2)
    PROVE  ReadSays(type, r)
<1> DEFINE dn == Output(binds_down, c1)
           up == Output(binds_up, c2)
<1>1. dn \in Seq(Answers) /\ up \in Seq(Answers) /\ dn \o up \in Seq(Answers)
  BY OutputType, SeqMonotonic DEF BindInv, Answers
<1>2. dn = <<>> \/ dn = <<binds_down>>
  BY DEF Output
<1>3. <<>> \in Seq(Answers) /\ <<>> \o up = up
  BY <1>1, EmptySeq, ConcatEmptySeq
<1>4. CASE type = "down" \/ (type = "toggle" /\ ~is_pressed)
  <2>1. r = [pressed |-> TRUE, output |-> dn, cancelled |-> FALSE]
    BY <1>4 DEF Contents, OnPress, Toggle
  <2>2. ~stuck => \A c \in OnAfter(coming \o dn) : binds_up = Off(c)
    BY Pressed
  <2> HIDE DEF dn, up
  <2>3. r.pressed = TRUE /\ r.output = dn /\ r.cancelled = FALSE
    BY <2>1
  <2> QED
    BY <1>1, <1>4, <2>2, <2>3 DEF ReadSays
<1>5. CASE type = "up" \/ (type = "toggle" /\ is_pressed)
  <2>1. r = [pressed |-> FALSE, output |-> up, cancelled |-> c2]
    BY <1>5 DEF Contents, OnRelease, Toggle
  <2>2. ~stuck /\ ~c2 => OnAfter(coming \o up) = {}
    <3> SUFFICES ASSUME ~stuck, ~c2 PROVE OnAfter(coming \o up) = {}
      OBVIOUS
    <3>1. up = Output(binds_up, FALSE)
      BY DEF Output
    <3> HIDE DEF up
    <3>2. OnAfter(coming \o (<<>> \o up)) = {}
      BY <1>3, <3>1, ReleasedAll
    <3> QED
      BY <1>3, <3>2
  <2> HIDE DEF dn, up
  <2>3. r.pressed = FALSE /\ r.output = up /\ r.cancelled = c2
    BY <2>1
  <2> QED
    BY <1>1, <1>5, <2>2, <2>3 DEF ReadSays
<1>6. CASE type = "once"
  <2>1. r = [pressed |-> FALSE, output |-> dn \o up, cancelled |-> c2]
    BY <1>6 DEF Contents, OnRelease, OnPress
  <2>2. ~stuck /\ ~c2 => OnAfter(coming \o (dn \o up)) = {}
    <3> SUFFICES ASSUME ~stuck, ~c2 PROVE OnAfter(coming \o (dn \o up)) = {}
      OBVIOUS
    <3>1. up = Output(binds_up, FALSE)
      BY DEF Output
    <3> HIDE DEF up, dn
    <3> QED
      BY <1>1, <1>2, <3>1, ReleasedAll
  <2> HIDE DEF dn, up
  <2>3. r.pressed = FALSE /\ r.output = dn \o up /\ r.cancelled = c2
    BY <2>1
  <2> QED
    BY <1>1, <1>6, <2>2, <2>3 DEF ReadSays
<1> QED
  BY <1>4, <1>5, <1>6

(* The key goes down or up and is read for.                                *)
LEMMA KeyReadStep ==
    ASSUME BindInv, NEW c1 \in BOOLEAN, NEW c2 \in BOOLEAN, KeyRead(c1, c2)
    PROVE  BindInv'
<1> DEFINE type == ConfigFor(~down)
           r == Contents(type, c1, c2)
<1>1. type \in {"down", "up", "toggle", "once"}
  BY DEF KeyRead, ConfigFor
<1>2. /\ down' = ~down
      /\ is_pressed' = r.pressed
      /\ held' = OnAfter(coming \o r.output) /\ coming' = <<>>
      /\ out' = ((type = "toggle" /\ out) \/ (down' /\ bound' # bound))
      /\ stuck' = (held' # {} /\ (stuck \/ r.cancelled))
      /\ UNCHANGED <<binds_down, binds_up>>
  BY DEF KeyRead, GameRuns
<1>3. /\ type = "down" => bound = "alias" /\ ~down
      /\ type = "up" => bound = "alias" /\ down
      /\ type = "toggle" => bound = "toggle"
      /\ type = "once" => bound = "once"
  BY DEF ConfigFor
<1> HIDE DEF type
<1>4. /\ r.output \in Seq(Answers) /\ r.cancelled \in BOOLEAN
      /\ r.pressed = (type = "down" \/ (type = "toggle" /\ ~is_pressed))
      /\ ~stuck /\ ~r.cancelled =>
            \A c \in OnAfter(coming \o r.output) : binds_up = Off(c) /\ r.pressed = TRUE
  <2>1. r = Contents(type, c1, c2)
    OBVIOUS
  <2> HIDE DEF r
  <2>2. ReadSays(type, r)
    BY <1>1, <2>1, ReadForKey
  <2> QED
    BY <2>2 DEF ReadSays
<1> HIDE DEF r
<1>5. BindTypes'
  <2>1. down' \in BOOLEAN /\ is_pressed' \in BOOLEAN
    BY <1>2, <1>4, Zenon
  <2>2. out' \in BOOLEAN
    BY <1>2, Zenon
  <2>3. stuck' \in BOOLEAN
    BY <1>2, Zenon
  <2>4. held' \subseteq Holds /\ coming' \in Seq(Queued)
    BY <1>2, <1>4, OnAfterRead, EmptySeq DEF BindInv
  <2> QED
    BY <1>2, <2>1, <2>2, <2>3, <2>4 DEF BindInv, BindTypes, BindsPaired
<1>6. KeyTracked'
  BY <1>1, <1>2, <1>3, <1>4 DEF KeyTracked, BindInv, BindTypes, TellsRelease
<1>7. HeldTracked'
  BY <1>2, <1>4 DEF HeldTracked
<1> QED
  BY <1>5, <1>6, <1>7 DEF BindInv

(* The key is not read for, or in vain; another config is read.            *)
LEMMA OtherReadStep ==
    ASSUME BindInv, KeyUnread \/ KeyLost \/ OtherRead
    PROVE  BindInv'
<1>1. CASE KeyUnread
  BY <1>1 DEF KeyUnread, ConfigFor, TellsRelease, BindInv, BindTypes, BindsPaired, KeyTracked,
              HeldTracked
<1>2. CASE KeyLost
  BY <1>2 DEF KeyLost, BindInv, BindTypes, BindsPaired, KeyTracked, HeldTracked
<1>3. CASE OtherRead
  <2>1. /\ held' = OnAfter(coming \o <<>>) /\ coming' = <<>>
        /\ out' = (out \/ (down /\ bound' # bound))
        /\ stuck' = (stuck /\ held' # {})
        /\ UNCHANGED <<down, is_pressed, binds_down, binds_up>>
    BY <1>3 DEF OtherRead, GameRuns
  <2>2. <<>> \in Seq(Answers) /\ Len(<<>>) = 0
    BY EmptySeq
  <2>3. ASSUME NEW c \in held'
        PROVE  c \in Holds /\ c \in held /\ \A i \in 1 .. Len(coming) : coming[i] # Off(c)
    <3> DEFINE none == <<>>
    <3>1. none \in Seq(Answers) /\ Len(none) = 0 /\ c \in OnAfter(coming \o none)
      BY <2>1, <2>2, <2>3
    <3> HIDE DEF none
    <3>2. BindTypes /\ \A i : ~(i \in 1 .. Len(none))
      BY <3>1 DEF BindInv
    <3> QED
      BY <3>1, <3>2, OnAfterRead
  <2>4. out' \in BOOLEAN
    BY <2>1, Zenon
  <2>5. stuck' \in BOOLEAN
    BY <2>1, Zenon
  <2>6. BindTypes'
    BY <2>1, <2>2, <2>3, <2>4, <2>5, EmptySeq DEF BindInv, BindTypes, BindsPaired
  <2>7. KeyTracked'
    BY <2>1 DEF KeyTracked, TellsRelease, BindInv, BindTypes
  <2>8. HeldTracked'
    BY <2>1, <2>3 DEF HeldTracked, BindInv
  <2> QED
    BY <2>6, <2>7, <2>8 DEF BindInv
<1> QED
  BY <1>1, <1>2, <1>3

(* Something is put behind what is coming.                                 *)
LEMMA Behind ==
    ASSUME NEW old \in Seq(Queued), NEW more \in Seq(Queued)
    PROVE  /\ old \o more \in Seq(Queued)
           /\ \A x : (\E i \in 1 .. Len(old) : old[i] = x)
                         \/ (\E i \in 1 .. Len(more) : more[i] = x)
                        => \E i \in 1 .. Len(old \o more) : (old \o more)[i] = x
<1> DEFINE m == Len(old)
           n == Len(more)
           s == old \o more
<1>1. m \in Nat /\ n \in Nat
  BY LenProperties
<1>2. /\ s \in Seq(Queued) /\ Len(s) = m + n
      /\ \A i \in 1 .. m + n : s[i] = IF i <= m THEN old[i] ELSE more[i - m]
  BY ConcatProperties
<1> HIDE DEF m, n, s
<1>3. \A i \in 1 .. m : i \in 1 .. Len(s) /\ s[i] = old[i]
  BY <1>1, <1>2
<1>4. \A i \in 1 .. n : m + i \in 1 .. Len(s) /\ s[m + i] = more[i]
  BY <1>1, <1>2
<1> QED
  BY <1>2, <1>3, <1>4 DEF m, n, s

(* What a script binds, and how the game is told.                          *)
LEMMA BindCallTypes ==
    ASSUME NEW call \in BindCalls, NEW noalias, NEW known
    PROVE  /\ BindCommands(call.up, noalias, known) \in Seq(Queued)
           /\ \/ call.v \in {Unbound, Tap} /\ AddRelease(call.v, call.up) = Unbound
              \/ \E c \in Holds : call.v = On(c) /\ AddRelease(call.v, call.up) = Off(c)
<1>1. BindTo("toggle") \in Queued /\ BindTo("once") \in Queued /\ BindTo("alias") \in Queued
  BY DEF Queued
<1>2. BindCommands(call.up, noalias, known) \in Seq(Queued)
  BY <1>1, EmptySeq DEF BindCommands
<1>3. Tap.do = "tap" /\ \A c : On(c).do = "on" /\ On(c).cmd = c /\ Off(c).do = "off"
  BY DEF Tap, On, Off
<1>4. Unbound.do = "nil"
  BY DEF Unbound
<1>5. ASSUME call.v = Tap, call.up = Unbound
      PROVE  AddRelease(call.v, call.up) = Unbound
  BY <1>3, <1>5 DEF AddRelease
<1>6. ASSUME NEW c \in Holds, call.v = On(c), call.up \in {Unbound, Off(c)}
      PROVE  AddRelease(call.v, call.up) = Off(c)
  BY <1>3, <1>4, <1>6 DEF AddRelease
<1>7. \/ call.v = Tap /\ call.up = Unbound
      \/ \E c \in Holds : call.v = On(c) /\ call.up \in {Unbound, Off(c)}
  BY DEF BindCalls
<1> QED
  BY <1>2, <1>5, <1>6, <1>7

(* The release of a key that is taken for pressed                          *)
LEMMA ReleasedType ==
    ASSUME BindInv
    PROVE  /\ Released \in Seq(Queued)
           /\ \A c : is_pressed /\ binds_up = Off(c) =>
                        \E i \in 1 .. Len(Released) : Released[i] = Off(c)
<1>1. Released = IF is_pressed /\ binds_up # Unbound THEN <<binds_up>> ELSE <<>>
  BY DEF Released, Output, BindInv, BindTypes
<1>2. binds_up \in Queued \/ binds_up = Unbound
  BY DEF BindInv, BindTypes, BindsPaired, Queued
<1>3. Released \in Seq(Queued)
  BY <1>1, <1>2, EmptySeq
<1>4. ASSUME NEW c, is_pressed, binds_up = Off(c)
      PROVE  \E i \in 1 .. Len(Released) : Released[i] = Off(c)
  <2>1. Off(c).do = "off" /\ Unbound.do = "nil"
    BY DEF Off, Unbound
  <2>2. Released = <<Off(c)>>
    BY <1>1, <1>4, <2>1
  <2>3. Len(<<Off(c)>>) = 1 /\ <<Off(c)>>[1] = Off(c)
    OBVIOUS
  <2> QED
    BY <2>2, <2>3
<1> QED
  BY <1>3, <1>4

(* bind() in a script that runs, and release_all_keys()                    *)
LEMMA BindStep ==
    ASSUME BindInv,
           \/ \E call \in BindCalls, noalias \in BOOLEAN : Bind(call, noalias)
           \/ ReleaseAllKeys
    PROVE  BindInv'
<1>0. coming \in Seq(Queued)
  BY DEF BindInv, BindTypes
<1>1. ASSUME NEW call \in BindCalls, NEW noalias \in BOOLEAN, Bind(call, noalias)
      PROVE  BindInv'
  <2> DEFINE more == BindCommands(call.up, noalias, binds_down # Unbound)
  <2>1. /\ binds_down' = call.v /\ binds_up' = AddRelease(call.v, call.up)
        /\ coming' = coming \o more
        /\ stuck' = (stuck \/ (held # {} /\ binds_up' # binds_up))
        /\ UNCHANGED <<down, bound, held, is_pressed, out>>
    BY <1>1 DEF Bind
  <2>2. more \in Seq(Queued) /\ BindsPaired'
    <3>1. /\ more \in Seq(Queued)
          /\ \/ call.v \in {Unbound, Tap} /\ AddRelease(call.v, call.up) = Unbound
             \/ \E c \in Holds : call.v = On(c) /\ AddRelease(call.v, call.up) = Off(c)
      BY BindCallTypes
    <3> QED
      BY <2>1, <3>1 DEF BindsPaired
  <2> HIDE DEF more
  <2>3. coming' \in Seq(Queued) /\ \A x : (\E i \in 1 .. Len(coming) : coming[i] = x)
                                     => \E i \in 1 .. Len(coming') : coming'[i] = x
    BY <1>0, <2>1, <2>2, Behind
  <2>4. stuck' \in BOOLEAN
    BY <2>1, Zenon
  <2>5. BindTypes'
    BY <2>1, <2>2, <2>3, <2>4 DEF BindInv, BindTypes
  <2>6. HeldTracked'
    BY <2>1, <2>3 DEF BindInv, HeldTracked
  <2> QED
    BY <2>1, <2>5, <2>6 DEF BindInv, KeyTracked
<1>2. CASE ReleaseAllKeys
  <2>1. /\ coming' = coming \o Released /\ is_pressed' = FALSE
        /\ out' = (down /\ TellsRelease(bound))
        /\ UNCHANGED <<down, bound, held, binds_down, binds_up, stuck>>
    BY <1>2 DEF ReleaseAllKeys
  <2>2. coming' \in Seq(Queued)
        /\ \A x : (\E i \in 1 .. Len(coming) : coming[i] = x)
                      \/ (\E i \in 1 .. Len(Released) : Released[i] = x)
                  => \E i \in 1 .. Len(coming') : coming'[i] = x
    <3> DEFINE more == Released
    <3>1. more \in Seq(Queued)
      BY ReleasedType
    <3>2. coming' = coming \o more
      BY <2>1
    <3> HIDE DEF more
    <3>3. /\ coming \o more \in Seq(Queued)
          /\ \A x : (\E i \in 1 .. Len(coming) : coming[i] = x)
                        \/ (\E i \in 1 .. Len(more) : more[i] = x)
                    => \E i \in 1 .. Len(coming \o more) : (coming \o more)[i] = x
      BY <1>0, <3>1, Behind
    <3> QED
      BY <3>2, <3>3 DEF more
  <2>3. out' \in BOOLEAN
    BY <2>1, Zenon
  <2>4. BindTypes'
    BY <2>1, <2>2, <2>3 DEF BindInv, BindTypes, BindsPaired
  <2>5. HeldTracked'
    BY <2>1, <2>2, ReleasedType DEF BindInv, HeldTracked
  <2>6. KeyTracked'
    BY <2>1 DEF KeyTracked
  <2> QED
    BY <2>4, <2>5, <2>6 DEF BindInv
<1> QED
  BY <1>1, <1>2

(* What a script that is loaded binds: the queue begins with the releases. *)
LEMMA ScriptBindsStep ==
    ASSUME BindInv, NEW unloading \in Seq(Queued), ScriptBinds(unloading)
    PROVE  /\ BindsPaired' /\ coming' \in Seq(Queued)
           /\ \A x : (\E i \in 1 .. Len(unloading) : unloading[i] = x)
                        => \E i \in 1 .. Len(coming') : coming'[i] = x
<1>1. CASE binds_down' = Unbound /\ binds_up' = Unbound /\ coming' = unloading
  BY <1>1 DEF BindsPaired
<1>2. ASSUME NEW call \in BindCalls, NEW noalias \in BOOLEAN,
             binds_down' = call.v, binds_up' = AddRelease(call.v, call.up),
             coming' = unloading \o BindCommands(call.up, noalias, FALSE)
      PROVE  /\ BindsPaired' /\ coming' \in Seq(Queued)
             /\ \A x : (\E i \in 1 .. Len(unloading) : unloading[i] = x)
                          => \E i \in 1 .. Len(coming') : coming'[i] = x
  <2> DEFINE more == BindCommands(call.up, noalias, FALSE)
  <2>1. /\ more \in Seq(Queued)
        /\ \/ call.v \in {Unbound, Tap} /\ AddRelease(call.v, call.up) = Unbound
           \/ \E c \in Holds : call.v = On(c) /\ AddRelease(call.v, call.up) = Off(c)
    BY BindCallTypes
  <2>2. coming' = unloading \o more
    BY <1>2
  <2> HIDE DEF more
  <2>3. BindsPaired'
    BY <1>2, <2>1 DEF BindsPaired
  <2> QED
    BY <2>1, <2>2, <2>3, Behind
<1> QED
  BY <1>1, <1>2 DEF ScriptBinds

(* Reloads that fail, others, and restarts                                 *)
LEMMA ReloadStep ==
    ASSUME BindInv, ReloadFails \/ (\E release \in BOOLEAN : Reload(release)) \/ Restart
    PROVE  BindInv'
<1>4. DOMAIN coming = 1 .. Len(coming) /\ \A c : Off(c).do = "off"
  BY LenProperties DEF BindInv, BindTypes, Off
<1>5. ~OffComing => \A c : \A i \in 1 .. Len(coming) : coming[i] # Off(c)
  BY <1>4 DEF OffComing
<1>1. CASE ReloadFails
  <2>1. /\ coming' = <<>> /\ stuck' = (stuck \/ (held # {} /\ OffComing))
        /\ UNCHANGED <<down, bound, held, is_pressed, binds_down, binds_up, out>>
    BY <1>1 DEF ReloadFails
  <2>2. stuck' \in BOOLEAN
    BY <2>1, Zenon
  <2>3. BindTypes'
    BY <2>1, <2>2, EmptySeq DEF BindInv, BindTypes, BindsPaired
  <2>4. HeldTracked'
    BY <1>5, <2>1 DEF BindInv, HeldTracked
  <2> QED
    BY <2>1, <2>3, <2>4 DEF BindInv, KeyTracked
<1>2. ASSUME NEW release \in BOOLEAN, Reload(release)
      PROVE  BindInv'
  <2> DEFINE unloading == IF release THEN Released ELSE <<>>
  <2>1. /\ ScriptBinds(unloading)
        /\ stuck' = \/ stuck
                    \/ held # {} /\ OffComing
                    \/ held # {} /\ binds_up' # binds_up /\ unloading = <<>>
        /\ IF release THEN is_pressed' = FALSE /\ out' = (down /\ TellsRelease(bound))
           ELSE UNCHANGED <<is_pressed, out>>
        /\ UNCHANGED <<down, bound, held>>
    BY <1>2 DEF Reload
  <2>2. unloading \in Seq(Queued)
    BY ReleasedType, EmptySeq
  <2>3. release => unloading = Released
    OBVIOUS
  <2> HIDE DEF unloading
  <2>4. /\ BindsPaired' /\ coming' \in Seq(Queued)
        /\ \A x : (\E i \in 1 .. Len(unloading) : unloading[i] = x)
                      => \E i \in 1 .. Len(coming') : coming'[i] = x
    BY <2>1, <2>2, ScriptBindsStep
  <2>5. is_pressed' \in BOOLEAN /\ out' \in BOOLEAN
    <3>1. CASE release
      BY <2>1, <3>1, Zenon
    <3>2. CASE ~release
      BY <2>1, <3>2 DEF BindInv, BindTypes
    <3> QED
      BY <3>1, <3>2
  <2>6. stuck' \in BOOLEAN
    BY <2>1, Zenon
  <2>7. BindTypes'
    BY <2>1, <2>4, <2>5, <2>6 DEF BindInv, BindTypes
  <2>8. KeyTracked'
    BY <2>1 DEF BindInv, KeyTracked
  <2>9. HeldTracked'
    <3> SUFFICES ASSUME ~stuck', NEW c \in held
                 PROVE  \/ is_pressed' /\ binds_up' = Off(c)
                        \/ \E i \in 1 .. Len(coming') : coming'[i] = Off(c)
      BY <2>1 DEF HeldTracked
    <3>1. is_pressed /\ binds_up = Off(c)
      BY <1>5, <2>1 DEF BindInv, HeldTracked
    <3>2. CASE release
      BY <2>3, <2>4, <3>1, <3>2, ReleasedType
    <3>3. CASE ~release
      <4>1. unloading = <<>>
        BY <3>3 DEF unloading
      <4> QED
        BY <2>1, <3>1, <3>3, <4>1
    <3> QED
      BY <3>2, <3>3
  <2> QED
    BY <2>7, <2>8, <2>9 DEF BindInv
<1>3. CASE Restart
  <2>1. /\ ScriptBinds(<<>>) /\ is_pressed' = FALSE
        /\ out' = (down /\ TellsRelease(bound)) /\ stuck' = (held # {})
        /\ UNCHANGED <<down, bound, held>>
    BY <1>3 DEF Restart
  <2>2. BindsPaired' /\ coming' \in Seq(Queued)
    BY <2>1, EmptySeq, ScriptBindsStep
  <2>3. out' \in BOOLEAN
    BY <2>1, Zenon
  <2>4. stuck' \in BOOLEAN
    BY <2>1, Zenon
  <2>5. BindTypes'
    BY <2>1, <2>2, <2>3, <2>4 DEF BindInv, BindTypes
  <2> QED
    BY <2>1, <2>5 DEF BindInv, KeyTracked, HeldTracked
<1> QED
  BY <1>1, <1>2, <1>3

(* cfgfs knows whether the key is down, and what it turned on does not     *)
(* stay on, except in the ways the property lists (_get_contents(),        *)
(* bind(), release_all_keys()): for any commands, and any number queued.   *)
THEOREM KeyReleasedTheorem == BindSpec => []KeyReleased
<1>1. BindInit => BindInv
  BY EmptySeq DEF BindInit, BindInv, BindTypes, BindsPaired, KeyTracked, HeldTracked, TellsRelease
<1>2. BindInv /\ [BindNext]_bindVars => BindInv'
  <2> SUFFICES ASSUME BindInv, [BindNext]_bindVars PROVE BindInv'
    OBVIOUS
  <2>1. CASE UNCHANGED bindVars
    BY <2>1 DEF bindVars, BindInv, BindTypes, BindsPaired, KeyTracked, HeldTracked
  <2> QED
    BY <2>1, KeyReadStep, OtherReadStep, BindStep, ReloadStep DEF BindNext
<1>3. BindInv => KeyReleased
  <2> SUFFICES ASSUME BindInv, ~down, ~out, ~stuck, ~OffComing, NEW c \in held
               PROVE  FALSE
    BY DEF BindInv, KeyReleased
  <2>1. ~is_pressed
    BY DEF BindInv, KeyTracked
  <2>2. DOMAIN coming = 1 .. Len(coming) /\ Off(c).do = "off"
    BY LenProperties DEF BindInv, BindTypes, Off
  <2> QED
    BY <2>1, <2>2 DEF BindInv, HeldTracked, OffComing
<1> QED
  BY <1>1, <1>2, <1>3, PTL DEF BindSpec

-----------------------------------------------------------------------------
(* Strings: what their memory holds ...                                    *)
Cell == Chars \cup {Nul, Junk}

(* Copying a text into memory changes it up to the null and not behind it. *)
LEMMA PutProperties ==
    ASSUME NEW mem \in [Offsets -> Cell], NEW place \in Nat, NEW text \in Seq(Cell),
           place + Len(text) <= MaxLength
    PROVE  /\ Put(mem, place, text) \in [Offsets -> Cell]
           /\ Put(mem, place, text)[place + Len(text)] = Nul
           /\ \A i \in Offsets : i > place + Len(text) => Put(mem, place, text)[i] = mem[i]
<1>1. MaxLength \in Nat /\ Len(text) \in Nat
  BY StrAssumption
<1>2. ASSUME NEW i \in Offsets
      PROVE  Put(mem, place, text)[i] \in Cell
  <2>1. CASE i >= place /\ i < place + Len(text)
    <3>1. i - place + 1 \in 1 .. Len(text)
      BY <1>1, <2>1 DEF Offsets
    <3>2. text[i - place + 1] \in Cell
      BY <3>1
    <3> QED
      BY <2>1, <3>2 DEF Put
  <2>2. CASE ~(i >= place /\ i < place + Len(text))
    BY <2>2 DEF Put, Cell
  <2> QED
    BY <2>1, <2>2
<1>3. Put(mem, place, text) \in [Offsets -> Cell]
  BY <1>2 DEF Put
<1>4. place + Len(text) \in Offsets
  BY <1>1 DEF Offsets
<1>5. Put(mem, place, text)[place + Len(text)] = Nul
  BY <1>1, <1>4 DEF Put
<1>6. \A i \in Offsets : i > place + Len(text) => Put(mem, place, text)[i] = mem[i]
  BY <1>1 DEF Put, Offsets
<1> QED
  BY <1>3, <1>5, <1>6

(* Memory nobody has written, and with an empty text in it *)
LEMMA FreshProperties ==
    /\ Fresh \in [Offsets -> Cell]
    /\ \A i \in Offsets : Fresh[i] = Junk
    /\ Put(Fresh, 0, <<>>) \in [Offsets -> Cell]
    /\ Put(Fresh, 0, <<>>)[0] = Nul
    /\ \A i \in Offsets : i > 0 => Put(Fresh, 0, <<>>)[i] = Junk
<1>1. Fresh \in [Offsets -> Cell] /\ \A i \in Offsets : Fresh[i] = Junk
  BY DEF Fresh, Cell
<1>2. <<>> \in Seq(Cell) /\ Len(<<>>) = 0
  BY EmptySeq
<1>3. 0 + Len(<<>>) <= MaxLength /\ 0 + Len(<<>>) = 0
  BY <1>2, StrAssumption
<1>4. /\ Put(Fresh, 0, <<>>) \in [Offsets -> Cell]
      /\ Put(Fresh, 0, <<>>)[0 + Len(<<>>)] = Nul
      /\ \A i \in Offsets : i > 0 + Len(<<>>) => Put(Fresh, 0, <<>>)[i] = Fresh[i]
  <2>1. 0 \in Nat
    OBVIOUS
  <2>2. Fresh \in [Offsets -> Cell]
    BY <1>1
  <2> HIDE DEF Fresh
  <2> QED
    BY <1>2, <1>3, <2>1, <2>2, PutProperties
<1> QED
  BY <1>1, <1>3, <1>4

(* Every new string has the shape. *)
LEMMA NewShaped ==
    /\ \A sz \in BufSizes : Shaped(New(sz))
    /\ \A sz \in BufSizes, grow \in BOOLEAN : Shaped(FromStkBuf(sz, grow))
    /\ \A resize \in BOOLEAN : Shaped(Zeroed(resize))
<1>1. 0 \in Offsets /\ MaxLength \in Nat /\ BufSizes \subseteq 1 .. MaxLength
  BY StrAssumption DEF Offsets
<1>2. ASSUME NEW sz \in BufSizes
      PROVE  Shaped(New(sz))
  BY <1>1, FreshProperties DEF New, Shaped, StrType, Cell, Offsets
<1>3. ASSUME NEW sz \in BufSizes, NEW grow \in BOOLEAN
      PROVE  Shaped(FromStkBuf(sz, grow))
  BY <1>1, FreshProperties DEF FromStkBuf, Shaped, StrType, Cell, Offsets
<1>4. ASSUME NEW resize \in BOOLEAN
      PROVE  Shaped(Zeroed(resize))
  BY <1>1, FreshProperties DEF Zeroed, Shaped, StrType, Cell, Offsets
<1> QED
  BY <1>2, <1>3, <1>4

(* The text of a string, character by character *)
LEMMA TextCells ==
    ASSUME NEW s \in StrType
    PROVE  /\ Text(s) \in Seq(Cell) /\ Len(Text(s)) = s.length
           /\ \A i \in 1 .. s.length : Text(s)[i] = s.mem[i - 1]
<1>1. s.length \in Nat /\ s.length <= MaxLength /\ MaxLength \in Nat
  BY StrAssumption DEF StrType, Offsets
<1>2. \A i \in 1 .. s.length : s.mem[i - 1] \in Cell
  BY <1>1 DEF StrType, Offsets, Cell
<1> QED
  BY <1>1, <1>2 DEF Text

-----------------------------------------------------------------------------
(* What fits is written behind the text of any string whose memory ends    *)
(* where it says: it need not have had a null yet.                         *)
LEMMA WrittenShaped ==
    ASSUME NEW s \in StrType, NEW text \in Seq(Cell),
           s.length + Len(text) < s.capacity,
           s.home # "none",
           s.resizable => s.home # "caller",
           ~s.resizable => s.home # "heap",
           \A i \in Offsets : i >= s.capacity => s.mem[i] = Junk
    PROVE  Shaped(Written(s, text))
<1>1. /\ MaxLength \in Nat /\ s.length \in Nat /\ Len(text) \in Nat
      /\ s.capacity \in 0 .. MaxLength + 1 /\ s.mem \in [Offsets -> Cell]
  BY StrAssumption DEF StrType, Offsets, Cell
<1>2. s.length + Len(text) <= MaxLength
  BY <1>1
<1> DEFINE m == Put(s.mem, s.length, text)
           n == s.length + Len(text)
<1>3. /\ m \in [Offsets -> Cell] /\ m[n] = Nul
      /\ \A i \in Offsets : i > n => m[i] = s.mem[i]
  BY <1>1, <1>2, PutProperties
<1>4. n \in Offsets /\ n < s.capacity
  BY <1>1, <1>2 DEF Offsets
<1> HIDE DEF m, n
<1>5. Written(s, text) = [s EXCEPT !.mem = m, !.length = n]
  BY DEF Written, m, n
<1>6. [s EXCEPT !.mem = m, !.length = n] \in StrType
  BY <1>3, <1>4 DEF StrType, Cell
<1>7. \A i \in Offsets : i >= s.capacity => m[i] = Junk
  BY <1>1, <1>3, <1>4 DEF Offsets
<1> QED
  BY <1>1, <1>3, <1>4, <1>5, <1>6, <1>7 DEF Shaped, StrType

(* A string that grows by a text has room for it. *)
LEMMA GrownShaped ==
    ASSUME NEW s, Shaped(s), Growable(s), NEW text \in Seq(Cell),
           s.length + Len(text) <= MaxLength, ~Fits(s, text)
    PROVE  Shaped(Written(Resized(s, s.length + Len(text) + 1), text))
<1>1. /\ MaxLength \in Nat /\ s.length \in Nat /\ Len(text) \in Nat
      /\ s.capacity \in 0 .. MaxLength + 1 /\ s.mem \in [Offsets -> Cell] /\ s \in StrType
  BY StrAssumption DEF Shaped, StrType, Offsets, Cell
<1> DEFINE sz == s.length + Len(text) + 1
           r == Resized(s, sz)
<1>2. sz \in 1 .. MaxLength + 1 /\ s.length + Len(text) < sz /\ s.length < sz
  BY <1>1
<1>3. sz >= s.capacity
  BY <1>1 DEF Fits, Room
<1>4. CASE s.resizable
  <2>1. r = [s EXCEPT !.home = "heap", !.capacity = sz]
    BY <1>4 DEF Resized
  <2>2. \A i \in Offsets : i >= sz => s.mem[i] = Junk
    BY <1>1, <1>2, <1>3, SMTT(30) DEF Shaped, Offsets
  <2> HIDE DEF r, sz
  <2>3. /\ r \in StrType /\ r.length = s.length /\ r.capacity = sz /\ r.home = "heap"
        /\ r.resizable /\ r.mem = s.mem
    <3>1. sz \in 0 .. MaxLength + 1
      BY <1>1, <1>2
    <3>2. r \in StrType
      BY <1>1, <2>1, <3>1 DEF StrType
    <3>3. r.length = s.length /\ r.capacity = sz /\ r.home = "heap" /\ r.mem = s.mem
      BY <1>1, <2>1 DEF StrType
    <3>4. r.resizable = s.resizable
      BY <1>1, <2>1 DEF StrType
    <3> QED
      BY <1>4, <3>2, <3>3, <3>4
  <2>4. Shaped(Written(r, text))
    BY <1>2, <2>2, <2>3, WrittenShaped
  <2> QED
    BY <2>4 DEF r, sz
<1>5. CASE ~s.resizable
  <2> DEFINE t == IF s.home = "none" THEN <<>> ELSE Text(s)
             m == Put(Fresh, 0, t)
  <2>1. t \in Seq(Cell) /\ Len(t) = s.length
    BY TextCells, EmptySeq DEF Shaped
  <2>2. 0 + Len(t) <= MaxLength /\ 0 + Len(t) = s.length
    BY <1>1, <2>1
  <2> HIDE DEF t
  <2>3. m \in [Offsets -> Cell] /\ \A i \in Offsets : i > s.length => m[i] = Junk
    BY <2>1, <2>2, FreshProperties, PutProperties
  <2>4. r = [s EXCEPT !.home = "heap", !.capacity = sz, !.resizable = TRUE, !.mem = m]
    BY <1>5 DEF Resized, t
  <2> HIDE DEF m, r, sz
  <2>5. /\ r \in StrType /\ r.length = s.length /\ r.capacity = sz /\ r.home = "heap"
        /\ r.resizable /\ r.mem = m
    <3>1. sz \in 0 .. MaxLength + 1
      BY <1>1, <1>2
    <3>2. r \in StrType
      BY <1>1, <2>3, <2>4, <3>1 DEF StrType, Cell
    <3>3. r.length = s.length /\ r.capacity = sz /\ r.home = "heap" /\ r.mem = m
      BY <1>1, <2>4 DEF StrType
    <3>4. r.resizable = TRUE
      BY <1>1, <2>4 DEF StrType
    <3> QED
      BY <3>2, <3>3, <3>4
  <2>6. \A i \in Offsets : i >= sz => m[i] = Junk
    BY <1>1, <1>2, <2>3 DEF Offsets
  <2>7. Shaped(Written(r, text))
    BY <1>2, <2>5, <2>6, WrittenShaped
  <2> QED
    BY <2>7 DEF r, sz
<1> QED
  BY <1>4, <1>5

(* A string that does not grow takes what there is room for. *)
LEMMA CutShaped ==
    ASSUME NEW s, Shaped(s), NEW text \in Seq(Cell), ~Fits(s, text)
    PROVE  Shaped(Cut(s, text))
<1>1. /\ MaxLength \in Nat /\ s.length \in Nat /\ Len(text) \in Nat
      /\ s.capacity \in 0 .. MaxLength + 1 /\ s \in StrType
  BY StrAssumption DEF Shaped, StrType, Offsets
<1> DEFINE o == [s EXCEPT !.overflow = TRUE]
<1>2. /\ o \in StrType /\ o.length = s.length /\ o.capacity = s.capacity /\ o.home = s.home
      /\ o.resizable = s.resizable /\ o.mem = s.mem
  BY <1>1 DEF StrType
<1>3. Shaped(o)
  BY <1>2 DEF Shaped
<1> HIDE DEF o
<1>4. CASE Room(s) = 0
  BY <1>3, <1>4 DEF Cut, o
<1>5. CASE Room(s) # 0
  <2>1. Room(s) \in Nat /\ Room(s) = s.capacity - s.length /\ s.capacity > 0
    BY <1>1, <1>5 DEF Room, Shaped
  <2>2. Room(s) - 1 \in 0 .. Len(text)
    BY <1>1, <1>5, <2>1 DEF Fits
  <2> DEFINE c == SubSeq(text, 1, Room(s) - 1)
  <2>3. c \in Seq(Cell) /\ Len(c) = Room(s) - 1
    BY <2>1, <2>2, SubSeqProperties
  <2> HIDE DEF c
  <2>4. o.length + Len(c) < o.capacity
    BY <1>1, <1>2, <2>1, <2>3
  <2>5. /\ o.home # "none"
        /\ o.resizable => o.home # "caller"
        /\ ~o.resizable => o.home # "heap"
        /\ \A i \in Offsets : i >= o.capacity => o.mem[i] = Junk
    BY <1>2, <1>3, <2>1 DEF Shaped
  <2>6. Shaped(Written(o, c))
    BY <1>2, <2>3, <2>4, <2>5, WrittenShaped
  <2> QED
    BY <1>5, <2>6 DEF Cut, o, c
<1> QED
  BY <1>4, <1>5

(* string_append_from_buf() and string_append_from_fmt() keep the shape.   *)
LEMMA AppendedShaped ==
    ASSUME NEW s, Shaped(s), NEW text \in Seq(Cell), NEW memory \in BOOLEAN,
           s.length + Len(text) <= MaxLength
    PROVE  Shaped(Appended(s, text, memory))
<1>1. CASE text = <<>>
  BY <1>1 DEF Appended
<1>2. CASE text # <<>> /\ Fits(s, text)
  <2>1. s.length \in Nat /\ Len(text) \in Nat /\ s.capacity \in Nat /\ s \in StrType
    BY StrAssumption DEF Shaped, StrType, Offsets
  <2>2. s.length + Len(text) < s.capacity
    BY <1>2, <2>1 DEF Fits, Room
  <2>3. s.home # "none"
    BY <2>1, <2>2 DEF Shaped
  <2>4. Shaped(Written(s, text))
    BY <2>1, <2>2, <2>3, WrittenShaped DEF Shaped
  <2> QED
    BY <1>2, <2>4 DEF Appended
<1>3. CASE text # <<>> /\ ~Fits(s, text) /\ memory /\ Growable(s)
  BY <1>3, GrownShaped DEF Appended
<1>4. CASE text # <<>> /\ ~Fits(s, text) /\ ~(memory /\ Growable(s))
  BY <1>4, CutShaped DEF Appended
<1> QED
  BY <1>1, <1>2, <1>3, <1>4

(* So does string_clear(), which leaves an empty string. *)
LEMMA ClearedShaped ==
    ASSUME NEW s, Shaped(s), s.capacity # 0 \/ s.home = "none"
    PROVE  Shaped(Cleared(s)) /\ Cleared(s).length = 0
<1>1. /\ MaxLength \in Nat /\ s.capacity \in 0 .. MaxLength + 1
      /\ s.mem \in [Offsets -> Cell] /\ s \in StrType /\ 0 \in Offsets
  BY StrAssumption DEF Shaped, StrType, Offsets, Cell
<1>2. CASE s.home = "none"
  BY <1>1, <1>2 DEF Cleared, Shaped, StrType
<1>3. CASE s.home # "none"
  <2> DEFINE m == Put(s.mem, 0, <<>>)
  <2>1. <<>> \in Seq(Cell) /\ 0 + Len(<<>>) = 0 /\ 0 + Len(<<>>) <= MaxLength
    BY <1>1, EmptySeq
  <2>2. m \in [Offsets -> Cell] /\ m[0] = Nul /\ \A i \in Offsets : i > 0 => m[i] = s.mem[i]
    BY <1>1, <2>1, PutProperties
  <2> HIDE DEF m
  <2>3. Cleared(s) = [s EXCEPT !.length = 0, !.overflow = FALSE, !.mem = m]
    BY <1>3 DEF Cleared, m
  <2>4. [s EXCEPT !.length = 0, !.overflow = FALSE, !.mem = m] \in StrType
    BY <1>1, <2>2 DEF StrType, Cell
  <2>5. s.capacity > 0
    BY <1>1, <1>3
  <2>6. \A i \in Offsets : i >= s.capacity => m[i] = Junk
    BY <1>1, <2>2, <2>5 DEF Shaped, Offsets
  <2> QED
    BY <1>1, <1>3, <2>2, <2>3, <2>4, <2>5, <2>6 DEF Shaped, StrType
<1> QED
  BY <1>2, <1>3

(* So does string_remove_range(). *)
LEMMA RemovedShaped ==
    ASSUME NEW s, Shaped(s), NEW start \in Offsets, NEW len \in Offsets
    PROVE  Shaped(Removed(s, start, len))
<1>1. /\ MaxLength \in Nat /\ s.length \in Nat /\ start \in Nat /\ len \in Nat
      /\ s.length <= MaxLength /\ s.capacity \in 0 .. MaxLength + 1
      /\ s.mem \in [Offsets -> Cell] /\ s \in StrType
  BY StrAssumption DEF Shaped, StrType, Offsets, Cell
<1>2. CASE start >= s.length
  BY <1>2 DEF Removed
<1>3. CASE start < s.length
  <2> DEFINE n == IF len > s.length - start THEN s.length - start ELSE len
             moved == [i \in 1 .. s.length - start - n |-> s.mem[start + n + i - 1]]
             m == Put(s.mem, start, moved)
             k == s.length - n
  <2>1. n \in 0 .. s.length - start
    BY <1>1, <1>3
  <2> HIDE DEF n
  <2>2. s.length - start - n \in Nat /\ k \in Offsets /\ k <= s.length
    BY <1>1, <1>3, <2>1 DEF Offsets
  <2>3. \A i \in 1 .. s.length - start - n : s.mem[start + n + i - 1] \in Cell
    BY <1>1, <1>3, <2>1 DEF Offsets
  <2>4. moved \in Seq(Cell) /\ Len(moved) = s.length - start - n
    BY <2>2, <2>3
  <2> HIDE DEF moved
  <2>5. start + Len(moved) = k /\ start + Len(moved) <= MaxLength
    BY <1>1, <2>1, <2>2, <2>4
  <2>6. m \in [Offsets -> Cell] /\ m[k] = Nul /\ \A i \in Offsets : i > k => m[i] = s.mem[i]
    <3>1. /\ m \in [Offsets -> Cell] /\ m[start + Len(moved)] = Nul
          /\ \A i \in Offsets : i > start + Len(moved) => m[i] = s.mem[i]
      <4>1. /\ Put(s.mem, start, moved) \in [Offsets -> Cell]
            /\ Put(s.mem, start, moved)[start + Len(moved)] = Nul
            /\ \A i \in Offsets : i > start + Len(moved) => Put(s.mem, start, moved)[i] = s.mem[i]
        BY <1>1, <2>4, <2>5, PutProperties
      <4> QED
        BY <4>1
    <3> HIDE DEF m, k
    <3> QED
      BY <2>5, <3>1
  <2>7. Removed(s, start, len) = [s EXCEPT !.mem = m, !.length = k]
    BY <1>1, <1>3 DEF Removed, n, moved, m
  <2> HIDE DEF m, k
  <2>8. s.capacity > 0 /\ s.length < s.capacity
    BY <1>1, <1>3 DEF Shaped
  <2>9. k < s.capacity /\ \A i \in Offsets : i >= s.capacity => m[i] = Junk
    BY <1>1, <2>2, <2>6, <2>8 DEF Shaped, Offsets
  <2>10. [s EXCEPT !.mem = m, !.length = k] \in StrType
    BY <1>1, <2>2, <2>6 DEF StrType, Cell
  <2> QED
    BY <1>1, <2>6, <2>7, <2>8, <2>9, <2>10 DEF Shaped, StrType
<1> QED
  BY <1>1, <1>2, <1>3

(* string_free() leaves a string without memory. *)
LEMMA FreedShaped ==
    ASSUME NEW s, Shaped(s)
    PROVE  Shaped(Freed(s))
<1>1. MaxLength \in Nat /\ 0 \in Offsets /\ s \in StrType
  BY StrAssumption DEF Shaped, Offsets
<1> DEFINE f == Freed(s)
<1>2. /\ f.capacity = 0 /\ f.length = 0 /\ f.mem = Fresh /\ f.resizable = s.resizable
      /\ f.home = IF s.resizable THEN "none" ELSE s.home
  BY <1>1 DEF Freed, StrType
<1>3. 0 \in 0 .. MaxLength + 1 /\ Fresh \in [Offsets -> Chars \cup {Nul, Junk}]
  BY <1>1, FreshProperties DEF Cell
<1>4. f \in StrType
  BY <1>1, <1>3 DEF Freed, StrType
<1>5. ~f.resizable => f.home # "heap"
  BY <1>2 DEF Shaped
<1>6. f.resizable => f.home # "caller"
  BY <1>2
<1>7. \A i \in Offsets : f.mem[i] = Junk
  BY <1>2, FreshProperties
<1> HIDE DEF f
<1>8. Shaped(f)
  BY <1>2, <1>4, <1>5, <1>6, <1>7 DEF Shaped
<1> QED
  BY <1>8 DEF f

-----------------------------------------------------------------------------
(* Every operation leaves the string in shape: its text and null inside    *)
(* its memory, and the flag for free() true exactly of memory of the heap. *)
THEOREM StrSpecShape == StrSpec => []StrShape
<1>1. StrInit => StrShape
  BY NewShaped DEF StrInit, StrShape
<1>2. StrShape /\ [StrNext]_strVars => StrShape'
  <2> SUFFICES ASSUME Shaped(str), [StrNext]_strVars
               PROVE  Shaped(str')
    BY DEF StrShape
  <2>1. Texts \subseteq Seq(Cell)
    BY StrAssumption DEF Cell
  <2>2. ASSUME NEW text \in Texts, NEW memory \in BOOLEAN, StrAppend(text, memory)
        PROVE  Shaped(str')
    BY <2>1, <2>2, AppendedShaped DEF StrAppend
  <2>3. ASSUME NEW text \in Texts, NEW memory \in BOOLEAN, StrSet(text, memory)
        PROVE  Shaped(str')
    <3>1. Shaped(Cleared(str)) /\ Cleared(str).length = 0
      BY <2>3, ClearedShaped DEF StrSet, InUse
    <3>2. text \in Seq(Cell) /\ 0 + Len(text) <= MaxLength
      BY <2>1, <2>3, StrAssumption DEF StrSet
    <3> QED
      BY <2>3, <3>1, <3>2, AppendedShaped DEF StrSet
  <2>4. ASSUME NEW start \in Offsets, NEW len \in Offsets, StrRemove(start, len)
        PROVE  Shaped(str')
    BY <2>4, RemovedShaped DEF StrRemove
  <2>5. CASE StrFree
    BY <2>5, FreedShaped DEF StrFree
  <2>6. CASE UNCHANGED strVars
    BY <2>6 DEF strVars
  <2> QED
    BY <2>2, <2>3, <2>4, <2>5, <2>6 DEF StrNext
<1> QED
  BY <1>1, <1>2, PTL DEF StrSpec

-----------------------------------------------------------------------------
(* A string of the given length and memory has the text of that memory.    *)
LEMMA TextIs ==
    ASSUME NEW s \in StrType, NEW text \in Seq(Cell), s.length = Len(text),
           \A i \in 1 .. Len(text) : s.mem[i - 1] = text[i]
    PROVE  Text(s) = text
<1>1. /\ Text(s) \in Seq(Cell) /\ Len(Text(s)) = Len(text)
      /\ \A i \in 1 .. Len(text) : Text(s)[i] = text[i]
  BY TextCells
<1> HIDE DEF Cell
<1> QED
  BY <1>1, SeqEqual

(* Copying a text into memory puts it there and keeps what is before it.   *)
LEMMA PutCells ==
    ASSUME NEW mem \in [Offsets -> Cell], NEW place \in Nat, NEW text \in Seq(Cell),
           place + Len(text) <= MaxLength
    PROVE  /\ \A i \in 0 .. place - 1 : Put(mem, place, text)[i] = mem[i]
           /\ \A i \in 1 .. Len(text) : Put(mem, place, text)[place + i - 1] = text[i]
<1>1. MaxLength \in Nat /\ Len(text) \in Nat
  BY StrAssumption
<1>2. ASSUME NEW i \in 0 .. place - 1
      PROVE  Put(mem, place, text)[i] = mem[i]
  BY <1>1 DEF Put, Offsets
<1>3. ASSUME NEW i \in 1 .. Len(text)
      PROVE  Put(mem, place, text)[place + i - 1] = text[i]
  <2>1. place + i - 1 \in Offsets /\ place + i - 1 >= place /\ place + i - 1 < place + Len(text)
    BY <1>1 DEF Offsets
  <2>2. (place + i - 1) - place + 1 = i
    OBVIOUS
  <2> QED
    BY <2>1, <2>2 DEF Put
<1> QED
  BY <1>2, <1>3

(* Writing behind the text of a string appends to it.                      *)
LEMMA WrittenText ==
    ASSUME NEW s \in StrType, NEW text \in Seq(Cell), s.length + Len(text) <= MaxLength
    PROVE  /\ Text(Written(s, text)) = Text(s) \o text
           /\ Written(s, text).overflow = s.overflow
           /\ Growable(Written(s, text)) = Growable(s)
<1>1. MaxLength \in Nat /\ s.length \in Nat /\ Len(text) \in Nat /\ s.mem \in [Offsets -> Cell]
  BY StrAssumption DEF StrType, Offsets, Cell
<1> DEFINE m == Put(s.mem, s.length, text)
           n == s.length + Len(text)
           w == Written(s, text)
           both == Text(s) \o text
<1>2. /\ m \in [Offsets -> Cell]
      /\ \A i \in 0 .. s.length - 1 : m[i] = s.mem[i]
      /\ \A i \in 1 .. Len(text) : m[s.length + i - 1] = text[i]
  BY <1>1, PutProperties, PutCells
<1>3. n \in Offsets
  BY <1>1 DEF Offsets
<1>4. w = [s EXCEPT !.mem = m, !.length = n]
  BY DEF Written
<1> HIDE DEF m, w
<1>5. /\ w \in StrType /\ w.length = n /\ w.mem = m /\ w.overflow = s.overflow
      /\ w.resizable = s.resizable /\ w.autogrow = s.autogrow
  BY <1>2, <1>3, <1>4 DEF StrType, Cell
<1>6. /\ Text(s) \in Seq(Cell) /\ Len(Text(s)) = s.length
      /\ \A i \in 1 .. s.length : Text(s)[i] = s.mem[i - 1]
  BY TextCells
<1>7. /\ both \in Seq(Cell) /\ Len(both) = n
      /\ \A i \in 1 .. n : both[i] = IF i <= s.length THEN Text(s)[i] ELSE text[i - s.length]
  <2> DEFINE t == Text(s)
  <2>1. t \in Seq(Cell) /\ Len(t) = s.length
    BY <1>6
  <2> HIDE DEF t, Cell
  <2>2. /\ t \o text \in Seq(Cell) /\ Len(t \o text) = Len(t) + Len(text)
        /\ \A i \in 1 .. Len(t) + Len(text) :
              (t \o text)[i] = IF i <= Len(t) THEN t[i] ELSE text[i - Len(t)]
    BY <2>1, ConcatProperties
  <2> QED
    BY <2>1, <2>2 DEF t
<1> HIDE DEF both
<1>8. ASSUME NEW i \in 1 .. n
      PROVE  m[i - 1] = both[i]
  <2>1. CASE i <= s.length
    BY <1>1, <1>2, <1>6, <1>7, <2>1
  <2>2. CASE i > s.length
    <3>1. i - s.length \in 1 .. Len(text) /\ s.length + (i - s.length) - 1 = i - 1
      BY <1>1, <2>2
    <3>2. m[i - 1] = text[i - s.length]
      BY <1>2, <3>1
    <3> QED
      BY <1>1, <1>7, <2>2, <3>2
  <2> QED
    BY <1>1, <2>1, <2>2
<1>9. Text(w) = both
  BY <1>5, <1>7, <1>8, TextIs
<1> QED
  BY <1>5, <1>9 DEF Growable, w, both

(* Growing a string keeps its text.                                        *)
LEMMA ResizedText ==
    ASSUME NEW s, Shaped(s), Growable(s), NEW sz \in 1 .. MaxLength + 1, s.length < sz
    PROVE  /\ Resized(s, sz) \in StrType /\ Resized(s, sz).length = s.length
           /\ Text(Resized(s, sz)) = Text(s)
           /\ Resized(s, sz).overflow = s.overflow /\ Growable(Resized(s, sz))
<1>1. /\ MaxLength \in Nat /\ s.length \in Nat /\ s.length <= MaxLength
      /\ s.mem \in [Offsets -> Cell] /\ s \in StrType
  BY StrAssumption DEF Shaped, StrType, Offsets, Cell
<1> DEFINE r == Resized(s, sz)
<1>2. CASE s.resizable
  <2>1. r = [s EXCEPT !.home = "heap", !.capacity = sz]
    BY <1>2 DEF Resized
  <2> HIDE DEF r
  <2>2. /\ r \in StrType /\ r.length = s.length /\ r.mem = s.mem /\ r.overflow = s.overflow
        /\ r.resizable = s.resizable
    <3>1. sz \in 0 .. MaxLength + 1
      BY <1>1
    <3>2. r \in StrType
      BY <1>1, <2>1, <3>1 DEF StrType
    <3>3. r.length = s.length /\ r.mem = s.mem /\ r.overflow = s.overflow
      BY <1>1, <2>1 DEF StrType
    <3>4. r.resizable = s.resizable
      BY <1>1, <2>1 DEF StrType
    <3> QED
      BY <3>2, <3>3, <3>4
  <2>3. Text(r) = Text(s)
    BY <2>2 DEF Text
  <2> QED
    BY <1>2, <2>2, <2>3 DEF r, Growable
<1>3. CASE ~s.resizable
  <2> DEFINE t == IF s.home = "none" THEN <<>> ELSE Text(s)
             m == Put(Fresh, 0, t)
  <2>1. t \in Seq(Cell) /\ Len(t) = s.length /\ t = Text(s)
    <3>1. CASE s.home = "none"
      <4>1. s.length = 0
        BY <3>1 DEF Shaped
      <4>2. <<>> \in Seq(Cell) /\ Len(<<>>) = 0 /\ \A i \in 1 .. 0 : s.mem[i - 1] = <<>>[i]
        BY EmptySeq
      <4>3. Text(s) = <<>>
        BY <1>1, <4>1, <4>2, TextIs
      <4> QED
        BY <3>1, <4>1, <4>2, <4>3
    <3>2. CASE s.home # "none"
      BY <1>1, <3>2, TextCells
    <3> QED
      BY <3>1, <3>2
  <2>2. 0 + Len(t) <= MaxLength /\ 0 \in Nat
    BY <1>1, <2>1
  <2>3. r = [s EXCEPT !.home = "heap", !.capacity = sz, !.resizable = TRUE, !.mem = m]
    BY <1>3 DEF Resized
  <2> HIDE DEF t
  <2>4. m \in [Offsets -> Cell] /\ \A i \in 1 .. Len(t) : m[0 + i - 1] = t[i]
    <3>1. Fresh \in [Offsets -> Cell]
      BY FreshProperties
    <3> HIDE DEF Fresh
    <3> QED
      BY <2>1, <2>2, <3>1, PutProperties, PutCells
  <2> HIDE DEF m, r
  <2>5. /\ r \in StrType /\ r.length = s.length /\ r.mem = m /\ r.overflow = s.overflow
        /\ r.resizable = TRUE
    <3>1. sz \in 0 .. MaxLength + 1
      BY <1>1
    <3>2. r \in StrType
      BY <1>1, <2>3, <2>4, <3>1 DEF StrType, Cell
    <3>3. r.length = s.length /\ r.mem = m /\ r.overflow = s.overflow
      BY <1>1, <2>3 DEF StrType
    <3>4. r.resizable = TRUE
      BY <1>1, <2>3 DEF StrType
    <3> QED
      BY <3>2, <3>3, <3>4
  <2>6. Text(r) = t
    BY <2>1, <2>4, <2>5, TextIs
  <2> QED
    BY <2>1, <2>5, <2>6 DEF r, Growable
<1> QED
  BY <1>2, <1>3

(* An append makes the text longer by what was asked for or says that it   *)
(* could not, which it only does when it may not grow or has no memory.    *)
LEMMA AppendedText ==
    ASSUME NEW s, Shaped(s), NEW text \in Seq(Cell), NEW memory \in BOOLEAN,
           s.length + Len(text) <= MaxLength
    PROVE  LET a == Appended(s, text, memory)
           IN  /\ ~a.overflow => ~s.overflow /\ Text(a) = Text(s) \o text
               /\ a.overflow /\ Growable(a) => (s.overflow /\ Growable(s)) \/ ~memory
<1> DEFINE a == Appended(s, text, memory)
<1>1. /\ s \in StrType /\ MaxLength \in Nat /\ s.length \in Nat /\ Len(text) \in Nat
      /\ s.capacity \in 0 .. MaxLength + 1
  BY StrAssumption DEF Shaped, StrType, Offsets
<1>2. CASE text = <<>>
  <2>1. a = s
    BY <1>2 DEF Appended
  <2>2. Text(s) \o <<>> = Text(s)
    BY <1>1, TextCells, ConcatEmptySeq
  <2> QED
    BY <1>2, <2>1, <2>2
<1>3. CASE text # <<>> /\ Fits(s, text)
  <2>1. a = Written(s, text)
    BY <1>3 DEF Appended
  <2> QED
    BY <1>1, <2>1, WrittenText
<1>4. CASE text # <<>> /\ ~Fits(s, text) /\ memory /\ Growable(s)
  <2> DEFINE sz == s.length + Len(text) + 1
             r == Resized(s, sz)
  <2>1. sz \in 1 .. MaxLength + 1 /\ s.length < sz
    BY <1>1
  <2>2. a = Written(r, text)
    BY <1>4 DEF Appended
  <2> HIDE DEF sz
  <2>3. /\ r \in StrType /\ r.length = s.length /\ Text(r) = Text(s)
        /\ r.overflow = s.overflow /\ Growable(r)
    BY <1>4, <2>1, ResizedText
  <2> HIDE DEF r, a
  <2>4. /\ Text(Written(r, text)) = Text(r) \o text
        /\ Written(r, text).overflow = r.overflow
    BY <1>1, <2>3, WrittenText
  <2>5. (~a.overflow => ~s.overflow /\ Text(a) = Text(s) \o text) /\ a.overflow = s.overflow
    BY <2>2, <2>3, <2>4
  <2> QED
    BY <1>4, <2>5 DEF a
<1>5. CASE text # <<>> /\ ~Fits(s, text) /\ ~(memory /\ Growable(s))
  <2> DEFINE o == [s EXCEPT !.overflow = TRUE]
             c == SubSeq(text, 1, Room(s) - 1)
  <2>1. a = IF Room(s) = 0 THEN o ELSE Written(o, c)
    BY <1>5 DEF Appended, Cut
  <2>2. /\ o \in StrType /\ o.overflow = TRUE /\ Growable(o) = Growable(s)
        /\ o.length = s.length
    BY <1>1 DEF StrType, Growable
  <2>3. a.overflow = TRUE /\ Growable(a) = Growable(s)
    <3>1. CASE Room(s) = 0
      BY <2>1, <2>2, <3>1
    <3>2. CASE Room(s) # 0
      <4>1. Room(s) - 1 \in 0 .. Len(text)
        BY <1>1, <1>5, <3>2 DEF Fits, Room, Shaped
      <4>2. c \in Seq(Cell) /\ Len(c) = Room(s) - 1
        BY <4>1, SubSeqProperties
      <4>3. o.length + Len(c) <= MaxLength
        BY <1>1, <2>2, <4>1, <4>2
      <4> HIDE DEF c, o
      <4>4. /\ Written(o, c).overflow = o.overflow
            /\ Growable(Written(o, c)) = Growable(o)
        BY <2>2, <4>2, <4>3, WrittenText
      <4> QED
        BY <2>1, <2>2, <3>2, <4>4
    <3> QED
      BY <3>1, <3>2
  <2> HIDE DEF a
  <2>4. ~(a.overflow /\ Growable(a)) \/ ~memory
    BY <1>5, <2>3
  <2> QED
    BY <2>3, <2>4 DEF a
<1> QED
  BY <1>2, <1>3, <1>4, <1>5

(* A string that is cleared has the empty text and room for errors again.  *)
LEMMA ClearedText ==
    ASSUME NEW s, Shaped(s), s.capacity # 0 \/ s.home = "none"
    PROVE  Text(Cleared(s)) = <<>> /\ Cleared(s).overflow = FALSE
<1>1. Shaped(Cleared(s)) /\ Cleared(s).length = 0
  BY ClearedShaped
<1>2. Text(Cleared(s)) = <<>>
  <2> DEFINE c == Cleared(s)
  <2>1. c \in StrType /\ c.length = 0
    BY <1>1 DEF Shaped
  <2>2. <<>> \in Seq(Cell) /\ Len(<<>>) = 0 /\ \A i \in 1 .. Len(<<>>) : c.mem[i - 1] = <<>>[i]
    BY EmptySeq
  <2> HIDE DEF c
  <2>3. Text(c) = <<>>
    BY <2>1, <2>2, TextIs
  <2> QED
    BY <2>3 DEF c
<1>3. Cleared(s).overflow = FALSE
  BY DEF Cleared, Shaped, StrType
<1> QED
  BY <1>2, <1>3

(* Removing a range of a string removes it from its text.                  *)
LEMMA RemovedText ==
    ASSUME NEW s, Shaped(s), NEW start \in Offsets, NEW len \in Offsets
    PROVE  LET d == Removed(s, start, len)
           IN  /\ Text(d) = IF start >= s.length THEN Text(s) ELSE Without(Text(s), start, len)
               /\ d.overflow = s.overflow /\ Growable(d) = Growable(s)
<1> DEFINE d == Removed(s, start, len)
<1>1. /\ MaxLength \in Nat /\ s.length \in Nat /\ start \in Nat /\ len \in Nat
      /\ s.length <= MaxLength /\ s.mem \in [Offsets -> Cell] /\ s \in StrType
  BY StrAssumption DEF Shaped, StrType, Offsets, Cell
<1>2. CASE start >= s.length
  BY <1>2 DEF Removed
<1>3. CASE start < s.length
  <2> DEFINE n == IF len > s.length - start THEN s.length - start ELSE len
             moved == [i \in 1 .. s.length - start - n |-> s.mem[start + n + i - 1]]
             m == Put(s.mem, start, moved)
             k == s.length - n
             t == Text(s)
             before == SubSeq(t, 1, start)
             after == SubSeq(t, start + len + 1, Len(t))
  <2>1. n \in 0 .. s.length - start
    BY <1>1, <1>3
  <2>2. t \in Seq(Cell) /\ Len(t) = s.length /\ \A i \in 1 .. s.length : t[i] = s.mem[i - 1]
    BY <1>1, TextCells
  <2>3. \A i \in 1 .. s.length : t[i] \in Cell
    BY <2>2
  <2> HIDE DEF t
  <2>4. /\ before \in Seq(Cell) /\ Len(before) = start
        /\ \A i \in 1 .. start : before[i] = t[i]
    BY <1>1, <1>3, <2>3, SubSeqProperties
  <2>5. /\ after \in Seq(Cell) /\ Len(after) = s.length - start - n
        /\ \A i \in 1 .. s.length - start - n : after[i] = t[start + n + i]
    <3>1. CASE len > s.length - start
      <4>1. start + len + 1 > Len(t) /\ n = s.length - start
        BY <1>1, <2>2, <3>1
      <4>2. after = <<>>
        BY <1>1, <2>2, <4>1, SubSeqEmpty
      <4> QED
        BY <1>1, <4>1, <4>2, EmptySeq, SMTT(30)
    <3>2. CASE len <= s.length - start
      <4>1. \A i \in start + len + 1 .. s.length : t[i] \in Cell
        BY <1>1, <2>3
      <4>2. /\ after \in Seq(Cell)
            /\ Len(after) = IF start + len + 1 <= s.length
                            THEN s.length - (start + len + 1) + 1 ELSE 0
            /\ \A i \in 1 .. s.length - (start + len + 1) + 1 :
                  after[i] = t[(start + len + 1) + i - 1]
        <5>1. start + len + 1 \in Int /\ s.length \in Int
          BY <1>1
        <5> QED
          BY <2>2, <4>1, <5>1, SubSeqProperties
      <4>3. n = len
        BY <1>1, <3>2
      <4> HIDE DEF n, after
      <4>4. Len(after) = s.length - start - n
        BY <1>1, <3>2, <4>2, <4>3
      <4>5. ASSUME NEW i \in 1 .. s.length - start - n
            PROVE  after[i] = t[start + n + i]
        <5>1. /\ (start + len + 1) + i - 1 = start + n + i
              /\ i \in 1 .. s.length - (start + len + 1) + 1
          BY <1>1, <4>3
        <5> QED
          BY <4>2, <5>1
      <4> QED
        BY <4>2, <4>4, <4>5
    <3> QED
      BY <1>1, <3>1, <3>2, SMTT(30)
  <2> HIDE DEF n, before, after
  <2>6. s.length - start - n \in Nat /\ k \in Offsets
    BY <1>1, <1>3, <2>1 DEF Offsets
  <2>7. \A i \in 1 .. s.length - start - n : s.mem[start + n + i - 1] = t[start + n + i]
    <3>1. ASSUME NEW i \in 1 .. s.length - start - n
          PROVE  s.mem[start + n + i - 1] = t[start + n + i]
      <4>1. PICK x \in 1 .. s.length : x = start + n + i /\ x - 1 = start + n + i - 1
        BY <1>1, <2>1
      <4>2. t[x] = s.mem[x - 1]
        BY <2>2
      <4> QED
        BY <4>1, <4>2
    <3> QED
      BY <3>1
  <2>8. moved \in Seq(Cell) /\ Len(moved) = s.length - start - n /\ moved = after
    <3>1. ASSUME NEW i \in 1 .. s.length - start - n
          PROVE  s.mem[start + n + i - 1] \in Cell
      <4>1. PICK x \in 1 .. s.length : x = start + n + i
        BY <1>1, <2>1
      <4>2. t[x] \in Cell
        BY <2>3, ElementOfSeq
      <4> QED
        BY <2>7, <4>1, <4>2
    <3>2. moved \in Seq(Cell) /\ Len(moved) = s.length - start - n
      BY <2>6, <3>1
    <3>3. \A i \in 1 .. Len(moved) : moved[i] = after[i]
      BY <2>5, <2>7, <3>2
    <3> HIDE DEF moved, Cell
    <3>4. moved = after
      BY <2>5, <3>2, <3>3, SeqEqual
    <3> QED
      BY <3>2, <3>4
  <2>9. d = [s EXCEPT !.mem = m, !.length = k]
    BY <1>1, <1>3 DEF Removed, n
  <2> HIDE DEF moved
  <2>10. /\ m \in [Offsets -> Cell] /\ \A i \in 0 .. start - 1 : m[i] = s.mem[i]
         /\ \A i \in 1 .. Len(moved) : m[start + i - 1] = moved[i]
    <3>1. start + Len(moved) <= MaxLength
      BY <1>1, <2>1, <2>8
    <3> QED
      BY <1>1, <2>8, <3>1, PutProperties, PutCells
  <2> HIDE DEF m, d
  <2>11. d \in StrType /\ d.length = k /\ d.mem = m /\ d.overflow = s.overflow
    BY <1>1, <2>6, <2>9, <2>10 DEF StrType, Cell
  <2>12. d.resizable = s.resizable /\ d.autogrow = s.autogrow
    BY <1>1, <2>9 DEF StrType
  <2> DEFINE both == before \o moved
  <2>13. /\ both \in Seq(Cell) /\ Len(both) = k
         /\ \A i \in 1 .. k : both[i] = IF i <= start THEN before[i] ELSE moved[i - start]
    <3> HIDE DEF Cell
    <3>1. /\ before \o moved \in Seq(Cell) /\ Len(before \o moved) = Len(before) + Len(moved)
          /\ \A i \in 1 .. Len(before) + Len(moved) :
                (before \o moved)[i] =
                    IF i <= Len(before) THEN before[i] ELSE moved[i - Len(before)]
      BY <2>4, <2>8, ConcatProperties
    <3>2. Len(before) + Len(moved) = k
      BY <1>1, <2>1, <2>4, <2>8
    <3> QED
      BY <2>4, <3>1, <3>2
  <2> HIDE DEF both
  <2>14. ASSUME NEW i \in 1 .. k
         PROVE  m[i - 1] = both[i]
    <3>1. CASE i <= start
      <4>1. i - 1 \in 0 .. start - 1 /\ i \in 1 .. s.length /\ i \in 1 .. start
        BY <1>1, <1>3, <3>1
      <4> QED
        BY <2>2, <2>4, <2>10, <2>13, <3>1, <4>1
    <3>2. CASE i > start
      <4>1. i - start \in 1 .. Len(moved) /\ start + (i - start) - 1 = i - 1
        BY <1>1, <2>1, <2>8, <3>2
      <4>2. m[i - 1] = moved[i - start]
        BY <2>10, <4>1
      <4> QED
        BY <1>1, <2>13, <3>2, <4>2
    <3> QED
      BY <1>1, <3>1, <3>2
  <2>15. Text(d) = both
    <3> HIDE DEF Cell, k
    <3> QED
      BY <2>11, <2>13, <2>14, TextIs
  <2>16. Without(t, start, len) = both
    BY <2>8 DEF both, before, after, Without
  <2>17. Growable(d) = Growable(s)
    BY <2>12 DEF Growable
  <2> QED
    BY <1>1, <1>3, <2>11, <2>15, <2>16, <2>17 DEF d, t
<1> QED
  BY <1>1, <1>2, <1>3

-----------------------------------------------------------------------------
(* A string that did not say it overflowed has the text of its operations, *)
(* and one that may grow overflows only for want of memory                 *)
(* (string_append_from_buf(), string_remove_range()).                      *)
THEOREM StrFaithfulTheorem == StrSpec => []StrFaithful
<1>1. StrInit => StrFaithful
  <2> SUFFICES ASSUME StrInit PROVE StrFaithful
    OBVIOUS
  <2>1. Shaped(str) /\ str.length = 0 /\ str.overflow = FALSE /\ wanted = <<>>
    BY NewShaped DEF StrInit, New, FromStkBuf, Zeroed
  <2>2. <<>> \in Seq(Cell) /\ Len(<<>>) = 0 /\ \A i \in 1 .. Len(<<>>) : str.mem[i - 1] = <<>>[i]
    BY EmptySeq
  <2>3. Text(str) = <<>>
    BY <2>1, <2>2, TextIs DEF Shaped
  <2> QED
    BY <2>1, <2>3 DEF StrFaithful
<1>2. StrShape /\ StrFaithful /\ [StrNext]_strVars => StrFaithful'
  <2> SUFFICES ASSUME Shaped(str), StrFaithful, [StrNext]_strVars
               PROVE  StrFaithful'
    BY DEF StrShape
  <2>1. Texts \subseteq Seq(Cell)
    BY StrAssumption DEF Cell
  <2>2. ASSUME NEW text \in Texts, NEW memory \in BOOLEAN, StrAppend(text, memory)
        PROVE  StrFaithful'
    <3>1. /\ ~str'.overflow => ~str.overflow /\ Text(str') = Text(str) \o text
          /\ str'.overflow /\ Growable(str') => (str.overflow /\ Growable(str)) \/ ~memory
      BY <2>1, <2>2, AppendedText DEF StrAppend
    <3> QED
      BY <2>2, <3>1 DEF StrFaithful, StrAppend, Text, Growable
  <2>3. ASSUME NEW text \in Texts, NEW memory \in BOOLEAN, StrSet(text, memory)
        PROVE  StrFaithful'
    <3> DEFINE c == Cleared(str)
    <3>1. /\ Shaped(c) /\ c.length = 0 /\ Text(c) = <<>> /\ c.overflow = FALSE
      BY <2>3, ClearedShaped, ClearedText DEF StrSet, InUse
    <3>2. text \in Seq(Cell) /\ 0 + Len(text) <= MaxLength /\ <<>> \o text = text
      BY <2>1, <2>3, StrAssumption, ConcatEmptySeq DEF StrSet
    <3>3. str' = Appended(c, text, memory) /\ wanted' = text /\ starved' = ~memory
      BY <2>3 DEF StrSet
    <3> HIDE DEF c
    <3>4. /\ ~str'.overflow => Text(str') = Text(c) \o text
          /\ str'.overflow /\ Growable(str') => (c.overflow /\ Growable(c)) \/ ~memory
      BY <3>1, <3>2, <3>3, AppendedText
    <3> QED
      BY <3>1, <3>2, <3>3, <3>4 DEF StrFaithful, Text, Growable
  <2>4. ASSUME NEW start \in Offsets, NEW len \in Offsets, StrRemove(start, len)
        PROVE  StrFaithful'
    <3>1. /\ Text(str') = IF start >= str.length THEN Text(str) ELSE Without(Text(str), start, len)
          /\ str'.overflow = str.overflow /\ Growable(str') = Growable(str)
      BY <2>4, RemovedText DEF StrRemove
    <3>2. Len(Text(str)) = str.length
      BY TextCells DEF Shaped
    <3> QED
      BY <2>4, <3>1, <3>2 DEF StrFaithful, StrRemove, Text, Growable
  <2>5. CASE StrFree
    <3>1. Shaped(str') /\ str'.length = 0 /\ wanted' = <<>> /\ starved' = starved
      <4>1. str' = Freed(str) /\ wanted' = <<>> /\ starved' = starved
        BY <2>5 DEF StrFree
      <4>2. Freed(str).length = 0
        BY DEF Freed, Shaped, StrType
      <4> QED
        BY <4>1, <4>2, FreedShaped
    <3>2. str'.overflow = str.overflow /\ str'.resizable = str.resizable
          /\ str'.autogrow = str.autogrow
      BY <2>5 DEF StrFree, Freed, Shaped, StrType
    <3>3. <<>> \in Seq(Cell) /\ Len(<<>>) = 0 /\ \A i \in 1 .. Len(<<>>) : str'.mem[i - 1] = <<>>[i]
      BY EmptySeq
    <3>4. Text(str') = <<>>
      BY <3>1, <3>3, TextIs DEF Shaped
    <3> QED
      BY <3>1, <3>2, <3>4 DEF StrFaithful, Text, Growable
  <2>6. CASE UNCHANGED strVars
    BY <2>6 DEF strVars, StrFaithful, Text, Growable
  <2> QED
    BY <2>2, <2>3, <2>4, <2>5, <2>6 DEF StrNext
<1> QED
  BY <1>1, <1>2, StrSpecShape, PTL DEF StrSpec

-----------------------------------------------------------------------------
(* The scrollback *)

Lines == Seq(Nat \ {NoLine})

(* What a ring that has taken some lines holds in its places, oldest first *)
Slot(lines, i) ==
    IF Len(lines) + i > LinesMax THEN lines[Len(lines) + i - LinesMax] ELSE NoLine

Ring == [ring : [0 .. LinesMax - 1 -> Nat], idx : 0 .. LinesMax - 1]

HoldsLines(r, lines) ==
    /\ r \in Ring /\ lines \in Lines
    /\ \A i \in 1 .. LinesMax : r.ring[(r.idx + i - 1) % LinesMax] = Slot(lines, i)

Current == [ring |-> ring, idx |-> lines_idx]

ScrollInv ==
    /\ file \in Lines /\ tmp \in Lines /\ output \in Nat /\ kept \in Lines
    /\ run \in {"no", "yes", "off", "writing", "cut"}
    /\ run # "no" => HoldsLines(Current, kept)
    /\ run = "writing" => tmp = Newest(kept)
    /\ run = "cut" => IsPrefix(tmp, Newest(kept))

(* The places of a ring, counted from the next one, ...                    *)
LEMMA Places ==
    ASSUME NEW d \in 0 .. LinesMax - 1, NEW i \in 1 .. LinesMax
    PROVE  (d + i - 1) % LinesMax = IF d + i - 1 < LinesMax THEN d + i - 1
                                    ELSE d + i - 1 - LinesMax
<1>1. LinesMax \in Nat \ {0}
  BY ScrollAssumption
<1>2. CASE d + i - 1 < LinesMax
  BY <1>1, <1>2
<1>3. CASE ~(d + i - 1 < LinesMax)
  BY <1>1, <1>3
<1> QED
  BY <1>2, <1>3

(* ... and the one after that *)
LEMMA NextPlace ==
    ASSUME NEW d \in 0 .. LinesMax - 1
    PROVE  (d + 1) % LinesMax = IF d + 1 < LinesMax THEN d + 1 ELSE 0
<1>1. LinesMax \in Nat \ {0}
  BY ScrollAssumption
<1>2. CASE d + 1 < LinesMax
  BY <1>1, <1>2
<1>3. CASE ~(d + 1 < LinesMax)
  <2>1. d + 1 = LinesMax /\ LinesMax % LinesMax = 0
    BY <1>1, <1>3
  <2> QED
    BY <1>3, <2>1
<1> QED
  BY <1>2, <1>3

(* A line takes the place of the oldest.                                   *)
LEMMA LineAdded ==
    ASSUME NEW r, NEW lines, HoldsLines(r, lines), NEW line \in Nat \ {NoLine}
    PROVE  HoldsLines(AddOutput(r, line), Append(lines, line))
<1> DEFINE a == AddOutput(r, line)
           n == Len(lines)
           more == Append(lines, line)
<1>1. /\ LinesMax \in Nat \ {0} /\ r.idx \in 0 .. LinesMax - 1
      /\ r.ring \in [0 .. LinesMax - 1 -> Nat] /\ n \in Nat /\ lines \in Lines
  BY ScrollAssumption DEF HoldsLines, Ring, Lines
<1>2. /\ a.ring = [r.ring EXCEPT ![r.idx] = line]
      /\ a.idx = IF r.idx + 1 < LinesMax THEN r.idx + 1 ELSE 0
  BY <1>1, NextPlace DEF AddOutput
<1>3. a \in Ring
  BY <1>1, <1>2, SMTT(30) DEF AddOutput, Ring
<1>4. /\ more \in Lines /\ Len(more) = n + 1 /\ more[n + 1] = line
      /\ \A j \in 1 .. n : more[j] = lines[j]
  BY <1>1 DEF Lines
<1> HIDE DEF a, more, n
<1>5. ASSUME NEW i \in 1 .. LinesMax
      PROVE  a.ring[(a.idx + i - 1) % LinesMax] = Slot(more, i)
  <2> DEFINE p == (a.idx + i - 1) % LinesMax
  <2>1. p = IF a.idx + i - 1 < LinesMax THEN a.idx + i - 1 ELSE a.idx + i - 1 - LinesMax
    BY <1>3, Places DEF Ring
  <2> SUFFICES a.ring[p] = Slot(more, i)
    OBVIOUS
  <2> HIDE DEF p
  <2>2. CASE i = LinesMax
    <3>1. p = r.idx
      <4>1. CASE r.idx + 1 < LinesMax
        BY <1>1, <1>2, <2>1, <2>2, <4>1
      <4>2. CASE ~(r.idx + 1 < LinesMax)
        BY <1>1, <1>2, <2>1, <2>2, <4>2
      <4> QED
        BY <4>1, <4>2
    <3>2. Slot(more, i) = line
      BY <1>1, <1>4, <2>2 DEF Slot
    <3> QED
      BY <1>1, <1>2, <3>1, <3>2
  <2>3. CASE i < LinesMax
    <3> DEFINE k == i + 1
               q == (r.idx + k - 1) % LinesMax
    <3>1. k \in 1 .. LinesMax
      BY <1>1, <2>3
    <3>2. q = IF r.idx + k - 1 < LinesMax THEN r.idx + k - 1 ELSE r.idx + k - 1 - LinesMax
      BY <1>1, <3>1, Places
    <3> HIDE DEF q
    <3>3. p = q /\ p \in 0 .. LinesMax - 1 /\ p # r.idx
      <4>1. CASE r.idx + 1 < LinesMax
        <5>1. p = IF r.idx + i < LinesMax THEN r.idx + i ELSE r.idx + i - LinesMax
          <6>1. a.idx = r.idx + 1
            BY <1>2, <4>1
          <6>2. CASE r.idx + i < LinesMax
            BY <1>1, <2>1, <6>1, <6>2
          <6>3. CASE ~(r.idx + i < LinesMax)
            BY <1>1, <2>1, <6>1, <6>3
          <6> QED
            BY <6>2, <6>3
        <5>2. q = IF r.idx + i < LinesMax THEN r.idx + i ELSE r.idx + i - LinesMax
          BY <1>1, <3>2
        <5>3. p \in 0 .. LinesMax - 1 /\ p # r.idx
          BY <1>1, <2>3, <5>1, SMTT(30)
        <5> QED
          BY <5>1, <5>2, <5>3
      <4>2. CASE ~(r.idx + 1 < LinesMax)
        <5>1. a.idx = 0 /\ r.idx = LinesMax - 1
          BY <1>1, <1>2, <4>2
        <5>2. p = i - 1 /\ q = i - 1
          BY <1>1, <2>1, <2>3, <3>2, <5>1
        <5> QED
          BY <1>1, <2>3, <5>1, <5>2
      <4> QED
        BY <4>1, <4>2
    <3>4. r.ring[p] = Slot(lines, k)
      BY <3>1, <3>3 DEF HoldsLines, q
    <3>5. Slot(lines, k) = Slot(more, i)
      <4>1. CASE n + k > LinesMax
        <5>1. n + k - LinesMax \in 1 .. n /\ n + k - LinesMax = (n + 1) + i - LinesMax
          BY <1>1, <2>3, <4>1
        <5> QED
          BY <1>1, <1>4, <4>1, <5>1, SMTT(30) DEF Slot, n
      <4>2. CASE ~(n + k > LinesMax)
        BY <1>1, <1>4, <4>2 DEF Slot, n
      <4> QED
        BY <4>1, <4>2
    <3>6. a.ring[p] = r.ring[p]
      BY <1>1, <1>2, <3>3
    <3> QED
      BY <3>4, <3>5, <3>6
  <2> QED
    BY <1>1, <2>2, <2>3
<1>6. HoldsLines(a, more)
  BY <1>3, <1>4, <1>5 DEF HoldsLines
<1> QED
  BY <1>6 DEF a, more

(* An empty ring                                                           *)
LEMMA NoLinesHeld ==
    HoldsLines([ring |-> EmptyRing, idx |-> 0], <<>>)
<1> DEFINE r == [ring |-> EmptyRing, idx |-> 0]
<1>1. LinesMax \in Nat \ {0}
  BY ScrollAssumption
<1>2. r \in Ring /\ r.ring = EmptyRing /\ r.idx = 0
  BY <1>1 DEF Ring, EmptyRing, NoLine
<1>3. <<>> \in Lines /\ Len(<<>>) = 0
  BY EmptySeq DEF Lines
<1> HIDE DEF r
<1>4. ASSUME NEW i \in 1 .. LinesMax
      PROVE  r.ring[(r.idx + i - 1) % LinesMax] = Slot(<<>>, i)
  <2>1. 0 \in 0 .. LinesMax - 1
    BY <1>1
  <2>2. (0 + i - 1) % LinesMax = i - 1
    BY <1>1, <2>1, Places
  <2>3. EmptyRing[i - 1] = NoLine
    BY <1>1 DEF EmptyRing
  <2>4. Slot(<<>>, i) = NoLine
    BY <1>1, <1>3 DEF Slot
  <2> QED
    BY <1>2, <2>2, <2>3, <2>4
<1>5. HoldsLines(r, <<>>)
  BY <1>2, <1>3, <1>4 DEF HoldsLines
<1> QED
  BY <1>5 DEF r

(* A ring that has read a file                                             *)
LEMMA FileRead ==
    ASSUME NEW lines \in Lines
    PROVE  HoldsLines(Fold(AddLine, [ring |-> EmptyRing, idx |-> 0], lines), lines)
<1> DEFINE base == [ring |-> EmptyRing, idx |-> 0]
           R(k) == Fold(AddLine, base, SubSeq(lines, 1, k))
           T == {k \in Nat : k <= Len(lines) => HoldsLines(R(k), SubSeq(lines, 1, k))}
<1>1. /\ Len(lines) \in Nat /\ SubSeq(lines, 1, 0) = <<>>
      /\ SubSeq(lines, 1, Len(lines)) = lines
  BY SubSeqEmpty, SubSeqFull DEF Lines
<1>2. 0 \in T
  <2>1. R(0) = base
    BY <1>1, FoldEmpty
  <2> QED
    BY <1>1, <2>1, NoLinesHeld
<1>3. ASSUME NEW k \in Nat, k \in T
      PROVE  k + 1 \in T
  <2> SUFFICES ASSUME k + 1 <= Len(lines)
               PROVE  HoldsLines(R(k + 1), SubSeq(lines, 1, k + 1))
    OBVIOUS
  <2> DEFINE some == SubSeq(lines, 1, k)
             line == lines[k + 1]
             r == R(k)
  <2>1. k + 1 \in 1 .. Len(lines) /\ line \in Nat \ {NoLine}
    BY <1>1, ElementOfSeq DEF Lines
  <2>2. SubSeq(lines, 1, k + 1) = Append(some, line)
    BY <1>1, SubSeqNext DEF Lines
  <2>3. HoldsLines(r, some)
    BY <1>3
  <2>4. R(k + 1) = AddLine[r][line]
    <3>1. some \in Seq(Nat) /\ line \in Nat
      BY <2>1, <2>3 DEF HoldsLines, Lines
    <3> HIDE DEF some, line, base
    <3>2. Fold(AddLine, base, Append(some, line)) = AddLine[Fold(AddLine, base, some)][line]
      BY <3>1, FoldAppend
    <3> QED
      BY <2>2, <3>2 DEF some, line
  <2>5. AddLine[r][line] = AddOutput(r, line)
    <3> HIDE DEF r, line
    <3>1. r \in [ring : [0 .. LinesMax - 1 -> Nat], idx : Nat] /\ line \in Nat
      BY <2>1, <2>3, ScrollAssumption DEF HoldsLines, Ring
    <3> QED
      BY <3>1 DEF AddLine
  <2> HIDE DEF r, some, line, R
  <2>6. HoldsLines(AddOutput(r, line), Append(some, line))
    BY <2>1, <2>3, LineAdded
  <2> QED
    BY <2>2, <2>4, <2>5, <2>6
<1> HIDE DEF T
<1>4. Nat \subseteq T
  BY <1>2, <1>3, NatSet
<1>5. Len(lines) \in T
  BY <1>1, <1>4
<1>6. HoldsLines(R(Len(lines)), SubSeq(lines, 1, Len(lines)))
  BY <1>1, <1>5 DEF T
<1> QED
  BY <1>1, <1>6

(* The newest lines *)
LEMMA NewestLines ==
    ASSUME NEW lines \in Lines
    PROVE  /\ Newest(lines) \in Lines
           /\ Len(Newest(lines)) = IF Len(lines) <= LinesMax THEN Len(lines) ELSE LinesMax
           /\ \A i \in 1 .. Len(Newest(lines)) :
                 Newest(lines)[i] = lines[Len(lines) - Len(Newest(lines)) + i]
<1> DEFINE n == Len(lines)
<1>1. LinesMax \in Nat \ {0} /\ n \in Nat /\ \A i \in 1 .. n : lines[i] \in Nat \ {NoLine}
  BY ScrollAssumption, ElementOfSeq, LenProperties DEF Lines
<1>2. CASE n <= LinesMax
  BY <1>1, <1>2 DEF Newest
<1>3. CASE ~(n <= LinesMax)
  <2> DEFINE w == SubSeq(lines, n - LinesMax + 1, n)
  <2>1. n - LinesMax + 1 \in 1 .. n /\ n - (n - LinesMax + 1) + 1 = LinesMax
    BY <1>1, <1>3
  <2>2. \A i \in n - LinesMax + 1 .. n : lines[i] \in Nat \ {NoLine}
    BY <1>1, <2>1
  <2>3. /\ w \in Lines /\ Len(w) = LinesMax
        /\ \A i \in 1 .. LinesMax : w[i] = lines[(n - LinesMax + 1) + i - 1]
    BY <1>1, <2>1, <2>2, SubSeqProperties DEF Lines
  <2>4. Newest(lines) = w
    BY <1>3 DEF Newest
  <2> HIDE DEF w, n
  <2>5. \A i \in 1 .. LinesMax : w[i] = lines[n - LinesMax + i]
    <3> SUFFICES ASSUME NEW i \in 1 .. LinesMax PROVE w[i] = lines[n - LinesMax + i]
      OBVIOUS
    <3>1. (n - LinesMax + 1) + i - 1 = n - LinesMax + i
      BY <1>1
    <3> QED
      BY <2>3, <3>1
  <2> QED
    BY <1>3, <2>3, <2>4, <2>5 DEF n
<1> QED
  BY <1>2, <1>3

(* Leaving out the places without a line keeps the lines in order.         *)
LEMMA AddKeptAppends ==
    /\ \A ls \in Seq(Nat), l \in Nat : AddKept[ls][l] = IF l = NoLine THEN ls ELSE Append(ls, l)
    /\ Appends(AddKept, Nat, Nat)
<1>1. \A ls \in Seq(Nat), l \in Nat : AddKept[ls][l] = IF l = NoLine THEN ls ELSE Append(ls, l)
  BY DEF AddKept
<1>2. ASSUME NEW ls \in Seq(Nat), NEW l \in Nat
      PROVE  AddKept[ls][l] \in Seq(Nat)
  <2>1. Append(ls, l) \in Seq(Nat)
    BY AppendProperties
  <2> QED
    BY <1>1, <2>1
<1>3. ASSUME NEW a \in Seq(Nat), NEW ls \in Seq(Nat), NEW l \in Nat
      PROVE  AddKept[a \o ls][l] = a \o AddKept[ls][l]
  <2>1. a \o ls \in Seq(Nat)
    BY ConcatProperties
  <2>2. CASE l = NoLine
    BY <1>1, <2>1, <2>2
  <2>3. CASE l # NoLine
    <3>1. AddKept[a \o ls][l] = Append(a \o ls, l) /\ AddKept[ls][l] = Append(ls, l)
      BY <1>1, <2>1, <2>3
    <3>2. <<l>> \in Seq(Nat)
      OBVIOUS
    <3>3. Append(a \o ls, l) = (a \o ls) \o <<l>> /\ Append(ls, l) = ls \o <<l>>
      BY <2>1, AppendIsConcat
    <3>4. (a \o ls) \o <<l>> = a \o (ls \o <<l>>)
      BY <3>2, ConcatAssociative
    <3> QED
      BY <3>1, <3>3, <3>4
  <2> QED
    BY <2>2, <2>3
<1> QED
  BY <1>1, <1>2, <1>3 DEF Appends

(* Lines are all left in ...                                               *)
LEMMA LinesStay ==
    ASSUME NEW lines \in Lines
    PROVE  Fold(AddKept, <<>>, lines) = lines
<1> DEFINE R(k) == Fold(AddKept, <<>>, SubSeq(lines, 1, k))
           T == {k \in Nat : k <= Len(lines) => R(k) = SubSeq(lines, 1, k)}
<1>1. /\ Len(lines) \in Nat /\ SubSeq(lines, 1, 0) = <<>>
      /\ SubSeq(lines, 1, Len(lines)) = lines
  BY SubSeqEmpty, SubSeqFull DEF Lines
<1>2. 0 \in T
  BY <1>1, FoldEmpty
<1>3. ASSUME NEW k \in Nat, k \in T
      PROVE  k + 1 \in T
  <2> SUFFICES ASSUME k + 1 <= Len(lines)
               PROVE  R(k + 1) = SubSeq(lines, 1, k + 1)
    OBVIOUS
  <2> DEFINE some == SubSeq(lines, 1, k)
             line == lines[k + 1]
  <2>1. line \in Nat \ {NoLine} /\ \A j \in 1 .. k : lines[j] \in Nat
    BY <1>1, ElementOfSeq DEF Lines
  <2>2. SubSeq(lines, 1, k + 1) = Append(some, line)
    BY <1>1, SubSeqNext DEF Lines
  <2>3. some \in Seq(Nat)
    BY <2>1, SubSeqProperties
  <2>4. Fold(AddKept, <<>>, some) = some
    BY <1>1, <1>3
  <2> HIDE DEF some, line
  <2>5. Fold(AddKept, <<>>, Append(some, line)) = AddKept[Fold(AddKept, <<>>, some)][line]
    BY <2>1, <2>3, FoldAppend
  <2>6. AddKept[some][line] = Append(some, line)
    BY <2>1, <2>3, AddKeptAppends
  <2> QED
    BY <2>2, <2>4, <2>5, <2>6
<1> HIDE DEF T
<1>4. Nat \subseteq T
  BY <1>2, <1>3, NatSet
<1>5. Len(lines) \in T
  BY <1>1, <1>4
<1>6. R(Len(lines)) = SubSeq(lines, 1, Len(lines))
  BY <1>1, <1>5 DEF T
<1> QED
  BY <1>1, <1>6

(* ... and empty places out.                                               *)
LEMMA PlacesLeave ==
    ASSUME NEW empty \in Seq({NoLine})
    PROVE  empty \in Seq(Nat) /\ Fold(AddKept, <<>>, empty) = <<>>
<1> DEFINE None == {<<>>}
<1>1. NoLine \in Nat /\ {NoLine} \subseteq Nat /\ <<>> \in Seq(Nat)
  BY EmptySeq DEF NoLine
<1>2. empty \in Seq(Nat)
  BY <1>1, SeqMonotonic
<1>3. \A a \in None : \A i \in 1 .. Len(empty) : AddKept[a][empty[i]] \in None
  <2> SUFFICES ASSUME NEW i \in 1 .. Len(empty)
               PROVE  AddKept[<<>>][empty[i]] = <<>>
    OBVIOUS
  <2>1. empty[i] = NoLine
    BY ElementOfSeq
  <2> QED
    BY <1>1, <2>1, AddKeptAppends
<1>4. <<>> \in None
  OBVIOUS
<1> HIDE DEF None
<1>5. Fold(AddKept, <<>>, empty) \in None
  BY <1>3, <1>4, FoldInvariant
<1> QED
  BY <1>2, <1>5 DEF None

(* What is written to the file are the newest lines.                       *)
LEMMA RingInOrder ==
    ASSUME HoldsLines(Current, kept)
    PROVE  InOrder = Newest(kept)
<1> DEFINE n == Len(kept)
           w == Newest(kept)
           z == LinesMax - Len(w)
           empty == [i \in 1 .. z |-> NoLine]
           u == [i \in 1 .. LinesMax |-> ring[(lines_idx + i - 1) % LinesMax]]
           both == empty \o w
<1>1. LinesMax \in Nat \ {0} /\ n \in Nat /\ kept \in Lines
  BY ScrollAssumption DEF HoldsLines, Lines
<1>2. /\ w \in Lines /\ Len(w) = IF n <= LinesMax THEN n ELSE LinesMax
      /\ \A i \in 1 .. Len(w) : w[i] = kept[n - Len(w) + i]
  BY <1>1, NewestLines
<1>3. \A i \in 1 .. LinesMax : u[i] = Slot(kept, i)
  BY DEF HoldsLines, Current
<1>4. w \in Seq(Nat)
  <2>1. Nat \ {NoLine} \subseteq Nat
    OBVIOUS
  <2> HIDE DEF w
  <2> QED
    BY <1>2, <2>1, SeqMonotonic DEF Lines
<1> HIDE DEF w, u
<1>5. z \in Nat /\ Len(w) \in Nat
  BY <1>1, <1>2
<1>6. empty \in Seq({NoLine}) /\ Len(empty) = z /\ \A i \in 1 .. z : empty[i] = NoLine
  BY <1>5
<1> HIDE DEF empty
<1>7. empty \in Seq(Nat) /\ Fold(AddKept, <<>>, empty) = <<>>
  BY <1>6, PlacesLeave
<1>8. /\ both \in Seq(Nat) /\ Len(both) = LinesMax
      /\ \A i \in 1 .. LinesMax : both[i] = IF i <= z THEN NoLine ELSE w[i - z]
  <2>1. /\ empty \o w \in Seq(Nat) /\ Len(empty \o w) = Len(empty) + Len(w)
        /\ \A i \in 1 .. Len(empty) + Len(w) :
              (empty \o w)[i] = IF i <= Len(empty) THEN empty[i] ELSE w[i - Len(empty)]
    BY <1>4, <1>7, ConcatProperties
  <2>2. Len(empty) + Len(w) = LinesMax
    BY <1>1, <1>5, <1>6
  <2> QED
    BY <1>5, <1>6, <2>1, <2>2
<1> HIDE DEF both
<1>9. ASSUME NEW i \in 1 .. LinesMax
      PROVE  Slot(kept, i) = both[i] /\ both[i] \in Nat
  <2>1. CASE i <= z
    <3>1. ~(n + i > LinesMax)
      BY <1>1, <1>2, <1>5, <2>1
    <3> QED
      BY <1>8, <2>1, <3>1 DEF Slot, NoLine
  <2>2. CASE ~(i <= z)
    <3>1. i - z \in 1 .. Len(w) /\ n + i > LinesMax
          /\ n - Len(w) + (i - z) = n + i - LinesMax
      <4> DEFINE m == Len(w)
      <4>1. m \in Nat /\ z = LinesMax - m /\ m = IF n <= LinesMax THEN n ELSE LinesMax
        BY <1>2, <1>5
      <4> HIDE DEF m, z, n
      <4> QED
        BY <1>1, <2>2, <4>1 DEF m
    <3>2. w[i - z] = kept[n + i - LinesMax]
      BY <1>2, <3>1
    <3>3. w[i - z] \in Nat
      BY <1>4, <3>1, ElementOfSeq
    <3> QED
      BY <1>8, <2>2, <3>1, <3>2, <3>3 DEF Slot
  <2> QED
    BY <2>1, <2>2
<1>10. u = both
  <2>1. u \in Seq(Nat) /\ Len(u) = LinesMax
    <3>1. \A i \in 1 .. LinesMax : ring[(lines_idx + i - 1) % LinesMax] \in Nat
      BY <1>3, <1>9 DEF u
    <3> QED
      BY <1>1, <3>1 DEF u
  <2> QED
    BY <1>3, <1>8, <1>9, <2>1, SeqEqual
<1>11. Fold(AddKept, <<>>, both) = w
  <2>1. Fold(AddKept, <<>>, empty \o w) = Fold(AddKept, <<>>, empty) \o Fold(AddKept, <<>>, w)
    <3>1. Appends(AddKept, Nat, Nat)
      BY AddKeptAppends
    <3>2. ASSUME NEW s \in Seq(Nat), NEW t \in Seq(Nat)
          PROVE  Fold(AddKept, <<>>, s \o t) = Fold(AddKept, <<>>, s) \o Fold(AddKept, <<>>, t)
      BY <3>1, FoldConcat
    <3> QED
      BY <1>4, <1>7, <3>2
  <2>2. Fold(AddKept, <<>>, w) = w
    BY <1>2, LinesStay
  <2>3. <<>> \o w = w
    BY <1>4, ConcatEmptySeq
  <2> QED
    BY <1>7, <2>1, <2>2, <2>3 DEF both
<1> QED
  BY <1>10, <1>11 DEF InOrder, u, w

-----------------------------------------------------------------------------
(* Every step keeps the newest lines together.                             *)
LEMMA ScrollInvStep ==
    ScrollInv /\ [ScrollNext]_scrollVars => ScrollInv'
<1> SUFFICES ASSUME ScrollInv, [ScrollNext]_scrollVars
             PROVE  ScrollInv'
  OBVIOUS
<1>1. ASSUME NEW off \in BOOLEAN, LoadScrollback(off)
      PROVE  ScrollInv'
  <2> DEFINE lines == IF off THEN <<>> ELSE file
             r == Fold(AddLine, [ring |-> EmptyRing, idx |-> 0], lines)
  <2>1. lines \in Lines
    BY EmptySeq DEF ScrollInv, Lines
  <2>2. ring' = r.ring /\ lines_idx' = r.idx /\ kept' = lines /\ run' \in {"yes", "off"}
        /\ UNCHANGED <<file, tmp, output>>
    BY <1>1 DEF LoadScrollback
  <2> HIDE DEF lines
  <2>3. HoldsLines(r, lines)
    BY <2>1, FileRead
  <2> HIDE DEF r
  <2>4. HoldsLines(Current', lines)
    BY <2>2, <2>3 DEF HoldsLines, Current, Ring
  <2> QED
    BY <2>1, <2>2, <2>4 DEF ScrollInv, HoldsLines
<1>2. CASE OutputLine
  <2> DEFINE a == AddOutput(Current, output + 1)
             more == Append(kept, output + 1)
  <2>1. output + 1 \in Nat \ {NoLine} /\ HoldsLines(Current, kept)
    BY <1>2 DEF ScrollInv, OutputLine, NoLine
  <2>2. HoldsLines(a, more)
    BY <2>1, LineAdded
  <2>3. /\ ring' = a.ring /\ lines_idx' = a.idx /\ kept' = more /\ output' = output + 1
        /\ UNCHANGED <<run, file, tmp>> /\ run \in {"yes", "off"}
    BY <1>2 DEF OutputLine, Current
  <2> HIDE DEF a, more
  <2>4. HoldsLines(Current', more) /\ more \in Lines
    BY <2>2, <2>3 DEF HoldsLines, Current, Ring
  <2> QED
    BY <2>1, <2>3, <2>4 DEF ScrollInv, HoldsLines
<1>3. CASE FlushBegin
  <2>1. /\ HoldsLines(Current, kept) /\ kept \in Lines
        /\ UNCHANGED <<ring, lines_idx, file, output, kept>>
    BY <1>3 DEF ScrollInv, FlushBegin
  <2> DEFINE w == Newest(kept)
  <2>2. InOrder = w /\ w \in Lines
    BY <2>1, RingInOrder, NewestLines
  <2> HIDE DEF w
  <2>3. CASE run' = "no" /\ tmp' = tmp
    BY <2>1, <2>3 DEF ScrollInv
  <2>4. CASE run' = "writing" /\ tmp' = w
    BY <2>1, <2>2, <2>4 DEF ScrollInv, HoldsLines, Current, Newest, w
  <2>5. ASSUME NEW n \in 0 .. Len(w) - 1, run' = "cut", tmp' = SubSeq(w, 1, n)
        PROVE  ScrollInv'
    <3>1. /\ Len(w) \in Nat /\ \A i \in 1 .. n : w[i] \in Nat \ {NoLine}
      BY <2>2, ElementOfSeq, LenProperties DEF Lines
    <3>2. tmp' \in Lines /\ Len(tmp') = n
      BY <2>5, <3>1, SubSeqProperties DEF Lines
    <3>3. SubSeq(tmp', 1, Len(tmp')) = tmp'
      BY <3>2, SubSeqFull DEF Lines
    <3>4. Len(tmp') <= Len(w) /\ SubSeq(tmp', 1, Len(tmp')) = SubSeq(w, 1, Len(tmp'))
      BY <2>5, <3>1, <3>2, <3>3
    <3>5. IsPrefix(tmp', w)
      BY <3>4 DEF IsPrefix
    <3> QED
      BY <2>1, <2>5, <3>2, <3>5 DEF ScrollInv, HoldsLines, Current, Newest, w
  <2> QED
    BY <1>3, <2>2, <2>3, <2>4, <2>5 DEF FlushBegin
<1>4. CASE FlushEnd
  BY <1>4 DEF FlushEnd, ScrollInv
<1>5. CASE Killed
  BY <1>5 DEF Killed, ScrollInv
<1>6. CASE UNCHANGED scrollVars
  BY <1>6 DEF scrollVars, ScrollInv, HoldsLines, Current, Newest, IsPrefix
<1> QED
  BY <1>1, <1>2, <1>3, <1>4, <1>5, <1>6 DEF ScrollNext

(* The file only ever changes to the newest lines of a run and of those it *)
(* inherited, in order, however many times the ring went round, or to the  *)
(* oldest of these when the disk is full (cli_scrollback_flush_and_free()). *)
THEOREM NewestKeptTheorem ==
    ScrollSpec => NewestKept
<1>1. ScrollInit => ScrollInv
  <2>1. <<>> \in Lines
    BY EmptySeq DEF Lines
  <2> QED
    BY <2>1 DEF ScrollInit, ScrollInv
<1>2. ScrollInv /\ [ScrollNext]_scrollVars =>
          [file' # file => /\ IsPrefix(file', Newest(kept))
                           /\ run = "writing" => file' = Newest(kept)]_scrollVars
  <2> SUFFICES ASSUME ScrollInv, ScrollNext, file' # file
               PROVE  /\ IsPrefix(file', Newest(kept))
                      /\ run = "writing" => file' = Newest(kept)
    OBVIOUS
  <2>1. FlushEnd
    BY DEF ScrollNext, LoadScrollback, OutputLine, FlushBegin, Killed
  <2>2. run \in {"writing", "cut"} /\ file' = tmp
    BY <2>1 DEF FlushEnd
  <2>3. IsPrefix(Newest(kept), Newest(kept))
    BY DEF IsPrefix, ScrollInv
  <2> QED
    BY <2>2, <2>3 DEF ScrollInv
<1> QED
  BY <1>1, <1>2, ScrollInvStep, PTL DEF ScrollSpec, NewestKept

-----------------------------------------------------------------------------
(* How a command becomes a line *)

(* The arguments: at least one, and two of a command that takes text *)
Arguments ==
    /\ words \in Seq(Seq(Classes)) /\ Count \in Nat \ {0}
    /\ mode \in {"default", "say", "echo"}
    /\ mode # "default" => Count >= 2 /\ words[1] = <<Letter>>

LEMMA ArgumentsGiven == CmdInit => Arguments
<1> SUFFICES ASSUME CmdInit
             PROVE  Arguments
  OBVIOUS
<1> DEFINE Given == {Letter, Space, Single, Double, Control}
           Word == BoundedSeq(Given, MaxWord)
<1>1. Given \subseteq Classes
  BY DEF Classes
<1> HIDE DEF Given
<1>2. Word \subseteq Seq(Given)
  BY CmdAssumption, SMT DEF BoundedSeq, SeqOf
<1>3. Word \subseteq Seq(Classes)
  BY <1>1, <1>2, SeqMonotonic
<1> HIDE DEF Word
<1>4. words \in BoundedSeq(Word, MaxWords) /\ words # <<>>
  BY DEF CmdInit, Word, Given
<1>5. words \in Seq(Word)
  BY <1>4, CmdAssumption, SMT DEF BoundedSeq, SeqOf
<1>6. words \in Seq(Seq(Classes))
  BY <1>3, <1>5, SeqMonotonic
<1>7. Count \in Nat \ {0}
  BY <1>4, <1>6, EmptySeq DEF Count
<1> QED
  BY <1>6, <1>7 DEF Arguments, CmdInit, Count

LEMMA ReplacedProperties ==
    ASSUME NEW w \in Seq(Classes)
    PROVE  /\ Replaced(w) \in Seq(Classes) /\ Len(Replaced(w)) = Len(w)
           /\ mode # "say" => \A i \in 1 .. Len(w) : Replaced(w)[i] # Double
           /\ \A i \in 1 .. Len(w) : w[i] = Letter => Replaced(w)[i] = Letter
<1> DEFINE e(i) == IF w[i] = Control THEN Del
                   ELSE IF w[i] = Double /\ mode # "say" THEN Single ELSE w[i]
           r == [i \in 1 .. Len(w) |-> e(i)]
<1>1. /\ DOMAIN w = 1 .. Len(w) /\ Len(w) \in Nat
      /\ \A i \in 1 .. Len(w) : w[i] \in Classes
  BY LenProperties, ElementOfSeq
<1>2. Replaced(w) = r
  BY <1>1 DEF Replaced
<1>3. \A i \in 1 .. Len(w) : /\ e(i) \in Classes
                             /\ mode # "say" => e(i) # Double
                             /\ w[i] = Letter => e(i) = Letter
  BY <1>1 DEF Classes, Letter, Space, Single, Double, Control, Del
<1> HIDE DEF e
<1>4. r \in Seq(Classes) /\ Len(r) = Len(w) /\ \A i \in 1 .. Len(w) : r[i] = e(i)
  BY <1>1, <1>3
<1> QED
  BY <1>2, <1>3, <1>4

(* The indices of the first k words *)
Pre(k) == SubSeq(Indices, 1, k)

LEMMA FoldIndices ==
    ASSUME Count \in Nat, NEW step, NEW base
    PROVE  /\ Pre(Count) = Indices
           /\ Fold(step, base, Pre(0)) = base
           /\ \A k \in 0 .. Count - 1 :
                  Fold(step, base, Pre(k + 1)) = step[Fold(step, base, Pre(k))][k + 1]
<1>1. Indices \in Seq(Nat) /\ Len(Indices) = Count /\ \A i \in 1 .. Count : Indices[i] = i
  BY DEF Indices
<1>2. Pre(Count) = Indices
  BY <1>1, SubSeqFull DEF Pre
<1>3. Pre(0) = <<>>
  BY SubSeqEmpty DEF Pre
<1>4. Fold(step, base, Pre(0)) = base
  BY <1>3, FoldEmpty
<1>5. ASSUME NEW k \in 0 .. Count - 1
      PROVE  Fold(step, base, Pre(k + 1)) = step[Fold(step, base, Pre(k))][k + 1]
  <2>1. k \in Nat /\ k + 1 \in 1 .. Count
    OBVIOUS
  <2>2. Pre(k + 1) = Append(Pre(k), k + 1)
    <3>1. SubSeq(Indices, 1, k + 1) = Append(SubSeq(Indices, 1, k), Indices[k + 1])
      BY <1>1, <2>1, SubSeqNext
    <3> QED
      BY <1>1, <2>1, <3>1 DEF Pre
  <2>3. Pre(k) \in Seq(Nat)
    BY <1>1, <2>1, SubSeqProperties DEF Pre
  <2>4. Fold(step, base, Append(Pre(k), k + 1)) = step[Fold(step, base, Pre(k))][k + 1]
    <3> DEFINE p == Pre(k)
               e == k + 1
    <3>1. p \in Seq(Nat) /\ e \in Nat
      BY <2>1, <2>3
    <3> HIDE DEF p, e
    <3>2. Fold(step, base, Append(p, e)) = step[Fold(step, base, p)][e]
      BY <3>1, FoldAppend
    <3> QED
      BY <3>2 DEF p, e
  <2> QED
    BY <2>2, <2>4
<1> QED
  BY <1>2, <1>4, <1>5

(* The last element                                                        *)
LEMMA LastOfConcat ==
    ASSUME NEW X, NEW s \in Seq(X), NEW e \in X
    PROVE  /\ s \o <<e>> \in Seq(X) /\ Len(s \o <<e>>) = Len(s) + 1
           /\ (s \o <<e>>)[Len(s) + 1] = e
BY AppendIsConcat, AppendProperties

(* What a word adds to the line is what it was counted for, and its quotes *)
(* show in the last character.                                             *)
LEMMA WordAdded ==
    ASSUME Arguments, mode = "default", NEW sofar \in Seq(Classes), NEW i \in 1 .. Count,
           i > 1 => sofar # <<>> /\ (Last(sofar) = Double <=> Quoted(words[i - 1]))
    PROVE  /\ WithWord(sofar, i) \in Seq(Classes)
           /\ Len(WithWord(sofar, i)) = Len(sofar) + SizeOf(i)
           /\ i < Count => /\ WithWord(sofar, i) # <<>>
                           /\ Last(WithWord(sofar, i)) = Double <=> Quoted(words[i])
<1> DEFINE w == words[i]
           r == Replaced(w)
<1>1. w \in Seq(Classes) /\ Len(w) \in Nat /\ Len(sofar) \in Nat /\ Count \in Nat
  BY ElementOfSeq, LenProperties DEF Arguments, Count
<1>2. r \in Seq(Classes) /\ Len(r) = Len(w) /\ \A j \in 1 .. Len(w) : r[j] # Double
  BY <1>1, ReplacedProperties
<1>3. Space \in Classes /\ Double \in Classes /\ Space # Double
  BY DEF Classes, Space, Double
<1>4. CASE ~Quoted(w)
  <2> DEFINE sp == IF i > 1 /\ Last(sofar) # Double THEN <<Space>> ELSE <<>>
             line == (sofar \o sp) \o r
  <2>1. WithWord(sofar, i) = line
    BY <1>4 DEF WithWord
  <2>2. sp \in Seq(Classes) /\ Len(sp) = QuoteSize(i)
    BY <1>3, <1>4 DEF QuoteSize
  <2>3. Len(w) # 0
    BY <1>1, <1>4, EmptySeq DEF Quoted
  <2> HIDE DEF sp, r, w
  <2>4. sofar \o sp \in Seq(Classes) /\ Len(sofar \o sp) = Len(sofar) + Len(sp) /\ Len(sp) \in Nat
    BY <2>2, ConcatProperties, LenProperties
  <2>5. /\ line \in Seq(Classes) /\ Len(line) = Len(sofar) + Len(sp) + Len(r)
        /\ line[Len(sofar) + Len(sp) + Len(r)] = r[Len(r)]
    BY <1>1, <1>2, <2>3, <2>4
  <2>6. SizeOf(i) = Len(w) + Len(sp)
    BY <2>2 DEF SizeOf, w
  <2>7. line # <<>> /\ Last(line) # Double
    BY <1>1, <1>2, <2>2, <2>3, <2>4, <2>5 DEF Last
  <2> HIDE DEF line
  <2>8. Len(line) = Len(sofar) + SizeOf(i)
    BY <1>1, <1>2, <2>4, <2>5, <2>6
  <2>9. ~Quoted(words[i])
    BY <1>4 DEF w
  <2> QED
    BY <2>1, <2>5, <2>7, <2>8, <2>9
<1>5. CASE Quoted(w)
  <2> DEFINE q == IF i # Count THEN <<Double>> ELSE <<>>
             most == (sofar \o <<Double>>) \o r
             line == most \o q
  <2>1. WithWord(sofar, i) = line
    BY <1>5 DEF WithWord
  <2>2. q \in Seq(Classes) /\ Len(q) = IF i # Count THEN 1 ELSE 0
    BY <1>3
  <2>3. QuoteSize(i) = 1 + Len(q)
    BY <1>5, <2>2 DEF QuoteSize
  <2>4. i # Count => q = <<Double>>
    OBVIOUS
  <2> HIDE DEF q, r, w
  <2>5. <<Double>> \in Seq(Classes) /\ Len(<<Double>>) = 1
    BY <1>3
  <2>6. most \in Seq(Classes) /\ Len(most) = Len(sofar) + 1 + Len(r)
    BY <1>1, <1>2, <2>5
  <2> HIDE DEF most
  <2>7. Len(q) \in Nat /\ Len(most) \in Nat
    BY <2>2, <2>6, LenProperties
  <2>8. /\ line \in Seq(Classes) /\ Len(line) = Len(most) + Len(q)
        /\ i < Count => line[Len(line)] = Double
    <3>1. CASE i # Count
      <4>1. q = <<Double>> /\ Len(q) = 1
        BY <2>2, <2>4, <3>1
      <4>2. /\ most \o <<Double>> \in Seq(Classes) /\ Len(most \o <<Double>>) = Len(most) + 1
            /\ (most \o <<Double>>)[Len(most) + 1] = Double
        BY <1>3, <2>6, LastOfConcat
      <4> QED
        BY <4>1, <4>2
    <3>2. CASE i = Count
      <4>1. q = <<>> /\ Len(q) = 0
        BY <2>2, <3>2, EmptySeq
      <4>2. most \o <<>> = most
        BY <2>6, ConcatEmptySeq
      <4> QED
        BY <2>6, <2>7, <3>2, <4>1, <4>2
    <3> QED
      BY <3>1, <3>2
  <2>9. SizeOf(i) = Len(w) + 1 + Len(q)
    <3>1. SizeOf(i) = Len(w) + QuoteSize(i)
      BY DEF SizeOf, w
    <3> QED
      BY <1>1, <2>3, <2>7, <3>1
  <2> HIDE DEF line
  <2>10. line # <<>> /\ Len(line) = Len(sofar) + SizeOf(i)
    BY <1>1, <1>2, <2>6, <2>7, <2>8, <2>9, EmptySeq
  <2>11. Quoted(words[i])
    BY <1>5 DEF w
  <2> QED
    BY <2>1, <2>8, <2>10, <2>11 DEF Last
<1> QED
  BY <1>4, <1>5 DEF w

(* The line and the size after k words *)
Line(k) == Fold(AddWord, <<>>, Pre(k))
LineSize(k) == Fold(AddSize, 0, Pre(k))

LineGrown(k) ==
    /\ Line(k) \in Seq(Classes) /\ LineSize(k) = Len(Line(k))
    /\ 0 < k /\ k < Count => /\ Line(k) # <<>>
                             /\ Last(Line(k)) = Double <=> Quoted(words[k])

LEMMA LineGrows ==
    ASSUME Arguments, mode = "default"
    PROVE  /\ \A k \in 0 .. Count : LineGrown(k)
           /\ \A k \in 0 .. Count - 1 : Line(k + 1) = WithWord(Line(k), k + 1)
<1> DEFINE T == {k \in Nat : k <= Count => LineGrown(k)}
<1>1. Count \in Nat
  BY DEF Arguments
<1>2. 0 \in T
  <2>1. Line(0) = <<>> /\ LineSize(0) = 0
    BY <1>1, FoldIndices DEF Line, LineSize
  <2>2. Line(0) \in Seq(Classes) /\ Len(Line(0)) = 0
    BY <2>1, EmptySeq
  <2>3. LineGrown(0)
    BY <2>1, <2>2 DEF LineGrown
  <2> QED
    BY <2>3
<1>3. ASSUME NEW k \in 0 .. Count - 1, LineGrown(k)
      PROVE  Line(k + 1) = WithWord(Line(k), k + 1) /\ LineGrown(k + 1)
  <2> DEFINE i == k + 1
             sofar == Line(k)
             more == WithWord(sofar, i)
  <2>1. i \in 1 .. Count /\ i \in Nat /\ k \in Nat /\ i - 1 = k /\ k < Count
    BY <1>1
  <2>2. sofar \in Seq(Classes) /\ LineSize(k) = Len(sofar) /\ Len(sofar) \in Nat
    BY <1>3, LenProperties DEF LineGrown
  <2>3. Line(i) = AddWord[sofar][i]
    BY <1>1, FoldIndices DEF Line
  <2>4. LineSize(i) = AddSize[Len(sofar)][i]
    <3>1. LineSize(i) = AddSize[LineSize(k)][i]
      BY <1>1, FoldIndices DEF LineSize
    <3> QED
      BY <2>2, <3>1
  <2>5. i > 1 => sofar # <<>> /\ (Last(sofar) = Double <=> Quoted(words[k]))
    <3>1. i > 1 => 0 < k
      BY <2>1
    <3> QED
      BY <1>3, <2>1, <3>1 DEF LineGrown
  <2>6. /\ more \in Seq(Classes) /\ Len(more) = Len(sofar) + SizeOf(i)
        /\ i < Count => more # <<>> /\ (Last(more) = Double <=> Quoted(words[i]))
    <3> HIDE DEF i, sofar
    <3> QED
      BY <2>1, <2>2, <2>5, WordAdded
  <2>7. Line(i) = more /\ LineSize(i) = Len(sofar) + SizeOf(i)
    <3> HIDE DEF i, sofar
    <3> QED
      BY <2>1, <2>2, <2>3, <2>4 DEF AddWord, AddSize
  <2> QED
    BY <2>6, <2>7 DEF LineGrown
<1>4. Nat \subseteq T
  <2>1. ASSUME NEW k \in Nat, k \in T
        PROVE  k + 1 \in T
    BY <1>1, <1>3, <2>1
  <2> HIDE DEF T
  <2> QED
    BY <1>2, <2>1, NatSet
<1>5. \A k \in 0 .. Count : LineGrown(k)
  BY <1>1, <1>4
<1> QED
  BY <1>1, <1>3, <1>5

(* The line of a command that takes text, before the last character is     *)
(* replaced                                                                *)
Said(k) == Fold(AddArgument, <<>>, Pre(k))

SaidGrown(k) ==
    /\ Said(k) \in Seq(Classes) /\ LineSize(k) = Len(Said(k))
    /\ 0 < k => Said(k) # <<>>

LEMMA ArgumentAdded ==
    ASSUME Arguments, mode # "default", NEW sofar \in Seq(Classes), NEW i \in 1 .. Count
    PROVE  /\ WithArgument(sofar, i) \in Seq(Classes)
           /\ Len(WithArgument(sofar, i)) = Len(sofar) + SizeOf(i)
           /\ WithArgument(sofar, i) # <<>>
<1> DEFINE w == words[i]
           r == Replaced(w)
           e == IF i = 1 THEN Double ELSE Space
           most == sofar \o r
<1>1. w \in Seq(Classes) /\ Len(w) \in Nat /\ Len(sofar) \in Nat /\ Count \in Nat
  BY ElementOfSeq, LenProperties DEF Arguments, Count
<1>2. r \in Seq(Classes) /\ Len(r) = Len(w)
  BY <1>1, ReplacedProperties
<1>3. e \in Classes
  BY DEF Classes, Space, Double
<1>4. SizeOf(i) = Len(w) + 1
  BY DEF SizeOf
<1>5. WithArgument(sofar, i) = most \o <<e>>
  BY DEF WithArgument
<1> HIDE DEF e, r, w
<1>6. most \in Seq(Classes) /\ Len(most) = Len(sofar) + Len(r)
  BY <1>2, ConcatProperties
<1> HIDE DEF most
<1>7. most \o <<e>> \in Seq(Classes) /\ Len(most \o <<e>>) = Len(most) + 1
  BY <1>3, <1>6, LastOfConcat
<1>8. Len(<<>>) = 0
  BY EmptySeq
<1> QED
  BY <1>1, <1>2, <1>4, <1>5, <1>6, <1>7, <1>8

LEMMA SaidGrows ==
    ASSUME Arguments, mode # "default"
    PROVE  /\ \A k \in 0 .. Count : SaidGrown(k)
           /\ \A k \in 0 .. Count - 1 : Said(k + 1) = WithArgument(Said(k), k + 1)
<1> DEFINE T == {k \in Nat : k <= Count => SaidGrown(k)}
<1>1. Count \in Nat
  BY DEF Arguments
<1>2. 0 \in T
  <2>1. Said(0) = <<>> /\ LineSize(0) = 0
    BY <1>1, FoldIndices DEF Said, LineSize
  <2>2. Said(0) \in Seq(Classes) /\ Len(Said(0)) = 0
    BY <2>1, EmptySeq
  <2>3. SaidGrown(0)
    BY <2>1, <2>2 DEF SaidGrown
  <2> QED
    BY <2>3
<1>3. ASSUME NEW k \in 0 .. Count - 1, SaidGrown(k)
      PROVE  Said(k + 1) = WithArgument(Said(k), k + 1) /\ SaidGrown(k + 1)
  <2> DEFINE i == k + 1
             sofar == Said(k)
             more == WithArgument(sofar, i)
  <2>1. i \in 1 .. Count /\ i \in Nat
    BY <1>1
  <2>2. sofar \in Seq(Classes) /\ LineSize(k) = Len(sofar) /\ Len(sofar) \in Nat
    BY <1>3, LenProperties DEF SaidGrown
  <2>3. Said(i) = AddArgument[sofar][i]
    BY <1>1, FoldIndices DEF Said
  <2>4. LineSize(i) = AddSize[Len(sofar)][i]
    <3>1. LineSize(i) = AddSize[LineSize(k)][i]
      BY <1>1, FoldIndices DEF LineSize
    <3> QED
      BY <2>2, <3>1
  <2>5. more \in Seq(Classes) /\ Len(more) = Len(sofar) + SizeOf(i) /\ more # <<>>
    <3> HIDE DEF i, sofar
    <3> QED
      BY <2>1, <2>2, ArgumentAdded
  <2>6. Said(i) = more /\ LineSize(i) = Len(sofar) + SizeOf(i)
    <3> HIDE DEF i, sofar
    <3> QED
      BY <2>1, <2>2, <2>3, <2>4 DEF AddArgument, AddSize
  <2> QED
    BY <2>5, <2>6 DEF SaidGrown
<1>4. Nat \subseteq T
  <2>1. ASSUME NEW k \in Nat, k \in T
        PROVE  k + 1 \in T
    BY <1>1, <1>3, <2>1
  <2> HIDE DEF T
  <2> QED
    BY <1>2, <2>1, NatSet
<1>5. \A k \in 0 .. Count : SaidGrown(k)
  BY <1>1, <1>4
<1> QED
  BY <1>1, <1>3, <1>5

(* The last element is replaced.                                           *)
LEMMA FrontAppend ==
    ASSUME NEW X, NEW s \in Seq(X), NEW e \in X, s # <<>>
    PROVE  Append(Front(s), e) \in Seq(X) /\ Len(Append(Front(s), e)) = Len(s)
<1> DEFINE n == Len(s) - 1
<1>1. n \in Nat /\ Len(s) = n + 1 /\ \A i \in 1 .. n : s[i] \in X
  BY EmptySeq, ElementOfSeq
<1> HIDE DEF n
<1>2. SubSeq(s, 1, n) \in Seq(X) /\ Len(SubSeq(s, 1, n)) = n
  BY <1>1, SubSeqProperties
<1>3. Front(s) = SubSeq(s, 1, n)
  BY DEF Front, n
<1> QED
  BY <1>1, <1>2, <1>3, AppendProperties

LEMMA SizesAgree == Arguments => SizeAgrees
<1> SUFFICES ASSUME Arguments
             PROVE  Len(Stringify) = OutSize
  BY DEF SizeAgrees
<1>1. Count \in Nat \ {0}
  BY DEF Arguments
<1>2. Pre(Count) = Indices
  BY <1>1, FoldIndices
<1>3. OutSize = LineSize(Count)
  BY <1>2 DEF OutSize, LineSize
<1>4. CASE mode = "default"
  <2>1. Stringify = Line(Count)
    BY <1>2, <1>4 DEF Stringify, Line
  <2>2. LineGrown(Count)
    BY <1>1, <1>4, LineGrows
  <2> QED
    BY <1>3, <2>1, <2>2 DEF LineGrown
<1>5. CASE mode # "default"
  <2> DEFINE e == IF mode = "say" THEN Double ELSE Del
  <2>1. Stringify = Append(Front(Said(Count)), e)
    BY <1>2, <1>5 DEF Stringify, Said
  <2>2. SaidGrown(Count) /\ 0 < Count
    BY <1>1, <1>5, SaidGrows
  <2>3. e \in Classes
    BY DEF Classes, Double, Del
  <2> HIDE DEF e
  <2>4. Len(Append(Front(Said(Count)), e)) = Len(Said(Count))
    BY <2>2, <2>3, FrontAppend DEF SaidGrown
  <2> QED
    BY <1>3, <2>1, <2>2, <2>4 DEF SaidGrown
<1> QED
  BY <1>4, <1>5

-----------------------------------------------------------------------------
(* What the game reads.  Within quotes everything but a double quote, and  *)
(* outside of them a letter, is added to the word.                         *)
Longer(t, w) == [open |-> t.open, word |-> t.word \o w, words |-> t.words]
PlainIn(t, c) == IF t.open THEN c # Double ELSE c = Letter

LEMMA PlainChar ==
    ASSUME NEW t \in TokenState, NEW c \in Classes, PlainIn(t, c)
    PROVE  ReadChar[t][c] = Longer(t, <<c>>) /\ Longer(t, <<c>>) \in TokenState
<1>1. /\ t = [open |-> t.open, word |-> t.word, words |-> t.words]
      /\ t.open \in BOOLEAN /\ t.word \in Seq(Classes) /\ t.words \in Seq(Seq(Classes))
  BY DEF TokenState
<1>2. ReadChar[t][c] = AfterChar(t, c)
  BY DEF ReadChar
<1>3. AfterChar(t, c) = [open |-> t.open, word |-> Append(t.word, c), words |-> t.words]
  <2>1. Letter # Space /\ Letter # Single /\ Letter # Double
    BY DEF Letter, Space, Single, Double
  <2>2. CASE t.open
    BY <1>1, <2>2 DEF AfterChar, PlainIn, State
  <2>3. CASE ~t.open
    BY <1>1, <2>1, <2>3 DEF AfterChar, PlainIn, State
  <2> QED
    BY <2>2, <2>3
<1>4. Append(t.word, c) = t.word \o <<c>>
  BY <1>1, AppendIsConcat
<1>5. t.word \o <<c>> \in Seq(Classes)
  BY <1>1, LastOfConcat
<1> DEFINE longer == t.word \o <<c>>
<1> HIDE DEF longer
<1>6. [open |-> t.open, word |-> longer, words |-> t.words] \in TokenState
  BY <1>1, <1>5 DEF TokenState, longer
<1> QED
  BY <1>2, <1>3, <1>4, <1>6 DEF Longer, longer

(* So it is with a whole word.                                             *)
LEMMA PlainWord ==
    ASSUME NEW t \in TokenState, NEW w \in Seq(Classes), \A i \in 1 .. Len(w) : PlainIn(t, w[i])
    PROVE  Fold(ReadChar, t, w) = Longer(t, w) /\ Longer(t, w) \in TokenState
<1> DEFINE B(k) == SubSeq(w, 1, k)
           R(k) == Fold(ReadChar, t, B(k))
           T == {k \in Nat : k <= Len(w) => R(k) = Longer(t, B(k))}
<1>1. Len(w) \in Nat /\ B(Len(w)) = w /\ B(0) = <<>>
  BY LenProperties, SubSeqFull, SubSeqEmpty
<1>2. t.word \in Seq(Classes) /\ t.words \in Seq(Seq(Classes)) /\ t.open \in BOOLEAN
  BY DEF TokenState
<1>3. \A k \in 0 .. Len(w) : B(k) \in Seq(Classes)
  BY ElementOfSeq, SubSeqProperties
<1>4. 0 \in T
  <2>1. R(0) = t
    BY <1>1, FoldEmpty
  <2>2. Longer(t, <<>>) = t
    BY <1>2, ConcatEmptySeq DEF Longer, TokenState
  <2> QED
    BY <1>1, <2>1, <2>2
<1>5. ASSUME NEW k \in Nat, k \in T
      PROVE  k + 1 \in T
  <2> SUFFICES ASSUME k + 1 <= Len(w)
               PROVE  R(k + 1) = Longer(t, B(k + 1))
    OBVIOUS
  <2> DEFINE c == w[k + 1]
             p == B(k)
             u == Longer(t, p)
  <2>1. k + 1 \in 1 .. Len(w) /\ k \in 0 .. Len(w) /\ R(k) = u
    BY <1>1, <1>5
  <2>2. c \in Classes /\ PlainIn(t, c) /\ p \in Seq(Classes)
    BY <1>3, <2>1, ElementOfSeq
  <2>3. B(k + 1) = Append(p, c)
    BY <2>1, SubSeqNext
  <2>4. u \in TokenState /\ PlainIn(u, c)
    <3> HIDE DEF p, c
    <3>1. t.word \o p \in Seq(Classes)
      BY <1>2, <2>2, ConcatProperties
    <3> QED
      BY <1>2, <2>2, <3>1 DEF Longer, TokenState, PlainIn
  <2>5. R(k + 1) = ReadChar[u][c]
    <3> HIDE DEF p, c
    <3>1. Fold(ReadChar, t, Append(p, c)) = ReadChar[Fold(ReadChar, t, p)][c]
      BY <2>2, FoldAppend
    <3> QED
      BY <2>1, <2>3, <3>1 DEF p
  <2>6. ReadChar[u][c] = Longer(u, <<c>>)
    <3> HIDE DEF u, c
    <3> QED
      BY <2>2, <2>4, PlainChar
  <2>7. Longer(u, <<c>>) = Longer(t, Append(p, c))
    <3> HIDE DEF p, c
    <3>1. Append(p, c) = p \o <<c>> /\ <<c>> \in Seq(Classes)
      BY <2>2, AppendIsConcat
    <3>2. (t.word \o p) \o <<c>> = t.word \o (p \o <<c>>)
      <4> DEFINE tw == t.word
                 last == <<c>>
      <4>1. tw \in Seq(Classes) /\ p \in Seq(Classes) /\ last \in Seq(Classes)
        BY <1>2, <2>2, <3>1
      <4> HIDE DEF tw, last
      <4>2. (tw \o p) \o last = tw \o (p \o last)
        BY <4>1, ConcatAssociative, SMTT(30)
      <4> QED
        BY <4>2 DEF tw, last
    <3> QED
      BY <3>1, <3>2 DEF Longer
  <2> QED
    BY <2>3, <2>5, <2>6, <2>7
<1>6. Nat \subseteq T
  <2> HIDE DEF T
  <2> QED
    BY <1>4, <1>5, NatSet
<1>7. Fold(ReadChar, t, w) = Longer(t, w)
  <2>1. R(Len(w)) = Longer(t, B(Len(w)))
    BY <1>1, <1>6
  <2> HIDE DEF B
  <2> QED
    BY <1>1, <2>1
<1>8. t.word \o w \in Seq(Classes)
  BY <1>2, ConcatProperties
<1> QED
  BY <1>2, <1>7, <1>8 DEF Longer, TokenState

(* A double quote begins or ends a word, a space ends one.                 *)
LEMMA FlushedType ==
    ASSUME NEW t \in TokenState
    PROVE  Flushed(t) \in Seq(Seq(Classes)) /\ Append(t.words, t.word) \in Seq(Seq(Classes))
BY AppendProperties DEF TokenState, Flushed

LEMMA QuoteChar ==
    ASSUME NEW t \in TokenState
    PROVE  LET u == ReadChar[t][Double]
           IN  /\ u = IF t.open THEN State(FALSE, <<>>, Append(t.words, t.word))
                      ELSE State(TRUE, <<>>, Flushed(t))
               /\ u \in TokenState
<1>1. Double \in Classes /\ <<>> \in Seq(Classes)
  BY EmptySeq DEF Classes
<1>2. ReadChar[t][Double] = AfterChar(t, Double)
  BY <1>1 DEF ReadChar
<1>3. AfterChar(t, Double) = IF t.open THEN State(FALSE, <<>>, Append(t.words, t.word))
                             ELSE State(TRUE, <<>>, Flushed(t))
  <2>1. Double # Space /\ Double # Single
    BY DEF Space, Single, Double
  <2>2. CASE t.open
    BY <2>2 DEF AfterChar
  <2>3. CASE ~t.open
    BY <2>1, <2>3 DEF AfterChar
  <2> QED
    BY <2>2, <2>3
<1>4. /\ State(FALSE, <<>>, Append(t.words, t.word)) \in TokenState
      /\ State(TRUE, <<>>, Flushed(t)) \in TokenState
  <2> DEFINE f == Flushed(t)
             g == Append(t.words, t.word)
  <2>1. f \in Seq(Seq(Classes)) /\ g \in Seq(Seq(Classes))
    BY FlushedType
  <2> HIDE DEF f, g
  <2>2. State(FALSE, <<>>, g) \in TokenState /\ State(TRUE, <<>>, f) \in TokenState
    BY <1>1, <2>1 DEF TokenState, State
  <2> QED
    BY <2>2 DEF f, g
<1> QED
  BY <1>2, <1>3, <1>4

LEMMA SpaceChar ==
    ASSUME NEW t \in TokenState, ~t.open
    PROVE  /\ ReadChar[t][Space] = State(FALSE, <<>>, Flushed(t))
           /\ State(FALSE, <<>>, Flushed(t)) \in TokenState
<1>1. Space \in Classes /\ <<>> \in Seq(Classes)
  BY EmptySeq DEF Classes
<1>2. ReadChar[t][Space] = AfterChar(t, Space)
  BY <1>1 DEF ReadChar
<1>3. AfterChar(t, Space) = State(FALSE, <<>>, Flushed(t))
  <2>1. Space # Double /\ Space # Single
    BY DEF Space, Single, Double
  <2> QED
    BY <2>1 DEF AfterChar
<1> DEFINE f == Flushed(t)
<1>4. f \in Seq(Seq(Classes))
  BY FlushedType
<1> HIDE DEF f
<1>5. State(FALSE, <<>>, f) \in TokenState
  BY <1>1, <1>4 DEF TokenState, State
<1> QED
  BY <1>2, <1>3, <1>5 DEF f

Start == State(FALSE, <<>>, <<>>)
Read(line) == Fold(ReadChar, Start, line)

(* What a word adds to what the game reads: an ordinary one is still being *)
(* read, and one with quotes ends with the second, if it has one.          *)
AfterWord(t, i) ==
    IF ~Quoted(words[i]) THEN State(FALSE, Replaced(words[i]), Flushed(t))
    ELSE IF i = Count THEN State(TRUE, Replaced(words[i]), Flushed(t))
    ELSE State(FALSE, <<>>, Append(Flushed(t), Replaced(words[i])))

LEMMA StateFields ==
    ASSUME NEW open, NEW w, NEW ws
    PROVE  /\ State(open, w, ws).open = open
           /\ State(open, w, ws).word = w
           /\ State(open, w, ws).words = ws
BY DEF State

LEMMA WordFromHere ==
    ASSUME NEW open \in BOOLEAN, NEW ws \in Seq(Seq(Classes)), NEW w \in Seq(Classes),
           \A i \in 1 .. Len(w) : IF open THEN w[i] # Double ELSE w[i] = Letter
    PROVE  /\ Fold(ReadChar, State(open, <<>>, ws), w) = State(open, w, ws)
           /\ State(open, w, ws) \in TokenState
<1> DEFINE t == State(open, <<>>, ws)
<1>1. /\ t.open = open /\ t.word = <<>> /\ t.words = ws
      /\ \A i \in 1 .. Len(w) : PlainIn(t, w[i])
  BY DEF State, PlainIn
<1>2. t \in TokenState
  BY EmptySeq DEF State, TokenState
<1>3. State(open, w, ws) \in TokenState
  BY DEF State, TokenState
<1>4. <<>> \o w = w
  BY ConcatEmptySeq
<1> HIDE DEF t
<1>5. Fold(ReadChar, t, w) = Longer(t, w)
  BY <1>1, <1>2, PlainWord
<1>6. Longer(t, w) = State(open, w, ws)
  BY <1>1, <1>4 DEF Longer, State
<1> QED
  BY <1>3, <1>5, <1>6 DEF t

(* A word with nothing that needs quotes has letters only, if it has no    *)
(* double quote.                                                           *)
LEMMA LettersOnly ==
    ASSUME NEW w \in Seq(Classes), ~Quoted(w), ~Has(w, {Double})
    PROVE  w # <<>> /\ \A i \in 1 .. Len(w) : w[i] = Letter
<1>1. DOMAIN w = 1 .. Len(w) /\ \A i \in 1 .. Len(w) : w[i] \in Classes
  BY LenProperties, ElementOfSeq
<1> QED
  BY <1>1 DEF Quoted, Has, NeedsQuotes, Classes

ReadSoFar(t, k) ==
    /\ t \in TokenState /\ ~t.open
    /\ t.word # <<>> => 0 < k /\ ~Quoted(words[k])

LEMMA WordRead ==
    ASSUME Arguments, mode = "default", NEW i \in 1 .. Count,
           Has(words[i], {Double}) => Quoted(words[i]),
           NEW sofar \in Seq(Classes), i > 1 => (Last(sofar) = Double <=> Quoted(words[i - 1])),
           NEW t, t = Read(sofar), ReadSoFar(t, i - 1)
    PROVE  Read(WithWord(sofar, i)) = AfterWord(t, i)
<1> DEFINE w == words[i]
           r == Replaced(w)
           f == Flushed(t)
<1>1. w \in Seq(Classes) /\ Len(w) \in Nat /\ Count \in Nat
  BY ElementOfSeq, LenProperties DEF Arguments, Count
<1>2. /\ r \in Seq(Classes) /\ Len(r) = Len(w) /\ \A j \in 1 .. Len(r) : r[j] # Double
      /\ \A j \in 1 .. Len(r) : w[j] = Letter => r[j] = Letter
  BY <1>1, ReplacedProperties
<1>3. t \in TokenState /\ ~t.open /\ f \in Seq(Seq(Classes)) /\ t.open = FALSE
  BY FlushedType DEF ReadSoFar, TokenState
<1>4. Space \in Classes /\ Double \in Classes
  BY DEF Classes
<1>5. ASSUME NEW s \in Seq(Classes)
      PROVE  Read(sofar \o s) = Fold(ReadChar, t, s)
  BY FoldThrough DEF Read
<1>6. ASSUME NEW s \in Seq(Classes), NEW u \in Seq(Classes)
      PROVE  (sofar \o s) \o u = sofar \o (s \o u)
  BY ConcatAssociative, SMTT(30)
<1>7. \A s \in Seq(Classes), u \in Seq(Classes) : s \o u \in Seq(Classes)
  BY ConcatProperties
<1>8. CASE ~Quoted(w)
  <2> DEFINE sp == IF i > 1 /\ Last(sofar) # Double THEN <<Space>> ELSE <<>>
             here == State(FALSE, <<>>, f)
  <2>1. WithWord(sofar, i) = (sofar \o sp) \o r
    BY <1>8 DEF WithWord
  <2>2. sp \in Seq(Classes)
    BY <1>4
  <2>3. Fold(ReadChar, t, sp) = here
    <3>1. CASE i > 1 /\ Last(sofar) # Double
      <4>1. Fold(ReadChar, t, <<Space>>) = ReadChar[t][Space]
        BY <1>4, FoldOne
      <4> QED
        BY <1>3, <3>1, <4>1, SpaceChar
    <3>2. CASE ~(i > 1 /\ Last(sofar) # Double)
      <4>1. t.word = <<>>
        BY <3>2 DEF ReadSoFar
      <4>2. t = here
        <5>1. t = State(t.open, t.word, t.words)
          BY <1>3 DEF TokenState, State
        <5>2. f = t.words
          BY <4>1 DEF Flushed
        <5> QED
          BY <1>3, <4>1, <5>1, <5>2
      <4>3. Fold(ReadChar, t, <<>>) = t
        BY FoldEmpty
      <4> QED
        BY <3>2, <4>2, <4>3
    <3> QED
      BY <3>1, <3>2
  <2>4. \A j \in 1 .. Len(r) : r[j] = Letter
    BY <1>1, <1>2, <1>8, LettersOnly
  <2> HIDE DEF sp, r, f
  <2>5. Fold(ReadChar, here, r) = State(FALSE, r, f)
    BY <1>2, <1>3, <2>4, WordFromHere
  <2> HIDE DEF here
  <2>6. Read((sofar \o sp) \o r) = Fold(ReadChar, Fold(ReadChar, t, sp), r)
    <3>1. sp \o r \in Seq(Classes) /\ (sofar \o sp) \o r = sofar \o (sp \o r)
      BY <1>2, <1>6, <1>7, <2>2
    <3>2. Fold(ReadChar, t, sp \o r) = Fold(ReadChar, Fold(ReadChar, t, sp), r)
      BY <1>2, <2>2, FoldThrough
    <3>3. Read(sofar \o (sp \o r)) = Fold(ReadChar, t, sp \o r)
      BY <1>5, <3>1
    <3> QED
      BY <3>1, <3>2, <3>3
  <2>7. Read(WithWord(sofar, i)) = State(FALSE, r, f)
    BY <2>1, <2>3, <2>5, <2>6
  <2> QED
    BY <1>8, <2>7 DEF AfterWord, r, f
<1>9. CASE Quoted(w)
  <2> DEFINE q == IF i # Count THEN <<Double>> ELSE <<>>
             dq == <<Double>>
             here == State(TRUE, <<>>, f)
             there == State(TRUE, r, f)
  <2>1. WithWord(sofar, i) = ((sofar \o dq) \o r) \o q
    BY <1>9 DEF WithWord
  <2>2. q \in Seq(Classes) /\ dq \in Seq(Classes)
    BY <1>4
  <2>3. Fold(ReadChar, t, dq) = here
    <3>1. Fold(ReadChar, t, dq) = ReadChar[t][Double]
      BY <1>4, FoldOne
    <3> QED
      BY <1>3, <3>1, QuoteChar
  <2>4. Fold(ReadChar, here, r) = there /\ there \in TokenState
    <3> HIDE DEF r, f
    <3> QED
      BY <1>2, <1>3, WordFromHere
  <2>5. Fold(ReadChar, there, q) = IF i = Count THEN there ELSE State(FALSE, <<>>, Append(f, r))
    <3> HIDE DEF r, f
    <3>1. there.open /\ there.word = r /\ there.words = f
      BY DEF State
    <3> HIDE DEF there
    <3>2. CASE i # Count
      <4>1. Fold(ReadChar, there, <<Double>>) = ReadChar[there][Double]
        BY <1>4, FoldOne
      <4> QED
        BY <2>4, <3>1, <3>2, <4>1, QuoteChar
    <3>3. CASE i = Count
      BY <3>3, FoldEmpty
    <3> QED
      BY <3>2, <3>3
  <2>6. Read(((sofar \o dq) \o r) \o q) =
            Fold(ReadChar, Fold(ReadChar, Fold(ReadChar, t, dq), r), q)
    <3> HIDE DEF q, dq, r
    <3>1. ((sofar \o dq) \o r) \o q = sofar \o ((dq \o r) \o q)
      <4>1. dq \o r \in Seq(Classes) /\ (sofar \o dq) \o r = sofar \o (dq \o r)
        BY <1>2, <1>6, <1>7, <2>2
      <4> QED
        BY <1>6, <2>2, <4>1
    <3>2. dq \o r \in Seq(Classes) /\ (dq \o r) \o q \in Seq(Classes)
      BY <1>2, <2>2, ConcatProperties
    <3>3. Read(sofar \o ((dq \o r) \o q)) = Fold(ReadChar, t, (dq \o r) \o q)
      BY <1>5, <3>2
    <3>4. Fold(ReadChar, t, (dq \o r) \o q) = Fold(ReadChar, Fold(ReadChar, t, dq \o r), q)
      <4> DEFINE x == dq \o r
      <4>1. x \in Seq(Classes)
        BY <3>2
      <4> HIDE DEF x
      <4>2. Fold(ReadChar, t, x \o q) = Fold(ReadChar, Fold(ReadChar, t, x), q)
        BY <2>2, <4>1, FoldThrough
      <4> QED
        BY <4>2 DEF x
    <3>5. Fold(ReadChar, t, dq \o r) = Fold(ReadChar, Fold(ReadChar, t, dq), r)
      BY <1>2, <2>2, FoldThrough
    <3> QED
      BY <3>1, <3>3, <3>4, <3>5
  <2> HIDE DEF here, there, q, dq
  <2>7. Read(WithWord(sofar, i)) = IF i = Count THEN there ELSE State(FALSE, <<>>, Append(f, r))
    BY <2>1, <2>3, <2>4, <2>5, <2>6
  <2> QED
    BY <1>9, <2>7 DEF AfterWord, there
<1> QED
  BY <1>8, <1>9

Given(k) == [i \in 1 .. k |-> Replaced(words[i])]

(* What the game has read after k words                                    *)
WordsSoFar(k) ==
    LET t == Read(Line(k))
    IN  IF k = Count /\ Quoted(words[k]) THEN t.open /\ Append(t.words, t.word) = Given(k)
        ELSE ReadSoFar(t, k) /\ Flushed(t) = Given(k)

LEMMA GivenGrows ==
    ASSUME Arguments, NEW k \in 0 .. Count - 1
    PROVE  Given(k + 1) = Append(Given(k), Replaced(words[k + 1])) /\ Given(0) = <<>>
<1> DEFINE e(i) == Replaced(words[i])
<1>1. Count \in Nat /\ \A i \in 1 .. Count : e(i) \in Seq(Classes)
  BY ReplacedProperties, ElementOfSeq DEF Arguments, Count
<1> HIDE DEF e
<1>2. [i \in 1 .. k + 1 |-> e(i)] = Append([i \in 1 .. k |-> e(i)], e(k + 1))
  BY <1>1
<1>3. [i \in 1 .. 0 |-> e(i)] = <<>>
  OBVIOUS
<1> QED
  BY <1>2, <1>3 DEF Given, e

LEMMA WordsRead ==
    ASSUME Arguments, mode = "default",
           \A i \in 1 .. Count : Has(words[i], {Double}) => Quoted(words[i])
    PROVE  WordsSoFar(Count)
<1> DEFINE T == {k \in Nat : k <= Count => WordsSoFar(k)}
<1>1. Count \in Nat \ {0}
  BY DEF Arguments
<1>2. 0 \in T
  <2>1. Line(0) = <<>>
    BY <1>1, FoldIndices DEF Line
  <2>2. Read(<<>>) = Start
    BY FoldEmpty DEF Read
  <2>3. /\ Start.open = FALSE /\ Start.word = <<>> /\ Start.words = <<>>
        /\ Start \in TokenState
    BY EmptySeq DEF Start, State, TokenState
  <2>4. ReadSoFar(Start, 0) /\ Flushed(Start) = <<>>
    BY <2>3 DEF ReadSoFar, Flushed
  <2>5. Given(0) = <<>>
    BY <1>1, GivenGrows
  <2> QED
    BY <1>1, <2>1, <2>2, <2>4, <2>5 DEF WordsSoFar
<1>3. ASSUME NEW k \in 0 .. Count - 1, WordsSoFar(k)
      PROVE  WordsSoFar(k + 1)
  <2> DEFINE i == k + 1
             sofar == Line(k)
             t == Read(sofar)
             r == Replaced(words[i])
             f == Flushed(t)
  <2>1. i \in 1 .. Count /\ i - 1 = k /\ k # Count /\ (i > 1 => 0 < k /\ k < Count)
    BY <1>1
  <2>2. ReadSoFar(t, k) /\ f = Given(k)
    BY <1>3, <2>1 DEF WordsSoFar
  <2>3. sofar \in Seq(Classes) /\ (i > 1 => (Last(sofar) = Double <=> Quoted(words[k])))
    <3>1. LineGrown(k)
      BY <1>1, LineGrows
    <3> QED
      BY <2>1, <3>1 DEF LineGrown
  <2>4. Line(i) = WithWord(sofar, i)
    BY LineGrows
  <2>5. Read(WithWord(sofar, i)) = AfterWord(t, i)
    <3>1. (Has(words[i], {Double}) => Quoted(words[i])) /\ t = Read(sofar)
      BY <2>1
    <3> HIDE DEF i, sofar, t
    <3> QED
      BY <2>1, <2>2, <2>3, <3>1, WordRead
  <2>6. Read(Line(i)) = AfterWord(t, i)
    BY <2>4, <2>5
  <2>7. Given(i) = Append(f, r)
    BY <1>1, <2>2, GivenGrows
  <2>8. r \in Seq(Classes) /\ f \in Seq(Seq(Classes)) /\ Append(f, r) \in Seq(Seq(Classes))
    <3>1. words[i] \in Seq(Classes)
      BY <2>1, ElementOfSeq DEF Arguments, Count
    <3>2. r \in Seq(Classes)
      BY <3>1, ReplacedProperties
    <3>3. f \in Seq(Seq(Classes))
      BY <2>2, FlushedType DEF ReadSoFar
    <3> QED
      BY <3>2, <3>3, AppendProperties
  <2>9. ~Quoted(words[i]) => r # <<>>
    <3>1. words[i] \in Seq(Classes)
      BY <2>1, ElementOfSeq DEF Arguments, Count
    <3>2. Len(r) = Len(words[i])
      BY <3>1, ReplacedProperties
    <3>3. ~Quoted(words[i]) => Len(words[i]) # 0
      BY <3>1, EmptySeq DEF Quoted
    <3> QED
      BY <3>2, <3>3, EmptySeq
  <2> HIDE DEF t, r, f
  <2>10. CASE ~Quoted(words[i])
    <3> DEFINE u == State(FALSE, r, f)
    <3>1. AfterWord(t, i) = u
      BY <2>10 DEF AfterWord, r, f
    <3>2. u.open = FALSE /\ u.word = r /\ u.words = f /\ u \in TokenState
      BY <2>8 DEF State, TokenState
    <3> HIDE DEF u
    <3>3. ReadSoFar(u, i) /\ Flushed(u) = Append(f, r)
      BY <1>1, <2>9, <2>10, <3>2 DEF ReadSoFar, Flushed
    <3> QED
      BY <2>6, <2>7, <2>10, <3>1, <3>3 DEF WordsSoFar
  <2>11. CASE Quoted(words[i]) /\ i = Count
    <3> DEFINE u == State(TRUE, r, f)
    <3>1. AfterWord(t, i) = u
      BY <2>11 DEF AfterWord, r, f
    <3>2. u.open = TRUE /\ u.word = r /\ u.words = f
      BY DEF State
    <3> HIDE DEF u
    <3> QED
      BY <2>6, <2>7, <2>11, <3>1, <3>2 DEF WordsSoFar
  <2>12. CASE Quoted(words[i]) /\ i # Count
    <3> DEFINE g == Append(f, r)
               u == State(FALSE, <<>>, g)
    <3>1. AfterWord(t, i) = u
      BY <2>12 DEF AfterWord, r, f
    <3>2. g \in Seq(Seq(Classes)) /\ <<>> \in Seq(Classes)
      BY <2>8, EmptySeq
    <3> HIDE DEF g
    <3>3. u.open = FALSE /\ u.word = <<>> /\ u.words = g /\ u \in TokenState
      BY <3>2 DEF State, TokenState
    <3> HIDE DEF u
    <3>4. ReadSoFar(u, i) /\ Flushed(u) = g
      BY <3>3 DEF ReadSoFar, Flushed
    <3> QED
      BY <2>6, <2>7, <2>12, <3>1, <3>4 DEF WordsSoFar, g
  <2> QED
    BY <2>10, <2>11, <2>12
<1>4. Nat \subseteq T
  <2>1. ASSUME NEW k \in Nat, k \in T
        PROVE  k + 1 \in T
    BY <1>1, <1>3, <2>1
  <2> HIDE DEF T
  <2> QED
    BY <1>2, <2>1, NatSet
<1> QED
  BY <1>1, <1>4

(* An ordinary command reads as its words, with the characters replaced.   *)
LEMMA OrdinaryArrives ==
    ASSUME Arguments, mode = "default",
           \A i \in 1 .. Count : Has(words[i], {Double}) => Quoted(words[i])
    PROVE  Tokens(Stringify) = Given(Count)
<1> DEFINE t == Read(Line(Count))
<1>1. Count \in Nat
  BY DEF Arguments
<1>2. Stringify = Line(Count)
  BY <1>1, FoldIndices DEF Stringify, Line
<1>3. Tokens(Line(Count)) = IF t.open THEN Append(t.words, t.word) ELSE Flushed(t)
  BY DEF Tokens, Read, Start
<1>4. WordsSoFar(Count)
  BY WordsRead
<1> HIDE DEF t
<1> QED
  BY <1>2, <1>3, <1>4 DEF WordsSoFar, ReadSoFar, t

(* The text "echo" gets has no double quote, and its last space is left    *)
(* for DEL.                                                                *)
Plain == Classes \ {Double}
EchoText(k) == Fold(AddText, Replaced(words[2]), SubSeq(words, 3, k))
Echo == <<Letter>> \o <<Double>>

LEMMA PlainReplaced ==
    ASSUME mode # "say", NEW w \in Seq(Classes)
    PROVE  Replaced(w) \in Seq(Plain)
<1> DEFINE r == Replaced(w)
<1>1. r \in Seq(Classes) /\ \A i \in 1 .. Len(r) : r[i] # Double
  BY ReplacedProperties
<1> HIDE DEF r
<1>2. \A i \in 1 .. Len(r) : r[i] \in Plain
  BY <1>1, ElementOfSeq DEF Plain
<1>3. Len(r) \in Nat /\ r \in [1 .. Len(r) -> Classes]
  BY <1>1, LenProperties
<1> QED
  BY <1>2, <1>3 DEF r

TextSoFar(k) ==
    /\ EchoText(k) \in Seq(Plain)
    /\ Said(k) = Echo \o (EchoText(k) \o <<Space>>)

LEMMA TextGrows ==
    ASSUME Arguments, mode = "echo"
    PROVE  TextSoFar(Count)
<1> DEFINE T == {k \in Nat : 2 <= k /\ k <= Count => TextSoFar(k)}
           sp == <<Space>>
<1>1. Count \in Nat /\ Count >= 2 /\ words[1] = <<Letter>> /\ words \in Seq(Seq(Classes))
      /\ Count = Len(words)
  BY DEF Arguments, Count
<1>2. Plain \subseteq Classes /\ Letter \in Classes /\ Space \in Plain /\ Double \in Classes
  BY DEF Plain, Classes, Letter, Space, Double
<1>3. sp \in Seq(Plain) /\ sp \in Seq(Classes) /\ Echo \in Seq(Classes)
  BY <1>2 DEF Echo
<1>4. \A i \in 1 .. Count : words[i] \in Seq(Classes) /\ Replaced(words[i]) \in Seq(Plain)
  BY <1>1, ElementOfSeq, PlainReplaced
<1>5. \A s \in Seq(Plain) : s \in Seq(Classes)
  BY <1>2, SeqMonotonic
<1>6. \A k \in 0 .. Count - 1 : Said(k + 1) = WithArgument(Said(k), k + 1)
  BY SaidGrows
<1>7. Said(0) = <<>>
  BY <1>1, FoldIndices DEF Said
<1>8. Said(1) = Echo
  <2>1. Said(1) = <<>> \o Replaced(<<Letter>>) \o <<Double>>
    <3>1. 0 \in 0 .. Count - 1 /\ 0 + 1 = 1
      BY <1>1
    <3>2. Said(1) = WithArgument(<<>>, 1)
      BY <1>6, <1>7, <3>1
    <3> QED
      BY <1>1, <3>2 DEF WithArgument
  <2>2. Replaced(<<Letter>>) = <<Letter>>
    <3>1. <<Letter>> \in Seq(Classes) /\ Len(<<Letter>>) = 1 /\ <<Letter>>[1] = Letter
      BY <1>2
    <3>2. /\ Replaced(<<Letter>>) \in Seq(Classes) /\ Len(Replaced(<<Letter>>)) = 1
          /\ Replaced(<<Letter>>)[1] = Letter
      BY <3>1, ReplacedProperties
    <3> QED
      BY <3>1, <3>2, SeqEqual
  <2>3. <<>> \o <<Letter>> = <<Letter>>
    BY <1>2, ConcatEmptySeq
  <2> QED
    BY <2>1, <2>2, <2>3 DEF Echo
<1>9. TextSoFar(2)
  <2>1. SubSeq(words, 3, 2) = <<>>
    BY SubSeqEmpty
  <2>2. EchoText(2) = Replaced(words[2])
    BY <2>1, FoldEmpty DEF EchoText
  <2>3. Said(2) = (Echo \o Replaced(words[2])) \o <<Space>>
    <3>1. Said(1 + 1) = WithArgument(Said(1), 1 + 1)
      BY <1>1, <1>6
    <3> QED
      BY <1>8, <3>1 DEF WithArgument
  <2>4. EchoText(2) \in Seq(Plain) /\ EchoText(2) \in Seq(Classes)
    BY <1>1, <1>4, <1>5, <2>2, SMTT(30)
  <2>5. (Echo \o EchoText(2)) \o sp = Echo \o (EchoText(2) \o sp)
    <3> HIDE DEF sp
    <3> QED
      BY <1>3, <2>4, ConcatAssociative, SMTT(30)
  <2> QED
    BY <2>2, <2>3, <2>4, <2>5 DEF TextSoFar
<1>10. ASSUME NEW k \in 2 .. Count - 1, TextSoFar(k)
       PROVE  TextSoFar(k + 1)
  <2> DEFINE i == k + 1
             w == words[i]
             r == Replaced(w)
             some == SubSeq(words, 3, k)
             tx == EchoText(k)
             more == (tx \o sp) \o r
  <2>1. i \in 1 .. Count /\ k \in 0 .. Count - 1 /\ k \in Nat /\ i # 1
    BY <1>1
  <2>2. w \in Seq(Classes) /\ r \in Seq(Plain) /\ r \in Seq(Classes)
    BY <1>4, <1>5, <2>1
  <2>3. tx \in Seq(Plain) /\ tx \in Seq(Classes) /\ Said(k) = Echo \o (tx \o sp)
    BY <1>5, <1>10 DEF TextSoFar
  <2>4. SubSeq(words, 3, i) = Append(some, w)
    <3>1. 3 \in 1 .. Len(words) /\ i \in 3 .. Len(words)
      BY <1>1, <2>1
    <3>2. SubSeq(words, 3, i) = SubSeq(words, 3, i - 1) \o <<words[i]>>
      BY <1>1, <3>1, SubSeqRecursiveSecond
    <3>3. some \in Seq(Seq(Classes))
      BY <1>1, <1>4, SubSeqProperties
    <3>4. Append(some, w) = some \o <<w>>
      <4> HIDE DEF some, w
      <4> QED
        BY <2>2, <3>3, AppendIsConcat
    <3>5. i - 1 = k
      BY <2>1
    <3> QED
      BY <3>2, <3>4, <3>5
  <2>5. some \in Seq(Seq(Classes))
    BY <1>1, <1>4, SubSeqProperties
  <2>6. EchoText(i) = AddText[tx][w]
    <3> DEFINE base == Replaced(words[2])
    <3> HIDE DEF some, w, base
    <3>1. Fold(AddText, base, Append(some, w)) = AddText[Fold(AddText, base, some)][w]
      BY <2>2, <2>5, FoldAppend
    <3> QED
      BY <2>4, <3>1 DEF EchoText, some, base
  <2>7. EchoText(i) = more
    <3> HIDE DEF tx, w
    <3> QED
      BY <2>2, <2>3, <2>6 DEF AddText
  <2>8. Said(i) = (Said(k) \o r) \o sp
    BY <1>6, <2>1 DEF WithArgument
  <2> HIDE DEF tx, r, sp
  <2>9. /\ more \in Seq(Plain) /\ tx \o sp \in Seq(Classes)
        /\ (tx \o sp) \o r \in Seq(Classes)
    BY <1>3, <2>2, <2>3, ConcatProperties
  <2>10. ((Echo \o (tx \o sp)) \o r) \o sp = Echo \o (more \o sp)
    <3> DEFINE x == tx \o sp
    <3>1. x \in Seq(Classes) /\ Echo \in Seq(Classes) /\ r \in Seq(Classes) /\ sp \in Seq(Classes)
      BY <1>3, <2>2, <2>9 DEF sp
    <3> HIDE DEF x
    <3>2. (Echo \o x) \o r = Echo \o (x \o r)
      BY <3>1, ConcatAssociative, SMTT(30)
    <3> DEFINE y == x \o r
    <3>3. y \in Seq(Classes) /\ sp \in Seq(Classes) /\ Echo \in Seq(Classes)
      BY <3>1, ConcatProperties
    <3> HIDE DEF y
    <3>4. (Echo \o y) \o sp = Echo \o (y \o sp)
      BY <3>3, ConcatAssociative, SMTT(30)
    <3> QED
      BY <3>2, <3>4 DEF x, y
  <2> QED
    BY <2>3, <2>7, <2>8, <2>9, <2>10 DEF TextSoFar, sp
<1>11. Nat \subseteq T
  <2>1. 0 \in T
    OBVIOUS
  <2>2. ASSUME NEW k \in Nat, k \in T
        PROVE  k + 1 \in T
    BY <1>1, <1>9, <1>10, <2>2
  <2> HIDE DEF T
  <2> QED
    BY <2>1, <2>2, NatSet
<1> QED
  BY <1>1, <1>11

(* Without its last element, a sequence with one more is what it was.      *)
LEMMA FrontOfMore ==
    ASSUME NEW X, NEW s \in Seq(X), NEW e \in X
    PROVE  Front(s \o <<e>>) = s
<1> DEFINE more == s \o <<e>>
           n == Len(s)
<1>1. more \in Seq(X) /\ Len(more) = n + 1 /\ n \in Nat /\ \A i \in 1 .. n : more[i] = s[i]
  BY AppendIsConcat, AppendProperties, LenProperties
<1> HIDE DEF more
<1>2. Front(more) = SubSeq(more, 1, n)
  <2>1. Len(more) - 1 = n
    BY <1>1
  <2> QED
    BY <2>1 DEF Front
<1>3. /\ SubSeq(more, 1, n) \in Seq(X) /\ Len(SubSeq(more, 1, n)) = n
      /\ \A i \in 1 .. n : SubSeq(more, 1, n)[i] = more[i]
  <2>1. \A i \in 1 .. n : more[i] \in X
    BY <1>1, ElementOfSeq
  <2> HIDE DEF n
  <2> QED
    BY <1>1, <2>1, SubSeqProperties
<1> DEFINE u == SubSeq(more, 1, n)
<1> HIDE DEF u
<1>4. u = s
  BY <1>1, <1>3, SeqEqual DEF u
<1> QED
  BY <1>2, <1>4 DEF more, u

(* "echo" gets one argument, with DEL behind it.                           *)
LEMMA EchoArrives ==
    ASSUME Arguments, mode = "echo"
    PROVE  Tokens(Stringify) = <<words[1], Append(OneArgument, Del)>>
<1> DEFINE tx == EchoText(Count)
           arg == tx \o <<Del>>
           ws == <<<<Letter>>>>
           t == State(TRUE, arg, ws)
<1>1. Count \in Nat /\ words[1] = <<Letter>>
  BY DEF Arguments
<1>2. /\ Plain \subseteq Classes /\ Letter \in Classes /\ Double \in Classes
      /\ Space \in Classes /\ Del \in Classes /\ Del # Double /\ Letter # Double
      /\ Letter # Space /\ Letter # Single
  BY DEF Plain, Classes, Letter, Space, Single, Double, Del
<1>3. tx \in Seq(Plain) /\ tx \in Seq(Classes) /\ Said(Count) = Echo \o (tx \o <<Space>>)
  <2>1. TextSoFar(Count)
    BY TextGrows
  <2> QED
    BY <1>2, <2>1, SeqMonotonic DEF TextSoFar
<1>4. OneArgument = tx
  BY DEF OneArgument, EchoText
<1>5. <<Letter>> \in Seq(Classes) /\ <<Double>> \in Seq(Classes) /\ Echo \in Seq(Classes)
  BY <1>2 DEF Echo
<1> HIDE DEF tx
<1>6. arg \in Seq(Classes) /\ arg = Append(tx, Del) /\ \A i \in 1 .. Len(arg) : arg[i] # Double
  <2>1. Del \in Plain
    BY <1>2 DEF Plain
  <2>2. arg \in Seq(Plain) /\ arg = Append(tx, Del)
    BY <1>3, <2>1, AppendIsConcat, AppendProperties
  <2> HIDE DEF arg
  <2>3. \A i \in 1 .. Len(arg) : arg[i] \in Plain
    BY <2>2, ElementOfSeq
  <2> QED
    BY <1>2, <2>2, <2>3, SeqMonotonic DEF Plain
<1>7. Stringify = Echo \o arg
  <2> DEFINE both == Echo \o tx
  <2>1. both \in Seq(Classes)
    BY <1>3, <1>5, ConcatProperties
  <2>2. Said(Count) = both \o <<Space>> /\ both \o <<Del>> = Echo \o arg
    <3> DEFINE sp == <<Space>>
               de == <<Del>>
    <3>1. /\ sp \in Seq(Classes) /\ de \in Seq(Classes)
          /\ tx \in Seq(Classes) /\ Echo \in Seq(Classes)
      BY <1>2, <1>3, <1>5
    <3> HIDE DEF sp, de
    <3>2. (Echo \o tx) \o sp = Echo \o (tx \o sp)
      BY <3>1, ConcatAssociative, SMTT(30)
    <3>3. (Echo \o tx) \o de = Echo \o (tx \o de)
      BY <3>1, ConcatAssociative, SMTT(30)
    <3> QED
      BY <1>3, <3>2, <3>3 DEF sp, de
  <2> HIDE DEF both
  <2>3. Front(both \o <<Space>>) = both
    BY <1>2, <2>1, FrontOfMore
  <2>4. Append(both, Del) = both \o <<Del>>
    BY <1>2, <2>1, AppendIsConcat
  <2>5. Stringify = Append(Front(Said(Count)), Del)
    BY <1>1, FoldIndices DEF Stringify, Said
  <2> QED
    BY <2>2, <2>3, <2>4, <2>5
<1>8. Read(Echo) = State(TRUE, <<>>, ws)
  <2> DEFINE u == State(FALSE, <<Letter>>, <<>>)
  <2>1. Fold(ReadChar, Start, <<Letter>>) = u /\ u \in TokenState
    <3>1. <<>> \in Seq(Seq(Classes)) /\ \A i \in 1 .. Len(<<Letter>>) : <<Letter>>[i] = Letter
      BY <1>5, EmptySeq
    <3> DEFINE w == <<Letter>>
               none == <<>>
    <3>2. none \in Seq(Seq(Classes)) /\ w \in Seq(Classes) /\ \A i \in 1 .. Len(w) : w[i] = Letter
      BY <1>5, <3>1
    <3> HIDE DEF w, none
    <3>3. /\ Fold(ReadChar, State(FALSE, <<>>, none), w) = State(FALSE, w, none)
          /\ State(FALSE, w, none) \in TokenState
      BY <3>2, WordFromHere
    <3> QED
      BY <3>3 DEF Start, w, none
  <2>2. u.open = FALSE /\ Flushed(u) = ws
    <3>1. u.open = FALSE /\ u.word = <<Letter>> /\ u.words = <<>>
      BY DEF State
    <3>2. Append(<<>>, <<Letter>>) = ws /\ <<Letter>> # <<>>
      OBVIOUS
    <3> HIDE DEF u, ws
    <3> QED
      BY <3>1, <3>2 DEF Flushed
  <2> HIDE DEF u
  <2>3. Fold(ReadChar, u, <<Double>>) = ReadChar[u][Double]
    BY <1>2, FoldOne
  <2>4. ReadChar[u][Double] = State(TRUE, <<>>, Flushed(u))
    BY <2>1, <2>2, QuoteChar
  <2>5. Read(Echo) = Fold(ReadChar, Fold(ReadChar, Start, <<Letter>>), <<Double>>)
    <3> DEFINE l == <<Letter>>
               d == <<Double>>
    <3>1. l \in Seq(Classes) /\ d \in Seq(Classes)
      BY <1>5
    <3> HIDE DEF l, d
    <3>2. Fold(ReadChar, Start, l \o d) = Fold(ReadChar, Fold(ReadChar, Start, l), d)
      BY <3>1, FoldThrough
    <3> QED
      BY <3>2 DEF l, d, Read, Echo
  <2> QED
    BY <2>1, <2>2, <2>3, <2>4, <2>5
<1>9. Read(Echo \o arg) = Fold(ReadChar, Read(Echo), arg)
  <2>1. Echo \in Seq(Classes) /\ arg \in Seq(Classes)
    BY <1>5, <1>6
  <2> HIDE DEF arg
  <2>2. Fold(ReadChar, Start, Echo \o arg) = Fold(ReadChar, Fold(ReadChar, Start, Echo), arg)
    BY <2>1, FoldThrough
  <2> QED
    BY <2>2 DEF Read
<1>10. ws \in Seq(Seq(Classes))
  BY <1>5
<1>11. Fold(ReadChar, State(TRUE, <<>>, ws), arg) = t
  <2> HIDE DEF arg, ws
  <2> QED
    BY <1>6, <1>10, WordFromHere
<1>12. Tokens(Echo \o arg) = IF t.open THEN Append(t.words, t.word) ELSE Flushed(t)
  <2> HIDE DEF t, arg
  <2>1. Fold(ReadChar, State(FALSE, <<>>, <<>>), Echo \o arg) = t
    BY <1>8, <1>9, <1>11 DEF Read, Start
  <2> QED
    BY <2>1 DEF Tokens
<1>13. t.open /\ Append(t.words, t.word) = Append(ws, arg)
  <2>1. t.open = TRUE /\ t.word = arg /\ t.words = ws
    <3> HIDE DEF arg, ws
    <3> QED
      BY DEF State
  <2> HIDE DEF t
  <2> QED
    BY <2>1
<1>14. Append(ws, arg) = <<<<Letter>>, arg>>
  <2> DEFINE d == <<Letter>>
  <2>1. d \in Seq(Classes) /\ arg \in Seq(Classes)
    BY <1>5, <1>6
  <2> HIDE DEF arg, d
  <2>2. /\ Append(<<d>>, arg) \in Seq(Seq(Classes)) /\ Len(Append(<<d>>, arg)) = 2
        /\ Append(<<d>>, arg)[1] = d /\ Append(<<d>>, arg)[2] = arg
    BY <2>1
  <2>3. /\ <<d, arg>> \in Seq(Seq(Classes)) /\ Len(<<d, arg>>) = 2
        /\ <<d, arg>>[1] = d /\ <<d, arg>>[2] = arg
    BY <2>1
  <2> DEFINE u == Append(<<d>>, arg)
             v == <<d, arg>>
  <2>4. /\ u \in Seq(Seq(Classes)) /\ v \in Seq(Seq(Classes)) /\ Len(u) = 2 /\ Len(v) = 2
        /\ u[1] = v[1] /\ u[2] = v[2]
    BY <2>2, <2>3
  <2> HIDE DEF u, v
  <2>5. \A i \in 1 .. Len(u) : u[i] = v[i]
    BY <2>4
  <2>6. u = v
    BY <2>4, <2>5, SeqEqual
  <2> QED
    BY <2>6 DEF d, u, v
<1> HIDE DEF t
<1> QED
  BY <1>1, <1>4, <1>6, <1>7, <1>12, <1>13, <1>14

(* What cmd_get_outsize() counts is what cmd_stringify() writes, for words *)
(* of any number, length and characters: the room reserved is the room     *)
(* used, as cmd() asserts.                                                 *)
THEOREM SizeAgreesTheorem == CmdSpec => []SizeAgrees
<1>1. Arguments /\ [FALSE]_cmdVars => Arguments'
  BY DEF Arguments, cmdVars, Count
<1> QED
  BY <1>1, ArgumentsGiven, SizesAgree, PTL DEF CmdSpec

LEMMA WordsOfArguments == Arguments => WordsArrive
<1> SUFFICES ASSUME Arguments
             PROVE  WordsArrive
  OBVIOUS
<1>1. ASSUME mode = "default", \A i \in 1 .. Count : Has(words[i], {Double}) => Quoted(words[i])
      PROVE  Tokens(Stringify) = [i \in 1 .. Count |-> Replaced(words[i])]
  BY <1>1, OrdinaryArrives DEF Given
<1>2. ASSUME mode = "echo"
      PROVE  Tokens(Stringify) = <<words[1], Append(OneArgument, Del)>>
  BY <1>2, EchoArrives
<1> QED
  BY <1>1, <1>2 DEF WordsArrive

(* The game reads from the line the words that were given to cmd(), but    *)
(* for the replaced characters, or for "echo" one argument.                *)
THEOREM WordsArriveTheorem == CmdSpec => []WordsArrive
<1>1. Arguments /\ [FALSE]_cmdVars => Arguments'
  BY DEF Arguments, cmdVars, Count
<1> QED
  BY <1>1, ArgumentsGiven, WordsOfArguments, PTL DEF CmdSpec
=============================================================================
