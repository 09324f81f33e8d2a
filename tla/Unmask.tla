------------------------------- MODULE Unmask -------------------------------
(***************************************************************************)
(* How main.c lets scripts notice that the game executes one of its own    *)
(* configs.  A config in the notify list is masked: cfgfs pretends to have *)
(* it.  If the game reads it, Lua hears of it and the reply tells the game *)
(* to execute cfgfs/unmask_next/<name> and then the config again: cfgfs    *)
(* now denies having it for as many lookups as the game makes, and the     *)
(* game finds the real file.  Reads by other programs are told from the    *)
(* game's by the number of open() calls before them.                       *)
(*                                                                         *)
(* The counters have no lock.  Calls of the game and of another program    *)
(* come in any order here, but the code that uses the counters runs to its *)
(* end: two such pieces of code at the same instant are a data race that   *)
(* is left out.  The notify list has a lock, which the first look at it    *)
(* does not take.                                                          *)
(***************************************************************************)
EXTENDS Naturals, Sequences

CONSTANTS
    Configs,   \* names of configs outside /cfgfs
    Exists,    \* those the game finds elsewhere in its search path
    Blocked,   \* cfgfs.block_cfgs
    Lists,     \* the notify lists a reload may set
    None,      \* no config
    Game,      \* the game executing configs
    Other,     \* another program, or the game reading a file by itself
    NUM_OPEN_CALLS_TO_READ_A_CONFIG,
    UNMASK_IGNORE_CNT,
    MaxExecs,  \* bound on the configs executed
    MaxReads,  \* bound on the reads by Other
    MaxLists   \* bound on the changes of the notify list

ASSUME UnmaskAssumption ==
    /\ Exists \subseteq Configs /\ Blocked \subseteq Configs
    /\ Lists \subseteq SUBSET Configs
    /\ None \notin Configs /\ Game # Other
    /\ NUM_OPEN_CALLS_TO_READ_A_CONFIG \in Nat \ {0}
    /\ UNMASK_IGNORE_CNT \in Nat \ {0}
    /\ MaxExecs \in Nat /\ MaxReads \in Nat /\ MaxLists \in Nat

(* On Linux the game looks for a config as often as it opens one, main.c   *)
(* has the same number for both, and it is more than the one open() of     *)
(* other programs.                                                         *)
ASSUME CountsAssumption ==
    /\ UNMASK_IGNORE_CNT = NUM_OPEN_CALLS_TO_READ_A_CONFIG
    /\ NUM_OPEN_CALLS_TO_READ_A_CONFIG > 1

VARIABLES
    notify_list,           \* {} stands for the NULL pointer
    last_config_name,
    last_config_open_cnt,
    unmask_cnt,
    call,     \* per caller: the file operation in progress
    cmds,     \* what the game has still to execute of the last reply
    exec,     \* the config being executed, and what came of it so far
    dead,     \* the program crashed
    wrong,    \* history: executions that went wrong
    lost,     \* history: replies read by another program
    faults,   \* history: calls and list changes in the middle of an execution
    count     \* how much of each bound is used

counters == <<last_config_name, last_config_open_cnt, unmask_cnt>>
vars == <<notify_list, counters, call, cmds, exec, dead, wrong, lost, faults, count>>

Actors == {Game, Other}

(* More notices of one execution than this are not told apart. *)
MaxSeen == 2

Idle == [pc |-> "idle", cfg |-> None, open |-> FALSE, tries |-> 0]

NoExec == [cfg |-> None, masked |-> FALSE, torn |-> FALSE, unread |-> FALSE,
           noticed |-> 0, ran |-> 0]

Init ==
    /\ notify_list = {}
    /\ last_config_name = None
    /\ last_config_open_cnt = 0 /\ unmask_cnt = 0
    /\ call = [a \in Actors |-> Idle]
    /\ cmds = <<>>
    /\ exec = NoExec
    /\ dead = FALSE
    /\ wrong = 0 /\ lost = 0 /\ faults = 0
    /\ count = [execs |-> 0, reads |-> 0, lists |-> 0]

-----------------------------------------------------------------------------
(* The game looks for a config as often as it opens one, in each of the    *)
(* directories it knows; another program once.                             *)
Opens(a) == IF a = Game THEN NUM_OPEN_CALLS_TO_READ_A_CONFIG ELSE 1

Seen(n) == IF n = MaxSeen THEN n ELSE n + 1

Executing == exec # NoExec

Masked(c, list) == list = {} \/ c \in list

(* A step of Other in the middle of an execution. *)
CountFault(a) ==
    faults' = IF a = Other /\ Executing THEN faults + 1 ELSE faults

Start(a, c) == call' = [call EXCEPT ![a] = [Idle EXCEPT !.pc = "lookup", !.cfg = c]]

(* The lookup of getattr() is followed by open(), and that by the read or  *)
(* the next try.                                                           *)
Found(a) ==
    LET k == call[a]
        next == IF k.open /\ k.tries + 1 = Opens(a) THEN "read" ELSE "lookup"
    IN /\ call' = [call EXCEPT ![a].pc = next,
                              ![a].open = ~k.open,
                              ![a].tries = IF k.open THEN k.tries + 1 ELSE k.tries]
       /\ UNCHANGED exec

(* The game goes on to the directory that has the file, and runs it if     *)
(* that was the last try; without such a file it gives up at once.         *)
NotFound(a) ==
    LET k == call[a]
        last == k.cfg \notin Exists \/ k.tries + 1 = Opens(a)
        next == [pc |-> "lookup", cfg |-> k.cfg, open |-> FALSE, tries |-> k.tries + 1]
    IN /\ call' = [call EXCEPT ![a] = IF last THEN Idle ELSE next]
       /\ exec' = IF a = Game /\ last /\ k.cfg \in Exists
                  THEN [exec EXCEPT !.ran = Seen(@)]
                  ELSE exec

-----------------------------------------------------------------------------
(* lookup_ordinary_path(): the look at the list outside its lock, ...      *)
LookAtList(a) ==
    /\ call[a].pc = "lookup"
    /\ call' = [call EXCEPT ![a].pc = IF notify_list = {} THEN "unlisted" ELSE "listed"]
    /\ UNCHANGED <<notify_list, counters, cmds, exec, dead, wrong, lost, faults, count>>

(* ... which is searched under it, though it may be gone by now, ...       *)
SearchNull(a) ==
    /\ call[a].pc = "listed" /\ notify_list = {}
    /\ dead' = TRUE
    /\ UNCHANGED <<notify_list, counters, call, cmds, exec, wrong, lost, faults, count>>

NotListed(a) ==
    /\ call[a].pc = "listed" /\ notify_list # {} /\ call[a].cfg \notin notify_list
    /\ NotFound(a)
    /\ UNCHANGED <<notify_list, counters, cmds, dead, wrong, lost, faults, count>>

(* Mutant of Lookup: another config inherits the count of the last one. *)
LookupInherit(a) ==
    LET k == call[a]
        known == k.cfg = last_config_name
    IN /\ \/ k.pc = "unlisted"
          \/ k.pc = "listed" /\ k.cfg \in notify_list
       /\ \/ /\ unmask_cnt = 0
             /\ last_config_open_cnt' = (IF known THEN last_config_open_cnt ELSE 0)
                                        + (IF k.open THEN 1 ELSE 0)
             /\ last_config_name' = k.cfg
             /\ UNCHANGED unmask_cnt
             /\ Found(a)
          \/ /\ unmask_cnt > 0
             /\ unmask_cnt' = unmask_cnt - 1
             /\ UNCHANGED <<last_config_name, last_config_open_cnt>>
             /\ NotFound(a)
       /\ CountFault(a)
       /\ UNCHANGED <<notify_list, cmds, dead, wrong, lost, count>>

(* ... and what the counters say of a config that is masked.               *)
Lookup(a) ==
    LET k == call[a]
        known == k.cfg = last_config_name
    IN /\ \/ k.pc = "unlisted"
          \/ k.pc = "listed" /\ k.cfg \in notify_list
       /\ \/ /\ known /\ unmask_cnt = 0
             /\ last_config_open_cnt' = last_config_open_cnt + (IF k.open THEN 1 ELSE 0)
             /\ UNCHANGED <<last_config_name, unmask_cnt>>
             /\ Found(a)
          \/ /\ known /\ unmask_cnt > 0
             /\ unmask_cnt' = unmask_cnt - 1
             /\ UNCHANGED <<last_config_name, last_config_open_cnt>>
             /\ NotFound(a)
          \/ /\ ~known
             /\ last_config_name' = k.cfg
             /\ last_config_open_cnt' = IF k.open THEN 1 ELSE 0
             /\ unmask_cnt' = 0
             /\ Found(a)
       /\ CountFault(a)
       /\ UNCHANGED <<notify_list, cmds, dead, wrong, lost, count>>

(* cfgfs_read() of a config that was not opened often enough: it is empty. *)
ReadIgnored(a) ==
    /\ call[a].pc = "read"
    /\ last_config_open_cnt < NUM_OPEN_CALLS_TO_READ_A_CONFIG
    /\ last_config_open_cnt' = 0
    /\ call' = [call EXCEPT ![a] = Idle]
    /\ CountFault(a)
    /\ UNCHANGED <<notify_list, last_config_name, unmask_cnt, cmds, exec, dead, wrong, lost,
                   count>>

(* The last lines of _get_contents(). *)
Reply(c) == IF c \in Blocked THEN <<>> ELSE <<"unmask", "exec">>

(* Mutant of ReadContents: the opens are not forgotten. *)
ReadContentsKeep(a) ==
    /\ call[a].pc = "read"
    /\ last_config_open_cnt >= NUM_OPEN_CALLS_TO_READ_A_CONFIG
    /\ call' = [call EXCEPT ![a] = Idle]
    /\ IF a = Game
       THEN /\ exec' = [exec EXCEPT !.noticed = Seen(@)]
            /\ cmds' = Reply(call[a].cfg) \o cmds
            /\ UNCHANGED lost
       ELSE lost' = lost + 1 /\ UNCHANGED <<exec, cmds>>
    /\ CountFault(a)
    /\ UNCHANGED <<notify_list, counters, dead, wrong, count>>

(* cfgfs_read() of a config the game executes: Lua notices and writes the  *)
(* reply.  It is lost if the reader is not the game.                       *)
ReadContents(a) ==
    /\ call[a].pc = "read"
    /\ last_config_open_cnt >= NUM_OPEN_CALLS_TO_READ_A_CONFIG
    /\ last_config_open_cnt' = 0
    /\ call' = [call EXCEPT ![a] = Idle]
    /\ IF a = Game
       THEN /\ exec' = [exec EXCEPT !.noticed = Seen(@)]
            /\ cmds' = Reply(call[a].cfg) \o cmds
            /\ UNCHANGED lost
       ELSE lost' = lost + 1 /\ UNCHANGED <<exec, cmds>>
    /\ CountFault(a)
    /\ UNCHANGED <<notify_list, last_config_name, unmask_cnt, dead, wrong, count>>

(* cfgfs_read() of such a config when Lua is busy for longer than the read *)
(* waits for it: the opens are forgotten, but Lua does not notice and      *)
(* there is no reply.                                                      *)
ReadFailed(a) ==
    /\ call[a].pc = "read"
    /\ last_config_open_cnt >= NUM_OPEN_CALLS_TO_READ_A_CONFIG
    /\ last_config_open_cnt' = 0
    /\ call' = [call EXCEPT ![a] = Idle]
    /\ exec' = IF a = Game THEN [exec EXCEPT !.unread = TRUE] ELSE exec
    /\ CountFault(a)
    /\ UNCHANGED <<notify_list, last_config_name, unmask_cnt, cmds, dead, wrong, lost, count>>

(* Mutant of ReadUnmaskNext: the config stays masked. *)
ReadUnmaskNextForget ==
    /\ call[Game] = Idle /\ cmds # <<>> /\ Head(cmds) = "unmask"
    /\ cmds' = Tail(cmds)
    /\ last_config_name' = exec.cfg
    /\ UNCHANGED <<notify_list, last_config_open_cnt, unmask_cnt, call, exec, dead, wrong, lost,
                   faults, count>>

(* cfgfs_read() of cfgfs/unmask_next/<name>, executed by the game. *)
ReadUnmaskNext ==
    /\ call[Game] = Idle /\ cmds # <<>> /\ Head(cmds) = "unmask"
    /\ cmds' = Tail(cmds)
    /\ last_config_name' = exec.cfg
    /\ unmask_cnt' = UNMASK_IGNORE_CNT
    /\ UNCHANGED <<notify_list, last_config_open_cnt, call, exec, dead, wrong, lost, faults,
                   count>>

-----------------------------------------------------------------------------
(* l_notify_list_set(): a reload sets the list, while the game runs. *)
NotifyListSet(list) ==
    /\ count.lists < MaxLists
    /\ count' = [count EXCEPT !.lists = @ + 1]
    /\ notify_list' = list
    /\ LET tears == Executing /\ Masked(exec.cfg, list) # Masked(exec.cfg, notify_list)
       IN /\ exec' = [exec EXCEPT !.torn = @ \/ tears]
          /\ faults' = IF tears THEN faults + 1 ELSE faults
    /\ UNCHANGED <<counters, call, cmds, dead, wrong, lost>>

(* The game starts to execute a config, ... *)
Exec(c) ==
    /\ ~Executing /\ count.execs < MaxExecs
    /\ count' = [count EXCEPT !.execs = @ + 1]
    /\ exec' = [NoExec EXCEPT !.cfg = c, !.masked = Masked(c, notify_list)]
    /\ Start(Game, c)
    /\ UNCHANGED <<notify_list, counters, cmds, dead, wrong, lost, faults>>

(* ... executes it again because the reply says so, ... *)
ExecAgain ==
    /\ call[Game] = Idle /\ cmds # <<>> /\ Head(cmds) = "exec"
    /\ cmds' = Tail(cmds)
    /\ Start(Game, exec.cfg)
    /\ UNCHANGED <<notify_list, counters, exec, dead, wrong, lost, faults, count>>

(* What executing an existing config should come to: a masked one is       *)
(* noticed once, and the file runs once unless it is blocked.              *)
AsIntended ==
    IF exec.masked
    THEN exec.noticed = 1 /\ exec.ran = (IF exec.cfg \in Blocked THEN 0 ELSE 1)
    ELSE exec.noticed = 0 /\ exec.ran = 1

(* ... and is done with it. *)
ExecDone ==
    /\ Executing /\ call[Game] = Idle /\ cmds = <<>>
    /\ exec' = NoExec
    /\ wrong' = IF exec.cfg \in Exists /\ ~exec.torn /\ ~exec.unread /\ ~AsIntended
                THEN wrong + 1 ELSE wrong
    /\ UNCHANGED <<notify_list, counters, call, cmds, dead, lost, faults, count>>

(* Another program reads a config: one getattr(), open() and read(). *)
ManualRead(c) ==
    /\ call[Other] = Idle /\ count.reads < MaxReads
    /\ count' = [count EXCEPT !.reads = @ + 1]
    /\ Start(Other, c)
    /\ UNCHANGED <<notify_list, counters, cmds, exec, dead, wrong, lost, faults>>

Handle(a) ==
    \/ LookAtList(a) \/ SearchNull(a) \/ NotListed(a) \/ Lookup(a)
    \/ ReadIgnored(a) \/ ReadContents(a) \/ ReadFailed(a)

GameStep == ~dead /\ (Handle(Game) \/ ReadUnmaskNext \/ ExecAgain \/ ExecDone)

Next ==
    /\ ~dead
    /\ \/ \E a \in Actors : Handle(a)
       \/ ReadUnmaskNext \/ ExecAgain \/ ExecDone
       \/ \E c \in Configs : Exec(c) \/ ManualRead(c)
       \/ \E list \in Lists : NotifyListSet(list)

Spec == Init /\ [][Next]_vars

(* The game goes on executing what it has been given. *)
FairSpec == Spec /\ WF_vars(GameStep)

-----------------------------------------------------------------------------
(* An execution of a config the game has comes out wrong (not noticed,     *)
(* noticed twice, its file not run or run twice) at most once for every    *)
(* call or change of the list that came in the middle of an execution,     *)
(* apart from one whose own read found Lua busy or whose own list changed. *)
(* Whatever counts such a step leaves over do harm once and are gone, a    *)
(* failed read leaves none, and without such steps the protocol is exact.  *)
(* Configs that exist nowhere leave counts over as well, which never harm  *)
(* the others (lookup_ordinary_path(), cfgfs_read()).                      *)
HarmBounded == wrong <= faults

(* Another program that reads a config while the game executes none gets   *)
(* no reply, so that what is in the buffers stays there for the game; it   *)
(* takes a step in the middle of an execution to lose one (cfgfs_read()).  *)
RepliesKept == lost <= faults

(* The game never executes a config for ever: the masked config does not   *)
(* answer its own reply again and again (unmask_cnt).                      *)
ExecEnds == Executing ~> (~Executing \/ dead)
=============================================================================
