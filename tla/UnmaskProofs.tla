---------------------------- MODULE UnmaskProofs ----------------------------
(***************************************************************************)
(* The counters that tell the game's execution of a config from other      *)
(* reads recover from whatever comes in the middle of one, proved for any  *)
(* number of configs, executions, other reads and changes of the list.     *)
(***************************************************************************)
EXTENDS Unmask, TLAPS

N == NUM_OPEN_CALLS_TO_READ_A_CONFIG

Commands == {<<>>, <<"exec">>, <<"unmask", "exec">>}
Call == [pc : {"idle", "lookup", "listed", "unlisted", "read"}, cfg : Configs \cup {None},
         open : BOOLEAN, tries : Nat]
Execution == [cfg : Configs \cup {None}, masked : BOOLEAN, torn : BOOLEAN, unread : BOOLEAN,
              noticed : Nat, ran : Nat]

TypeOK ==
    /\ notify_list \in SUBSET Configs /\ last_config_name \in Configs \cup {None}
    /\ last_config_open_cnt \in Nat /\ unmask_cnt \in 0 .. N
    /\ call \in [Actors -> Call] /\ cmds \in Commands /\ exec \in Execution
    /\ wrong \in Nat /\ lost \in Nat /\ faults \in Nat

(* A file operation looks for its config a limited number of times, and    *)
(* reads it after the last.                                                *)
Calls ==
    \A a \in Actors :
        IF call[a].pc = "idle" THEN call[a] = Idle
        ELSE /\ call[a].cfg \in Configs
             /\ IF call[a].pc = "read" THEN ~call[a].open /\ call[a].tries = Opens(a)
                                      ELSE call[a].tries < Opens(a)

(* The game makes its calls for the config it executes, and has nothing    *)
(* else to execute meanwhile.                                              *)
GameCalls ==
    /\ Executing => exec.cfg \in Configs
    /\ ~Executing => call[Game] = Idle /\ cmds = <<>>
    /\ call[Game].pc # "idle" => call[Game].cfg = exec.cfg /\ cmds = <<>>

(* What is masked stays so in an execution that is not torn.               *)
NotTorn == Executing /\ ~exec.torn
MaskedKept == NotTorn => exec.masked = Masked(exec.cfg, notify_list)

(* Executing a masked config of the game uses the unmasking up, whatever   *)
(* comes in between ...                                                    *)
UsedUp ==
    NotTorn /\ exec.masked /\ exec.cfg \in Exists =>
        IF call[Game].pc = "idle" THEN cmds = <<>> => unmask_cnt = 0
        ELSE IF call[Game].open \/ call[Game].pc = "read" THEN unmask_cnt = 0
        ELSE unmask_cnt + call[Game].tries <= N

(* ... and cfgfs has no part in executing one that is not masked.          *)
Plain ==
    NotTorn /\ ~exec.masked =>
        /\ exec.noticed = 0 /\ cmds = <<>>
        /\ IF call[Game].pc = "idle" THEN exec.cfg \in Exists => exec.ran = 1
           ELSE call[Game].pc \in {"lookup", "listed"} /\ ~call[Game].open /\ exec.ran = 0

(* The stages of an execution as it is intended: the game looks for the    *)
(* config and opens it, ...                                                *)
Opening ==
    /\ exec.noticed = 0 /\ exec.ran = 0 /\ call[Game].pc # "idle"
    /\ last_config_name = exec.cfg \/ (call[Game].tries = 0 /\ ~call[Game].open)
    /\ last_config_name = exec.cfg => unmask_cnt = 0
    /\ last_config_open_cnt >= call[Game].tries
    /\ call[Game].pc = "read" => last_config_open_cnt >= N

(* ... is told to execute it again, ...                                    *)
Told ==
    /\ exec.noticed = 1 /\ exec.ran = 0 /\ exec.cfg \notin Blocked
    /\ call[Game].pc = "idle" /\ cmds = <<"unmask", "exec">>
    /\ last_config_name = exec.cfg /\ unmask_cnt = 0

(* ... does not find it in cfgfs, ...                                      *)
Unmasked ==
    /\ exec.noticed = 1 /\ exec.ran = 0 /\ exec.cfg \notin Blocked
    /\ last_config_name = exec.cfg
    /\ \/ call[Game].pc = "idle" /\ cmds = <<"exec">> /\ unmask_cnt = N
       \/ /\ call[Game].pc \notin {"idle", "read"} /\ ~call[Game].open
          /\ unmask_cnt + call[Game].tries = N

(* ... and runs the file.                                                  *)
Over ==
    /\ call[Game].pc = "idle" /\ cmds = <<>>
    /\ AsIntended /\ unmask_cnt = 0

(* A read that found Lua busy ends it early, and leaves as little.          *)
Unread ==
    /\ call[Game].pc = "idle" /\ cmds = <<>>
    /\ exec.unread /\ unmask_cnt = 0

OnTrack ==
    /\ ~exec.torn
    /\ unmask_cnt # 0 => last_config_name \notin Exists \/ (Executing /\ exec.masked /\ Unmasked)
    /\ Executing /\ exec.masked /\ exec.cfg \in Exists =>
          Opening \/ Told \/ Unmasked \/ Over \/ Unread

(* As long as every interruption has done its harm, all is as intended.    *)
HarmDone == wrong <= faults /\ (wrong = faults => OnTrack)

(* The opens that are counted are those of a read under way.               *)
OpensForgotten ==
    \/ last_config_open_cnt <= (IF call[Other].pc = "read" THEN 1 ELSE 0)
    \/ Executing /\ exec.masked /\ call[Game].pc # "idle" /\ unmask_cnt = 0

LossDone == lost <= faults /\ (lost = faults => ~exec.torn /\ OpensForgotten)

Shape == TypeOK /\ Calls /\ GameCalls /\ MaskedKept
Inductive == Shape /\ UsedUp /\ Plain /\ HarmDone /\ LossDone

-----------------------------------------------------------------------------
(* What Found and NotFound do to the call that looks *)
LEMMA FoundCall ==
    ASSUME Shape, NEW a \in Actors, call[a].pc \in {"lookup", "listed", "unlisted"}, Found(a)
    PROVE  /\ exec' = exec /\ call' \in [Actors -> Call]
           /\ \A b \in Actors : b # a => call'[b] = call[b]
           /\ call'[a].cfg = call[a].cfg /\ call'[a].open = ~call[a].open
           /\ call'[a].tries = IF call[a].open THEN call[a].tries + 1 ELSE call[a].tries
           /\ call'[a].pc = IF call[a].open /\ call[a].tries + 1 = Opens(a)
                            THEN "read" ELSE "lookup"
           /\ Calls'
<1>1. call[a] \in Call /\ call \in [Actors -> Call]
  BY DEF Shape, TypeOK
<1>2. PICK next \in {"read", "lookup"} :
        /\ next = IF call[a].open /\ call[a].tries + 1 = Opens(a) THEN "read" ELSE "lookup"
        /\ exec' = exec
        /\ call' = [call EXCEPT ![a].pc = next, ![a].open = ~call[a].open,
                       ![a].tries = IF call[a].open THEN call[a].tries + 1 ELSE call[a].tries]
  BY DEF Found
<1>3. /\ call' \in [Actors -> Call]
      /\ \A b \in Actors : b # a => call'[b] = call[b]
      /\ call'[a].cfg = call[a].cfg /\ call'[a].open = ~call[a].open
      /\ call'[a].tries = IF call[a].open THEN call[a].tries + 1 ELSE call[a].tries
      /\ call'[a].pc = next
  BY <1>1, <1>2 DEF Call
<1>4. Calls'
  <2>1. /\ call'[a].pc # "idle" /\ call'[a].cfg \in Configs
        /\ IF call'[a].pc = "read" THEN ~call'[a].open /\ call'[a].tries = Opens(a)
                                       ELSE call'[a].tries < Opens(a)
    <3>1. /\ call[a].tries \in Nat /\ Opens(a) \in Nat /\ call[a].tries < Opens(a)
          /\ call[a].cfg \in Configs /\ call[a].open \in BOOLEAN
      BY <1>1, UnmaskAssumption DEF Shape, Calls, Opens, Call
    <3>2. CASE call[a].open /\ call[a].tries + 1 = Opens(a)
      BY <1>2, <1>3, <3>1, <3>2
    <3>3. CASE call[a].open /\ call[a].tries + 1 # Opens(a)
      <4>1. next = "lookup" /\ call'[a].tries = call[a].tries + 1
        BY <1>2, <1>3, <3>3
      <4> QED
        BY <1>3, <3>1, <3>3, <4>1
    <3>4. CASE ~call[a].open
      <4>1. next = "lookup" /\ call'[a].tries = call[a].tries
        BY <1>2, <1>3, <3>4
      <4> QED
        BY <1>3, <3>1, <4>1
    <3> QED
      BY <3>2, <3>3, <3>4
  <2> QED
    BY <1>3, <2>1 DEF Shape, Calls
<1> QED
  BY <1>2, <1>3, <1>4

LEMMA NotFoundCall ==
    ASSUME Shape, NEW a \in Actors, call[a].pc \in {"lookup", "listed", "unlisted"}, NotFound(a)
    PROVE  /\ call' \in [Actors -> Call] /\ \A b \in Actors : b # a => call'[b] = call[b]
           /\ IF call[a].cfg \notin Exists \/ call[a].tries + 1 = Opens(a)
              THEN /\ call'[a] = Idle
                   /\ exec' = IF a = Game /\ call[a].cfg \in Exists
                              THEN [exec EXCEPT !.ran = Seen(exec.ran)] ELSE exec
              ELSE /\ exec' = exec
                   /\ call'[a].pc = "lookup" /\ ~call'[a].open /\ call'[a].cfg = call[a].cfg
                   /\ call'[a].tries = call[a].tries + 1
           /\ Calls'
<1>1. call[a] \in Call /\ call \in [Actors -> Call]
  BY DEF Shape, TypeOK
<1> DEFINE next == [pc |-> "lookup", cfg |-> call[a].cfg, open |-> FALSE,
                    tries |-> call[a].tries + 1]
<1>2. Idle \in Call
  BY DEF Call, Idle
<1>4. next \in Call
  BY <1>1 DEF Call
<1>5. call' = [call EXCEPT ![a] = IF call[a].cfg \notin Exists \/ call[a].tries + 1 = Opens(a)
                                  THEN Idle ELSE next]
  BY DEF NotFound
<1>6. Calls'
  <2>1. CASE call[a].cfg \notin Exists \/ call[a].tries + 1 = Opens(a)
    <3>1. call'[a] = Idle
      BY <1>1, <1>5, <2>1
    <3> QED
      BY <1>1, <1>5, <3>1 DEF Shape, Calls, Idle
  <2>2. CASE ~(call[a].cfg \notin Exists \/ call[a].tries + 1 = Opens(a))
    <3>1. /\ call[a].tries \in Nat /\ Opens(a) \in Nat /\ call[a].tries < Opens(a)
          /\ call[a].cfg \in Configs
      BY <1>1, UnmaskAssumption DEF Shape, Calls, Opens, Call
    <3>2. call'[a] = next
      BY <1>1, <1>5, <2>2
    <3>3. call'[a].pc = "lookup" /\ call'[a].cfg \in Configs /\ call'[a].tries < Opens(a)
      BY <2>2, <3>1, <3>2
    <3> QED
      BY <1>1, <1>5, <3>3 DEF Shape, Calls
  <2> QED
    BY <2>1, <2>2
<1> QED
  BY <1>1, <1>2, <1>4, <1>5, <1>6 DEF NotFound

-----------------------------------------------------------------------------
(* The look at the list moves a call on, whatever it sees.                 *)
LEMMA LookStep ==
    ASSUME Inductive, NEW a \in Actors, LookAtList(a)
    PROVE  Inductive'
<1> USE UnmaskAssumption, CountsAssumption DEF Actors, N
<1>1. /\ call' \in [Actors -> Call]
      /\ \A b \in Actors : b # a => call'[b] = call[b]
      /\ call[a].pc = "lookup"
      /\ call'[a].pc = IF notify_list = {} THEN "unlisted" ELSE "listed"
      /\ call'[a].cfg = call[a].cfg /\ call'[a].open = call[a].open
      /\ call'[a].tries = call[a].tries
  BY DEF Inductive, Shape, TypeOK, LookAtList, Call
<1>2. UNCHANGED <<notify_list, counters, cmds, exec, wrong, lost, faults>>
  BY DEF LookAtList
<1>3. Shape'
  BY <1>1, <1>2 DEF Inductive, Shape, TypeOK, Calls, GameCalls, MaskedKept, NotTorn, Executing,
                    counters, Opens, Masked, Idle
<1>4. UsedUp' /\ Plain'
  BY <1>1, <1>2 DEF Inductive, Shape, MaskedKept, GameCalls, UsedUp, Plain, NotTorn, Executing,
                    counters, Masked
<1>5. OnTrack => OnTrack'
  BY <1>1, <1>2 DEF OnTrack, Opening, Told, Unmasked, Over, Unread, AsIntended, Executing, counters
<1>6. OpensForgotten => OpensForgotten'
  BY <1>1, <1>2 DEF OpensForgotten, Executing, counters
<1> QED
  BY <1>2, <1>3, <1>4, <1>5, <1>6 DEF Inductive, HarmDone, LossDone

(* A crash and a stutter leave everything but the program itself.          *)
LEMMA NothingStep ==
    ASSUME Inductive,
           UNCHANGED <<notify_list, counters, call, cmds, exec, wrong, lost, faults>>
    PROVE  Inductive'
BY DEF Inductive, Shape, TypeOK, Calls, GameCalls, MaskedKept, UsedUp, Plain, NotTorn, HarmDone,
       OnTrack, Opening, Told, Unmasked, Over, Unread, AsIntended, LossDone, OpensForgotten,
       Executing, counters

(* A config that is not in the list is not cfgfs's business.               *)
LEMMA NotListedStep ==
    ASSUME Inductive, NEW a \in Actors, NotListed(a)
    PROVE  Inductive'
<1> USE UnmaskAssumption, CountsAssumption DEF Actors, N
<1>1. /\ Shape /\ call[a].pc = "listed" /\ NotFound(a)
      /\ UNCHANGED <<notify_list, counters, cmds, wrong, lost, faults>>
      /\ ~Masked(call[a].cfg, notify_list)
  BY DEF Inductive, NotListed, Masked
<1>2. /\ call' \in [Actors -> Call] /\ \A b \in Actors : b # a => call'[b] = call[b]
      /\ IF call[a].cfg \notin Exists \/ call[a].tries + 1 = Opens(a)
         THEN /\ call'[a] = Idle
              /\ exec' = IF a = Game /\ call[a].cfg \in Exists
                         THEN [exec EXCEPT !.ran = Seen(exec.ran)] ELSE exec
         ELSE /\ exec' = exec
              /\ call'[a].pc = "lookup" /\ ~call'[a].open /\ call'[a].cfg = call[a].cfg
              /\ call'[a].tries = call[a].tries + 1
      /\ Calls'
  BY <1>1, NotFoundCall
<1>3. CASE a = Other
  <2>1. /\ exec' = exec /\ call'[Game] = call[Game]
        /\ call[Other].pc # "read" /\ call'[Other].pc # "read"
    BY <1>1, <1>2, <1>3 DEF Idle
  <2>2. Shape'
    <3>1. TypeOK'
      BY <1>1, <1>2, <2>1 DEF Shape, TypeOK, counters
    <3>2. GameCalls' /\ MaskedKept'
      BY <1>1, <2>1 DEF Shape, GameCalls, MaskedKept, NotTorn, Executing
    <3> QED
      BY <1>2, <3>1, <3>2 DEF Shape
  <2>3. UsedUp' /\ Plain' /\ (OnTrack => OnTrack') /\ (OpensForgotten => OpensForgotten')
    BY <1>1, <2>1 DEF Inductive, UsedUp, Plain, NotTorn, OnTrack, Opening, Told, Unmasked, Over,
                      Unread, AsIntended, OpensForgotten, Executing, counters
  <2> QED
    BY <1>1, <2>1, <2>2, <2>3 DEF Inductive, HarmDone, LossDone
<1>4. CASE a = Game
  <2>1. /\ Executing /\ call[Game].cfg = exec.cfg /\ cmds = <<>>
        /\ exec.torn \/ ~exec.masked
    BY <1>1, <1>4 DEF Shape, GameCalls, MaskedKept, NotTorn, Idle
  <2>2. /\ exec' \in Execution /\ exec'.cfg = exec.cfg /\ exec'.masked = exec.masked
        /\ exec'.torn = exec.torn /\ exec'.noticed = exec.noticed
        /\ exec'.ran = IF call'[Game].pc = "idle" /\ exec.cfg \in Exists
                       THEN Seen(exec.ran) ELSE exec.ran
    <3>1. exec \in Execution /\ Seen(exec.ran) \in Nat
      BY <1>1 DEF Shape, TypeOK, Execution, Seen, MaxSeen
    <3>2. CASE exec' = exec
      BY <1>2, <1>4, <2>1, <3>1, <3>2 DEF Execution, Idle
    <3>3. CASE exec' = [exec EXCEPT !.ran = Seen(exec.ran)]
      BY <1>2, <1>4, <2>1, <3>1, <3>3 DEF Execution, Idle
    <3> QED
      BY <1>2, <3>2, <3>3
  <2>3. Executing'
    <3>1. exec.cfg # None /\ NoExec.cfg = None
      BY <1>1, <2>1 DEF Shape, GameCalls, NoExec
    <3> QED
      BY <2>2, <3>1 DEF Executing
  <2>4. Shape'
    <3>1. TypeOK'
      BY <1>1, <1>2, <2>2 DEF Shape, TypeOK, counters
    <3>2. GameCalls' /\ MaskedKept'
      BY <1>1, <1>2, <1>4, <2>1, <2>2, <2>3 DEF Shape, GameCalls, MaskedKept, NotTorn, Idle
    <3> QED
      BY <1>2, <3>1, <3>2 DEF Shape
  <2>5. UsedUp'
    BY <2>1, <2>2 DEF UsedUp, NotTorn
  <2>6. Plain'
    BY <1>1, <1>2, <1>4, <2>1, <2>2, <2>3
       DEF Inductive, Plain, NotTorn, Seen, MaxSeen, Idle
  <2>7. OnTrack => OnTrack'
    BY <1>1, <2>1, <2>2, <2>3 DEF OnTrack, counters
  <2>8. OpensForgotten /\ ~exec.torn => OpensForgotten'
    BY <1>1, <1>2, <1>4, <2>1, <2>2 DEF OpensForgotten, counters
  <2> QED
    BY <1>1, <2>2, <2>4, <2>5, <2>6, <2>7, <2>8 DEF Inductive, HarmDone, LossDone
<1> QED
  BY <1>3, <1>4

(* A step of another program in the middle of an execution is a fault,     *)
(* which may do harm once.                                                 *)
LEMMA FaultStep ==
    ASSUME Inductive, Shape', UsedUp', Plain', faults' = faults + 1,
           wrong' = wrong, exec' = exec,
           lost' = lost \/ (lost' = lost + 1 /\ last_config_open_cnt' = 0)
    PROVE  Inductive'
<1>1. OpensForgotten' \/ lost' = lost
  BY DEF OpensForgotten
<1> QED
  BY <1>1 DEF Inductive, Shape, TypeOK, HarmDone, LossDone

(* The counting of a lookup of a masked config by another program.         *)
LEMMA OtherLookupStep ==
    ASSUME Inductive, Lookup(Other)
    PROVE  Inductive'
<1> USE UnmaskAssumption, CountsAssumption DEF Actors, N
<1>1. /\ Shape /\ call[Other].pc \in {"unlisted", "listed"} /\ call[Other] \in Call
      /\ UNCHANGED <<notify_list, cmds, wrong, lost>>
      /\ faults' = IF Executing THEN faults + 1 ELSE faults
  BY DEF Inductive, Lookup, CountFault, Shape, TypeOK
<1>2. /\ call' \in [Actors -> Call] /\ exec' = exec /\ call'[Game] = call[Game] /\ Calls'
      /\ \/ Found(Other) /\ call'[Other].cfg = call[Other].cfg
            /\ call'[Other].open = ~call[Other].open
            /\ call'[Other].tries = (IF call[Other].open THEN call[Other].tries + 1
                                                         ELSE call[Other].tries)
            /\ call'[Other].pc = (IF call[Other].open /\ call[Other].tries + 1 = Opens(Other)
                                  THEN "read" ELSE "lookup")
         \/ NotFound(Other) /\ call'[Other].pc # "read"
            /\ \/ call'[Other] = Idle
               \/ /\ call'[Other].pc = "lookup" /\ ~call'[Other].open
                  /\ call'[Other].cfg = call[Other].cfg
                  /\ call'[Other].tries = call[Other].tries + 1
                  /\ call[Other].tries + 1 # Opens(Other)
  <2>1. CASE Found(Other)
    BY <1>1, <2>1, FoundCall
  <2>2. CASE NotFound(Other)
    BY <1>1, <2>2, NotFoundCall DEF Idle
  <2> QED
    BY <2>1, <2>2 DEF Lookup
<1>3. /\ last_config_name' \in Configs \cup {None} /\ last_config_open_cnt' \in Nat
      /\ unmask_cnt' \in 0 .. unmask_cnt
  BY <1>1 DEF Lookup, Shape, TypeOK, Calls
<1>4. Shape'
  <2>1. TypeOK'
    BY <1>1, <1>2, <1>3 DEF Shape, TypeOK
  <2>2. GameCalls' /\ MaskedKept'
    BY <1>1, <1>2 DEF Shape, GameCalls, MaskedKept, NotTorn, Executing
  <2> QED
    BY <1>2, <2>1, <2>2 DEF Shape
<1>5. UsedUp' /\ Plain'
  BY <1>1, <1>2, <1>3 DEF Inductive, Shape, TypeOK, UsedUp, Plain, NotTorn, Executing, Call
<1>6. CASE Executing
  BY <1>1, <1>2, <1>4, <1>5, <1>6, FaultStep
<1>7. CASE ~Executing
  <2>1. UNCHANGED faults /\ ~Executing'
    BY <1>1, <1>2, <1>7 DEF Executing
  <2>2. OnTrack => OnTrack'
    BY <1>2, <1>7, <2>1 DEF OnTrack, Lookup, Shape, TypeOK
  <2>3. OpensForgotten => OpensForgotten'
    <3>1. call[Other].tries = 0
      BY <1>1 DEF Shape, Calls, Opens, Call
    <3>2. SUFFICES ASSUME last_config_open_cnt = 0
                   PROVE  OpensForgotten'
      BY <1>1, <1>7 DEF OpensForgotten, Shape, TypeOK
    <3>3. CASE Found(Other) /\ call[Other].open
      <4>1. call[Other].tries + 1 = Opens(Other)
        BY <3>1 DEF Opens
      <4>2. call'[Other].pc = "read"
        BY <1>1, <3>3, <4>1, FoundCall
      <4>3. last_config_open_cnt' \in {0, 1}
        BY <3>2 DEF Lookup
      <4> QED
        BY <4>2, <4>3 DEF OpensForgotten
    <3>4. last_config_open_cnt' = 0 \/ (Found(Other) /\ call[Other].open)
      BY <3>2 DEF Lookup
    <3> QED
      BY <3>3, <3>4 DEF OpensForgotten
  <2> QED
    BY <1>1, <1>2, <1>4, <1>5, <2>1, <2>2, <2>3 DEF Inductive, HarmDone, LossDone
<1> QED
  BY <1>6, <1>7

(* ... and by the game, which finds it, ...                                *)
LEMMA GameFoundStep ==
    ASSUME Inductive, Lookup(Game), Found(Game), unmask_cnt' = 0,
           \/ /\ last_config_name = call[Game].cfg /\ unmask_cnt = 0
              /\ last_config_open_cnt' = last_config_open_cnt + (IF call[Game].open THEN 1 ELSE 0)
              /\ UNCHANGED last_config_name
           \/ /\ last_config_name # call[Game].cfg
              /\ last_config_name' = call[Game].cfg
              /\ last_config_open_cnt' = IF call[Game].open THEN 1 ELSE 0
    PROVE  Inductive'
<1> USE UnmaskAssumption, CountsAssumption DEF Actors, N
<1>1. /\ Shape /\ call[Game].pc \in {"unlisted", "listed"} /\ call[Game] \in Call
      /\ UNCHANGED <<notify_list, cmds, wrong, lost, faults>>
      /\ call[Game].pc = "listed" => call[Game].cfg \in notify_list
  BY DEF Inductive, Lookup, CountFault, Shape, TypeOK
<1>2. /\ exec' = exec /\ call' \in [Actors -> Call] /\ call'[Other] = call[Other] /\ Calls'
      /\ call'[Game].cfg = call[Game].cfg /\ call'[Game].open = ~call[Game].open
      /\ call'[Game].tries = IF call[Game].open THEN call[Game].tries + 1 ELSE call[Game].tries
      /\ call'[Game].pc = IF call[Game].open /\ call[Game].tries + 1 = N THEN "read" ELSE "lookup"
  BY <1>1, FoundCall DEF Opens
<1>3. /\ Executing /\ Executing' /\ call[Game].cfg = exec.cfg /\ exec.cfg \in Configs /\ cmds = <<>>
  BY <1>1, <1>2 DEF Shape, GameCalls, Executing, Idle
<1>4. ~exec.torn => exec.masked
  BY <1>1, <1>3 DEF Inductive, Plain, NotTorn, Shape, MaskedKept, Masked
<1>5. Shape'
  <2>1. TypeOK'
    BY <1>1, <1>2, <1>3 DEF Shape, TypeOK
  <2>2. GameCalls' /\ MaskedKept'
    BY <1>1, <1>2, <1>3 DEF Shape, GameCalls, MaskedKept, NotTorn
  <2> QED
    BY <1>2, <2>1, <2>2 DEF Shape
<1>6. UsedUp' /\ Plain'
  BY <1>1, <1>2, <1>3, <1>4 DEF Shape, Calls, Opens, Call, UsedUp, Plain, NotTorn, Masked
<1>7. OnTrack => OnTrack'
  <2>1. SUFFICES ASSUME OnTrack, exec.cfg \in Exists PROVE Opening'
    BY <1>2, <1>3 DEF OnTrack
  <2>2. Opening
    <3>1. ~Told /\ ~Over /\ ~Unread
      BY <1>1 DEF Told, Over, Unread
    <3>2. unmask_cnt # 0 => last_config_name # exec.cfg
      BY <1>3
    <3>3. call[Game].tries \in Nat /\ call[Game].tries < N
      BY <1>1 DEF Shape, Calls, Opens, Call
    <3>4. ~Unmasked
      BY <1>1, <3>2, <3>3 DEF Unmasked
    <3> QED
      BY <1>3, <1>4, <2>1, <3>1, <3>4 DEF OnTrack
  <2> QED
    BY <1>1, <1>2, <1>3, <2>2 DEF Opening, Shape, TypeOK, Calls, Opens, Call
<1>8. ~exec.torn => OpensForgotten'
  BY <1>2, <1>3, <1>4 DEF OpensForgotten
<1> QED
  BY <1>1, <1>2, <1>5, <1>6, <1>7, <1>8 DEF Inductive, HarmDone, LossDone

(* ... or has been told to look elsewhere.                                 *)
LEMMA GameNotFoundStep ==
    ASSUME Inductive, Lookup(Game), NotFound(Game), last_config_name = call[Game].cfg,
           unmask_cnt > 0, unmask_cnt' = unmask_cnt - 1,
           UNCHANGED <<last_config_name, last_config_open_cnt>>
    PROVE  Inductive'
<1> USE UnmaskAssumption, CountsAssumption DEF Actors, N
<1>1. /\ Shape /\ call[Game].pc \in {"unlisted", "listed"} /\ call[Game] \in Call
      /\ UNCHANGED <<notify_list, cmds, wrong, lost, faults>>
      /\ call[Game].pc = "listed" => call[Game].cfg \in notify_list
  BY DEF Inductive, Lookup, CountFault, Shape, TypeOK
<1>2. /\ call' \in [Actors -> Call] /\ call'[Other] = call[Other] /\ Calls'
      /\ IF call[Game].cfg \notin Exists \/ call[Game].tries + 1 = N
         THEN /\ call'[Game] = Idle
              /\ exec' = IF call[Game].cfg \in Exists
                         THEN [exec EXCEPT !.ran = Seen(exec.ran)] ELSE exec
         ELSE /\ exec' = exec
              /\ call'[Game].pc = "lookup" /\ ~call'[Game].open
              /\ call'[Game].cfg = call[Game].cfg
              /\ call'[Game].tries = call[Game].tries + 1
  BY <1>1, NotFoundCall DEF Opens
<1>3. /\ Executing /\ call[Game].cfg = exec.cfg /\ exec.cfg \in Configs /\ cmds = <<>>
  BY <1>1 DEF Shape, GameCalls, Idle
<1>4. /\ exec' \in Execution /\ exec'.cfg = exec.cfg /\ exec'.masked = exec.masked
      /\ exec'.torn = exec.torn /\ exec'.noticed = exec.noticed
      /\ exec'.ran = IF call'[Game].pc = "idle" /\ exec.cfg \in Exists
                     THEN Seen(exec.ran) ELSE exec.ran
  <2>1. CASE exec.cfg \in Exists /\ call'[Game] = Idle
    <3>1. exec' = [exec EXCEPT !.ran = Seen(exec.ran)] /\ call'[Game].pc = "idle"
      BY <1>1, <1>2, <1>3, <2>1 DEF Idle
    <3>2. exec \in Execution /\ Seen(exec.ran) \in Nat
      BY <1>1 DEF Shape, TypeOK, Execution, Seen, MaxSeen
    <3> QED
      BY <2>1, <3>1, <3>2 DEF Execution
  <2>2. CASE ~(exec.cfg \in Exists /\ call'[Game] = Idle)
    <3>1. exec' = exec /\ ~(call'[Game].pc = "idle" /\ exec.cfg \in Exists)
      BY <1>2, <1>3, <2>2 DEF Idle
    <3> QED
      BY <1>1, <3>1 DEF Shape, TypeOK
  <2> QED
    BY <2>1, <2>2
<1>5. Executing'
  <2>1. exec.cfg # None /\ NoExec.cfg = None
    BY <1>3 DEF NoExec
  <2> QED
    BY <1>4, <2>1 DEF Executing
<1>6. ~exec.torn => exec.masked
  BY <1>1, <1>3 DEF Inductive, Plain, NotTorn, Shape, MaskedKept, Masked
<1>7. Shape'
  <2>1. TypeOK'
    BY <1>1, <1>2, <1>4 DEF Shape, TypeOK
  <2>2. GameCalls' /\ MaskedKept'
    BY <1>1, <1>2, <1>3, <1>4, <1>5 DEF Shape, GameCalls, MaskedKept, NotTorn, Idle
  <2> QED
    BY <1>2, <2>1, <2>2 DEF Shape
<1>8. Plain'
  BY <1>4, <1>6 DEF Plain, NotTorn
<1>9. unmask_cnt \in Nat /\ call[Game].tries \in Nat
  BY <1>1 DEF Shape, TypeOK, Call
<1>10. UsedUp'
  <2>1. SUFFICES ASSUME NotTorn, exec.masked, exec.cfg \in Exists
                 PROVE  IF call'[Game].pc = "idle" THEN unmask_cnt' = 0
                        ELSE unmask_cnt' + call'[Game].tries <= N
                             /\ ~call'[Game].open /\ call'[Game].pc # "read"
    BY <1>2, <1>3, <1>4, <1>5 DEF UsedUp, NotTorn
  <2>2. unmask_cnt + call[Game].tries <= N /\ ~call[Game].open
    BY <1>1, <2>1 DEF Inductive, UsedUp
  <2> QED
    BY <1>2, <1>3, <1>9, <2>1, <2>2 DEF Idle
<1>11. OnTrack => OnTrack'
  <2>1. SUFFICES ASSUME OnTrack
                 PROVE  /\ exec.cfg \in Exists => Unmasked' \/ Over'
                        /\ unmask_cnt' # 0 => exec.cfg \notin Exists \/ Unmasked'
    BY <1>3, <1>4, <1>5, <1>6 DEF OnTrack
  <2>2. CASE exec.cfg \in Exists
    <3>1. Unmasked
      BY <1>3, <1>6, <1>9, <2>1, <2>2 DEF OnTrack, Unmasked
    <3>2. /\ exec.noticed = 1 /\ exec.ran = 0 /\ exec.cfg \notin Blocked
          /\ unmask_cnt + call[Game].tries = N
      BY <1>1, <3>1 DEF Unmasked
    <3>3. CASE call[Game].tries + 1 = N
      <4>1. /\ unmask_cnt' = 0 /\ call'[Game].pc = "idle" /\ cmds' = <<>>
            /\ exec'.noticed = 1 /\ exec'.ran = 1 /\ exec'.masked
        BY <1>1, <1>2, <1>3, <1>4, <1>6, <1>9, <2>1, <2>2, <3>2, <3>3
           DEF OnTrack, Idle, Seen, MaxSeen
      <4> QED
        BY <1>4, <3>2, <4>1 DEF Over, AsIntended
    <3>4. CASE call[Game].tries + 1 # N
      <4>1. Unmasked'
        BY <1>2, <1>3, <1>4, <1>9, <2>2, <3>2, <3>4 DEF Unmasked
      <4> QED
        BY <4>1
    <3> QED
      BY <3>3, <3>4
  <2> QED
    BY <2>2
<1>12. OpensForgotten => OpensForgotten'
  BY <1>2, <1>9 DEF OpensForgotten
<1> QED
  BY <1>1, <1>4, <1>7, <1>8, <1>10, <1>11, <1>12 DEF Inductive, HarmDone, LossDone

(* The counting of a lookup by the game *)
LEMMA GameLookupStep ==
    ASSUME Inductive, Lookup(Game)
    PROVE  Inductive'
<1>1. unmask_cnt \in Nat
  BY UnmaskAssumption, CountsAssumption DEF Inductive, Shape, TypeOK, N
<1>2. CASE call[Game].cfg = last_config_name /\ unmask_cnt = 0
  BY <1>2, GameFoundStep DEF Lookup
<1>3. CASE call[Game].cfg = last_config_name /\ unmask_cnt > 0
  BY <1>3, GameNotFoundStep DEF Lookup
<1>4. CASE call[Game].cfg # last_config_name
  BY <1>4, GameFoundStep DEF Lookup
<1> QED
  BY <1>1, <1>2, <1>3, <1>4

-----------------------------------------------------------------------------
(* A read that is ignored forgets the opens.                               *)
LEMMA ReadIgnoredStep ==
    ASSUME Inductive, NEW a \in Actors, ReadIgnored(a)
    PROVE  Inductive'
<1> USE UnmaskAssumption, CountsAssumption DEF Actors, N
<1>1. /\ Shape /\ call[a].pc = "read" /\ last_config_open_cnt < N /\ last_config_open_cnt' = 0
      /\ UNCHANGED <<notify_list, last_config_name, unmask_cnt, cmds, exec, wrong, lost>>
      /\ faults' = IF a = Other /\ Executing THEN faults + 1 ELSE faults
  BY DEF Inductive, ReadIgnored, CountFault
<1>2. /\ call' \in [Actors -> Call] /\ call'[a] = Idle
      /\ \A b \in Actors : b # a => call'[b] = call[b]
  BY DEF Inductive, Shape, TypeOK, ReadIgnored, Call, Idle
<1>3. Shape'
  <2>1. TypeOK'
    <3>1. faults' \in Nat
      BY <1>1 DEF Shape, TypeOK
    <3> QED
      BY <1>1, <1>2, <3>1 DEF Shape, TypeOK
  <2>2. Calls'
    BY <1>1, <1>2 DEF Shape, Calls, Opens, Idle
  <2>3. GameCalls' /\ MaskedKept'
    BY <1>1, <1>2 DEF Shape, GameCalls, MaskedKept, NotTorn, Executing, Idle
  <2> QED
    BY <2>1, <2>2, <2>3 DEF Shape
<1>4. UsedUp' /\ Plain'
  BY <1>1, <1>2 DEF Inductive, UsedUp, Plain, NotTorn, Executing, Idle
<1>5. OpensForgotten'
  BY <1>1 DEF OpensForgotten
<1>6. CASE a = Other /\ Executing
  BY <1>1, <1>3, <1>4, <1>6, FaultStep
<1>7. CASE a = Other /\ ~Executing
  <2>1. OnTrack => OnTrack'
    BY <1>1, <1>7 DEF OnTrack, Executing
  <2> QED
    BY <1>1, <1>3, <1>4, <1>5, <1>7, <2>1 DEF Inductive, HarmDone, LossDone
<1>8. CASE a = Game
  <2>1. OnTrack => OnTrack'
    <3>1. ~Told /\ ~Unmasked /\ ~Over /\ ~Unread /\ ~Opening
      <4>1. last_config_open_cnt \in Nat
        BY <1>1 DEF Shape, TypeOK
      <4> QED
        BY <1>1, <1>8, <4>1 DEF Told, Unmasked, Over, Unread, Opening
    <3> QED
      BY <1>1, <3>1 DEF OnTrack, Executing
  <2> QED
    BY <1>1, <1>3, <1>4, <1>5, <1>8, <2>1 DEF Inductive, HarmDone, LossDone
<1> QED
  BY <1>6, <1>7, <1>8

(* A read that fails leaves no opens and no unmasking.                     *)
LEMMA ReadFailedStep ==
    ASSUME Inductive, NEW a \in Actors, ReadFailed(a)
    PROVE  Inductive'
<1> USE UnmaskAssumption, CountsAssumption DEF Actors, N
<1>1. /\ Shape /\ call[a].pc = "read" /\ last_config_open_cnt' = 0
      /\ UNCHANGED <<notify_list, last_config_name, unmask_cnt, cmds, wrong, lost>>
      /\ faults' = IF a = Other /\ Executing THEN faults + 1 ELSE faults
      /\ exec' = IF a = Game THEN [exec EXCEPT !.unread = TRUE] ELSE exec
  BY DEF Inductive, ReadFailed, CountFault
<1>2. /\ call' \in [Actors -> Call] /\ call'[a] = Idle
      /\ \A b \in Actors : b # a => call'[b] = call[b]
  BY DEF Inductive, Shape, TypeOK, ReadFailed, Call, Idle
<1>3. /\ exec' \in Execution /\ exec'.cfg = exec.cfg /\ exec'.masked = exec.masked
      /\ exec'.torn = exec.torn /\ exec'.noticed = exec.noticed /\ exec'.ran = exec.ran
  BY <1>1 DEF Shape, TypeOK, Execution
<1>4. Executing' = Executing
  <2>1. CASE a = Game
    <3>1. Executing /\ exec.cfg # None /\ NoExec.cfg = None
      BY <1>1, <2>1 DEF Shape, GameCalls, NoExec, Idle
    <3> QED
      BY <1>3, <3>1 DEF Executing
  <2>2. CASE a = Other
    BY <1>1, <2>2 DEF Executing
  <2> QED
    BY <2>1, <2>2
<1>5. Shape'
  <2>1. TypeOK'
    <3>1. faults' \in Nat
      BY <1>1 DEF Shape, TypeOK
    <3> QED
      BY <1>1, <1>2, <1>3, <3>1 DEF Shape, TypeOK
  <2>2. Calls'
    BY <1>1, <1>2 DEF Shape, Calls, Opens, Idle
  <2>3. GameCalls' /\ MaskedKept'
    BY <1>1, <1>2, <1>3, <1>4 DEF Shape, GameCalls, MaskedKept, NotTorn, Idle
  <2> QED
    BY <2>1, <2>2, <2>3 DEF Shape
<1>6. UsedUp' /\ Plain'
  BY <1>1, <1>2, <1>3, <1>4 DEF Inductive, UsedUp, Plain, NotTorn, Idle
<1>7. OpensForgotten'
  BY <1>1 DEF OpensForgotten
<1>8. CASE a = Other /\ Executing
  BY <1>1, <1>5, <1>6, <1>8, FaultStep
<1>9. CASE a = Other /\ ~Executing
  <2>1. OnTrack => OnTrack'
    BY <1>1, <1>9 DEF OnTrack, Executing
  <2> QED
    BY <1>1, <1>5, <1>6, <1>7, <1>9, <2>1 DEF Inductive, HarmDone, LossDone
<1>10. CASE a = Game
  <2>1. OnTrack => OnTrack'
    <3>1. SUFFICES ASSUME OnTrack PROVE OnTrack'
      OBVIOUS
    <3>2. ~exec'.torn /\ (unmask_cnt' # 0 => last_config_name' \notin Exists)
      BY <1>1, <1>3, <1>10, <3>1 DEF OnTrack, Unmasked
    <3>3. Executing /\ exec.masked /\ exec.cfg \in Exists => Unread'
      <4>1. SUFFICES ASSUME Executing, exec.masked, exec.cfg \in Exists PROVE Unread'
        OBVIOUS
      <4>2. unmask_cnt = 0
        BY <1>1, <1>10, <3>1, <4>1 DEF Inductive, UsedUp, NotTorn, OnTrack
      <4>3. cmds = <<>>
        BY <1>1, <1>10 DEF Shape, GameCalls
      <4>4. exec'.unread
        BY <1>1, <1>10 DEF Shape, TypeOK, Execution
      <4> QED
        BY <1>1, <1>2, <1>10, <4>2, <4>3, <4>4 DEF Unread, Idle
    <3> QED
      BY <1>3, <1>4, <3>2, <3>3 DEF OnTrack
  <2> QED
    BY <1>1, <1>3, <1>5, <1>6, <1>7, <1>10, <2>1 DEF Inductive, HarmDone, LossDone
<1> QED
  BY <1>8, <1>9, <1>10

(* Another program gets a reply only by a fault, now or earlier.           *)
LEMMA OtherContentsStep ==
    ASSUME Inductive, ReadContents(Other)
    PROVE  Inductive'
<1> USE UnmaskAssumption, CountsAssumption DEF Actors, N
<1>1. /\ Shape /\ call[Other].pc = "read" /\ last_config_open_cnt >= N
      /\ last_config_open_cnt' = 0 /\ lost' = lost + 1
      /\ UNCHANGED <<notify_list, last_config_name, unmask_cnt, cmds, exec, wrong>>
      /\ faults' = IF Executing THEN faults + 1 ELSE faults
  BY DEF Inductive, ReadContents, CountFault
<1>2. call' \in [Actors -> Call] /\ call'[Other] = Idle /\ call'[Game] = call[Game]
  BY DEF Inductive, Shape, TypeOK, ReadContents, Call, Idle
<1>3. Shape'
  <2>1. TypeOK'
    <3>1. faults' \in Nat
      BY <1>1 DEF Shape, TypeOK
    <3> QED
      BY <1>1, <1>2, <3>1 DEF Shape, TypeOK
  <2>2. Calls'
    <3>1. \A b \in Actors : call'[b] = Idle \/ call'[b] = call[b]
      BY <1>2
    <3> QED
      BY <1>1, <3>1 DEF Shape, Calls, Opens, Idle
  <2>3. GameCalls' /\ MaskedKept'
    BY <1>1, <1>2 DEF Shape, GameCalls, MaskedKept, NotTorn, Executing
  <2> QED
    BY <2>1, <2>2, <2>3 DEF Shape
<1>4. UsedUp' /\ Plain'
  BY <1>1, <1>2 DEF Inductive, UsedUp, Plain, NotTorn, Executing
<1>5. CASE Executing
  BY <1>1, <1>3, <1>4, <1>5, FaultStep
<1>6. CASE ~Executing
  <2>1. ~OpensForgotten
    BY <1>1, <1>6 DEF OpensForgotten, Shape, TypeOK
  <2>2. LossDone'
    BY <1>1, <1>6, <2>1 DEF Inductive, LossDone, OpensForgotten, Executing, NoExec, Shape, TypeOK
  <2>3. HarmDone'
    BY <1>1, <1>6 DEF Inductive, HarmDone, OnTrack, Executing
  <2> QED
    BY <1>3, <1>4, <2>2, <2>3 DEF Inductive
<1> QED
  BY <1>5, <1>6

(* The game reads the reply.                                               *)
LEMMA GameContentsStep ==
    ASSUME Inductive, ReadContents(Game)
    PROVE  Inductive'
<1> USE UnmaskAssumption, CountsAssumption DEF Actors, N
<1>1. /\ Shape /\ call[Game].pc = "read" /\ last_config_open_cnt' = 0
      /\ UNCHANGED <<notify_list, last_config_name, unmask_cnt, wrong, lost, faults>>
  BY DEF Inductive, ReadContents, CountFault
<1>2. call' \in [Actors -> Call] /\ call'[Game] = Idle /\ call'[Other] = call[Other]
  BY DEF Inductive, Shape, TypeOK, ReadContents, Call, Idle
<1>3. /\ Executing /\ call[Game].cfg = exec.cfg /\ exec.cfg \in Configs /\ cmds = <<>>
      /\ call[Game].tries = N
  BY <1>1 DEF Shape, GameCalls, Calls, Opens, Idle
<1>4. cmds' = IF exec.cfg \in Blocked THEN <<>> ELSE <<"unmask", "exec">>
  <2>1. cmds' = Reply(exec.cfg) \o <<>>
    BY <1>3 DEF ReadContents
  <2> QED
    BY <2>1 DEF Reply
<1>5. /\ exec' \in Execution /\ exec'.cfg = exec.cfg /\ exec'.masked = exec.masked
      /\ exec'.torn = exec.torn /\ exec'.ran = exec.ran /\ exec'.noticed = Seen(exec.noticed)
  <2>1. exec' = [exec EXCEPT !.noticed = Seen(exec.noticed)]
    BY DEF ReadContents
  <2>2. exec \in Execution /\ Seen(exec.noticed) \in Nat
    BY <1>1 DEF Shape, TypeOK, Execution, Seen, MaxSeen
  <2> QED
    BY <2>1, <2>2 DEF Execution
<1>6. Executing'
  <2>1. exec.cfg # None /\ NoExec.cfg = None
    BY <1>3 DEF NoExec
  <2> QED
    BY <1>5, <2>1 DEF Executing
<1>7. ~exec.torn => exec.masked
  BY <1>1, <1>3 DEF Inductive, Plain, NotTorn
<1>8. Shape'
  <2>1. TypeOK'
    BY <1>1, <1>2, <1>4, <1>5 DEF Shape, TypeOK, Commands
  <2>2. Calls'
    <3>1. \A b \in Actors : call'[b] = Idle \/ call'[b] = call[b]
      BY <1>2
    <3> QED
      BY <1>1, <3>1 DEF Shape, Calls, Opens, Idle
  <2>3. GameCalls' /\ MaskedKept'
    BY <1>1, <1>2, <1>3, <1>5, <1>6 DEF Shape, GameCalls, MaskedKept, NotTorn, Idle
  <2> QED
    BY <2>1, <2>2, <2>3 DEF Shape
<1>9. exec.masked /\ ~exec.torn /\ exec.cfg \in Exists => unmask_cnt = 0
  BY <1>1, <1>3 DEF Inductive, UsedUp, NotTorn
<1>10. UsedUp' /\ Plain'
  BY <1>1, <1>2, <1>5, <1>7, <1>9 DEF UsedUp, Plain, NotTorn, Idle
<1>11. OpensForgotten'
  BY <1>1 DEF OpensForgotten
<1>12. OnTrack => OnTrack'
  <2>1. SUFFICES ASSUME OnTrack PROVE OnTrack'
    OBVIOUS
  <2>2. ~Told /\ ~Unmasked /\ ~Over /\ ~Unread
    BY <1>1 DEF Told, Unmasked, Over, Unread
  <2>3. ~exec.torn /\ (unmask_cnt # 0 => last_config_name \notin Exists)
    BY <2>1, <2>2 DEF OnTrack
  <2>4. SUFFICES ASSUME exec.cfg \in Exists PROVE Told' \/ Over'
    BY <1>1, <1>5, <2>3 DEF OnTrack
  <2>5. Opening /\ unmask_cnt = 0
    BY <1>3, <1>7, <1>9, <2>1, <2>2, <2>3, <2>4 DEF OnTrack
  <2>6. /\ exec'.noticed = 1 /\ exec'.ran = 0 /\ last_config_name' = exec'.cfg
        /\ call'[Game].pc = "idle"
    BY <1>1, <1>2, <1>3, <1>5, <2>5 DEF Opening, Seen, MaxSeen, Idle
  <2>7. CASE exec.cfg \in Blocked
    BY <1>1, <1>4, <1>5, <1>7, <2>3, <2>5, <2>6, <2>7 DEF Over, AsIntended
  <2>8. CASE exec.cfg \notin Blocked
    BY <1>1, <1>4, <1>5, <2>5, <2>6, <2>8 DEF Told
  <2> QED
    BY <2>7, <2>8
<1> QED
  BY <1>1, <1>5, <1>8, <1>10, <1>11, <1>12 DEF Inductive, HarmDone, LossDone

-----------------------------------------------------------------------------
(* The game reads the order to unmask the config, ...                      *)
LEMMA UnmaskStep ==
    ASSUME Inductive, ReadUnmaskNext
    PROVE  Inductive'
<1> USE UnmaskAssumption, CountsAssumption DEF Actors, N
<1>1. /\ Shape /\ call[Game].pc = "idle" /\ cmds # <<>> /\ unmask_cnt' = N
      /\ last_config_name' = exec.cfg
      /\ UNCHANGED <<notify_list, last_config_open_cnt, call, exec, wrong, lost, faults>>
  BY DEF Inductive, ReadUnmaskNext, Idle
<1>2. cmds = <<"unmask", "exec">> /\ cmds' = <<"exec">>
  <2>1. cmds \in Commands /\ cmds # <<"exec">>
    BY <1>1 DEF Shape, TypeOK, ReadUnmaskNext
  <2>2. cmds = <<"unmask", "exec">>
    BY <1>1, <2>1 DEF Commands
  <2>3. cmds' = Tail(cmds)
    BY DEF ReadUnmaskNext
  <2>4. Tail(<<"unmask", "exec">>) = <<"exec">>
    OBVIOUS
  <2> QED
    BY <2>2, <2>3, <2>4
<1>3. Executing /\ exec.cfg \in Configs
  BY <1>1 DEF Shape, GameCalls
<1>4. ~exec.torn => exec.masked
  BY <1>1, <1>3 DEF Inductive, Plain, NotTorn
<1>5. Shape'
  BY <1>1, <1>2, <1>3
     DEF Shape, TypeOK, Commands, Calls, Opens, Idle, GameCalls, MaskedKept, NotTorn, Executing
<1>6. UsedUp' /\ Plain'
  BY <1>1, <1>2, <1>4 DEF UsedUp, Plain, NotTorn
<1>7. OpensForgotten => OpensForgotten'
  BY <1>1 DEF OpensForgotten
<1>8. OnTrack => OnTrack'
  <2>1. SUFFICES ASSUME OnTrack, exec.cfg \in Exists PROVE Unmasked'
    BY <1>1, <1>3, <1>4 DEF OnTrack, Executing
  <2>2. Told
    BY <1>1, <1>2, <1>3, <1>4, <2>1 DEF OnTrack, Opening, Unmasked, Over, Unread
  <2> QED
    BY <1>1, <1>2, <2>2 DEF Told, Unmasked
<1> QED
  BY <1>1, <1>5, <1>6, <1>7, <1>8 DEF Inductive, HarmDone, LossDone

(* ... and then the one to execute it again.                               *)
LEMMA ExecAgainStep ==
    ASSUME Inductive, ExecAgain
    PROVE  Inductive'
<1> USE UnmaskAssumption, CountsAssumption DEF Actors, N
<1>1. /\ Shape /\ call[Game] = Idle /\ cmds # <<>> /\ Start(Game, exec.cfg)
      /\ UNCHANGED <<notify_list, counters, exec, wrong, lost, faults>>
  BY DEF Inductive, ExecAgain
<1>2. cmds = <<"exec">> /\ cmds' = <<>>
  <2>1. cmds \in Commands /\ cmds # <<"unmask", "exec">>
    BY <1>1 DEF Shape, TypeOK, ExecAgain
  <2> QED
    BY <1>1, <2>1 DEF Commands, ExecAgain
<1>3. Executing /\ exec.cfg \in Configs
  BY <1>1, <1>2 DEF Shape, GameCalls
<1>4. /\ call' \in [Actors -> Call] /\ call'[Other] = call[Other]
      /\ call'[Game].pc = "lookup" /\ call'[Game].cfg = exec.cfg
      /\ ~call'[Game].open /\ call'[Game].tries = 0
  BY <1>1, <1>3 DEF Shape, TypeOK, Start, Call, Idle
<1>5. ~exec.torn => exec.masked
  BY <1>1, <1>2, <1>3 DEF Inductive, Plain, NotTorn
<1>6. Shape'
  <2>1. TypeOK'
    BY <1>1, <1>2, <1>4 DEF Shape, TypeOK, Commands, counters
  <2>2. Calls'
    BY <1>1, <1>3, <1>4 DEF Shape, Calls, Opens
  <2>3. GameCalls' /\ MaskedKept'
    BY <1>1, <1>2, <1>3, <1>4 DEF Shape, GameCalls, MaskedKept, NotTorn, Executing
  <2> QED
    BY <2>1, <2>2, <2>3 DEF Shape
<1>7. UsedUp' /\ Plain'
  BY <1>1, <1>4, <1>5 DEF Shape, TypeOK, counters, UsedUp, Plain, NotTorn
<1>8. OpensForgotten => OpensForgotten'
  BY <1>1, <1>4 DEF OpensForgotten, counters, Idle
<1>9. OnTrack => OnTrack'
  <2>1. Unmasked => Unmasked'
    BY <1>1, <1>2, <1>4 DEF Unmasked, counters, Idle
  <2>2. ~Opening /\ ~Told /\ ~Over /\ ~Unread
    BY <1>1, <1>2 DEF Opening, Told, Over, Unread, Idle
  <2> QED
    BY <1>1, <2>1, <2>2 DEF OnTrack, Executing, counters
<1> QED
  BY <1>1, <1>6, <1>7, <1>8, <1>9 DEF Inductive, HarmDone, LossDone

(* An execution that is on track ends as intended; another one ends wrong  *)
(* at most, and what it has left over is gone.                             *)
LEMMA ExecDoneStep ==
    ASSUME Inductive, ExecDone
    PROVE  Inductive'
<1> USE UnmaskAssumption, CountsAssumption DEF Actors, N
<1>1. /\ Shape /\ Executing /\ call[Game].pc = "idle" /\ call[Game] = Idle /\ cmds = <<>>
      /\ exec' = NoExec /\ wrong' \in Nat
      /\ UNCHANGED <<notify_list, counters, call, cmds, lost, faults>>
  BY DEF Inductive, Shape, TypeOK, ExecDone, Idle
<1>2. ~Executing' /\ ~NotTorn' /\ ~exec'.torn
  BY <1>1 DEF Executing, NotTorn, NoExec
<1>3. Shape'
  <2>1. NoExec \in Execution
    BY DEF NoExec, Execution
  <2>2. TypeOK'
    BY <1>1, <2>1 DEF Shape, TypeOK, counters
  <2> QED
    BY <1>1, <1>2, <2>2 DEF Shape, Calls, GameCalls, MaskedKept
<1>4. UsedUp' /\ Plain'
  BY <1>2 DEF UsedUp, Plain
<1>5. LossDone'
  BY <1>1, <1>2 DEF Inductive, LossDone, OpensForgotten, counters
<1>6. ~Opening /\ ~Told /\ ~Unmasked
  BY <1>1 DEF Opening, Told, Unmasked
<1>7. HarmDone'
  <2>1. CASE exec.cfg \in Exists /\ ~exec.torn /\ ~exec.unread /\ ~AsIntended
    <3>1. exec.masked
      BY <1>1, <2>1 DEF Inductive, Plain, NotTorn, AsIntended
    <3>2. unmask_cnt = 0
      BY <1>1, <2>1, <3>1 DEF Inductive, UsedUp, NotTorn
    <3>3. ~OnTrack
      BY <1>1, <1>6, <2>1, <3>1 DEF OnTrack, Over, Unread
    <3>4. wrong' = wrong + 1 /\ wrong < faults
      BY <2>1, <3>3 DEF Inductive, HarmDone, ExecDone, Shape, TypeOK
    <3>5. OnTrack'
      BY <1>1, <1>2, <3>2 DEF OnTrack, counters
    <3> QED
      BY <1>1, <3>4, <3>5 DEF HarmDone, Shape, TypeOK
  <2>2. CASE ~(exec.cfg \in Exists /\ ~exec.torn /\ ~exec.unread /\ ~AsIntended)
    <3>1. OnTrack => OnTrack'
      BY <1>1, <1>2, <1>6 DEF OnTrack, counters
    <3>2. wrong' = wrong
      BY <2>2 DEF ExecDone
    <3> QED
      BY <1>1, <3>1, <3>2 DEF Inductive, HarmDone
  <2> QED
    BY <2>1, <2>2
<1> QED
  BY <1>3, <1>4, <1>5, <1>7 DEF Inductive

(* An execution begins on track, whatever the last one has left over.      *)
LEMMA ExecStep ==
    ASSUME Inductive, NEW c \in Configs, Exec(c)
    PROVE  Inductive'
<1> USE UnmaskAssumption, CountsAssumption DEF Actors, N
<1>1. /\ Shape /\ ~Executing /\ call[Game] = Idle /\ cmds = <<>> /\ Start(Game, c)
      /\ UNCHANGED <<notify_list, counters, cmds, wrong, lost, faults>>
  BY DEF Inductive, Shape, GameCalls, Exec
<1>2. /\ call' \in [Actors -> Call] /\ call'[Other] = call[Other]
      /\ call'[Game].pc = "lookup" /\ call'[Game].cfg = c
      /\ ~call'[Game].open /\ call'[Game].tries = 0
  BY <1>1 DEF Shape, TypeOK, Start, Call, Idle
<1>3. /\ exec' \in Execution /\ exec'.cfg = c /\ exec'.masked = Masked(c, notify_list)
      /\ exec'.torn = FALSE /\ exec'.noticed = 0 /\ exec'.ran = 0
  BY DEF Exec, NoExec, Execution, Masked
<1>4. Executing'
  BY <1>3 DEF Executing, NoExec
<1>5. Shape'
  <2>1. TypeOK'
    BY <1>1, <1>2, <1>3 DEF Shape, TypeOK, counters
  <2>2. Calls'
    BY <1>1, <1>2 DEF Shape, Calls, Opens
  <2>3. GameCalls' /\ MaskedKept'
    BY <1>1, <1>2, <1>3, <1>4 DEF Shape, GameCalls, MaskedKept, Masked
  <2> QED
    BY <2>1, <2>2, <2>3 DEF Shape
<1>6. UsedUp' /\ Plain'
  BY <1>1, <1>2, <1>3 DEF Shape, TypeOK, counters, UsedUp, Plain
<1>7. OpensForgotten => OpensForgotten'
  BY <1>1, <1>2 DEF OpensForgotten, counters
<1>8. OnTrack => OnTrack'
  <2>1. SUFFICES ASSUME OnTrack PROVE OnTrack'
    OBVIOUS
  <2>2. unmask_cnt # 0 => last_config_name \notin Exists
    BY <1>1, <2>1 DEF OnTrack
  <2>3. exec'.cfg \in Exists => Opening'
    BY <1>1, <1>2, <1>3, <2>2 DEF Opening, Shape, TypeOK, counters
  <2> QED
    BY <1>1, <1>3, <2>2, <2>3 DEF OnTrack, counters
<1> QED
  BY <1>1, <1>3, <1>5, <1>6, <1>7, <1>8 DEF Inductive, HarmDone, LossDone

(* Another program starts to read a config.                                *)
LEMMA ManualReadStep ==
    ASSUME Inductive, NEW c \in Configs, ManualRead(c)
    PROVE  Inductive'
<1> USE UnmaskAssumption, CountsAssumption DEF Actors, N
<1>1. /\ Shape /\ call[Other] = Idle /\ Start(Other, c)
      /\ UNCHANGED <<notify_list, counters, cmds, exec, wrong, lost, faults>>
  BY DEF Inductive, ManualRead
<1>2. /\ call' \in [Actors -> Call] /\ call'[Game] = call[Game]
      /\ call'[Other].pc = "lookup" /\ call'[Other].cfg = c
      /\ ~call'[Other].open /\ call'[Other].tries = 0
  BY <1>1 DEF Shape, TypeOK, Start, Call, Idle
<1>3. Shape'
  <2>1. TypeOK'
    BY <1>1, <1>2 DEF Shape, TypeOK, counters
  <2>2. Calls'
    BY <1>1, <1>2 DEF Shape, Calls, Opens
  <2>3. GameCalls' /\ MaskedKept'
    BY <1>1, <1>2 DEF Shape, GameCalls, MaskedKept, NotTorn, Executing
  <2> QED
    BY <2>1, <2>2, <2>3 DEF Shape
<1>4. UsedUp' /\ Plain'
  BY <1>1, <1>2 DEF Inductive, UsedUp, Plain, NotTorn, Executing, counters
<1>5. OpensForgotten => OpensForgotten'
  BY <1>1, <1>2 DEF OpensForgotten, Executing, counters, Idle
<1>6. OnTrack => OnTrack'
  BY <1>1, <1>2 DEF OnTrack, Opening, Told, Unmasked, Over, Unread, AsIntended, Executing, counters
<1> QED
  BY <1>1, <1>3, <1>4, <1>5, <1>6 DEF Inductive, HarmDone, LossDone

(* A new list leaves an execution alone or is a fault in it.               *)
LEMMA NotifyListSetStep ==
    ASSUME Inductive, NEW list \in Lists, NotifyListSet(list)
    PROVE  Inductive'
<1> USE UnmaskAssumption, CountsAssumption DEF Actors, N
<1> DEFINE tears == Executing /\ Masked(exec.cfg, list) # Masked(exec.cfg, notify_list)
<1>1. /\ Shape /\ notify_list' = list /\ list \in SUBSET Configs
      /\ exec' = [exec EXCEPT !.torn = exec.torn \/ tears]
      /\ faults' = IF tears THEN faults + 1 ELSE faults
      /\ UNCHANGED <<counters, call, cmds, wrong, lost>>
  BY DEF Inductive, NotifyListSet
<1>2. /\ exec' \in Execution /\ exec'.cfg = exec.cfg /\ exec'.masked = exec.masked
      /\ exec'.torn = (exec.torn \/ tears) /\ exec'.unread = exec.unread
      /\ exec'.noticed = exec.noticed /\ exec'.ran = exec.ran
  BY <1>1 DEF Shape, TypeOK, Execution
<1>3. Executing' <=> Executing
  <2>1. CASE Executing
    <3>1. exec.cfg # None /\ NoExec.cfg = None
      BY <1>1, <2>1 DEF Shape, GameCalls, NoExec
    <3> QED
      BY <1>2, <2>1, <3>1 DEF Executing
  <2>2. CASE ~Executing
    <3>1. exec.torn = FALSE /\ ~tears
      BY <2>2 DEF Executing, NoExec
    <3>2. exec' = [exec EXCEPT !.torn = exec.torn]
      BY <1>1, <3>1
    <3>3. exec' = exec
      BY <1>1, <3>2 DEF Shape, TypeOK, Execution
    <3> QED
      BY <2>2, <3>3 DEF Executing
  <2> QED
    BY <2>1, <2>2
<1>4. Shape'
  <2>1. TypeOK'
    <3>1. faults' \in Nat
      BY <1>1 DEF Shape, TypeOK
    <3> QED
      BY <1>1, <1>2, <3>1 DEF Shape, TypeOK, counters
  <2>2. Calls' /\ GameCalls'
    BY <1>1, <1>2, <1>3 DEF Shape, Calls, Opens, GameCalls
  <2>3. MaskedKept'
    BY <1>1, <1>2, <1>3 DEF Shape, MaskedKept, NotTorn
  <2> QED
    BY <2>1, <2>2, <2>3 DEF Shape
<1>5. UsedUp' /\ Plain'
  BY <1>1, <1>2, <1>3 DEF Inductive, UsedUp, Plain, NotTorn, counters
<1>6. CASE tears
  BY <1>1, <1>4, <1>5, <1>6 DEF Inductive, HarmDone, LossDone, Shape, TypeOK
<1>7. CASE ~tears
  <2>1. OnTrack => OnTrack'
    BY <1>1, <1>2, <1>3, <1>7
       DEF OnTrack, Opening, Told, Unmasked, Over, Unread, AsIntended, counters
  <2>2. OpensForgotten => OpensForgotten'
    BY <1>1, <1>2, <1>3, <1>7 DEF OpensForgotten, counters
  <2> QED
    BY <1>1, <1>2, <1>4, <1>5, <1>7, <2>1, <2>2 DEF Inductive, HarmDone, LossDone
<1> QED
  BY <1>6, <1>7

-----------------------------------------------------------------------------
(* Nothing is counted yet at the start.                                    *)
LEMMA InitInductive ==
    Init => Inductive
<1> USE UnmaskAssumption, CountsAssumption DEF Actors, N
<1> SUFFICES ASSUME Init PROVE Inductive
  OBVIOUS
<1>1. Idle \in Call /\ NoExec \in Execution
  BY DEF Idle, Call, NoExec, Execution
<1>2. ~Executing /\ call[Game] = Idle /\ call[Other] = Idle /\ ~exec.torn
  BY DEF Init, Executing, NoExec
<1>3. Shape
  <2>1. TypeOK
    BY <1>1 DEF Init, TypeOK, Commands
  <2>2. Calls
    BY DEF Init, Calls, Idle
  <2>3. GameCalls /\ MaskedKept
    BY <1>2 DEF Init, GameCalls, MaskedKept, NotTorn, Idle
  <2> QED
    BY <2>1, <2>2, <2>3 DEF Shape
<1>4. UsedUp /\ Plain
  BY <1>2 DEF UsedUp, Plain, NotTorn
<1>5. OnTrack /\ OpensForgotten
  BY <1>2 DEF Init, OnTrack, OpensForgotten
<1> QED
  BY <1>2, <1>3, <1>4, <1>5 DEF Init, Inductive, HarmDone, LossDone

(* Every step keeps the parts of the invariant.                            *)
LEMMA NextInductive ==
    Inductive /\ [Next]_vars => Inductive'
<1> SUFFICES ASSUME Inductive, [Next]_vars PROVE Inductive'
  OBVIOUS
<1>1. ASSUME NEW a \in Actors, Handle(a) PROVE Inductive'
  <2>1. CASE LookAtList(a)
    BY <2>1, LookStep
  <2>2. CASE SearchNull(a)
    BY <2>2, NothingStep DEF SearchNull
  <2>3. CASE NotListed(a)
    BY <2>3, NotListedStep
  <2>4. CASE Lookup(a)
    BY <1>1, <2>4, OtherLookupStep, GameLookupStep DEF Actors
  <2>5. CASE ReadIgnored(a)
    BY <2>5, ReadIgnoredStep
  <2>6. CASE ReadContents(a)
    BY <1>1, <2>6, OtherContentsStep, GameContentsStep DEF Actors
  <2>7. CASE ReadFailed(a)
    BY <2>7, ReadFailedStep
  <2> QED
    BY <1>1, <2>1, <2>2, <2>3, <2>4, <2>5, <2>6, <2>7 DEF Handle
<1>2. ASSUME NEW c \in Configs, Exec(c) \/ ManualRead(c) PROVE Inductive'
  BY <1>2, ExecStep, ManualReadStep
<1>3. CASE UNCHANGED vars
  BY <1>3, NothingStep DEF vars
<1> QED
  BY <1>1, <1>2, <1>3, UnmaskStep, ExecAgainStep, ExecDoneStep, NotifyListSetStep DEF Next

(* The invariant holds throughout.                                         *)
LEMMA AlwaysInductive ==
    Spec => []Inductive
<1>1. Init => Inductive
  BY InitInductive
<1>2. Inductive /\ [Next]_vars => Inductive'
  BY NextInductive
<1> QED
  BY <1>1, <1>2, PTL DEF Spec

(* However other reads, reloads and the game's own calls are mixed, an     *)
(* execution whose own read did not find Lua busy comes out wrong at most  *)
(* once for every step that interrupted one: what is left in the counters  *)
(* does harm once and is gone (lookup_ordinary_path(), cfgfs_read()).      *)
THEOREM HarmBoundedTheorem ==
    Spec => []HarmBounded
<1>1. Inductive => HarmBounded
  BY DEF Inductive, HarmDone, HarmBounded
<1> QED
  BY <1>1, AlwaysInductive, PTL

(* What Lua writes for the game is read by another program only if that    *)
(* read, or an earlier one, came in the middle of an execution: the count  *)
(* of the open() calls tells them apart otherwise (cfgfs_read()).          *)
THEOREM RepliesKeptTheorem ==
    Spec => []RepliesKept
<1>1. Inductive => RepliesKept
  BY DEF Inductive, LossDone, RepliesKept
<1> QED
  BY <1>1, AlwaysInductive, PTL
=============================================================================
