------------------------------ MODULE Delivery ------------------------------
(***************************************************************************)
(* How queued commands reach the game.  Threads write commands under the   *)
(* Lua lock; whoever leaves commands behind presses a key in the game's    *)
(* window (do_click() in click_x11.c), to which the game answers by        *)
(* reading cfgfs/click.cfg: that read forgets the outstanding click,       *)
(* resumes the coroutines whose wait() is over and takes the first buffer. *)
(* Nothing presses the key again later, so every step that leaves          *)
(* something to do must have a click on its way.                           *)
(*                                                                         *)
(* do_click() runs outside the Lua lock, on any thread, and reads          *)
(* `game_window_is_active' and `pending_click' without a lock of their own.*)
(* Calls into Lua are atomic except where they meet these variables: a     *)
(* read of click.cfg and a change of the click key take several steps.     *)
(***************************************************************************)
EXTENDS Naturals, FiniteSets

CONSTANTS
    Writers,    \* threads that call Lua with lua_release_state()
    NoThread,   \* "locked by nobody"
    ChunkSize,  \* commands that fit a buffer
    MaxQueue,   \* bound on the queued commands
    MaxCalls    \* bound on what users, scripts and windows do in a run

ASSUME DeliveryAssumption ==
    /\ Writers \cap {"attention", "click", "fuse", NoThread} = {}
    /\ NoThread \notin {"attention", "click", "fuse"}
    /\ ChunkSize \in Nat \ {0}
    /\ MaxQueue \in Nat \ {0} /\ MaxCalls \in Nat

VARIABLES
    queue,      \* number of commands in `buffers'
    waiting,    \* a coroutine is in ev_timeouts
    timer,      \* its timer in the click thread's kqueue
    lua,        \* holder of the Lua lock across steps
    click_lock, \* holder of click_lock
    pending,    \* pending_click: 0, set within 50 ms, or older
    active,     \* game_window_is_active in C
    focus,      \* whether the game's window has the keyboard
    display,    \* whether click_init() could open the display
    keys,       \* number of key presses on their way to the game
    game,       \* what the game's config execution is doing
    pc,         \* where each thread is in do_click() and around it
    missed,     \* history: a click that was due came to nothing
    calls       \* what is left of MaxCalls

vars == <<queue, waiting, timer, lua, click_lock, pending, active, focus, display,
          keys, game, pc, missed, calls>>

Threads == Writers \cup {"attention", "click", "fuse"}

TypeOK ==
    /\ queue \in 0 .. MaxQueue
    /\ waiting \in BOOLEAN
    /\ timer \in {"none", "armed", "expired"}
    /\ lua \in Threads \cup {NoThread}
    /\ click_lock \in Threads \cup {NoThread}
    /\ pending \in {"none", "fresh", "old"}
    /\ active \in BOOLEAN /\ focus \in BOOLEAN /\ display \in BOOLEAN
    /\ keys \in Nat
    /\ game \in {"idle", "click", "received", "resumed", "buffer"}
    /\ pc \in [Threads -> {"idle", "notify", "active", "pending", "lock", "send", "unlock",
                           "keylock", "setkey"}]
    /\ missed \in BOOLEAN
    /\ calls \in 0 .. MaxCalls

(* A wait() whose time has come. *)
Due == waiting /\ timer # "armed"

Init ==
    /\ queue = 0
    /\ waiting = FALSE
    /\ timer = "none"
    /\ lua = NoThread
    /\ click_lock = NoThread
    /\ pending = "none"
    /\ active = FALSE
    /\ focus = FALSE
    /\ display \in BOOLEAN
    /\ keys = 0
    /\ game = "idle"
    /\ pc = [t \in Threads |-> "idle"]
    /\ missed = FALSE
    /\ calls = MaxCalls

Goto(t, where) == pc' = [pc EXCEPT ![t] = where]

UseCall == calls > 0 /\ calls' = calls - 1

-----------------------------------------------------------------------------
(* do_click() *)

(* The first condition: is the game's window the active one? *)
ReadActive(t) ==
    /\ pc[t] = "active"
    /\ Goto(t, IF active THEN "pending" ELSE "idle")
    /\ UNCHANGED <<queue, waiting, timer, lua, click_lock, pending, active, focus, display,
                   keys, game, missed, calls>>

(* The second: is there no click outstanding, or one from 50 ms ago? *)
ReadPending(t) ==
    /\ pc[t] = "pending"
    /\ Goto(t, IF pending = "fresh" THEN "idle" ELSE "lock")
    /\ UNCHANGED <<queue, waiting, timer, lua, click_lock, pending, active, focus, display,
                   keys, game, missed, calls>>

(* The third: trylock.  `now' was read on entry, so the time stored may be *)
(* old already.  Giving up is harmless while the holder of the lock is     *)
(* still to press the key.                                                 *)
TryClickLock(t) ==
    /\ pc[t] = "lock"
    /\ \/ /\ click_lock = NoThread
          /\ click_lock' = t
          /\ pending' \in {"fresh", "old"}
          /\ Goto(t, "send")
          /\ UNCHANGED missed
       \/ /\ click_lock # NoThread
          /\ missed' = (missed \/ pc[click_lock] # "send")
          /\ Goto(t, "idle")
          /\ UNCHANGED <<click_lock, pending>>
    /\ UNCHANGED <<queue, waiting, timer, lua, active, focus, display, keys, game, calls>>

(* Mutant of SendKey: returns without unlocking if there is no display. *)
SendKeyEarlyReturn(t) ==
    /\ pc[t] = "send"
    /\ \/ /\ display
          /\ keys' = keys + 1
          /\ missed' = FALSE
          /\ Goto(t, "unlock")
          /\ UNCHANGED pending
       \/ /\ ~display
          /\ pending' = "none"
          /\ Goto(t, "idle")
          /\ UNCHANGED <<keys, missed>>
    /\ UNCHANGED <<queue, waiting, timer, lua, click_lock, active, focus, display, game, calls>>

SendKey(t) ==
    /\ pc[t] = "send"
    /\ \/ /\ display
          /\ keys' = keys + 1
          /\ missed' = FALSE
          /\ UNCHANGED pending
       \/ /\ ~display
          /\ pending' = "none"
          /\ UNCHANGED <<keys, missed>>
    /\ Goto(t, "unlock")
    /\ UNCHANGED <<queue, waiting, timer, lua, click_lock, active, focus, display, game, calls>>

ClickUnlock(t) ==
    /\ pc[t] = "unlock"
    /\ click_lock' = NoThread
    /\ Goto(t, "idle")
    /\ UNCHANGED <<queue, waiting, timer, lua, pending, active, focus, display, keys, game,
                   missed, calls>>

DoClick(t) == ReadActive(t) \/ ReadPending(t) \/ TryClickLock(t) \/ SendKey(t) \/ ClickUnlock(t)

(* 50 ms pass. *)
Age ==
    /\ pending = "fresh"
    /\ pending' = "old"
    /\ UNCHANGED <<queue, waiting, timer, lua, click_lock, active, focus, display, keys, game,
                   pc, missed, calls>>

-----------------------------------------------------------------------------
(* Calls into Lua that end with lua_release_state() *)

(* lua_unlock_state(): click if the buffers are not empty. *)
Release(t) == Goto(t, IF queue' > 0 THEN "active" ELSE "idle")

CanCall(t) == pc[t] = "idle" /\ lua = NoThread

(* The call writes some commands, or none. *)
Write(t) ==
    /\ CanCall(t) /\ UseCall
    /\ \E n \in 0 .. 2 : queue + n <= MaxQueue /\ queue' = queue + n
    /\ Release(t)
    /\ UNCHANGED <<waiting, timer, lua, click_lock, pending, active, focus, display, keys, game,
                   missed>>

(* The call starts a coroutine that calls wait(ms): a timer for its click. *)
Wait(t) ==
    /\ CanCall(t) /\ UseCall
    /\ ~waiting /\ timer = "none"
    /\ waiting' = TRUE
    /\ timer' = "armed"
    /\ UNCHANGED queue
    /\ Release(t)
    /\ UNCHANGED <<lua, click_lock, pending, active, focus, display, keys, game, missed>>

(* The call cancels the wait; the coroutine resumed by that writes.  A     *)
(* timer that has expired is not taken back.                               *)
CancelWait(t) ==
    /\ CanCall(t) /\ UseCall
    /\ waiting
    /\ waiting' = FALSE
    /\ timer' = IF timer = "armed" THEN "none" ELSE timer
    /\ queue < MaxQueue /\ queue' = queue + 1
    /\ Release(t)
    /\ UNCHANGED <<lua, click_lock, pending, active, focus, display, keys, game, missed>>

(* A reload empties the buffers and the list of timeouts and leaves the    *)
(* timers alone; the new script may write.                                 *)
Reload(t) ==
    /\ CanCall(t) /\ UseCall
    /\ waiting' = FALSE
    /\ queue' \in 0 .. 1
    /\ Release(t)
    /\ UNCHANGED <<timer, lua, click_lock, pending, active, focus, display, keys, game, missed>>

(* The script sets the click key: with the Lua lock held it waits for      *)
(* click_lock, and holds that too while X is asked about the key.          *)
SetKeyBegin(t) ==
    /\ CanCall(t) /\ UseCall
    /\ lua' = t
    /\ Goto(t, "keylock")
    /\ UNCHANGED <<queue, waiting, timer, click_lock, pending, active, focus, display, keys,
                   game, missed>>

SetKeyLock(t) ==
    /\ pc[t] = "keylock" /\ click_lock = NoThread
    /\ click_lock' = t
    /\ Goto(t, "setkey")
    /\ UNCHANGED <<queue, waiting, timer, lua, pending, active, focus, display, keys, game,
                   missed, calls>>

SetKeyEnd(t) ==
    /\ pc[t] = "setkey"
    /\ click_lock' = NoThread
    /\ lua' = NoThread
    /\ UNCHANGED queue
    /\ Release(t)
    /\ UNCHANGED <<waiting, timer, pending, active, focus, display, keys, game, missed, calls>>

Call(t) ==
    \/ Write(t)
    \/ Wait(t)
    \/ CancelWait(t)
    \/ Reload(t)
    \/ SetKeyBegin(t)
    \/ SetKeyLock(t)
    \/ SetKeyEnd(t)

-----------------------------------------------------------------------------
(* The click thread *)

Expire ==
    /\ timer = "armed"
    /\ timer' = "expired"
    /\ UNCHANGED <<queue, waiting, lua, click_lock, pending, active, focus, display, keys, game,
                   pc, missed, calls>>

FireTimer ==
    /\ timer = "expired" /\ pc["click"] = "idle"
    /\ timer' = "none"
    /\ Goto("click", "active")
    /\ UNCHANGED <<queue, waiting, lua, click_lock, pending, active, focus, display, keys, game,
                   missed, calls>>

-----------------------------------------------------------------------------
(* The attention thread *)

(* The user switches windows. *)
FocusChange ==
    /\ UseCall
    /\ focus' = ~focus
    /\ UNCHANGED <<queue, waiting, timer, lua, click_lock, pending, active, display, keys, game,
                   pc, missed>>

(* check_attention() stores the new state first ... *)
NoticeFocus ==
    /\ pc["attention"] = "idle" /\ active # focus
    /\ active' = focus
    /\ Goto("attention", "notify")
    /\ UNCHANGED <<queue, waiting, timer, lua, click_lock, pending, focus, display, keys, game,
                   missed, calls>>

(* Mutant of NotifyAttention: clicks only if there are commands. *)
NotifyAttentionPlain ==
    /\ pc["attention"] = "notify" /\ lua = NoThread
    /\ \E n \in 0 .. 1 : queue + n <= MaxQueue /\ queue' = queue + n
    /\ Release("attention")
    /\ UNCHANGED <<waiting, timer, lua, click_lock, pending, active, focus, display, keys, game,
                   missed, calls>>

(* ... then tells Lua, whose listeners may write, and clicks whatever they *)
(* did, for the commands and timeouts of the time the window was inactive. *)
NotifyAttention ==
    /\ pc["attention"] = "notify" /\ lua = NoThread
    /\ \E n \in 0 .. 1 : queue + n <= MaxQueue /\ queue' = queue + n
    /\ Goto("attention", "active")
    /\ UNCHANGED <<waiting, timer, lua, click_lock, pending, active, focus, display, keys, game,
                   missed, calls>>

(* No lock within two seconds: Lua is not told and there is no click. *)
NotifyTimeout ==
    /\ pc["attention"] = "notify" /\ UseCall
    /\ Goto("attention", "idle")
    /\ missed' = (missed \/ active)
    /\ UNCHANGED <<queue, waiting, timer, lua, click_lock, pending, active, focus, display, keys,
                   game>>

-----------------------------------------------------------------------------
(* The game *)

(* A key press arrives and the game runs "exec cfgfs/click". *)
KeyPress ==
    /\ keys > 0 /\ game = "idle" /\ focus
    /\ keys' = keys - 1
    /\ game' = "click"
    /\ UNCHANGED <<queue, waiting, timer, lua, click_lock, pending, active, focus, display, pc,
                   missed, calls>>

(* Another window gets the key, or the game does not act on it. *)
KeyLost ==
    /\ keys > 0
    /\ IF focus THEN UseCall ELSE UNCHANGED calls
    /\ keys' = keys - 1
    /\ missed' = TRUE
    /\ UNCHANGED <<queue, waiting, timer, lua, click_lock, pending, active, focus, display, game,
                   pc>>

(* Mutant of ClickReceived: the outstanding click is not forgotten. *)
ClickReceivedKeep ==
    /\ game = "click" /\ lua = NoThread
    /\ lua' = "fuse"
    /\ missed' = FALSE
    /\ game' = "received"
    /\ UNCHANGED <<queue, waiting, timer, click_lock, pending, active, focus, display, keys, pc,
                   calls>>

(* cfgfs_read() of click.cfg: _click_received() ... *)
ClickReceived ==
    /\ game = "click" /\ lua = NoThread
    /\ lua' = "fuse"
    /\ pending' = "none"
    /\ missed' = FALSE
    /\ game' = "received"
    /\ UNCHANGED <<queue, waiting, timer, click_lock, active, focus, display, keys, pc, calls>>

(* ... ev_do_timeouts(): the resumed coroutine writes, and returns or      *)
(* waits again; wait(0) clicks on the spot, with the Lua lock held ...     *)
DoTimeouts ==
    /\ game = "received"
    /\ game' = "resumed"
    /\ \/ /\ ~Due
          /\ UNCHANGED <<queue, waiting, timer, pc, calls>>
       \/ /\ Due
          /\ \E n \in 0 .. 1 : queue + n <= MaxQueue /\ queue' = queue + n
          /\ \/ waiting' = FALSE /\ UNCHANGED <<timer, pc, calls>>
             \/ timer = "none" /\ timer' = "armed" /\ UseCall /\ UNCHANGED <<waiting, pc>>
             \/ UseCall /\ Goto("fuse", "active") /\ UNCHANGED <<waiting, timer>>
    /\ UNCHANGED <<lua, click_lock, pending, active, focus, display, keys, missed>>

(* Mutant of Take: takes a buffer even if there is none. *)
TakeUnchecked(n) ==
    /\ queue' = n - ChunkSize
    /\ game' = IF n > ChunkSize THEN "buffer" ELSE "idle"

(* The first buffer: the game comes back if there is another one. *)
Take(n) ==
    /\ queue' = IF n > ChunkSize THEN n - ChunkSize ELSE 0
    /\ game' = IF n > ChunkSize THEN "buffer" ELSE "idle"

(* ... and the first buffer, without a click on release. *)
ReadDone ==
    /\ game = "resumed" /\ pc["fuse"] = "idle"
    /\ Take(queue)
    /\ lua' = NoThread
    /\ UNCHANGED <<waiting, timer, click_lock, pending, active, focus, display, keys, pc, missed,
                   calls>>

(* The game executes "exec cfgfs/buffer" at the end of a full buffer. *)
ReadBuffer ==
    /\ game = "buffer" /\ lua = NoThread
    /\ Take(queue)
    /\ UNCHANGED <<waiting, timer, lua, click_lock, pending, active, focus, display, keys, pc,
                   missed, calls>>

(* The player presses a bound key, whose config may write a command. *)
ReadKeyConfig ==
    /\ game = "idle" /\ lua = NoThread /\ UseCall
    /\ \E n \in 0 .. 1 : queue + n <= MaxQueue /\ Take(queue + n)
    /\ UNCHANGED <<waiting, timer, lua, click_lock, pending, active, focus, display, keys, pc,
                   missed>>

(* The read fails: the Lua lock was not free within two seconds. *)
ReadTimeout ==
    /\ game \in {"click", "buffer"} /\ UseCall
    /\ game' = "idle"
    /\ missed' = TRUE
    /\ UNCHANGED <<queue, waiting, timer, lua, click_lock, pending, active, focus, display, keys,
                   pc>>

ReadConfig == ClickReceived \/ DoTimeouts \/ ReadDone \/ ReadBuffer

-----------------------------------------------------------------------------
Next ==
    \/ \E t \in Threads : DoClick(t)
    \/ \E t \in Writers : Call(t)
    \/ Age
    \/ Expire
    \/ FireTimer
    \/ FocusChange
    \/ NoticeFocus
    \/ NotifyAttention
    \/ NotifyTimeout
    \/ KeyPress
    \/ KeyLost
    \/ ReadConfig
    \/ ReadKeyConfig
    \/ ReadTimeout

Spec == Init /\ [][Next]_vars

(* Threads run, time passes, and the game handles its input; nobody has to *)
(* call anything.                                                          *)
Fairness ==
    /\ \A t \in Threads : WF_vars(DoClick(t))
    /\ \A t \in Writers : SF_vars(SetKeyLock(t)) /\ WF_vars(SetKeyEnd(t))
    /\ WF_vars(Expire)
    /\ WF_vars(FireTimer)
    /\ WF_vars(NoticeFocus)
    /\ SF_vars(NotifyAttention)
    /\ WF_vars(KeyPress)
    /\ WF_vars(KeyLost /\ ~focus)
    /\ SF_vars(ReadConfig)

FairSpec == Spec /\ Fairness

-----------------------------------------------------------------------------
(* Properties *)

(* Nobody is doing anything that could lead to a delivery. *)
Quiet ==
    /\ \A t \in Threads : pc[t] = "idle"
    /\ game = "idle" /\ keys = 0 /\ timer # "expired"

HasWork == queue > 0 \/ Due

(* Commands or timeouts left behind in a quiet system with the game's      *)
(* window active are always the trace of a click that came to nothing: the *)
(* lock was held by someone past pressing the key, the key was lost, or a  *)
(* call got no lock.  No order of the unlocked reads and writes of         *)
(* pending_click and game_window_is_active loses a wakeup by itself.       *)
NothingStranded ==
    Quiet /\ display /\ active /\ focus /\ HasWork => missed

(* Whoever holds click_lock is in do_click() or setting the key, and lets  *)
(* it go: nobody can be locked out of clicking for good.                   *)
ClickLockFreed == (click_lock # NoThread) ~> (click_lock = NoThread)

(* Work left while the window is active is done, unless a click came to    *)
(* nothing or the window went away.                                        *)
WorkGetsDone ==
    (display /\ HasWork) ~> (~HasWork \/ missed \/ ~active \/ ~focus)
=============================================================================
