----------------------------- MODULE EventLoop -----------------------------
(***************************************************************************)
(* The coroutines of builtin.lua: wait() and cancel_wait(), the pass over  *)
(* expired timeouts that every read of cfgfs/click.cfg makes, events and   *)
(* wait_for_event() with its optional timeout, and the coroutine the event *)
(* loop keeps for calling functions.                                       *)
(*                                                                         *)
(* All of it runs under the Lua lock, one coroutine at a time.  Resuming a *)
(* coroutine nests: `stack' holds the running coroutine and those that     *)
(* resumed it, with the main thread below.  Scripts may do anything the    *)
(* API allows whenever they run.                                           *)
(***************************************************************************)
EXTENDS Naturals, FiniteSets, Sequences, SequencesExt

CONSTANTS
    Co,        \* the coroutines that may exist at a time
    Main,      \* the main thread
    Fn,        \* a function added as a listener
    None,      \* no coroutine
    MaxDelay,  \* bound on the argument of wait()
    MaxGen     \* bound on the generation counter between two reloads

ASSUME EventLoopAssumption ==
    /\ {Main, Fn, None} \cap Co = {}
    /\ Main # Fn
    /\ MaxDelay \in Nat /\ MaxGen \in Nat

VARIABLES
    stack,      \* the coroutines being resumed, the running one last
    status,     \* what each coroutine is doing
    loop_co,    \* ev_loop_co
    timeouts,   \* ev_timeouts
    gen,        \* ev_generation_counter
    scan,       \* cur_gen of the ev_do_timeouts() call in progress, or 0
    listeners,  \* the listeners of one event, in order
    firing,     \* the listeners a fire_event() has still to call, by caller
    wakes,      \* for the timer of a wait_for_event(): the coroutine it wakes
    cds,        \* the waits a script may cancel
    panic       \* history: the else branch of ev_handle_return() was taken

vars == <<stack, status, loop_co, timeouts, gen, scan, listeners, firing, wakes, cds, panic>>

Timeout == [co : Co, left : 0 .. MaxDelay, gen : 1 .. MaxGen + 1]

TypeOK ==
    /\ stack \in Seq(Co)
    /\ status \in [Co -> {"dead", "ready", "running", "wait", "event"}]
    /\ loop_co \in Co
    /\ timeouts \in Seq(Timeout)
    /\ gen \in 1 .. MaxGen + 1
    /\ scan \in 0 .. MaxGen
    /\ listeners \in Seq(Co \cup {Fn})
    /\ firing \in [Co \cup {Main} -> Seq(Co \cup {Fn})]
    /\ wakes \in [Co -> Co \cup {None}]
    /\ cds \subseteq Co
    /\ panic \in BOOLEAN

-----------------------------------------------------------------------------
(* The running context, and coroutines that can be created. *)
Top == IF stack = <<>> THEN Main ELSE Last(stack)

Free == {c \in Co : status[c] = "dead"}

NotFiring == [x \in Co \cup {Main} |-> <<>>]

RunsScript(c) == Top = c /\ c # Main /\ firing[c] = <<>>

MainIdle == stack = <<>> /\ firing[Main] = <<>> /\ scan = 0

(* The loops of ev_delete_timeout_for_co() and remove_listener() remove    *)
(* the first entry they are looking for.                                   *)
RemoveFirstAt(s, indices) == IF indices = {} THEN s ELSE RemoveAt(s, Min(indices))

Unlist(cb) == RemoveFirstAt(listeners, {i \in DOMAIN listeners : listeners[i] = cb})

Push(c) ==
    /\ stack' = Append(stack, c)
    /\ status' = [status EXCEPT ![c] = "running"]

(* Mutant of Leave: a coroutine that yields stays the loop's own. *)
LeaveKeep(c, st) ==
    /\ stack' = Front(stack)
    /\ status' = [status EXCEPT ![c] = st]
    /\ UNCHANGED loop_co

(* Coroutine c yields or ends: ev_handle_return() in whoever resumed it.   *)
(* If c was the loop's coroutine and is not ready for reuse, the loop gets *)
(* a new one.                                                              *)
Leave(c, st) ==
    /\ stack' = Front(stack)
    /\ IF c = loop_co /\ st # "ready"
       THEN \E new \in Free \cup (IF st = "dead" THEN {c} ELSE {}) :
               /\ loop_co' = new
               /\ status' = [status EXCEPT ![c] = st, ![new] = "ready"]
       ELSE /\ status' = [status EXCEPT ![c] = st]
            /\ UNCHANGED loop_co

(* ev_call() in context x runs a function in the loop's coroutine, or a    *)
(* new one if that is x itself.                                            *)
CanCall(x) == x = loop_co \/ status[loop_co] = "ready"

Called(x) == IF x = loop_co THEN Free ELSE {loop_co}

EvCall(x) ==
    /\ CanCall(x)
    /\ \E c \in Called(x) : loop_co' = c /\ Push(c)
    /\ UNCHANGED panic

(* The loop's coroutine is below x on the stack: resuming it fails, and    *)
(* ev_handle_return() throws that error in x, which dies of it.            *)
CallFails(x) ==
    /\ ~CanCall(x)
    /\ Leave(x, "dead")
    /\ panic' = TRUE

(* Mutant of Wake: the timer is not cancelled. *)
WakeKeepTimer(x, rest) ==
    LET left == Unlist(x)
    IN  /\ listeners' = left
        /\ firing' = IF left = <<>> THEN NotFiring ELSE rest
        /\ Push(x)
        /\ UNCHANGED <<timeouts, wakes>>

(* x returns from its yield in wait_for_event(), woken by the event or by  *)
(* its timer: it stops listening and cancels the timer, whose coroutine    *)
(* ends.  A table of listeners that has become empty is dropped, and loops *)
(* over it find nothing more.                                              *)
Wake(x, rest) ==
    LET left == Unlist(x)
    IN  /\ listeners' = left
        /\ firing' = IF left = <<>> THEN NotFiring ELSE rest
        /\ timeouts' = RemoveFirstAt(timeouts, {i \in DOMAIN timeouts : wakes[timeouts[i].co] = x})
        /\ wakes' = [c \in Co |-> IF wakes[c] = x THEN None ELSE wakes[c]]
        /\ stack' = Append(stack, x)
        /\ status' = [c \in Co |-> IF c = x THEN "running"
                                   ELSE IF wakes[c] = x THEN "dead" ELSE status[c]]

-----------------------------------------------------------------------------
Init ==
    /\ stack = <<>>
    /\ loop_co \in Co
    /\ status = [c \in Co |-> IF c = loop_co THEN "ready" ELSE "dead"]
    /\ timeouts = <<>>
    /\ gen = 1
    /\ scan = 0
    /\ listeners = <<>>
    /\ firing = NotFiring
    /\ wakes = [c \in Co |-> None]
    /\ cds = {}
    /\ panic = FALSE

(* From C: an alias or bind calls a function, an event is fired (by the    *)
(* bound on coroutines, only if one is left to call a listener in) ...     *)
CallFunction ==
    /\ MainIdle
    /\ EvCall(Main)
    /\ UNCHANGED <<timeouts, gen, scan, listeners, firing, wakes, cds>>

FireFrom(x) ==
    /\ listeners # <<>> /\ Called(x) # {}
    /\ firing' = [firing EXCEPT ![x] = listeners]
    /\ UNCHANGED <<stack, status, loop_co, timeouts, gen, scan, listeners, wakes, cds, panic>>

(* ... cfgfs/click.cfg is read ... *)
PassBegin ==
    /\ MainIdle
    /\ timeouts # <<>> /\ gen <= MaxGen
    /\ scan' = gen
    /\ gen' = gen + 1
    /\ UNCHANGED <<stack, status, loop_co, timeouts, listeners, firing, wakes, cds, panic>>

(* Mutant of IsDue: timeouts added during the pass are not told apart. *)
IsDueAnyGen(t) == t.left = 0

(* What this pass has to resume: it has expired, and was there before. *)
IsDue(t) == t.left = 0 /\ t.gen <= scan

(* The first one is resumed, and the search starts again; ... *)
ResumeDue ==
    /\ scan # 0 /\ stack = <<>>
    /\ \E i \in DOMAIN timeouts :
          /\ IsDue(timeouts[i]) /\ \A j \in 1 .. i - 1 : ~IsDue(timeouts[j])
          /\ LET c == timeouts[i].co
             IN  \/ /\ wakes[c] # None
                    /\ Wake(wakes[c], firing)
                    /\ UNCHANGED cds
                 \/ /\ wakes[c] = None
                    /\ timeouts' = RemoveAt(timeouts, i)
                    /\ cds' = cds \ {c}
                    /\ Push(c)
                    /\ UNCHANGED <<listeners, firing, wakes>>
    /\ UNCHANGED <<loop_co, gen, scan, panic>>

(* ... it ends without finding one; ... *)
PassEnd ==
    /\ scan # 0 /\ stack = <<>>
    /\ \A i \in DOMAIN timeouts : ~IsDue(timeouts[i])
    /\ scan' = 0
    /\ UNCHANGED <<stack, status, loop_co, timeouts, gen, listeners, firing, wakes, cds, panic>>

(* ... or the script is reloaded: timeouts and listeners are forgotten,    *)
(* and the coroutines only they referred to are garbage.                   *)
Reset ==
    /\ MainIdle
    /\ timeouts' = <<>>
    /\ gen' = 1
    /\ listeners' = <<>>
    /\ wakes' = [c \in Co |-> None]
    /\ cds' = {}
    /\ status' = [c \in Co |-> IF c = loop_co THEN "ready" ELSE "dead"]
    /\ UNCHANGED <<stack, loop_co, scan, firing, panic>>

(* A millisecond passes. *)
Tick ==
    /\ \E i \in DOMAIN timeouts : timeouts[i].left > 0
    /\ timeouts' = [i \in DOMAIN timeouts |->
                       [timeouts[i] EXCEPT !.left = IF @ > 0 THEN @ - 1 ELSE 0]]
    /\ UNCHANGED <<stack, status, loop_co, gen, scan, listeners, firing, wakes, cds, panic>>

-----------------------------------------------------------------------------
(* What the running coroutine c may do *)

Spinoff(c) ==
    /\ RunsScript(c)
    /\ EvCall(c) \/ CallFails(c)
    /\ UNCHANGED <<timeouts, gen, scan, listeners, firing, wakes, cds>>

AddListener(c) ==
    /\ RunsScript(c)
    /\ ~Contains(listeners, Fn)
    /\ listeners' = Append(listeners, Fn)
    /\ UNCHANGED <<stack, status, loop_co, timeouts, gen, scan, firing, wakes, cds, panic>>

RemoveListener(c) ==
    /\ RunsScript(c)
    /\ Contains(listeners, Fn)
    /\ listeners' = Unlist(Fn)
    /\ firing' = IF listeners' = <<>> THEN NotFiring ELSE firing
    /\ UNCHANGED <<stack, status, loop_co, timeouts, gen, scan, wakes, cds, panic>>

Wait(c, ms, cancellable) ==
    /\ RunsScript(c)
    /\ timeouts' = Append(timeouts, [co |-> c, left |-> ms, gen |-> gen])
    /\ cds' = IF cancellable THEN cds \cup {c} ELSE cds
    /\ Leave(c, "wait")
    /\ UNCHANGED <<gen, scan, listeners, firing, wakes, panic>>

(* Mutant of CancelWait: the entry stays in the list. *)
CancelWaitKeep(c, d) ==
    /\ RunsScript(c)
    /\ d \in cds
    /\ cds' = cds \ {d}
    /\ Push(d)
    /\ UNCHANGED <<loop_co, timeouts, gen, scan, listeners, firing, wakes, panic>>

(* cancel_wait(): the waiting coroutine d runs at once. *)
CancelWait(c, d) ==
    /\ RunsScript(c)
    /\ d \in cds
    /\ timeouts' = RemoveFirstAt(timeouts, {i \in DOMAIN timeouts : timeouts[i].co = d})
    /\ cds' = cds \ {d}
    /\ Push(d)
    /\ UNCHANGED <<loop_co, gen, scan, listeners, firing, wakes, panic>>

WaitForEvent(c) ==
    /\ RunsScript(c)
    /\ listeners' = Append(listeners, c)
    /\ Leave(c, "event")
    /\ UNCHANGED <<timeouts, gen, scan, firing, wakes, cds, panic>>

(* With a timeout: spinoff() starts a coroutine that waits and then wakes  *)
(* c, and c goes to sleep after that one is waiting.                       *)
WaitForEventTimeout(c, ms) ==
    /\ RunsScript(c)
    /\ \/ /\ CanCall(c)
          /\ \E t \in Called(c) : \E new \in Free \ {t} :
                /\ status' = [status EXCEPT ![t] = "wait", ![new] = "ready", ![c] = "event"]
                /\ loop_co' = new
                /\ timeouts' = Append(timeouts, [co |-> t, left |-> ms, gen |-> gen])
                /\ wakes' = [wakes EXCEPT ![t] = c]
          /\ stack' = Front(stack)
          /\ listeners' = Append(listeners, c)
          /\ UNCHANGED panic
       \/ /\ CallFails(c)
          /\ UNCHANGED <<timeouts, wakes, listeners>>
    /\ UNCHANGED <<gen, scan, firing, cds>>

(* The function returns: the loop's coroutine is reused, others end. *)
Return(c) ==
    /\ RunsScript(c)
    /\ Leave(c, IF c = loop_co THEN "ready" ELSE "dead")
    /\ UNCHANGED <<timeouts, gen, scan, listeners, firing, wakes, cds, panic>>

(* The function has an error. *)
Fail(c) ==
    /\ RunsScript(c)
    /\ Leave(c, "dead")
    /\ UNCHANGED <<timeouts, gen, scan, listeners, firing, wakes, cds, panic>>

(* Mutant of CallListener: a function is called as if it were a coroutine. *)
CallListenerUntyped(x, cb, rest) ==
    /\ Wake(cb, rest)
    /\ UNCHANGED <<loop_co, cds, panic>>

(* fire_event() in context x gives its event to one more listener ... *)
CallListener(x, cb, rest) ==
    \/ /\ cb # Fn
       /\ Wake(cb, rest)
       /\ UNCHANGED <<loop_co, cds, panic>>
    \/ /\ cb = Fn
       /\ \/ EvCall(x) /\ firing' = rest
          \/ CallFails(x) /\ firing' = [rest EXCEPT ![x] = <<>>]
       /\ UNCHANGED <<timeouts, listeners, wakes, cds>>

(* ... unless that was removed meanwhile. *)
FireNext(x) ==
    /\ Top = x /\ firing[x] # <<>>
    /\ LET cb   == Head(firing[x])
           rest == [firing EXCEPT ![x] = Tail(@)]
       IN  \/ /\ Contains(listeners, cb)
              /\ CallListener(x, cb, rest)
           \/ /\ ~Contains(listeners, cb)
              /\ firing' = rest
              /\ UNCHANGED <<stack, status, loop_co, timeouts, listeners, wakes, cds, panic>>
    /\ UNCHANGED <<gen, scan>>

-----------------------------------------------------------------------------
(* c gives up control, whatever the reason. *)
Finish(c) ==
    \/ \E ms \in 0 .. MaxDelay, cancellable \in BOOLEAN : Wait(c, ms, cancellable)
    \/ WaitForEvent(c)
    \/ \E ms \in 0 .. MaxDelay : WaitForEventTimeout(c, ms)
    \/ Return(c)
    \/ Fail(c)

Next ==
    \/ CallFunction
    \/ MainIdle /\ FireFrom(Main)
    \/ PassBegin
    \/ ResumeDue
    \/ PassEnd
    \/ Reset
    \/ Tick
    \/ \E x \in Co \cup {Main} : FireNext(x)
    \/ \E c \in Co :
          \/ Finish(c)
          \/ Spinoff(c)
          \/ RunsScript(c) /\ FireFrom(c)
          \/ AddListener(c)
          \/ RemoveListener(c)
          \/ \E d \in Co : CancelWait(c, d)

Spec == Init /\ [][Next]_vars

(* Lua's own steps are taken, and scripts do not loop for ever. *)
Fairness ==
    /\ WF_vars(ResumeDue)
    /\ WF_vars(PassEnd)
    /\ \A x \in Co \cup {Main} : WF_vars(FireNext(x))
    /\ \A c \in Co : SF_vars(Finish(c))

FairSpec == Spec /\ Fairness

-----------------------------------------------------------------------------
(* Properties *)

(* Every coroutine suspended in wait() has exactly one entry in the list   *)
(* of timeouts and nobody else has one: it is not forgotten, not resumed   *)
(* twice, and the assertion of cancel_wait() holds.                        *)
WaitersListed ==
    /\ \A c \in Co :
          Cardinality({i \in DOMAIN timeouts : timeouts[i].co = c})
              = IF status[c] = "wait" THEN 1 ELSE 0
    /\ cds \subseteq {c \in Co : status[c] = "wait"}

(* Every coroutine suspended in wait_for_event() is listening exactly once *)
(* and nobody else is; a pending timer's coroutine is still asleep, so the *)
(* event and the timeout never both wake it.                               *)
SleepersListed ==
    /\ \A c \in Co :
          Cardinality({i \in DOMAIN listeners : listeners[i] = c})
              = IF status[c] = "event" THEN 1 ELSE 0
    /\ \A t \in Co : wakes[t] # None => status[t] = "wait" /\ status[wakes[t]] = "event"

(* The loop's coroutine is ready or running, and no other one is left      *)
(* ready where nothing would find it.                                      *)
LoopCoUsable ==
    \A c \in Co :
        /\ status[c] = "ready" => c = loop_co
        /\ c = loop_co => status[c] \in {"ready", "running"}

(* A pass over the timeouts ends even if everything it resumes waits again *)
(* without delay: that is what the generation counter is for.              *)
PassEnds == (scan # 0) ~> (scan = 0)

(* The comment in ev_handle_return(): "some kind of a programmer error.    *)
(* ev_loop_fn uses pcall so we should never get here".                     *)
NeverGetsHere == ~panic
=============================================================================
