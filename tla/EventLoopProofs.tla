--------------------------- MODULE EventLoopProofs ---------------------------
(***************************************************************************)
(* That no coroutine is forgotten or resumed twice, for any number of      *)
(* coroutines and whatever the scripts do.  The invariant ties each of the *)
(* three places a coroutine can be (the stack, the list of timeouts, the   *)
(* list of listeners) to its status.                                       *)
(***************************************************************************)
EXTENDS EventLoop, SequenceTheorems, FiniteSetTheorems, TLAPS

(* No element twice. *)
Once(s) == \A i, j \in 1 .. Len(s) : s[i] = s[j] => i = j

Elements(s) == {s[i] : i \in 1 .. Len(s)}

(* The coroutines that wait, in the order of their timeouts. *)
Waiters(ts) == [i \in 1 .. Len(ts) |-> ts[i].co]

Status == {"dead", "ready", "running", "wait", "event"}

(* A coroutine runs, or has resumed one that does, if it is on the stack,  *)
(* and it is there once.                                                   *)
StackInv ==
    /\ Once(stack)
    /\ \A c \in Co : status[c] = "running" <=> c \in Elements(stack)

(* One timeout for each waiting coroutine; what can be cancelled waits. *)
TimeoutsInv ==
    /\ Once(Waiters(timeouts))
    /\ \A c \in Co : status[c] = "wait" <=> c \in Elements(Waiters(timeouts))
    /\ \A c \in cds : status[c] = "wait"

(* One place among the listeners for each sleeping coroutine. *)
ListenersInv ==
    /\ Once(listeners)
    /\ \A c \in Co : status[c] = "event" <=> c \in Elements(listeners)

(* The coroutine of a timer waits, for one that sleeps and has no other    *)
(* timer; scripts have no hold of it.                                      *)
TimersInv ==
    /\ \A t \in Co : wakes[t] # None =>
          status[t] = "wait" /\ status[wakes[t]] = "event" /\ t \notin cds
    /\ \A t, u \in Co : wakes[t] # None /\ wakes[t] = wakes[u] => t = u

IInv ==
    /\ TypeOK
    /\ StackInv
    /\ TimeoutsInv
    /\ ListenersInv
    /\ TimersInv
    /\ LoopCoUsable

-----------------------------------------------------------------------------
(* Sequences without repetitions *)

(* A new element at the end. *)
LEMMA AppendOnce ==
    ASSUME NEW S, NEW s \in Seq(S), NEW x \in S, Once(s), x \notin Elements(s)
    PROVE  /\ Append(s, x) \in Seq(S)
           /\ Once(Append(s, x))
           /\ Elements(Append(s, x)) = Elements(s) \cup {x}
<1>1. /\ Append(s, x) \in Seq(S)
      /\ Len(Append(s, x)) = Len(s) + 1
      /\ \A i \in 1 .. Len(s) : Append(s, x)[i] = s[i]
      /\ Append(s, x)[Len(s) + 1] = x
      /\ Len(s) \in Nat
  BY AppendProperties
<1>2. 1 .. Len(s) + 1 = (1 .. Len(s)) \cup {Len(s) + 1}
  BY <1>1
<1>3. Once(Append(s, x))
  BY <1>1, <1>2 DEF Once, Elements
<1>4. Elements(Append(s, x)) = Elements(s) \cup {x}
  BY <1>1, <1>2 DEF Elements
<1> QED
  BY <1>1, <1>3, <1>4

(* Taking one element out of a sequence. *)
LEMMA RemoveAtOnce ==
    ASSUME NEW S, NEW s \in Seq(S), NEW k \in 1 .. Len(s)
    PROVE  /\ RemoveAt(s, k) \in Seq(S)
           /\ Len(RemoveAt(s, k)) = Len(s) - 1
           /\ \A i \in 1 .. Len(s) - 1 : RemoveAt(s, k)[i] = IF i < k THEN s[i] ELSE s[i + 1]
           /\ Once(s) => Once(RemoveAt(s, k)) /\ Elements(RemoveAt(s, k)) = Elements(s) \ {s[k]}
<1> DEFINE a == SubSeq(s, 1, k - 1)  b == SubSeq(s, k + 1, Len(s))  r == RemoveAt(s, k)
<1>1. Len(s) \in Nat /\ \A i \in 1 .. Len(s) : s[i] \in S
  BY LenProperties, ElementOfSeq
<1>2. a \in Seq(S) /\ Len(a) = k - 1 /\ \A i \in 1 .. k - 1 : a[i] = s[i]
  BY <1>1, SubSeqProperties
<1>3. b \in Seq(S) /\ Len(b) = Len(s) - k /\ \A i \in 1 .. Len(s) - k : b[i] = s[k + i]
  BY <1>1, SubSeqProperties
<1>4. r = a \o b
  BY DEF RemoveAt
<1> HIDE DEF a, b, r
<1>0. /\ a \o b \in Seq(S)
      /\ Len(a \o b) = Len(a) + Len(b)
      /\ \A i \in 1 .. Len(a) + Len(b) :
            (a \o b)[i] = IF i <= Len(a) THEN a[i] ELSE b[i - Len(a)]
  BY <1>2, <1>3, ConcatProperties
<1>9. Len(a) + Len(b) = Len(s) - 1
  BY <1>1, <1>2, <1>3
<1>5. r \in Seq(S) /\ Len(r) = Len(s) - 1
  BY <1>0, <1>9, <1>4, Zenon
<1>6. ASSUME NEW i \in 1 .. Len(s) - 1
      PROVE  r[i] = IF i < k THEN s[i] ELSE s[i + 1]
  <2>1. CASE i < k
    BY <1>0, <1>1, <1>2, <1>3, <1>4, <2>1
  <2>2. CASE ~(i < k)
    <3>1. i - (k - 1) \in 1 .. Len(s) - k
      BY <1>1, <2>2
    <3>2. b[i - (k - 1)] = s[k + (i - (k - 1))]
      BY <1>3, <3>1
    <3>3. i \in 1 .. Len(a) + Len(b) /\ ~(i <= Len(a)) /\ k + (i - (k - 1)) = i + 1
      BY <1>1, <1>2, <1>9, <2>2
    <3>4. r[i] = b[i - Len(a)]
      BY <1>0, <1>4, <3>3
    <3> QED
      BY <1>2, <2>2, <3>2, <3>3, <3>4
  <2> QED
    BY <2>1, <2>2
<1>7. ASSUME Once(s) PROVE Once(r) /\ Elements(r) = Elements(s) \ {s[k]}
  <2>1. Once(r)
    BY <1>1, <1>5, <1>6, <1>7 DEF Once
  <2>2. ASSUME NEW j \in 1 .. Len(s), j # k
        PROVE  s[j] \in Elements(r)
    <3>1. CASE j < k
      BY <1>1, <1>5, <1>6, <3>1 DEF Elements
    <3>2. CASE j > k
      <4>1. j - 1 \in 1 .. Len(r) /\ r[j - 1] = s[j]
        BY <1>1, <1>5, <1>6, <3>2
      <4> QED
        BY <4>1 DEF Elements
    <3> QED
      BY <1>1, <2>2, <3>1, <3>2
  <2>3. ASSUME NEW i \in 1 .. Len(r)
        PROVE  r[i] \in Elements(s) \ {s[k]}
    BY <1>1, <1>5, <1>6, <1>7 DEF Once, Elements
  <2> QED
    BY <2>1, <2>2, <2>3, <1>7 DEF Elements
<1> QED
  BY <1>5, <1>6, <1>7 DEF r

(* The last element is taken off. *)
LEMMA FrontOnce ==
    ASSUME NEW S, NEW s \in Seq(S), s # <<>>, Once(s)
    PROVE  /\ Front(s) \in Seq(S)
           /\ Once(Front(s))
           /\ Last(s) \in S /\ Last(s) \in Elements(s)
           /\ Elements(Front(s)) = Elements(s) \ {Last(s)}
<1>1. /\ Len(s) \in Nat /\ Len(s) > 0
      /\ \A i \in 1 .. Len(s) : s[i] \in S
  BY LenProperties, ElementOfSeq, EmptySeq
<1>2. /\ Front(s) \in Seq(S) /\ Len(Front(s)) = Len(s) - 1
      /\ \A i \in 1 .. Len(s) - 1 : Front(s)[i] = s[i]
  <2>1. /\ SubSeq(s, 1, Len(s) - 1) \in Seq(S)
        /\ Len(SubSeq(s, 1, Len(s) - 1)) = Len(s) - 1
        /\ \A i \in 1 .. Len(s) - 1 : SubSeq(s, 1, Len(s) - 1)[i] = s[i]
    <3> DEFINE n == Len(s) - 1
    <3>1. 1 \in Int /\ n \in Int /\ \A i \in 1 .. n : s[i] \in S
      BY <1>1
    <3>2. n >= 0 /\ n - 1 + 1 = n /\ \A i \in 1 .. n : 1 + i - 1 = i
      BY <1>1
    <3> HIDE DEF n
    <3>3. /\ SubSeq(s, 1, n) \in Seq(S)
          /\ Len(SubSeq(s, 1, n)) = IF 1 <= n THEN n - 1 + 1 ELSE 0
          /\ \A i \in 1 .. n - 1 + 1 : SubSeq(s, 1, n)[i] = s[1 + i - 1]
      BY <3>1, SubSeqProperties
    <3>4. Len(SubSeq(s, 1, n)) = n /\ \A i \in 1 .. n : SubSeq(s, 1, n)[i] = s[i]
      BY <3>1, <3>2, <3>3
    <3> QED
      BY <3>3, <3>4 DEF n
  <2> QED
    BY <2>1 DEF Front
<1>3. Once(Front(s))
  BY <1>1, <1>2 DEF Once
<1>4. Elements(Front(s)) = Elements(s) \ {Last(s)}
  BY <1>1, <1>2 DEF Elements, Last, Once
<1>5. Last(s) \in S /\ Last(s) \in Elements(s)
  BY <1>1 DEF Last, Elements
<1> QED
  BY <1>2, <1>3, <1>4, <1>5

(* table.remove() of the only index there is, if any. *)
LEMMA RemoveFirstAtOnce ==
    ASSUME NEW S, NEW s \in Seq(S), NEW I \in SUBSET (1 .. Len(s)),
           \A i, j \in I : i = j
    PROVE  \/ I = {} /\ RemoveFirstAt(s, I) = s
           \/ \E k \in I : RemoveFirstAt(s, I) = RemoveAt(s, k)
<1>1. CASE I # {}
  <2>1. PICK k \in I : I = {k}
    BY <1>1
  <2>2. Len(s) \in Nat /\ k \in Int
    BY LenProperties
  <2>3. Min(I) = k
    BY <2>1, <2>2 DEF Min
  <2> QED
    BY <1>1, <2>3 DEF RemoveFirstAt
<1> QED
  BY <1>1 DEF RemoveFirstAt

(* A listener is taken from the list, if it is there. *)
LEMMA UnlistOnce ==
    ASSUME NEW S, listeners \in Seq(S), Once(listeners), NEW cb
    PROVE  /\ Unlist(cb) \in Seq(S)
           /\ Once(Unlist(cb))
           /\ Elements(Unlist(cb)) = Elements(listeners) \ {cb}
<1> DEFINE I == {i \in DOMAIN listeners : listeners[i] = cb}
<1>1. DOMAIN listeners = 1 .. Len(listeners) /\ Len(listeners) \in Nat
  BY LenProperties
<1>2. I \in SUBSET (1 .. Len(listeners)) /\ \A i, j \in I : i = j
  BY <1>1 DEF Once
<1>3. \/ I = {} /\ Unlist(cb) = listeners
      \/ \E k \in I : Unlist(cb) = RemoveAt(listeners, k)
  BY <1>2, RemoveFirstAtOnce DEF Unlist
<1>4. CASE I = {}
  BY <1>1, <1>3, <1>4 DEF Elements
<1>5. ASSUME NEW k \in I, Unlist(cb) = RemoveAt(listeners, k)
      PROVE  /\ Unlist(cb) \in Seq(S)
             /\ Once(Unlist(cb))
             /\ Elements(Unlist(cb)) = Elements(listeners) \ {cb}
  <2>1. k \in 1 .. Len(listeners) /\ listeners[k] = cb
    BY <1>2
  <2> QED
    BY <2>1, <1>5, RemoveAtOnce
<1> QED
  BY <1>3, <1>4, <1>5

-----------------------------------------------------------------------------
(* The list of timeouts *)

(* Who waits, by place in the list. *)
LEMMA WaitersType ==
    ASSUME NEW ts \in Seq(Timeout)
    PROVE  /\ Waiters(ts) \in Seq(Co)
           /\ Len(Waiters(ts)) = Len(ts)
           /\ \A i \in 1 .. Len(ts) : Waiters(ts)[i] = ts[i].co
<1>1. Len(ts) \in Nat /\ \A i \in 1 .. Len(ts) : ts[i] \in Timeout
  BY LenProperties, ElementOfSeq
<1>2. \A i \in 1 .. Len(ts) : ts[i].co \in Co
  BY <1>1 DEF Timeout
<1> QED
  BY <1>1, <1>2 DEF Waiters

(* A coroutine that waits nowhere is added. *)
LEMMA TimeoutAdded ==
    ASSUME NEW ts \in Seq(Timeout), NEW t \in Timeout,
           Once(Waiters(ts)), t.co \notin Elements(Waiters(ts))
    PROVE  /\ Append(ts, t) \in Seq(Timeout)
           /\ Once(Waiters(Append(ts, t)))
           /\ Elements(Waiters(Append(ts, t))) = Elements(Waiters(ts)) \cup {t.co}
<1>1. t.co \in Co
  BY DEF Timeout
<1>2. /\ Append(ts, t) \in Seq(Timeout)
      /\ Len(Append(ts, t)) = Len(ts) + 1
      /\ \A i \in 1 .. Len(ts) : Append(ts, t)[i] = ts[i]
      /\ Append(ts, t)[Len(ts) + 1] = t
  BY AppendProperties
<1>3. Waiters(Append(ts, t)) = Append(Waiters(ts), t.co)
  <2>1. Append(Waiters(ts), t.co) = [i \in 1 .. Len(Waiters(ts)) + 1 |->
                                        IF i = Len(Waiters(ts)) + 1 THEN t.co ELSE Waiters(ts)[i]]
    BY <1>1, WaitersType
  <2> QED
    BY <1>2, <2>1, WaitersType, LenProperties DEF Waiters
<1> QED
  BY <1>1, <1>2, <1>3, WaitersType, AppendOnce

(* One is taken out. *)
LEMMA TimeoutRemoved ==
    ASSUME NEW ts \in Seq(Timeout), NEW k \in 1 .. Len(ts), Once(Waiters(ts))
    PROVE  /\ RemoveAt(ts, k) \in Seq(Timeout)
           /\ Once(Waiters(RemoveAt(ts, k)))
           /\ Elements(Waiters(RemoveAt(ts, k))) = Elements(Waiters(ts)) \ {ts[k].co}
<1>1. /\ RemoveAt(ts, k) \in Seq(Timeout)
      /\ Len(RemoveAt(ts, k)) = Len(ts) - 1
      /\ \A i \in 1 .. Len(ts) - 1 : RemoveAt(ts, k)[i] = IF i < k THEN ts[i] ELSE ts[i + 1]
  BY RemoveAtOnce
<1>2. /\ RemoveAt(Waiters(ts), k) \in Seq(Co)
      /\ Len(RemoveAt(Waiters(ts), k)) = Len(ts) - 1
      /\ \A i \in 1 .. Len(ts) - 1 :
            RemoveAt(Waiters(ts), k)[i] = IF i < k THEN ts[i].co ELSE ts[i + 1].co
      /\ Once(RemoveAt(Waiters(ts), k))
      /\ Elements(RemoveAt(Waiters(ts), k)) = Elements(Waiters(ts)) \ {ts[k].co}
  <2> DEFINE ws == Waiters(ts)
  <2>1. ws \in Seq(Co) /\ Len(ws) = Len(ts) /\ \A i \in 1 .. Len(ts) : ws[i] = ts[i].co
    BY WaitersType
  <2>2. Len(ts) \in Nat /\ Once(ws)
    BY LenProperties
  <2> HIDE DEF ws
  <2>3. /\ RemoveAt(ws, k) \in Seq(Co)
        /\ Len(RemoveAt(ws, k)) = Len(ts) - 1
        /\ \A i \in 1 .. Len(ts) - 1 : RemoveAt(ws, k)[i] = IF i < k THEN ws[i] ELSE ws[i + 1]
        /\ Once(RemoveAt(ws, k))
        /\ Elements(RemoveAt(ws, k)) = Elements(ws) \ {ws[k]}
    BY <2>1, <2>2, RemoveAtOnce
  <2>4. \A i \in 1 .. Len(ts) - 1 :
           (IF i < k THEN ws[i] ELSE ws[i + 1]) = IF i < k THEN ts[i].co ELSE ts[i + 1].co
    BY <2>1, <2>2
  <2> QED
    BY <2>1, <2>3, <2>4, SMTT(30) DEF ws
<1>3. Waiters(RemoveAt(ts, k)) = RemoveAt(Waiters(ts), k)
  BY <1>1, <1>2, WaitersType, SeqEqual
<1> QED
  BY <1>1, <1>2, <1>3

-----------------------------------------------------------------------------
(* What running, yielding and waking do to the invariant *)

Asleep(d) == status[d] \in {"wait", "event"}

(* Nobody falls asleep or wakes up among D. *)
NobodyMoves(D) ==
    \A d \in D : (Asleep(d) <=> Asleep(d)') /\ (Asleep(d) => status'[d] = status[d])

(* The stack and the statuses are those of some coroutines. *)
CoTypes == stack \in Seq(Co) /\ status \in [Co -> Status] /\ loop_co \in Co

(* The context that runs is a running coroutine, or the main thread. *)
LEMMA TopRuns ==
    ASSUME IInv, NEW c, Top = c, c # Main
    PROVE  c \in Co /\ stack # <<>> /\ c = Last(stack) /\ status[c] = "running"
<1>1. stack # <<>> /\ c = Last(stack)
  BY DEF Top
<1>2. Last(stack) \in Co /\ Last(stack) \in Elements(stack)
  BY <1>1, FrontOnce DEF IInv, TypeOK, StackInv
<1> QED
  BY <1>1, <1>2 DEF IInv, StackInv

(* The lists stay right when nobody falls asleep or wakes up. *)
LEMMA NobodyMovesStep ==
    ASSUME IInv, NobodyMoves(Co), UNCHANGED <<timeouts, listeners, wakes, cds>>
    PROVE  TimeoutsInv' /\ ListenersInv' /\ TimersInv'
<1>1. \A c \in Co : /\ status'[c] = "wait" <=> status[c] = "wait"
                    /\ status'[c] = "event" <=> status[c] = "event"
  BY DEF NobodyMoves, Asleep
<1>2. cds \subseteq Co /\ wakes \in [Co -> Co \cup {None}]
  BY DEF IInv, TypeOK
<1>3. TimeoutsInv'
  BY <1>1, <1>2 DEF IInv, TimeoutsInv
<1>4. ListenersInv'
  BY <1>1 DEF IInv, ListenersInv
<1>5. TimersInv'
  BY <1>1, <1>2, EventLoopAssumption DEF IInv, TimersInv
<1> QED
  BY <1>3, <1>4, <1>5

(* A coroutine that was not on the stack is resumed. *)
LEMMA PushStep ==
    ASSUME IInv, NEW c \in Co, status[c] # "running",
           stack' = Append(stack, c), status'[c] = "running", status' \in [Co -> Status],
           \A d \in Co \ {c} : status'[d] = "running" <=> status[d] = "running"
    PROVE  stack' \in Seq(Co) /\ StackInv'
<1>1. stack \in Seq(Co) /\ Once(stack) /\ c \notin Elements(stack)
  BY DEF IInv, TypeOK, StackInv
<1>2. /\ Append(stack, c) \in Seq(Co)
      /\ Once(Append(stack, c))
      /\ Elements(Append(stack, c)) = Elements(stack) \cup {c}
  BY <1>1, AppendOnce
<1> QED
  BY <1>2 DEF IInv, StackInv

(* The running coroutine leaves the stack; whoever becomes the loop's next *)
(* coroutine was free, or is the one that died.                            *)
LEMMA LeaveStep ==
    ASSUME IInv, NEW c, c = Top, c # Main,
           NEW st \in Status \ {"running"}, st = "ready" => c = loop_co,
           Leave(c, st)
    PROVE  /\ CoTypes' /\ StackInv' /\ LoopCoUsable'
           /\ NobodyMoves(Co \ {c})
           /\ st \in {"wait", "event"} => status'[c] = st
           /\ st \in {"dead", "ready"} => status'[c] \in {"dead", "ready"}
<1>1. c \in Co /\ stack # <<>> /\ c = Last(stack) /\ status[c] = "running"
  BY TopRuns
<1>2. stack \in Seq(Co) /\ Once(stack) /\ status \in [Co -> Status] /\ loop_co \in Co
  BY DEF IInv, TypeOK, StackInv, Status
<1>3. /\ stack' \in Seq(Co) /\ Once(stack')
      /\ Elements(stack') = Elements(stack) \ {c}
  BY <1>1, <1>2, FrontOnce DEF Leave
<1>4. CASE c = loop_co /\ st # "ready"
  <2>1. PICK new \in Free \cup (IF st = "dead" THEN {c} ELSE {}) :
           loop_co' = new /\ status' = [status EXCEPT ![c] = st, ![new] = "ready"]
    BY <1>4 DEF Leave
  <2>2. new \in Co /\ (new # c => status[new] = "dead") /\ (new = c => st = "dead")
    BY <1>1, <2>1 DEF Free
  <2>3. status' \in [Co -> Status]
    BY <1>2, <2>1, <2>2 DEF Status
  <2>4. /\ status'[new] = "ready" /\ (new # c => status'[c] = st)
        /\ \A d \in Co \ {c, new} : status'[d] = status[d]
    BY <1>1, <1>2, <2>1, <2>2
  <2>5. StackInv'
    BY <1>1, <1>2, <1>3, <2>2, <2>4 DEF IInv, StackInv, Status
  <2>6. LoopCoUsable'
    BY <1>1, <1>4, <2>1, <2>2, <2>4 DEF IInv, LoopCoUsable, Status
  <2>7. NobodyMoves(Co \ {c})
    BY <2>2, <2>4 DEF NobodyMoves, Asleep
  <2> QED
    BY <1>3, <2>1, <2>2, <2>3, <2>4, <2>5, <2>6, <2>7 DEF CoTypes
<1>5. CASE ~(c = loop_co /\ st # "ready")
  <2>1. status' = [status EXCEPT ![c] = st] /\ loop_co' = loop_co
    BY <1>5 DEF Leave
  <2>2. status' \in [Co -> Status] /\ status'[c] = st /\ \A d \in Co \ {c} : status'[d] = status[d]
    BY <1>1, <1>2, <2>1
  <2>3. StackInv'
    BY <1>1, <1>2, <1>3, <2>2 DEF IInv, StackInv
  <2>4. LoopCoUsable'
    BY <1>1, <1>5, <2>1, <2>2 DEF IInv, LoopCoUsable, Status
  <2>5. NobodyMoves(Co \ {c})
    BY <2>2 DEF NobodyMoves, Asleep
  <2> QED
    BY <1>2, <1>3, <2>1, <2>2, <2>3, <2>4, <2>5 DEF CoTypes
<1> QED
  BY <1>4, <1>5

(* A function is called in a coroutine that was ready or free. *)
LEMMA CallStep ==
    ASSUME IInv, NEW x, x = Top, EvCall(x)
    PROVE  CoTypes' /\ StackInv' /\ LoopCoUsable' /\ NobodyMoves(Co)
<1>1. PICK c \in Called(x) : loop_co' = c /\ Push(c)
  BY DEF EvCall
<1>2. status \in [Co -> Status] /\ loop_co \in Co
  BY DEF IInv, TypeOK, Status
<1>3. c \in Co /\ status[c] \in {"dead", "ready"}
  BY <1>1, <1>2 DEF EvCall, CanCall, Called, Free
<1>4. /\ stack' = Append(stack, c) /\ status' \in [Co -> Status] /\ status'[c] = "running"
      /\ \A d \in Co \ {c} : status'[d] = status[d]
  BY <1>1, <1>2, <1>3 DEF Push, Status
<1>5. stack' \in Seq(Co) /\ StackInv'
  BY <1>3, <1>4, PushStep
<1>6. x = loop_co => status[loop_co] = "running"
  BY <1>2, TopRuns, EventLoopAssumption
<1>7. LoopCoUsable'
  BY <1>1, <1>2, <1>3, <1>4, <1>6 DEF IInv, LoopCoUsable, Called
<1>8. NobodyMoves(Co)
  BY <1>3, <1>4 DEF NobodyMoves, Asleep
<1> QED
  BY <1>1, <1>3, <1>4, <1>5, <1>7, <1>8 DEF CoTypes

(* Where no function can be called there is a coroutine to die of it. *)
LEMMA CallFailsStep ==
    ASSUME IInv, NEW x, x = Top, CallFails(x)
    PROVE  /\ CoTypes' /\ StackInv' /\ LoopCoUsable' /\ NobodyMoves(Co)
           /\ panic' = TRUE
<1>1. x # Main
  <2>1. CASE stack = <<>>
    <3>1. \A c \in Co : status[c] # "running"
      BY <2>1, EmptySeq DEF IInv, StackInv, Elements
    <3> QED
      BY <3>1 DEF IInv, TypeOK, LoopCoUsable, CallFails, CanCall
  <2>2. CASE stack # <<>>
    <3>1. Last(stack) \in Co
      BY <2>2, FrontOnce DEF IInv, TypeOK, StackInv
    <3> QED
      BY <2>2, <3>1, EventLoopAssumption DEF Top
  <2> QED
    BY <2>1, <2>2
<1>2. Leave(x, "dead") /\ panic' = TRUE
  BY DEF CallFails
<1>3. /\ CoTypes' /\ StackInv' /\ LoopCoUsable'
      /\ NobodyMoves(Co \ {x}) /\ status'[x] \in {"dead", "ready"}
  BY <1>1, <1>2, LeaveStep DEF Status
<1>4. status[x] = "running"
  BY <1>1, TopRuns
<1> QED
  BY <1>2, <1>3, <1>4 DEF NobodyMoves, Asleep

(* A sleeping coroutine wakes: it is taken from the listeners, and its     *)
(* timer from the timeouts. *)
LEMMA WakeStep ==
    ASSUME IInv, NEW x \in Co, status[x] = "event",
           NEW rest \in [Co \cup {Main} -> Seq(Co \cup {Fn})],
           Wake(x, rest), UNCHANGED <<loop_co, cds>>
    PROVE  /\ CoTypes' /\ StackInv' /\ LoopCoUsable'
           /\ TimeoutsInv' /\ ListenersInv' /\ TimersInv'
           /\ timeouts' \in Seq(Timeout) /\ listeners' \in Seq(Co \cup {Fn})
           /\ firing' \in [Co \cup {Main} -> Seq(Co \cup {Fn})]
           /\ wakes' \in [Co -> Co \cup {None}]
<1>1. /\ stack \in Seq(Co) /\ status \in [Co -> Status] /\ loop_co \in Co
      /\ timeouts \in Seq(Timeout) /\ listeners \in Seq(Co \cup {Fn})
      /\ wakes \in [Co -> Co \cup {None}] /\ cds \subseteq Co
  BY DEF IInv, TypeOK, Status
<1>2. /\ status' \in [Co -> Status]
      /\ \A c \in Co : status'[c] = IF c = x THEN "running"
                                    ELSE IF wakes[c] = x THEN "dead" ELSE status[c]
  BY <1>1 DEF Wake, Status
<1>3. /\ wakes' \in [Co -> Co \cup {None}]
      /\ \A c \in Co : wakes'[c] = IF wakes[c] = x THEN None ELSE wakes[c]
  BY <1>1 DEF Wake
<1>4. \A c \in Co : wakes[c] = x => status[c] = "wait" /\ c \notin cds /\ c # x
  BY EventLoopAssumption DEF IInv, TimersInv
<1>5. stack' \in Seq(Co) /\ StackInv'
  <2>1. stack' = Append(stack, x)
    BY DEF Wake
  <2>2. \A d \in Co \ {x} : status'[d] = "running" <=> status[d] = "running"
    BY <1>2, <1>4
  <2> QED
    BY <1>2, <2>1, <2>2, PushStep
<1>6. LoopCoUsable'
  BY <1>1, <1>2, <1>4 DEF IInv, LoopCoUsable
<1>7. listeners' \in Seq(Co \cup {Fn}) /\ ListenersInv'
  <2>1. listeners' = Unlist(x)
    BY DEF Wake
  <2>2. /\ Unlist(x) \in Seq(Co \cup {Fn}) /\ Once(Unlist(x))
        /\ Elements(Unlist(x)) = Elements(listeners) \ {x}
    BY <1>1, UnlistOnce DEF IInv, ListenersInv
  <2> QED
    BY <1>2, <1>4, <2>1, <2>2 DEF IInv, ListenersInv
<1>8. firing' \in [Co \cup {Main} -> Seq(Co \cup {Fn})]
  <2>1. NotFiring \in [Co \cup {Main} -> Seq(Co \cup {Fn})]
    BY EmptySeq DEF NotFiring
  <2> QED
    BY <2>1 DEF Wake
<1>9. timeouts' \in Seq(Timeout) /\ TimeoutsInv'
  <2> DEFINE I == {i \in DOMAIN timeouts : wakes[timeouts[i].co] = x}
  <2>1. Once(Waiters(timeouts))
    BY DEF IInv, TimeoutsInv
  <2>2. /\ I \in SUBSET (1 .. Len(timeouts))
        /\ \A i \in I : timeouts[i].co \in Co /\ wakes[timeouts[i].co] = x
        /\ \A i \in I : Waiters(timeouts)[i] = timeouts[i].co
    <3>1. DOMAIN timeouts = 1 .. Len(timeouts) /\ Len(timeouts) \in Nat
      BY <1>1, LenProperties
    <3>2. \A i \in 1 .. Len(timeouts) : timeouts[i] \in Timeout
      BY <1>1, <3>1, ElementOfSeq
    <3>3. \A i \in 1 .. Len(timeouts) : timeouts[i].co \in Co
      BY <3>2 DEF Timeout
    <3> QED
      BY <1>1, <3>1, <3>3, WaitersType
  <2>3. ASSUME NEW i \in I, NEW j \in I PROVE i = j
    <3>1. timeouts[i].co = timeouts[j].co
      BY <1>1, <2>2, EventLoopAssumption DEF IInv, TimersInv
    <3> QED
      BY <1>1, <2>1, <2>2, <3>1, WaitersType DEF Once
  <2>4. \/ I = {} /\ timeouts' = timeouts
        \/ \E k \in I : timeouts' = RemoveAt(timeouts, k)
    BY <1>1, <2>2, <2>3, RemoveFirstAtOnce DEF Wake
  <2>5. CASE I = {}
    <3>1. \A c \in Co : wakes[c] = x => FALSE
      <4>1. SUFFICES ASSUME NEW c \in Co, wakes[c] = x PROVE FALSE
        OBVIOUS
      <4>2. c \in Elements(Waiters(timeouts))
        BY <1>4, <4>1 DEF IInv, TimeoutsInv
      <4>3. PICK i \in 1 .. Len(timeouts) : timeouts[i].co = c
        BY <1>1, <4>2, WaitersType DEF Elements
      <4>4. i \in I
        BY <1>1, <4>1, <4>3, LenProperties
      <4> QED
        BY <2>5, <4>4
    <3>2. \A c \in Co : status'[c] = "wait" <=> status[c] = "wait"
      BY <1>2, <3>1
    <3> QED
      BY <1>1, <2>4, <2>5, <3>2 DEF IInv, TimeoutsInv
  <2>6. ASSUME NEW k \in I, timeouts' = RemoveAt(timeouts, k)
        PROVE  timeouts' \in Seq(Timeout) /\ TimeoutsInv'
    <3> DEFINE t == timeouts[k].co
    <3>1. k \in 1 .. Len(timeouts) /\ t \in Co /\ wakes[t] = x
      BY <2>2
    <3>2. /\ RemoveAt(timeouts, k) \in Seq(Timeout)
          /\ Once(Waiters(RemoveAt(timeouts, k)))
          /\ Elements(Waiters(RemoveAt(timeouts, k))) = Elements(Waiters(timeouts)) \ {t}
      BY <1>1, <2>1, <3>1, TimeoutRemoved
    <3> HIDE DEF t
    <3>3. \A c \in Co : wakes[c] = x => c = t
      BY <3>1, EventLoopAssumption DEF IInv, TimersInv
    <3>4. \A c \in Co : status'[c] = "wait" <=> status[c] = "wait" /\ c # t
      BY <1>2, <1>4, <3>1, <3>3
    <3>5. \A c \in cds : status'[c] = "wait"
      BY <1>1, <1>4, <3>1, <3>4 DEF IInv, TimeoutsInv
    <3> QED
      BY <2>6, <3>2, <3>4, <3>5 DEF IInv, TimeoutsInv
  <2> QED
    BY <2>4, <2>5, <2>6
<1>10. TimersInv'
  BY <1>1, <1>2, <1>3, <1>4, EventLoopAssumption DEF IInv, TimersInv
<1> QED
  BY <1>1, <1>2, <1>3, <1>5, <1>6, <1>7, <1>8, <1>9, <1>10 DEF CoTypes

-----------------------------------------------------------------------------
(* The actions *)

(* What the types of the lists and their invariants come to. *)
ListTypes ==
    /\ timeouts \in Seq(Timeout)
    /\ gen \in 1 .. MaxGen + 1
    /\ scan \in 0 .. MaxGen
    /\ listeners \in Seq(Co \cup {Fn})
    /\ firing \in [Co \cup {Main} -> Seq(Co \cup {Fn})]
    /\ wakes \in [Co -> Co \cup {None}]
    /\ cds \subseteq Co
    /\ panic \in BOOLEAN

(* The type invariant without the copies that ev_call() has no part in. *)
LEMMA TypesSplit == TypeOK <=> CoTypes /\ ListTypes
  BY DEF TypeOK, CoTypes, ListTypes, Status

(* A step of the running coroutine that only calls a function, or fails    *)
(* to, touches no list. *)
LEMMA CallOrFail ==
    ASSUME IInv, NEW x, x = Top,
           EvCall(x) \/ CallFails(x),
           UNCHANGED <<timeouts, gen, scan, listeners, wakes, cds>>,
           firing' \in [Co \cup {Main} -> Seq(Co \cup {Fn})]
    PROVE  IInv'
<1>1. CoTypes' /\ StackInv' /\ LoopCoUsable' /\ NobodyMoves(Co)
  BY CallStep, CallFailsStep
<1>2. TimeoutsInv' /\ ListenersInv' /\ TimersInv'
  BY <1>1, NobodyMovesStep
<1>3. panic' \in BOOLEAN
  BY CallFailsStep DEF EvCall, IInv, TypeOK
<1>4. ListTypes'
  BY <1>3, TypesSplit DEF IInv, ListTypes
<1> QED
  BY <1>1, <1>2, <1>4 DEF IInv, TypeOK, CoTypes, ListTypes, Status

(* The running coroutine c yields to wait: with an entry for it, ... *)
LEMMA WaitStep ==
    ASSUME IInv, NEW c \in Co, NEW ms \in 0 .. MaxDelay, NEW cancellable \in BOOLEAN,
           Wait(c, ms, cancellable)
    PROVE  IInv'
<1>1. c = Top /\ c # Main /\ Leave(c, "wait")
  BY DEF Wait, RunsScript
<1>2. status[c] = "running"
  BY <1>1, TopRuns
<1>3. /\ CoTypes' /\ StackInv' /\ LoopCoUsable'
      /\ NobodyMoves(Co \ {c}) /\ status'[c] = "wait"
  BY <1>1, LeaveStep DEF Status
<1>4. ListTypes
  BY TypesSplit DEF IInv
<1> DEFINE t == [co |-> c, left |-> ms, gen |-> gen]
<1>5. t \in Timeout /\ t.co = c
  BY <1>4 DEF Timeout, ListTypes
<1>6. timeouts' = Append(timeouts, t)
  BY DEF Wait
<1> HIDE DEF t
<1>7. c \notin Elements(Waiters(timeouts))
  BY <1>2 DEF IInv, TimeoutsInv
<1>8. /\ timeouts' \in Seq(Timeout)
      /\ Once(Waiters(timeouts'))
      /\ Elements(Waiters(timeouts')) = Elements(Waiters(timeouts)) \cup {c}
  BY <1>4, <1>5, <1>6, <1>7, TimeoutAdded DEF ListTypes, IInv, TimeoutsInv
<1>9. \A d \in Co \ {c} : /\ status'[d] = "wait" <=> status[d] = "wait"
                          /\ status'[d] = "event" <=> status[d] = "event"
  BY <1>3 DEF NobodyMoves, Asleep
<1>10. cds' \subseteq cds \cup {c}
  BY DEF Wait
<1>11. TimeoutsInv'
  BY <1>3, <1>4, <1>8, <1>9, <1>10 DEF IInv, TimeoutsInv, ListTypes
<1>12. UNCHANGED <<gen, scan, listeners, firing, wakes, panic>>
  BY DEF Wait
<1>13. ListenersInv'
  BY <1>2, <1>3, <1>9, <1>12 DEF IInv, ListenersInv
<1>14. TimersInv'
  BY <1>2, <1>3, <1>4, <1>9, <1>10, <1>12, EventLoopAssumption DEF IInv, TimersInv, ListTypes
<1>15. ListTypes'
  BY <1>4, <1>8, <1>10, <1>12 DEF ListTypes
<1> QED
  BY <1>3, <1>11, <1>13, <1>14, <1>15 DEF IInv, TypeOK, CoTypes, ListTypes, Status

(* ... for an event, ... *)
LEMMA WaitForEventStep ==
    ASSUME IInv, NEW c \in Co, WaitForEvent(c)
    PROVE  IInv'
<1>1. c = Top /\ c # Main /\ Leave(c, "event")
  BY DEF WaitForEvent, RunsScript
<1>2. status[c] = "running"
  BY <1>1, TopRuns
<1>3. /\ CoTypes' /\ StackInv' /\ LoopCoUsable'
      /\ NobodyMoves(Co \ {c}) /\ status'[c] = "event"
  BY <1>1, LeaveStep DEF Status
<1>4. ListTypes
  BY TypesSplit DEF IInv
<1>5. /\ Append(listeners, c) \in Seq(Co \cup {Fn})
      /\ Once(Append(listeners, c))
      /\ Elements(Append(listeners, c)) = Elements(listeners) \cup {c}
  BY <1>2, <1>4, AppendOnce DEF IInv, ListenersInv, ListTypes
<1>6. /\ listeners' = Append(listeners, c)
      /\ UNCHANGED <<timeouts, gen, scan, firing, wakes, cds, panic>>
  BY DEF WaitForEvent
<1>7. \A d \in Co \ {c} : /\ status'[d] = "wait" <=> status[d] = "wait"
                          /\ status'[d] = "event" <=> status[d] = "event"
  BY <1>3 DEF NobodyMoves, Asleep
<1>8. TimeoutsInv'
  BY <1>2, <1>3, <1>4, <1>6, <1>7 DEF IInv, TimeoutsInv, ListTypes
<1>9. ListenersInv'
  BY <1>3, <1>5, <1>6, <1>7 DEF IInv, ListenersInv
<1>10. TimersInv'
  BY <1>2, <1>3, <1>4, <1>6, <1>7, EventLoopAssumption DEF IInv, TimersInv, ListTypes
<1>11. ListTypes'
  BY <1>4, <1>5, <1>6 DEF ListTypes
<1> QED
  BY <1>3, <1>8, <1>9, <1>10, <1>11 DEF IInv, TypeOK, CoTypes, ListTypes, Status

(* ... or is over. *)
LEMMA EndStep ==
    ASSUME IInv, NEW c \in Co, Return(c) \/ Fail(c)
    PROVE  IInv'
<1>1. /\ c = Top /\ c # Main
      /\ UNCHANGED <<timeouts, gen, scan, listeners, firing, wakes, cds, panic>>
  BY DEF Return, Fail, RunsScript
<1>2. PICK st \in {"dead", "ready"} : Leave(c, st) /\ (st = "ready" => c = loop_co)
  BY DEF Return, Fail
<1>3. /\ CoTypes' /\ StackInv' /\ LoopCoUsable'
      /\ NobodyMoves(Co \ {c}) /\ status'[c] \in {"dead", "ready"}
  BY <1>1, <1>2, LeaveStep DEF Status
<1>4. status[c] = "running"
  BY <1>1, TopRuns
<1>5. NobodyMoves(Co)
  BY <1>3, <1>4 DEF NobodyMoves, Asleep
<1>6. TimeoutsInv' /\ ListenersInv' /\ TimersInv'
  BY <1>1, <1>5, NobodyMovesStep
<1>7. ListTypes'
  BY <1>1, TypesSplit DEF IInv, ListTypes
<1> QED
  BY <1>3, <1>6, <1>7 DEF IInv, TypeOK, CoTypes, ListTypes, Status

(* A waiting coroutine d whose timer wakes nobody runs at once: it is      *)
(* taken out of the list.                                                  *)
LEMMA ResumeStep ==
    ASSUME IInv, NEW d \in Co, status[d] = "wait", wakes[d] = None,
           NEW k \in 1 .. Len(timeouts), timeouts[k].co = d,
           timeouts' = RemoveAt(timeouts, k), cds' = cds \ {d}, Push(d),
           UNCHANGED <<loop_co, gen, scan, listeners, firing, wakes, panic>>
    PROVE  IInv'
<1>1. ListTypes /\ CoTypes
  BY TypesSplit DEF IInv
<1>2. /\ status' \in [Co -> Status] /\ status'[d] = "running"
      /\ \A e \in Co \ {d} : status'[e] = status[e]
  BY <1>1 DEF Push, CoTypes, Status
<1>3. stack' \in Seq(Co) /\ StackInv'
  <2>1. stack' = Append(stack, d)
    BY DEF Push
  <2> QED
    BY <1>2, <2>1, PushStep
<1>4. /\ timeouts' \in Seq(Timeout)
      /\ Once(Waiters(timeouts'))
      /\ Elements(Waiters(timeouts')) = Elements(Waiters(timeouts)) \ {d}
  BY <1>1, TimeoutRemoved DEF ListTypes, IInv, TimeoutsInv
<1>5. TimeoutsInv'
  BY <1>1, <1>2, <1>4 DEF IInv, TimeoutsInv, ListTypes
<1>6. ListenersInv'
  BY <1>2 DEF IInv, ListenersInv
<1>7. TimersInv'
  <2>1. ASSUME NEW t \in Co, wakes[t] # None
        PROVE  status'[t] = "wait" /\ status'[wakes[t]] = "event" /\ t \notin cds'
    <3>1. wakes[t] \in Co
      BY <2>1 DEF IInv, TypeOK
    <3>2. t # d /\ wakes[t] # d
      <4>1. status[wakes[t]] = "event"
        BY <2>1 DEF IInv, TimersInv
      <4> QED
        BY <2>1, <4>1
    <3> QED
      BY <1>2, <2>1, <3>1, <3>2 DEF IInv, TimersInv
  <2> QED
    BY <2>1 DEF IInv, TimersInv
<1>8. LoopCoUsable'
  BY <1>2 DEF IInv, LoopCoUsable
<1>9. ListTypes'
  BY <1>1, <1>4 DEF ListTypes
<1> QED
  BY <1>1, <1>2, <1>3, <1>5, <1>6, <1>7, <1>8, <1>9
     DEF IInv, TypeOK, CoTypes, ListTypes, Status

(* The place of a waiting coroutine in the list. *)
LEMMA PlaceOfWaiter ==
    ASSUME IInv, NEW d \in Co, status[d] = "wait"
    PROVE  LET I == {i \in DOMAIN timeouts : timeouts[i].co = d} IN
           I # {} /\ I \in SUBSET (1 .. Len(timeouts)) /\ \A i, j \in I : i = j
<1>1. timeouts \in Seq(Timeout) /\ Once(Waiters(timeouts)) /\ d \in Elements(Waiters(timeouts))
  BY DEF IInv, TypeOK, TimeoutsInv
<1>2. DOMAIN timeouts = 1 .. Len(timeouts)
  BY <1>1, LenProperties
<1>3. /\ Len(Waiters(timeouts)) = Len(timeouts)
      /\ \A i \in 1 .. Len(timeouts) : Waiters(timeouts)[i] = timeouts[i].co
  BY <1>1, WaitersType
<1> QED
  BY <1>1, <1>2, <1>3 DEF Once, Elements

(* A script resumes a coroutine that waits. *)
LEMMA CancelWaitStep ==
    ASSUME IInv, NEW c \in Co, NEW d \in Co, CancelWait(c, d)
    PROVE  IInv'
<1> DEFINE I == {i \in DOMAIN timeouts : timeouts[i].co = d}
<1>1. d \in cds /\ status[d] = "wait" /\ wakes[d] = None
  BY DEF CancelWait, IInv, TimeoutsInv, TimersInv
<1>2. I # {} /\ I \in SUBSET (1 .. Len(timeouts)) /\ \A i, j \in I : i = j
  BY <1>1, PlaceOfWaiter
<1>3. timeouts \in Seq(Timeout)
  BY DEF IInv, TypeOK
<1>4. PICK k \in I : RemoveFirstAt(timeouts, I) = RemoveAt(timeouts, k)
  BY <1>2, <1>3, RemoveFirstAtOnce
<1>5. k \in 1 .. Len(timeouts) /\ timeouts[k].co = d
  BY <1>2, <1>4
<1>6. timeouts' = RemoveAt(timeouts, k)
  BY <1>4 DEF CancelWait
<1>7. /\ cds' = cds \ {d} /\ Push(d)
      /\ UNCHANGED <<loop_co, gen, scan, listeners, firing, wakes, panic>>
  BY DEF CancelWait
<1> QED
  BY <1>1, <1>5, <1>6, <1>7, ResumeStep

(* A sleeping coroutine wakes, by an event or by its timer. *)
LEMMA WakeKeepsIInv ==
    ASSUME IInv, NEW x \in Co, status[x] = "event",
           NEW rest \in [Co \cup {Main} -> Seq(Co \cup {Fn})],
           Wake(x, rest), UNCHANGED <<loop_co, gen, scan, cds, panic>>
    PROVE  IInv'
<1>1. /\ CoTypes' /\ StackInv' /\ LoopCoUsable'
      /\ TimeoutsInv' /\ ListenersInv' /\ TimersInv'
      /\ timeouts' \in Seq(Timeout) /\ listeners' \in Seq(Co \cup {Fn})
      /\ firing' \in [Co \cup {Main} -> Seq(Co \cup {Fn})]
      /\ wakes' \in [Co -> Co \cup {None}]
  BY WakeStep
<1>2. ListTypes'
  BY <1>1, TypesSplit DEF IInv, ListTypes
<1> QED
  BY <1>1, <1>2 DEF IInv, TypeOK, CoTypes, ListTypes, Status

(* The pass resumes the first coroutine that is due. *)
LEMMA ResumeDueStep ==
    ASSUME IInv, ResumeDue
    PROVE  IInv'
<1>1. PICK i \in DOMAIN timeouts :
         \/ /\ wakes[timeouts[i].co] # None
            /\ Wake(wakes[timeouts[i].co], firing)
            /\ UNCHANGED cds
         \/ /\ wakes[timeouts[i].co] = None
            /\ timeouts' = RemoveAt(timeouts, i)
            /\ cds' = cds \ {timeouts[i].co}
            /\ Push(timeouts[i].co)
            /\ UNCHANGED <<listeners, firing, wakes>>
  BY DEF ResumeDue
<1>2. UNCHANGED <<loop_co, gen, scan, panic>>
  BY DEF ResumeDue
<1>3. ListTypes
  BY TypesSplit DEF IInv
<1>4. i \in 1 .. Len(timeouts) /\ timeouts[i] \in Timeout
  BY <1>3, LenProperties, ElementOfSeq DEF ListTypes
<1> DEFINE c == timeouts[i].co
<1>5. c \in Co
  BY <1>4 DEF Timeout
<1>6. status[c] = "wait"
  <2>1. Waiters(timeouts)[i] = c /\ Len(Waiters(timeouts)) = Len(timeouts)
    BY <1>3, <1>4, WaitersType DEF ListTypes
  <2> QED
    BY <1>4, <1>5, <2>1 DEF IInv, TimeoutsInv, Elements
<1>7. CASE wakes[c] # None
  <2>1. wakes[c] \in Co /\ status[wakes[c]] = "event"
    BY <1>3, <1>5, <1>7 DEF ListTypes, IInv, TimersInv
  <2>2. Wake(wakes[c], firing) /\ UNCHANGED cds
    BY <1>1, <1>7
  <2> QED
    BY <1>2, <1>3, <2>1, <2>2, WakeKeepsIInv DEF ListTypes
<1>8. CASE wakes[c] = None
  BY <1>1, <1>2, <1>4, <1>5, <1>6, <1>8, ResumeStep
<1> QED
  BY <1>7, <1>8

(* The timer of a wait_for_event() is started, and its caller sleeps. *)
LEMMA WaitForEventTimeoutStep ==
    ASSUME IInv, NEW c \in Co, NEW ms \in 0 .. MaxDelay, WaitForEventTimeout(c, ms)
    PROVE  IInv'
<1>1. c = Top /\ c # Main /\ UNCHANGED <<gen, scan, firing, cds>>
  BY DEF WaitForEventTimeout, RunsScript
<1>2. ListTypes /\ CoTypes
  BY TypesSplit DEF IInv
<1>3. CASE CallFails(c) /\ UNCHANGED <<timeouts, wakes, listeners>>
  BY <1>1, <1>2, <1>3, CallOrFail DEF ListTypes
<1>4. ASSUME NEW t \in Called(c), NEW new \in Free \ {t}, CanCall(c),
             status' = [status EXCEPT ![t] = "wait", ![new] = "ready", ![c] = "event"],
             loop_co' = new,
             timeouts' = Append(timeouts, [co |-> t, left |-> ms, gen |-> gen]),
             wakes' = [wakes EXCEPT ![t] = c],
             stack' = Front(stack), listeners' = Append(listeners, c), UNCHANGED panic
      PROVE  IInv'
  <2>1. stack # <<>> /\ c = Last(stack) /\ status[c] = "running"
    BY <1>1, TopRuns
  <2>2. /\ t \in Co /\ new \in Co /\ t # c /\ new # c /\ t # new
        /\ status[t] \in {"dead", "ready"} /\ status[new] = "dead"
        /\ loop_co \in {c, t}
    BY <1>2, <1>4, <2>1 DEF CanCall, Called, Free, CoTypes
  <2>3. /\ status' \in [Co -> Status]
        /\ status'[t] = "wait" /\ status'[new] = "ready" /\ status'[c] = "event"
        /\ \A d \in Co \ {t, new, c} : status'[d] = status[d]
    BY <1>2, <1>4, <2>2 DEF CoTypes, Status
  <2>4. /\ wakes' \in [Co -> Co \cup {None}]
        /\ wakes'[t] = c /\ \A d \in Co \ {t} : wakes'[d] = wakes[d]
    BY <1>2, <1>4, <2>2 DEF ListTypes
  <2>5. stack' \in Seq(Co) /\ StackInv'
    <3>1. /\ Front(stack) \in Seq(Co) /\ Once(Front(stack))
          /\ Elements(Front(stack)) = Elements(stack) \ {c}
      BY <1>2, <2>1, FrontOnce DEF CoTypes, IInv, StackInv
    <3> QED
      BY <1>4, <2>1, <2>2, <2>3, <3>1 DEF IInv, StackInv
  <2>6. LoopCoUsable'
    BY <1>4, <2>2, <2>3 DEF IInv, LoopCoUsable
  <2>7. timeouts' \in Seq(Timeout) /\ TimeoutsInv'
    <3> DEFINE e == [co |-> t, left |-> ms, gen |-> gen]
    <3>1. e \in Timeout /\ e.co = t
      BY <1>2, <2>2 DEF Timeout, ListTypes
    <3>2. timeouts' = Append(timeouts, e)
      BY <1>4
    <3> HIDE DEF e
    <3>3. t \notin Elements(Waiters(timeouts))
      BY <2>2 DEF IInv, TimeoutsInv
    <3>4. /\ timeouts' \in Seq(Timeout)
          /\ Once(Waiters(timeouts'))
          /\ Elements(Waiters(timeouts')) = Elements(Waiters(timeouts)) \cup {t}
      BY <1>2, <3>1, <3>2, <3>3, TimeoutAdded DEF ListTypes, IInv, TimeoutsInv
    <3>5. \A d \in Co : status'[d] = "wait" <=> status[d] = "wait" \/ d = t
      BY <2>1, <2>2, <2>3
    <3> QED
      BY <1>1, <1>2, <3>4, <3>5 DEF IInv, TimeoutsInv, ListTypes
  <2>8. listeners' \in Seq(Co \cup {Fn}) /\ ListenersInv'
    <3>1. /\ Append(listeners, c) \in Seq(Co \cup {Fn})
          /\ Once(Append(listeners, c))
          /\ Elements(Append(listeners, c)) = Elements(listeners) \cup {c}
      BY <1>2, <2>1, AppendOnce DEF IInv, ListenersInv, ListTypes
    <3>2. \A d \in Co : status'[d] = "event" <=> status[d] = "event" \/ d = c
      BY <2>2, <2>3
    <3> QED
      BY <1>4, <3>1, <3>2 DEF IInv, ListenersInv
  <2>9. TimersInv'
    <3>1. \A d \in Co : wakes[d] # c
      BY <2>1, EventLoopAssumption DEF IInv, TimersInv
    <3>2. t \notin cds /\ wakes[t] = None
      BY <2>2 DEF IInv, TimeoutsInv, TimersInv
    <3>3. \A d \in Co : wakes[d] # None => wakes[d] \in Co /\ wakes[d] \notin {t, new, c}
      BY <1>2, <2>1, <2>2 DEF IInv, TimersInv, ListTypes
    <3>4. \A d \in Co \ {t} : wakes[d] # None =>
             d \notin {new, c} /\ status[d] = "wait" /\ status[wakes[d]] = "event" /\ d \notin cds
      BY <2>1, <2>2 DEF IInv, TimersInv
    <3>5. cds' = cds
      BY <1>1
    <3>6. ASSUME NEW d \in Co, wakes'[d] # None
          PROVE  status'[d] = "wait" /\ status'[wakes'[d]] = "event" /\ d \notin cds'
      <4>1. CASE d = t
        BY <2>3, <2>4, <3>2, <3>5, <4>1
      <4>2. CASE d # t
        <5>1. wakes'[d] = wakes[d] /\ wakes[d] # None
          BY <2>4, <3>6, <4>2
        <5>2. status'[d] = status[d] /\ status'[wakes[d]] = status[wakes[d]]
          BY <2>3, <3>3, <3>4, <4>2, <5>1
        <5> QED
          BY <3>4, <3>5, <4>2, <5>1, <5>2
      <4> QED
        BY <4>1, <4>2
    <3>7. ASSUME NEW d \in Co, NEW u \in Co, wakes'[d] # None, wakes'[d] = wakes'[u]
          PROVE  d = u
      BY <2>4, <3>1, <3>7 DEF IInv, TimersInv
    <3> QED
      BY <3>6, <3>7 DEF TimersInv
  <2>10. ListTypes'
    BY <1>1, <1>2, <1>4, <2>4, <2>7, <2>8 DEF ListTypes
  <2> QED
    BY <1>4, <2>2, <2>3, <2>5, <2>6, <2>7, <2>8, <2>9, <2>10
       DEF IInv, TypeOK, CoTypes, ListTypes, Status
<1> QED
  BY <1>3, <1>4 DEF WaitForEventTimeout

(* One more listener is given the event. *)
LEMMA FireNextStep ==
    ASSUME IInv, NEW x \in Co \cup {Main}, FireNext(x)
    PROVE  IInv'
<1> DEFINE cb == Head(firing[x])
           rest == [firing EXCEPT ![x] = Tail(@)]
<1>1. ListTypes /\ CoTypes
  BY TypesSplit DEF IInv
<1>2. x = Top /\ firing[x] # <<>> /\ firing[x] \in Seq(Co \cup {Fn}) /\ UNCHANGED <<gen, scan>>
  BY <1>1 DEF FireNext, ListTypes
<1>3. cb \in Co \cup {Fn} /\ Tail(firing[x]) \in Seq(Co \cup {Fn})
  BY <1>2, HeadTailProperties
<1>4. /\ rest \in [Co \cup {Main} -> Seq(Co \cup {Fn})]
      /\ [rest EXCEPT ![x] = <<>>] \in [Co \cup {Main} -> Seq(Co \cup {Fn})]
  <2>1. <<>> \in Seq(Co \cup {Fn})
    BY EmptySeq
  <2> QED
    BY <1>1, <1>3, <2>1 DEF ListTypes
<1>5. \/ Contains(listeners, cb) /\ CallListener(x, cb, rest)
      \/ /\ firing' = rest
         /\ UNCHANGED <<stack, status, loop_co, timeouts, listeners, wakes, cds, panic>>
  BY DEF FireNext
<1> HIDE DEF cb, rest
<1>6. CASE Contains(listeners, cb) /\ cb # Fn /\ Wake(cb, rest) /\ UNCHANGED <<loop_co, cds, panic>>
  <2>1. cb \in Co /\ status[cb] = "event"
    BY <1>3, <1>6 DEF Contains, IInv, ListenersInv, Elements
  <2> QED
    BY <1>2, <1>4, <1>6, <2>1, WakeKeepsIInv
<1>7. CASE /\ \/ EvCall(x) /\ firing' = rest
              \/ CallFails(x) /\ firing' = [rest EXCEPT ![x] = <<>>]
           /\ UNCHANGED <<timeouts, listeners, wakes, cds>>
  BY <1>2, <1>4, <1>7, CallOrFail
<1>8. CASE /\ firing' = rest
           /\ UNCHANGED <<stack, status, loop_co, timeouts, listeners, wakes, cds, panic>>
  BY <1>2, <1>4, <1>8 DEF IInv, TypeOK, StackInv, TimeoutsInv, ListenersInv, TimersInv, LoopCoUsable
<1> QED
  BY <1>5, <1>6, <1>7, <1>8 DEF CallListener

(* A script is reloaded. *)
LEMMA ResetStep ==
    ASSUME IInv, Reset
    PROVE  IInv'
<1>1. ListTypes /\ CoTypes
  BY TypesSplit DEF IInv
<1>2. /\ stack = <<>> /\ timeouts' = <<>> /\ listeners' = <<>> /\ cds' = {} /\ gen' = 1
      /\ UNCHANGED <<stack, loop_co, scan, firing, panic>>
  BY DEF Reset, MainIdle
<1>3. /\ status' \in [Co -> Status]
      /\ \A c \in Co : status'[c] = IF c = loop_co THEN "ready" ELSE "dead"
  BY DEF Reset, Status
<1>4. wakes' \in [Co -> Co \cup {None}] /\ \A c \in Co : wakes'[c] = None
  BY DEF Reset
<1>5. /\ <<>> \in Seq(Timeout) /\ <<>> \in Seq(Co \cup {Fn}) /\ Len(<<>>) = 0
      /\ Len(Waiters(<<>>)) = 0
  <2>1. <<>> \in Seq(Timeout) /\ <<>> \in Seq(Co \cup {Fn}) /\ Len(<<>>) = 0
    BY EmptySeq
  <2> QED
    BY <2>1, WaitersType
<1>6. Once(<<>>) /\ Elements(<<>>) = {} /\ Once(Waiters(<<>>)) /\ Elements(Waiters(<<>>)) = {}
  BY <1>5 DEF Once, Elements
<1>7. StackInv' /\ TimeoutsInv' /\ ListenersInv' /\ TimersInv' /\ LoopCoUsable'
  BY <1>1, <1>2, <1>3, <1>4, <1>6
     DEF StackInv, TimeoutsInv, ListenersInv, TimersInv, LoopCoUsable, CoTypes
<1>8. ListTypes'
  BY <1>1, <1>2, <1>4, <1>5, EventLoopAssumption DEF ListTypes
<1> QED
  BY <1>1, <1>2, <1>3, <1>7, <1>8 DEF IInv, TypeOK, CoTypes, ListTypes, Status

(* Time passes: nobody changes places. *)
LEMMA TickStep ==
    ASSUME IInv, Tick
    PROVE  IInv'
<1>1. ListTypes
  BY TypesSplit DEF IInv
<1>2. /\ timeouts' = [i \in DOMAIN timeouts |->
                         [timeouts[i] EXCEPT !.left = IF @ > 0 THEN @ - 1 ELSE 0]]
      /\ UNCHANGED <<stack, status, loop_co, gen, scan, listeners, firing, wakes, cds, panic>>
  BY DEF Tick
<1>3. /\ Len(timeouts) \in Nat /\ DOMAIN timeouts = 1 .. Len(timeouts)
      /\ \A i \in 1 .. Len(timeouts) : timeouts[i] \in Timeout
  BY <1>1, LenProperties, ElementOfSeq DEF ListTypes
<1>4. ASSUME NEW i \in 1 .. Len(timeouts)
      PROVE  timeouts'[i] \in Timeout /\ timeouts'[i].co = timeouts[i].co
  <2> DEFINE t == timeouts[i]
             n == IF t.left > 0 THEN t.left - 1 ELSE 0
  <2>1. timeouts'[i] = [t EXCEPT !.left = n]
    BY <1>2, <1>3
  <2>2. t \in Timeout
    BY <1>3
  <2> HIDE DEF t
  <2>3. n \in 0 .. MaxDelay
    BY <2>2, EventLoopAssumption DEF Timeout
  <2> HIDE DEF n
  <2> QED
    BY <2>1, <2>2, <2>3 DEF t, Timeout
<1>5. timeouts' \in Seq(Timeout) /\ Len(timeouts') = Len(timeouts)
  BY <1>2, <1>3, <1>4
<1>6. Waiters(timeouts') = Waiters(timeouts)
  BY <1>4, <1>5 DEF Waiters
<1>7. TimeoutsInv'
  BY <1>2, <1>6 DEF IInv, TimeoutsInv
<1> QED
  BY <1>2, <1>5, <1>7 DEF IInv, TypeOK, StackInv, ListenersInv, TimersInv, LoopCoUsable

(* Functions come and go as listeners. *)
LEMMA ListenerStep ==
    ASSUME IInv, NEW c \in Co, AddListener(c) \/ RemoveListener(c)
    PROVE  IInv'
<1>1. ListTypes
  BY TypesSplit DEF IInv
<1>2. UNCHANGED <<stack, status, loop_co, timeouts, gen, scan, wakes, cds, panic>>
  BY DEF AddListener, RemoveListener
<1>3. /\ listeners' \in Seq(Co \cup {Fn}) /\ Once(listeners')
      /\ Elements(listeners') \cap Co = Elements(listeners) \cap Co
  <2>1. CASE AddListener(c)
    <3>1. Fn \notin Elements(listeners) /\ listeners' = Append(listeners, Fn)
      BY <2>1 DEF AddListener, Contains, Elements
    <3>2. /\ Append(listeners, Fn) \in Seq(Co \cup {Fn}) /\ Once(Append(listeners, Fn))
          /\ Elements(Append(listeners, Fn)) = Elements(listeners) \cup {Fn}
      BY <1>1, <3>1, AppendOnce DEF ListTypes, IInv, ListenersInv
    <3> QED
      BY <3>1, <3>2, EventLoopAssumption
  <2>2. CASE RemoveListener(c)
    <3>1. listeners' = Unlist(Fn)
      BY <2>2 DEF RemoveListener
    <3>2. /\ Unlist(Fn) \in Seq(Co \cup {Fn}) /\ Once(Unlist(Fn))
          /\ Elements(Unlist(Fn)) = Elements(listeners) \ {Fn}
      BY <1>1, UnlistOnce DEF ListTypes, IInv, ListenersInv
    <3> QED
      BY <3>1, <3>2, EventLoopAssumption
  <2> QED
    BY <2>1, <2>2
<1>4. firing' \in [Co \cup {Main} -> Seq(Co \cup {Fn})]
  <2>1. NotFiring \in [Co \cup {Main} -> Seq(Co \cup {Fn})]
    BY EmptySeq DEF NotFiring
  <2> QED
    BY <1>1, <2>1 DEF AddListener, RemoveListener, ListTypes
<1>5. ListenersInv'
  BY <1>2, <1>3 DEF IInv, ListenersInv
<1> QED
  BY <1>2, <1>3, <1>4, <1>5 DEF IInv, TypeOK, StackInv, TimeoutsInv, TimersInv, LoopCoUsable

(* An event is fired, or a pass begins or ends: only the counters and the  *)
(* copies of the listeners change.                                         *)
LEMMA QuietStep ==
    ASSUME IInv, \/ \E x \in Co \cup {Main} : FireFrom(x)
                 \/ PassBegin \/ PassEnd \/ UNCHANGED vars
    PROVE  IInv'
<1>1. ListTypes
  BY TypesSplit DEF IInv
<1>2. UNCHANGED <<stack, status, loop_co, timeouts, listeners, wakes, cds, panic>>
  BY DEF FireFrom, PassBegin, PassEnd, vars
<1>3. gen' \in 1 .. MaxGen + 1 /\ scan' \in 0 .. MaxGen
  BY <1>1, EventLoopAssumption DEF ListTypes, FireFrom, PassBegin, PassEnd, vars
<1>4. firing' \in [Co \cup {Main} -> Seq(Co \cup {Fn})]
  BY <1>1 DEF ListTypes, FireFrom, PassBegin, PassEnd, vars
<1> QED
  BY <1>2, <1>3, <1>4 DEF IInv, TypeOK, StackInv, TimeoutsInv, ListenersInv, TimersInv, LoopCoUsable

-----------------------------------------------------------------------------
(* The places of the coroutines agree with their statuses in every         *)
(* reachable state.                                                        *)
LEMMA PlacesAgree == Spec => []IInv
<1>1. Init => IInv
  <2> SUFFICES ASSUME Init PROVE IInv
    OBVIOUS
  <2>1. /\ stack = <<>> /\ timeouts = <<>> /\ listeners = <<>> /\ cds = {} /\ gen = 1 /\ scan = 0
        /\ loop_co \in Co /\ panic \in BOOLEAN
    BY DEF Init
  <2>2. /\ status \in [Co -> Status]
        /\ \A c \in Co : status[c] = IF c = loop_co THEN "ready" ELSE "dead"
    BY DEF Init, Status
  <2>3. wakes \in [Co -> Co \cup {None}] /\ \A c \in Co : wakes[c] = None
    BY DEF Init
  <2>4. /\ <<>> \in Seq(Timeout) /\ <<>> \in Seq(Co) /\ <<>> \in Seq(Co \cup {Fn})
        /\ Len(<<>>) = 0
    BY EmptySeq
  <2>5. Len(Waiters(<<>>)) = 0
    BY <2>4, WaitersType
  <2>6. Once(<<>>) /\ Elements(<<>>) = {} /\ Once(Waiters(<<>>)) /\ Elements(Waiters(<<>>)) = {}
    BY <2>4, <2>5 DEF Once, Elements
  <2>7. firing \in [Co \cup {Main} -> Seq(Co \cup {Fn})]
    BY <2>4 DEF Init, NotFiring
  <2>8. StackInv /\ TimeoutsInv /\ ListenersInv /\ TimersInv /\ LoopCoUsable
    BY <2>1, <2>2, <2>3, <2>6 DEF StackInv, TimeoutsInv, ListenersInv, TimersInv, LoopCoUsable
  <2> QED
    BY <2>1, <2>2, <2>3, <2>4, <2>7, <2>8, EventLoopAssumption DEF IInv, TypeOK, Status
<1>2. IInv /\ [Next]_vars => IInv'
  <2> SUFFICES ASSUME IInv, [Next]_vars PROVE IInv'
    OBVIOUS
  <2>1. CASE CallFunction
    <3>1. Main = Top /\ EvCall(Main)
      BY <2>1 DEF CallFunction, MainIdle, Top
    <3>2. UNCHANGED <<timeouts, gen, scan, listeners, firing, wakes, cds>>
      BY <2>1 DEF CallFunction
    <3> QED
      BY <3>1, <3>2, CallOrFail DEF IInv, TypeOK
  <2>2. CASE \/ MainIdle /\ FireFrom(Main)
             \/ \E c \in Co : RunsScript(c) /\ FireFrom(c)
             \/ PassBegin \/ PassEnd \/ UNCHANGED vars
    BY <2>2, QuietStep
  <2>3. CASE ResumeDue
    BY <2>3, ResumeDueStep
  <2>4. CASE Reset
    BY <2>4, ResetStep
  <2>5. CASE Tick
    BY <2>5, TickStep
  <2>6. ASSUME NEW x \in Co \cup {Main}, FireNext(x) PROVE IInv'
    BY <2>6, FireNextStep
  <2>7. ASSUME NEW c \in Co, Finish(c) PROVE IInv'
    BY <2>7, WaitStep, WaitForEventStep, WaitForEventTimeoutStep, EndStep DEF Finish
  <2>8. ASSUME NEW c \in Co, Spinoff(c) PROVE IInv'
    <3>1. c = Top /\ UNCHANGED <<timeouts, gen, scan, listeners, firing, wakes, cds>>
      BY <2>8 DEF Spinoff, RunsScript
    <3> QED
      BY <2>8, <3>1, CallOrFail DEF Spinoff, IInv, TypeOK
  <2>9. ASSUME NEW c \in Co, AddListener(c) \/ RemoveListener(c) PROVE IInv'
    BY <2>9, ListenerStep
  <2>10. ASSUME NEW c \in Co, NEW d \in Co, CancelWait(c, d) PROVE IInv'
    BY <2>10, CancelWaitStep
  <2> QED
    BY <2>1, <2>2, <2>3, <2>4, <2>5, <2>6, <2>7, <2>8, <2>9, <2>10 DEF Next
<1> QED
  BY <1>1, <1>2, PTL DEF Spec

(* The variables have their types, for any number of coroutines: nothing   *)
(* but coroutines is resumed, and the loop always has one. *)
THEOREM TypeCorrect == Spec => []TypeOK
<1>1. IInv => TypeOK
  BY DEF IInv
<1> QED
  BY <1>1, PlacesAgree, PTL

(* The loop's coroutine is never one that a script has put to sleep, and   *)
(* none is left ready where ev_call() would not find it. *)
THEOREM LoopCoUsableTheorem == Spec => []LoopCoUsable
<1>1. IInv => LoopCoUsable
  BY DEF IInv
<1> QED
  BY <1>1, PlacesAgree, PTL

(* How often x is in a sequence without repetitions. *)
LEMMA CountOnce ==
    ASSUME NEW S, NEW s \in Seq(S), Once(s), NEW x
    PROVE  Cardinality({i \in 1 .. Len(s) : s[i] = x}) = IF x \in Elements(s) THEN 1 ELSE 0
<1> DEFINE I == {i \in 1 .. Len(s) : s[i] = x}
<1>1. CASE x \in Elements(s)
  <2>1. PICK k \in 1 .. Len(s) : s[k] = x
    BY <1>1 DEF Elements
  <2>2. I = {k}
    BY <2>1 DEF Once
  <2>3. Cardinality({k}) = 1
    BY FS_Singleton
  <2> QED
    BY <1>1, <2>2, <2>3
<1>2. CASE x \notin Elements(s)
  <2>1. I = {}
    BY <1>2 DEF Elements
  <2> QED
    BY <1>2, <2>1, FS_EmptySet
<1> QED
  BY <1>1, <1>2

(* Every coroutine in wait() has one entry among the timeouts, nobody else *)
(* has one, and what a script may cancel is waiting: no wait() is          *)
(* forgotten or resumed twice, whatever is resumed, cancelled or reloaded  *)
(* in between.                                                             *)
THEOREM WaitersListedTheorem == Spec => []WaitersListed
<1>1. IInv => WaitersListed
  <2> SUFFICES ASSUME IInv PROVE WaitersListed
    OBVIOUS
  <2>1. /\ timeouts \in Seq(Timeout) /\ Once(Waiters(timeouts)) /\ cds \subseteq Co
        /\ DOMAIN timeouts = 1 .. Len(timeouts)
    BY LenProperties DEF IInv, TypeOK, TimeoutsInv
  <2>2. ASSUME NEW c \in Co
        PROVE  Cardinality({i \in DOMAIN timeouts : timeouts[i].co = c})
                   = IF status[c] = "wait" THEN 1 ELSE 0
    <3>1. /\ Waiters(timeouts) \in Seq(Co) /\ Len(Waiters(timeouts)) = Len(timeouts)
          /\ \A i \in 1 .. Len(timeouts) : Waiters(timeouts)[i] = timeouts[i].co
      BY <2>1, WaitersType
    <3>2. {i \in DOMAIN timeouts : timeouts[i].co = c}
              = {i \in 1 .. Len(Waiters(timeouts)) : Waiters(timeouts)[i] = c}
      BY <2>1, <3>1
    <3>3. Cardinality({i \in 1 .. Len(Waiters(timeouts)) : Waiters(timeouts)[i] = c})
              = IF c \in Elements(Waiters(timeouts)) THEN 1 ELSE 0
      BY <2>1, <3>1, CountOnce
    <3> QED
      BY <3>2, <3>3 DEF IInv, TimeoutsInv
  <2>3. cds \subseteq {c \in Co : status[c] = "wait"}
    BY <2>1 DEF IInv, TimeoutsInv
  <2> QED
    BY <2>2, <2>3 DEF WaitersListed
<1> QED
  BY <1>1, PlacesAgree, PTL

(* Every coroutine in wait_for_event() is listening once and nobody else   *)
(* is; its timer, if any, is still asleep: the event and the timeout never *)
(* both wake it.                                                           *)
THEOREM SleepersListedTheorem == Spec => []SleepersListed
<1>1. IInv => SleepersListed
  <2> SUFFICES ASSUME IInv PROVE SleepersListed
    OBVIOUS
  <2>1. /\ listeners \in Seq(Co \cup {Fn}) /\ Once(listeners)
        /\ DOMAIN listeners = 1 .. Len(listeners)
    BY LenProperties DEF IInv, TypeOK, ListenersInv
  <2>2. ASSUME NEW c \in Co
        PROVE  Cardinality({i \in DOMAIN listeners : listeners[i] = c})
                   = IF status[c] = "event" THEN 1 ELSE 0
    <3>1. Cardinality({i \in 1 .. Len(listeners) : listeners[i] = c})
              = IF c \in Elements(listeners) THEN 1 ELSE 0
      BY <2>1, CountOnce
    <3> QED
      BY <2>1, <3>1 DEF IInv, ListenersInv
  <2>3. \A t \in Co : wakes[t] # None => status[t] = "wait" /\ status[wakes[t]] = "event"
    BY DEF IInv, TimersInv
  <2> QED
    BY <2>2, <2>3 DEF SleepersListed
<1> QED
  BY <1>1, PlacesAgree, PTL
=============================================================================
