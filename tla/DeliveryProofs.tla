---------------------------- MODULE DeliveryProofs ----------------------------
(***************************************************************************)
(* That no order of the unlocked steps of do_click() strands work, for any *)
(* threads and any bounds.  The invariant says of all states what          *)
(* NothingStranded says of quiet ones: whatever waits is covered by        *)
(* somebody who will press the key or by the game on its way to read it.   *)
(***************************************************************************)
EXTENDS Delivery, TLAPS

(* A key press that will make the game read click.cfg. *)
OnTheWay == keys > 0 \/ game = "click" \/ \E t \in Threads : pc[t] = "send"

(* A thread that has still to decide whether to press the key. *)
Trying == \E t \in Threads : pc[t] \in {"notify", "active", "pending", "lock"}

(* A recent pending_click is true: do_click() may rely on it. *)
FreshClickTrue == display /\ pending = "fresh" => missed \/ OnTheWay

(* A wait() that is over: once the game has read its timeouts it is not    *)
(* covered by that read any more, but by its own timer or click.           *)
TimeoutsCovered ==
    display /\ active /\ Due =>
        missed \/ OnTheWay \/ Trying \/ timer = "expired" \/ game = "received"

(* Commands are covered by a read in progress to its end and by the        *)
(* command at the end of a full buffer.                                    *)
CommandsCovered ==
    display /\ active /\ queue > 0 =>
        missed \/ OnTheWay \/ Trying \/ game \in {"received", "resumed", "buffer"}

Covered == FreshClickTrue /\ TimeoutsCovered /\ CommandsCovered

PcValues == {"idle", "notify", "active", "pending", "lock", "send", "unlock", "keylock",
             "setkey"}

InClickLock == {"send", "unlock", "setkey"}

(* Who holds which lock can be read off the program counters. *)
LockInv ==
    /\ \A t \in Threads : click_lock = t <=> pc[t] \in InClickLock
    /\ \A t \in Threads : pc[t] \in {"keylock", "setkey"} => t \in Writers /\ lua = t
    /\ \A t \in Writers : lua = t => pc[t] \in {"keylock", "setkey"}
    /\ lua = "fuse" <=> game \in {"received", "resumed"}
    /\ lua \notin {"attention", "click"}
    /\ pc["fuse"] # "idle" => game = "resumed"

-----------------------------------------------------------------------------
(* Every step keeps the types. *)
LEMMA TypeStep ==
    ASSUME TypeOK, [Next]_vars
    PROVE  TypeOK'
<1>1. ASSUME NEW t \in Threads, ReadActive(t)
      PROVE  TypeOK'
  BY <1>1, DeliveryAssumption DEF ReadActive, Goto, TypeOK, Threads
<1>2. ASSUME NEW t \in Threads, ReadPending(t)
      PROVE  TypeOK'
  BY <1>2, DeliveryAssumption DEF ReadPending, Goto, TypeOK, Threads
<1>3. ASSUME NEW t \in Threads, TryClickLock(t)
      PROVE  TypeOK'
  <2>1. missed' \in BOOLEAN
    BY <1>3, Zenon DEF TryClickLock, TypeOK
  <2>2. click_lock' \in Threads \cup {NoThread} /\ pending' \in {"none", "fresh", "old"}
    BY <1>3 DEF TryClickLock, TypeOK
  <2>3. pc' \in [Threads -> PcValues]
    BY <1>3 DEF TryClickLock, Goto, TypeOK, PcValues
  <2> QED
    BY <2>1, <2>2, <2>3, <1>3 DEF TryClickLock, TypeOK, PcValues
<1>4. ASSUME NEW t \in Threads, SendKey(t)
      PROVE  TypeOK'
  <2>1. keys' \in Nat /\ pending' \in {"none", "fresh", "old"}
    BY <1>4 DEF SendKey, TypeOK
  <2>3. missed' \in BOOLEAN
    BY <1>4, Zenon DEF SendKey, TypeOK
  <2>2. pc' \in [Threads -> PcValues]
    BY <1>4 DEF SendKey, Goto, TypeOK, PcValues
  <2> QED
    BY <2>1, <2>2, <2>3, <1>4 DEF SendKey, TypeOK, PcValues
<1>5. ASSUME NEW t \in Threads, ClickUnlock(t)
      PROVE  TypeOK'
  BY <1>5, DeliveryAssumption DEF ClickUnlock, Goto, TypeOK, Threads
<1>6. ASSUME NEW t \in Writers, Write(t)
      PROVE  TypeOK'
  BY <1>6, DeliveryAssumption DEF Write, CanCall, UseCall, Release, Goto, TypeOK, Threads
<1>7. ASSUME NEW t \in Writers, Wait(t)
      PROVE  TypeOK'
  BY <1>7, DeliveryAssumption DEF Wait, CanCall, UseCall, Release, Goto, TypeOK, Threads
<1>8. ASSUME NEW t \in Writers, CancelWait(t)
      PROVE  TypeOK'
  <2>1. queue' \in 0 .. MaxQueue /\ calls' \in 0 .. MaxCalls
    BY <1>8, DeliveryAssumption DEF CancelWait, UseCall, TypeOK
  <2>2. pc' \in [Threads -> PcValues]
    BY <1>8 DEF CancelWait, Release, Goto, TypeOK, Threads, PcValues
  <2>3. waiting' \in BOOLEAN /\ timer' \in {"none", "armed", "expired"}
    BY <1>8 DEF CancelWait, TypeOK
  <2> QED
    BY <2>1, <2>2, <2>3, <1>8 DEF CancelWait, TypeOK, PcValues
<1>9. ASSUME NEW t \in Writers, Reload(t)
      PROVE  TypeOK'
  <2>1. queue' \in 0 .. MaxQueue /\ calls' \in 0 .. MaxCalls
    BY <1>9, DeliveryAssumption DEF Reload, UseCall, TypeOK
  <2>2. pc' \in [Threads -> PcValues]
    BY <1>9 DEF Reload, Release, Goto, TypeOK, Threads, PcValues
  <2>3. waiting' \in BOOLEAN /\ timer' \in {"none", "armed", "expired"}
    BY <1>9 DEF Reload, TypeOK
  <2> QED
    BY <2>1, <2>2, <2>3, <1>9 DEF Reload, TypeOK, PcValues
<1>10. ASSUME NEW t \in Writers, SetKeyBegin(t)
      PROVE  TypeOK'
  BY <1>10, DeliveryAssumption DEF SetKeyBegin, CanCall, UseCall, Goto, TypeOK, Threads
<1>11. ASSUME NEW t \in Writers, SetKeyLock(t)
      PROVE  TypeOK'
  BY <1>11, DeliveryAssumption DEF SetKeyLock, Goto, TypeOK, Threads
<1>12. ASSUME NEW t \in Writers, SetKeyEnd(t)
      PROVE  TypeOK'
  BY <1>12, DeliveryAssumption DEF SetKeyEnd, Release, Goto, TypeOK, Threads
<1>13. CASE Age
  BY <1>13, DeliveryAssumption DEF Age, TypeOK, Threads
<1>14. CASE Expire
  BY <1>14, DeliveryAssumption DEF Expire, TypeOK, Threads
<1>15. CASE FireTimer
  BY <1>15, DeliveryAssumption DEF FireTimer, Goto, TypeOK, Threads
<1>16. CASE FocusChange
  BY <1>16, DeliveryAssumption DEF FocusChange, UseCall, TypeOK, Threads
<1>17. CASE NoticeFocus
  BY <1>17, DeliveryAssumption DEF NoticeFocus, Goto, TypeOK, Threads
<1>18. CASE NotifyAttention
  BY <1>18, DeliveryAssumption DEF NotifyAttention, Goto, TypeOK, Threads
<1>19. CASE NotifyTimeout
  BY <1>19, DeliveryAssumption DEF NotifyTimeout, UseCall, Goto, TypeOK, Threads
<1>20. CASE KeyPress
  BY <1>20, DeliveryAssumption DEF KeyPress, TypeOK, Threads
<1>21. CASE KeyLost
  BY <1>21, DeliveryAssumption DEF KeyLost, UseCall, TypeOK, Threads
<1>22. CASE ClickReceived
  BY <1>22, DeliveryAssumption DEF ClickReceived, TypeOK, Threads
<1>23. CASE DoTimeouts
  <2>1. queue' \in 0 .. MaxQueue /\ calls' \in 0 .. MaxCalls
    BY <1>23, DeliveryAssumption DEF DoTimeouts, UseCall, TypeOK
  <2>2. pc' \in [Threads -> PcValues]
    BY <1>23 DEF DoTimeouts, Goto, TypeOK, Threads, PcValues
  <2>3. waiting' \in BOOLEAN /\ timer' \in {"none", "armed", "expired"}
    BY <1>23 DEF DoTimeouts, TypeOK
  <2> QED
    BY <2>1, <2>2, <2>3, <1>23 DEF DoTimeouts, TypeOK, PcValues
<1>24. CASE ReadDone
  BY <1>24, DeliveryAssumption DEF ReadDone, Take, TypeOK, Threads
<1>25. CASE ReadBuffer
  BY <1>25, DeliveryAssumption DEF ReadBuffer, Take, TypeOK, Threads
<1>26. CASE ReadKeyConfig
  BY <1>26, DeliveryAssumption DEF ReadKeyConfig, UseCall, Take, TypeOK, Threads
<1>27. CASE ReadTimeout
  BY <1>27, DeliveryAssumption DEF ReadTimeout, UseCall, TypeOK, Threads
<1>28. CASE UNCHANGED vars
  BY <1>28 DEF vars, TypeOK, Threads
<1> QED
  BY <1>1, <1>2, <1>3, <1>4, <1>5, <1>6, <1>7, <1>8, <1>9, <1>10, <1>11, <1>12, <1>13,
     <1>14, <1>15, <1>16, <1>17, <1>18, <1>19, <1>20, <1>21, <1>22, <1>23, <1>24, <1>25,
     <1>26, <1>27, <1>28 DEF Next, DoClick, Call, ReadConfig

(* Whatever waits stays covered: a thread that gives up has seen the       *)
(* window inactive, or a click that is on its way, or records that it was  *)
(* refused; one that does not give up goes on until the key is pressed.    *)
LEMMA CoveredStep ==
    ASSUME TypeOK, LockInv, Covered, [Next]_vars
    PROVE  Covered'
<1>1. ASSUME NEW t \in Threads, ReadActive(t)
      PROVE  Covered'
  BY <1>1, DeliveryAssumption DEF ReadActive, Goto, TypeOK, Threads, Covered,
     FreshClickTrue, TimeoutsCovered, CommandsCovered, OnTheWay, Trying, Due
<1>2. ASSUME NEW t \in Threads, ReadPending(t)
      PROVE  Covered'
  BY <1>2, DeliveryAssumption DEF ReadPending, Goto, TypeOK, Threads, Covered,
     FreshClickTrue, TimeoutsCovered, CommandsCovered, OnTheWay, Trying, Due
<1>3. ASSUME NEW t \in Threads, TryClickLock(t)
      PROVE  Covered'
  BY <1>3, DeliveryAssumption DEF TryClickLock, Goto, TypeOK, Threads, Covered,
     FreshClickTrue, TimeoutsCovered, CommandsCovered, OnTheWay, Trying, Due
<1>4. ASSUME NEW t \in Threads, SendKey(t)
      PROVE  Covered'
  BY <1>4, DeliveryAssumption DEF SendKey, Goto, TypeOK, Threads, Covered, FreshClickTrue,
     TimeoutsCovered, CommandsCovered, OnTheWay, Trying, Due
<1>5. ASSUME NEW t \in Threads, ClickUnlock(t)
      PROVE  Covered'
  BY <1>5, DeliveryAssumption DEF ClickUnlock, Goto, TypeOK, Threads, Covered,
     FreshClickTrue, TimeoutsCovered, CommandsCovered, OnTheWay, Trying, Due
<1>6. ASSUME NEW t \in Writers, Write(t)
      PROVE  Covered'
  BY <1>6, DeliveryAssumption DEF Write, CanCall, UseCall, Release, Goto, TypeOK, Threads,
     Covered, FreshClickTrue, TimeoutsCovered, CommandsCovered, OnTheWay, Trying, Due
<1>7. ASSUME NEW t \in Writers, Wait(t)
      PROVE  Covered'
  BY <1>7, DeliveryAssumption DEF Wait, CanCall, UseCall, Release, Goto, TypeOK, Threads,
     Covered, FreshClickTrue, TimeoutsCovered, CommandsCovered, OnTheWay, Trying, Due
<1>8. ASSUME NEW t \in Writers, CancelWait(t)
      PROVE  Covered'
  BY <1>8, DeliveryAssumption DEF CancelWait, CanCall, UseCall, Release, Goto, TypeOK,
     Threads, Covered, FreshClickTrue, TimeoutsCovered, CommandsCovered, OnTheWay, Trying,
     Due
<1>9. ASSUME NEW t \in Writers, Reload(t)
      PROVE  Covered'
  BY <1>9, DeliveryAssumption DEF Reload, CanCall, UseCall, Release, Goto, TypeOK, Threads,
     Covered, FreshClickTrue, TimeoutsCovered, CommandsCovered, OnTheWay, Trying, Due
<1>10. ASSUME NEW t \in Writers, SetKeyBegin(t)
      PROVE  Covered'
  BY <1>10, DeliveryAssumption DEF SetKeyBegin, CanCall, UseCall, Goto, TypeOK, Threads,
     Covered, FreshClickTrue, TimeoutsCovered, CommandsCovered, OnTheWay, Trying, Due
<1>11. ASSUME NEW t \in Writers, SetKeyLock(t)
      PROVE  Covered'
  BY <1>11, DeliveryAssumption DEF SetKeyLock, Goto, TypeOK, Threads, Covered,
     FreshClickTrue, TimeoutsCovered, CommandsCovered, OnTheWay, Trying, Due
<1>12. ASSUME NEW t \in Writers, SetKeyEnd(t)
      PROVE  Covered'
  BY <1>12, DeliveryAssumption DEF SetKeyEnd, Release, Goto, TypeOK, Threads, Covered,
     FreshClickTrue, TimeoutsCovered, CommandsCovered, OnTheWay, Trying, Due
<1>13. CASE Age
  BY <1>13, DeliveryAssumption DEF Age, TypeOK, Threads, Covered, FreshClickTrue,
     TimeoutsCovered, CommandsCovered, OnTheWay, Trying, Due
<1>14. CASE Expire
  BY <1>14, DeliveryAssumption DEF Expire, TypeOK, Threads, Covered, FreshClickTrue,
     TimeoutsCovered, CommandsCovered, OnTheWay, Trying, Due
<1>15. CASE FireTimer
  BY <1>15, DeliveryAssumption DEF FireTimer, Goto, TypeOK, Threads, Covered,
     FreshClickTrue, TimeoutsCovered, CommandsCovered, OnTheWay, Trying, Due
<1>16. CASE FocusChange
  BY <1>16, DeliveryAssumption DEF FocusChange, UseCall, TypeOK, Threads, Covered,
     FreshClickTrue, TimeoutsCovered, CommandsCovered, OnTheWay, Trying, Due
<1>17. CASE NoticeFocus
  BY <1>17, DeliveryAssumption DEF NoticeFocus, Goto, TypeOK, Threads, Covered,
     FreshClickTrue, TimeoutsCovered, CommandsCovered, OnTheWay, Trying, Due
<1>18. CASE NotifyAttention
  BY <1>18, DeliveryAssumption DEF NotifyAttention, Goto, TypeOK, Threads, Covered,
     FreshClickTrue, TimeoutsCovered, CommandsCovered, OnTheWay, Trying, Due
<1>19. CASE NotifyTimeout
  BY <1>19, DeliveryAssumption DEF NotifyTimeout, UseCall, Goto, TypeOK, Threads, Covered,
     FreshClickTrue, TimeoutsCovered, CommandsCovered, OnTheWay, Trying, Due
<1>20. CASE KeyPress
  BY <1>20, DeliveryAssumption DEF KeyPress, TypeOK, Threads, Covered, FreshClickTrue,
     TimeoutsCovered, CommandsCovered, OnTheWay, Trying, Due
<1>21. CASE KeyLost
  BY <1>21, DeliveryAssumption DEF KeyLost, UseCall, TypeOK, Threads, Covered,
     FreshClickTrue, TimeoutsCovered, CommandsCovered, OnTheWay, Trying, Due
<1>22. CASE ClickReceived
  BY <1>22, DeliveryAssumption DEF ClickReceived, TypeOK, Threads, Covered, FreshClickTrue,
     TimeoutsCovered, CommandsCovered, OnTheWay, Trying, Due
<1>23. CASE DoTimeouts
  <2>1. FreshClickTrue' /\ CommandsCovered'
    <3>1. pc["fuse"] = "idle"
      BY <1>23 DEF DoTimeouts, LockInv
    <3>2. \A t \in Threads : pc[t] = "send" => pc'[t] = "send"
      BY <1>23, <3>1 DEF DoTimeouts, Goto, TypeOK
    <3>3. UNCHANGED <<display, active, pending, missed, keys>> /\ game' = "resumed"
      BY <1>23 DEF DoTimeouts
    <3> QED
      BY <3>2, <3>3, <1>23 DEF DoTimeouts, Covered, FreshClickTrue, CommandsCovered, OnTheWay
  <2>2. TimeoutsCovered'
    BY <1>23 DEF DoTimeouts, Goto, TypeOK, Threads, TimeoutsCovered, Due, Trying
  <2> QED
    BY <2>1, <2>2 DEF Covered
<1>24. CASE ReadDone
  BY <1>24, DeliveryAssumption DEF ReadDone, Take, TypeOK, Threads, Covered, FreshClickTrue,
     TimeoutsCovered, CommandsCovered, OnTheWay, Trying, Due
<1>25. CASE ReadBuffer
  BY <1>25, DeliveryAssumption DEF ReadBuffer, Take, TypeOK, Threads, Covered,
     FreshClickTrue, TimeoutsCovered, CommandsCovered, OnTheWay, Trying, Due
<1>26. CASE ReadKeyConfig
  BY <1>26, DeliveryAssumption DEF ReadKeyConfig, UseCall, Take, TypeOK, Threads, Covered,
     FreshClickTrue, TimeoutsCovered, CommandsCovered, OnTheWay, Trying, Due
<1>27. CASE ReadTimeout
  BY <1>27, DeliveryAssumption DEF ReadTimeout, UseCall, TypeOK, Threads, Covered,
     FreshClickTrue, TimeoutsCovered, CommandsCovered, OnTheWay, Trying, Due
<1>28. CASE UNCHANGED vars
  BY <1>28 DEF vars, TypeOK, Threads, Covered, FreshClickTrue, TimeoutsCovered,
     CommandsCovered, OnTheWay, Trying, Due
<1> QED
  BY <1>1, <1>2, <1>3, <1>4, <1>5, <1>6, <1>7, <1>8, <1>9, <1>10, <1>11, <1>12, <1>13,
     <1>14, <1>15, <1>16, <1>17, <1>18, <1>19, <1>20, <1>21, <1>22, <1>23, <1>24, <1>25,
     <1>26, <1>27, <1>28 DEF Next, DoClick, Call, ReadConfig

(* Locks are taken and freed where the program counters say. *)
LEMMA LockStep ==
    ASSUME TypeOK, LockInv, [Next]_vars
    PROVE  LockInv'
<1>1. ASSUME NEW t \in Threads, ReadActive(t)
      PROVE  LockInv'
  BY <1>1, DeliveryAssumption DEF ReadActive, Goto, TypeOK, Threads, LockInv, InClickLock
<1>2. ASSUME NEW t \in Threads, ReadPending(t)
      PROVE  LockInv'
  BY <1>2, DeliveryAssumption DEF ReadPending, Goto, TypeOK, Threads, LockInv, InClickLock
<1>3. ASSUME NEW t \in Threads, TryClickLock(t)
      PROVE  LockInv'
  BY <1>3, DeliveryAssumption DEF TryClickLock, Goto, TypeOK, Threads, LockInv, InClickLock
<1>4. ASSUME NEW t \in Threads, SendKey(t)
      PROVE  LockInv'
  BY <1>4, DeliveryAssumption DEF SendKey, Goto, TypeOK, Threads, LockInv, InClickLock
<1>5. ASSUME NEW t \in Threads, ClickUnlock(t)
      PROVE  LockInv'
  BY <1>5, DeliveryAssumption DEF ClickUnlock, Goto, TypeOK, Threads, LockInv, InClickLock
<1>6. ASSUME NEW t \in Writers, Write(t)
      PROVE  LockInv'
  BY <1>6, DeliveryAssumption DEF Write, CanCall, UseCall, Release, Goto, TypeOK, Threads,
     LockInv, InClickLock
<1>7. ASSUME NEW t \in Writers, Wait(t)
      PROVE  LockInv'
  BY <1>7, DeliveryAssumption DEF Wait, CanCall, UseCall, Release, Goto, TypeOK, Threads,
     LockInv, InClickLock
<1>8. ASSUME NEW t \in Writers, CancelWait(t)
      PROVE  LockInv'
  BY <1>8, DeliveryAssumption DEF CancelWait, CanCall, UseCall, Release, Goto, TypeOK,
     Threads, LockInv, InClickLock
<1>9. ASSUME NEW t \in Writers, Reload(t)
      PROVE  LockInv'
  BY <1>9, DeliveryAssumption DEF Reload, CanCall, UseCall, Release, Goto, TypeOK, Threads,
     LockInv, InClickLock
<1>10. ASSUME NEW t \in Writers, SetKeyBegin(t)
      PROVE  LockInv'
  BY <1>10, DeliveryAssumption DEF SetKeyBegin, CanCall, UseCall, Goto, TypeOK, Threads,
     LockInv, InClickLock
<1>11. ASSUME NEW t \in Writers, SetKeyLock(t)
      PROVE  LockInv'
  BY <1>11, DeliveryAssumption DEF SetKeyLock, Goto, TypeOK, Threads, LockInv, InClickLock
<1>12. ASSUME NEW t \in Writers, SetKeyEnd(t)
      PROVE  LockInv'
  BY <1>12, DeliveryAssumption DEF SetKeyEnd, Release, Goto, TypeOK, Threads, LockInv,
     InClickLock
<1>13. CASE Age
  BY <1>13, DeliveryAssumption DEF Age, TypeOK, Threads, LockInv, InClickLock
<1>14. CASE Expire
  BY <1>14, DeliveryAssumption DEF Expire, TypeOK, Threads, LockInv, InClickLock
<1>15. CASE FireTimer
  BY <1>15, DeliveryAssumption DEF FireTimer, Goto, TypeOK, Threads, LockInv, InClickLock
<1>16. CASE FocusChange
  BY <1>16, DeliveryAssumption DEF FocusChange, UseCall, TypeOK, Threads, LockInv,
     InClickLock
<1>17. CASE NoticeFocus
  BY <1>17, DeliveryAssumption DEF NoticeFocus, Goto, TypeOK, Threads, LockInv, InClickLock
<1>18. CASE NotifyAttention
  BY <1>18, DeliveryAssumption DEF NotifyAttention, Goto, TypeOK, Threads, LockInv,
     InClickLock
<1>19. CASE NotifyTimeout
  BY <1>19, DeliveryAssumption DEF NotifyTimeout, UseCall, Goto, TypeOK, Threads, LockInv,
     InClickLock
<1>20. CASE KeyPress
  BY <1>20, DeliveryAssumption DEF KeyPress, TypeOK, Threads, LockInv, InClickLock
<1>21. CASE KeyLost
  BY <1>21, DeliveryAssumption DEF KeyLost, UseCall, TypeOK, Threads, LockInv, InClickLock
<1>22. CASE ClickReceived
  BY <1>22, DeliveryAssumption DEF ClickReceived, TypeOK, Threads, LockInv, InClickLock
<1>23. CASE DoTimeouts
  BY <1>23, DeliveryAssumption DEF DoTimeouts, Due, UseCall, Goto, TypeOK, Threads, LockInv,
     InClickLock
<1>24. CASE ReadDone
  BY <1>24, DeliveryAssumption DEF ReadDone, Take, TypeOK, Threads, LockInv, InClickLock
<1>25. CASE ReadBuffer
  BY <1>25, DeliveryAssumption DEF ReadBuffer, Take, TypeOK, Threads, LockInv, InClickLock
<1>26. CASE ReadKeyConfig
  BY <1>26, DeliveryAssumption DEF ReadKeyConfig, UseCall, Take, TypeOK, Threads, LockInv,
     InClickLock
<1>27. CASE ReadTimeout
  BY <1>27, DeliveryAssumption DEF ReadTimeout, UseCall, TypeOK, Threads, LockInv,
     InClickLock
<1>28. CASE UNCHANGED vars
  BY <1>28 DEF vars, TypeOK, Threads, LockInv, InClickLock
<1> QED
  BY <1>1, <1>2, <1>3, <1>4, <1>5, <1>6, <1>7, <1>8, <1>9, <1>10, <1>11, <1>12, <1>13,
     <1>14, <1>15, <1>16, <1>17, <1>18, <1>19, <1>20, <1>21, <1>22, <1>23, <1>24, <1>25,
     <1>26, <1>27, <1>28 DEF Next, DoClick, Call, ReadConfig

-----------------------------------------------------------------------------
(* The variables have their types in every reachable state, for any        *)
(* threads: commands stay within the bound, and every place of do_click()  *)
(* is one the code has.                                                    *)
THEOREM TypeCorrect == Spec => []TypeOK
<1>1. Init => TypeOK
  <2> SUFFICES ASSUME Init PROVE TypeOK
    OBVIOUS
  <2>1. pc \in [Threads -> PcValues] /\ display \in BOOLEAN
    BY DEF Init, PcValues
  <2>2. queue \in 0 .. MaxQueue /\ calls \in 0 .. MaxCalls /\ keys \in Nat
    BY DeliveryAssumption DEF Init
  <2>3. waiting \in BOOLEAN /\ active \in BOOLEAN /\ focus \in BOOLEAN /\ missed \in BOOLEAN
    BY DEF Init
  <2>4. timer \in {"none"} /\ pending \in {"none"} /\ game \in {"idle"}
    BY DEF Init
  <2> QED
    BY <2>1, <2>2, <2>3, <2>4 DEF Init, TypeOK, PcValues
<1>2. TypeOK /\ [Next]_vars => TypeOK'
  BY TypeStep
<1> QED
  BY <1>1, <1>2, PTL DEF Spec

(* The locks are held where the program counters say. *)
LEMMA LocksHeld == Spec => []LockInv
<1>1. Init => LockInv
  BY DeliveryAssumption DEF Init, LockInv, InClickLock, Threads
<1>2. TypeOK /\ LockInv /\ [Next]_vars => LockInv'
  BY LockStep
<1> QED
  BY <1>1, <1>2, TypeCorrect, PTL DEF Spec

(* Everything that waits is covered in every reachable state. *)
LEMMA AlwaysCovered == Spec => []Covered
<1>1. Init => Covered
  BY DEF Init, Covered, FreshClickTrue, TimeoutsCovered, CommandsCovered, Due
<1>2. TypeOK /\ LockInv /\ Covered /\ [Next]_vars => Covered'
  BY CoveredStep
<1> QED
  BY <1>1, <1>2, TypeCorrect, LocksHeld, PTL DEF Spec

(* No order of the steps of do_click(), of the threads that call it and of *)
(* the game loses a wakeup by itself: in a quiet system with the window    *)
(* active, whatever is left behind is the trace of a click that came to    *)
(* nothing.                                                                *)
THEOREM NothingStrandedTheorem == Spec => []NothingStranded
<1>1. Covered => NothingStranded
  BY DEF Covered, TimeoutsCovered, CommandsCovered, NothingStranded, Quiet, HasWork,
     OnTheWay, Trying, Threads
<1> QED
  BY <1>1, AlwaysCovered, PTL

(* Two threads never press the key or change it at the same time, although *)
(* do_click() runs without the Lua lock. *)
OneUsesDisplay ==
    \A t, u \in Threads : pc[t] \in InClickLock /\ pc[u] \in InClickLock => t = u

(* Whoever holds click_lock never waits: neither for the Lua lock nor for  *)
(* click_lock.  So the one nesting of the two (the click key is set with   *)
(* the Lua lock held) cannot end in everyone waiting on everyone, although *)
(* a thread that holds the Lua lock does wait for click_lock.              *)
NoLockCycle ==
    /\ click_lock # NoThread => click_lock \in Threads /\ pc[click_lock] \in InClickLock
    /\ \A t \in Threads : pc[t] = "keylock" => lua = t /\ click_lock # t

(* do_click() and setting the click key exclude each other. *)
THEOREM OneUsesDisplayTheorem == Spec => []OneUsesDisplay
<1>1. LockInv => OneUsesDisplay
  BY DEF LockInv, OneUsesDisplay
<1> QED
  BY <1>1, LocksHeld, PTL

(* The two locks cannot be waited for in a circle. *)
THEOREM NoLockCycleTheorem == Spec => []NoLockCycle
<1>1. TypeOK /\ LockInv => NoLockCycle
  BY DEF TypeOK, LockInv, NoLockCycle, InClickLock
<1> QED
  BY <1>1, TypeCorrect, LocksHeld, PTL
=============================================================================
