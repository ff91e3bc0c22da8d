------------------------- MODULE LoggingStatusProofs -------------------------
(***************************************************************************)
(* Proofs about LoggingStatus, for any number of setters, waiters and      *)
(* statuses.  The inductive invariant is the conjunction of TypeOK,        *)
(* MonitorInv and NoLostWakeup: MonitorInv says that a thread between its  *)
(* test and its sleep, or its return, holds the mutex, so that no setter   *)
(* can assign there.                                                       *)
(***************************************************************************)
EXTENDS LoggingStatus, TLAPS

IInv == TypeOK /\ MonitorInv /\ NoLostWakeup

(* The initial state satisfies the invariant. *)
LEMMA InvInit == Init => IInv
BY StatusAssumption DEF Init, IInv, TypeOK, MonitorInv, NoLostWakeup, Threads

(* Every step keeps the types; the target of a running call is a status. *)
LEMMA TypeStep == IInv /\ [Next]_vars => TypeOK'
<1> SUFFICES ASSUME IInv, [Next]_vars
             PROVE  TypeOK'
  OBVIOUS
<1> USE StatusAssumption DEF TypeOK, Goto, Acquire, Release, Threads
<1>0. TypeOK /\ MonitorInv
  BY DEF IInv
<1>1. ASSUME NEW t \in Threads, NEW s \in Statuses, Call(t, s)
      PROVE  TypeOK'
  BY <1>0, <1>1 DEF Call
<1>2. ASSUME NEW t \in Threads, Lock(t)
      PROVE  TypeOK'
  BY <1>0, <1>2 DEF Lock
<1>3. ASSUME NEW t \in Setters, Assign(t)
      PROVE  TypeOK'
  <2>1. target[t] \in Statuses
    BY <1>0, <1>3 DEF Assign, MonitorInv
  <2> QED
    BY <1>0, <1>3, <2>1 DEF Assign
<1>4. ASSUME NEW t \in Setters, Notify(t)
      PROVE  TypeOK'
  BY <1>0, <1>4 DEF Notify
<1>5. ASSUME NEW w \in Waiters, WaitTest(w)
      PROVE  TypeOK'
  BY <1>0, <1>5 DEF WaitTest
<1>6. ASSUME NEW w \in Waiters, Sleep(w)
      PROVE  TypeOK'
  BY <1>0, <1>6 DEF Sleep
<1>7. ASSUME NEW w \in Waiters, Wake(w)
      PROVE  TypeOK'
  BY <1>0, <1>7 DEF Wake
<1>8. ASSUME NEW w \in Waiters, WaitReturn(w)
      PROVE  TypeOK'
  BY <1>0, <1>8 DEF WaitReturn
<1>9. ASSUME NEW w \in Waiters, SpuriousWake(w)
      PROVE  TypeOK'
  BY <1>0, <1>9 DEF SpuriousWake
<1>10. CASE UNCHANGED vars
  BY <1>0, <1>10 DEF vars
<1> QED
  BY <1>1, <1>2, <1>3, <1>4, <1>5, <1>6, <1>7, <1>8, <1>9, <1>10
     DEF Next, Setter, WaitForModeTransition

(* Every step keeps the monitor: the mutex has one holder, and nobody      *)
(* assigns while another thread is between its test and its sleep or its   *)
(* return.                                                                 *)
LEMMA MonitorStep == IInv /\ [Next]_vars => MonitorInv'
<1> SUFFICES ASSUME IInv, [Next]_vars
             PROVE  MonitorInv'
  OBVIOUS
<1> USE StatusAssumption DEF TypeOK, MonitorInv, Goto, Acquire, Release, Threads
<1>0. TypeOK /\ MonitorInv
  BY DEF IInv
<1>1. ASSUME NEW t \in Threads, NEW s \in Statuses, Call(t, s)
      PROVE  MonitorInv'
  BY <1>0, <1>1 DEF Call
<1>2. ASSUME NEW t \in Threads, Lock(t)
      PROVE  MonitorInv'
  BY <1>0, <1>2 DEF Lock
<1>3. ASSUME NEW t \in Setters, Assign(t)
      PROVE  MonitorInv'
  BY <1>0, <1>3 DEF Assign
<1>4. ASSUME NEW t \in Setters, Notify(t)
      PROVE  MonitorInv'
  BY <1>0, <1>4 DEF Notify
<1>5. ASSUME NEW w \in Waiters, WaitTest(w)
      PROVE  MonitorInv'
  BY <1>0, <1>5 DEF WaitTest
<1>6. ASSUME NEW w \in Waiters, Sleep(w)
      PROVE  MonitorInv'
  BY <1>0, <1>6 DEF Sleep
<1>7. ASSUME NEW w \in Waiters, Wake(w)
      PROVE  MonitorInv'
  BY <1>0, <1>7 DEF Wake
<1>8. ASSUME NEW w \in Waiters, WaitReturn(w)
      PROVE  MonitorInv'
  BY <1>0, <1>8 DEF WaitReturn
<1>9. ASSUME NEW w \in Waiters, SpuriousWake(w)
      PROVE  MonitorInv'
  BY <1>0, <1>9 DEF SpuriousWake
<1>10. CASE UNCHANGED vars
  BY <1>0, <1>10 DEF vars
<1> QED
  BY <1>1, <1>2, <1>3, <1>4, <1>5, <1>6, <1>7, <1>8, <1>9, <1>10
     DEF Next, Setter, WaitForModeTransition

(* Every step keeps NoLostWakeup: an assignment leaves its setter in front *)
(* of the notification, the notification empties the set of sleepers, and  *)
(* whoever falls asleep holds the mutex and has tested the status.         *)
LEMMA WakeupStep == IInv /\ [Next]_vars => NoLostWakeup'
<1> SUFFICES ASSUME IInv, [Next]_vars
             PROVE  NoLostWakeup'
  OBVIOUS
<1> USE StatusAssumption DEF TypeOK, NoLostWakeup, Goto, Acquire, Release, Threads
<1>0. TypeOK /\ MonitorInv /\ NoLostWakeup
  BY DEF IInv
<1>1. ASSUME NEW t \in Threads, NEW s \in Statuses, Call(t, s)
      PROVE  NoLostWakeup'
  <2>1. t \notin asleep
    BY <1>0, <1>1 DEF Call, MonitorInv
  <2> QED
    BY <1>0, <1>1, <2>1 DEF Call
<1>2. ASSUME NEW t \in Threads, Lock(t)
      PROVE  NoLostWakeup'
  BY <1>0, <1>2 DEF Lock
<1>3. ASSUME NEW t \in Setters, Assign(t)
      PROVE  NoLostWakeup'
  <2>1. pc'[t] = "assigned"
    BY <1>0, <1>3 DEF Assign
  <2> QED
    BY <2>1
<1>4. ASSUME NEW t \in Setters, Notify(t)
      PROVE  NoLostWakeup'
  BY <1>4 DEF Notify
<1>5. ASSUME NEW w \in Waiters, WaitTest(w)
      PROVE  NoLostWakeup'
  BY <1>0, <1>5 DEF WaitTest
<1>6. ASSUME NEW w \in Waiters, Sleep(w)
      PROVE  NoLostWakeup'
  BY <1>0, <1>6 DEF Sleep, MonitorInv
<1>7. ASSUME NEW w \in Waiters, Wake(w)
      PROVE  NoLostWakeup'
  BY <1>0, <1>7 DEF Wake
<1>8. ASSUME NEW w \in Waiters, WaitReturn(w)
      PROVE  NoLostWakeup'
  <2>1. w \notin asleep
    BY <1>0, <1>8 DEF WaitReturn, MonitorInv
  <2> QED
    BY <1>0, <1>8, <2>1 DEF WaitReturn
<1>9. ASSUME NEW w \in Waiters, SpuriousWake(w)
      PROVE  NoLostWakeup'
  BY <1>0, <1>9 DEF SpuriousWake
<1>10. CASE UNCHANGED vars
  BY <1>0, <1>10 DEF vars
<1> QED
  BY <1>1, <1>2, <1>3, <1>4, <1>5, <1>6, <1>7, <1>8, <1>9, <1>10
     DEF Next, Setter, WaitForModeTransition

(* The invariant holds in every reachable state. *)
LEMMA Invariant == Spec => []IInv
<1>1. IInv /\ [Next]_vars => IInv'
  BY TypeStep, MonitorStep, WakeupStep DEF IInv
<1> QED
  BY InvInit, <1>1, PTL DEF Spec

(* Types: a status that is set is the one that was asked for.              *)
THEOREM StatusTypeCorrect == Spec => []TypeOK
BY Invariant, PTL DEF IInv

(* Mutual exclusion of the critical sections, and a waiter's test still    *)
(* holds when it falls asleep or returns.                                  *)
THEOREM MonitorCorrect == Spec => []MonitorInv
BY Invariant, PTL DEF IInv

(* No wakeup is lost: a thread sleeps in the status it waits for only      *)
(* while the notification of that status is still to come.                 *)
THEOREM WakeupNotLost == Spec => []NoLostWakeup
BY Invariant, PTL DEF IInv

(* A wait returns in the status it was called for, and not between the     *)
(* assignment of a status and its notification: the thread that returns    *)
(* has held the mutex since its test.                                      *)
THEOREM WaitReturnsInTarget == Spec => ReturnsInTarget
<1> DEFINE Return == \A w \in Waiters :
             pc[w] # "idle" /\ pc'[w] = "idle" =>
               /\ logging_status' = target[w]
               /\ \A t \in Setters : pc'[t] # "assigned"
<1>1. IInv /\ [Next]_vars => [Return]_vars
  <2> SUFFICES ASSUME IInv, [Next]_vars,
                      NEW w \in Waiters, pc[w] # "idle", pc'[w] = "idle"
               PROVE  /\ logging_status' = target[w]
                      /\ \A t \in Setters : pc'[t] # "assigned"
    OBVIOUS
  <2>1. TypeOK /\ MonitorInv
    BY DEF IInv
  <2> USE <2>1, StatusAssumption DEF TypeOK, Goto, Threads
  <2>2. ASSUME NEW t \in Setters,
               Lock(t) \/ Assign(t) \/ Notify(t) \/ \E s \in Statuses : Call(t, s)
        PROVE  FALSE
    BY <2>2 DEF Lock, Assign, Notify, Call
  <2>3. ASSUME NEW v \in Waiters,
               Lock(v) \/ WaitTest(v) \/ Sleep(v) \/ Wake(v) \/ SpuriousWake(v)
                 \/ \E s \in Statuses : Call(v, s)
        PROVE  FALSE
    BY <2>3 DEF Lock, WaitTest, Sleep, Wake, SpuriousWake, Call
  <2>4. ASSUME NEW v \in Waiters, WaitReturn(v)
        PROVE  /\ logging_status' = target[w]
               /\ \A t \in Setters : pc'[t] # "assigned"
    <3>1. v = w /\ pc[w] = "leave"
      BY <2>4 DEF WaitReturn
    (* What the test found still holds: no setter had the mutex since.     *)
    <3>2. logging_status = target[w] /\ mutex = w
      BY <3>1 DEF MonitorInv
    <3>3. \A t \in Setters : pc[t] # "assigned"
      BY <3>2 DEF MonitorInv
    <3> QED
      BY <2>4, <3>1, <3>2, <3>3 DEF WaitReturn
  <2>5. CASE UNCHANGED vars
    BY <2>5 DEF vars
  <2> QED
    BY <2>2, <2>3, <2>4, <2>5 DEF Next, Setter, WaitForModeTransition
<1> QED
  BY Invariant, <1>1, PTL DEF Spec, ReturnsInTarget

=============================================================================
