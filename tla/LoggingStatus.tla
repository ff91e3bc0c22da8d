---------------------------- MODULE LoggingStatus ----------------------------
(***************************************************************************)
(* The logging mode of LogManager: a status under a mutex, waited for on a *)
(* condition variable (log_manager.cpp, WaitForModeTransition,             *)
(* SetLoggingStatus).  std::condition_variable is modelled by the set of   *)
(* sleeping threads: a wait enters it and gives the mutex up in one step,  *)
(* notify_all empties it, and a sleeper may also leave it by itself.       *)
(***************************************************************************)
EXTENDS Naturals, FiniteSets

CONSTANTS
  Setters,   \* threads that call SetLoggingStatus
  Waiters,   \* threads that call WaitForModeTransition
  Statuses,  \* LoggingStatusType
  INVALID,   \* the initial status
  NULL,
  MaxSets    \* bound on the calls of SetLoggingStatus

Threads == Setters \cup Waiters

ASSUME StatusAssumption ==
  /\ INVALID \in Statuses
  /\ NULL \notin Threads \cup Statuses
  /\ Setters \cap Waiters = {}
  /\ MaxSets \in Nat

VARIABLES
  logging_status,
  mutex,     \* holder of logging_status_mutex, or NULL
  asleep,    \* threads in logging_status_cv.wait
  pc,        \* where each thread is
  target,    \* the parameter of the thread's call
  sets       \* number of calls of SetLoggingStatus

vars == <<logging_status, mutex, asleep, pc, target, sets>>

-----------------------------------------------------------------------------

Init ==
  /\ logging_status = INVALID
  /\ mutex = NULL
  /\ asleep = {}
  /\ pc = [t \in Threads |-> "idle"]
  /\ target = [t \in Threads |-> NULL]
  /\ sets = 0

Goto(t, from, to) ==
  /\ pc[t] = from
  /\ pc' = [pc EXCEPT ![t] = to]

Acquire(t) == mutex = NULL /\ mutex' = t
Release(t) == mutex = t /\ mutex' = NULL

(* A call of WaitForModeTransition(s) or of SetLoggingStatus(s). *)
Call(t, s) ==
  /\ t \in Setters => sets < MaxSets
  /\ Goto(t, "idle", "lock")
  /\ target' = [target EXCEPT ![t] = s]
  /\ sets' = IF t \in Setters THEN sets + 1 ELSE sets
  /\ UNCHANGED <<logging_status, mutex, asleep>>

(* std::unique_lock / std::lock_guard wait_lock(logging_status_mutex) *)
Lock(t) ==
  /\ Goto(t, "lock", "locked")
  /\ Acquire(t)
  /\ UNCHANGED <<logging_status, asleep, target, sets>>

-----------------------------------------------------------------------------
(* WaitForModeTransition *)

(* while (logging_status != this->logging_status): into the loop's body,   *)
(* or behind the loop, with the mutex still held.                          *)
WaitTest(w) ==
  /\ \/ logging_status # target[w] /\ Goto(w, "locked", "sleep")
     \/ logging_status = target[w] /\ Goto(w, "locked", "leave")
  /\ UNCHANGED <<logging_status, mutex, asleep, target, sets>>

(* wait(wait_lock) puts the thread to sleep and releases the mutex     *)
(* atomically.                                                             *)
Sleep(w) ==
  /\ Goto(w, "sleep", "sleeping")
  /\ Release(w)
  /\ asleep' = asleep \cup {w}
  /\ UNCHANGED <<logging_status, target, sets>>

(* Mutant: the condition is not tested again after the wait. *)
Wake_if(w) ==
  /\ w \notin asleep
  /\ Goto(w, "sleeping", "leave")
  /\ Acquire(w)
  /\ UNCHANGED <<logging_status, asleep, target, sets>>

(* A thread that was notified, or wakes without being notified, takes the  *)
(* mutex again and goes back to the loop's condition.                      *)
Wake(w) ==
  /\ w \notin asleep
  /\ Goto(w, "sleeping", "locked")
  /\ Acquire(w)
  /\ UNCHANGED <<logging_status, asleep, target, sets>>

SpuriousWake(w) ==
  /\ w \in asleep
  /\ asleep' = asleep \ {w}
  /\ UNCHANGED <<logging_status, mutex, pc, target, sets>>

(* The lock's destructor releases the mutex and the call returns; nothing  *)
(* is tested here.                                                         *)
WaitReturn(w) ==
  /\ Goto(w, "leave", "idle")
  /\ Release(w)
  /\ target' = [target EXCEPT ![w] = NULL]
  /\ UNCHANGED <<logging_status, asleep, sets>>

-----------------------------------------------------------------------------
(* SetLoggingStatus *)

(* this->logging_status = logging_status *)
Assign(t) ==
  /\ Goto(t, "locked", "assigned")
  /\ logging_status' = target[t]
  /\ UNCHANGED <<mutex, asleep, target, sets>>

(* Mutant: notify_one. *)
Notify_one(t) ==
  /\ Goto(t, "assigned", "idle")
  /\ \/ asleep = {} /\ UNCHANGED asleep
     \/ \E w \in asleep : asleep' = asleep \ {w}
  /\ Release(t)
  /\ target' = [target EXCEPT ![t] = NULL]
  /\ UNCHANGED <<logging_status, sets>>

(* notify_all, and the lock's destructor releases the mutex. *)
Notify(t) ==
  /\ Goto(t, "assigned", "idle")
  /\ asleep' = {}
  /\ Release(t)
  /\ target' = [target EXCEPT ![t] = NULL]
  /\ UNCHANGED <<logging_status, sets>>

-----------------------------------------------------------------------------

Setter(t) ==
  \/ \E s \in Statuses : Call(t, s)
  \/ Lock(t)
  \/ Assign(t)
  \/ Notify(t)

WaitForModeTransition(w) ==
  \/ Lock(w)
  \/ WaitTest(w)
  \/ Sleep(w)
  \/ Wake(w)
  \/ WaitReturn(w)

Next ==
  \/ \E t \in Setters : Setter(t)
  \/ \E w \in Waiters : WaitForModeTransition(w)
  \/ \E w \in Waiters, s \in Statuses : Call(w, s)
  \/ \E w \in Waiters : SpuriousWake(w)

Spec == Init /\ [][Next]_vars

(* Threads inside a call run on, and a thread that keeps finding the mutex *)
(* free at times gets it; nobody has to call anything.                     *)
FairSpec ==
  /\ Spec
  /\ \A t \in Setters : SF_vars(Lock(t)) /\ WF_vars(Assign(t) \/ Notify(t))
  /\ \A w \in Waiters :
       /\ SF_vars(Lock(w)) /\ SF_vars(Wake(w))
       /\ WF_vars(WaitTest(w) \/ Sleep(w) \/ WaitReturn(w))

-----------------------------------------------------------------------------

TypeOK ==
  /\ logging_status \in Statuses
  /\ mutex \in Threads \cup {NULL}
  /\ asleep \subseteq Waiters
  /\ pc \in [Threads -> {"idle", "lock", "locked", "sleep", "sleeping", "leave",
                       "assigned"}]
  /\ \A t \in Setters : pc[t] \notin {"sleep", "sleeping", "leave"}
  /\ \A w \in Waiters : pc[w] # "assigned"
  /\ target \in [Threads -> Statuses \cup {NULL}]
  /\ sets \in 0..MaxSets

(* No wakeup is lost: a thread sleeps in the status it waits for only      *)
(* while the notification of that status is still to come, whatever was    *)
(* set between its test and its sleep.                                     *)
NoLostWakeup ==
  \A w \in asleep :
    logging_status = target[w] => \E t \in Setters : pc[t] = "assigned"

(* The critical sections exclude each other, and what a waiter has tested  *)
(* still holds when it falls asleep or returns.                            *)
MonitorInv ==
  /\ \A t \in Threads : pc[t] \in {"locked", "sleep", "leave", "assigned"} <=> mutex = t
  /\ \A w \in asleep : pc[w] = "sleeping"
  /\ \A w \in Waiters :
       /\ pc[w] = "sleep" => logging_status # target[w]
       /\ pc[w] = "leave" => logging_status = target[w]
  /\ \A t \in Threads : pc[t] # "idle" => target[t] # NULL

(* A wait returns in the status it was called for: between the test that   *)
(* ends its loop and the release of the mutex no setter changes the        *)
(* status, and no wait returns on a status that was assigned but whose     *)
(* notification is still to come.                                          *)
ReturnsInTarget ==
  [][\A w \in Waiters :
       pc[w] # "idle" /\ pc'[w] = "idle" =>
         /\ logging_status' = target[w]
         /\ \A t \in Setters : pc'[t] # "assigned"]_vars

(* A wait for a status that is set and stays set returns. *)
WaitEnds ==
  \A w \in Waiters, s \in Statuses :
    <>[](logging_status = s) /\ []<>(target[w] = s) => []<>(pc[w] = "idle")

=============================================================================
