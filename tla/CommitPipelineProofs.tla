------------------------- MODULE CommitPipelineProofs -------------------------
(***************************************************************************)
(* Proofs about CommitPipeline, for any number of loggers and              *)
(* transactions.  The invariants are proved in three layers: the types,    *)
(* the notification, and the way of the records from a logger to the disk. *)
(***************************************************************************)
EXTENDS CommitPipeline, TLAPS

(* A worker holds its mutex exactly between its test and its sleep, and a  *)
(* worker that sleeps or is about to sleep although its transaction is     *)
(* covered has its notification ahead.                                     *)
NotifyAhead(l) ==
  max_flushed_commit_id[l] >= txn[l] =>
    fpc = "collect" \/ (fpc = "notify" /\ l \in todo)

WaitInv ==
  /\ \A l \in Loggers : l \in held <=> wpc[l] \in {"test", "sleep"}
  /\ \A l \in Loggers : wpc[l] = "sleep" \/ l \in asleep => NotifyAhead(l)

(* The way of the records logged in the logging mode: none disappears, and *)
(* in the round after the loop they leave the loggers one by one.          *)
KeptBy(L, r) == r \in queue \cup disk \/ \E l \in L : r \in buffers[l]

FlushInv ==
  /\ \A r \in promised : KeptBy(Loggers, r)
  /\ last => status # "LOGGING"
  /\ fpc = "done" => last
  /\ fpc = "test" => ~last
  /\ fpc # "collect" => queue = {}
  /\ last /\ fpc = "collect" => \A r \in promised : KeptBy(todo, r)
  /\ last /\ fpc \in {"notify", "done"} => promised \subseteq disk

(* The ids: what a logger has seen is not newer than its transaction, and  *)
(* a record of the transaction it has published is on its way to the disk. *)
Collected(t) == \E position \in Positions : <<t, position>> \in queue \cup disk

Logged(l, t) == \E position \in Positions : <<t, position>> \in buffers[l]

IdInv ==
  /\ \A l \in Loggers : max_seen_txn_id[l] < next /\ txn[l] < next
  /\ \A l \in Loggers : txn[l] # 0 => max_seen_txn_id[l] <= txn[l]
  /\ \A l \in Loggers : max_flushed_commit_id[l] <= max_seen_txn_id[l]
  /\ \A l \in Loggers : max_seen_txn_id[l] # 0 =>
       Collected(max_seen_txn_id[l]) \/ Logged(l, max_seen_txn_id[l])
  /\ \A l \in Loggers : max_flushed_commit_id[l] # 0 =>
       Collected(max_flushed_commit_id[l])
  /\ \A t \in acked : Collected(t)

(* A worker in a transaction has a transaction. *)
BusyInv == \A l \in Loggers : wpc[l] # "idle" => txn[l] # 0

-----------------------------------------------------------------------------
(* Types *)

LEMMA TypeInit == Init => TypeOK /\ BusyInv
<1> SUFFICES ASSUME Init
             PROVE  TypeOK /\ BusyInv
  OBVIOUS
<1> USE DEF Init
<1>1. 0 \in 0..MaxTxn /\ 1 \in 1..MaxTxn + 1
  BY PipelineAssumption
<1>2. /\ txn \in [Loggers -> 0..MaxTxn]
      /\ max_seen_txn_id \in [Loggers -> 0..MaxTxn]
      /\ max_flushed_commit_id \in [Loggers -> 0..MaxTxn]
  BY <1>1
<1>3. buffers \in [Loggers -> SUBSET Records]
  OBVIOUS
<1>4. wpc \in [Loggers -> {"idle", "running", "lock", "test", "sleep"}]
  OBVIOUS
<1> QED
  BY <1>1, <1>2, <1>3, <1>4 DEF TypeOK, BusyInv

(* Every step keeps the types. *)
LEMMA TypeStep == TypeOK /\ BusyInv /\ [Next]_vars => TypeOK' /\ BusyInv'
<1> SUFFICES ASSUME TypeOK, BusyInv, [Next]_vars
             PROVE  TypeOK' /\ BusyInv'
  OBVIOUS
<1> USE PipelineAssumption DEF TypeOK, BusyInv, WorkerGoto, workerVars, flusherVars
<1>1. ASSUME NEW l \in Loggers, Begin(l)
      PROVE  TypeOK' /\ BusyInv'
  BY <1>1 DEF Begin
<1>2. ASSUME NEW l \in Loggers, LogNormal(l)
      PROVE  TypeOK' /\ BusyInv'
  BY <1>2 DEF LogNormal, Log, RecordId, Records, Txns
<1>3. ASSUME NEW l \in Loggers, LogCommit(l)
      PROVE  TypeOK' /\ BusyInv'
  BY <1>3 DEF LogCommit, Log, RecordId, Records, Txns
<1>4. ASSUME NEW l \in Loggers, WaitForFlush(l)
      PROVE  TypeOK' /\ BusyInv'
  <2>1. CASE WaitLock(l)
    BY <2>1 DEF WaitLock
  <2>2. CASE WaitTest(l)
    BY <2>2 DEF WaitTest
  <2>3. CASE WaitSleep(l)
    BY <2>3 DEF WaitSleep
  <2>4. CASE WaitReturn(l)
    <3>1. txn[l] \in Txns
      BY <2>4 DEF WaitReturn, Txns
    <3> QED
      BY <2>4, <3>1 DEF WaitReturn
  <2> QED
    BY <1>4, <2>1, <2>2, <2>3, <2>4 DEF WaitForFlush
<1>5. ASSUME NEW l \in Loggers, SpuriousWake(l)
      PROVE  TypeOK' /\ BusyInv'
  BY <1>5 DEF SpuriousWake
<1>6. CASE MainLoop
  BY <1>6 DEF MainLoop
<1>7. ASSUME NEW l \in Loggers, GetLogBuffers(l)
      PROVE  TypeOK' /\ BusyInv'
  BY <1>7 DEF GetLogBuffers
<1>8. CASE FlushLogRecords
  BY <1>8 DEF FlushLogRecords
<1>9. ASSUME NEW l \in Loggers, FlushLoggerFlushed(l)
      PROVE  TypeOK' /\ BusyInv'
  BY <1>9 DEF FlushLoggerFlushed
<1>10. CASE RoundEnds
  BY <1>10 DEF RoundEnds
<1>11. CASE StopLogging
  BY <1>11 DEF StopLogging
<1>12. CASE UNCHANGED vars
  BY <1>12 DEF vars
<1> QED
  BY <1>1, <1>2, <1>3, <1>4, <1>5, <1>6, <1>7, <1>8, <1>9, <1>10, <1>11, <1>12
     DEF Next, Worker, Flusher

TypeInv == TypeOK /\ BusyInv

LEMMA TypeInvariant == Spec => []TypeInv
<1>1. Init => TypeInv
  BY TypeInit DEF TypeInv
<1>2. TypeInv /\ [Next]_vars => TypeInv'
  BY TypeStep DEF TypeInv
<1> QED
  BY <1>1, <1>2, PTL DEF Spec

(* The types of the whole pipeline, with garbage ids or without. *)
THEOREM PipelineTypeCorrect == Spec => []TypeOK
BY TypeInvariant, PTL DEF TypeInv

-----------------------------------------------------------------------------
(* The notification *)

(* Every step keeps WaitInv: max_flushed_commit_id grows only while the    *)
(* notifications of the round are still to come, and a notification waits  *)
(* for the mutex of a worker that is about to sleep.                       *)
LEMMA WaitStep == TypeInv /\ WaitInv /\ [Next]_vars => WaitInv'
<1> SUFFICES ASSUME TypeOK, WaitInv, [Next]_vars
             PROVE  WaitInv'
  BY DEF TypeInv
<1> USE DEF TypeOK, WaitInv, NotifyAhead, WorkerGoto, workerVars, flusherVars
<1>1. ASSUME NEW l \in Loggers, Begin(l)
      PROVE  WaitInv'
  BY <1>1 DEF Begin
<1>2. ASSUME NEW l \in Loggers, LogNormal(l)
      PROVE  WaitInv'
  BY <1>2 DEF LogNormal, Log
<1>3. ASSUME NEW l \in Loggers, LogCommit(l)
      PROVE  WaitInv'
  BY <1>3 DEF LogCommit, Log
<1>4. ASSUME NEW l \in Loggers, WaitForFlush(l)
      PROVE  WaitInv'
  <2>1. CASE WaitLock(l)
    BY <2>1 DEF WaitLock
  <2>2. CASE WaitTest(l)
    BY <2>2 DEF WaitTest
  <2>3. CASE WaitSleep(l)
    BY <2>3 DEF WaitSleep
  <2>4. CASE WaitReturn(l)
    BY <2>4 DEF WaitReturn
  <2> QED
    BY <1>4, <2>1, <2>2, <2>3, <2>4 DEF WaitForFlush
<1>5. ASSUME NEW l \in Loggers, SpuriousWake(l)
      PROVE  WaitInv'
  BY <1>5 DEF SpuriousWake
<1>6. CASE MainLoop
  BY <1>6 DEF MainLoop
<1>7. ASSUME NEW l \in Loggers, GetLogBuffers(l)
      PROVE  WaitInv'
  BY <1>7 DEF GetLogBuffers
<1>8. CASE FlushLogRecords
  BY <1>8 DEF FlushLogRecords
<1>9. ASSUME NEW l \in Loggers, FlushLoggerFlushed(l)
      PROVE  WaitInv'
  BY <1>9 DEF FlushLoggerFlushed
<1>10. CASE RoundEnds
  BY <1>10 DEF RoundEnds
<1>11. CASE StopLogging
  BY <1>11 DEF StopLogging
<1>12. CASE UNCHANGED vars
  BY <1>12 DEF vars
<1> QED
  BY <1>1, <1>2, <1>3, <1>4, <1>5, <1>6, <1>7, <1>8, <1>9, <1>10, <1>11, <1>12
     DEF Next, Worker, Flusher

(* No committer whose transaction a round has covered sleeps past the      *)
(* notification of that round, although max_flushed_commit_id is written   *)
(* without the mutex of the wait.                                          *)
THEOREM FlushWakeupNotLost == Spec => []NoLostFlushWakeup
<1>1. Init => WaitInv
  BY DEF Init, WaitInv
<1>2. TypeInv /\ WaitInv => NoLostFlushWakeup
  BY DEF TypeInv, TypeOK, WaitInv, NotifyAhead, NoLostFlushWakeup
<1> QED
  BY TypeInvariant, WaitStep, <1>1, <1>2, PTL DEF Spec

-----------------------------------------------------------------------------
(* The end of MainLoop *)

(* Every step keeps FlushInv. *)
LEMMA FlushStep == TypeInv /\ FlushInv /\ [Next]_vars => FlushInv'
<1> SUFFICES ASSUME TypeOK, FlushInv, [Next]_vars
             PROVE  FlushInv'
  BY DEF TypeInv
<1> USE DEF TypeOK, FlushInv, KeptBy, WorkerGoto, flusherVars
<1>1. ASSUME NEW l \in Loggers, Begin(l)
      PROVE  FlushInv'
  BY <1>1 DEF Begin
<1>2. ASSUME NEW l \in Loggers, LogNormal(l)
      PROVE  FlushInv'
  BY <1>2 DEF LogNormal, Log
<1>3. ASSUME NEW l \in Loggers, LogCommit(l)
      PROVE  FlushInv'
  BY <1>3 DEF LogCommit, Log
<1>4. ASSUME NEW l \in Loggers, WaitForFlush(l) \/ SpuriousWake(l)
      PROVE  FlushInv'
  BY <1>4 DEF WaitForFlush, WaitLock, WaitTest, WaitSleep, WaitReturn, SpuriousWake
<1>6. CASE MainLoop
  BY <1>6 DEF MainLoop, workerVars
<1>7. ASSUME NEW l \in Loggers, GetLogBuffers(l)
      PROVE  FlushInv'
  BY <1>7 DEF GetLogBuffers, workerVars
<1>8. CASE FlushLogRecords
  BY <1>8 DEF FlushLogRecords, workerVars
<1>9. ASSUME NEW l \in Loggers, FlushLoggerFlushed(l)
      PROVE  FlushInv'
  BY <1>9 DEF FlushLoggerFlushed, workerVars
<1>10. CASE RoundEnds
  BY <1>10 DEF RoundEnds, workerVars
<1>11. CASE StopLogging
  BY <1>11 DEF StopLogging, workerVars
<1>12. CASE UNCHANGED vars
  BY <1>12 DEF vars
<1> QED
  BY <1>1, <1>2, <1>3, <1>4, <1>6, <1>7, <1>8, <1>9, <1>10, <1>11, <1>12
     DEF Next, Worker, Flusher

(* When MainLoop returns, everything logged in the logging mode is on the  *)
(* disk: the round after the loop begins after the mode has ended.         *)
THEOREM FinalFlushComplete == Spec => []FinalFlush
<1>1. Init => FlushInv
  BY DEF Init, FlushInv
<1>2. FlushInv => FinalFlush
  BY DEF FlushInv, FinalFlush
<1> QED
  BY TypeInvariant, FlushStep, <1>1, <1>2, PTL DEF Spec

-----------------------------------------------------------------------------
(* Acknowledged commits *)

(* Logging a record keeps IdInv: it raises max_seen_txn_id to the id of a  *)
(* record that is in the buffers.                                          *)
LEMMA LogKeepsIds ==
  ASSUME ~GarbageIds, TypeOK, IdInv,
         NEW l \in Loggers, NEW position \in Positions,
         txn[l] # 0, Log(l, position),
         UNCHANGED <<next, txn, acked, queue, disk, max_flushed_commit_id>>
  PROVE  IdInv'
<1> USE DEF TypeOK, IdInv
<1>1. max_seen_txn_id' = [max_seen_txn_id EXCEPT ![l] = txn[l]]
  BY DEF Log, RecordId
<1>2. \A t : Collected(t)' <=> Collected(t)
  BY DEF Collected
<1>3. \A m \in Loggers : \A t : Logged(m, t) => Logged(m, t)'
  BY DEF Log, Logged
<1>4. Logged(l, txn[l])'
  BY DEF Log, Logged
<1>5. \A m \in Loggers :
        /\ max_seen_txn_id'[m] < next /\ txn[m] < next
        /\ txn[m] # 0 => max_seen_txn_id'[m] <= txn[m]
        /\ max_flushed_commit_id[m] <= max_seen_txn_id'[m]
  <2>1. /\ txn[l] \in Nat
        /\ max_seen_txn_id[l] \in Nat
        /\ max_flushed_commit_id[l] \in Nat
    BY PipelineAssumption
  <2> QED
    BY <1>1, <2>1
<1>6. ASSUME NEW m \in Loggers, max_seen_txn_id'[m] # 0
      PROVE  (Collected(max_seen_txn_id[m]) \/ Logged(m, max_seen_txn_id[m]))'
  <2>1. CASE m = l
    BY <1>1, <1>4, <2>1 DEF Logged
  <2>2. CASE m # l
    BY <1>1, <1>3, <1>6, <2>2 DEF Collected, Logged
  <2> QED
    BY <2>1, <2>2
<1>7. ASSUME NEW m \in Loggers, max_flushed_commit_id'[m] # 0
      PROVE  Collected(max_flushed_commit_id[m])'
  BY <1>7 DEF Collected
<1>8. \A t \in acked' : Collected(t)'
  BY <1>2
<1> QED
  BY <1>5, <1>6, <1>7, <1>8

(* With the ids the records are meant to carry, every step keeps IdInv.    *)
LEMMA IdStep ==
  ASSUME ~GarbageIds
  PROVE  TypeInv /\ IdInv /\ [Next]_vars => IdInv'
<1> SUFFICES ASSUME TypeOK, BusyInv, IdInv, [Next]_vars
             PROVE  IdInv'
  BY DEF TypeInv
<1> USE DEF TypeOK, IdInv, Collected, Logged, WorkerGoto, flusherVars
<1>1. ASSUME NEW l \in Loggers, Begin(l)
      PROVE  IdInv'
  <2>1. /\ next \in Nat /\ next # 0
        /\ \A m \in Loggers : max_seen_txn_id[m] \in Nat /\ txn[m] \in Nat
    BY PipelineAssumption
  <2>2. /\ next' = next + 1
        /\ txn' = [txn EXCEPT ![l] = next]
        /\ UNCHANGED <<buffers, queue, disk, acked, max_seen_txn_id,
                       max_flushed_commit_id>>
    BY <1>1 DEF Begin
  <2>3. \A m \in Loggers :
          /\ max_seen_txn_id[m] < next + 1 /\ txn'[m] < next + 1
          /\ txn'[m] # 0 => max_seen_txn_id[m] <= txn'[m]
    BY <2>1, <2>2
  <2> QED
    BY <2>2, <2>3
<1>2. ASSUME NEW l \in Loggers, LogNormal(l)
      PROVE  IdInv'
  BY <1>2, LogKeepsIds DEF LogNormal, BusyInv
<1>3. ASSUME NEW l \in Loggers, LogCommit(l)
      PROVE  IdInv'
  BY <1>3, PipelineAssumption, LogKeepsIds DEF LogCommit, BusyInv
<1>4. ASSUME NEW l \in Loggers, WaitLock(l) \/ WaitTest(l) \/ WaitSleep(l) \/ SpuriousWake(l)
      PROVE  IdInv'
  BY <1>4 DEF WaitLock, WaitTest, WaitSleep, SpuriousWake
<1>5. ASSUME NEW l \in Loggers, WaitReturn(l)
      PROVE  IdInv'
  <2>1. txn[l] # 0 /\ max_flushed_commit_id[l] = txn[l]
    <3>1. /\ txn[l] \in Nat
          /\ max_seen_txn_id[l] \in Nat
          /\ max_flushed_commit_id[l] \in Nat
      BY PipelineAssumption
    <3> QED
      BY <1>5, <3>1 DEF WaitReturn, BusyInv
  <2>2. Collected(txn[l])
    BY <2>1
  <2>3. \A m \in Loggers : txn'[m] = txn[m] \/ txn'[m] = 0
    BY <1>5 DEF WaitReturn
  <2>4. 0 < next
    BY PipelineAssumption
  <2>5. UNCHANGED <<next, buffers, queue, disk, max_seen_txn_id, max_flushed_commit_id>>
    BY <1>5 DEF WaitReturn
  <2>6. \A t \in acked' : Collected(t)
    BY <1>5, <2>2 DEF WaitReturn
  <2> QED
    BY <2>3, <2>4, <2>5, <2>6
<1>6. CASE MainLoop
  BY <1>6 DEF MainLoop, workerVars
<1>7. ASSUME NEW l \in Loggers, GetLogBuffers(l)
      PROVE  IdInv'
  <2> USE <1>7 DEF GetLogBuffers, workerVars
  <2>1. \A t : Collected(t) => Collected(t)'
    OBVIOUS
  <2>2. \A m \in Loggers : \A t : Logged(m, t) => Collected(t)' \/ Logged(m, t)'
    OBVIOUS
  <2>3. \A t : Logged(l, t) => Collected(t)'
    OBVIOUS
  <2>4. UNCHANGED <<next, txn, acked, max_seen_txn_id>>
    OBVIOUS
  <2>5. max_flushed_commit_id' =
          [max_flushed_commit_id EXCEPT ![l] = max_seen_txn_id[l]]
    OBVIOUS
  <2>6. \A m \in Loggers : max_seen_txn_id[m] # 0 =>
          Collected(max_seen_txn_id[m])' \/ Logged(m, max_seen_txn_id[m])'
    BY <2>1, <2>2
  <2>7. ASSUME NEW m \in Loggers, max_flushed_commit_id'[m] # 0
        PROVE  Collected(max_flushed_commit_id[m])'
    <3>1. CASE m = l
      <4>1. max_flushed_commit_id'[m] = max_seen_txn_id[l]
        BY <2>5, <3>1
      <4>2. Collected(max_seen_txn_id[l]) \/ Logged(l, max_seen_txn_id[l])
        BY <2>7, <4>1
      <4>3. Collected(max_seen_txn_id[l])'
        BY <2>1, <2>3, <2>4, <4>2
      <4> QED
        BY <2>4, <4>1, <4>3
    <3>2. CASE m # l
      <4>1. max_flushed_commit_id'[m] = max_flushed_commit_id[m]
        BY <2>5, <3>2
      <4> QED
        BY <2>1, <2>7, <4>1
    <3> QED
      BY <3>1, <3>2
  <2>8. \A m \in Loggers : max_flushed_commit_id'[m] <= max_seen_txn_id[m]
    <3>1. \A m \in Loggers : max_seen_txn_id[m] \in Nat
      BY PipelineAssumption
    <3> QED
      BY <2>5, <3>1
  <2> QED
    BY <2>1, <2>4, <2>6, <2>7, <2>8
<1>8. CASE FlushLogRecords
  BY <1>8 DEF FlushLogRecords, workerVars
<1>9. ASSUME NEW l \in Loggers, FlushLoggerFlushed(l)
      PROVE  IdInv'
  BY <1>9 DEF FlushLoggerFlushed, workerVars
<1>10. CASE RoundEnds
  BY <1>10 DEF RoundEnds, workerVars
<1>11. CASE StopLogging
  BY <1>11 DEF StopLogging, workerVars
<1>12. CASE UNCHANGED vars
  BY <1>12 DEF vars
<1> QED
  BY <1>1, <1>2, <1>3, <1>4, <1>5, <1>6, <1>7, <1>8, <1>9, <1>10, <1>11, <1>12
     DEF Next, Worker, Flusher, WaitForFlush

(* A commit returns only after a record of its transaction has been        *)
(* collected for the disk, if the records carry their transactions' ids.   *)
THEOREM AckedAreCollected ==
  ASSUME ~GarbageIds
  PROVE  Spec => []AckedCollected
<1>1. Init => IdInv
  BY DEF Init, IdInv
<1>2. IdInv => AckedCollected
  BY DEF IdInv, AckedCollected, Collected
<1> QED
  BY TypeInvariant, IdStep, <1>1, <1>2, PTL DEF Spec

=============================================================================
