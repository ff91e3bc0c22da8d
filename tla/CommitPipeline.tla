---------------------------- MODULE CommitPipeline ----------------------------
(***************************************************************************)
(* Group commit: worker threads log through their BufferLogger and wait    *)
(* for the flush of their commit records (LogManager::LogUpdate,           *)
(* BufferLogger::Log, WaitForFlush); a FlushLogger collects the records    *)
(* and flushes them in rounds (MainLoop, GetLogBuffers, FlushLogRecords,   *)
(* FlushLoggerFlushed).  The bodies of Log, GetLogBuffers, MainLoop,       *)
(* CollectLogRecordsFromBufferLoggers and LogUpdate are the pseudocode     *)
(* that stands in them; the waiting and the notification are code.         *)
(*                                                                         *)
(* A record is the pair of its transaction and its position.  What a       *)
(* spinlock or the loggers' lock protects is one step; the notify held,   *)
(* under which max_flushed_commit_id is read but not written, is explicit. *)
(***************************************************************************)
EXTENDS Naturals, FiniteSets

CONSTANTS
  Loggers,       \* the BufferLoggers, one for each worker thread
  Positions,     \* RecordPosition: "NORMAL" and "COMMIT"
  GarbageIds,    \* records carry the id their constructor leaves in txn_id,
                 \* which initialises txn_id with itself
  MayStop,       \* the logging status may leave LOGGING
  MaxTxn         \* bound on the transactions

Txns == 1..MaxTxn
Records == Txns \X Positions

ASSUME PipelineAssumption ==
  /\ "COMMIT" \in Positions /\ Positions \subseteq {"NORMAL", "COMMIT"}
  /\ GarbageIds \in BOOLEAN /\ MayStop \in BOOLEAN
  /\ MaxTxn \in Nat

VARIABLES
  status,    \* LogManager::logging_status
  next,      \* the next transaction id
  txn,       \* transaction of each worker, 0 if none
  wpc,       \* where each worker is
  buffers,   \* records in persist_buffer_pool_ and cur_log_buffer_
  max_seen_txn_id,
  max_flushed_commit_id,
  held,      \* loggers whose flush_notify_mutex their worker holds
  asleep,    \* workers in flush_notify_cv.wait
  fpc,       \* where the FlushLogger is
  todo,      \* loggers its current loop has not reached
  last,      \* this is the round after the loop
  queue,     \* flush_buffer_queue
  disk,      \* records in the log file
  acked,     \* transactions whose commit returned
  promised   \* records logged before the status left LOGGING

vars == <<status, next, txn, wpc, buffers, max_seen_txn_id,
          max_flushed_commit_id, held, asleep, fpc, todo, last, queue, disk,
          acked, promised>>

workerVars == <<next, txn, wpc, max_seen_txn_id, held, acked, promised>>
flusherVars == <<fpc, todo, last, queue, disk, max_flushed_commit_id>>

-----------------------------------------------------------------------------

Init ==
  /\ status = "LOGGING"
  /\ next = 1
  /\ txn = [l \in Loggers |-> 0]
  /\ wpc = [l \in Loggers |-> "idle"]
  /\ buffers = [l \in Loggers |-> {}]
  /\ max_seen_txn_id = [l \in Loggers |-> 0]
  /\ max_flushed_commit_id = [l \in Loggers |-> 0]
  /\ held = {}
  /\ asleep = {}
  /\ fpc = "test"
  /\ todo = {}
  /\ last = FALSE
  /\ queue = {}
  /\ disk = {}
  /\ acked = {}
  /\ promised = {}

(* The ids a record of transaction t may carry. *)
RecordId(t) == IF GarbageIds THEN 0..MaxTxn ELSE {t}

WorkerGoto(l, from, to) ==
  /\ wpc[l] = from
  /\ wpc' = [wpc EXCEPT ![l] = to]

-----------------------------------------------------------------------------
(* The worker *)

Begin(l) ==
  /\ next <= MaxTxn
  /\ WorkerGoto(l, "idle", "running")
  /\ txn' = [txn EXCEPT ![l] = next]
  /\ next' = next + 1
  /\ UNCHANGED <<status, buffers, max_seen_txn_id, held, asleep, acked,
                 promised, flusherVars>>

(* BufferLogger::Log, under cur_log_buffer_lock. *)
Log(l, position) ==
  /\ buffers' = [buffers EXCEPT ![l] = @ \cup {<<txn[l], position>>}]
  /\ \E id \in RecordId(txn[l]) :
       max_seen_txn_id' = [max_seen_txn_id EXCEPT ![l] = id]
  /\ promised' = IF status = "LOGGING"
                 THEN promised \cup {<<txn[l], position>>} ELSE promised

(* LogUpdate, LogInsert or LogDelete in the middle of a transaction. *)
LogNormal(l) ==
  /\ "NORMAL" \in Positions
  /\ wpc[l] = "running"
  /\ Log(l, "NORMAL")
  /\ UNCHANGED <<status, next, txn, wpc, held, asleep, acked, flusherVars>>

(* The commit record, which "must wait for the flush to the disk". *)
LogCommit(l) ==
  /\ WorkerGoto(l, "running", "lock")
  /\ Log(l, "COMMIT")
  /\ UNCHANGED <<status, next, txn, held, asleep, acked, flusherVars>>

(* WaitForFlush takes flush_notify_mutex, first or after a wait ... *)
WaitLock(l) ==
  /\ l \notin asleep
  /\ WorkerGoto(l, "lock", "test")
  /\ held' = held \cup {l}
  /\ UNCHANGED <<status, next, txn, buffers, max_seen_txn_id, asleep, acked,
                 promised, flusherVars>>

(* Mutant: the mutex is released before the thread is asleep. *)
WaitTest_unlock(l) ==
  /\ max_flushed_commit_id[l] < txn[l]
  /\ WorkerGoto(l, "test", "sleep")
  /\ held' = held \ {l}
  /\ UNCHANGED <<status, next, txn, buffers, max_seen_txn_id, asleep, acked,
                 promised, flusherVars>>

(* ... reads max_flushed_commit_id: if it is too small the loop goes on, *)
WaitTest(l) ==
  /\ max_flushed_commit_id[l] < txn[l]
  /\ WorkerGoto(l, "test", "sleep")
  /\ UNCHANGED <<status, next, txn, buffers, max_seen_txn_id, held, asleep,
                 acked, promised, flusherVars>>

(* falling asleep and releasing the mutex in one step, *)
WaitSleep(l) ==
  /\ WorkerGoto(l, "sleep", "lock")
  /\ asleep' = asleep \cup {l}
  /\ held' = held \ {l}
  /\ UNCHANGED <<status, next, txn, buffers, max_seen_txn_id, acked, promised,
                 flusherVars>>

SpuriousWake(l) ==
  /\ l \in asleep
  /\ asleep' = asleep \ {l}
  /\ UNCHANGED <<status, next, txn, wpc, buffers, max_seen_txn_id, held,
                 acked, promised, flusherVars>>

(* and otherwise the commit returns. *)
WaitReturn(l) ==
  /\ max_flushed_commit_id[l] >= txn[l]
  /\ WorkerGoto(l, "test", "idle")
  /\ held' = held \ {l}
  /\ acked' = acked \cup {txn[l]}
  /\ txn' = [txn EXCEPT ![l] = 0]
  /\ UNCHANGED <<status, next, buffers, max_seen_txn_id, asleep, promised,
                 flusherVars>>

-----------------------------------------------------------------------------
(* The FlushLogger *)

(* Another thread ends the logging mode. *)
StopLogging ==
  /\ MayStop
  /\ status = "LOGGING"
  /\ status' = "TERMINATE"
  /\ UNCHANGED <<workerVars, buffers, asleep, flusherVars>>

(* Mutant: no round after the loop. *)
MainLoop_noLast ==
  /\ fpc = "test"
  /\ fpc' = IF status = "LOGGING" THEN "collect" ELSE "done"
  /\ todo' = Loggers
  /\ UNCHANGED <<status, workerVars, buffers, asleep, last, queue, disk,
                 max_flushed_commit_id>>

(* The loop's condition reads the status; when it fails, one more round    *)
(* follows.                                                                *)
MainLoop ==
  /\ fpc = "test"
  /\ fpc' = "collect"
  /\ todo' = Loggers
  /\ last' = (status # "LOGGING")
  /\ UNCHANGED <<status, workerVars, buffers, asleep, queue, disk,
                 max_flushed_commit_id>>

(* Mutant: max_flushed_commit_id is not set. *)
GetLogBuffers_noMax(l) ==
  /\ fpc = "collect" /\ l \in todo
  /\ todo' = todo \ {l}
  /\ queue' = queue \cup buffers[l]
  /\ buffers' = [buffers EXCEPT ![l] = {}]
  /\ UNCHANGED <<status, workerVars, asleep, fpc, last, disk,
                 max_flushed_commit_id>>

(* Mutant: the buffers are left where they are. *)
GetLogBuffers_maxOnly(l) ==
  /\ fpc = "collect" /\ l \in todo
  /\ todo' = todo \ {l}
  /\ max_flushed_commit_id' =
       [max_flushed_commit_id EXCEPT ![l] = max_seen_txn_id[l]]
  /\ UNCHANGED <<status, workerVars, buffers, asleep, fpc, last, queue, disk>>

(* GetLogBuffers of the next BufferLogger, under cur_log_buffer_lock; it   *)
(* also sets max_flushed_commit_id to what has been seen, not yet flushed. *)
GetLogBuffers(l) ==
  /\ fpc = "collect" /\ l \in todo
  /\ todo' = todo \ {l}
  /\ queue' = queue \cup buffers[l]
  /\ buffers' = [buffers EXCEPT ![l] = {}]
  /\ max_flushed_commit_id' =
       [max_flushed_commit_id EXCEPT ![l] = max_seen_txn_id[l]]
  /\ UNCHANGED <<status, workerVars, asleep, fpc, last, disk>>

(* FlushLogRecords writes what was collected, *)
FlushLogRecords ==
  /\ fpc = "collect" /\ todo = {}
  /\ fpc' = "notify"
  /\ todo' = Loggers
  /\ disk' = disk \cup queue
  /\ queue' = {}
  /\ UNCHANGED <<status, workerVars, buffers, asleep, last,
                 max_flushed_commit_id>>

(* and then calls FlushLoggerFlushed of each BufferLogger: notify_all      *)
(* under its flush_notify_mutex.                                           *)
FlushLoggerFlushed(l) ==
  /\ fpc = "notify" /\ l \in todo
  /\ l \notin held
  /\ todo' = todo \ {l}
  /\ asleep' = asleep \ {l}
  /\ UNCHANGED <<status, workerVars, buffers, fpc, last, queue, disk,
                 max_flushed_commit_id>>

(* SleepForAWhile, or the end of MainLoop. *)
RoundEnds ==
  /\ fpc = "notify" /\ todo = {}
  /\ fpc' = IF last THEN "done" ELSE "test"
  /\ UNCHANGED <<status, workerVars, buffers, asleep, todo, last, queue, disk,
                 max_flushed_commit_id>>

-----------------------------------------------------------------------------

WaitForFlush(l) ==
  \/ WaitLock(l)
  \/ WaitTest(l)
  \/ WaitSleep(l)
  \/ WaitReturn(l)

Worker(l) ==
  \/ Begin(l)
  \/ LogNormal(l)
  \/ LogCommit(l)
  \/ WaitForFlush(l)
  \/ SpuriousWake(l)

Flusher ==
  \/ MainLoop
  \/ \E l \in Loggers : GetLogBuffers(l) \/ FlushLoggerFlushed(l)
  \/ FlushLogRecords
  \/ RoundEnds

Next ==
  \/ \E l \in Loggers : Worker(l)
  \/ Flusher
  \/ StopLogging

Spec == Init /\ [][Next]_vars

(* A worker inside WaitForFlush and the FlushLogger's loop run on, and the *)
(* FlushLogger gets a notify mutex that keeps being released: its worker   *)
(* holds it for a test only, and sleeps between spurious wakeups.  Nobody  *)
(* has to begin or to commit a transaction.                                *)
FairSpec ==
  /\ Spec
  /\ \A l \in Loggers : WF_vars(WaitForFlush(l)) /\ SF_vars(FlushLoggerFlushed(l))
  /\ WF_vars(Flusher)

-----------------------------------------------------------------------------

TypeOK ==
  /\ status \in {"LOGGING", "TERMINATE"}
  /\ next \in 1..MaxTxn + 1
  /\ txn \in [Loggers -> 0..MaxTxn]
  /\ wpc \in [Loggers -> {"idle", "running", "lock", "test", "sleep"}]
  /\ buffers \in [Loggers -> SUBSET Records]
  /\ max_seen_txn_id \in [Loggers -> 0..MaxTxn]
  /\ max_flushed_commit_id \in [Loggers -> 0..MaxTxn]
  /\ held \subseteq Loggers
  /\ asleep \subseteq {l \in Loggers : wpc[l] = "lock"}
  /\ fpc \in {"test", "collect", "notify", "done"}
  /\ todo \subseteq Loggers
  /\ last \in BOOLEAN
  /\ queue \subseteq Records
  /\ disk \subseteq Records
  /\ acked \subseteq Txns
  /\ promised \subseteq Records

(* A worker whose commit has been covered by a round does not sleep past   *)
(* the end of that round: its notification is still to come, although      *)
(* max_flushed_commit_id is not written under the mutex of the wait.       *)
NoLostFlushWakeup ==
  \A l \in asleep :
    max_flushed_commit_id[l] >= txn[l] =>
      fpc = "collect" \/ (fpc = "notify" /\ l \in todo)

(* A commit returns only after a record of its transaction, if not always  *)
(* the commit record, has been collected for the disk.                     *)
AckedCollected ==
  \A t \in acked : \E position \in Positions :
    <<t, position>> \in queue \cup disk

(* A commit returns after its record has been flushed: "commit records     *)
(* must wait for the flush to the disk" (LogUpdate).                       *)
CommitDurable == \A t \in acked : <<t, "COMMIT">> \in disk

(* When MainLoop returns, everything logged in the logging mode is on the  *)
(* disk, whenever the mode changed during the round.                       *)
FinalFlush == fpc = "done" => promised \subseteq disk

(* Every commit returns as long as MainLoop goes on collecting, which it   *)
(* does while the logging mode lasts (WaitForFlush, MainLoop).             *)
CommitReturns ==
  \A l \in Loggers : (wpc[l] = "lock") ~> (wpc[l] = "idle" \/ status # "LOGGING")

=============================================================================
