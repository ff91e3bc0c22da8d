------------------------- MODULE RunClangTidyProofs -------------------------
(***************************************************************************)
(* Theorems about RunClangTidy, for any number of threads and files, with  *)
(* every kind of file.  They rest on the count of the unfinished tasks,    *)
(* which join waits for.  Behind them are those about RunClangFormat.      *)
(***************************************************************************)
EXTENDS RunClangTidy, FiniteSetTheorems, TLAPS

Places == {"get", "invoke", "run", "report", "done", "dead"}

(* TypeOK but for unfinished, which is bounded by what has been put.       *)
MainTypes ==
  /\ fix \in BOOLEAN /\ export_fixes \in BOOLEAN
  /\ pc \in {"start", "compile", "spawn", "put", "export", "apply", "rmtree",
             "rmdir", "leave", "exit", "int_rmtree", "int_rmdir", "int_kill",
             "killed", "crashed", "failed"}
  /\ tmpdir \in BOOLEAN
  /\ yaml \subseteq Files
  /\ mergefile \in {"none", "empty"}
  /\ applied \subseteq Files
  /\ return_code \in {0, 1}
  /\ interrupted \in BOOLEAN

WorkTypes ==
  /\ kind \in [Files -> Kinds]
  /\ next \in 1..NumFiles + 1
  /\ task_queue \in Seq(Files) /\ Len(task_queue) <= max_task
  /\ unfinished \in Int /\ unfinished <= next - 1
  /\ wpc \in [Workers -> Places]
  /\ name \in [Workers -> 0..NumFiles]
  /\ \A w \in Workers : Busy(w) => name[w] \in Files
  /\ failed_files \in Seq(Files)

Types == MainTypes /\ WorkTypes

In(f, s) == \E i \in DOMAIN s : s[i] = f

(* A failing file that was put is on its way to failed_files, or there; a  *)
(* dead worker keeps its file, and join waiting.                           *)
FailInv ==
  /\ \A f \in Files : In(f, failed_files) => Fails(f)
  /\ \A f \in 1..next - 1 : Fails(f) =>
       \/ In(f, task_queue)
       \/ \E w \in Workers : name[w] = f /\ wpc[w] \in {"invoke", "run", "dead"}
       \/ In(f, failed_files)

(* What join has waited for stays so. *)
JoinInv == Waited => unfinished = 0

(* Where there is no directory, and no file in it, and what only a Ctrl-C  *)
(* leads to.                                                               *)
TmpdirInv ==
  /\ pc \in {"start", "leave", "exit", "int_kill", "killed"} => ~tmpdir
  /\ pc = "rmdir" => yaml = {}
  /\ pc \in {"int_rmtree", "int_rmdir"} => interrupted
  /\ pc = "crashed" /\ tmpdir => interrupted

IInv == Types /\ TasksCounted /\ JoinInv /\ TmpdirInv /\ FailInv /\ FailureReported

-----------------------------------------------------------------------------
(* Lemmas *)

LEMMA InAppend ==
  ASSUME NEW S, NEW s \in Seq(S), NEW e \in S, NEW f
  PROVE  In(f, Append(s, e)) <=> (In(f, s) \/ f = e)
<1>1. /\ DOMAIN s = 1..Len(s) /\ Len(s) \in Nat
      /\ DOMAIN Append(s, e) = 1..Len(s) + 1
      /\ \A i \in 1..Len(s) : Append(s, e)[i] = s[i]
      /\ Append(s, e)[Len(s) + 1] = e
  OBVIOUS
<1> QED BY <1>1, SMT DEF In

LEMMA InTail ==
  ASSUME NEW S, NEW s \in Seq(S), s # <<>>, NEW f, In(f, s)
  PROVE  f = Head(s) \/ In(f, Tail(s))
<1>1. PICK i \in DOMAIN s : s[i] = f
  BY DEF In
<1>2. /\ DOMAIN s = 1..Len(s) /\ Len(s) \in Nat
      /\ Head(s) = s[1]
      /\ DOMAIN Tail(s) = 1..Len(s) - 1
      /\ \A j \in 1..Len(s) - 1 : Tail(s)[j] = s[j + 1]
  OBVIOUS
<1>3. CASE i = 1
  BY <1>1, <1>2, <1>3
<1>4. CASE i # 1
  <2>1. i - 1 \in DOMAIN Tail(s) /\ Tail(s)[i - 1] = f
    BY <1>1, <1>2, <1>4
  <2> QED BY <2>1 DEF In
<1> QED BY <1>3, <1>4

LEMMA BusyFinite == IsFiniteSet(BusySet) /\ Cardinality(BusySet) \in Nat
BY TidyAssumption, FS_Subset, FS_CardinalityType DEF BusySet

(* A worker that goes from "get" to another place, or back.                *)
LEMMA BusyGrows ==
  ASSUME NEW w \in Workers, wpc \in [Workers -> Places], wpc[w] = "get",
         NEW to, to # "get", Goto(w, to)
  PROVE  Cardinality(BusySet') = Cardinality(BusySet) + 1
<1>1. BusySet' = BusySet \cup {w} /\ w \notin BusySet
  BY DEF BusySet, Busy, Goto
<1> QED BY <1>1, BusyFinite, FS_AddElement

LEMMA BusyShrinks ==
  ASSUME NEW w \in Workers, wpc \in [Workers -> Places], wpc[w] # "get",
         Goto(w, "get")
  PROVE  /\ Cardinality(BusySet') = Cardinality(BusySet) - 1
         /\ Cardinality(BusySet) > 0
<1>1. BusySet' = BusySet \ {w} /\ w \in BusySet
  BY DEF BusySet, Busy, Goto
<1>2. Cardinality(BusySet') = Cardinality(BusySet) - 1
  BY <1>1, BusyFinite, FS_RemoveElement
<1>3. Cardinality(BusySet) # 0
  BY <1>1, BusyFinite, FS_EmptySet
<1> QED BY <1>2, <1>3, BusyFinite

LEMMA BusyStays ==
  ASSUME NEW w \in Workers, wpc \in [Workers -> Places], wpc[w] # "get",
         NEW to, to # "get", Goto(w, to)
  PROVE  BusySet' = BusySet
BY DEF BusySet, Busy, Goto

(* When no task is unfinished the queue is empty and all workers wait.     *)
LEMMA NothingLeft ==
  ASSUME Types, TasksCounted, unfinished = 0
  PROVE  task_queue = <<>> /\ \A w \in Workers : ~Busy(w)
<1>1. Len(task_queue) = 0 /\ Cardinality(BusySet) = 0
  BY BusyFinite DEF TasksCounted, Types, WorkTypes
<1>2. BusySet = {}
  BY <1>1, BusyFinite, FS_EmptySet
<1> QED BY <1>1, <1>2 DEF BusySet, Types, WorkTypes

-----------------------------------------------------------------------------
(* The invariant *)

LEMMA InvInit == Init => IInv
<1> SUFFICES ASSUME Init
             PROVE  IInv
  OBVIOUS
<1>1. max_task \in Nat
  BY TidyAssumption, FS_CardinalityType DEF max_task
<1>2. Types
  <2>1. /\ next \in 1..NumFiles + 1 /\ unfinished \in Int /\ unfinished <= next - 1
        /\ 0 \in 0..NumFiles
    BY TidyAssumption DEF Init
  <2>2. task_queue \in Seq(Files) /\ failed_files \in Seq(Files) /\ Len(task_queue) = 0
    BY DEF Init
  <2>3. wpc \in [Workers -> Places] /\ name \in [Workers -> 0..NumFiles]
    BY <2>1 DEF Init, Places
  <2>4. \A w \in Workers : ~Busy(w)
    BY DEF Init, Busy
  <2>5. Len(task_queue) <= max_task
    BY <1>1, <2>2
  <2>6. yaml \subseteq Files /\ applied \subseteq Files /\ tmpdir \in BOOLEAN
    BY DEF Init
  <2>7. return_code \in {0, 1} /\ mergefile \in {"none", "empty"}
    BY DEF Init
  <2>8. /\ pc = "start" /\ interrupted \in BOOLEAN
        /\ kind \in [Files -> Kinds] /\ fix \in BOOLEAN /\ export_fixes \in BOOLEAN
    BY DEF Init
  <2> QED
    BY <2>1, <2>2, <2>3, <2>4, <2>5, <2>6, <2>7, <2>8 DEF Types, MainTypes, WorkTypes
<1>3. BusySet = {}
  BY DEF Init, BusySet, Busy
<1>4. TasksCounted
  <2>1. unfinished = 0 /\ Len(task_queue) = 0
    BY DEF Init
  <2>2. Cardinality(BusySet) = 0
    BY <1>3, FS_EmptySet
  <2> QED
    BY <2>1, <2>2 DEF TasksCounted
<1>5. JoinInv /\ TmpdirInv /\ FailureReported
  BY DEF Init, JoinInv, TmpdirInv, FailureReported, Waited
<1>6. FailInv
  <2>1. 1..next - 1 = {} /\ DOMAIN failed_files = {}
    BY DEF Init
  <2> QED
    BY <2>1 DEF FailInv, In
<1> QED
  BY <1>2, <1>4, <1>5, <1>6 DEF IInv

(* Main moves nothing in the queue and no worker, but when it puts a file. *)
LEMMA MainFrame ==
  ASSUME (Main /\ ~PutFile) \/ KeyboardInterrupt \/ UNCHANGED vars
  PROVE  UNCHANGED <<kind, next, queueVars, workerVars>>
BY DEF Main, Start, StartFails, Compile, Spawn, SetupFails, Join, ExportFixes,
       ApplyFixes, RemoveFiles, RemoveDir, Exit, Kill, KeyboardInterrupt, vars,
       options, queueVars, workerVars

(* What holds of every worker step. *)
LEMMA WorkerFrame ==
  ASSUME NEW w \in Workers, Worker(w)
  PROVE  UNCHANGED <<options, pc, next, tmpdir, resultVars>> /\ Alive
BY DEF Worker, GetTask, Invoke, Communicate, Report, Done

(* A worker goes to work with a file, stays at work or becomes free; the   *)
(* count of the unfinished tasks falls only in the last case.              *)
LEMMA CountStep == IInv /\ [Next]_vars => TasksCounted'
<1> SUFFICES ASSUME IInv, [Next]_vars
             PROVE  TasksCounted'
  OBVIOUS
<1>0. /\ Types /\ TasksCounted
      /\ wpc \in [Workers -> Places]
      /\ Cardinality(BusySet) \in Nat
      /\ Len(task_queue) \in Nat
      /\ unfinished = Len(task_queue) + Cardinality(BusySet)
  <2>1. Types /\ TasksCounted
    BY DEF IInv
  <2>2. wpc \in [Workers -> Places] /\ task_queue \in Seq(Files)
    BY <2>1 DEF Types, WorkTypes
  <2> QED
    BY <2>1, <2>2, BusyFinite DEF TasksCounted
<1> DEFINE Counted == unfinished' = Len(task_queue') + Cardinality(BusySet')
<1>a. ASSUME Counted
      PROVE  TasksCounted'
  BY <1>a DEF TasksCounted
<1>b. ASSUME wpc' = wpc
      PROVE  BusySet' = BusySet
  BY <1>b DEF BusySet, Busy
<1>1. ASSUME UNCHANGED <<task_queue, unfinished, wpc>>
      PROVE  TasksCounted'
  BY <1>0, <1>1, <1>a, <1>b
<1>2. ASSUME PutFile
      PROVE  TasksCounted'
  <2>1. next \in Files
    BY <1>0, <1>2, TidyAssumption DEF PutFile, Types, WorkTypes, Files
  <2>2. Len(task_queue') = Len(task_queue) + 1
    BY <1>0, <1>2, <2>1 DEF PutFile, Types, WorkTypes
  <2>3. wpc' = wpc /\ unfinished' = unfinished + 1
    BY <1>2 DEF PutFile, workerVars
  <2> QED
    BY <1>0, <1>a, <1>b, <2>2, <2>3
<1>3. ASSUME NEW w \in Workers, GetTask(w)
      PROVE  TasksCounted'
  <2>1. Cardinality(BusySet') = Cardinality(BusySet) + 1
    BY <1>0, <1>3, BusyGrows DEF GetTask
  <2>2. Len(task_queue') = Len(task_queue) - 1
    BY <1>0, <1>3 DEF GetTask, Types, WorkTypes
  <2>3. unfinished' = unfinished
    BY <1>3 DEF GetTask
  <2> QED
    BY <1>0, <1>a, <2>1, <2>2, <2>3
<1>4. ASSUME NEW w \in Workers, wpc[w] # "get", TaskDone(w), task_queue' = task_queue
      PROVE  TasksCounted'
  <2>1. Cardinality(BusySet') = Cardinality(BusySet) - 1
    BY <1>0, <1>4, BusyShrinks DEF TaskDone
  <2> QED
    BY <1>0, <1>4, <1>a, <2>1 DEF TaskDone
<1>5. ASSUME NEW w \in Workers, NEW to, to # "get", wpc[w] # "get", Goto(w, to),
             UNCHANGED <<task_queue, unfinished>>
      PROVE  TasksCounted'
  <2>1. BusySet' = BusySet
    BY <1>0, <1>5, BusyStays
  <2> QED
    BY <1>0, <1>5, <1>a, <2>1
<1>6. ASSUME NEW w \in Workers, Worker(w)
      PROVE  TasksCounted'
  <2>1. CASE Invoke(w)
    BY <2>1, <1>4, <1>5 DEF Invoke
  <2>2. CASE Communicate(w)
    BY <2>2, <1>5 DEF Communicate, queueVars
  <2>3. CASE Report(w)
    BY <2>3, <1>5 DEF Report, queueVars
  <2>4. CASE Done(w)
    BY <2>4, <1>4 DEF Done
  <2> QED
    BY <1>3, <1>6, <2>1, <2>2, <2>3, <2>4 DEF Worker
<1>7. ASSUME (Main /\ ~PutFile) \/ KeyboardInterrupt \/ UNCHANGED vars
      PROVE  TasksCounted'
  BY <1>1, <1>7, MainFrame DEF queueVars, workerVars
<1> QED
  BY <1>2, <1>6, <1>7 DEF Next, Step, Main

LEMMA MainTypesStep == IInv /\ [Next]_vars => MainTypes'
<1> SUFFICES ASSUME MainTypes, WorkTypes, [Next]_vars
             PROVE  MainTypes'
  BY DEF IInv, Types
<1> USE DEF MainTypes
<1>1. ASSUME Start \/ StartFails \/ Compile \/ Spawn \/ SetupFails \/ PutFile,
             UNCHANGED interrupted
      PROVE  MainTypes'
  BY <1>1 DEF Start, StartFails, Compile, Spawn, SetupFails, PutFile, options,
              resultVars, UseTmpdir
<1>2. ASSUME Join \/ ExportFixes, UNCHANGED interrupted
      PROVE  MainTypes'
  BY <1>2 DEF Join, ExportFixes, options, resultVars
<1>3. ASSUME ApplyFixes, UNCHANGED interrupted
      PROVE  MainTypes'
  BY <1>3 DEF ApplyFixes, options
<1>4. ASSUME RemoveFiles \/ RemoveDir, UNCHANGED interrupted
      PROVE  MainTypes'
  BY <1>4 DEF RemoveFiles, RemoveDir, options, resultVars
<1>5. ASSUME Exit \/ Kill, UNCHANGED interrupted
      PROVE  MainTypes'
  BY <1>5 DEF Exit, Kill, options, resultVars
<1>6. ASSUME NEW w \in Workers, Worker(w), UNCHANGED interrupted
      PROVE  MainTypes'
  <2>1. yaml' \subseteq Files
    BY <1>6 DEF Worker, GetTask, Invoke, Communicate, Report, Done, WorkTypes, Busy
  <2> QED
    BY <1>6, <2>1, WorkerFrame DEF options, resultVars
<1>7. ASSUME KeyboardInterrupt
      PROVE  MainTypes'
  <2>1. CASE InterruptWork
    BY <1>7, <2>1 DEF KeyboardInterrupt, InterruptWork, options, resultVars
  <2>2. CASE InterruptExport
    BY <1>7, <2>2 DEF KeyboardInterrupt, InterruptExport, options
  <2>3. CASE InterruptApply
    BY <1>7, <2>3 DEF KeyboardInterrupt, InterruptApply, options
  <2>4. CASE InterruptEnds
    BY <1>7, <2>4 DEF KeyboardInterrupt, InterruptEnds, options
  <2> QED
    BY <1>7, <2>1, <2>2, <2>3, <2>4 DEF KeyboardInterrupt
<1>8. ASSUME UNCHANGED vars
      PROVE  MainTypes'
  BY <1>8 DEF vars, options, resultVars
<1> QED
  BY <1>1, <1>2, <1>3, <1>4, <1>5, <1>6, <1>7, <1>8 DEF Next, Step, Main

LEMMA WorkTypesStep == IInv /\ [Next]_vars => WorkTypes'
<1> SUFFICES ASSUME WorkTypes, [Next]_vars
             PROVE  WorkTypes'
  BY DEF IInv, Types
<1>0. max_task \in Nat
  BY TidyAssumption, FS_CardinalityType DEF max_task
<1> USE DEF WorkTypes, Busy
<1>1. ASSUME UNCHANGED <<kind, next, queueVars, workerVars>>
      PROVE  WorkTypes'
  BY <1>1 DEF queueVars, workerVars
<1>2. ASSUME PutFile
      PROVE  WorkTypes'
  <2>1. next \in Files /\ next' \in 1..NumFiles + 1
    BY <1>2, TidyAssumption DEF PutFile, Files
  <2>2. task_queue' \in Seq(Files) /\ Len(task_queue') = Len(task_queue) + 1
    BY <1>2, <2>1 DEF PutFile
  <2>3. Len(task_queue') <= max_task
    BY <1>0, <1>2, <2>2 DEF PutFile
  <2>4. unfinished' \in Int /\ unfinished' <= next' - 1
    BY <1>2, <2>1 DEF PutFile, Files
  <2> QED
    BY <1>2, <2>1, <2>2, <2>3, <2>4 DEF PutFile, options, workerVars
<1>3. ASSUME NEW w \in Workers, GetTask(w)
      PROVE  WorkTypes'
  <2>1. /\ Head(task_queue) \in Files
        /\ task_queue' \in Seq(Files) /\ Len(task_queue') <= max_task
    BY <1>0, <1>3 DEF GetTask
  <2>2. name' \in [Workers -> 0..NumFiles] /\ name'[w] \in Files
    BY <1>3, <2>1 DEF GetTask, Files
  <2>3. wpc' \in [Workers -> Places]
    BY <1>3 DEF GetTask, Goto, Places
  <2>4. \A v \in Workers : v # w => name'[v] = name[v] /\ wpc'[v] = wpc[v]
    BY <1>3 DEF GetTask, Goto
  <2> QED
    BY <1>3, <2>1, <2>2, <2>3, <2>4 DEF GetTask, options
<1>4. ASSUME NEW w \in Workers, TaskDone(w), UNCHANGED <<kind, next, task_queue, failed_files>>
      PROVE  WorkTypes'
  <2>1. name' \in [Workers -> 0..NumFiles] /\ wpc' \in [Workers -> Places]
    BY <1>4, TidyAssumption DEF TaskDone, Goto, Places
  <2>2. \A v \in Workers : wpc'[v] # "get" => name'[v] = name[v] /\ wpc'[v] = wpc[v]
    BY <1>4 DEF TaskDone, Goto
  <2>3. unfinished' \in Int /\ unfinished' <= next' - 1
    BY <1>4, TidyAssumption DEF TaskDone
  <2> QED
    BY <1>4, <2>1, <2>2, <2>3
<1>5. ASSUME NEW w \in Workers, NEW to \in Places, wpc[w] # "get", Goto(w, to),
             failed_files' \in Seq(Files),
             UNCHANGED <<kind, next, task_queue, unfinished, name>>
      PROVE  WorkTypes'
  <2>1. wpc' \in [Workers -> Places]
    BY <1>5 DEF Goto
  <2>2. \A v \in Workers : wpc'[v] # "get" => wpc[v] # "get"
    BY <1>5 DEF Goto
  <2> QED
    BY <1>5, <2>1, <2>2
<1>6. ASSUME NEW w \in Workers, Worker(w)
      PROVE  WorkTypes'
  <2> USE DEF Places
  <2>1. CASE Invoke(w)
    BY <2>1, <1>4, <1>5 DEF Invoke, options
  <2>2. CASE Communicate(w)
    <3>1. failed_files' \in Seq(Files)
      BY <2>2 DEF Communicate
    <3> QED
      BY <2>2, <3>1, <1>5 DEF Communicate, queueVars, options
  <2>3. CASE Report(w)
    BY <2>3, <1>5 DEF Report, queueVars, options
  <2>4. CASE Done(w)
    BY <2>4, <1>4 DEF Done, options
  <2> QED
    BY <1>3, <1>6, <2>1, <2>2, <2>3, <2>4 DEF Worker
<1>7. ASSUME (Main /\ ~PutFile) \/ KeyboardInterrupt \/ UNCHANGED vars
      PROVE  WorkTypes'
  BY <1>1, <1>7, MainFrame
<1> QED
  BY <1>2, <1>6, <1>7 DEF Next, Step, Main

LEMMA FailStep == IInv /\ [Next]_vars => FailInv'
<1> SUFFICES ASSUME IInv, [Next]_vars
             PROVE  FailInv'
  OBVIOUS
<1>0. WorkTypes /\ FailInv
  BY DEF IInv, Types
<1> DEFINE Seen(f) == \/ In(f, task_queue)
                      \/ \E v \in Workers : name[v] = f /\ wpc[v] \in {"invoke", "run", "dead"}
                      \/ In(f, failed_files)
<1>1. ASSUME UNCHANGED <<kind, next, queueVars, workerVars>>
      PROVE  FailInv'
  BY <1>0, <1>1 DEF FailInv, Fails, In, queueVars, workerVars
<1>2. ASSUME PutFile
      PROVE  FailInv'
  <2>1. /\ next \in Files /\ next \in Nat
        /\ task_queue' = Append(task_queue, next) /\ next' = next + 1
        /\ UNCHANGED <<kind, wpc, name, failed_files>>
    BY <1>0, <1>2, TidyAssumption DEF PutFile, WorkTypes, Files, options, workerVars
  <2>2. \A f : In(f, task_queue') <=> (In(f, task_queue) \/ f = next)
    BY <1>0, <2>1, InAppend DEF WorkTypes
  <2>3. \A f \in 1..next : f # next => f \in 1..next - 1
    BY <2>1
  <2> QED
    BY <1>0, <2>1, <2>2, <2>3 DEF FailInv, Fails, In
<1>3. ASSUME NEW w \in Workers, GetTask(w)
      PROVE  FailInv'
  <2>1. UNCHANGED <<kind, next, failed_files>>
    BY <1>3 DEF GetTask, options
  <2>2. ASSUME NEW f \in 1..next - 1, Seen(f)
        PROVE  Seen(f)'
    <3>1. CASE In(f, task_queue)
      <4>1. f = Head(task_queue) \/ In(f, Tail(task_queue))
        BY <1>0, <1>3, <3>1, InTail DEF GetTask, WorkTypes
      <4>2. name'[w] = Head(task_queue) /\ wpc'[w] = "invoke"
        BY <1>0, <1>3 DEF GetTask, Goto, WorkTypes
      <4> QED
        BY <1>3, <4>1, <4>2 DEF GetTask
    <3>2. ASSUME NEW v \in Workers, name[v] = f, wpc[v] \in {"invoke", "run", "dead"}
          PROVE  Seen(f)'
      <4>1. v # w
        BY <1>3, <3>2 DEF GetTask
      <4>2. name'[v] = name[v] /\ wpc'[v] = wpc[v]
        BY <1>0, <1>3, <4>1 DEF GetTask, Goto, WorkTypes
      <4> QED
        BY <3>2, <4>2
    <3> QED
      BY <2>1, <2>2, <3>1, <3>2 DEF In
  <2> QED
    BY <1>0, <2>1, <2>2 DEF FailInv, Fails, In
<1>4. ASSUME NEW w \in Workers,
             UNCHANGED <<kind, next, task_queue>>,
             \A v \in Workers \ {w} : name'[v] = name[v] /\ wpc'[v] = wpc[v],
             \A f \in Files : In(f, failed_files') =>
               In(f, failed_files) \/ (f = name[w] /\ Fails(f)),
             \A f \in Files : In(f, failed_files) => In(f, failed_files'),
             wpc[w] \in {"invoke", "run", "dead"} /\ name[w] \in Files /\ Fails(name[w]) =>
               \/ name'[w] = name[w] /\ wpc'[w] \in {"invoke", "run", "dead"}
               \/ In(name[w], failed_files')
      PROVE  FailInv'
  <2>1. \A f \in 1..next - 1 : f \in Files
    BY <1>0, TidyAssumption DEF WorkTypes, Files
  <2>2. \A f \in Files : Fails(f)' <=> Fails(f)
    BY <1>4 DEF Fails
  <2>3. \A f \in Files : In(f, task_queue)' <=> In(f, task_queue)
    BY <1>4 DEF In
  <2>4. ASSUME NEW f \in 1..next - 1, Fails(f)
        PROVE  \/ In(f, task_queue)
               \/ \E v \in Workers : name'[v] = f /\ wpc'[v] \in {"invoke", "run", "dead"}
               \/ In(f, failed_files')
    <3>1. Seen(f)
      BY <1>0, <2>4 DEF FailInv
    <3>2. ASSUME NEW v \in Workers, name[v] = f, wpc[v] \in {"invoke", "run", "dead"}
          PROVE  \/ \E u \in Workers : name'[u] = f /\ wpc'[u] \in {"invoke", "run", "dead"}
                 \/ In(f, failed_files')
      BY <1>4, <2>1, <2>4, <3>2
    <3> QED
      BY <1>4, <2>1, <3>1, <3>2
  <2>5. \A f \in Files : In(f, failed_files') => Fails(f)
    BY <1>0, <1>4 DEF FailInv
  <2> QED
    BY <1>4, <2>1, <2>2, <2>3, <2>4, <2>5 DEF FailInv, In
<1>5. ASSUME NEW w \in Workers, Worker(w), ~GetTask(w)
      PROVE  FailInv'
  <2>1. \A v \in Workers \ {w} : name'[v] = name[v] /\ wpc'[v] = wpc[v]
    BY <1>0, <1>5
       DEF Worker, Invoke, Communicate, Report, Done, TaskDone, Goto, WorkTypes
  <2>2. UNCHANGED <<kind, next, task_queue>>
    BY <1>5 DEF Worker, Invoke, Communicate, Report, Done, options, queueVars
  <2>3. CASE Communicate(w)
    <3>1. name' = name /\ wpc[w] = "run" /\ name[w] \in Files
      BY <1>0, <2>3 DEF Communicate, WorkTypes, Busy
    <3>2. CASE Fails(name[w])
      <4>1. \A f : In(f, failed_files') <=> (In(f, failed_files) \/ f = name[w])
        BY <1>0, <2>3, <3>1, <3>2, InAppend DEF Communicate, WorkTypes
      <4> QED
        BY <1>4, <2>1, <2>2, <3>2, <4>1
    <3>3. CASE ~Fails(name[w])
      BY <1>4, <2>1, <2>2, <2>3, <3>3 DEF Communicate
    <3> QED
      BY <3>2, <3>3
  <2>4. CASE Invoke(w)
    <3>1. failed_files' = failed_files
      BY <2>4 DEF Invoke
    <3>2. Fails(name[w]) => name'[w] = name[w] /\ wpc'[w] \in {"dead", "run"}
      BY <1>0, <2>4 DEF Invoke, Fails, ShouldSkip, Goto, WorkTypes
    <3> QED
      BY <1>4, <2>1, <2>2, <3>1, <3>2
  <2>5. CASE Report(w) \/ Done(w)
    <3>1. failed_files' = failed_files /\ wpc[w] \notin {"invoke", "run", "dead"}
      BY <2>5 DEF Report, Done
    <3> QED
      BY <1>4, <2>1, <2>2, <3>1
  <2> QED
    BY <1>5, <2>3, <2>4, <2>5 DEF Worker
<1>6. ASSUME (Main /\ ~PutFile) \/ KeyboardInterrupt \/ UNCHANGED vars
      PROVE  FailInv'
  BY <1>1, <1>6, MainFrame
<1> QED
  BY <1>2, <1>3, <1>5, <1>6 DEF Next, Step, Main

(* A worker takes no step while main is behind join. *)
LEMMA WaitedAlone ==
  ASSUME Types, TasksCounted, JoinInv, NEW w \in Workers, Worker(w)
  PROVE  ~Waited
<1> SUFFICES ASSUME Waited
             PROVE  FALSE
  OBVIOUS
<1>1. task_queue = <<>> /\ ~Busy(w)
  BY NothingLeft DEF JoinInv
<1> QED
  BY <1>1 DEF Worker, GetTask, Invoke, Communicate, Report, Done, Busy

(* join is the only way into the export: it finds nothing left, so that    *)
(* every failing file is in failed_files, and nothing is put afterwards.   *)
LEMMA WaitStep == IInv /\ [Next]_vars => JoinInv' /\ FailureReported'
<1> SUFFICES ASSUME IInv, [Next]_vars
             PROVE  JoinInv' /\ FailureReported'
  OBVIOUS
<1>0. Types /\ WorkTypes /\ MainTypes /\ TasksCounted /\ FailInv /\ JoinInv /\ FailureReported
  BY DEF IInv, Types
<1> USE DEF JoinInv, FailureReported, Waited
<1>1. ASSUME Join
      PROVE  JoinInv' /\ FailureReported'
  <2>1. task_queue = <<>> /\ (\A w \in Workers : ~Busy(w)) /\ unfinished = 0
    BY <1>0, <1>1, NothingLeft DEF Join
  <2>2. \A f \in Files : f \in 1..next - 1
    BY <1>0, <1>1, TidyAssumption DEF Join, WorkTypes, Files
  <2>3. \A f : ~In(f, <<>>)
    BY DEF In
  <2>4. \A f \in Files : Fails(f) => In(f, failed_files)
    BY <1>0, <2>1, <2>2, <2>3 DEF FailInv, Busy
  <2>5. failed_files # <<>> <=> \E f \in Files : Fails(f)
    <3>1. ASSUME failed_files # <<>>
          PROVE  \E f \in Files : Fails(f)
      <4>1. 1 \in DOMAIN failed_files /\ failed_files[1] \in Files
        BY <1>0, <3>1 DEF WorkTypes
      <4> QED
        BY <1>0, <4>1 DEF FailInv, In
    <3> QED
      BY <2>3, <2>4, <3>1
  <2>6. /\ pc' = "export" /\ unfinished' = unfinished /\ kind' = kind
        /\ return_code' = IF failed_files # <<>> THEN 1 ELSE 0
    BY <1>1 DEF Join, options, queueVars
  <2> QED
    BY <2>1, <2>5, <2>6 DEF Fails
<1>2. ASSUME ExportFixes \/ ApplyFixes \/ RemoveFiles \/ RemoveDir \/ Exit
      PROVE  JoinInv' /\ FailureReported'
  BY <1>0, <1>2 DEF ExportFixes, ApplyFixes, RemoveFiles, RemoveDir, Exit, options,
                    queueVars, resultVars, Fails
<1>3. ASSUME Start \/ StartFails \/ Compile \/ Spawn \/ SetupFails \/ PutFile \/ Kill
      PROVE  JoinInv' /\ FailureReported'
  BY <1>3 DEF Start, StartFails, Compile, Spawn, SetupFails, PutFile, Kill
<1>4. ASSUME NEW w \in Workers, Worker(w)
      PROVE  JoinInv' /\ FailureReported'
  <2>1. UNCHANGED <<kind, pc, return_code>>
    BY <1>4, WorkerFrame DEF options, resultVars
  <2>2. ~Waited
    BY <1>0, <1>4, WaitedAlone
  <2> QED
    BY <2>1, <2>2
(* An interrupt that main survives behind join leaves the return code 1.   *)
<1>5. ASSUME KeyboardInterrupt
      PROVE  JoinInv' /\ FailureReported'
  BY <1>0, <1>5 DEF KeyboardInterrupt, InterruptWork, InterruptExport, InterruptApply,
                    InterruptEnds, queueVars
<1>6. ASSUME UNCHANGED vars
      PROVE  JoinInv' /\ FailureReported'
  BY <1>0, <1>6 DEF vars, options, queueVars, resultVars, Fails
<1> QED
  BY <1>1, <1>2, <1>3, <1>4, <1>5, <1>6 DEF Next, Step, Main

(* Nobody makes a file in the directory that rmtree has emptied behind     *)
(* join; a directory that is left otherwise is left by a Ctrl-C.           *)
LEMMA TmpdirStep == IInv /\ [Next]_vars => TmpdirInv'
<1> SUFFICES ASSUME IInv, [Next]_vars
             PROVE  TmpdirInv'
  OBVIOUS
<1>0. Types /\ TasksCounted /\ JoinInv /\ TmpdirInv /\ MainTypes
  BY DEF IInv, Types
<1> USE DEF TmpdirInv
<1>1. ASSUME Main, UNCHANGED interrupted
      PROVE  TmpdirInv'
  BY <1>0, <1>1 DEF Main, Start, StartFails, Compile, Spawn, SetupFails, PutFile, Join,
              ExportFixes, ApplyFixes, RemoveFiles, RemoveDir, Exit, Kill, MainTypes
<1>2. ASSUME NEW w \in Workers, Worker(w), UNCHANGED interrupted
      PROVE  TmpdirInv'
  <2>1. pc # "rmdir"
    BY <1>0, <1>2, WaitedAlone DEF Waited
  <2> QED
    BY <1>0, <1>2, <2>1, WorkerFrame
<1>3. ASSUME KeyboardInterrupt
      PROVE  TmpdirInv'
  BY <1>0, <1>3 DEF KeyboardInterrupt, InterruptWork, InterruptExport, InterruptApply,
                    InterruptEnds
<1>4. ASSUME UNCHANGED vars
      PROVE  TmpdirInv'
  BY <1>0, <1>4 DEF vars
<1> QED
  BY <1>1, <1>2, <1>3, <1>4 DEF Next, Step

-----------------------------------------------------------------------------

(* The invariant holds in every state of every run. *)
THEOREM TidyInvariant == Spec => []IInv
<1>1. IInv /\ [Next]_vars => IInv'
  BY MainTypesStep, WorkTypesStep, CountStep, FailStep, WaitStep, TmpdirStep DEF IInv, Types
<1> QED
  BY InvInit, <1>1, PTL DEF Spec

(* Types: the queue never holds more than max_task files, and task_done is *)
(* never called more often than put.                                       *)
THEOREM TidyTypeCorrect == Spec => []TypeOK
<1>1. IInv => TypeOK
  <2> SUFFICES ASSUME MainTypes, WorkTypes, TasksCounted
               PROVE  TypeOK
    BY DEF IInv, Types
  <2>1. unfinished \in 0..NumFiles
    <3>1. Len(task_queue) \in Nat /\ next <= NumFiles + 1 /\ next \in Int
      BY TidyAssumption DEF WorkTypes
    <3>2. unfinished \in Int /\ unfinished <= next - 1
      BY DEF WorkTypes
    <3>3. unfinished >= 0
      BY <3>1, BusyFinite DEF TasksCounted
    <3> QED
      BY <3>1, <3>2, <3>3, TidyAssumption
  <2> QED
    BY <2>1 DEF MainTypes, WorkTypes, TypeOK, Places
<1> QED
  BY <1>1, TidyInvariant, PTL

(* join waits for the files in the queue and those of the workers, for any *)
(* number of threads and in any order of their steps.                      *)
THEOREM TasksAreCounted == Spec => []TasksCounted
<1>1. IInv => TasksCounted
  BY DEF IInv
<1> QED
  BY <1>1, TidyInvariant, PTL

(* The exit code of a run whose join returned tells whether a file failed. *)
THEOREM ExitCodeTells == Spec => []FailureReported
<1>1. IInv => FailureReported
  BY DEF IInv
<1> QED
  BY <1>1, TidyInvariant, PTL

(* No worker is at work while main exports, applies and removes the fixes. *)
THEOREM NobodyWritesAfterJoin == Spec => []NobodyWrites
<1>1. IInv => NobodyWrites
  BY NothingLeft DEF IInv, JoinInv, NobodyWrites
<1> QED
  BY <1>1, TidyInvariant, PTL

(* The temporary directory is left behind only by an exception before the  *)
(* first file was put, and by a Ctrl-C that main does not survive: after   *)
(* join no worker makes a file in the directory that main removes, and     *)
(* every other way out of main goes through its removal.                   *)
THEOREM TmpdirIsRemoved == Spec => []TmpdirRemoved
<1>1. IInv => TmpdirRemoved
  BY DEF IInv, TmpdirInv, TmpdirRemoved, Ended
<1> QED
  BY <1>1, TidyInvariant, PTL

-----------------------------------------------------------------------------
(* run_clang_format, the other program that calls the tools of clang: what *)
(* the exit code 0 of format can be trusted with, and what that of         *)
(* check-format tells, for any number of directories and of files.         *)

CONSTANTS FormatDirs, Names, FormatKinds

VARIABLES source_kind, format_fix, format_pc, dir, todo, error, had_err

Format == INSTANCE RunClangFormat WITH
  NumDirs <- FormatDirs, Kinds <- FormatKinds,
  kind <- source_kind, fix <- format_fix, pc <- format_pc

(* Behind the loop of --fix no file is left to format, and in a check the  *)
(* error and what is still to see stand for the directory's dirty files.   *)
FormatFixInv ==
  /\ format_fix => ~error /\ ~had_err /\ format_pc # "check"
  /\ format_fix /\ format_pc # "raised" => \A f \in Format!Files : f[1] < dir => source_kind[f] # "dirty"
  /\ format_fix /\ format_pc = "fix" => todo = Format!FormattedFilenames(dir)
  /\ format_fix /\ format_pc = "return" => \A f \in Format!Files : f[1] = dir => source_kind[f] # "dirty"

FormatCheckInv ==
  ~format_fix =>
    /\ format_pc \notin {"fix", "return"}
    /\ format_pc = "check" => (Format!Dirty(dir) <=> error \/ \E f \in todo : source_kind[f] = "dirty")
    /\ format_pc \in {"dirs", "exit"} /\ dir > 1 => (had_err <=> Format!Dirty(dir - 1))

FormatInv ==
  /\ Format!TypeOK
  /\ format_pc = "exit" => dir = FormatDirs + 1
  /\ format_pc \in {"fix", "check", "return"} => dir <= FormatDirs
  /\ FormatFixInv
  /\ FormatCheckInv

LEMMA FormatInit == ASSUME Format!FormatAssumption PROVE Format!Init => FormatInv
<1> SUFFICES ASSUME Format!Init
             PROVE  FormatInv
  OBVIOUS
<1>1. \A f \in Format!Files : f[1] \in Nat /\ f[1] >= 1
  BY DEF Format!Files, Format!Dirs
<1>2. Format!TypeOK
  <2>1. source_kind \in [Format!Files -> FormatKinds \cup {"clean"}]
    BY DEF Format!Init
  <2>2. dir \in 1..FormatDirs + 1
    BY DEF Format!Init, Format!FormatAssumption
  <2> QED
    BY <2>1, <2>2 DEF Format!Init, Format!TypeOK
<1>3. FormatFixInv
  BY <1>1 DEF Format!Init, FormatFixInv
<1> QED
  BY <1>2, <1>3 DEF Format!Init, FormatInv, FormatCheckInv, Format!FormatAssumption

LEMMA FormatTypeStep ==
  ASSUME Format!FormatAssumption
  PROVE  FormatInv /\ [Format!Next]_(Format!vars) =>
           /\ Format!TypeOK'
           /\ (format_pc = "exit" => dir = FormatDirs + 1)'
           /\ (format_pc \in {"fix", "check", "return"} => dir <= FormatDirs)'
<1> SUFFICES ASSUME FormatInv, [Format!Next]_(Format!vars)
             PROVE  /\ Format!TypeOK'
                    /\ (format_pc = "exit" => dir = FormatDirs + 1)'
                    /\ (format_pc \in {"fix", "check", "return"} => dir <= FormatDirs)'
  OBVIOUS
<1> USE DEF FormatInv, Format!TypeOK, Format!FormatAssumption
<1>1. CASE Format!CallCheck
  BY <1>1 DEF Format!CallCheck, Format!FormattedFilenames
<1>2. CASE Format!Fix
  BY <1>2 DEF Format!Fix
<1>3. CASE Format!CheckFile
  BY <1>3 DEF Format!CheckFile
<1>4. CASE Format!CheckReturns
  BY <1>4 DEF Format!CheckReturns
<1>5. CASE Format!Exit
  BY <1>5 DEF Format!Exit
<1>6. CASE UNCHANGED Format!vars
  BY <1>6 DEF Format!vars
<1> QED
  BY <1>1, <1>2, <1>3, <1>4, <1>5, <1>6 DEF Format!Next

LEMMA FormatFixStep ==
  ASSUME Format!FormatAssumption
  PROVE  FormatInv /\ [Format!Next]_(Format!vars) => FormatFixInv'
<1> SUFFICES ASSUME Format!TypeOK, FormatFixInv, [Format!Next]_(Format!vars)
             PROVE  FormatFixInv'
  BY DEF FormatInv
<1>0. \A f \in Format!Files : f[1] \in Nat
  BY DEF Format!Files, Format!Dirs
<1> USE DEF FormatFixInv, Format!TypeOK
<1>1. CASE Format!CallCheck
  BY <1>1 DEF Format!CallCheck, Format!FormattedFilenames
<1>2. CASE Format!Fix
  <2>1. ASSUME format_fix, format_pc' # "raised"
        PROVE  \A f \in Format!Files : f[1] <= dir => source_kind'[f] # "dirty"
    <3>1. /\ todo = Format!FormattedFilenames(dir)
          /\ source_kind' = [f \in Format!Files |-> IF f \in todo THEN "clean" ELSE source_kind[f]]
      BY <1>2, <2>1 DEF Format!Fix
    <3>2. \A f \in Format!Files : f[1] <= dir => f[1] < dir \/ f[1] = dir
      BY <1>0
    <3> QED
      BY <2>1, <1>2, <3>1, <3>2 DEF Format!Fix, Format!FormattedFilenames
  <2>2. /\ format_pc' \in {"return", "raised"} /\ error' = error /\ had_err' = had_err
        /\ dir' = dir /\ format_fix' = format_fix
    BY <1>2 DEF Format!Fix
  <2> QED
    BY <1>0, <2>1, <2>2
<1>3. CASE Format!CheckFile
  BY <1>3 DEF Format!CheckFile
<1>4. CASE Format!CheckReturns
  <2>1. /\ dir \in Nat /\ dir' = dir + 1 /\ format_pc' = "dirs" /\ had_err' = error
        /\ UNCHANGED <<source_kind, format_fix, error>>
    BY <1>4 DEF Format!CheckReturns
  <2>2. \A f \in Format!Files : f[1] < dir' => f[1] < dir \/ f[1] = dir
    BY <1>0, <2>1
  <2>3. format_fix => format_pc = "return"
    BY <1>4 DEF Format!CheckReturns
  <2>4. ASSUME format_fix, NEW f \in Format!Files, f[1] < dir'
        PROVE  source_kind[f] # "dirty"
    BY <2>2, <2>3, <2>4
  <2> QED
    BY <2>1, <2>4
<1>5. CASE Format!Exit
  BY <1>5 DEF Format!Exit
<1>6. CASE UNCHANGED Format!vars
  BY <1>6 DEF Format!vars, Format!FormattedFilenames
<1> QED
  BY <1>1, <1>2, <1>3, <1>4, <1>5, <1>6 DEF Format!Next

LEMMA FormatCheckStep ==
  ASSUME Format!FormatAssumption
  PROVE  FormatInv /\ [Format!Next]_(Format!vars) => FormatCheckInv'
<1> SUFFICES ASSUME Format!TypeOK, FormatFixInv, FormatCheckInv, [Format!Next]_(Format!vars)
             PROVE  FormatCheckInv'
  BY DEF FormatInv
<1>0. \A d : source_kind' = source_kind => (Format!Dirty(d)' <=> Format!Dirty(d))
  BY DEF Format!Dirty
<1> USE DEF FormatCheckInv, Format!TypeOK
<1>1. CASE Format!CallCheck
  <2>1. Format!Dirty(dir) <=> \E f \in Format!FormattedFilenames(dir) : source_kind[f] = "dirty"
    BY DEF Format!Dirty, Format!FormattedFilenames
  <2> QED
    BY <1>0, <1>1, <2>1 DEF Format!CallCheck, Format!FormattedFilenames, Format!Dirty
<1>2. CASE Format!Fix
  BY <1>2 DEF Format!Fix
<1>3. CASE Format!CheckFile
  <2>1. PICK f \in todo : /\ todo' = todo \ {f}
                          /\ error' = (error \/ source_kind[f] = "dirty")
                          /\ format_pc' = IF source_kind[f] = "broken" THEN "raised" ELSE "check"
    BY <1>3 DEF Format!CheckFile
  <2>2. (error \/ \E g \in todo : source_kind[g] = "dirty")
          <=> (error' \/ \E g \in todo' : source_kind[g] = "dirty")
    BY <2>1
  <2>3. format_pc = "check" /\ UNCHANGED <<source_kind, format_fix, dir, had_err>>
    BY <1>3 DEF Format!CheckFile
  <2> QED
    BY <2>1, <2>2, <2>3 DEF Format!Dirty
<1>4. CASE Format!CheckReturns
  BY <1>4 DEF Format!CheckReturns, Format!Dirty
<1>5. CASE Format!Exit
  BY <1>5 DEF Format!Exit, Format!Dirty
<1>6. CASE UNCHANGED Format!vars
  BY <1>6 DEF Format!vars, Format!Dirty
<1> QED
  BY <1>1, <1>2, <1>3, <1>4, <1>5, <1>6 DEF Format!Next

-----------------------------------------------------------------------------

(* The invariant holds in every state of every run. *)
THEOREM FormatInvariant ==
  ASSUME Format!FormatAssumption
  PROVE  Format!Spec => []FormatInv
<1>1. Format!Init => FormatInv
  BY FormatInit
<1>2. FormatInv /\ [Format!Next]_(Format!vars) => FormatInv'
  BY FormatTypeStep, FormatFixStep, FormatCheckStep DEF FormatInv
<1> QED
  BY <1>1, <1>2, PTL DEF Format!Spec

(* When --fix ends normally no file of any directory needs formatting.     *)
THEOREM FixReachesAll ==
  ASSUME Format!FormatAssumption
  PROVE  Format!Spec => []Format!FixedAll
<1>1. FormatInv => Format!FixedAll
  <2> SUFFICES ASSUME FormatInv, format_fix, format_pc = "exit"
               PROVE  Format!ExitCode = 0 /\ \A d \in Format!Dirs : ~Format!Dirty(d)
    BY DEF Format!FixedAll
  <2>1. \A f \in Format!Files : f[1] \in 1..FormatDirs
    BY DEF Format!Files, Format!Dirs
  <2>2. \A f \in Format!Files : source_kind[f] # "dirty"
    BY <2>1 DEF FormatInv, FormatFixInv, Format!FormatAssumption
  <2> QED
    BY <2>2 DEF FormatInv, FormatFixInv, Format!ExitCode, Format!Dirty
<1> QED
  BY <1>1, FormatInvariant, PTL

(* The exit code of a check that ends normally is that of the last source  *)
(* directory, and of no other: all that is true of "if any files need to   *)
(* be reformatted".                                                        *)
THEOREM LastDirectoryDecides ==
  ASSUME Format!FormatAssumption
  PROVE  Format!Spec => []Format!LastDirDecides
<1>1. FormatInv => Format!LastDirDecides
  <2> SUFFICES ASSUME FormatInv, ~format_fix, format_pc = "exit", FormatDirs > 0
               PROVE  Format!ExitCode = 1 <=> Format!Dirty(FormatDirs)
    BY DEF Format!LastDirDecides
  <2>1. dir = FormatDirs + 1 /\ dir > 1 /\ dir - 1 = FormatDirs
    BY DEF FormatInv, Format!FormatAssumption
  <2>2. had_err <=> Format!Dirty(FormatDirs)
    BY <2>1 DEF FormatInv, FormatCheckInv
  <2> QED
    BY <2>2 DEF FormatInv, Format!ExitCode
<1> QED
  BY <1>1, FormatInvariant, PTL

=============================================================================
