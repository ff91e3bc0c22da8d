---------------------------- MODULE RunClangTidy ----------------------------
(***************************************************************************)
(* build_support/run_clang_tidy.py: the main thread puts the files of the  *)
(* compilation database into a bounded queue.Queue, max_task daemon        *)
(* threads run clang-tidy on them (run_tidy), and main waits for the queue *)
(* with join before it exports or applies the fixes and exits.             *)
(*                                                                         *)
(* A file of the database is its index; its kind says what the regexp of   *)
(* the command line, CheckConfig and clang-tidy make of it.  The methods   *)
(* of queue.Queue are atomic (they hold its mutex), and so are a print     *)
(* under the lock and list.append.                                         *)
(***************************************************************************)
EXTENDS Naturals, Sequences, FiniteSets

CONSTANTS
  Workers,     \* the threads, max_task of them
  NumFiles,    \* length of the compilation database
  Kinds        \* the kinds of files that occur

Files == 1..NumFiles

(* "clean": clang-tidy returns 0.  "failing": it does not.  "third_party": *)
(* CheckConfig skips it.  "unmatched": no regexp of the command line finds *)
(* it.  "undecodable": the output of clang-tidy is not UTF-8.              *)
ASSUME TidyAssumption ==
  /\ IsFiniteSet(Workers) /\ Workers # {}
  /\ NumFiles \in Nat
  /\ Kinds \subseteq {"clean", "failing", "third_party", "unmatched", "undecodable"}

VARIABLES
  kind,          \* of each file
  fix,           \* args.fix
  export_fixes,  \* args.export_fixes is given
  pc,            \* where main is
  next,          \* the file main puts next
  task_queue,
  unfinished,    \* unfinished_tasks of the queue
  wpc,           \* where each worker is
  name,          \* the file of each worker
  failed_files,
  tmpdir,        \* the temporary directory exists
  yaml,          \* the files in it, by the file they are for
  mergefile,     \* "none", or the "empty" file of -export-fixes
  applied,       \* files whose fixes clang-apply-replacements was given
  return_code,
  interrupted    \* history: Ctrl-C was pressed

options == <<kind, fix, export_fixes>>
queueVars == <<task_queue, unfinished>>
workerVars == <<wpc, name, failed_files>>
resultVars == <<mergefile, applied, return_code>>
vars == <<options, pc, next, queueVars, workerVars, tmpdir, yaml, resultVars, interrupted>>

max_task == Cardinality(Workers)
Matches(f) == kind[f] # "unmatched"
ShouldSkip(f) == kind[f] = "third_party"
Fails(f) == kind[f] = "failing"
Busy(w) == wpc[w] # "get"
BusySet == {w \in Workers : Busy(w)}
UseTmpdir == fix \/ export_fixes

-----------------------------------------------------------------------------

Init ==
  /\ kind \in [Files -> Kinds]
  /\ fix \in BOOLEAN
  /\ export_fixes \in BOOLEAN
  /\ pc = "start"
  /\ next = 1
  /\ task_queue = <<>>
  /\ unfinished = 0
  /\ wpc = [w \in Workers |-> "get"]
  /\ name = [w \in Workers |-> 0]
  /\ failed_files = <<>>
  /\ tmpdir = FALSE
  /\ yaml = {}
  /\ mergefile = "none"
  /\ applied = {}
  /\ return_code = 0
  /\ interrupted = FALSE

-----------------------------------------------------------------------------
(* The main thread *)

(* The binaries answer, the database is read, and the temporary directory  *)
(* is made, if one is needed ...                                           *)
Start ==
  /\ pc = "start"
  /\ pc' = "compile"
  /\ tmpdir' = UseTmpdir
  /\ UNCHANGED <<options, next, queueVars, workerVars, yaml, resultVars>>

(* ... or a binary cannot be run, or the database not be read.             *)
StartFails ==
  /\ pc = "start"
  /\ pc' = "exit"
  /\ return_code' = 1
  /\ UNCHANGED <<options, next, queueVars, workerVars, tmpdir, yaml, mergefile, applied>>

(* re.compile of the command line's regexps, in front of the try statement. *)
Compile ==
  /\ pc = "compile"
  /\ pc' = "spawn"
  /\ UNCHANGED <<options, next, queueVars, workerVars, tmpdir, yaml, resultVars>>

(* The threads are started; they wait for the queue, which is empty.       *)
Spawn ==
  /\ pc = "spawn"
  /\ pc' = "put"
  /\ UNCHANGED <<options, next, queueVars, workerVars, tmpdir, yaml, resultVars>>

(* What the user gave is no regexp, or a thread cannot be started: nobody  *)
(* catches the exception, and nobody removes the temporary directory.      *)
SetupFails ==
  /\ pc \in {"compile", "spawn"}
  /\ pc' = "failed"
  /\ return_code' = 1
  /\ UNCHANGED <<options, next, queueVars, workerVars, tmpdir, yaml, mergefile, applied>>

(* Mutant: the queue has no bound. *)
PutFile_unbounded ==
  /\ pc = "put" /\ next <= NumFiles
  /\ Matches(next)
  /\ task_queue' = Append(task_queue, next)
  /\ unfinished' = unfinished + 1
  /\ next' = next + 1
  /\ UNCHANGED <<options, pc, workerVars, tmpdir, yaml, resultVars>>

(* put with a timeout: it is tried again after queue.Full.  The loop also  *)
(* goes on for ever, without a put, for a file no regexp finds.            *)
PutFile ==
  /\ pc = "put" /\ next <= NumFiles
  /\ Matches(next)
  /\ Len(task_queue) < max_task
  /\ task_queue' = Append(task_queue, next)
  /\ unfinished' = unfinished + 1
  /\ next' = next + 1
  /\ UNCHANGED <<options, pc, workerVars, tmpdir, yaml, resultVars>>

(* Mutant: main waits for the empty queue, not for the tasks. *)
Join_empty ==
  /\ pc = "put" /\ next > NumFiles
  /\ task_queue = <<>>
  /\ pc' = "export"
  /\ return_code' = IF failed_files # <<>> THEN 1 ELSE 0
  /\ UNCHANGED <<options, next, queueVars, workerVars, tmpdir, yaml, mergefile, applied>>

(* task_queue.join, and the list of the files that failed.                 *)
Join ==
  /\ pc = "put" /\ next > NumFiles
  /\ unfinished = 0
  /\ pc' = "export"
  /\ return_code' = IF failed_files # <<>> THEN 1 ELSE 0
  /\ UNCHANGED <<options, next, queueVars, workerVars, tmpdir, yaml, mergefile, applied>>

(* Mutant: a successful export makes the run successful. *)
ExportFixes_reset ==
  /\ pc = "export"
  /\ pc' = "apply"
  /\ IF export_fixes /\ yaml = {} THEN mergefile' = "empty" ELSE UNCHANGED mergefile
  /\ return_code' = IF export_fixes /\ yaml # {} THEN 1 ELSE 0
  /\ UNCHANGED <<options, next, queueVars, workerVars, tmpdir, yaml, applied>>

(* merge_replacement_files: with a file to read the name yaml is not       *)
(* defined, which is caught; without one the merge file is made empty.     *)
ExportFixes ==
  /\ pc = "export"
  /\ pc' = "apply"
  /\ IF export_fixes /\ yaml = {} THEN mergefile' = "empty" ELSE UNCHANGED mergefile
  /\ return_code' = IF export_fixes /\ yaml # {} THEN 1 ELSE return_code
  /\ UNCHANGED <<options, next, queueVars, workerVars, tmpdir, yaml, applied>>

(* Mutant: the temporary directory is removed only after fixes. *)
ApplyFixes_keep ==
  /\ pc = "apply"
  /\ pc' = IF fix THEN "rmtree" ELSE "leave"
  /\ IF fix
     THEN \/ applied' = yaml /\ UNCHANGED return_code
          \/ return_code' = 1 /\ UNCHANGED applied
     ELSE UNCHANGED <<applied, return_code>>
  /\ UNCHANGED <<options, next, queueVars, workerVars, tmpdir, yaml, mergefile>>

(* apply_fixes, whose call of clang-apply-replacements may fail.           *)
ApplyFixes ==
  /\ pc = "apply"
  /\ pc' = IF tmpdir THEN "rmtree" ELSE "leave"
  /\ IF fix
     THEN \/ applied' = yaml /\ UNCHANGED return_code
          \/ return_code' = 1 /\ UNCHANGED applied
     ELSE UNCHANGED <<applied, return_code>>
  /\ UNCHANGED <<options, next, queueVars, workerVars, tmpdir, yaml, mergefile>>

(* shutil.rmtree removes the files, then the directory, which fails if a   *)
(* worker has made another file in between: that ends main at once.        *)
RemoveFiles ==
  /\ pc \in {"rmtree", "int_rmtree"}
  /\ pc' = IF pc = "rmtree" THEN "rmdir" ELSE "int_rmdir"
  /\ yaml' = {}
  /\ UNCHANGED <<options, next, queueVars, workerVars, tmpdir, resultVars>>

RemoveDir ==
  /\ pc \in {"rmdir", "int_rmdir"}
  /\ IF yaml = {}
     THEN /\ tmpdir' = FALSE
          /\ pc' = IF pc = "rmdir" THEN "leave" ELSE "int_kill"
          /\ UNCHANGED return_code
     ELSE /\ pc' = "crashed"
          /\ return_code' = 1
          /\ UNCHANGED tmpdir
  /\ UNCHANGED <<options, next, queueVars, workerVars, yaml, mergefile, applied>>

(* sys.exit(return_code) *)
Exit ==
  /\ pc = "leave"
  /\ pc' = "exit"
  /\ UNCHANGED <<options, next, queueVars, workerVars, tmpdir, yaml, resultVars>>

(* os.kill(0, 9): the process group is gone.                               *)
Kill ==
  /\ pc = "int_kill"
  /\ pc' = "killed"
  /\ UNCHANGED <<options, next, queueVars, workerVars, tmpdir, yaml, resultVars>>

-----------------------------------------------------------------------------
(* Ctrl-C, which is an exception of the main thread wherever it is         *)

(* In the try statement that starts the threads, fills and joins the queue.*)
InterruptWork ==
  /\ pc \in {"spawn", "put"}
  /\ pc' = IF tmpdir THEN "int_rmtree" ELSE "int_kill"
  /\ UNCHANGED <<yaml, resultVars>>

(* The bare except of the export takes it for an error and goes on ...     *)
InterruptExport ==
  /\ pc = "export" /\ export_fixes
  /\ pc' = "apply"
  /\ return_code' = 1
  /\ mergefile' \in {mergefile, IF yaml = {} THEN "empty" ELSE mergefile}
  /\ UNCHANGED <<yaml, applied>>

(* ... and so does that of the application of the fixes.                   *)
InterruptApply ==
  /\ pc = "apply" /\ fix
  /\ pc' = IF tmpdir THEN "rmtree" ELSE "leave"
  /\ return_code' = 1
  /\ applied' \in {applied, yaml}
  /\ UNCHANGED <<yaml, mergefile>>

(* Everywhere else, also in what follows a first Ctrl-C, it ends main; a   *)
(* removal of the files has then come to some of them.                     *)
InterruptEnds ==
  /\ pc \in {"start", "compile", "export", "apply", "rmtree", "rmdir", "leave",
             "int_rmtree", "int_rmdir", "int_kill"}
  /\ pc' = "crashed"
  /\ return_code' = 1
  /\ IF pc \in {"rmtree", "int_rmtree"} THEN yaml' \in SUBSET yaml ELSE UNCHANGED yaml
  /\ UNCHANGED <<mergefile, applied>>

KeyboardInterrupt ==
  /\ InterruptWork \/ InterruptExport \/ InterruptApply \/ InterruptEnds
  /\ interrupted' = TRUE
  /\ UNCHANGED <<options, next, queueVars, workerVars, tmpdir>>

-----------------------------------------------------------------------------
(* The workers: daemon threads, which end with main.  An exception ends a  *)
(* thread, without the task_done of its file.                              *)

Ended == pc \in {"exit", "killed", "crashed", "failed"}

Alive == pc \notin {"start", "compile", "spawn"} /\ ~Ended

Goto(w, to) == wpc' = [wpc EXCEPT ![w] = to]

TaskDone(w) ==
  /\ unfinished' = unfinished - 1
  /\ Goto(w, "get")
  /\ name' = [name EXCEPT ![w] = 0]

GetTask(w) ==
  /\ Alive
  /\ wpc[w] = "get"
  /\ task_queue # <<>>
  /\ name' = [name EXCEPT ![w] = Head(task_queue)]
  /\ task_queue' = Tail(task_queue)
  /\ Goto(w, "invoke")
  /\ UNCHANGED <<options, pc, next, unfinished, failed_files, tmpdir, yaml, resultVars>>

(* Mutant: a file that is skipped is not marked as done. *)
Invoke_noDone(w) ==
  /\ Alive
  /\ wpc[w] = "invoke"
  /\ IF UseTmpdir /\ ~tmpdir
     THEN Goto(w, "dead") /\ UNCHANGED <<unfinished, name, yaml>>
     ELSE /\ yaml' = IF UseTmpdir THEN yaml \cup {name[w]} ELSE yaml
          /\ IF ShouldSkip(name[w])
             THEN Goto(w, "get") /\ UNCHANGED <<unfinished, name>>
             ELSE Goto(w, "run") /\ UNCHANGED <<unfinished, name>>
  /\ UNCHANGED <<options, pc, next, task_queue, failed_files, tmpdir, resultVars>>

(* get_tidy_invocation makes the temporary file, also for a file that      *)
(* should_skip then refuses; it fails when the directory is gone.          *)
Invoke(w) ==
  /\ Alive
  /\ wpc[w] = "invoke"
  /\ IF UseTmpdir /\ ~tmpdir
     THEN Goto(w, "dead") /\ UNCHANGED <<unfinished, name, yaml>>
     ELSE /\ yaml' = IF UseTmpdir THEN yaml \cup {name[w]} ELSE yaml
          /\ IF ShouldSkip(name[w])
             THEN TaskDone(w)
             ELSE Goto(w, "run") /\ UNCHANGED <<unfinished, name>>
  /\ UNCHANGED <<options, pc, next, task_queue, failed_files, tmpdir, resultVars>>

(* clang-tidy has ended; a return code other than 0 is kept.  If it has    *)
(* fixes to suggest it makes a temporary file that is gone anew.           *)
Communicate(w) ==
  /\ Alive
  /\ wpc[w] = "run"
  /\ failed_files' = IF Fails(name[w]) THEN Append(failed_files, name[w])
                     ELSE failed_files
  /\ \/ UNCHANGED yaml
     \/ tmpdir /\ yaml' = yaml \cup {name[w]}
  /\ Goto(w, "report")
  /\ UNCHANGED <<options, pc, next, queueVars, name, tmpdir, resultVars>>

(* The output is decoded and printed under the lock.                       *)
Report(w) ==
  /\ Alive
  /\ wpc[w] = "report"
  /\ Goto(w, IF kind[name[w]] = "undecodable" THEN "dead" ELSE "done")
  /\ UNCHANGED <<options, pc, next, queueVars, name, failed_files, tmpdir, yaml, resultVars>>

Done(w) ==
  /\ Alive
  /\ wpc[w] = "done"
  /\ TaskDone(w)
  /\ UNCHANGED <<options, pc, next, task_queue, failed_files, tmpdir, yaml, resultVars>>

-----------------------------------------------------------------------------

Main ==
  \/ Start
  \/ StartFails
  \/ Compile
  \/ Spawn
  \/ SetupFails
  \/ PutFile
  \/ Join
  \/ ExportFixes
  \/ ApplyFixes
  \/ RemoveFiles
  \/ RemoveDir
  \/ Exit
  \/ Kill

Worker(w) ==
  \/ GetTask(w)
  \/ Invoke(w)
  \/ Communicate(w)
  \/ Report(w)
  \/ Done(w)

Step == Main \/ \E w \in Workers : Worker(w)

Next == (Step /\ UNCHANGED interrupted) \/ KeyboardInterrupt

Spec == Init /\ [][Next]_vars

(* Every thread goes on, and clang-tidy ends; nobody has to press Ctrl-C.  *)
FairSpec ==
  /\ Spec
  /\ WF_vars(Main /\ UNCHANGED interrupted)
  /\ \A w \in Workers : WF_vars(Worker(w) /\ UNCHANGED interrupted)

-----------------------------------------------------------------------------

TypeOK ==
  /\ kind \in [Files -> Kinds]
  /\ fix \in BOOLEAN /\ export_fixes \in BOOLEAN
  /\ pc \in {"start", "compile", "spawn", "put", "export", "apply", "rmtree",
             "rmdir", "leave", "exit", "int_rmtree", "int_rmdir", "int_kill",
             "killed", "crashed", "failed"}
  /\ next \in 1..NumFiles + 1
  /\ task_queue \in Seq(Files) /\ Len(task_queue) <= max_task
  /\ unfinished \in 0..NumFiles
  /\ wpc \in [Workers -> {"get", "invoke", "run", "report", "done", "dead"}]
  /\ name \in [Workers -> 0..NumFiles]
  /\ failed_files \in Seq(Files)
  /\ tmpdir \in BOOLEAN
  /\ yaml \subseteq Files
  /\ mergefile \in {"none", "empty"}
  /\ applied \subseteq Files
  /\ return_code \in {0, 1}
  /\ interrupted \in BOOLEAN

(* Main has waited for the queue, and has not ended yet.                   *)
Waited == pc \in {"export", "apply", "rmtree", "rmdir", "leave"}

(* The exit code: when main has waited for the queue ("Wait for all        *)
(* threads to be done") it is 1 if and only if some file failed, whatever  *)
(* the threads did, and no later step makes a failed run return 0.         *)
FailureReported ==
  LET failed == \E f \in Files : Fails(f)
  IN  /\ pc = "export" => (return_code = 1 <=> failed)
      /\ Waited /\ failed => return_code = 1

(* The fixes are exported, applied and deleted by main only while no       *)
(* worker works: none writes into tmpdir what main has read.               *)
NobodyWrites == Waited => \A w \in Workers : ~Busy(w)

(* The queue's counter of unfinished tasks counts the files in the queue   *)
(* and those of the workers, the dead ones included: join ends neither too *)
(* early nor, while the threads live, never.                               *)
TasksCounted == unfinished = Len(task_queue) + Cardinality(BusySet)

(* The temporary directory survives the end of main in two cases only: an  *)
(* exception between mkdtemp and the first file that is put (a regexp that *)
(* does not compile, a thread that does not start), and a Ctrl-C that main *)
(* does not survive, because it came outside the try statement of the      *)
(* work, came again, or a worker made a file in the directory while it was *)
(* being removed.  In all other runs it goes, also when files failed, when *)
(* the export or the application of the fixes failed, or when one of them  *)
(* took a Ctrl-C for an error.                                             *)
TmpdirRemoved ==
  Ended /\ tmpdir => pc = "failed" \/ (pc = "crashed" /\ interrupted)

(* A run ends if every file is found by the regexps and no worker dies:    *)
(* a worker's exception leaves join waiting for ever.                      *)
RunEnds ==
  (\A f \in Files : Matches(f)) =>
    <>(Ended \/ \E w \in Workers : wpc[w] = "dead")

(* "Runs clang-tidy over all files in a compilation database", of which    *)
(* the argument files selects those "to be processed (regex on path)".     *)
RunEndsFiltered == <>Ended

=============================================================================
