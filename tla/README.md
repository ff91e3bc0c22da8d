# TLA+ specifications of MyCmake

This directory holds the specifications of the two bodies of code of this
repository: its write-ahead logging (C++) and its build scripts (Python, with
the linter the build runs). It has TLA+ modules, the TLC configurations that check them on small
instances, and theorems checked by TLAPS. `PROJECT.json` lists, for machines
and for readers, which definition stands for which lines (`map`), the runs, a
mutant of the code for every property, the hazards of the code and the
theorems. Paths below are relative to the repository; `src/logging/...` is the
compiled code.

## 1. The system

The repository is the build skeleton of a course database (CMake, format, lint
and tidy scripts) in which its author develops the logging of a database called
fulgurDB. Only `src/logging/circular_buffer_pool.*` is compiled
(`-O0 -g -fsanitize=address`). `NotFinishedYet/` is the work in progress: some
classes are complete, of others the body is pseudocode in a comment. The Python
programs of `build_support/` are complete and are what the targets `format`,
`check-format`, `check-lint`, `check-clang-tidy` and `fix-clang-tidy` run.

Worker threads write log records into 128 KB buffers through a `BufferLogger`
each. A few `FlushLogger` threads collect the full buffers of their
BufferLoggers, write them to the log file and give the empty buffers back. The
commit record of a transaction waits until it has been flushed. A `LogManager`
owns the FlushLoggers, hands out the BufferLoggers and keeps the logging mode.

`run_clang_tidy.py` feeds the files of the compilation database to a pool of threads
that run clang-tidy; `run_clang_format.py` formats or compares directory after directory;
`cpplint.py` reads each file of its command line line by line, and keeps what
it knows in globals (configuration, filters, suppressions, counts) and in three
state machines (nesting, includes, current function).

| Component | State | Operations | Interacts with | What makes it hard | What makes it correct |
|---|---|---|---|---|---|
| CircularBufferPool (`src/logging/circular_buffer_pool.*`; copy in `NotFinishedYet/logging/bufferpool`) | array of `unique_ptr`, two atomic counters | Put, Get, GetSize, destructor | two in each BufferLogger (available, persistent) | lock-free; slots are plain pointers; ring and counters wrap; Get spins | no buffer is lost, shared, overwritten or reordered; Get ends when its buffer is there; the size tells full from empty |
| LogBufferPool (`NotFinishedYet/trash`) | array, size, latch | Put, GetAllBuffers, destructor | a logger puts, a flusher empties | the size is checked outside the latch | stores stay in the array; batches keep the order; a full pool lets Put go on after a collection |
| LogManager, logging mode (`log_manager.*`) | status, mutex, condition variable | WaitForModeTransition, SetLoggingStatus, GetLoggingStatus | MainLoop's condition | lost and spurious wakeups | waits end, and only in the awaited status |
| BufferLogger, FlushLogger, LogManager::LogUpdate: group commit | current buffer and persistent pool, seen and flushed ids, mutex and condition variable; flush queue, file | Log, WaitForFlush, GetLogBuffers, FlushLoggerFlushed, MainLoop, FlushLogRecords | workers, flusher, logging mode | ids are published under one lock and read under another, before the flush; the end of the loop | durable commits, no lost notification, nothing left behind, commits return |
| LogManager, registration (GetBufferLogger, InitFlushLoggers, AddBufferLogger) | thread-local logger, round robin counter, list of loggers | assignment of a logger to a flusher | BufferLogger, FlushLogger | concurrent first calls, overflow of an `int`, a list iterated without its lock | one logger for each thread, even distribution |
| LogBuffer | bytes, size, capacity | WriteRecord, WriteData, ResetData | circulates through both pools | growth, rejection | no write beyond the capacity; a rejected record is written into the next buffer |
| RecoveryLogger, CheckPointer | - | declared, not defined | LogManager::DoRecovery | - | - |
| Cache (`common/cache.*`) | hash map, LRU list with iterators into it, capacity | find, insert, delete_key, clear | one caller | long sequences of calls; iterators that must stay valid | an LRU map of at most capacity entries |
| ThreadPool, PelotonInit | io_service, dedicated threads, counter | Initialize, SubmitTask, SubmitDedicatedTask, Shutdown | every subsystem | submission against shutdown, no worker thread | submitted tasks run, Shutdown ends |
| Locks, AtomicUpdateItemPointer | one word each | Lock, TryLock, Unlock; compare-and-swap | loggers | - | mutual exclusion; no update is lost |
| run_clang_tidy (`build_support`) | bounded queue with its count of unfinished tasks, worker threads, failed files, temporary directory | fill, join, export, apply, Ctrl-C; get, run, report, done | clang-tidy, clang-apply-replacements | a worker that dies, files that match no filter, Ctrl-C during the work, a step that fails after another has failed | the exit code tells of every failure; nobody writes what main reads; the directory goes; the script ends |
| run_clang_format (`build_support`) | an error flag, the files | check or fix each directory | clang-format | several directories, a failure in the middle | after format nothing is left to format; check-format tells of every directory |
| cpplint, the run (`build_support/cpplint.py`) | filters and their backup, line length, extensions, suppressions of a file and of all lines, counts | ProcessConfigOverrides, ProcessFile, ParseNolintSuppressions, Error | configuration files | globals that outlive a file, ways out of the middle, errors about lines not yet read | each file is checked with its own options; a NOLINT comment silences what it names and nothing else; the counts add up |
| cpplint, one file | lines cleansed, stack of blocks with copies for `#if`, lists of includes, section, lines of the current function | CleansedLines, CloseExpression, NestingState.Update, CheckIncludeLine, CheckForFunctionLengths, CheckEmptyBlockBody, the checks at the end | the run | long texts that bring the state machines out of step with the text | what they report is what the whole text says |
| cpplint, regular expressions | none | one line at a time | | formatting | |
| murmur3, googletest | | | | vendored | |
| Portal, Statement, SQL visitor, allocator, exceptions, printing, macros, tests | none that changes by itself | accessors, formatting | | | |

## 2. Modules

| Module | Models |
|---|---|
| `CircularBufferPool` | the compiled ring, one step for every access of a counter or slot |
| `BufferQueue` | what its comments promise: a bounded first-in first-out queue; abstract specification of `CircularBufferPool` |
| `CircularBufferPoolProofs` | theorems about the ring, and the lemmas on `%` they rest on |
| `LogBufferPool`, `BatchQueue`, `LogBufferPoolProofs` | the latch-protected pool, its abstract specification, a queue emptied as a whole (without the blocking that `log_buffer_pool.h:27` promises), and its theorems |
| `LoggingStatus`, `LoggingStatusProofs` | the logging mode, and its theorems |
| `CommitPipeline`, `CommitPipelineProofs` | group commit: workers, BufferLoggers, one FlushLogger and the end of the logging mode, and its theorems |
| `Cache`, `LRUCache`, `CacheProofs` | the LRU cache, its abstract specification, and its theorems |
| `RunClangTidy` | main and the worker threads of run_clang_tidy |
| `RunClangFormat` | run_clang_format |
| `RunClangTidyProofs` | theorems about both scripts |
| `CpplintRun`, `CpplintRunProofs` | a run of cpplint over several files: configuration, filters, suppressions, counts, exit code; and its theorems |
| `LintText` | comments, strings and brackets: CleansedLines, CloseExpression, ReverseCloseExpression, as operators on lines of tokens |
| `LintNesting` | NestingState |
| `LintIncludes` | _IncludeState, the order of includes, the headers that are missing |
| `CpplintFile`, `CpplintFileProofs` | ProcessFileData: composes the three above with the function lengths and the empty bodies over any text; and theorems about the includes and the function lengths |
| `MC...` | instances of the above for TLC, with their symmetry sets |

Definitions named `X_word` are mutants of `X`: what a plausible slip in the
code would make of it. They are not part of any specification; each property
is known to be violated when one of them takes the place of `X`.

### CircularBufferPool

`buffers_` is the function `slots`; `head_` and `tail_` are `head % CounterMod`
and `tail % CounterMod`, so that the specification can count tickets beyond the
wrap of the 32-bit counters. A Put is `PutClaim` (fetch_add), `PutLoadOld` and
`PutAssign` (the two accesses of `unique_ptr`'s move assignment, which deletes
the pointer it replaces). A Get is `GetClaim`, `GetSee` (the last round of the
spin loop; rounds that find a null pointer change nothing and are stutters),
`GetLoad` and `GetClear` (the two accesses of the move construction). The
build is `-O0` for x86: the loop rereads the slot in each round, and an
aligned pointer is read and written in one access, so the interleavings of
these steps are the outcomes a race on a slot can have. `BUFFER_POOL_SIZE` is
the macro text `1024 * 8` without parentheses: the constants `SizeA` and `SizeB` are its
two factors, and `GetSize` has the precedence the preprocessor gives it. The
ghosts `outside`, `freed` and `leaked` say who owns a buffer. The destructor
releases what its loop visits and deletes what its loop misses; it runs only
when no call is running, as C++ requires of the caller.

### LogBufferPool

`PutCheck` is the loop outside the latch, `PutClaim` takes the latch and
increments `size_`, `PutStore` stores and unlocks. `GetAllLock`, one
`GetAllMove` for each round (each reloads `size_`) and `GetAllReset`. The class
cannot be compiled as it stands (GetAllBuffers lacks its class name and its
return statement); the specification takes the evident meaning. The header says that
GetAllBuffers "blocks if none available"; its loop and its latch do not, so `BatchQueue` lets
a collection of an empty queue return the empty batch.

### LoggingStatus

`Lock`, `WaitTest`, `Sleep`, `Wake` and `WaitReturn` are WaitForModeTransition,
`Lock`, `Assign` and `Notify` are SetLoggingStatus. `WaitTest` compares the status and goes on to
sleep or to leave; `WaitReturn` unlocks and returns, and tests nothing, so that the wait ends in
its status only because the mutex keeps the setters out in between. `asleep` is the wait set of
the condition variable: `Sleep` enters it and releases the mutex in one step,
as the standard says, notify_all empties it, and `SpuriousWake` removes a thread at any time.

### CommitPipeline

WaitForFlush, FlushLoggerFlushed and the notification loop of FlushLogRecords
are translated from code; Log, GetLogBuffers, MainLoop, LogUpdate and
CollectLogRecordsFromBufferLoggers from the pseudocode in their bodies. So the
module shows what the design as written down does, and has to be brought up to
date when the bodies are. What `cur_log_buffer_lock` protects is one
step (Log, GetLogBuffers). The mutex of WaitForFlush is explicit (`held`),
because `max_flushed_commit_id` is written without it. A record is the pair of
its transaction and its position; `GarbageIds` lets records carry the
indeterminate id that the constructor of LogRecord leaves in them.

### Cache

The list is a sequence of nodes, each with a key; the map holds for each key
its value and the node its iterator stands for. `splice` moves a node,
`erase` gives it back to be allocated again. `Keep` is the eviction loop. `counts_`
and `insert_threshold_` are never used by the code and left out.

### RunClangTidy

The main thread is `Start` (up to mkdtemp), `Compile` (the regexps), `Spawn` (the threads; it and
`Compile` may fail, `SetupFails`), `PutFile` (one file of the fill loop: a put that
finds the queue full is tried again, which changes nothing), `Join`, `ExportFixes`,
`ApplyFixes`, the removal of the temporary directory in two steps,
`RemoveFiles` and `RemoveDir`, as `shutil.rmtree` does it, and `Exit`. `KeyboardInterrupt` may
come at every step of main, and again after it. Inside the try statement of the work it leads to the
removal and the kill (`InterruptWork`); the bare `except` of the export and that of the application of the
fixes take it for an error and go on (`InterruptExport`, `InterruptApply`); anywhere else,
in the removal and in what follows a first Ctrl-C too, it ends main (`InterruptEnds`). A worker is `GetTask`,
`Invoke` (the invocation makes the temporary file before `should_skip` is asked), `Communicate`,
`Report` and `Done`; an exception sends it to `dead`, where it keeps its file and the queue its
unfinished task. What decides a file's way is its kind. queue.Queue's methods hold a
mutex, so each is one step; its `unfinished_tasks` is `unfinished`.

### RunClangFormat

`CallCheck` is one round of the loop over the directories; `Fix`, or `CheckFile` for each
file and `CheckReturns`, are `check`. `clang-format -i` that fails may have changed some of the files.

### CpplintRun

One action for each line of a configuration file's meaning (`Filter`, `ExcludeFiles`,
`SetLineLength`, ...), while `look` walks from the file's directory upwards; `AddFilters`
adds what was collected from the outermost directory inwards. `SkipFile`, `OpenConfigFails`, `ExcludeFiles`
and `FileDone` are the ways out of ProcessFile; a filter without `+` or `-` is found out only when it is
added, and ends the run (`AddFiltersFails`). A file is a function
from lines to NOLINT comments and widths; what other checks find in a line is chosen freely.
Categories are pairs, and a filter stands for the set of categories that start with its text.

### LintText, LintNesting, LintIncludes, CpplintFile

A line is a sequence of tokens, and a file any sequence of lines over
an alphabet: `Write` is the author. The operators have the names of the functions they
translate; loops over characters are loops over tokens, and a regular expression that
looks for a token at the beginning of a line looks at the first one. `CpplintFile` calls
them in the order of ProcessFileData and ProcessLine. Errors are collected as line and
category, before NOLINT comments and filters, which `CpplintRun` has. The history variable `checked`
has the lines for which ProcessLine got past its return in inline assembly; no action reads it.
A directive is recognised in two ways, as in the code: `StartsInclude` looks for the word `include`,
`IsInclude` for a header behind it as well. `Written` says what is between the brackets or the quotes:
`<a/n.h>` and `"a/n.h"` are two ways to write one header, as they are for the code. `>=`, a shift
and the word `operator` are tokens of the brackets' alphabet, since the two searches treat them differently.

The loops of the code are recursive functions over lines and over tokens, so that the provers can be used on all
these modules.

Each property compares the state machines with a *reference definition* of another shape,
at the end of each of these modules or with the property: where the
code goes line by line and keeps a stack, the reference looks at the
whole text (`CodeOf` scans characters with a state, `OpenBlocks` folds the tokens of the visible lines, `Visible`
finds the branches of a conditional by counting, `WellNested` is a bracket grammar).

`CheckForFunctionLengths` reads `clean_lines.lines`, which differs from the `elided` lines of the
model in the contents of strings only, and no property looks at those.

Where the code is known to be wrong a property has a hypothesis, stated over the text: `PlainConditionals` (no `#if`
before the `#else` of another one, no `#else` without `#if`, none of them in inline assembly) for `DuplicatesExact`
and `MissingHeadersTrue`, `odd` for `NestingExact`, `Misleading` for `MisreadWarned`, `AngleOperators` for the way
back from an angle bracket in `BracketsMatch`, and `unclear` in `EmptyIfExact`, which claims nothing of a body
with a comment in front of its closing brace. The properties of includes and functions
speak of the checked lines; `NestingExact` says which those are: all but the lines of an assembly statement in a
block, unless assembly has braces. An include that is reported as a duplicate, or is no header, is on no list (`OnList`),
and counts for no later include.

## 3. Runs

Passing runs:

| Run | Instance | Question |
|---|---|---|
| `pool_ring` | 2 producers, 1 consumer, 4 buffers in 4 slots, counters of 8 values, 9 tickets | safety of the ring at and around full, across the wrap of ring and counters; GetSize without running calls; refinement of `BufferQueue`; a Get whose ticket was given to a Put returns |
| `batch_pool` | 1 logger, 2 collectors, 3 buffers for 2 places | bounds, ownership, refinement of `BatchQueue` (whose collections do not block), progress of Put |
| `status` | 2 setters with 3 calls, 2 waiters, 3 statuses | no lost wakeup, no status changes between the test that ends a wait and its return, waits for a lasting status end |
| `commit` | 2 loggers, 2 transactions of several records, the mode may end | no lost notification, what an acknowledged commit implies, nothing left behind at the end, commits return while the mode lasts |
| `cache` | 4 keys, 2 values, capacity 2, 3 after a clear | map and list agree, refinement of `LRUCache` |
| `tidy` | 2 threads, 3 files of four kinds, every combination of `-fix` and `-export-fixes`, Ctrl-C at each step of main, also twice, a set-up that fails | exit code, count of tasks, nobody writes while main reads, the ways in which the temporary directory is left behind (an exception in the set-up, a Ctrl-C that main does not survive), the run ends |
| `lint_run` | 2 files in 2 directories of which one contains the other, every assignment of the configurations of `MCConfigs`, one of which has a filter without sign | filters belong to the file, NOLINT comments silence exactly what they name, counts and exit code |
| `lint_file` | every text of up to 4 or 5 lines over nine alphabets (blocks, class heads, includes, conditional includes, uses, functions, comments, brackets, bodies) | misread text is warned about; brackets, nesting, duplicate includes, order of includes, function lengths, empty bodies, missing headers, each up to the exceptions of section 2 |

Violated on purpose; each states what the repository says and the code does not do:

| Run | What it shows |
|---|---|
| `commit_early` | a commit that comes between the collection of its record and the flush returns at once: `max_flushed_commit_id` is set when the buffers are collected |
| `tidy_filter` | with an argument `files` that does not match the whole database main puts for ever: the fill loop ends only with a put, and a file that no regexp finds is never put |
| `format_dirs` | with two source directories the verdict of the second replaces that of the first: check-format succeeds although a file needs to be reformatted |
| `lint_linelength` | the option `linelength` of a CPPLINT.cfg is a global that is never restored: it holds for files elsewhere, and an outer directory overrides an inner one |

Other limits the specifications show when a configuration is changed:

- With two consumers (`Consumers = {c1, c2}` in `pool_ring`) `GetNeverNull` is violated: Get "blocks if none
  available", but the test of a slot and the move from it are separate, and a Get a whole turn ahead uses the same slot.
- GetSize is not "the number of buffers available" (`QuiescentSize`): `% BUFFER_POOL_SIZE` is `% 1024 * 8`.
- The destructor calls `release()`, which gives up the buffers it meets undeleted (`NoLeak`); the tests
  run under a leak detector.
- LogRecord's constructor initialises `txn_id` with itself; with `GarbageIds = TRUE` a commit may wait
  for an id that is never reached (`CommitReturns`).
- With one buffer more than slots a Put overwrites and deletes the oldest
  buffer, though its comment says it blocks: the code's own comment, "assume
  enough place", is the assumption `EnoughPlace`. (`pool_ring`, five buffers.)
- While a Get waits in an empty pool, GetSize reports a pool that is almost full.
- With two loggers the check of LogBufferPool's size is stale when it is used,
  and the second Put stores behind the array. (`batch_pool`, two Producers.)
- A waiter that gets the mutex only after the next SetLoggingStatus misses the
  status it waited for; `WaitEnds` therefore asks for a status that stays.
- A commit logged after MainLoop's last collection waits for ever; `CommitReturns` asks for
  a return while the mode is LOGGING.
- An earlier record of the same transaction raises `max_flushed_commit_id` to
  the id its commit waits for, so the commit need not wait for the collection of
  its own record: `AckedCollected` promises a record of the transaction only.
- LogBufferPool's destructor releases its buffers undeleted as well.
- `log_buffer_pool.h:27` says that GetAllBuffers "blocks if none available". It does not: the collection of an
  empty pool returns an empty batch, in the code and in `BatchQueue`.
- A worker of run_clang_tidy that dies of an exception leaves join waiting for ever: `RunEnds` excepts it.
- The temporary directory of run_clang_tidy is left behind (`TmpdirRemoved` excepts exactly these) when a regexp of
  the command line does not compile (line 280) or a thread does not start (293), `pc = "failed"`; and, `pc = "crashed"`
  after an interrupt, when Ctrl-C comes outside the try statement of the work and outside the export and the
  application of fixes, when a second one comes during the removal, or when after Ctrl-C a worker has made a file
  between the two steps of rmtree, which then fails.
- With `-j` below 0 run_clang_tidy starts no thread, and join waits for ever; `TidyAssumption` asks for a thread.
- `merge_replacement_files` uses `yaml`, whose import is commented out: an export
  with a file to merge always fails, and is caught.
- The list of includes is wrong after an `#if` inside an `#if` branch that has an `#else`:
  the `#else` clears the inner list. `DuplicatesExact` and `MissingHeadersTrue` leave these texts out (`NestedElse`),
  and those with an `#else` without `#if` (`UnmatchedElse`), which clears the list as well.
- A conditional inside what is taken for inline assembly does not reach the list of includes. Assembly with a brace
  (`asm {`) lasts until the brace that closes it, whatever stands in between.
- Nesting goes wrong with a brace inside parentheses: the count of parentheses is that of the
  innermost block. `NestingExact` leaves these texts out (`odd`).
- A comment of several lines that ends before the end of a line, and the beginning of a comment in
  a raw string, hide code without a warning (`Misleading`).
- A comment in front of the closing brace of a body, on the brace's line, is not seen: the body is reported although
  it is not one of the "completely empty bodies (no comments)" (`cpplint.py:4271`), and "Won't (and can't) have
  comments" (4313) is not so. `EmptyIfExact` claims nothing of these bodies.
- In `a < b >= c` CloseExpression finds the end of the `<` at the `>=`, and ReverseCloseExpression finds nothing from
  there, since it ignores `>=`. CloseExpression says that it ignores operator functions (line 1797), but the `>` of
  `operator>` closes a bracket, as only the second character of `operator>>` is skipped.
  `BracketsMatch` asks for no way back from these.
- Only system headers are ever reported as out of order. The comment in CheckIncludeLine
  (`cpplint.py:4842`-`4852`) puts the file's own header in its deprecated location (4) before other headers (5) and
  says that a lower type after a higher one is complained of; the code (982-986) never complains of it, nor of any
  header that is not a system header. `IncludeOrderExact` says what the code does, "if and only if it is one of a
  system header", and the alphabet has the case.
- A filter of a CPPLINT.cfg that begins with neither `+` nor `-` raises a ValueError that nobody catches (1074-1077):
  the run ends without its counts and the files that follow are not checked (`AddFiltersFails`, `pc = "crashed"`). So
  does an `exclude_files` that is no regexp, which is not modelled.
- The usage text lets a NOLINT comment suppress the errors of its line (line 95). An error about a line whose
  comments have not been parsed is not suppressed: those of CheckEmptyBlockBody for a condition that ends on a later line and
  those of RemoveMultiLineComments, which comes before all parsing (only CheckTrailingSemicolon and
  the header guard parse ahead, 4228 and 2173). `NolintExact` excepts them (`blind`).
- A comment without end is reported at the line after the one it begins in (line 1626).
- `Cache::clear` puts the capacity back to 100, whatever the constructor was given.

### Bounds, and why they are enough

- `MaxTickets` (9) passes the counters' 8 values and goes more than twice around the ring of
  4; a power of two that divides the counters' range is what the code relies
  on, and 4 and 8 have it. Two producers hold tickets at once in every
  order of completion while a Get waits, and 4 buffers fill the ring. No symmetry, for liveness.
  The proofs remove the bounds on threads, buffers and sizes; only MaxTickets stays, as an arbitrary constant.
- LogBufferPool: one buffer more than places makes a Put wait, and two collectors
  compete for the latch. The proofs remove both numbers.
- LoggingStatus: three sets can set, unset and set again between a test and a
  sleep; a second waiter waits for another status, or for the same (notify_one is told from notify_all).
- CommitPipeline: two loggers make the loops over loggers interleave with the
  workers; two transactions give one of them a second transaction after the
  first has been acknowledged, and a round of MainLoop in between.
- Cache: capacity 2 and 4 keys reach hits at the front and at the back, updates, evictions,
  and reuse of an evicted key and node; DefaultCapacity 3 makes the reset of `clear` visible.
- RunClangTidy: three files for two threads and two places make main wait for a place, and leave a
  task in the queue when both threads work; a kind for each way through run_tidy. The proofs remove the bounds.
- CpplintRun: the inner directory inherits from the outer one, and the second file is
  in the other directory, so that what leaks from a file is seen in the next; two lines give an error ahead of the current line;
  `MaxErrors` (2) tells the counts of two categories apart. The proofs remove the bounds; `MaxErrors` stays as an arbitrary constant.
- CpplintFile: each alphabet has the lines whose interplay one property is about. Five lines
  nest a conditional in another, or a block with two branches in a namespace; four lines
  are enough where a line holds several tokens. `Trigger` is 1, so that functions at and above it fit.

Deadlock checking is off where the system stops: after the destructor, at the
ticket bound, when MainLoop has ended, and at the end of a Python program (or its wait for a dead worker).

### Fairness

A thread inside a call keeps running (weak fairness of its next step); nobody has to
call anything. The slots' loop in Get gets weak fairness because at -O0 each
round reads the slot again. Strong fairness stands where a thread needs a lock
that others take and release again and again: PutClaim of LogBufferPool and the mutex
of LoggingStatus, and FlushLoggerFlushed, whose mutex the worker holds only for a
test. `std::mutex` and the spinlock do not promise this in theory; the holders release
within a few instructions and then sleep or spin elsewhere, so a waiting thread is not starved in practice. The
collectors of LogBufferPool and MainLoop are loops that run as long as the pool
or the logging mode does (the usage comment of `log_buffer_pool.cpp`, and
MainLoop's condition), hence weak fairness of their steps. In run_clang_tidy main and every worker
go on (weak fairness; clang-tidy ends), and nobody has to press Ctrl-C. The cpplint modules
claim no liveness: the program is a chain of loops over finite lists.

## 4. Proofs

`tlapm` proves, without bounds on threads, buffers, statuses, files or sizes:

`CircularBufferPoolProofs` - `TypeCorrect` (no assumption on the clients: no
access leaves the array) and, under `OneConsumer` and `EnoughPlace`,
`RingCorrect`, `NeverOverwrites`, `NeverLoses`, `NeverShares`, `NeverNull`,
`FullAndEmptyAreTold` and the refinement `ImplementsBufferQueue`. The
assumptions on the constants are `SizeAssumption` (the size is a power of two
below 2^32: the masks of the code need it), `CounterAssumption` (the size
divides the range of the counters and is less) and `ThreadAssumption` (the sets are disjoint
and finite).
None of the safety properties is inductive. A Put does not overwrite because its
ticket is less than one turn ahead of the oldest unfinished one; that is a
statement about counters and ownership, not about slots. `RingInv` makes it one:

- `TicketInv`: as many buffers are away from the clients as there are tickets between
  the oldest unfinished Get and `head`. With no more buffers than slots that window
  is at most one turn long, so its tickets have different slots
  (`IndexInjective`, across the wrap of the counters).
- `PutInv`: each running Put has a ticket of the window to itself, and its slot is empty.
- `SlotInv`: a full slot belongs to a ticket of the window.
- `GetInv`: the running Get has the oldest ticket, and the slot it saw full stays so.
- `LifeInv`: only the destructor gives buffers up.

The counting of `TicketInv` needs that a buffer is not in two places and that none
disappears, so `RingInv` is inductive together with `TypeOK`,
`NoSharedBuffer` and `NoLostBuffer`; the proof has a step for each action.

`FullAndEmptyAreTold` reads the window as a size: between calls it is as long as the pool is full, and
`% SizeA * SizeB` of it is 0 for an empty pool (and for some others), and has the value of a full one only for a full one.
For the refinement the queue is the buffers of the window's tickets, each in the hand of its Put or in its slot
(`PoolQueue`). A Put takes effect at its fetch_add and a Get when it clears the slot; every other step is shown to stutter.

`LogBufferPoolProofs` - `PoolInvariant`, `BuffersConserved` and the refinement `ImplementsQueue` for any number of
loggers and flushers; with `OneProducer`, which is the usage the class's comment shows, `StoresInBounds`. The
invariant says who holds the latch (`LatchInv`), what the running calls know (`CallInv`), which slots are full
(`SlotInv`) and that every buffer has one owner (`OwnerInv`). `StoresInBounds` needs one part more (`PlaceLeft`):
between the check of the size and the claim of the only logger the size can only fall.

`CacheProofs` - `CacheInvariant`, `ListAndMapAgree`, `ResultsAreValid` and the refinement `ImplementsLRU`, for all
keys, values, nodes and positive capacities. That map and list agree is inductive once the list is known to
be no longer than `capacity`, so that an insertion evicts at most one entry, and never its own; `ListMapAgree`
does not survive `clear` or an eviction without that. The refinement reads the entries off the list; each
call is shown to do to them what the call of the abstract map does.

`LoggingStatusProofs` - `StatusTypeCorrect`, `MonitorCorrect`, `WakeupNotLost`
and the action property `WaitReturnsInTarget`, from `StatusAssumption` alone. `NoLostWakeup`
needs that the status a waiter has tested cannot change before it is asleep;
`MonitorInv` says so (whoever is between test and sleep, or between test and return, holds the mutex, and what
it has tested still holds) and is inductive with `TypeOK` and `NoLostWakeup`. `WaitReturnsInTarget` follows from it: the
step that returns has no guard on the status, and a setter that could assign in between would break it.

`CommitPipelineProofs` - `PipelineTypeCorrect`, `FlushWakeupNotLost`,
`FinalFlushComplete` and, when the records carry their transactions' ids
(`~GarbageIds`), `AckedAreCollected`, from `PipelineAssumption`. Each property has an
inductive invariant of its own over `TypeOK` and `BusyInv` (a worker in a transaction has one):

- `WaitInv`: a worker holds its notify mutex exactly from its test to its sleep, and one that
  is asleep *or about to be* although its transaction is covered has its notification
  ahead. The second half covers the moment `NoLostFlushWakeup` does not see: after
  the test, before the wait.
- `FlushInv`: a record logged in the logging mode is in a buffer, collected or written. In the
  round after the loop the loggers that round has passed hold none of them.
- `IdInv`: of the transaction that is a logger's `max_seen_txn_id` a record is in its
  buffers or collected; of its `max_flushed_commit_id` one is collected, and that id is not
  newer than the worker's transaction. So `WaitForFlush` returns on equality only.
  With garbage ids `IdInv` is false, and a commit may wait for ever.

`RunClangTidyProofs` - `TidyTypeCorrect`, `TasksAreCounted`, `ExitCodeTells`,
`NobodyWritesAfterJoin` and `TmpdirIsRemoved` for any number of threads and files, from `TidyAssumption`
(there is a thread, and finitely many). The exit code is not inductive: that join returns when nothing is unfinished says something
about failed files only with

- `TasksCounted`: unfinished is the length of the queue plus the number of busy workers, so that at join the
  queue is empty and no worker is at work, nor has died of an exception;
- `FailInv`: a failing file that was put is in the queue, with a worker that has not looked at its
  result yet, with a dead worker, or in `failed_files`;
- `JoinInv`, `TmpdirInv`: what join has waited for stays so; where main is tells when the directory is gone, and a main that
  crashed and left it was interrupted. The set-up that fails (`failed`) is the other exception `TmpdirRemoved` makes.

The cardinality of the set of busy workers is followed by three lemmas (`BusyGrows`, `BusyShrinks`, `BusyStays`),
and `MainFrame` and `WorkerFrame` say once what main and the workers leave alone.

The same module has the theorems about run_clang_format, over an instance of `RunClangFormat` with constants and
variables of its own (`Format`): `FixReachesAll`, when `--fix` ends normally nothing is left to format in any
directory, and `LastDirectoryDecides`, without it the exit code is that of the last directory, which is all that is true of
what `format_dirs` refutes. `FormatAssumption` is a hypothesis of the theorems. The
invariant says which directories are clean, and that error and the files still to see stand for the directory's dirty files.

`CpplintRunProofs` - `FiltersAreScoped`, `NolintIsExact` and `SummaryAddsUp`, for every tree of directories, every content
of the configuration files and files of any length, from `RunAssumption` (the command line and the options have
their types) and `TreeAssumption` (there are finitely many directories, and above every one there is a root).

- `SearchInv` is the invariant of the search for CPPLINT.cfg files: what `cfg_filters` holds, what the rest of the open file
  gives and what the directories beyond it will give is always the same sequence, that of `Nearest`. When a file
  cannot be opened `cfg_filters` is a prefix of it, which is why `FiltersScoped` speaks of a prefix. The filters of
  the command line are in `filters` or in `filters_backup` all the time.
- `NolintInv`: `error_suppressions` is what the comments parsed so far ask for, and of each error it is known which had been
  parsed. A comment speaks only of its line and the next (`NolintIsLocal`), so those two lines decide.
- `CountInv`: the sum of the table is the number of errors. A set of errors printed at once adds to several entries
  (`SumGrows`), and its finiteness needs that of the lines.

`Nearest`, `Vals` and FoldFunction are defined by recursion - up the tree, along the options, over the keys. That these
equations have solutions and what they compute is proved by induction over the natural numbers, stated for sets
(`Induction`: a set with 0 and all successors has all of Nat), which follows from the least element of
a set that is well-founded; no theorem with an operator as parameter is used.

`CpplintFileProofs` - `OrderIsExact`, `AlphabetIsExact`, `DuplicatesAreExact`, `MissingAreTrue` and
`FunctionLengthIsExact`, for texts of any length over any lines, any headers, any `Trigger`, and whatever headers of
the module can be opened. The assumptions are `HeaderAssumption` (what is written behind `#include` names a header, headers are told from categories and have a place in the alphabet),
`RequiresAssumption` (what is required is a header of the standard library, neither of a third party nor a `.cc`) and
`FileAssumption`. None of the properties is inductive: each says of lines far back what the code has
kept of them only in a section, a header, a list or a count. `IInv` (`IncludeInvariant`) says what these stand for:

- `LineInv` and `ErrorInv`: the types, and that errors about includes are at include lines that were processed.
- `SectionInv`: the section has passed each of its four values if and only if the includes since the last directive
  have an include that makes it (`SectionFits`). It goes forward on an include that is out of order as well, so it
  stands for all of them, and `SectionStep` shows that `NextSection` does this for every kind. `OutOfOrder` is then `TooLate`.
- `LastHeaderInv`: `last_header` is the last include since the last directive, and the section is that of its group unless it
  was reported as out of order. The section tells the groups apart (`SectionsOfGroups`), so a header is compared with one of its
  own group.
- `ListInv`: the last list has the includes since the last `#if` or `#else`, the older ones those before it that no `#else` has
  forgotten. `Forgotten` speaks of the directives after an include as the lists do; that it says the same as branches
  of conditionals found by counting (`SeenFrom`) is `ForgottenIs`, which needs `PlainConditionals`, and rests on an `#else`
  remaining one of its `#if` however the text goes on (`ElsesStable`).
- `Reports`: what was reported at each line so far; a step adds only to its own line (`OlderLines`).
- `MissingReported`: the headers that are missing are on no list.

`FunctionInv` is the invariant of the function lengths, over `IInv`: the code is in a function if and only if some line began one
that no line has begun or ended again since, and then `lines_in_function` is the number of lines of its own. A declaration leaves
both alone, a body that begins starts anew (`LengthStep`); only CheckForFunctionLengths reports a length (`FunctionErrors`).

Checked by TLC only: all liveness (out of the prover's reach, as is ENABLED), and of `CpplintFile` the properties
`MisreadWarned`, `BracketsMatch`, `NestingExact` and `EmptyIfExact`. Each compares two recursions over
tokens - the code's scan with a stack and the reference's fold - and would be proved by an induction over the text with the stacks
as part of what is proved, a proof per function; the least-element induction of `CpplintRunProofs` could carry
it, but nothing of these proofs exists. The theorems about includes and functions take what is cleansed, and which lines are checked, as it comes.

## 5. Not modelled, and why

- cpplint's checks of one line by regular expressions (spacing, casts, naming, braces, header guards, copyright): they
  keep no state, and a model of a regular expression is the regular expression. The checks a block makes when it
  begins and ends (indentation, access keywords, closing comments), and the names of macros and templates,
  are formatting as well. Reading the command line and printing in the formats of other tools are input and output.
- What the code computes from the name of a header is given, not computed: `HeaderInfo` has whether it is of a third party, whether
  it is taken for the header of the file (`own`) or of its module (`module`), both comparisons of parts of
  names, and its place in the alphabet; `Written` has the name behind each way to write it, and `OwnHeaders` the includes of
  headers that can be opened. Any of the headers of the module may be one that cannot be opened.
- RecoveryLogger and CheckPointer are declarations without bodies; the log files,
  serialisation and the SQL layer are data, input and output, or TODO in the source; vendored
  code is left aside. The Get of the unfinished copy of CircularBufferPool also
  clears the slot's bytes, a second store of the null pointer.
- Of the logging code that is pseudocode or not compiled: the circuit of buffers with LogBuffer's growth (WriteData never ends for a
  capacity of 0), registration (the `int` round robin counter overflows; a BufferLogger's destructor indexes
  with -1 until it is registered; the notification loop iterates the list of loggers without its lock), ThreadPool
  (a task submitted during Shutdown, a pool without workers) and the locks. They wait for their bodies to be
  written: a model of pseudocode has to be redone with it.

## 6. What comes next

1. LogBuffer and the circuit of buffers: a record is in one buffer, no buffer leaves the circuit, a
   logger never waits for an empty buffer that no flusher will return.
2. Registration against the notification loop; ThreadPool.
3. cpplint's CheckTrailingSemicolon and CheckForNamespaceIndentation over `CpplintFile`.
4. Proofs of `BracketsMatch` and `NestingExact`: what the stacks of `EndStep` and of `NestingState` stand for, by induction
   over the tokens.

## 7. Running the checks

```
tlc -workers 2 -config pool_ring.cfg MCCircularBufferPool
tlc -workers 2 -config tidy.cfg MCRunClangTidy
tlc -workers 2 -config lint_run.cfg MCCpplintRun
tlapm CircularBufferPoolProofs.tla
tlapm LogBufferPoolProofs.tla
tlapm LoggingStatusProofs.tla
tlapm CommitPipelineProofs.tla
tlapm CacheProofs.tla
tlapm RunClangTidyProofs.tla
tlapm CpplintRunProofs.tla
tlapm CpplintFileProofs.tla
```

The module of each configuration is in `PROJECT.json`. `lint_file` takes about a minute,
every other run less than one.
