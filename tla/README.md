# A TLA+ model of pagers

`pagers` queries, reads in, evicts and locks the pages of files: `query`,
`touch`, `evict`, `lock` and `lockall`, as a command, with a terminal display,
or, for the last two, as a daemon that holds the pages. This directory models
the parts of it that coordinate threads, processes, signals and the page cache,
checks them with TLC on small instances, and proves the most important facts
for every size with TLAPS. Paths below are relative to the repository; `core`,
`cli` and `tui` stand for `crates/pagers-core/src`, `crates/pagers-cli/src` and
`crates/pagers-tui/src`.

## 1. The system

| Component | Source | State | Operations |
|---|---|---|---|
| cancellation token | `core/cancel.rs` | flag, mutex, condition variable | `cancel`, `wait`, `is_cancelled`, `check` |
| traversal | `core/crawl.rs` 161-500 | pending roots, visited directories, seen inodes, stop flag, first error | `collect_paths`, `walk_dir_entries`, the descent filter on the walk's threads |
| worker pool | `core/crawl.rs` 23-159 | file list, `next` counter, `stop` flag, `outputs`, `error` | `crawl_and_process`, one worker loop per thread |
| file processing | `core/mode.rs`, `core/ops/*`, `core/mlock.rs` | mapping, residency samples, five counters, events sent | `process_one` of `Cli` and of `Tui`, `execute` of each operation |
| ranges | `cli/size_range.rs` 191-224, `cli/runop.rs` 100-118, `core/ops/mod.rs` 164-213, `core/ops/process.rs` 45-78 | start, end, offset, length | parsing of `--range`, alignment, validation, resolution against a file |
| daemon and hold | `cli/daemon.rs`, `cli/runop.rs` 56-98, `cli/main.rs` | two processes, pipe, pidfile, standard streams, signal thread | `go_daemon`, `wait_for_child`, `hold`, `notify_and_redirect`, the signal handler |
| TUI run | `cli/runop.rs` 120-212, `tui/lib.rs`, `tui/event.rs` | five threads, two channels, raw mode | `run_tui`, `run`, `spawn_event_threads`, `TerminalGuard` |
| TUI application | `tui/app.rs`, `tui/state.rs` | list of files, map from id to place | `handle_event`, `trim_completed`, `visible_files`, `bucketize` |
| page maps | `core/mincore.rs`, `core/mode.rs` 38-54 | bit vectors | `residency`, `from_residency_bytes`, `count_filled`, `send_residency` |
| size parsing | `cli/size_range.rs` 20-274 | none | `try_split`, `find_dash_delimiter`, `parse_size`, `parse_with_multiply` |
| statistics, frames | `core/ops/mod.rs` 223-236, `core/output.rs`, `tui/ui.rs`, `tui/stats.rs` | five counters | `Summary::from_stats`, the widgets' `render` |
| output, arguments | `cli/output.rs`, `cli/cli.rs`, `cli/tracing.rs` | none that outlives a call | |

How they interact. A command builds an operation and a range, creates a token
and installs a handler whose thread cancels it. `crawl_and_process` collects
the paths, starts the workers and joins them; each worker calls `process_one`,
which runs the operation on a mapping, adds to shared counters and, under the
TUI, sends events. `run_tui` runs the crawl on the main thread and the display
on another, with threads that forward events, watch the keyboard and wait for
the token. `lock` and `lockall` return their mappings and `hold` them until the
token is cancelled, after a fork and a report to the parent when asked to.

What is hard here, and where it bites (PROJECT.json lists every hazard with its
line and its properties):

* *interleaving*: a canceller between a waiter's test and its sleep; workers
  that read `stop`, then claim; events of many files at one display;
* *cancellation at any step*: never lost, never an `Ok` for half the work, the
  terminal restored, the hold ended;
* *partial failure*: one worker fails or panics, a thread cannot be spawned,
  the display dies while the crawl runs, the daemon fails after the fork;
* *a world that moves*: the kernel reclaims and reads pages between a sample
  and the action that relies on it;
* *ordering*: `AllDone` after the last event and before the end, the pidfile
  and the report after the lock, links that close a cycle;
* *numeric edges*: ranges at the top of the integer type, ends inside a page,
  cumulative progress added as differences.

What makes each component correct, in one line each:

* token: no waiter sleeps past a cancellation, none leaves without one;
* traversal: what is collected is a function of the tree, not of the threads;
* pool: `Ok` means every file, the outputs in order, one display end, after all;
* file processing: counters and events tell the samples' truth, a lock lasts;
* ranges: inside the file, no byte asked for is missed, no page that has none
  of them but that of the start;
* daemon: what the parent is told is true, no stale pidfile, signals end it;
* TUI run: it returns, restores the terminal and shows the whole run;
* TUI application: an event meets its own file, the right files are kept;
* frames: rows and histograms say what was sampled; the summary, whose counters
  move while a frame loads them, never says more than there is, and at the end
  exactly what was done;
* size parsing: a size is the nearest to what is written, a range is cut where
  its two sizes meet, and what is refused is refused for what it says.

## 2. The modules

| Module | Models | Composes with |
|---|---|---|
| `Latch` | abstract: a latch that opens once | refined by `Cancellation` |
| `Cancellation` | `Cancellation` with mutex and condition variable; one process per call | |
| `FileBatch` | abstract: what a call of `crawl_and_process` promises | refined by `WorkerPool` |
| `WorkerPool` | `crawl_and_process` and its workers | uses the token as a flag |
| `FileProcessing` | `process_one` for one file, beside the kernel | details `ProcessBegin`/`ProcessEnd` of `WorkerPool` |
| `Range` | from the two sizes of a range to the pages mapped | gives `NPages` of `FileProcessing` |
| `SizeText` | operators: from a text to a size or to two | used by `SizeRange` |
| `SizeRange` | from the text of `--range` to the pages mapped | `SizeText` in front of `Range` |
| `Traversal` | which files are collected | details `MainCollect` of `WorkerPool` |
| `Daemon` | fork, pipe, pidfile, hold, signals | the crawl is one step |
| `TuiRun` | threads and channels of `run_tui` | a crawl that sends events and ends |
| `TuiApp` | the display's list and map | events in the order `EventProtocol` gives |
| `PageMap` | operators: packing, counting, runs and buckets of page maps | used by `Screen` |
| `Screen` | several workers, their counters and events, and the frames drawn from both | extends `TuiApp`, with `PageMap` |
| `MC*` | instances for TLC | |
| `CancellationProofs`, `WorkerPoolProofs`, `RangeProofs`, `DaemonProofs`, `TuiRunProofs`, `FileProcessingProofs`, `ScreenProofs`, `TraversalProofs` | theorems and proofs | |

Correspondence of state and actions. Each action is named for the function or
the statement it stands for and `map` in PROJECT.json gives its lines.

* **Cancellation**. `cancelled` is the atomic, `owner` the holder of the mutex,
  `pc` the statement each call is at, `parked` the callers asleep. A cancel is
  five actions (begin, lock, swap, notify, unlock), a wait five (begin, lock,
  test, park, leave); `Condvar::wait` releases the mutex and sleeps in one step
  and may wake for no reason.
* **WorkerPool**. `next`, `stop`, `outputs`, `error` and `cancelled` are the
  shared variables; each load, claim, push, store and record is an action, and
  the relaxed load of `stop` may return a stale `FALSE`. The main thread's
  actions follow `crawl_and_process` statement by statement, with a spawn that
  fails, joins in order, the scope that waits for the rest and panics for an
  unjoined panic, `finish`, the last check and the sort.
* **FileProcessing**. `cache` and `mlocked` are the kernel's, `snapshot` and
  `after` the two samples, `todo`, `touched`, `reported` the walk, `stats` the
  counters, `events` and `view` what the TUI was sent and shows. `Reclaim` and
  `ReadIn` change the cache at any point. The walk of
  `touch` checks the token, reads the least page still missing and, at the
  intervals of the code, calls the progress callback.
* **Range**. The control points are the checks in their order; the result is a
  range or the error that refused it. `u64` and `usize` have widths of their
  own.
* **Traversal**. A tree is a function from entries to kind, parent, target,
  device and inode. The calling thread takes the arguments, then the roots,
  then the entries; the walk's threads ask to descend (`Descend`) and read
  (`Read`). An entry that is an error of the walk is `Broken`.
* **Daemon**. `parent` and `child` are the two processes (one in the
  foreground), `writers` those that hold the write end of the pipe, `pidfile`,
  `stdio`, `seen` (how often the user saw the error), `pending` and `handled`
  the signals. `devnull` says whether `redirect_stdio` works: it does nothing, and
  says nothing, when `/dev/null` cannot be opened (`cli/daemon.rs:51`), and ignores
  a `dup2` that fails (58).
* **TuiRun**. `main`, `tui`, `forwarder`, `waiter`, `key` are the threads,
  `coreQ` and `tuiQ` the channels, `raw` and `hidden` the terminal and its cursor,
  `summary` what stays on the screen, `asked` records that the user or a signal
  asked for the end. The set-up of the display is three steps, as it may fail
  between any two: `TuiStart` (raw mode, and the guard that will undo it),
  `TuiSetup` (the cursor, ratatui's terminal) and `TuiSpawn` (the threads). Its
  end is three as well: `TuiCloses` (the loop is left and nothing receives its
  channel any more), `TuiRestore` (the guard's drop, of which either call may
  fail, unnoticed: `refused`) and `TuiReport` (the cancellation after an error).
  `run_tui` has two ends that are no return: the panic of `thread::scope` in the
  crawl (`ScopePanics`), with which the main thread unwinds past the join and
  ends the process while the display still runs, for how long is not determined;
  and a second signal (`SecondSignal`), which ends the process at once.
* **TuiApp**. `files` and `index` are the code's; `running` and `finished` are
  history, to say what the list ought to hold.

* **SizeRange**. The automaton of `parse_with_multiply` is a fold of
  `Character` over the text: its states and its checked operations are the
  code's, with `Max` for `u64::MAX`. A text is a sequence of characters, built
  from sizes that are kept beside it (`written`), so that the result can be
  compared with the exact value of what was meant: of the digits those that a
  `u64` takes, the rest rounded off (`Kept`), times the unit and the power of
  ten, rounded to a byte (`Nearest`). Of the prefixes one stands for `k` to `p`;
  `e` is both a prefix and the sign of an exponent.
* **Screen**. `work[i]` is the worker of one file: what mincore wrote first and
  last, the page the walk has reported and what it still has to send. `stats`
  are the counters, `queue` the channel together with the thread that forwards
  it (each keeps the order), `flow` the display's. `Announce`, `Report`,
  `Finish` and `Fail` are the stretches of `Tui::process_one` between its sends;
  `Handle` is `App::handle_event` and is made of the actions of `TuiApp`. A
  frame is a function of the state and of what it has loaded of the counters:
  its rows are `Rows`, its summary is `SummaryRows`. A file that is skipped, or fails before it
  is announced, leaves no trace. The three additions of a file that is begun are
  a step each (`Add`, in the order of `core/mode.rs:77-81`; `adding` is what is
  still to be added), and a frame's loads (`core/output.rs:41-46`) are each of
  any moment since the last event was handled (`Readings`, from `seen` to
  `stats`). So a frame drawn while the workers run may have the resident pages of
  a file of which it has not loaded the total, and show a share above all there
  are: no property rules that out, and `SummaryIsTrue` holds the resident pages
  against the files begun instead.

Definitions whose comment begins with "Mutant of" are not part of any
specification: they are the way a plausible bug would change the definition
that follows, and show that a property is able to fail.

## 3. The runs

| Run | Instance | Shows |
|---|---|---|
| `cancellation` | 2 cancels, 3 waits, 2 spurious wake-ups | `NoLostWakeup`, `ReturnMeansNotified`, refinement of `Latch` with liveness (`LatchSpec`) |
| `worker_pool` | up to 3 files, 3 workers, spawn may fail, panics | `OkIsComplete`, `FinishIsLast`, `FinishIsSent`, `ResultHasCause`, `CancelIsNotLost`, refinement of `FileBatch` with liveness (`BatchSpec`: the call ends, no file is processed twice, outputs are in order) |
| `worker_pool_scope_panic` | the same, 2 workers | finding: `PanicIsReported` fails |
| `file_processing` | 4 pages, progress every 2, all operations, both displays, every cache | `StatsBounded`, `StatsSettle`, `ProgressIsHonest`, `EventProtocol`, `LockGuarantee` |
| `touch_residency` | 2 pages, reclaim between sample and walk | finding: `TouchGuaranteesResidency` fails |
| `size_range` | sizes up to 25 in every form of digits, point, exponent and unit, pages of 4, `usize` up to 19 | `RangeIsAsWritten`, `RefusedForCause`, `StaysInFile`, `ExactPages`, `NothingIsMissed` |
| `size_refused` | the same texts | finding: `TooLargeIsTooLarge` fails |
| `traversal` | 7 entries, 18 trees, all 8 configurations, 3 argument lists | `EmitsExactly`, `DrainIsSilent`, `WalkTerminates` |
| `daemon` | 3 modes, with and without pidfile, with and without `/dev/null`, 2 signals | `AnswerIsTrue`, `PidfileMeansLocked`, `NoStalePidfile`, `ErrorIsShownOnce`, `WaitingIsAnswered`, `SignalEndsIt` |
| `daemon_silent_death` | `--daemon --wait` | finding: `SilentDeathIsNoticed` fails |
| `tui_run` | up to 3 file events, the crawl may hang or panic, 2 signals | `SummaryIsComplete`, `TerminalIsRestored`, `CancelHasCause`, `RunEnds`, `CancelClosesDisplay` |
| `screen` | 3 files of 1 or 5 pages on 2 workers, room for 1, 3 histogram cells, each effect, every reading of the counters | `EventsMeetTheirFiles`, `MapsAreTrue` (with `CountsAgree`), `IndexIsSound`, `RightFilesAreKept`, `ScreenIsUseful`, `SummaryIsTrue`, `BucketsAreFair` |

The bounds, and why they are enough.

* *Cancellation*: two cancels race for the flag and one loses; three waits give
  one that has not begun, one at the lock and one asleep at the same time.
  Two spurious wake-ups let one caller wake twice or two once.
* *WorkerPool*: with three workers a failure can meet a worker that has claimed
  and one that has not; three files leave a gap in the outputs and let the
  counter overshoot while files are left. Batches of 0, 1 and 2 give fewer
  workers than were asked for. The display is the TUI, whose workers may do all
  that those of the command line may, and pass over an empty file unchecked.
* *FileProcessing*: four pages with an interval of two give a full interval, a
  remainder and pages skipped because they were resident; every subset is a
  possible cache.
* *SizeRange*: a `u64` that ends at 25 lets two digits fit and three overflow,
  with a rounding digit on either side of the limit (`255`, `249`, `2.55`); the
  largest power that fits is 10^1, the cut-off at 10^2 stands for 38. Every pair
  of plain numbers from 0 to 25 goes with every file length, which contains
  every position of a start and an end relative to page, file and integer
  limits; `usize` is smaller than `u64` so that its conversion can fail. Every
  combination of the forms of a digit string, point, exponent and unit stands
  alone and on either side of each delimiter. The library's own callers, who
  need no text, are the initial states with `~cli`. `SizeRangeAssumption` asks
  for what the real constants have: no text so long that its digits could be
  counted past the largest exponent, which is 2^31 - 1 there, and no size left
  of a power of ten beyond the cut-off (2 * 2^64 * 2^60 is less than 10^39).
* *Traversal*: the trees hold a link to the root, to its own directory, to a
  directory beside, to a file, to something else and to nothing, a directory of
  another device, and a file with three names in three directories of which
  some are filtered out. The counters count one, two, many.
* *Screen*: three files over room for one: two removals, from any place of the
  list. Five pages are more than a word of four bits and more than three
  histogram cells, and leave a last word and a last bucket unlike the others;
  words of two bytes of two bits have both orders to get wrong. The queue holds
  one event (`MaxQueue`): what more it held would be in the workers' outboxes
  instead, and events of different files meet in every order either way.
  mincore may write any of the samples of a file's length at each call, so a
  file that is evicted may have more pages afterwards. What a reading of the
  counters can mix takes two workers that add at once while a frame is drawn.
* *TuiRun*: three events fill both channels while others pass.
* *Daemon*: of two signals one cancels and the second ends the process.

Deadlock. The `worker_pool` runs and `screen` check it: there the end is a step
of its own. The others end (a call returns, a process exits), so their
configurations say that stopping is allowed; that they do not stop too early is
what their liveness properties say.

### Fairness

Weak fairness of each thread's step says that the kernel schedules what can
run. It is assumed of calls of `cancel` and `wait` that have begun, of the
main thread and each worker, of the calling thread of the traversal and of the
walk's threads, of both processes and the signal thread, and of the threads of
`run_tui`, but for the crawl itself, which may hang. It is never assumed of a
cancellation, of a signal, of an error, of a key press, of the kernel's
reclaiming, or of a death. In `Daemon` it
includes that the crawl ends, which `BatchSpec` and
`WalkTerminates` show for the crawl itself given that each file does. In
`TuiRun` it does not, because a read or an `mlock` may hang in the kernel:
`RunEnds` allows a crawl that hangs for ever, and
`CancelClosesDisplay` must do without it. That the scope panics is no more
assumed than that it does not; a process whose main thread has panicked ends. A mutex held for ever is not assumed
away: `Cancellation` needs only weak fairness, since a lock, once free, stays
available to a caller until one of finitely many takes it.

### Findings

* **A second panic is not reported** (`core/crawl.rs:139`, run
  `worker_pool_scope_panic`). The join loop returns at the first panic; a second
  panicked worker is then unjoined and `thread::scope` panics itself, so the
  caller never gets `Error::WorkerPanic`.
* **touch does not guarantee residency** (`core/ops/touch.rs:29`, run
  `touch_residency`). The README says the walk guarantees it; pages that an
  earlier sample called resident are not read, and may be gone.
* **The silent death of a daemon is not noticed** (`cli/daemon.rs:21`, run
  `daemon_silent_death`). The parent keeps its own copy of the write end of the
  pipe open while it reads, so it never sees the end of file.
* **Small sizes are refused as too large** (`cli/size_range.rs:119`, run
  `size_refused`). When the digits that fit make exactly the largest `u64` and
  the next one rounds up, `checked_add` overflows and the text is refused,
  although the point may make its value small: `1.84467440737095516155` is two
  bytes. Line 13 words the error as a number too large for its type.

Met on the way and kept in the model as the code has it. README (`src/README.md:97`)
and help text (`cli/cli.rs:96`) say that `-F` stays on the same file system, but only
directories (`core/crawl.rs:302`) and the targets of followed links (344) are compared
with the root's device, so that a regular file which another file system provides
under a name of a walked directory, as a bind mount of a file does, is collected
(385): the trees contain one, and `EmitsExactly` leaves it open (`Foreign`) whether
such a file is collected. Only an inode of several
links is remembered (`core/crawl.rs:460`): a file of one that two arguments, or
with `-f` a link, lead to as well is collected each time. A `--range` whose start
lies in the last page of a file, past its end, maps that page for no byte at all,
since the start is aligned down (`cli/runop.rs:107`) before it is compared with the
length; a file that ends a page earlier is refused. When `redirect_stdio` fails, an
error of a daemon that had reported it already is printed a second time by `main`.
A zero with an exponent past the limit,
`0e20`, is refused as too large. A sign is accepted anywhere in an exponent
(`1e1-5`). `1E-2E` is one size, a hundredth of an exabyte, and not a range, and a
point before a delimiter of dots (`2...5`) runs into it: `Separable` names what
a range must not look like to be taken apart where it was put together. Digits
past the width are rounded twice and may move a size by one byte. The summary of
an eviction says what was evicted as the difference of the counts of the first
and the last sample, so a file that has more pages afterwards counts in it as
unchanged while its row shows them.

## 4. The proofs

TLC checks the instances above; the theorems hold for every value of the
constants that satisfies the module's named assumption (`CancellationAssumption`
and its like, each as weak as the code allows). Each proof has one shape: an
inductive invariant `IInv` with `Init => IInv`, one lemma per group of actions
for `IInv /\ [Next]_vars => IInv'`, and each theorem a consequence of `[]IInv`.

* **CancellationProofs**, for any sets of calls and any number of spurious
  wake-ups: `TypeOK`, `NoLostWakeup`, `ReturnMeansNotified`, that `wait` leaves
  only after a cancellation, and that the token implements the safety part of
  `Latch`. `NoLostWakeup` alone is not inductive. What it takes is the mutex:
  the call in a critical section is its owner (part of `TypeOK`), so a waiter
  between its test and its sleep excludes the swap (`ParkIsUncancelled`), and
  after the swap no waiter sleeps unnotified (`UnlockIsNotified`).
* **WorkerPoolProofs**, for any numbers of files, threads and cores: `TypeOK`,
  `ClaimedOnce`, `OkIsComplete`, `FinishIsLast`, `OpFinishIsLast`,
  `FinishIsSent`, `ResultHasCause`, `CancelIsNotLost`. The invariant says that the indexes below `next` are claimed once (`ClaimInv`),
  that each of them is settled or in a worker's hands, that an error is
  recorded or about to be, and that a worker left because of `stop` or because
  the files ran out (`OutcomeInv`); `AnswerInv` carries that from the joins to
  the answer. The counter's bound needs the number of exited workers
  (`CounterInv`), since each overshoots once. That each result
  has its cause rests on `CauseInv`: a file being processed has come to nothing
  yet and is nobody else's, so that no outcome is overwritten and the recorded
  error stays that of a file that failed. A cancellation in time leads to
  `TooLateForOk`, which no step leaves. And the pool implements the safety part
  of `FileBatch`: `OutputsInv` says that the vector holds each file whose
  outcome is an output once, but for those about to be pushed, and
  `SortIsIncreasing` that sorting such a vector gives the files in order. For
  that no induction is needed: the ranks of *n* numbers are distinct places
  below *n*, so by the pigeonhole principle every place is taken.
* **RangeProofs**, for any page size and any width of `u64` and `usize`:
  `StaysInFile`, `NothingIsMissed` (a length past `usize` excepted), `ExactPages`
  (in two lemmas: a file that reaches past the start, `PagesInFile`, and one that
  ends before it in its page, `PageOfStart`), and that a range accepted by
  the command line passes `FileRange::validate`. The invariant records which
  checks a range has passed (`FromCli`, `Checked`); the arithmetic of division
  and alignment is in lemmas of its own.
* **DaemonProofs**, for any set of signals: `AnswerIsTrue`,
  `PidfileMeansLocked`, `NoStalePidfile`, `ErrorIsShownOnce` (whether or not the
  streams can be redirected). The invariant
  reads from the child's control point what is locked and what the pidfile
  holds (`LocksInv`), what is in the pipe (`PipeInv`), and where its streams
  lead and whether the error was shown (`ScreenInv`).
* **TuiRunProofs**, for any number of events: `SummaryIsComplete`,
  `TerminalIsRestored`, `CancelHasCause`. While the display lives, the events
  sent are those shown plus those in the two channels (`CountInv`), and
  `AllDone` is behind all of them in either channel (`AllDoneInv`); hence none
  is left when the display sees it. Lemmas count the files of a channel under
  `Append` and `Tail`. For the terminal, the invariant says that raw mode and the
  hidden cursor are on only while the guard is there, whatever step of the set-up
  or the loop fails, or where its own calls have failed; and that a main thread
  that returned has joined a display that has dropped it.
* **FileProcessingProofs**, for any number of pages and any interval:
  `TypeOK`, `StatsBounded`, `StatsSettle`, `ProgressIsHonest`, `EventProtocol`,
  `LockGuarantee`. None of them is inductive. The invariant says that what is
  left of the walk is what was neither sampled nor read (`WalkInv`), so that
  the pages touched and those left never exceed those missing (`CountInv`);
  that the live counters are the reported ones until the file is done
  (`StatsInv`), and what the events are at each point (`EventInv`). That the
  page read is the least one left, and that one exists, is `LeastPage`.
* **TraversalProofs**, for any tree, configuration and arguments and any order
  in which the walk delivers: `TypeInv`, `EmitsExactly` (a collection that ends
  without an error has emitted the files that the filters let through, all of
  them and nothing else), `CopiesOnce` (of the names of an inode with several
  links one is emitted, once, unless copies are counted), `OnDeviceOnly` (with `--single-filesystem`
  no directory off the argument's device is descended into or queued),
  `DrainIsSilent`. `CopiesOnce` needs that an emitted inode with more names is
  remembered (`EmittedIsSeen`) and that whether it has more does not depend on
  the name (`SharedByAll`), which holds because what is emitted is a file
  (`EmittedIsFile`). `EmitsExactly` compares with a closure over the tree. One
  half says that everything in hand lies in that closure (`WalkIsReached`,
  `EmittedIsWanted`); the other that what was visited, with what is still ahead,
  is closed under descending and following (`WalkIsCovered`), so that when
  nothing is ahead the closure, the least such set, is inside. And `WalkedOnce`:
  the directories that may still become the root of a walk for an argument are
  one less with each walk and never more, since those that wait are different
  and were met (`RootsDiffer`). That each walk ends is up to its threads
  (`WalkTerminates`); that there are finitely many is this.
* **ScreenProofs**, in four parts.
  *The list* (`TuiApp`), for any set of files, any sizes and any room: `TypeOK`,
  `IndexIsSound`, `CountsAgree`, `RightFilesAreKept`, `ScreenIsUseful`.
  `IndexIsSound` says that the places lead to the rows; what is inductive is that
  index and list are inverse to each other (`Located`), that running files have
  rows that are not done (`Tracked`), and that each map lies within its file
  (`Counted`), which keeps the subtraction of the count above zero. For what is
  kept, `Ranked` compares the rows that are done with all the files that
  finished: as many as there is room for, none smaller than one that was
  dropped. It needs that entries and rows correspond one to one
  (`EntriesCounted`), and that the comparison can be chained (`SmallerOrders`).
  *The refinement*: `Screen` implements `TuiApp` (`ScreenIsApp`), so that all of
  this holds of the display that the workers' events drive. A step of the display
  is one of `TuiApp` only if its event finds what `handle_event` expects, and
  that is `EventsMeetTheirFiles`, a theorem by `Delivered`: of each file the
  events in the queue and in its worker's hands are in order (`Ordered`), nothing
  follows the end of all (`Ending`), and how far the display has been told, what
  is under way and what the worker has done agree (`Phase`).
  *The maps*: `MapsAreTrue` holds of a row only once its file's events have
  arrived. What is inductive is `Mapped`: every event under way tells the truth
  about the pages it covers, and a page on which a row is not the truth is
  covered by an event still under way (`Corrected`). It rests on lemmas about
  `PageMap` for any width of a word: the packed bits are the sample
  (`FilledAreThePages`), the runs of a map cover it and differ from their
  neighbours (`RunsAreTheMap`).
  *What is drawn*: `BucketsAreFair` for any length of a map and any width, by the
  bounds of `(i * n) \div w`; and `SummaryIsTrue`, by `StatsInv`: each of the
  counters is at every moment the sum, over the files announced, of what the
  worker of that file has added, those announced but for the additions that the
  worker has yet to make (`Booked`), and that is what the missing pages up to its
  page come to; and by `SeenInv`: what the display is bound to see has the total of
  every row, since an event is sent after its file's additions. Sums are taken by the library's fold over a set, which chooses
  the order; `ChosenSums` shows that any order gives the sum.
* **RangeProofs**, second half, for any text: no step of `parse_with_multiply`
  leaves the width of a type (`ParsedFits`), what `from_str` accepts is a start
  and an end of their types in their order (`FromStrTyped`), and therefore
  `StaysInFile`, `ExactPages`, `NothingIsMissed` and `CliRangeIsValid` hold of
  `SizeRange`, whose runs begin at the text, as they do of `Range`, whose runs
  begin at two numbers. Until its text is read a range is nothing; from then on
  the invariant is that of `Range` (`TextInv`), so each lemma about a step of
  `Range` is used again.

* **RangeProofs**, last part: `RangeIsAsWritten` and `RefusedForCause`, for any
  text whose two sizes can be told apart. They need that the code computes what
  the text says, and the proof follows `from_str` backwards.
  *The number.* At each digit the automaton holds the digits read so far, all but
  those that do not fit, rounded once, and the place of the point (`AtNumber`,
  kept by `NumberGoesOn` and `NumberHasPoint`); in the exponent it holds that
  number until it is past the limit (`AtExponent`, `ExponentGoesOn`). Each is
  carried over a part of the text by induction (`IntegerIsRead`, `FractionIsRead`,
  `ExponentIsRead`), and together they say how the automaton ends
  (`SizeIsParsed`). An exponent past the limit is no different from the limit,
  because of what the length of the digits can make up for (`LengthsOf`,
  `NearestFar`). What is then computed in `u64`, each product checked, or in
  `u128`, rounded, is the nearest size (`ScaledIsNearest`), whichever way an `e`
  is taken: the unit is taken off the end, and no number ends like one
  (`NumberHasNoUnit`, `UnitIsTaken`). Hence `SizeIsRead`.
  *The cut.* The text of a size has no comma, no dash but after an `e`, and one
  point (`IsSizeText`); two such texts with a delimiter between them have the
  delimiter's characters in one place only, and `try_split` finds it
  (`SplitByDots`, `SplitByComma`, `SplitByDash`), or, without a delimiter, finds
  none (`NotSplit`). Hence `TextIsRead`: what `from_str` returns is what was
  written, and its error one that has its cause in the text.
  *The invariant* is `TextInv` with `WrittenInv`: until the text is read it is one
  that can be written, and from then on nothing changes what was read.

No rule of induction can be instantiated in this proof system, since it takes a
predicate as its parameter. What is said about data of any size is proved by
sets instead: a set of numbers has a least element (`LeastNumber`, from the
library's well-founded orders), so a set that has zero and with each number the
next has all (`Induction`); the function that a recursive definition chooses
exists because it exists up to each number (`StepsExist`, and for all numbers
`Recursion`; `StatesExist`, `ChosenExists`).

Only model-checked: every liveness property (`RunEnds`, `CancelClosesDisplay`,
`WaitingIsAnswered`, `SignalEndsIt`, `WalkTerminates`) and the liveness parts of
the refinements `LatchSpec` and `BatchSpec`, which the proof system cannot treat,
as it cannot treat ENABLED. There TLC's instances are the evidence. Every safety
property of a run that passes is a theorem.

## 5. What is not modelled

* `dua_core::walk`, the `ignore` crate, `std::sync`,
  `std::thread::scope`, `std::sync::mpsc`, the page cache, pipes, `fork` and
  signals are external: modelled from how the code uses them.
* A link given as an argument without `-f`: what a walk rooted at a link does is
  up to `dua_core`.
* Filters by name are sets of entries, so a pattern that tells a file's logical
  path under two links apart is not expressible; a directory reached through a
  link is not matched against the ignore patterns, in the model as in the code.
* A file truncated under its mapping (`SIGBUS`), two daemons with one pidfile
  (the code promises nothing), and what the terminal looks like after an end of the
  process inside `run_tui`: neither `process::exit` on the second signal nor the
  panic of the crawl's scope waits for the guard, and nothing promises it.
* A refused thread for the display itself: `thread::spawn` then panics in
  `run_tui` before anything of `TuiRun` has begun.
* `Display` of a range, the three output formats of the command line, bytes and
  elapsed times of the summary, widths of texts, paths and colours of the
  display, the command-line definitions, log set-up and build script: text, or
  arithmetic on floats without state that outlives a call.
* `mincore`, `cachestat`, `mmap`, `fstat` and `open` themselves.
* Memory order beyond the stale reads named above: a relaxed load of a counter of
  `Stats` is of some moment since the last event was handled, never older, as on
  machines with coherent caches; `outputs` and `error` are behind mutexes.

## 6. Plan

Done: the modules above in the order of section 2, and a theorem for every
safety property the passing runs check. Next: the composition of `Daemon` with a
crawl that may be cut short.
