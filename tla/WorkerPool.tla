----------------------------- MODULE WorkerPool -----------------------------
(***************************************************************************)
(* crawl_and_process (crates/pagers-core/src/crawl.rs): the caller's       *)
(* thread collects the files, spawns scoped worker threads, joins them,    *)
(* tells the display it is over, and answers; the workers claim file       *)
(* indexes from a shared counter until it runs past the end or one of them *)
(* has failed.                                                             *)
(*                                                                         *)
(* Collecting the paths is one step here (module Traversal details it),    *)
(* and processing a file is two: its cancellation check, and the rest with *)
(* any outcome (module FileProcessing details it).  std::thread::scope is  *)
(* external, modelled from how crawl.rs uses it: it waits for every thread *)
(* spawned in it, and panics when one whose handle was never joined has    *)
(* panicked.                                                               *)
(***************************************************************************)
EXTENDS Naturals, Sequences, FiniteSets

CONSTANTS
  MaxFiles,         \* bound on the number of files collected
  Requested,        \* --threads; 0 stands for Threads::All
  Cores,            \* std::thread::available_parallelism()
  Display,          \* "Cli" or "Tui"
  Outcomes,         \* what processing a file may come to
  SpawnMayFail      \* whether the system may refuse a thread

ASSUME WorkerPoolAssumption ==
  /\ MaxFiles \in Nat
  /\ Requested \in Nat
  /\ Cores \in Nat \ {0}
  /\ Display \in {"Cli", "Tui"}
  /\ Outcomes \subseteq {"output", "none", "error", "panic"}
  /\ SpawnMayFail \in BOOLEAN

Lesser(m, n) == IF m < n THEN m ELSE n

\* Threads::effective.
Effective == IF Requested = 0 THEN Cores ELSE Lesser(Requested, Cores)

Workers == 1 .. Effective
Indexes == 0 .. MaxFiles - 1
NoError == MaxFiles       \* an index no file has

VARIABLES
  cancelled,        \* the token the caller passed
  main,             \* where the calling thread is
  nfiles,           \* files.len()
  partial,          \* the collection was cut short by a cancellation
  spawned,          \* handles.len()
  joined,           \* handles joined, in the order of spawning
  scopeResult,      \* worker_result
  result,           \* what crawl_and_process returns
  value,            \* the outputs it returns, as file indexes
  worker,           \* where each worker thread is
  idx,              \* the index each worker has claimed last
  stored,           \* this worker has stored TRUE in stop
  next,             \* the shared counter
  stop,             \* the shared flag
  outputs,          \* the shared vector, in the order of the pushes
  firstError,       \* the shared first_error: the file it is about, or NoError
  finishes,         \* calls of display.finish()
  opFinished,       \* op.finish() has been called
  claims,           \* history: how often each index was claimed
  outcome           \* history: what processing each file came to

mainVars   == <<main, nfiles, partial, spawned, joined, scopeResult, result, value,
                finishes, opFinished>>
workerVars == <<worker, idx, stored, next, stop, outputs, firstError, claims, outcome>>
vars       == <<cancelled, mainVars, workerVars>>

NWorkers == Lesser(Effective, nfiles)
Live     == {w \in Workers : worker[w] \notin {"unborn", "exited", "panicked"}}
Panicked == {w \in Workers : worker[w] = "panicked"}

Init ==
  /\ cancelled = FALSE
  /\ main = "start"
  /\ nfiles = 0 /\ partial = FALSE
  /\ spawned = 0 /\ joined = 0
  /\ scopeResult = "Ok" /\ result = "none" /\ value = <<>>
  /\ worker = [w \in Workers |-> "unborn"]
  /\ idx = [w \in Workers |-> 0]
  /\ stored = [w \in Workers |-> FALSE]
  /\ next = 0 /\ stop = FALSE
  /\ outputs = <<>> /\ firstError = NoError
  /\ finishes = 0 /\ opFinished = FALSE
  /\ claims = [i \in Indexes |-> 0]
  /\ outcome = [i \in Indexes |-> "pending"]

\* Somebody cancels: a signal, the q key, a drop of the terminal.
Cancel ==
  /\ ~cancelled
  /\ main # "returned"
  /\ cancelled' = TRUE
  /\ UNCHANGED <<mainVars, workerVars>>

-----------------------------------------------------------------------------
\* The calling thread.

Return(r) ==
  /\ main' = "returned"
  /\ result' = r

MainStart ==
  /\ main = "start"
  /\ IF cancelled THEN Return("Cancelled")
     ELSE main' = "validate" /\ UNCHANGED result
  /\ UNCHANGED <<cancelled, workerVars, nfiles, partial, spawned, joined, scopeResult,
                 value, finishes, opFinished>>

MainValidate ==
  /\ main = "validate"
  /\ \/ Return("Pattern")
     \/ main' = "collect" /\ UNCHANGED result
  /\ UNCHANGED <<cancelled, workerVars, nfiles, partial, spawned, joined, scopeResult,
                 value, finishes, opFinished>>

\* collect_paths answers Ok also when a cancellation ended its loop early.
MainCollect ==
  /\ main = "collect"
  /\ \E n \in 0 .. MaxFiles : nfiles' = n
  /\ partial' \in {FALSE, cancelled}
  /\ main' = "spawn"
  /\ UNCHANGED <<cancelled, workerVars, spawned, joined, scopeResult, result, value,
                 finishes, opFinished>>

\* The display is told before the error is returned.
MainCollectFails ==
  /\ main = "collect"
  /\ finishes' = finishes + 1
  /\ Return("Collect")
  /\ UNCHANGED <<cancelled, workerVars, nfiles, partial, spawned, joined, scopeResult,
                 value, opFinished>>

MainSpawn ==
  /\ main = "spawn"
  /\ spawned < NWorkers
  /\ spawned' = spawned + 1
  /\ worker' = [worker EXCEPT ![spawned + 1] = "test"]
  /\ UNCHANGED <<cancelled, main, nfiles, partial, joined, scopeResult, result, value,
                 finishes, opFinished, idx, stored, next, stop, outputs, firstError,
                 claims, outcome>>

\* The `?` leaves the closure: no handle is joined, stop is not set.
MainSpawnFails ==
  /\ SpawnMayFail
  /\ main = "spawn"
  /\ spawned < NWorkers
  /\ scopeResult' = "Spawn"
  /\ main' = "scope"
  /\ UNCHANGED <<cancelled, workerVars, nfiles, partial, spawned, joined, result, value,
                 finishes, opFinished>>

MainSpawned ==
  /\ main = "spawn"
  /\ spawned = NWorkers
  /\ main' = "join"
  /\ UNCHANGED <<cancelled, workerVars, nfiles, partial, spawned, joined, scopeResult,
                 result, value, finishes, opFinished>>

\* Mutant of MainJoin: a join whose error is dropped.
MainJoinIgnoresPanic ==
  /\ main = "join"
  /\ joined < spawned
  /\ worker[joined + 1] \in {"exited", "panicked"}
  /\ joined' = joined + 1
  /\ UNCHANGED <<cancelled, workerVars, nfiles, partial, spawned, main, scopeResult,
                 result, value, finishes, opFinished>>

\* join() of the next handle; the first panic ends the loop.
MainJoin ==
  /\ main = "join"
  /\ joined < spawned
  /\ joined' = joined + 1
  /\ \/ /\ worker[joined + 1] = "exited"
        /\ UNCHANGED <<main, scopeResult>>
     \/ /\ worker[joined + 1] = "panicked"
        /\ scopeResult' = "WorkerPanic"
        /\ main' = "scope"
  /\ UNCHANGED <<cancelled, workerVars, nfiles, partial, spawned, result, value,
                 finishes, opFinished>>

MainJoined ==
  /\ main = "join"
  /\ joined = spawned
  /\ main' = "scope"
  /\ UNCHANGED <<cancelled, workerVars, nfiles, partial, spawned, joined, scopeResult,
                 result, value, finishes, opFinished>>

\* Mutant of MainScope: threads that are not scoped, so nobody waits for
\* those whose handle was dropped.
MainScopeDetached ==
  /\ main = "scope"
  /\ main' = "display"
  /\ UNCHANGED <<cancelled, workerVars, nfiles, partial, spawned, joined, scopeResult,
                 result, value, finishes, opFinished>>

\* The end of std::thread::scope.
MainScope ==
  /\ main = "scope"
  /\ Live = {}
  /\ IF \E w \in Panicked : w > joined
     THEN Return("Panic")
     ELSE main' = "display" /\ UNCHANGED result
  /\ UNCHANGED <<cancelled, workerVars, nfiles, partial, spawned, joined, scopeResult,
                 value, finishes, opFinished>>

\* Mutant of MainDisplay: the display is told only on success.
MainDisplayOnSuccess ==
  /\ main = "display"
  /\ IF scopeResult # "Ok" THEN Return(scopeResult) /\ UNCHANGED finishes
     ELSE IF firstError # NoError THEN Return("File") /\ UNCHANGED finishes
     ELSE main' = "check" /\ finishes' = finishes + 1 /\ UNCHANGED result
  /\ UNCHANGED <<cancelled, workerVars, nfiles, partial, spawned, joined, scopeResult,
                 value, opFinished>>

\* display.finish(), then worker_result?, then first_error.
MainDisplay ==
  /\ main = "display"
  /\ finishes' = finishes + 1
  /\ IF scopeResult # "Ok" THEN Return(scopeResult)
     ELSE IF firstError # NoError THEN Return("File")
     ELSE main' = "check" /\ UNCHANGED result
  /\ UNCHANGED <<cancelled, workerVars, nfiles, partial, spawned, joined, scopeResult,
                 value, opFinished>>

\* Mutant of MainCheck: no check after the workers are done.
MainCheckSkipped ==
  /\ main = "check"
  /\ main' = "op"
  /\ UNCHANGED <<cancelled, workerVars, nfiles, partial, spawned, joined, scopeResult,
                 result, value, finishes, opFinished>>

MainCheck ==
  /\ main = "check"
  /\ IF cancelled THEN Return("Cancelled")
     ELSE main' = "op" /\ UNCHANGED result
  /\ UNCHANGED <<cancelled, workerVars, nfiles, partial, spawned, joined, scopeResult,
                 value, finishes, opFinished>>

\* A vector of distinct indexes sorted in increasing order.
SortedByIndex(s) ==
  [k \in 1 .. Len(s) |->
     LET n == CHOOSE n \in 1 .. Len(s) : Cardinality({m \in 1 .. Len(s) : s[m] < s[n]}) = k - 1
     IN  s[n]]

\* Mutant of MainOpFinish: the outputs in the order they were pushed.
MainOpFinishUnsorted ==
  /\ main = "op"
  /\ opFinished' = TRUE
  /\ \/ Return("OpFinish") /\ UNCHANGED value
     \/ Return("Ok") /\ value' = outputs
  /\ UNCHANGED <<cancelled, workerVars, nfiles, partial, spawned, joined, scopeResult,
                 finishes>>

MainOpFinish ==
  /\ main = "op"
  /\ opFinished' = TRUE
  /\ \/ Return("OpFinish") /\ UNCHANGED value
     \/ Return("Ok") /\ value' = SortedByIndex(outputs)
  /\ UNCHANGED <<cancelled, workerVars, nfiles, partial, spawned, joined, scopeResult,
                 finishes>>

-----------------------------------------------------------------------------
\* A worker thread.

Move(w, from, to) ==
  /\ worker[w] = from
  /\ worker' = [worker EXCEPT ![w] = to]

\* while !stop.load(Relaxed): a worker that has not stored the flag itself
\* may still read the old value.
Test(w) ==
  /\ \E seen \in {stop} \cup (IF stored[w] THEN {} ELSE {FALSE}) :
        Move(w, "test", IF seen THEN "exited" ELSE "claim")
  /\ UNCHANGED <<cancelled, mainVars, idx, stored, next, stop, outputs, firstError,
                 claims, outcome>>

Claimed(w, i) ==
  /\ idx' = [idx EXCEPT ![w] = i]
  /\ IF i < nfiles
     THEN /\ Move(w, "claim", "process")
          /\ claims' = [claims EXCEPT ![i] = @ + 1]
     ELSE Move(w, "claim", "exited") /\ UNCHANGED claims

\* Mutant of Claim: a load and a store; one of two increments may be lost.
ClaimNotAtomic(w) ==
  /\ Claimed(w, next)
  /\ next' \in {next, next + 1}
  /\ UNCHANGED <<cancelled, mainVars, stored, stop, outputs, firstError, outcome>>

\* Mutant of Claim: the test for the end of the list is forgotten.
ClaimPastEnd(w) ==
  /\ next < 2 * (MaxFiles + Effective)
  /\ idx' = [idx EXCEPT ![w] = next]
  /\ Move(w, "claim", IF next < nfiles THEN "process" ELSE "test")
  /\ next' = next + 1
  /\ UNCHANGED <<cancelled, mainVars, stored, stop, outputs, firstError, claims, outcome>>

\* Mutant of Claim: past the end a worker gives the index back and tries again.
ClaimRetries(w) ==
  /\ IF next < nfiles THEN Claimed(w, next) /\ next' = next + 1
     ELSE Move(w, "claim", "test") /\ UNCHANGED <<idx, next, claims>>
  /\ UNCHANGED <<cancelled, mainVars, stored, stop, outputs, firstError, outcome>>

\* next.fetch_add(1), then files.get(index).
Claim(w) ==
  /\ Claimed(w, next)
  /\ next' = next + 1
  /\ UNCHANGED <<cancelled, mainVars, stored, stop, outputs, firstError, outcome>>

Settle(w, o) ==
  outcome' = [outcome EXCEPT ![idx[w]] = o]

\* The cancellation check at the head of process_one.  The TUI prepares the
\* file first, and skips an empty or out-of-range one without the check.
ProcessBegin(w) ==
  /\ IF ~cancelled
     THEN Move(w, "process", "work") /\ UNCHANGED outcome
     ELSE \/ Move(w, "process", "store") /\ Settle(w, "error")
          \/ Display = "Tui" /\ Move(w, "process", "test") /\ Settle(w, "none")
  /\ UNCHANGED <<cancelled, mainVars, idx, stored, next, stop, outputs, firstError, claims>>

\* The control point that follows each outcome.
After == [o \in {"output", "none", "error", "panic"} |->
            CASE o = "output" -> "push"
              [] o = "none"   -> "test"
              [] o = "error"  -> "store"
              [] o = "panic"  -> "panicked"]

ProcessEnd(w) ==
  /\ \E o \in Outcomes : Move(w, "work", After[o]) /\ Settle(w, o)
  /\ UNCHANGED <<cancelled, mainVars, idx, stored, next, stop, outputs, firstError, claims>>

Push(w) ==
  /\ Move(w, "push", "test")
  /\ outputs' = Append(outputs, idx[w])
  /\ UNCHANGED <<cancelled, mainVars, idx, stored, next, stop, firstError, claims, outcome>>

Store(w) ==
  /\ Move(w, "store", "record")
  /\ stop' = TRUE
  /\ stored' = [stored EXCEPT ![w] = TRUE]
  /\ UNCHANGED <<cancelled, mainVars, idx, next, outputs, firstError, claims, outcome>>

\* Mutant of Record: the flag is set but the error is dropped.
RecordDropped(w) ==
  /\ Move(w, "record", "test")
  /\ UNCHANGED <<cancelled, mainVars, idx, stored, next, stop, outputs, firstError, claims, outcome>>

Record(w) ==
  /\ Move(w, "record", "test")
  /\ firstError' = IF firstError = NoError THEN idx[w] ELSE firstError
  /\ UNCHANGED <<cancelled, mainVars, idx, stored, next, stop, outputs, claims, outcome>>

-----------------------------------------------------------------------------
MainStep ==
  \/ MainStart \/ MainValidate \/ MainCollect \/ MainCollectFails
  \/ MainSpawn \/ MainSpawnFails \/ MainSpawned
  \/ MainJoin \/ MainJoined \/ MainScope
  \/ MainDisplay \/ MainCheck \/ MainOpFinish

WorkerStep(w) ==
  \/ Test(w) \/ Claim(w) \/ ProcessBegin(w) \/ ProcessEnd(w)
  \/ Push(w) \/ Store(w) \/ Record(w)

\* The call is over and every thread has stopped.
Done == main = "returned" /\ Live = {} /\ UNCHANGED vars

Next == Cancel \/ MainStep \/ (\E w \in Workers : WorkerStep(w)) \/ Done

\* Every thread that can take a step takes one in the end: the files are
\* local and finite, so processing one ends.  Nobody has to cancel.
Fairness == WF_vars(MainStep) /\ \A w \in Workers : WF_vars(WorkerStep(w))

SafeSpec == Init /\ [][Next]_vars
Spec     == SafeSpec /\ Fairness

-----------------------------------------------------------------------------
WorkerPoints == {"unborn", "test", "claim", "process", "work", "push", "store", "record",
                 "exited", "panicked"}
MainPoints   == {"start", "validate", "collect", "spawn", "join", "scope", "display",
                 "check", "op", "returned"}
Results      == {"none", "Ok", "Cancelled", "Pattern", "Collect", "Spawn", "WorkerPanic",
                 "File", "OpFinish", "Panic"}

(* Types; and the counter overshoots the list by one claim a worker at     *)
(* most, so fetch_add cannot wrap (crawl.rs:116).                          *)
TypeOK ==
  /\ cancelled \in BOOLEAN
  /\ main \in MainPoints
  /\ nfiles \in 0 .. MaxFiles
  /\ partial \in BOOLEAN
  /\ spawned \in 0 .. NWorkers
  /\ joined \in 0 .. spawned
  /\ scopeResult \in {"Ok", "Spawn", "WorkerPanic"}
  /\ result \in Results
  /\ worker \in [Workers -> WorkerPoints]
  /\ idx \in [Workers -> Nat]
  /\ stored \in [Workers -> BOOLEAN]
  /\ next \in 0 .. nfiles + NWorkers
  /\ stop \in BOOLEAN
  /\ outputs \in Seq(Indexes)
  /\ firstError \in Indexes \cup {NoError}
  /\ finishes \in {0, 1}
  /\ opFinished \in BOOLEAN
  /\ claims \in [Indexes -> Nat]
  /\ outcome \in [Indexes -> {"pending", "output", "none", "error", "panic"}]

Batch == 0 .. nfiles - 1

(* No two workers process the same file, however their loads and claims    *)
(* interleave (crawl.rs:115-120).                                          *)
ClaimedOnce == \A i \in Indexes : claims[i] <= 1

(* Ok means all of it: every file the walk found was processed and none    *)
(* failed; none was skipped because another worker's error or a            *)
(* cancellation stopped the pool or the walk (crawl.rs:145-149).           *)
OkIsComplete ==
  result = "Ok" => ~partial /\ \A i \in Batch : outcome[i] \in {"output", "none"}

(* No failure is swallowed and none is made up: each kind of error result  *)
(* has its cause, and the recorded error is one of a file that failed.     *)
ResultHasCause ==
  /\ firstError # NoError => outcome[firstError] = "error"
  /\ main = "returned" =>
       /\ result = "File" => \E i \in Batch : outcome[i] = "error"
       /\ Panicked # {} => result \in {"WorkerPanic", "Spawn", "Panic"}
       /\ result \in {"WorkerPanic", "Panic"} => Panicked # {}

(* The display is told it is over once, and only when no worker can still  *)
(* send it an event; and nothing runs once the call has returned, also     *)
(* when a spawn failed or a worker panicked (crawl.rs:109-144).            *)
FinishIsLast ==
  (finishes > 0 \/ main = "returned") => Live = {}

(* The display is always told, once the walk has begun, unless the scope   *)
(* itself panics: the TUI waits for AllDone (crawl.rs:100, 144).           *)
FinishIsSent ==
  main = "returned" /\ result \notin {"Pattern", "Panic"} =>
    finishes = 1 \/ (result = "Cancelled" /\ nfiles = 0)

(* op.finish() -- mlockall for lockall -- comes after every file of the    *)
(* batch succeeded and every thread stopped (crawl.rs:150).                *)
OpFinishIsLast ==
  opFinished => Live = {} /\ \A i \in Batch : outcome[i] \in {"output", "none"}

(* A cancellation that comes before the workers are known to be done is    *)
(* never lost: the call does not answer Ok later (crawl.rs:83, 149).       *)
CancelIsNotLost ==
  [](cancelled /\ main \notin {"op", "returned"} => [](result # "Ok"))

(* The call returns and no thread is left behind.                          *)
Terminates == <>[](main = "returned" /\ Live = {})

(* A panicking worker makes the call return an error: Error::WorkerPanic,  *)
(* "file worker thread panicked" (error.rs:35), is what the join is mapped *)
(* to; the call itself does not panic.                                     *)
PanicIsReported == result # "Panic"

-----------------------------------------------------------------------------
(* crawl_and_process keeps the promise of FileBatch.                       *)
Phase ==
  IF main \in {"start", "validate", "collect"} THEN "collecting"
  ELSE IF main = "returned" THEN "returned" ELSE "running"

B == INSTANCE FileBatch WITH
       phase  <- Phase,
       status <- [i \in Batch |-> outcome[i]],
       answer <- IF result = "none" THEN [kind |-> "none"]
                 ELSE IF result = "Ok" THEN [kind |-> "ok", outputs |-> value]
                 ELSE [kind |-> "err"]

BatchSafe == B!SafeSpec
BatchSpec == B!Spec
=============================================================================
