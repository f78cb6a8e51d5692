--------------------------- MODULE FileProcessing ---------------------------
(***************************************************************************)
(* process_one: what a worker does with one file (crates/pagers-core/src/  *)
(* mode.rs and ops/), beside a kernel that reads pages in and reclaims     *)
(* them whenever it likes.  The file is mapped, its residency is sampled,  *)
(* the operation runs, and the statistics and the display are told.        *)
(*                                                                         *)
(* The page cache, fadvise and mlock are external, modelled from how the   *)
(* operations use them: DONTNEED drops any part of what is not locked,     *)
(* mlock makes the whole mapping resident or fails, and a lock lasts as    *)
(* long as the mapping.                                                    *)
(***************************************************************************)
EXTENDS Naturals, Sequences, FiniteSets

CONSTANTS
  NPages,           \* pages of the range of the file
  Ops,              \* the operations a run may be of: "Query", "Touch", "Evict",
                    \* "Lock" (which is also what Lockall does with one file)
  Displays,         \* its display modes: "Cli", "Tui"
  Interval,         \* PROGRESS_INTERVAL
  ReclaimAt         \* the control points at which the kernel may reclaim a page

ASSUME FileProcessingAssumption ==
  /\ NPages \in Nat \ {0}
  /\ Ops \subseteq {"Query", "Touch", "Evict", "Lock"}
  /\ Displays \subseteq {"Cli", "Tui"}
  /\ Interval \in Nat \ {0}

Pages == 1 .. NPages

VARIABLES
  job,              \* the operation and the display, fixed for the run
  cache,            \* the pages the kernel holds
  mlocked,          \* the pages of the mapping locked in memory
  cancelled,        \* the token
  pc,               \* where the worker is
  mapped,           \* the FileContext, and its mapping, is alive
  held,             \* an output that keeps the mapping is alive
  snapshot,         \* residency_before
  after,            \* the residency reported once the operation is done
  todo,             \* pages of the snapshot still to be touched
  touched,          \* Touch's counter
  reported,         \* reported_action
  stats,            \* what this file has added to Stats
  events,           \* kinds of the events sent to the TUI
  view,             \* the residency those events add up to
  result,           \* "pending", "output", "none" or "error"
  read              \* history: pages read by the walk

kernelVars == <<cache, mlocked>>
tuiVars    == <<events, view>>
vars       == <<job, cache, mlocked, cancelled, pc, mapped, held, snapshot, after, todo, touched,
                reported, stats, events, view, result, read>>

Op      == job.op
Display == job.display

\* Op::EFFECT.
Effect == CASE Op = "Query" -> "Preserve"
            [] Op = "Evict" -> "EvictAdvisory"
            [] Op \in {"Touch", "Lock"} -> "Populate"

NoStats == [files |-> 0, total |-> 0, initial |-> 0, action |-> 0]

Init ==
  /\ job \in [op : Ops, display : Displays]
  /\ cache \in SUBSET Pages
  /\ mlocked = {}
  /\ cancelled \in BOOLEAN
  /\ pc = IF Display = "Cli" THEN "check" ELSE "prepare"
  /\ mapped = FALSE /\ held = FALSE
  /\ snapshot = {} /\ after = {} /\ todo = {}
  /\ touched = 0 /\ reported = 0
  /\ stats = NoStats
  /\ events = <<>> /\ view = {}
  /\ result = "pending"
  /\ read = {}

-----------------------------------------------------------------------------
\* The environment.

Cancel ==
  /\ ~cancelled /\ pc # "returned"
  /\ cancelled' = TRUE
  /\ UNCHANGED <<kernelVars, tuiVars, pc, mapped, held, snapshot, after, todo, touched,
                 reported, stats, result, read>>

Reclaim ==
  /\ pc \in ReclaimAt
  /\ \E p \in cache \ mlocked : cache' = cache \ {p}
  /\ UNCHANGED <<mlocked, cancelled, tuiVars, pc, mapped, held, snapshot, after, todo,
                 touched, reported, stats, result, read>>

\* Another process, or the readahead that Touch asks for, reads a page in.
ReadIn ==
  /\ pc # "returned"
  /\ \E p \in Pages \ cache : cache' = cache \cup {p}
  /\ UNCHANGED <<mlocked, cancelled, tuiVars, pc, mapped, held, snapshot, after, todo,
                 touched, reported, stats, result, read>>

-----------------------------------------------------------------------------
\* Leaving process_one.  The mapping goes, and its locks with it, unless an
\* output keeps it.

Return(r, keep) ==
  /\ pc' = "returned"
  /\ result' = r
  /\ mapped' = FALSE
  /\ held' = keep
  /\ mlocked' = IF keep THEN mlocked ELSE {}

\* Mutant of Fail: an error leaves the TUI without the end of the file.
FailSilently ==
  /\ Return("error", FALSE)
  /\ UNCHANGED <<cache, cancelled, tuiVars, snapshot, after, todo, touched, reported,
                 stats, read>>

\* An error return.  The TUI is told that the file is over if it was told
\* that it began.
Fail ==
  /\ Return("error", FALSE)
  /\ events' = IF events = <<>> THEN events ELSE Append(events, "done")
  /\ UNCHANGED <<cache, cancelled, view, snapshot, after, todo, touched, reported, stats,
                 read>>

Proceed(from, to) ==
  /\ pc = from
  /\ pc' = to
  /\ UNCHANGED <<cancelled, mapped, held, result>>

-----------------------------------------------------------------------------
\* The CLI checks before it opens the file.
CliCheck ==
  \/ pc = "check" /\ cancelled /\ Fail
  \/ /\ ~cancelled /\ Proceed("check", "prepare")
     /\ UNCHANGED <<kernelVars, tuiVars, snapshot, after, todo, touched, reported, stats, read>>

\* open, fstat, resolve the range, mmap.  An empty file is skipped.
Prepare ==
  /\ pc = "prepare"
  /\ \/ Fail
     \/ /\ Return("none", FALSE)
        /\ UNCHANGED <<cache, cancelled, tuiVars, snapshot, after, todo, touched, reported,
                       stats, read>>
     \/ /\ pc' = "sample" /\ mapped' = TRUE
        /\ UNCHANGED <<kernelVars, cancelled, tuiVars, held, snapshot, after, todo, touched,
                       reported, stats, result, read>>

\* mincore, or cachestat where only the count is wanted.
Sample ==
  \/ pc = "sample" /\ Fail
  \/ /\ Proceed("sample", IF Display = "Tui" THEN "announce" ELSE "execute")
     /\ snapshot' = cache
     /\ UNCHANGED <<kernelVars, tuiVars, after, todo, touched, reported, stats, read>>

\* The TUI's totals and FileStart, then the check of full_process_file.
Announce ==
  /\ Proceed("announce", "recheck")
  /\ stats' = [stats EXCEPT !.files = 1, !.total = NPages, !.initial = Cardinality(snapshot)]
  /\ events' = Append(events, "start")
  /\ view' = snapshot
  /\ UNCHANGED <<kernelVars, snapshot, after, todo, touched, reported, read>>

TuiCheck ==
  \/ pc = "recheck" /\ cancelled /\ Fail
  \/ /\ ~cancelled /\ Proceed("recheck", "execute")
     /\ UNCHANGED <<kernelVars, tuiVars, snapshot, after, todo, touched, reported, stats, read>>

-----------------------------------------------------------------------------
\* Op::execute.

ExecuteQuery ==
  /\ Op = "Query"
  /\ Proceed("execute", "measure")
  /\ UNCHANGED <<kernelVars, tuiVars, snapshot, after, todo, touched, reported, stats, read>>

\* POSIX_FADV_DONTNEED: advice, so any part of the unlocked pages may stay.
ExecuteEvict ==
  /\ Op = "Evict"
  /\ \/ pc = "execute" /\ Fail
     \/ /\ Proceed("execute", "measure")
        /\ \E gone \in SUBSET (cache \ mlocked) : cache' = cache \ gone
        /\ UNCHANGED <<mlocked, tuiVars, snapshot, after, todo, touched, reported, stats, read>>

WalkEnd == IF Op = "Lock" THEN "mlock" ELSE "measure"

\* Touch::execute up to its loop: the pages to touch are those the sample
\* missed; when it missed none there is no walk.
TouchBegin ==
  /\ Op \in {"Touch", "Lock"}
  /\ \/ pc = "execute" /\ cancelled /\ Fail
     \/ /\ ~cancelled
        /\ todo' = Pages \ snapshot
        /\ Proceed("execute", IF Pages \subseteq snapshot THEN WalkEnd ELSE "walk")
        /\ UNCHANGED <<kernelVars, tuiVars, snapshot, after, touched, reported, stats, read>>

TouchCheck ==
  \/ pc = "walk" /\ cancelled /\ Fail
  \/ /\ ~cancelled /\ Proceed("walk", "read")
     /\ UNCHANGED <<kernelVars, tuiVars, snapshot, after, todo, touched, reported, stats, read>>

Least(S) == CHOOSE p \in S : \A q \in S : p <= q

\* on_progress: adds what is new since the last report, and shows the pages
\* up to this one as resident.
Progress(upto, count) ==
  /\ reported' = count
  /\ stats' = [stats EXCEPT !.action = @ + (IF count > reported THEN count - reported ELSE 0)]
  /\ events' = Append(events, "progress")
  /\ view' = view \cup (1 .. upto)

TouchRead(p) ==
  /\ pc = "read" /\ p = Least(todo)
  /\ cache' = cache \cup {p}
  /\ todo' = todo \ {p}
  /\ touched' = touched + 1
  /\ read' = read \cup {p}
  /\ Proceed("read", IF todo = {p} THEN WalkEnd ELSE "walk")
  /\ UNCHANGED <<mlocked, snapshot, after>>

\* Mutant of TouchPage: progress is reported before the page is read.
TouchPageEarly ==
  \E p \in Pages :
    \/ /\ pc = "walk" /\ p = Least(todo)
       /\ (p + 1) % Interval = 0 /\ p < NPages /\ Display = "Tui" /\ reported < touched + 1
       /\ Progress(p + 1, touched + 1)
       /\ UNCHANGED <<kernelVars, cancelled, pc, mapped, held, snapshot, after, todo, touched, result, read>>
    \/ TouchRead(p) /\ UNCHANGED <<tuiVars, reported, stats>>

\* Mutant of TouchPage: the count reported is the page number.
TouchPageCountsAll ==
  \E p \in Pages :
    /\ TouchRead(p)
    /\ IF p % Interval = 0 /\ Display = "Tui"
       THEN Progress(p, p)
       ELSE UNCHANGED <<tuiVars, reported, stats>>

\* read_volatile of one page, and a report every Interval pages.
TouchPage ==
  \E p \in Pages :
    /\ TouchRead(p)
    /\ IF p % Interval = 0 /\ Display = "Tui"
       THEN Progress(p, touched + 1)
       ELSE UNCHANGED <<tuiVars, reported, stats>>

\* mlock of the whole mapping, or its error.
ExecuteMlock ==
  \/ pc = "mlock" /\ Fail
  \/ /\ Proceed("mlock", "measure")
     /\ cache' = Pages /\ mlocked' = Pages
     /\ UNCHANGED <<tuiVars, snapshot, after, todo, touched, reported, stats, read>>

-----------------------------------------------------------------------------
\* The residency afterwards: as sampled, assumed, or sampled again.
Measure ==
  \/ /\ pc = "measure" /\ Effect = "EvictAdvisory" /\ Fail
  \/ /\ Proceed("measure", "report")
     /\ after' = CASE Effect = "Preserve"      -> snapshot
                   [] Effect = "Populate"      -> Pages
                   [] Effect = "EvictAdvisory" -> cache
     /\ UNCHANGED <<kernelVars, tuiVars, snapshot, todo, touched, reported, stats, read>>

Minus(m, n) == IF m > n THEN m - n ELSE 0

\* ResidencyEffect::action_pages.
ActionPages(b, a) ==
  CASE Effect = "Preserve"      -> 0
    [] Effect = "Populate"      -> Minus(a, b)
    [] Effect = "EvictAdvisory" -> Minus(b, a)

\* Only an operation that locks has an output with the mapping in it.
KeepsMapping == Op = "Lock"

\* Mutant of ReportTui: what the progress callback counted is added again.
ReportTuiTwice ==
  /\ Display = "Tui" /\ pc = "report"
  /\ stats' = [stats EXCEPT !.action = @ + ActionPages(Cardinality(snapshot), Cardinality(after))]
  /\ view' = IF Effect = "Preserve" THEN view ELSE after
  /\ events' = events \o (IF Effect = "Preserve" THEN <<"done">> ELSE <<"residency", "done">>)
  /\ Return("output", KeepsMapping)
  /\ UNCHANGED <<cache, cancelled, snapshot, after, todo, touched, reported, read>>

\* The flush of the rest, the residency afterwards, FileDone.
ReportTui ==
  /\ Display = "Tui" /\ pc = "report"
  /\ stats' = [stats EXCEPT !.action =
                 @ + Minus(ActionPages(Cardinality(snapshot), Cardinality(after)), reported)]
  /\ view' = IF Effect = "Preserve" THEN view ELSE after
  /\ events' = events \o (IF Effect = "Preserve" THEN <<"done">> ELSE <<"residency", "done">>)
  /\ Return("output", KeepsMapping)
  /\ UNCHANGED <<cache, cancelled, snapshot, after, todo, touched, reported, read>>

\* Mutant of ReportCli: the output does not keep the mapping alive.
ReportCliDropsMapping ==
  /\ Display = "Cli" /\ pc = "report"
  /\ stats' = [files |-> 1, total |-> NPages, initial |-> Cardinality(snapshot),
               action |-> ActionPages(Cardinality(snapshot), Cardinality(after))]
  /\ Return("output", FALSE)
  /\ UNCHANGED <<cache, cancelled, tuiVars, snapshot, after, todo, touched, reported, read>>

\* cli_record_stats.
ReportCli ==
  /\ Display = "Cli" /\ pc = "report"
  /\ stats' = [files |-> 1, total |-> NPages, initial |-> Cardinality(snapshot),
               action |-> ActionPages(Cardinality(snapshot), Cardinality(after))]
  /\ Return("output", KeepsMapping)
  /\ UNCHANGED <<cache, cancelled, tuiVars, snapshot, after, todo, touched, reported, read>>

-----------------------------------------------------------------------------
Execute == ExecuteQuery \/ ExecuteEvict \/ TouchBegin \/ TouchCheck \/ TouchPage \/ ExecuteMlock

Worker == CliCheck \/ Prepare \/ Sample \/ Announce \/ TuiCheck \/ Execute \/ Measure
            \/ ReportTui \/ ReportCli

\* A locked output outlives process_one; the kernel goes on beside it.
Next == (Worker \/ Cancel \/ Reclaim \/ ReadIn) /\ UNCHANGED job

Spec == Init /\ [][Next]_vars

-----------------------------------------------------------------------------
\* Every variable stays in its type.
TypeOK ==
  /\ job \in [op : Ops, display : Displays]
  /\ {cache, mlocked, snapshot, after, todo, read, view} \subseteq SUBSET Pages
  /\ {cancelled, mapped, held} \subseteq BOOLEAN
  /\ pc \in {"check", "prepare", "sample", "announce", "recheck", "execute", "walk", "read",
            "mlock", "measure", "report", "returned"}
  /\ touched \in 0 .. NPages /\ reported \in 0 .. NPages
  /\ stats \in [files : 0 .. 1, total : 0 .. NPages, initial : 0 .. NPages, action : 0 .. NPages]
  /\ \A i \in DOMAIN events : events[i] \in {"start", "progress", "residency", "done"}
  /\ result \in {"pending", "output", "none", "error"}

\* What a reader of the live counters may rely on at every instant, partial
\* reports of the walk and failed files included: the pages acted on never
\* exceed the pages there were to act on, missing ones for an operation that
\* populates, resident ones for one that evicts, none for a query.
StatsBounded ==
  /\ Effect = "Populate"      => stats.initial + stats.action <= stats.total
  /\ Effect = "EvictAdvisory" => stats.action <= stats.initial
  /\ Effect = "Preserve"      => stats.action = 0

\* Once a file is done its counters say what its samples say: what progress
\* added along the way and what the end flushed make the total, once.
StatsSettle ==
  result = "output" =>
    stats = [files |-> 1, total |-> NPages, initial |-> Cardinality(snapshot),
             action |-> ActionPages(Cardinality(snapshot), Cardinality(after))]

\* The residency the TUI shows for a file being populated is one that was
\* sampled or read, page by page: progress does not run ahead of the walk,
\* and the "all resident" reported at the end is not shown after a walk that
\* was cut short.
ProgressIsHonest ==
  Effect = "Populate" => view \subseteq snapshot \cup read

\* Counting the events of a kind.
Sent(kind) == Cardinality({i \in DOMAIN events : events[i] = kind})

\* Each file the TUI hears of is opened once, first, and closed once, last,
\* on every way out of process_one; of a file that failed before its start
\* the TUI hears nothing.
EventProtocol ==
  /\ events # <<>> => events[1] = "start" /\ Sent("start") = 1
  /\ (events # <<>> /\ result # "pending") <=> (Sent("done") = 1)
  /\ Sent("done") = 1 => events[Len(events)] = "done"

\* What Lock is for: from the moment process_one hands out its output, and for
\* as long as that output is kept, every page of the range is locked and in
\* memory, whatever the kernel reclaims; and only a successful lock keeps one.
LockGuarantee ==
  /\ (Op = "Lock" /\ result = "output") => held /\ mlocked = Pages /\ Pages \subseteq cache
  /\ (~held /\ result # "pending") => mlocked = {}

\* What README.md line 128 says of touch: the walk reads every missing page
\* "to guarantee residency", that is, the pages are resident once it is over.
\* A page the sample saw is not read, and may have been reclaimed since.
TouchGuaranteesResidency ==
  (Op = "Touch" /\ result = "output") => Pages \subseteq cache
=============================================================================
