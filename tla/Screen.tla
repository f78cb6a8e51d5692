------------------------------- MODULE Screen -------------------------------
(***************************************************************************)
(* What the user sees: the workers of Mode::Tui add to the statistics and  *)
(* send their events (crates/pagers-core/src/mode.rs), the display applies *)
(* them to its list (TuiApp) and draws the files and the summary from the  *)
(* two (crates/pagers-tui/src/ui.rs, stats.rs).  The channel and the       *)
(* thread that forwards it are one queue: each keeps the order.            *)
(*                                                                         *)
(* A worker adds to the counters one by one, and a frame loads them one by *)
(* one (Relaxed): each load may be of any moment since the last event was  *)
(* handled, whatever the others are of, so a frame may have the resident   *)
(* pages of a file that it has not in its total.  No load is of a moment   *)
(* before that event, as where caches are coherent: what the worker added  *)
(* before it sent the event is seen.                                       *)
(***************************************************************************)
EXTENDS TuiApp, Integers

CONSTANTS
  Effects,      \* the effects a run may have: Preserve, Populate, EvictAdvisory
  Lens,         \* lengths of mappings, in bytes
  Samples,      \* what mincore may write, a byte for each page
  Threads,      \* how many workers there are
  Interval,     \* PROGRESS_INTERVAL
  MaxQueue,     \* bound on the events under way
  MaxWidth,     \* MAX_DISPLAY_PAGES
  PageSize, WordBits, ByteBits     \* of PageMap

INSTANCE PageMap

ASSUME ScreenAssumption ==
  /\ Effects \subseteq {"Preserve", "Populate", "EvictAdvisory"}
  /\ Lens \subseteq Nat /\ Samples \subseteq Seq(Nat)
  /\ {Threads, Interval, MaxQueue, MaxWidth, PageSize, WordBits, ByteBits} \subseteq Nat \ {0}
  /\ \A len \in Lens : VecLen(len) \in 1 .. MaxPages

VARIABLES
  effect,      \* Op::EFFECT
  work,        \* what the worker of each file has done with it
  stats,       \* Stats
  adding,      \* the counters that the worker of each file has yet to add to
  seen,        \* what the last event received lets the display see of the counters
  queue,       \* events sent and not yet handled
  closed,      \* AllDone has been sent
  flow         \* ControlFlow of the display: "continue" or "done"

screenVars == <<vars, effect, work, stats, adding, seen, queue, closed, flow>>

Idle == [at |-> "idle", len |-> 0, before |-> <<>>, after |-> <<>>, page |-> 0, reported |-> 0,
         outbox |-> <<>>]

NoStats == [files |-> 0, total |-> 0, initial |-> 0, action |-> 0]

ScreenInit ==
  /\ Init
  /\ effect \in Effects
  /\ work = [i \in Ids |-> Idle]
  /\ stats = NoStats /\ seen = NoStats
  /\ adding = [i \in Ids |-> {}]
  /\ queue = <<>> /\ closed = FALSE
  /\ flow = "continue"

Working == {i \in Ids : work[i].at = "walk" \/ work[i].outbox # <<>>}
Minus(m, n) == IF m > n THEN m - n ELSE 0
Count(map) == CountFilled(map, 0, Len(map))

\* ResidencyEffect::action_pages.
ActionPages(before, after) ==
  CASE effect = "Preserve"      -> 0
    [] effect = "Populate"      -> Minus(after, before)
    [] effect = "EvictAdvisory" -> Minus(before, after)

-----------------------------------------------------------------------------
\* mincore::residency of len bytes.
Probed(len) == {s \in Samples : Len(s) = VecLen(len)}

\* Mutant of TotalPages: the page that the mapping ends in is not counted.
TotalPagesFull(len) == len \div PageSize

\* PreparedFile::total_pages.
TotalPages(len) == (len + PageSize - 1) \div PageSize

\* The file is sampled, to be counted in the totals and announced.
Announce(i) ==
  /\ work[i] = Idle /\ ~closed /\ Cardinality(Working) < Threads
  /\ \E len \in Lens : \E bytes \in Probed(len) :
       LET residency == FromResidencyBytes(bytes)
       IN  work' = [work EXCEPT ![i] = [Idle EXCEPT
                      !.at = "walk", !.len = len, !.before = bytes,
                      !.outbox = <<[kind |-> "start", id |-> i, total |-> TotalPages(len),
                                    residency |-> residency]>>]]
  /\ adding' = [adding EXCEPT ![i] = {"files", "total", "initial"}]
  /\ UNCHANGED <<vars, effect, stats, seen, queue, closed, flow>>

\* One of the three fetch_adds, in the order of the code.
Amount(i) ==
  [files |-> 1, total |-> TotalPages(work[i].len),
   initial |-> Count(FromResidencyBytes(work[i].before))]

Add(i) ==
  /\ \E k \in adding[i] :
       /\ k = "total" => "files" \notin adding[i]
       /\ k = "initial" => "total" \notin adding[i]
       /\ stats' = [stats EXCEPT ![k] = @ + Amount(i)[k]]
       /\ adding' = [adding EXCEPT ![i] = @ \ {k}]
  /\ UNCHANGED <<vars, effect, work, seen, queue, closed, flow>>

\* The walk of an operation that populates: the pages the sample missed.
Missing(i, upto) == {p \in 1 .. upto : work[i].before[p] = 0}
Due(i) == {p \in Missing(i, TotalPages(work[i].len)) : p > work[i].page /\ p % Interval = 0}
Between(i) == work[i].at = "walk" /\ work[i].outbox = <<>>

\* on_progress: what is new is added, and all pages up to this one are shown.
Report(i) ==
  /\ Between(i) /\ effect = "Populate"
  /\ \E p \in Due(i) :
       LET touched == Cardinality(Missing(i, p))
       IN  /\ \A q \in Due(i) : p <= q
           /\ stats' = [stats EXCEPT !.action = @ + Minus(touched, work[i].reported)]
           /\ work' = [work EXCEPT
                 ![i].page = p, ![i].reported = touched,
                 ![i].outbox = <<[kind |-> "progress", id |-> i, offset |-> 0, count |-> p,
                                  resident |-> TRUE]>>]
  /\ UNCHANGED <<vars, effect, adding, seen, queue, closed, flow>>

\* send_residency, after an operation that changes any.
ResidencyEvents(i, map) ==
  IF effect = "Preserve" THEN <<>>
  ELSE LET runs == Runs(map)
       IN  [n \in DOMAIN runs |->
              [kind |-> "progress", id |-> i, offset |-> runs[n].offset, count |-> runs[n].count,
               resident |-> runs[n].resident]]

\* What the pages are after the operation, as full_process_file has it: as
\* sampled, all resident by assumption, or as mincore says once more.
Afterwards(i) ==
  LET before == work[i].before
  IN  CASE effect = "Preserve"      -> {before}
        [] effect = "Populate"      -> {[p \in DOMAIN before |-> 1]}
        [] effect = "EvictAdvisory" -> Probed(work[i].len)

MapAfter(bytes) ==
  IF effect = "Populate" THEN Repeated(TRUE, Len(bytes)) ELSE FromResidencyBytes(bytes)

\* Mutant of Finish: the end is sent before the map.
FinishEndsFirst(i) ==
  /\ Between(i) /\ (effect = "Populate" => Due(i) = {})
  /\ \E after \in Afterwards(i) :
       /\ stats' = [stats EXCEPT !.action =
                      @ + Minus(ActionPages(Count(FromResidencyBytes(work[i].before)),
                                            Count(MapAfter(after))),
                                work[i].reported)]
       /\ work' = [work EXCEPT
             ![i].at = "output", ![i].after = after,
             ![i].outbox = <<[kind |-> "done", id |-> i]>> \o ResidencyEvents(i, MapAfter(after))]
  /\ UNCHANGED <<vars, effect, adding, seen, queue, closed, flow>>

\* The operation succeeded: the rest of its action, the map, the end.
Finish(i) ==
  /\ Between(i) /\ (effect = "Populate" => Due(i) = {})
  /\ \E after \in Afterwards(i) :
       /\ stats' = [stats EXCEPT !.action =
                      @ + Minus(ActionPages(Count(FromResidencyBytes(work[i].before)),
                                            Count(MapAfter(after))),
                                work[i].reported)]
       /\ work' = [work EXCEPT
             ![i].at = "output", ![i].after = after,
             ![i].outbox = ResidencyEvents(i, MapAfter(after)) \o <<[kind |-> "done", id |-> i]>>]
  /\ UNCHANGED <<vars, effect, adding, seen, queue, closed, flow>>

\* It failed, or was cancelled: only the end.
Fail(i) ==
  /\ Between(i)
  /\ work' = [work EXCEPT ![i].at = "error", ![i].outbox = <<[kind |-> "done", id |-> i]>>]
  /\ UNCHANGED <<vars, effect, stats, adding, seen, queue, closed, flow>>

\* Mutant of Send: a file is announced before it is counted.
SendTooSoon(i) ==
  /\ work[i].outbox # <<>> /\ Len(queue) < MaxQueue
  /\ queue' = Append(queue, Head(work[i].outbox))
  /\ work' = [work EXCEPT ![i].outbox = Tail(@)]
  /\ UNCHANGED <<vars, effect, stats, adding, seen, closed, flow>>

\* sink.send, and the forwarding thread behind it.
Send(i) ==
  /\ work[i].outbox # <<>> /\ adding[i] = {} /\ Len(queue) < MaxQueue
  /\ queue' = Append(queue, Head(work[i].outbox))
  /\ work' = [work EXCEPT ![i].outbox = Tail(@)]
  /\ UNCHANGED <<vars, effect, stats, adding, seen, closed, flow>>

\* Every file was worked on or skipped, and Tui::finish ends the events.  A file
\* that is skipped, or fails before it is announced, leaves no trace here.
AllDone ==
  /\ Working = {} /\ ~closed
  /\ Len(queue) < MaxQueue
  /\ closed' = TRUE
  /\ queue' = Append(queue, [kind |-> "alldone"])
  /\ UNCHANGED <<vars, effect, work, stats, adding, seen, flow>>

-----------------------------------------------------------------------------
\* App::handle_event of the next event; what its sender did before is seen.
Handle ==
  /\ queue # <<>> /\ flow = "continue"
  /\ LET e == Head(queue)
     IN  CASE e.kind = "start"    -> /\ Start(e.id, e.total, Filled(e.residency))
                                     /\ UNCHANGED flow
           [] e.kind = "progress" -> /\ Progress(e.id, e.offset, e.count, e.resident)
                                     /\ UNCHANGED flow
           [] e.kind = "done"     -> Done(e.id) /\ UNCHANGED flow
           [] e.kind = "alldone"  -> flow' = "done" /\ UNCHANGED vars
  /\ queue' = Tail(queue)
  /\ seen' = stats
  /\ UNCHANGED <<effect, work, stats, adding, closed>>

Worker(i) == Announce(i) \/ Add(i) \/ Report(i) \/ Finish(i) \/ Fail(i) \/ Send(i)

\* The display has drawn its last frame.
Finished == flow = "done" /\ UNCHANGED screenVars

ScreenNext == (\E i \in Ids : Worker(i)) \/ AllDone \/ Handle \/ Finished

ScreenSpec == ScreenInit /\ [][ScreenNext]_screenVars

-----------------------------------------------------------------------------
\* What the loads of one frame may return.
Readings ==
  {[files |-> f, total |-> t, initial |-> n, action |-> a] :
     f \in seen.files .. stats.files, t \in seen.total .. stats.total,
     n \in seen.initial .. stats.initial, a \in seen.action .. stats.action}

\* Summary::from_stats, in pages.
Summary(read) ==
  [files |-> read.files, total |-> read.total, action |-> read.action,
   resident |-> CASE effect = "Preserve"      -> read.initial
                  [] effect = "Populate"      -> read.initial + read.action
                  [] effect = "EvictAdvisory" -> Minus(read.initial, read.action)]

\* pct_line; a percentage of nothing is left out.
Share(pages, total) ==
  [pages |-> pages, of |-> total,
   percent |-> IF total > 0 THEN {(100 * pages) \div total} ELSE {}]

\* SummaryWidget: the action has a row where there is one.
SummaryRows(read) ==
  LET summary == Summary(read)
  IN  [files |-> summary.files, resident |-> Share(summary.resident, summary.total),
       action |-> IF effect = "Preserve" THEN {} ELSE {Share(summary.action, summary.total)}]

MapOf(f) == [p \in 1 .. f.total |-> p \in f.residency]

Buckets(f) == Bucketize(MapOf(f), IF f.total < MaxWidth THEN f.total ELSE MaxWidth)

\* FileRowWidget: the mark of a file that is done and all in memory, the
\* histogram, the counter.
Row(f) ==
  [mark    |-> f.done /\ f.total > 0 /\ f.resident = f.total,
   cells   |-> LET buckets == Buckets(f) IN [k \in DOMAIN buckets |-> Cell(buckets[k])],
   counter |-> <<f.resident, f.total>>]

\* RenderContext::render: the rows of a frame, and, as it loads the counters
\* once, the summary of what it has read.
Rows == LET shown == Visible(MaxDisplay) IN [n \in DOMAIN shown |-> Row(shown[n])]

-----------------------------------------------------------------------------
\* Every event meets its file, which handle_event does not check: a start is the
\* first of its file, everything else finds the file in the list and not done,
\* and when AllDone comes every file that was announced is done.
EventsMeetTheirFiles ==
  queue # <<>> =>
    LET e == Head(queue)
    IN  /\ e.kind = "start" => e.id \notin running /\ \A f \in finished : f.id # e.id
        /\ e.kind \in {"progress", "done"} => e.id \in running
        /\ e.kind = "alldone" =>
             running = {} /\ {f.id : f \in finished} = {i \in Ids : work[i].at # "idle"}

PagesOf(bytes) == {p \in DOMAIN bytes : bytes[p] # 0}

\* The map of every row is that of its file, after the packing into words, the
\* runs in which it is sent, the interleaving with other files' events and the
\* removals from the list: what the sample said until the operation is done, with
\* what a walk has read; at the end exactly what was sampled last.  The count
\* beside it is the map's.
MapsAreTrue ==
  /\ CountsAgree
  /\ \A n \in DOMAIN files :
       LET f == files[n]
           w == work[f.id]
       IN  /\ f.total = Len(w.before)
           /\ f.done /\ w.at = "output" => f.residency = PagesOf(w.after)
           /\ f.done /\ w.at = "error" => f.residency = PagesOf(w.before) \cup 1 .. w.page
           /\ ~f.done /\ effect = "Populate" =>
                PagesOf(w.before) \subseteq f.residency

SumOf(f) == FoldFunction(LAMBDA m, n : m + n, 0, f)
\* The files that were sampled, counted or still to be.
Announced == {i \in Ids : work[i].at # "idle"}

\* What the run has left in memory of one file, as far as the program can know.
Left(i) ==
  LET before == Cardinality(PagesOf(work[i].before))
      after  == Cardinality(PagesOf(work[i].after))
  IN  CASE work[i].at = "output" -> IF effect = "EvictAdvisory" /\ before < after THEN before
                                    ELSE after
        [] OTHER -> before + work[i].reported

\* The summary adds up, whatever the workers add between two loads: every frame
\* has at least every row's pages in its totals, and no more resident than there
\* are pages in the files begun, which need not be those it has loaded as total;
\* the last frame is the sum of what was left of each file, and the rows, where
\* none was removed, show no less.
SummaryIsTrue ==
  LET listed == SumOf([n \in DOMAIN files |-> files[n].total])
      drawn  == SumOf([n \in DOMAIN Rows |-> Rows[n].counter[2]])
      pages  == SumOf([i \in Announced |-> Len(work[i].before)])
      left   == SumOf([i \in Announced |-> Left(i)])
  IN  \A read \in Readings :
        LET summary  == SummaryRows(read)
            resident == summary.resident.pages
            total    == summary.resident.of
        IN  /\ listed <= total /\ drawn <= total /\ Len(files) <= summary.files
            /\ resident <= pages
            /\ flow = "done" =>
                 /\ summary.files = Cardinality(Announced)
                 /\ total = pages
                 /\ resident = left
                 /\ Len(files) = summary.files =>
                      SumOf([n \in DOMAIN files |-> files[n].resident]) >= resident

\* A histogram gives every page its share: the buckets cover the map once and
\* differ by one page at most, a cell is full or empty exactly when all or none of
\* its pages are in memory, and a file has its mark only when all are.
Fair(f) ==
  LET row     == Row(f)
      buckets == Buckets(f)
  IN  /\ Len(row.cells) <= MaxWidth
      /\ SumOf([k \in DOMAIN buckets |-> buckets[k].cached]) = Cardinality(f.residency)
      /\ SumOf([k \in DOMAIN buckets |-> buckets[k].total]) = f.total
      /\ \A k, l \in DOMAIN buckets : buckets[k].total <= buckets[l].total + 1
      /\ (\A k \in DOMAIN row.cells : row.cells[k] = "#") <=> f.residency = 1 .. f.total
      /\ (\A k \in DOMAIN row.cells : row.cells[k] = " ") <=> f.residency = {}
      /\ row.mark <=> f.done /\ f.residency = 1 .. f.total

\* Every row that is shown is fair to its file.
BucketsAreFair ==
  LET shown == Visible(MaxDisplay)
  IN  \A n \in DOMAIN shown : Fair(shown[n])
=============================================================================
