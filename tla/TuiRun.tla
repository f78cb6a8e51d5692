------------------------------- MODULE TuiRun -------------------------------
(***************************************************************************)
(* run_tui: the crawl on the main thread, the terminal on another, and     *)
(* the three threads between them (crates/pagers-cli/src/runop.rs,         *)
(* crates/pagers-tui/src/lib.rs and event.rs).                             *)
(*                                                                         *)
(* Core events go through two channels, the crawl's and the TUI's; Quit    *)
(* joins them in the second one, sent by a thread that waits for the       *)
(* token.  What the crawl does is in WorkerPool, what an event does to the *)
(* display is in TuiApp: here a file event is counted.                     *)
(*                                                                         *)
(* run_tui does not always return: thread::scope in the crawl may panic,   *)
(* and the main thread then unwinds through it and ends the process; and a *)
(* second signal ends the process from the signal thread.                  *)
(***************************************************************************)
EXTENDS Naturals, Sequences

CONSTANT MaxEvents    \* bound on the file events of the crawl

ASSUME TuiRunAssumption == MaxEvents \in Nat

VARIABLES
  main,        \* where the main thread is in run_tui
  outcome,     \* what the crawl returned: "none", "ok", "error" or "cancelled"
  result,      \* what run_tui returned: "none", "ok", "error", "cancelled", "tui", "tuipanic"
  sent,        \* file events sent by the crawl
  coreQ,       \* the channel of core events
  tuiQ,        \* the channel of TUI events
  forwarder,   \* is the forwarding thread alive
  waiter,      \* is the thread that waits for the token alive
  key,         \* is the keyboard thread alive
  tui,         \* where the TUI thread is
  flow,        \* its ControlFlow: "continue", "quit" or "done"
  raw, hidden, \* the terminal is in raw mode, its cursor is hidden
  refused,     \* history: the calls of TerminalStateGuard::drop that failed
  shown,       \* file events handled
  summary,     \* file events handled when the final summary was put on the screen
  tuiResult,   \* how pagers_tui::run ended: "none", "ok", "err" or "panic"
  cancelled,   \* the token
  asked,       \* history: the user or a signal cancelled
  signals      \* signals that the signal thread has taken, 0 or 1

mainVars == <<main, outcome, result, sent>>
termVars == <<raw, hidden, refused>>
tuiVars  == <<tui, flow, termVars, shown, summary, tuiResult>>
helpers  == <<forwarder, waiter, key>>
tokenVars == <<cancelled, asked, signals>>
vars == <<main, outcome, result, sent, coreQ, tuiQ, forwarder, waiter, key, tui, flow, raw, hidden,
          refused, shown, summary, tuiResult, cancelled, asked, signals>>

NotShown == MaxEvents + 1   \* no summary yet

\* The TUI thread has left the loop: nothing receives its events any more.
Closed == {"restore", "report", "ended", "killed"}

Init ==
  /\ main = "begin" /\ outcome = "none" /\ result = "none" /\ sent = 0
  /\ coreQ = <<>> /\ tuiQ = <<>>
  /\ forwarder = "absent" /\ waiter = "absent" /\ key = "absent"
  /\ tui = "start" /\ flow = "continue"
  /\ raw = FALSE /\ hidden = FALSE /\ refused = {}
  /\ shown = 0 /\ summary = NotShown /\ tuiResult = "none"
  /\ cancelled = FALSE /\ asked = FALSE /\ signals = 0

-----------------------------------------------------------------------------
\* The main thread.

\* Once the forwarder, which has the receiver, is gone, a send goes nowhere;
\* before it is there, the receiver is with the TUI thread, until run returns.
SendCore(e) ==
  coreQ' = IF forwarder = "gone" \/ (forwarder = "absent" /\ tui \in {"report", "ended"})
           THEN coreQ ELSE Append(coreQ, e)

\* crawl_and_process looks at the token before anything else; it then returns
\* without a word to the display.
CrawlBegin ==
  /\ main = "begin"
  /\ IF cancelled THEN main' = "join" /\ outcome' = "cancelled"
                  ELSE main' = "crawl" /\ UNCHANGED outcome
  /\ UNCHANGED <<result, sent, coreQ, tuiQ, helpers, tuiVars, tokenVars>>

\* A worker sends an event about a file.
CrawlSend ==
  /\ main = "crawl" /\ sent < MaxEvents
  /\ sent' = sent + 1
  /\ SendCore("file")
  /\ UNCHANGED <<main, outcome, result, tuiQ, helpers, tuiVars, tokenVars>>

\* The crawl's threads have been joined, with an error or without.
CrawlJoined ==
  /\ main = "crawl"
  /\ main' = "finish"
  /\ outcome' \in {"none", "error"}
  /\ UNCHANGED <<result, sent, coreQ, tuiQ, helpers, tuiVars, tokenVars>>

\* Two workers have panicked: the scope panics in its turn, display.finish() is
\* passed over, and run_tui unwinds, which drops the sender of the core events
\* and the handle of the TUI thread.
ScopePanics ==
  /\ main = "crawl"
  /\ main' = "unwound"
  /\ UNCHANGED <<outcome, result, sent, coreQ, tuiQ, helpers, tuiVars, tokenVars>>

\* The process is over, and with it every thread, wherever it is.
ProcessEnds ==
  /\ main' = "exited"
  /\ coreQ' = <<>> /\ tuiQ' = <<>>
  /\ forwarder' = "gone" /\ waiter' = "gone" /\ key' = "gone"
  /\ tui' = IF tui = "ended" THEN tui ELSE "killed"
  /\ UNCHANGED <<outcome, result, sent, flow, termVars, shown, summary, tuiResult, tokenVars>>

\* The panic leaves main.
UnwindEnds == main = "unwound" /\ ProcessEnds

\* Mutant of CrawlFinish: a failed crawl does not say that it is over.
CrawlFinishOnSuccess ==
  /\ main = "finish"
  /\ main' = "check"
  /\ IF outcome = "error" THEN UNCHANGED coreQ ELSE SendCore("alldone")
  /\ UNCHANGED <<outcome, result, sent, tuiQ, helpers, tuiVars, tokenVars>>

\* Mutant of CrawlFinish: AllDone takes a shorter way than the file events.
CrawlFinishOvertakes ==
  /\ main = "finish"
  /\ main' = "check"
  /\ tuiQ' = IF forwarder = "absent" \/ tui \in Closed THEN tuiQ ELSE Append(tuiQ, "alldone")
  /\ UNCHANGED <<outcome, result, sent, coreQ, helpers, tuiVars, tokenVars>>

\* display.finish(), whatever the outcome.
CrawlFinish ==
  /\ main = "finish"
  /\ main' = "check"
  /\ SendCore("alldone")
  /\ UNCHANGED <<outcome, result, sent, tuiQ, helpers, tuiVars, tokenVars>>

\* An error of the workers goes first, then the token is looked at.
CrawlReturns ==
  /\ main = "check"
  /\ main' = "join"
  /\ outcome' = CASE outcome = "error" -> "error"
                  [] outcome # "error" /\ cancelled -> "cancelled"
                  [] OTHER -> "ok"
  /\ UNCHANGED <<result, sent, coreQ, tuiQ, helpers, tuiVars, tokenVars>>

\* The TUI thread is joined; its failure hides the crawl's result.
Join ==
  /\ main = "join" /\ tui = "ended"
  /\ main' = "returned"
  /\ result' = CASE tuiResult = "panic" -> "tuipanic"
                 [] tuiResult = "err"   -> "tui"
                 [] tuiResult = "ok"    -> outcome
  /\ UNCHANGED <<outcome, sent, coreQ, tuiQ, helpers, tuiVars, tokenVars>>

-----------------------------------------------------------------------------
\* The threads in between.

\* The forwarder moves an event from one channel to the other.  It ends when
\* either is closed at its far end.
Forward ==
  /\ forwarder = "alive"
  /\ \/ /\ coreQ # <<>> /\ tui \notin Closed
        /\ coreQ' = Tail(coreQ)
        /\ tuiQ' = Append(tuiQ, Head(coreQ))
        /\ UNCHANGED forwarder
     \/ /\ \/ coreQ # <<>> /\ tui \in Closed
           \/ coreQ = <<>> /\ main \in {"returned", "unwound"}
        /\ forwarder' = "gone" /\ coreQ' = <<>>
        /\ UNCHANGED tuiQ
  /\ UNCHANGED <<mainVars, waiter, key, tuiVars, tokenVars>>

\* Mutant of WaiterWakes: the quit is not sent.
WaiterWakesSilently ==
  /\ waiter = "alive" /\ cancelled
  /\ waiter' = "gone"
  /\ UNCHANGED <<mainVars, coreQ, tuiQ, forwarder, key, tuiVars, tokenVars>>

\* cancellation.wait() returns and Quit is sent.
WaiterWakes ==
  /\ waiter = "alive" /\ cancelled
  /\ waiter' = "gone"
  /\ tuiQ' = IF tui \in Closed THEN tuiQ ELSE Append(tuiQ, "quit")
  /\ UNCHANGED <<mainVars, coreQ, forwarder, key, tuiVars, tokenVars>>

\* q or Ctrl-C.
KeyQuits ==
  /\ key = "alive"
  /\ key' = "gone"
  /\ cancelled' = TRUE /\ asked' = TRUE
  /\ UNCHANGED <<mainVars, coreQ, tuiQ, forwarder, waiter, tuiVars, signals>>

\* Its loop sees, within a poll, that somebody else cancelled.
KeyLeaves ==
  /\ key = "alive" /\ cancelled
  /\ key' = "gone"
  /\ UNCHANGED <<mainVars, coreQ, tuiQ, forwarder, waiter, tuiVars, tokenVars>>

\* The signal thread of the command line: the first signal cancels ...
Signal ==
  /\ main # "exited" /\ signals = 0
  /\ signals' = 1
  /\ cancelled' = TRUE /\ asked' = TRUE
  /\ UNCHANGED <<mainVars, coreQ, tuiQ, helpers, tuiVars>>

\* ... and the second calls process::exit, which runs no destructor.
SecondSignal ==
  /\ main \notin {"returned", "exited"} /\ signals = 1
  /\ ProcessEnds

-----------------------------------------------------------------------------
\* The TUI thread.

\* pagers_tui::run is left, by a return or a panic: the channel of its events
\* goes first, then the terminal guard.
TuiCloses(how) ==
  /\ tui' = "restore" /\ tuiResult' = how
  /\ tuiQ' = <<>>

\* TerminalStateGuard::drop shows the cursor and leaves raw mode; that either
\* call fails is ignored.
TuiRestore ==
  /\ tui = "restore"
  /\ tui' = "report"
  /\ \E failed \in SUBSET {"show", "disable"} :
       /\ refused' = failed
       /\ hidden' = (hidden /\ "show" \in failed)
       /\ raw' = (raw /\ "disable" \in failed)
  /\ UNCHANGED <<mainVars, coreQ, tuiQ, helpers, flow, shown, summary, tuiResult, tokenVars>>

\* The closure of run_tui cancels when run returned an error; a panic passes it by.
TuiReport ==
  /\ tui = "report"
  /\ tui' = "ended"
  /\ cancelled' = (cancelled \/ tuiResult = "err")
  /\ UNCHANGED <<mainVars, coreQ, tuiQ, helpers, flow, termVars, shown, summary, tuiResult, asked,
                 signals>>

\* enable_raw_mode; there is no guard when it fails.
TuiStart ==
  /\ tui = "start"
  /\ \/ tui' = "setup" /\ raw' = TRUE /\ UNCHANGED tuiResult
     \/ tui' = "report" /\ tuiResult' = "err" /\ UNCHANGED raw
  /\ UNCHANGED <<mainVars, coreQ, tuiQ, helpers, flow, hidden, refused, shown, summary, tokenVars>>

\* Mutant of TuiSetup: the guard is made when all of the terminal is set up.
TuiSetupUnguarded ==
  /\ tui = "setup"
  /\ \/ tui' = "spawn" /\ hidden' = TRUE /\ UNCHANGED tuiResult
     \/ tui' = "report" /\ tuiResult' = "err" /\ hidden' \in BOOLEAN
  /\ UNCHANGED <<mainVars, coreQ, tuiQ, helpers, flow, raw, refused, shown, summary, tokenVars>>

\* The rest of TerminalGuard::new: Hide, then Terminal::with_options.  Either may
\* fail, with the cursor hidden or not.
TuiSetup ==
  /\ tui = "setup"
  /\ \/ tui' = "spawn" /\ hidden' = TRUE /\ UNCHANGED <<tuiQ, tuiResult>>
     \/ TuiCloses("err") /\ hidden' \in BOOLEAN
  /\ UNCHANGED <<mainVars, coreQ, helpers, flow, raw, refused, shown, summary, tokenVars>>

\* spawn_event_threads: thread::spawn panics when there is no thread to be had,
\* and the threads before it stay.
TuiSpawn ==
  /\ tui = "spawn"
  /\ \/ /\ tui' = "recv"
        /\ waiter' = "alive" /\ key' = "alive" /\ forwarder' = "alive"
        /\ UNCHANGED <<tuiQ, tuiResult>>
     \/ /\ TuiCloses("panic")
        /\ \/ UNCHANGED <<waiter, key>>
           \/ waiter' = "alive" /\ key' \in {"absent", "alive"}
        /\ UNCHANGED forwarder
  /\ UNCHANGED <<mainVars, coreQ, flow, termVars, shown, summary, tokenVars>>

\* App::handle_event, as far as the flow is concerned.
Handle ==
  /\ tuiQ' = Tail(tuiQ)
  /\ shown' = IF Head(tuiQ) = "file" THEN shown + 1 ELSE shown
  /\ flow' = CASE Head(tuiQ) = "file"    -> "continue"
               [] Head(tuiQ) = "alldone" -> "done"
               [] Head(tuiQ) = "quit"    -> "quit"

\* recv_timeout: an event, the end of a frame, or a channel that every sender
\* has left, which ends the loop.
TuiReceive ==
  /\ tui = "recv"
  /\ \/ tuiQ # <<>> /\ Handle /\ tui' = "drain"
     \/ /\ tuiQ = <<>>
        /\ IF waiter = "gone" /\ forwarder = "gone"
           THEN tui' = "leave" /\ flow' = "quit"
           ELSE tui' = "drain" /\ flow' = "continue"
        /\ UNCHANGED <<tuiQ, shown>>
  /\ UNCHANGED <<mainVars, coreQ, helpers, termVars, summary, tuiResult, tokenVars>>

\* drain_events: until the channel is empty or an event ends the run.
TuiDrain ==
  /\ tui = "drain"
  /\ IF flow = "continue" /\ tuiQ # <<>>
     THEN Handle /\ UNCHANGED tui
     ELSE tui' = "draw" /\ UNCHANGED <<tuiQ, shown, flow>>
  /\ UNCHANGED <<mainVars, coreQ, helpers, termVars, summary, tuiResult, tokenVars>>

\* A frame is drawn, and the loop goes on or ends; drawing may fail or panic.
TuiDraw ==
  /\ tui = "draw"
  /\ \/ TuiCloses("err") \/ TuiCloses("panic")
     \/ /\ tui' = IF flow = "continue" THEN "recv" ELSE "leave"
        /\ UNCHANGED <<tuiQ, tuiResult>>
  /\ UNCHANGED <<mainVars, coreQ, helpers, flow, termVars, shown, summary, tokenVars>>

\* Mutant of TuiLeave: the end of the loop always cancels.
TuiLeaveCancels ==
  /\ tui = "leave"
  /\ TuiCloses("ok")
  /\ summary' = IF flow = "done" THEN shown ELSE summary
  /\ cancelled' = TRUE
  /\ UNCHANGED <<mainVars, coreQ, helpers, flow, termVars, shown, asked, signals>>

\* Quit cancels; Done leaves the summary on the screen, unless insert_before
\* fails, which is ignored.
TuiLeave ==
  /\ tui = "leave"
  /\ TuiCloses("ok")
  /\ IF flow = "done" THEN summary' \in {shown, summary} ELSE UNCHANGED summary
  /\ cancelled' = (cancelled \/ flow = "quit")
  /\ UNCHANGED <<mainVars, coreQ, helpers, flow, termVars, shown, asked, signals>>

-----------------------------------------------------------------------------
Main ==
  \/ CrawlBegin \/ CrawlSend \/ CrawlJoined \/ CrawlFinish \/ CrawlReturns \/ Join
  \/ ScopePanics

Tui ==
  \/ TuiStart \/ TuiSetup \/ TuiSpawn
  \/ TuiReceive \/ TuiDrain \/ TuiDraw \/ TuiLeave
  \/ TuiRestore \/ TuiReport

Next ==
  \/ Main \/ Tui \/ Forward \/ WaiterWakes \/ KeyLeaves \/ KeyQuits \/ Signal
  \/ UnwindEnds \/ SecondSignal

\* Every thread is scheduled; nobody has to quit, and a crawl may hang in the
\* kernel, reading or locking the pages of a slow disk.
Spec ==
  /\ Init /\ [][Next]_vars
  /\ WF_vars(CrawlBegin \/ CrawlFinish \/ CrawlReturns \/ Join \/ UnwindEnds)
  /\ WF_vars(Tui)
  /\ WF_vars(Forward) /\ WF_vars(WaiterWakes) /\ WF_vars(KeyLeaves)

-----------------------------------------------------------------------------
\* Every variable stays in its type.
TypeOK ==
  /\ main \in {"begin", "crawl", "finish", "check", "join", "returned", "unwound", "exited"}
  /\ outcome \in {"none", "ok", "error", "cancelled"}
  /\ result \in {"none", "ok", "error", "cancelled", "tui", "tuipanic"}
  /\ sent \in 0 .. MaxEvents /\ shown \in 0 .. MaxEvents /\ summary \in 0 .. NotShown
  /\ \A i \in DOMAIN coreQ : coreQ[i] \in {"file", "alldone"}
  /\ \A i \in DOMAIN tuiQ : tuiQ[i] \in {"file", "alldone", "quit"}
  /\ {forwarder, waiter, key} \subseteq {"absent", "alive", "gone"}
  /\ tui \in {"start", "setup", "spawn", "recv", "drain", "draw", "leave"} \cup Closed
  /\ flow \in {"continue", "quit", "done"} /\ tuiResult \in {"none", "ok", "err", "panic"}
  /\ {raw, hidden, cancelled, asked} \subseteq BOOLEAN
  /\ refused \subseteq {"show", "disable"} /\ signals \in {0, 1}

\* The summary that stays on the screen is of the whole run: AllDone goes
\* through the same two channels as the file events and overtakes none.
SummaryIsComplete == summary # NotShown => summary = sent

\* When run_tui returns, whatever it returns, the terminal is as it was found:
\* also after a set-up that failed half-way, a failed frame, a panic of the display
\* and a crawl that ended before the display had started.  What the guard
\* could not undo is what the terminal itself refused.  Nothing is said of a
\* process that ends inside run_tui, by a second signal or because the scope of the
\* workers panicked: no code waits for the guard then, and raw mode may stay.
TerminalIsRestored ==
  main = "returned" => (raw => "disable" \in refused) /\ (hidden => "show" \in refused)

\* Only the user, a signal or a broken terminal cancels: in particular the end
\* of the display does not cancel the hold that follows it for lock and lockall.
CancelHasCause == cancelled => asked \/ tuiResult = "err"

\* run_tui comes to an end, whatever becomes of the display: unless the crawl
\* hangs for ever it returns, the TUI thread that it joins having heard of an
\* end, or the process is over, by the panic of a scope or a second signal.
RunEnds == <>(main \in {"returned", "exited"}) \/ <>[](main = "crawl")

\* A cancellation, by whomever, closes the display and ends the threads that
\* watch for it, without waiting for the crawl to notice.
CancelClosesDisplay ==
  cancelled ~> (tui \in {"ended", "killed"} /\ {waiter, key} \subseteq {"absent", "gone"})
=============================================================================
