------------------------------- MODULE Daemon -------------------------------
(***************************************************************************)
(* `pagers lock` and `pagers lockall` while they hold their pages: the     *)
(* fork of --daemon, the pipe by which --wait learns how it went, the      *)
(* pidfile, the signal thread and the hand-over of the terminal            *)
(* (crates/pagers-cli/src/daemon.rs, run_daemon_command and                *)
(* run_cli_command of runop.rs, main.rs).                                  *)
(*                                                                         *)
(* "The child" is the process that holds the pages; in the foreground it   *)
(* is the only one.  The crawl is one step here: WorkerPool has it in full *)
(* and shows that it ends, and that it returns Ok only if it was not       *)
(* cancelled.  fork, pipes, signals and the file system are external,      *)
(* modelled from how the code uses them.                                   *)
(***************************************************************************)
EXTENDS Naturals

CONSTANTS
  Modes,       \* of "wait" (--daemon --wait), "nowait" (--daemon), "foreground"
  Pidfiles,    \* of TRUE, FALSE: is --pidfile given
  Signals      \* the signals of TERM_SIGNALS that may be sent

ASSUME DaemonAssumption ==
  /\ Modes \subseteq {"wait", "nowait", "foreground"}
  /\ Pidfiles \subseteq BOOLEAN

VARIABLES
  mode, wantPidfile,  \* the command line
  devnull,     \* can /dev/null be opened and put in place of the standard streams
  parent,      \* where the process the user started is
  child,       \* where the process that holds the pages is
  outcome,     \* what the child's main returned: "none", "ok" or "error"
  writers,     \* the processes with the write end of the pipe open
  pipe,        \* what is in it: "empty", "0" or "1"
  stdio,       \* where the child's standard streams lead: "terminal" or "null"
  seen,        \* error messages the child has put on the terminal
  pidfile,     \* "absent", "empty", "written", or "stuck" when it cannot be removed
  locked,      \* the locked mappings are alive
  cancelled,   \* the child's token
  pending,     \* signals the child has not taken yet
  handled      \* signals its signal thread has taken

cmdVars    == <<mode, wantPidfile, devnull>>
pipeVars   == <<writers, pipe>>
signalVars == <<cancelled, pending, handled>>
vars == <<mode, wantPidfile, devnull, parent, child, outcome, writers, pipe, stdio, seen, pidfile,
          locked, cancelled, pending, handled>>

Init ==
  /\ mode \in Modes /\ wantPidfile \in Pidfiles /\ devnull \in BOOLEAN
  /\ parent = IF mode = "foreground" THEN "none" ELSE "setup"
  /\ child = IF mode = "foreground" THEN "install" ELSE "absent"
  /\ outcome = "none"
  /\ writers = {} /\ pipe = "empty"
  /\ stdio = "terminal" /\ seen = 0
  /\ pidfile = "absent" /\ locked = FALSE
  /\ cancelled = FALSE /\ pending = {} /\ handled = 0

Gone == {"absent", "exited", "dead"}

Goto(from, to) ==
  /\ child = from
  /\ child' = to
  /\ UNCHANGED <<cmdVars, parent, signalVars>>

-----------------------------------------------------------------------------
\* The parent.

\* go_daemon: the pipe, if the parent is to wait, and the fork.  The parent
\* takes the read end out of the pair and keeps the rest of it, so that its own
\* write end stays open until go_daemon returns.
GoDaemon ==
  /\ parent = "setup"
  /\ \/ parent' = "refused" /\ UNCHANGED <<child, writers>>
     \/ /\ parent' = IF mode = "wait" THEN "waiting" ELSE "ok"
        /\ writers' = IF mode = "wait" THEN {"parent", "child"} ELSE {}
        /\ child' = "start"
  /\ UNCHANGED <<cmdVars, outcome, pipe, stdio, seen, pidfile, locked, signalVars>>

\* wait_for_child: read returns a byte, or the end of file once no process
\* has the write end.
WaitForChild ==
  /\ parent = "waiting"
  /\ pipe # "empty" \/ writers = {}
  /\ parent' = CASE pipe = "0" -> "ok" [] pipe = "1" -> "failed" [] OTHER -> "shutdown"
  /\ writers' = writers \ {"parent"}
  /\ UNCHANGED <<cmdVars, child, outcome, pipe, stdio, seen, pidfile, locked, signalVars>>

\* The user interrupts the waiting parent, which handles no signal.
KillParent ==
  /\ parent = "waiting"
  /\ parent' = "killed"
  /\ writers' = writers \ {"parent"}
  /\ UNCHANGED <<cmdVars, child, outcome, pipe, stdio, seen, pidfile, locked, signalVars>>

-----------------------------------------------------------------------------
\* The child.

\* redirect_stdio does nothing, and says nothing, when /dev/null cannot be
\* opened or put in the place of the streams.
RedirectStdio == stdio' = IF devnull THEN "null" ELSE stdio

\* A line on standard error, which the user sees or not.
Eprintln == seen' = IF stdio = "terminal" THEN seen + 1 ELSE seen

\* setsid; without a pipe to report on, the streams are redirected at once.
ChildStart ==
  /\ Goto("start", "install")
  /\ IF mode = "nowait" THEN RedirectStdio ELSE UNCHANGED stdio
  /\ UNCHANGED <<outcome, pipeVars, seen, pidfile, locked>>

\* The child's main ends: descriptors and locks go, an error is printed.
Leave(from, how) ==
  /\ Goto(from, "exited")
  /\ outcome' = how
  /\ writers' = writers \ {"child"}
  /\ locked' = FALSE
  /\ IF how = "error" THEN Eprintln ELSE UNCHANGED seen
  /\ UNCHANGED <<pipe, stdio, pidfile>>

\* install_signal_handler; its error is passed up without a word to the pipe.
Install ==
  \/ Leave("install", "error")
  \/ Goto("install", "crawl") /\ UNCHANGED <<outcome, pipeVars, stdio, seen, pidfile, locked>>

AfterCrawl == IF wantPidfile THEN "create" ELSE "notify"

\* The files are locked.  No Ok is returned once the token is cancelled.
CrawlOk ==
  /\ ~cancelled
  /\ Goto("crawl", AfterCrawl)
  /\ locked' = TRUE
  /\ UNCHANGED <<outcome, pipeVars, stdio, seen, pidfile>>

\* An error of the crawl.  The daemon prints it, then reports; the foreground
\* leaves it to main.
CrawlFails ==
  \/ /\ mode # "foreground"
     /\ Goto("crawl", "refuse")
     /\ Eprintln
     /\ UNCHANGED <<outcome, pipeVars, stdio, pidfile, locked>>
  \/ mode = "foreground" /\ Leave("crawl", "error")

\* A panic of the crawl unwinds through main, and the descriptor with it.
CrawlPanics == Leave("crawl", "error")

\* fs_err::write creates the file, then fills it; a failure in between leaves
\* an empty one.
PidfileCreate ==
  \/ /\ Goto("create", "fill")
     /\ pidfile' = "empty"
     /\ UNCHANGED <<outcome, pipeVars, stdio, seen, locked>>
  \/ /\ Goto("create", "refuse")
     /\ IF mode = "wait" THEN Eprintln ELSE UNCHANGED seen
     /\ UNCHANGED <<outcome, pipeVars, stdio, pidfile, locked>>

PidfileFill ==
  \/ /\ Goto("fill", "notify")
     /\ pidfile' = "written"
     /\ UNCHANGED <<outcome, pipeVars, stdio, seen, locked>>
  \/ /\ Goto("fill", "refuse")
     /\ IF mode = "wait" THEN Eprintln ELSE UNCHANGED seen
     /\ UNCHANGED <<outcome, pipeVars, stdio, pidfile, locked>>

\* Mutant of Notify: every report says success.
NotifyAlwaysZero(from, to, status) ==
  /\ Goto(from, to)
  /\ pipe' = IF mode = "wait" /\ parent = "waiting" THEN "0" ELSE pipe
  /\ writers' = writers \ {"child"}
  /\ UNCHANGED <<outcome, stdio, seen, pidfile, locked>>

\* Mutant of Notify: only success is reported.
NotifyOnlySuccess(from, to, status) ==
  /\ Goto(from, to)
  /\ pipe' = IF mode = "wait" /\ parent = "waiting" /\ status = "0" THEN "0" ELSE pipe
  /\ writers' = IF status = "0" THEN writers \ {"child"} ELSE writers
  /\ UNCHANGED <<outcome, stdio, seen, pidfile, locked>>

\* notify_and_redirect, its first half: the byte is written and the descriptor
\* closed.  Nobody is told when nobody waits any more.
Notify(from, to, status) ==
  /\ Goto(from, to)
  /\ pipe' = IF mode = "wait" /\ parent = "waiting" THEN status ELSE pipe
  /\ writers' = writers \ {"child"}
  /\ UNCHANGED <<outcome, stdio, seen, pidfile, locked>>

\* Mutant of Redirect: the terminal is kept.
RedirectSkipped(from, to) ==
  /\ Goto(from, to)
  /\ UNCHANGED <<outcome, pipeVars, stdio, seen, pidfile, locked>>

\* ... and its second half, for a child that had something to report on.
Redirect(from, to) ==
  /\ Goto(from, to)
  /\ IF mode = "wait" THEN RedirectStdio ELSE UNCHANGED stdio
  /\ UNCHANGED <<outcome, pipeVars, seen, pidfile, locked>>

NotifyOk       == Notify("notify", "redirect", "0")
NotifyError    == Notify("refuse", "redirectError", "1")
RedirectOk     == Redirect("redirect", "hold")
RedirectError  == Redirect("redirectError", "leave")
LeaveWithError == Leave("leave", "error")

\* Mutant of HoldEnds: the hold waits for a signal of its own.
HoldEndsOnPending ==
  /\ pending # {}
  /\ Goto("hold", IF wantPidfile THEN "remove" ELSE "leaveOk")
  /\ UNCHANGED <<outcome, pipeVars, stdio, seen, pidfile, locked>>

\* Mutant of HoldEnds: the pidfile is forgotten.
HoldEndsKeepsPidfile ==
  /\ cancelled
  /\ Goto("hold", "leaveOk")
  /\ UNCHANGED <<outcome, pipeVars, stdio, seen, pidfile, locked>>

\* cancellation.wait() returns.
HoldEnds ==
  /\ cancelled
  /\ Goto("hold", IF wantPidfile THEN "remove" ELSE "leaveOk")
  /\ UNCHANGED <<outcome, pipeVars, stdio, seen, pidfile, locked>>

\* Mutant of PidfileRemove: the locks go first.
PidfileRemoveLast ==
  /\ IF locked
     THEN /\ child = "remove" /\ locked' = FALSE
          /\ UNCHANGED <<cmdVars, parent, signalVars, child, pidfile>>
     ELSE Goto("remove", "leaveOk") /\ pidfile' = "absent" /\ UNCHANGED locked
  /\ UNCHANGED <<outcome, pipeVars, stdio, seen>>

\* An error of remove_file is ignored.
PidfileRemove ==
  /\ Goto("remove", "leaveOk")
  /\ pidfile' \in {"absent", "stuck"}
  /\ UNCHANGED <<outcome, pipeVars, stdio, seen, locked>>

LeaveOk == Leave("leaveOk", "ok")

-----------------------------------------------------------------------------
\* Signals.

Dies ==
  /\ child' = "dead"
  /\ writers' = writers \ {"child"}
  /\ locked' = FALSE
  /\ UNCHANGED <<cmdVars, parent, outcome, pipe, stdio, seen, pidfile>>

\* SIGKILL, or the kernel out of memory.
Killed ==
  /\ child \notin Gone
  /\ Dies
  /\ UNCHANGED signalVars

\* Before install_signal_handler a signal has its default effect; afterwards it
\* is remembered, once, until the signal thread takes it.
Signal(s) ==
  \/ child \in {"start", "install"} /\ Dies /\ UNCHANGED signalVars
  \/ /\ child \notin Gone \cup {"start", "install"}
     /\ pending' = pending \cup {s}
     /\ UNCHANGED <<cmdVars, parent, child, outcome, pipeVars, stdio, seen, pidfile, locked,
                    cancelled, handled>>

\* The first signal cancels, the second ends the process on the spot.
SignalThread ==
  \E s \in pending :
    /\ child \notin Gone
    /\ pending' = pending \ {s}
    /\ \/ /\ handled = 0
          /\ handled' = 1 /\ cancelled' = TRUE
          /\ UNCHANGED <<cmdVars, parent, child, outcome, pipeVars, stdio, seen, pidfile, locked>>
       \/ /\ handled = 1
          /\ Dies
          /\ UNCHANGED <<cancelled, handled>>

-----------------------------------------------------------------------------
Child ==
  \/ ChildStart \/ Install \/ CrawlOk \/ CrawlFails \/ CrawlPanics
  \/ PidfileCreate \/ PidfileFill
  \/ NotifyOk \/ NotifyError \/ RedirectOk \/ RedirectError \/ LeaveWithError
  \/ HoldEnds \/ PidfileRemove \/ LeaveOk

Next ==
  \/ GoDaemon \/ WaitForChild \/ KillParent
  \/ Child \/ SignalThread
  \/ Killed
  \/ \E s \in Signals : Signal(s)

\* The kernel schedules every thread that can run, and the crawl ends; nobody
\* has to send a signal, and nothing has to die.
Spec ==
  /\ Init /\ [][Next]_vars
  /\ WF_vars(GoDaemon) /\ WF_vars(WaitForChild)
  /\ WF_vars(Child) /\ WF_vars(SignalThread)

-----------------------------------------------------------------------------
\* Every variable stays in its type.
TypeOK ==
  /\ mode \in Modes /\ wantPidfile \in Pidfiles /\ devnull \in BOOLEAN
  /\ parent \in {"none", "setup", "refused", "waiting", "ok", "failed", "shutdown", "killed"}
  /\ child \in Gone \cup {"start", "install", "crawl", "create", "fill", "notify", "refuse",
                          "redirect", "redirectError", "leave", "hold", "remove", "leaveOk"}
  /\ outcome \in {"none", "ok", "error"}
  /\ writers \subseteq {"parent", "child"} /\ pipe \in {"empty", "0", "1"}
  /\ stdio \in {"terminal", "null"} /\ seen \in 0 .. 2
  /\ pidfile \in {"absent", "empty", "written", "stuck"} /\ locked \in BOOLEAN
  /\ cancelled \in BOOLEAN /\ pending \subseteq Signals /\ handled \in 0 .. 1

\* The status of a command that waits tells the truth.  Success: the files are
\* locked and the pidfile is there to be read, unless the daemon has been
\* stopped since.  Failure: no daemon is left that holds pages and waits for a
\* signal; the child has failed and is on its way out.
AnswerIsTrue ==
  /\ (mode = "wait" /\ parent = "ok" /\ child \notin Gone \cup {"remove", "leaveOk"})
       => locked /\ (wantPidfile => pidfile = "written")
  /\ parent = "failed"
       => child \in {"redirectError", "leave", "exited", "dead"} /\ outcome # "ok"

\* A pidfile that names a live process names one whose pages are locked: it is
\* written after the last file is locked and goes before the first is unlocked.
PidfileMeansLocked ==
  (pidfile = "written" /\ child # "dead") => locked

\* A process that left through main, whatever it returned, left no pidfile
\* with its number in it: one is left only by a process that was killed, or by a
\* directory that refuses the removal.
NoStalePidfile == child = "exited" => pidfile # "written"

\* An error reaches the terminal that is there to show it, and when the streams
\* can be redirected, exactly once: not by the daemon and again by main, and not
\* by neither; a daemon that gave the terminal up at its start shows none.  When
\* redirect_stdio fails, which nothing reports, the daemon keeps the terminal, and
\* an error that run_daemon_command or hold has printed is printed by main again.
ErrorIsShownOnce ==
  outcome = "error" =>
    CASE mode = "foreground"       -> seen = 1
      [] mode = "wait" /\ devnull   -> seen = 1
      [] mode = "nowait" /\ devnull -> seen = 0
      [] OTHER                     -> seen \in {1, 2}

\* A child that gets as far as its report, good or bad, releases the parent
\* that waits for it, unless it is killed before it has written.
WaitingIsAnswered ==
  (parent = "waiting" /\ child \in {"notify", "refuse"})
    ~> (parent # "waiting" \/ (child = "dead" /\ pipe = "empty"))

\* A signal that the handler has taken ends the hold, and with it the process,
\* in whatever phase it arrived.
SignalEndsIt == cancelled ~> (child \in Gone)

\* What main.rs lines 24-25 say of a parent whose daemon ended without a
\* report: it fails with "daemon shut down unexpectedly".
SilentDeathIsNoticed ==
  (parent = "waiting" /\ child \in {"exited", "dead"} /\ pipe = "empty")
    ~> (parent \in {"shutdown", "killed"})
=============================================================================
