---------------------------- MODULE DaemonProofs ----------------------------
(***************************************************************************)
(* Proofs about module Daemon: what the waiting parent is told is true, a  *)
(* pidfile names a process that holds its locks and is not left behind,    *)
(* and an error is shown once where the streams can be redirected.  They   *)
(* hold for every set of signals.                                          *)
(***************************************************************************)
EXTENDS Daemon, TLAPS

(* A child that has locked its files and gone on. *)
Holding == {"create", "fill", "notify", "redirect", "hold", "remove", "leaveOk"}

(* A child that has reported success or is about to. *)
Ready == {"notify", "redirect", "hold", "remove"}

(* A child that has failed and has not left. *)
Failing == {"refuse", "redirectError", "leave"}

(* The strengthening.  Where the child is says what is locked, what the       *)
(* pidfile holds and where its streams lead; the pipe and the parent's status *)
(* say how far the child has got.                                             *)
LocksInv ==
  /\ child \in Holding => locked
  /\ child \in {"create", "fill"} => wantPidfile
  /\ (wantPidfile /\ child \in Ready) => pidfile = "written"
  /\ pidfile = "written" => wantPidfile /\ child \in Ready \cup {"dead"}

PipeInv ==
  /\ parent = "setup" => child = "absent"
  /\ pipe = "0" => child \in {"redirect", "hold", "remove", "leaveOk", "exited", "dead"}
  /\ pipe = "1" => child \in {"redirectError", "leave", "exited", "dead"} /\ outcome # "ok"
  /\ (mode = "wait" /\ parent = "ok") => pipe = "0"
  /\ parent = "failed" => pipe = "1"

ScreenInv ==
  /\ child \in {"absent", "start"} => stdio = "terminal"
  /\ child \notin Failing \cup {"exited", "dead"} => seen = 0
  /\ (mode = "wait" /\ child \in Failing) => seen = 1
  /\ (mode = "nowait" /\ child \in Failing) => seen \in {0, 1} /\ (devnull => seen = 0)
  /\ (mode = "foreground" /\ child \in Failing) => seen = 0
  /\ mode = "foreground" => stdio = "terminal"
  /\ (mode = "nowait" /\ child \notin {"absent", "start", "dead"})
       => stdio = (IF devnull THEN "null" ELSE "terminal")
  /\ (mode = "wait" /\ child \in {"install", "crawl", "create", "fill", "refuse", "redirectError"})
       => stdio = "terminal"
  /\ (mode = "wait" /\ child = "leave")
       => stdio = (IF devnull THEN "null" ELSE "terminal")
  /\ (outcome # "none") <=> (child = "exited")

IInv ==
  /\ TypeOK /\ LocksInv /\ PipeInv /\ ScreenInv
  /\ ErrorIsShownOnce


-----------------------------------------------------------------------------
(* The invariant holds when the command starts. *)
LEMMA InitIInv == Init => IInv
<1> SUFFICES ASSUME Init PROVE IInv
  OBVIOUS
<1> USE DaemonAssumption DEF Init, Gone, Holding, Ready, Failing
<1>1. TypeOK
  <2>1. seen \in 0 .. 2 /\ handled \in 0 .. 1 /\ writers \subseteq {"parent", "child"}
    OBVIOUS
  <2>2. mode \in Modes /\ wantPidfile \in Pidfiles /\ pending \subseteq Signals
    OBVIOUS
  <2> QED
    BY <2>1, <2>2 DEF TypeOK
<1>2. LocksInv /\ PipeInv /\ ErrorIsShownOnce
  BY DEF LocksInv, PipeInv, ErrorIsShownOnce
<1>3. ScreenInv
  BY DEF ScreenInv
<1> QED
  BY <1>1, <1>2, <1>3 DEF IInv

(* The steps of the parent. *)
LEMMA ParentStep ==
  ASSUME IInv, GoDaemon \/ WaitForChild \/ KillParent
  PROVE  IInv'
<1> USE DaemonAssumption
    DEF IInv, TypeOK, LocksInv, PipeInv, ScreenInv, ErrorIsShownOnce, Gone, Holding, Ready,
        Failing, cmdVars, signalVars
<1>1. CASE GoDaemon
  BY <1>1 DEF GoDaemon
<1>2. CASE WaitForChild
  BY <1>2 DEF WaitForChild
<1>3. CASE KillParent
  BY <1>3 DEF KillParent
<1> QED
  BY <1>1, <1>2, <1>3

(* The steps of the child from its start to the end of the crawl. *)
LEMMA CrawlStep ==
  ASSUME IInv, ChildStart \/ Install \/ CrawlOk \/ CrawlFails \/ CrawlPanics
  PROVE  IInv'
<1> USE DaemonAssumption
    DEF IInv, TypeOK, LocksInv, PipeInv, ScreenInv, ErrorIsShownOnce, Gone, Holding, Ready,
        Failing, cmdVars, signalVars, pipeVars, RedirectStdio, Goto, Leave, Eprintln
<1>1. CASE ChildStart
  BY <1>1 DEF ChildStart
<1>2. CASE Install
  <2>1. TypeOK'
    <3>1. seen' \in 0 .. 2 /\ handled' \in 0 .. 1
      BY <1>2 DEF Install
    <3>2. writers' \subseteq {"parent", "child"} /\ pending' \subseteq Signals
      BY <1>2 DEF Install
    <3>3. cancelled' \in BOOLEAN /\ locked' \in BOOLEAN
      BY <1>2 DEF Install
    <3>4. /\ stdio' \in {"terminal", "null"} /\ outcome' \in {"none", "ok", "error"}
          /\ pipe' = pipe /\ pidfile' = pidfile /\ parent' = parent
          /\ mode' = mode /\ wantPidfile' = wantPidfile /\ devnull' = devnull
      BY <1>2 DEF Install
    <3>5. child' \in Failing \cup {"crawl", "exited"}
      BY <1>2 DEF Install
    <3> QED
      BY <3>1, <3>2, <3>3, <3>4, <3>5
  <2>2. LocksInv'
    BY <1>2 DEF Install
  <2>3. PipeInv'
    BY <1>2 DEF Install
  <2>4. ScreenInv'
    BY <1>2 DEF Install
  <2>5. ErrorIsShownOnce'
    BY <1>2 DEF Install
  <2> QED
    BY <2>1, <2>2, <2>3, <2>4, <2>5
<1>3. CASE CrawlOk
  BY <1>3 DEF CrawlOk, AfterCrawl
<1>4. CASE CrawlFails
  <2>1. TypeOK'
    <3>1. seen' \in 0 .. 2 /\ handled' \in 0 .. 1
      BY <1>4 DEF CrawlFails
    <3>2. writers' \subseteq {"parent", "child"} /\ pending' \subseteq Signals
      BY <1>4 DEF CrawlFails
    <3>3. cancelled' \in BOOLEAN /\ locked' \in BOOLEAN
      BY <1>4 DEF CrawlFails
    <3>4. /\ stdio' \in {"terminal", "null"} /\ outcome' \in {"none", "ok", "error"}
          /\ pipe' = pipe /\ pidfile' = pidfile /\ parent' = parent
          /\ mode' = mode /\ wantPidfile' = wantPidfile /\ devnull' = devnull
      BY <1>4 DEF CrawlFails
    <3>5. child' \in Failing \cup {"crawl", "exited"}
      BY <1>4 DEF CrawlFails
    <3> QED
      BY <3>1, <3>2, <3>3, <3>4, <3>5
  <2>2. LocksInv'
    BY <1>4 DEF CrawlFails
  <2>3. PipeInv'
    BY <1>4 DEF CrawlFails
  <2>4. ScreenInv'
    BY <1>4 DEF CrawlFails
  <2>5. ErrorIsShownOnce'
    BY <1>4 DEF CrawlFails
  <2> QED
    BY <2>1, <2>2, <2>3, <2>4, <2>5
<1>5. CASE CrawlPanics
  <2>1. TypeOK'
    <3>1. seen' \in 0 .. 2 /\ handled' \in 0 .. 1
      BY <1>5 DEF CrawlPanics
    <3>2. writers' \subseteq {"parent", "child"} /\ pending' \subseteq Signals
      BY <1>5 DEF CrawlPanics
    <3> QED
      BY <3>1, <3>2, <1>5 DEF CrawlPanics
  <2>2. LocksInv'
    BY <1>5 DEF CrawlPanics
  <2>3. PipeInv'
    BY <1>5 DEF CrawlPanics
  <2>4. ScreenInv'
    BY <1>5 DEF CrawlPanics
  <2>5. ErrorIsShownOnce'
    BY <1>5 DEF CrawlPanics
  <2> QED
    BY <2>1, <2>2, <2>3, <2>4, <2>5
<1> QED
  BY <1>1, <1>2, <1>3, <1>4, <1>5

(* The pidfile and the report. *)
LEMMA ReportStep ==
  ASSUME IInv,
         PidfileCreate \/ PidfileFill \/ NotifyOk \/ NotifyError \/ RedirectOk \/ RedirectError
  PROVE  IInv'
<1> USE DaemonAssumption
    DEF IInv, TypeOK, LocksInv, PipeInv, ScreenInv, ErrorIsShownOnce, Gone, Holding, Ready,
        Failing, cmdVars, signalVars, pipeVars, RedirectStdio, Goto, Eprintln
<1>1. CASE PidfileCreate
  <2>1. TypeOK'
    <3>1. seen' \in 0 .. 2 /\ handled' \in 0 .. 1
      BY <1>1 DEF PidfileCreate
    <3>2. writers' \subseteq {"parent", "child"} /\ pending' \subseteq Signals
      BY <1>1 DEF PidfileCreate
    <3> QED
      BY <3>1, <3>2, <1>1 DEF PidfileCreate
  <2>2. LocksInv'
    BY <1>1 DEF PidfileCreate
  <2>3. PipeInv'
    BY <1>1 DEF PidfileCreate
  <2>4. ScreenInv'
    BY <1>1 DEF PidfileCreate
  <2>5. ErrorIsShownOnce'
    BY <1>1 DEF PidfileCreate
  <2> QED
    BY <2>1, <2>2, <2>3, <2>4, <2>5
<1>2. CASE PidfileFill
  <2>1. TypeOK'
    <3>1. seen' \in 0 .. 2 /\ handled' \in 0 .. 1
      BY <1>2 DEF PidfileFill
    <3>2. writers' \subseteq {"parent", "child"} /\ pending' \subseteq Signals
      BY <1>2 DEF PidfileFill
    <3> QED
      BY <3>1, <3>2, <1>2 DEF PidfileFill
  <2>2. LocksInv'
    BY <1>2 DEF PidfileFill
  <2>3. PipeInv'
    BY <1>2 DEF PidfileFill
  <2>4. ScreenInv'
    BY <1>2 DEF PidfileFill
  <2>5. ErrorIsShownOnce'
    BY <1>2 DEF PidfileFill
  <2> QED
    BY <2>1, <2>2, <2>3, <2>4, <2>5
<1>3. CASE NotifyOk
  BY <1>3 DEF NotifyOk, Notify
<1>4. CASE NotifyError
  BY <1>4 DEF NotifyError, Notify
<1>5. CASE RedirectOk
  BY <1>5 DEF RedirectOk, Redirect
<1>6. CASE RedirectError
  BY <1>6 DEF RedirectError, Redirect
<1> QED
  BY <1>1, <1>2, <1>3, <1>4, <1>5, <1>6

(* The ends of the child, by itself. *)
LEMMA EndStep ==
  ASSUME IInv, LeaveWithError \/ HoldEnds \/ PidfileRemove \/ LeaveOk
  PROVE  IInv'
<1> USE DaemonAssumption
    DEF IInv, TypeOK, LocksInv, PipeInv, ScreenInv, ErrorIsShownOnce, Gone, Holding, Ready,
        Failing, cmdVars, signalVars, pipeVars, RedirectStdio, Goto, Leave, Eprintln
<1>1. CASE LeaveWithError
  <2>1. TypeOK'
    <3>1. seen' \in 0 .. 2 /\ handled' \in 0 .. 1
      BY <1>1 DEF LeaveWithError
    <3>2. writers' \subseteq {"parent", "child"} /\ pending' \subseteq Signals
      BY <1>1 DEF LeaveWithError
    <3> QED
      BY <3>1, <3>2, <1>1 DEF LeaveWithError
  <2>2. LocksInv'
    BY <1>1 DEF LeaveWithError
  <2>3. PipeInv'
    BY <1>1 DEF LeaveWithError
  <2>4. ScreenInv'
    BY <1>1 DEF LeaveWithError
  <2>5. ErrorIsShownOnce'
    BY <1>1 DEF LeaveWithError
  <2> QED
    BY <2>1, <2>2, <2>3, <2>4, <2>5
<1>2. CASE HoldEnds
  BY <1>2 DEF HoldEnds
<1>3. CASE PidfileRemove
  BY <1>3 DEF PidfileRemove
<1>4. CASE LeaveOk
  <2>1. TypeOK'
    <3>1. seen' \in 0 .. 2 /\ handled' \in 0 .. 1
      BY <1>4 DEF LeaveOk
    <3>2. writers' \subseteq {"parent", "child"} /\ pending' \subseteq Signals
      BY <1>4 DEF LeaveOk
    <3>3. cancelled' \in BOOLEAN /\ locked' \in BOOLEAN
      BY <1>4 DEF LeaveOk
    <3> QED
      BY <3>1, <3>2, <3>3, <1>4 DEF LeaveOk
  <2>2. LocksInv' /\ PipeInv'
    BY <1>4 DEF LeaveOk
  <2>3. ScreenInv' /\ ErrorIsShownOnce'
    BY <1>4 DEF LeaveOk
  <2> QED
    BY <2>1, <2>2, <2>3
<1> QED
  BY <1>1, <1>2, <1>3, <1>4

(* A death by a signal. *)
LEMMA DeathStep ==
  ASSUME IInv, child \notin Gone, Dies,
         handled' \in 0 .. 1, pending' \subseteq Signals, cancelled' \in BOOLEAN
  PROVE  IInv'
<1> USE DaemonAssumption
    DEF IInv, TypeOK, LocksInv, PipeInv, ScreenInv, ErrorIsShownOnce, Gone, Holding, Ready,
        Failing, cmdVars, Dies
<1>1. TypeOK'
  <2>1. seen' \in 0 .. 2 /\ writers' \subseteq {"parent", "child"}
    OBVIOUS
  <2>2. /\ child' \in Gone /\ locked' \in BOOLEAN
        /\ UNCHANGED <<mode, wantPidfile, devnull, parent, outcome, pipe, stdio, pidfile>>
    OBVIOUS
  <2> QED
    BY <2>1, <2>2
<1>2. LocksInv' /\ PipeInv'
  OBVIOUS
<1>3. ScreenInv' /\ ErrorIsShownOnce'
  OBVIOUS
<1> QED
  BY <1>1, <1>2, <1>3

(* Signals and what they end. *)
LEMMA SignalStep ==
  ASSUME IInv, SignalThread \/ Killed \/ \E s \in Signals : Signal(s)
  PROVE  IInv'
<1>1. handled \in 0 .. 1 /\ pending \subseteq Signals /\ cancelled \in BOOLEAN
  BY DEF IInv, TypeOK
<1>2. ASSUME UNCHANGED <<cmdVars, parent, child, outcome, pipeVars, stdio, seen, pidfile, locked>>,
             handled' \in 0 .. 1, pending' \subseteq Signals, cancelled' \in BOOLEAN
      PROVE  IInv'
  BY <1>2 DEF IInv, TypeOK, LocksInv, PipeInv, ScreenInv, ErrorIsShownOnce, cmdVars, pipeVars
<1>3. CASE SignalThread
  <2>1. PICK s \in pending :
          /\ child \notin Gone
          /\ pending' = pending \ {s}
          /\ \/ /\ handled = 0
                /\ handled' = 1 /\ cancelled' = TRUE
                /\ UNCHANGED <<cmdVars, parent, child, outcome, pipeVars, stdio, seen, pidfile,
                               locked>>
             \/ /\ handled = 1
                /\ Dies
                /\ UNCHANGED <<cancelled, handled>>
    BY <1>3 DEF SignalThread
  <2>2. pending' \subseteq Signals
    BY <1>1, <2>1
  <2>3. handled' \in 0 .. 1
    BY <1>1, <2>1
  <2>4. cancelled' \in BOOLEAN
    BY <1>1, <2>1
  <2> QED
    BY <1>2, <2>1, <2>2, <2>3, <2>4, DeathStep
<1>4. CASE Killed
  BY <1>1, <1>4, DeathStep DEF Killed, signalVars
<1>5. ASSUME NEW s \in Signals, Signal(s)
      PROVE  IInv'
  <2>1. CASE child \in {"start", "install"} /\ Dies /\ UNCHANGED signalVars
    BY <1>1, <2>1, DeathStep DEF signalVars, Gone
  <2>2. CASE child \notin Gone \cup {"start", "install"}
    BY <1>1, <1>2, <1>5, <2>2 DEF Signal
  <2> QED
    BY <1>5, <2>1, <2>2 DEF Signal
<1> QED
  BY <1>3, <1>4, <1>5

(* Every step keeps the invariant. *)
LEMMA NextIInv == IInv /\ [Next]_vars => IInv'
<1> SUFFICES ASSUME IInv, [Next]_vars PROVE IInv'
  OBVIOUS
<1>1. CASE Next
  BY <1>1, ParentStep, CrawlStep, ReportStep, EndStep, SignalStep DEF Next, Child
<1>2. CASE UNCHANGED vars
  BY <1>2 DEF IInv, TypeOK, LocksInv, PipeInv, ScreenInv, ErrorIsShownOnce, vars
<1> QED
  BY <1>1, <1>2

(* The invariant holds throughout. *)
LEMMA Invariance == Spec => []IInv
BY InitIInv, NextIInv, PTL DEF Spec

-----------------------------------------------------------------------------
(* Every variable stays in its type; no third message is ever printed.     *)
THEOREM TypeCorrect == Spec => []TypeOK
<1>1. IInv => TypeOK
  BY DEF IInv
<1> QED
  BY <1>1, Invariance, PTL

(* notify_and_redirect: the byte the parent reads is the child's fate.     *)
THEOREM AnswersAreTrue == Spec => []AnswerIsTrue
<1>1. IInv => AnswerIsTrue
  BY DEF IInv, TypeOK, AnswerIsTrue, LocksInv, PipeInv, ScreenInv, Gone, Holding, Ready
<1> QED
  BY <1>1, Invariance, PTL

(* hold: the pidfile comes after the locks and goes before them.           *)
THEOREM PidfileHasLocks == Spec => []PidfileMeansLocked
<1>1. IInv => PidfileMeansLocked
  BY DEF IInv, PidfileMeansLocked, LocksInv, Holding, Ready
<1> QED
  BY <1>1, Invariance, PTL

(* No way out of main leaves the pidfile.                                  *)
THEOREM PidfileIsRemoved == Spec => []NoStalePidfile
<1>1. IInv => NoStalePidfile
  BY DEF IInv, NoStalePidfile, LocksInv, Ready
<1> QED
  BY <1>1, Invariance, PTL

(* run_daemon_command, hold and main between them print an error once when  *)
(* redirect_stdio succeeds, and once or twice when it silently fails.       *)
THEOREM ErrorsAreShownOnce == Spec => []ErrorIsShownOnce
<1>1. IInv => ErrorIsShownOnce
  BY DEF IInv
<1> QED
  BY <1>1, Invariance, PTL
=============================================================================
