------------------------ MODULE FileProcessingProofs ------------------------
(***************************************************************************)
(* Proofs about module FileProcessing, for any number of pages, any        *)
(* interval of progress and a kernel that reclaims wherever it likes: the  *)
(* counters are bounded at every instant and right at the end, the display *)
(* hears a start and an end of each file and sees no page that was not     *)
(* sampled or read, and a lock that was handed out holds every page.       *)
(***************************************************************************)
EXTENDS FileProcessing, FiniteSetTheorems, WellFoundedInduction, TLAPS

Points == {"check", "prepare", "sample", "announce", "recheck", "execute", "walk", "read",
           "mlock", "measure", "report", "returned"}

(* The control points before the display hears of the file. *)
Untold == {"check", "prepare", "sample", "announce"}

(* The operations that walk over the pages. *)
Walkers == {"Touch", "Lock"}

TypeInv ==
  /\ job \in [op : Ops, display : Displays]
  /\ cache \subseteq Pages /\ mlocked \subseteq Pages
  /\ snapshot \subseteq Pages /\ after \subseteq Pages
  /\ todo \subseteq Pages /\ read \subseteq Pages /\ view \subseteq Pages
  /\ cancelled \in BOOLEAN /\ mapped \in BOOLEAN /\ held \in BOOLEAN
  /\ pc \in Points
  /\ result \in {"pending", "output", "none", "error"}
  /\ touched \in Nat /\ reported \in Nat

PhaseInv ==
  /\ pc = "returned" <=> result # "pending"
  /\ pc \in {"walk", "read"} => Op \in Walkers /\ todo # {}
  /\ pc = "mlock" => Op = "Lock"
  /\ pc \in {"announce", "recheck"} => Display = "Tui"

(* The walk: what is left of it, what it has read, what it has counted. *)
WalkInv ==
  /\ pc \in Untold \cup {"recheck", "execute"} => todo = {} /\ touched = 0 /\ read = {}
  /\ pc \in {"walk", "read"} => todo = Pages \ (snapshot \cup read)
  /\ (pc \in {"mlock", "measure", "report"} /\ Op \in Walkers) => Pages \subseteq snapshot \cup read
  /\ (pc = "report" /\ Op \in Walkers) => after = Pages

(* Its counters: no page is counted that was not missing. *)
CountInv ==
  /\ reported <= touched
  /\ touched + Cardinality(todo) <= NPages - Cardinality(snapshot)
  /\ Op \notin Walkers => touched = 0

Counted(n) == [files |-> 1, total |-> NPages, initial |-> Cardinality(snapshot), action |-> n]

Settled == Counted(ActionPages(Cardinality(snapshot), Cardinality(after)))

(* Until a file is done, its counters hold what progress has reported. *)
StatsInv ==
  /\ result = "output" => stats = Settled
  /\ result # "output" => stats = IF events = <<>> THEN NoStats ELSE Counted(reported)

(* The shape of what the display is sent. *)
Closed == result # "pending"

EventInv ==
  /\ events \in Seq({"start", "progress", "residency", "done"})
  /\ Display # "Tui" => events = <<>>
  /\ pc \in Untold => events = <<>>
  /\ (Display = "Tui" /\ pc \notin Untold \cup {"returned"}) => events # <<>>
  /\ events # <<>> => events[1] = "start"
  /\ \A i \in 1 .. Len(events) : events[i] = "start" => i = 1
  /\ \A i \in 1 .. Len(events) : events[i] = "done" => Closed /\ i = Len(events)
  /\ (events # <<>> /\ Closed) => events[Len(events)] = "done"

(* What the display shows, before it is told and while it is. *)
ViewInv ==
  /\ pc \in Untold => view = {}
  /\ ProgressIsHonest

(* Locked pages are in memory, and locked for as long as a mapping lives. *)
LockInv ==
  /\ mlocked \subseteq cache
  /\ (Op = "Lock" /\ pc \in {"measure", "report"}) => mlocked = Pages
  /\ LockGuarantee

IInv == TypeInv /\ PhaseInv /\ WalkInv /\ CountInv /\ StatsInv /\ EventInv /\ ViewInv /\ LockInv

-----------------------------------------------------------------------------
(* The sets of pages are finite, and those that a sample missed are the rest. *)
LEMMA CardPages ==
  ASSUME NEW S \in SUBSET Pages
  PROVE  /\ IsFiniteSet(S)
         /\ Cardinality(S) \in 0 .. NPages
         /\ Cardinality(Pages \ S) = NPages - Cardinality(S)
         /\ Cardinality(Pages) = NPages
<1>1. IsFiniteSet(Pages) /\ Cardinality(Pages) = NPages
  BY FileProcessingAssumption, FS_Interval DEF Pages
<1>2. IsFiniteSet(S) /\ Cardinality(S) <= NPages /\ Cardinality(S) \in Nat
  BY <1>1, FS_Subset, FS_CardinalityType
<1>3. Pages \cap S = S
  OBVIOUS
<1>4. Cardinality(Pages \ S) = Cardinality(Pages) - Cardinality(Pages \cap S)
  BY <1>1, FS_Difference
<1>5. Cardinality(Pages \ S) = NPages - Cardinality(S)
  BY <1>1, <1>3, <1>4, Zenon
<1>6. Cardinality(S) \in 0 .. NPages
  BY <1>2, FileProcessingAssumption
<1> QED
  BY <1>1, <1>2, <1>5, <1>6, Zenon

(* The size of any set of pages, as a number. *)
LEMMA CardOf == \A S \in SUBSET Pages : Cardinality(S) \in 0 .. NPages /\ Cardinality(S) \in Nat
<1> TAKE S \in SUBSET Pages
<1>1. Cardinality(S) \in 0 .. NPages
  BY CardPages
<1> QED
  BY <1>1, FileProcessingAssumption

(* A walk that reads one more page has one page less to go. *)
LEMMA CardTodo ==
  ASSUME NEW S \in SUBSET Pages, NEW p \in S
  PROVE  Cardinality(S \ {p}) = Cardinality(S) - 1
BY CardPages, FS_RemoveElement

(* What is left has a least page, and the pages below it are not left. *)
LEMMA LeastPage ==
  ASSUME NEW S \in SUBSET Pages, S # {}
  PROVE  /\ Least(S) \in S
         /\ 1 .. Least(S) \subseteq (Pages \ S) \cup {Least(S)}
<1> DEFINE R == OpToRel(<, Nat)
<1>1. S \subseteq Nat /\ Pages \subseteq Nat
  BY FileProcessingAssumption DEF Pages
<1>2. IsWellFoundedOn(R, Nat)
  BY NatLessThanWellFounded
<1>3. \A x, y \in Nat : y < x => <<y, x>> \in R
  BY DEF OpToRel
<1> HIDE DEF R
<1>4. PICK x \in S : \A y \in S : ~ (<<y, x>> \in R)
  BY <1>1, <1>2, WFMin
<1>5. \A y \in S : ~ (y < x)
  BY <1>1, <1>3, <1>4
<1>6. \A y \in S : x <= y
  BY <1>1, <1>5
<1>7. Least(S) \in S /\ \A y \in S : Least(S) <= y
  BY <1>6 DEF Least
<1>8. ASSUME NEW q \in 1 .. Least(S)
      PROVE  q \in Pages /\ (q \in S => q = Least(S))
  <2>1. Least(S) \in 1 .. NPages
    BY <1>7 DEF Pages
  <2>2. q \in Nat /\ 1 <= q /\ q <= Least(S)
    BY <2>1, FileProcessingAssumption
  <2> QED
    BY <1>7, <2>1, <2>2, FileProcessingAssumption DEF Pages
<1> QED
  BY <1>7, <1>8

(* One step of the walk. *)
LEMMA TouchReadsMissing ==
  ASSUME TypeInv, PhaseInv, NEW p \in Pages, TouchRead(p)
  PROVE  p \in todo /\ 1 .. p \subseteq (Pages \ todo) \cup {p}
BY LeastPage DEF TypeInv, PhaseInv, TouchRead, Proceed

-----------------------------------------------------------------------------
(* The invariant holds when process_one is called. *)
LEMMA InitIInv == Init => IInv
<1> SUFFICES ASSUME Init PROVE IInv
  OBVIOUS
<1> USE FileProcessingAssumption DEF Init
<1>1. TypeInv
  BY DEF TypeInv, Points
<1>2. PhaseInv
  BY DEF PhaseInv, Display
<1>3. WalkInv
  BY DEF WalkInv, Untold
<1>4. CountInv
  <2>1. Cardinality({}) = 0
    BY FS_EmptySet
  <2> QED
    BY <2>1 DEF CountInv
<1>5. StatsInv
  BY DEF StatsInv
<1>6. EventInv
  BY DEF EventInv, Untold
<1>7. ViewInv
  BY DEF ViewInv, ProgressIsHonest
<1>8. LockInv
  BY DEF LockInv, LockGuarantee
<1> QED
  BY <1>1, <1>2, <1>3, <1>4, <1>5, <1>6, <1>7, <1>8 DEF IInv

-----------------------------------------------------------------------------
(* The types are kept. *)
LEMMA TypeStep == TypeInv /\ PhaseInv /\ [Next]_vars => TypeInv'
<1> SUFFICES ASSUME TypeInv, PhaseInv, [Next]_vars PROVE TypeInv'
  OBVIOUS
<1> USE FileProcessingAssumption DEF TypeInv, Points, kernelVars, tuiVars
<1>1. CASE UNCHANGED vars
  BY <1>1 DEF vars
<1> SUFFICES ASSUME Next PROVE TypeInv'
  BY <1>1
<1>2. job' = job
  BY DEF Next
<1>3. CASE Cancel \/ Reclaim \/ ReadIn
  <2>1. cache' \subseteq Pages /\ cancelled' \in BOOLEAN
    BY <1>3 DEF Cancel, Reclaim, ReadIn
  <2> QED
    BY <1>2, <1>3, <2>1 DEF Cancel, Reclaim, ReadIn
<1>4. CASE CliCheck \/ Prepare \/ Sample
  BY <1>2, <1>4 DEF CliCheck, Prepare, Sample, Fail, Return, Proceed
<1>5. CASE Announce \/ TuiCheck
  BY <1>2, <1>5 DEF Announce, TuiCheck, Fail, Return, Proceed
<1>6. CASE ExecuteQuery \/ ExecuteEvict
  BY <1>2, <1>6 DEF ExecuteQuery, ExecuteEvict, Fail, Return, Proceed
<1>7. CASE TouchBegin \/ TouchCheck \/ ExecuteMlock
  BY <1>2, <1>7 DEF TouchBegin, TouchCheck, ExecuteMlock, Fail, Return, Proceed, WalkEnd
<1>8. CASE TouchPage
  <2>1. PICK p \in Pages :
          /\ TouchRead(p)
          /\ IF p % Interval = 0 /\ Display = "Tui" THEN Progress(p, touched + 1)
             ELSE UNCHANGED <<tuiVars, reported, stats>>
    BY <1>8 DEF TouchPage
  <2>2. 1 .. p \subseteq Pages
    BY DEF Pages
  <2>3. view' \subseteq Pages /\ reported' \in Nat
    BY <2>1, <2>2 DEF Progress
  <2> QED
    BY <1>2, <2>1, <2>3 DEF TouchRead, Proceed, WalkEnd
<1>9. CASE Measure
  <2>1. after' \subseteq Pages
    BY <1>2, <1>9 DEF Measure, Effect, Op, Fail, Return, Proceed
  <2> QED
    BY <1>2, <1>9, <2>1 DEF Measure, Fail, Return, Proceed
<1>10. CASE ReportTui \/ ReportCli
  BY <1>2, <1>10 DEF ReportTui, ReportCli, Return, KeepsMapping
<1> QED
  BY <1>3, <1>4, <1>5, <1>6, <1>7, <1>8, <1>9, <1>10 DEF Next, Worker, Execute

(* The control points and the operations that reach them. *)
LEMMA PhaseStep == TypeInv /\ PhaseInv /\ [Next]_vars => PhaseInv'
<1> SUFFICES ASSUME TypeInv, PhaseInv, [Next]_vars PROVE PhaseInv'
  OBVIOUS
<1> USE DEF TypeInv, PhaseInv, Points, Walkers, Op, Display
<1>1. CASE UNCHANGED vars
  BY <1>1 DEF vars
<1> SUFFICES ASSUME Next PROVE PhaseInv'
  BY <1>1
<1>2. job' = job
  BY DEF Next
<1>3. CASE Cancel \/ Reclaim \/ ReadIn
  BY <1>2, <1>3 DEF Cancel, Reclaim, ReadIn
<1>4. CASE CliCheck \/ Prepare \/ Sample \/ Announce \/ TuiCheck
  BY <1>2, <1>4 DEF CliCheck, Prepare, Sample, Announce, TuiCheck, Fail, Return, Proceed
<1>5. CASE ExecuteQuery \/ ExecuteEvict \/ TouchBegin \/ TouchCheck \/ ExecuteMlock
  BY <1>2, <1>5
     DEF ExecuteQuery, ExecuteEvict, TouchBegin, TouchCheck, ExecuteMlock, Fail, Return,
         Proceed, WalkEnd
<1>6. CASE TouchPage
  BY <1>2, <1>6 DEF TouchPage, TouchRead, Proceed, WalkEnd
<1>7. CASE Measure \/ ReportTui \/ ReportCli
  BY <1>2, <1>7 DEF Measure, ReportTui, ReportCli, Fail, Return, Proceed
<1> QED
  BY <1>3, <1>4, <1>5, <1>6, <1>7 DEF Next, Worker, Execute

(* What is left of the walk is what was neither sampled nor read. *)
LEMMA WalkStep == TypeInv /\ PhaseInv /\ WalkInv /\ [Next]_vars => WalkInv'
<1> SUFFICES ASSUME TypeInv, PhaseInv, WalkInv, [Next]_vars PROVE WalkInv'
  OBVIOUS
<1> USE DEF TypeInv, PhaseInv, WalkInv, Points, Untold, Walkers, Op
<1>1. CASE UNCHANGED vars
  BY <1>1 DEF vars
<1> SUFFICES ASSUME Next PROVE WalkInv'
  BY <1>1
<1>2. job' = job
  BY DEF Next
<1>3. CASE Cancel \/ Reclaim \/ ReadIn
  BY <1>2, <1>3 DEF Cancel, Reclaim, ReadIn
<1>4. CASE CliCheck \/ Prepare \/ Sample \/ Announce \/ TuiCheck
  BY <1>2, <1>4 DEF CliCheck, Prepare, Sample, Announce, TuiCheck, Fail, Return, Proceed
<1>5. CASE ExecuteQuery \/ ExecuteEvict \/ TouchBegin \/ TouchCheck \/ ExecuteMlock
  BY <1>2, <1>5
     DEF ExecuteQuery, ExecuteEvict, TouchBegin, TouchCheck, ExecuteMlock, Fail, Return,
         Proceed, WalkEnd
<1>6. CASE TouchPage
  BY <1>2, <1>6 DEF TouchPage, TouchRead, Proceed, WalkEnd
<1>7. CASE Measure \/ ReportTui \/ ReportCli
  BY <1>2, <1>7 DEF Measure, ReportTui, ReportCli, Fail, Return, Proceed, Effect
<1> QED
  BY <1>3, <1>4, <1>5, <1>6, <1>7 DEF Next, Worker, Execute

(* Every page that is counted leaves what is left of the walk. *)
LEMMA CountStep ==
  TypeInv /\ PhaseInv /\ WalkInv /\ CountInv /\ [Next]_vars => CountInv'
<1> SUFFICES ASSUME TypeInv, PhaseInv, WalkInv, CountInv, [Next]_vars PROVE CountInv'
  OBVIOUS
<1>1. ASSUME UNCHANGED <<job, snapshot, todo, touched, reported>> PROVE CountInv'
  BY <1>1 DEF CountInv, Op
<1>2. CASE UNCHANGED vars
  BY <1>1, <1>2 DEF vars
<1> SUFFICES ASSUME Next PROVE CountInv'
  BY <1>2
<1>3. job' = job
  BY DEF Next
<1>4. CASE Cancel \/ Reclaim \/ ReadIn \/ CliCheck \/ Prepare \/ Announce \/ TuiCheck
             \/ ExecuteQuery \/ ExecuteEvict \/ TouchCheck \/ ExecuteMlock
             \/ Measure \/ ReportTui \/ ReportCli
  BY <1>1, <1>3, <1>4
     DEF Cancel, Reclaim, ReadIn, CliCheck, Prepare, Announce, TuiCheck, ExecuteQuery,
         ExecuteEvict, TouchCheck, ExecuteMlock, Measure, ReportTui, ReportCli, Fail
<1>5. CASE Sample
  <2>1. CASE Fail
    BY <1>1, <1>3, <2>1 DEF Fail
  <2>2. CASE snapshot' = cache /\ UNCHANGED <<todo, touched, reported>> /\ pc = "sample"
    <3>1. todo' = {} /\ touched' = 0 /\ touched = 0 /\ reported' = reported
      BY <2>2 DEF WalkInv, Untold
    <3>2. Cardinality({}) = 0 /\ Cardinality(snapshot') \in 0 .. NPages
      BY <2>2, FS_EmptySet, CardPages DEF TypeInv
    <3> QED
      BY <3>1, <3>2, FileProcessingAssumption DEF CountInv, TypeInv
  <2> QED
    BY <1>5, <2>1, <2>2 DEF Sample, Proceed
<1>6. CASE TouchBegin
  <2>1. CASE Fail
    BY <1>1, <1>3, <2>1 DEF Fail
  <2>2. CASE todo' = Pages \ snapshot /\ UNCHANGED <<snapshot, touched, reported>>
             /\ pc = "execute"
    <3>1. touched' = 0 /\ touched = 0 /\ reported' = reported /\ snapshot' = snapshot
      BY <2>2 DEF WalkInv
    <3>2. Cardinality(todo') = NPages - Cardinality(snapshot) /\ Cardinality(snapshot) \in 0 .. NPages
      BY <2>2, CardPages DEF TypeInv
    <3> QED
      BY <3>1, <3>2, FileProcessingAssumption DEF CountInv, TypeInv
  <2> QED
    BY <1>6, <2>1, <2>2 DEF TouchBegin, Proceed
<1>7. CASE TouchPage
  <2>1. PICK p \in Pages :
          /\ TouchRead(p)
          /\ IF p % Interval = 0 /\ Display = "Tui" THEN Progress(p, touched + 1)
             ELSE UNCHANGED <<tuiVars, reported, stats>>
    BY <1>7 DEF TouchPage
  <2>2. reported' \in {reported, touched + 1}
    BY <2>1 DEF Progress
  <2>3. /\ touched' = touched + 1 /\ todo' = todo \ {p} /\ snapshot' = snapshot
        /\ Op \in Walkers
    BY <2>1 DEF TouchRead, Proceed, PhaseInv
  <2>4. Cardinality(todo') = Cardinality(todo) - 1
    BY <2>1, <2>3, TouchReadsMissing, CardTodo DEF TypeInv
  <2>5. Cardinality(todo) \in Nat /\ Cardinality(snapshot) \in Nat
    BY CardOf DEF TypeInv
  <2> QED
    BY <1>3, <2>2, <2>3, <2>4, <2>5, FileProcessingAssumption DEF CountInv, TypeInv, Op
<1> QED
  BY <1>4, <1>5, <1>6, <1>7 DEF Next, Worker, Execute

-----------------------------------------------------------------------------
(* The pages acted on are no fewer than those reported along the way. *)
LEMMA ReportedIsPart ==
  ASSUME TypeInv, WalkInv, CountInv, pc = "report"
  PROVE  LET pages == ActionPages(Cardinality(snapshot), Cardinality(after))
         IN  reported + Minus(pages, reported) = pages
<1> DEFINE b == Cardinality(snapshot)
           a == Cardinality(after)
<1>1. b \in 0 .. NPages /\ a \in 0 .. NPages /\ Cardinality(todo) \in Nat
  BY CardOf DEF TypeInv
<1>2. Op \in {"Query", "Touch", "Evict", "Lock"}
  BY FileProcessingAssumption DEF TypeInv, Op
<1>3. CASE Op \in Walkers
  <2>1. a = NPages
    BY <1>3, CardPages DEF WalkInv, TypeInv
  <2>2. reported \in Nat /\ reported <= NPages - b
    BY <1>1, FileProcessingAssumption DEF CountInv, TypeInv
  <2>3. ActionPages(b, a) = NPages - b
    BY <1>1, <1>3, <2>1, FileProcessingAssumption DEF ActionPages, Minus, Effect, Walkers
  <2> QED
    BY <1>1, <2>2, <2>3, FileProcessingAssumption DEF Minus
<1>4. CASE Op \notin Walkers
  <2>1. reported = 0
    BY <1>4 DEF CountInv, TypeInv
  <2>2. ActionPages(b, a) \in Nat
    BY <1>1, <1>2, FileProcessingAssumption DEF ActionPages, Minus, Effect
  <2> QED
    BY <2>1, <2>2 DEF Minus
<1> QED
  BY <1>3, <1>4

(* The counters follow the progress, and settle. *)
LEMMA StatsStep ==
  TypeInv /\ PhaseInv /\ WalkInv /\ CountInv /\ StatsInv /\ EventInv /\ [Next]_vars => StatsInv'
<1> SUFFICES ASSUME TypeInv, PhaseInv, WalkInv, CountInv, StatsInv, EventInv, [Next]_vars
             PROVE  StatsInv'
  OBVIOUS
<1>1. ASSUME UNCHANGED <<job, snapshot, after, reported, stats, result, events>>
      PROVE  StatsInv'
  <2>1. Settled' = Settled
    BY <1>1 DEF Settled, Counted, ActionPages, Effect, Op
  <2>2. Counted(reported)' = Counted(reported)
    BY <1>1 DEF Counted
  <2> QED
    BY <1>1, <2>1, <2>2 DEF StatsInv
<1>2. CASE UNCHANGED vars
  BY <1>1, <1>2 DEF vars, tuiVars
<1> SUFFICES ASSUME Next PROVE StatsInv'
  BY <1>2
<1>3. job' = job
  BY DEF Next
<1>4. ASSUME Fail, result = "pending"
      PROVE  StatsInv'
  <2>1. events # <<>> => Append(events, "done") # <<>>
    BY DEF EventInv
  <2> QED
    BY <1>4, <2>1 DEF Fail, Return, StatsInv, Counted
<1>5. CASE Cancel \/ Reclaim \/ ReadIn
  BY <1>1, <1>3, <1>5 DEF Cancel, Reclaim, ReadIn, tuiVars
<1>6. CASE CliCheck \/ TuiCheck \/ ExecuteQuery \/ ExecuteEvict \/ TouchBegin \/ TouchCheck
             \/ ExecuteMlock
  BY <1>1, <1>3, <1>4, <1>6
     DEF CliCheck, TuiCheck, ExecuteQuery, ExecuteEvict, TouchBegin, TouchCheck, ExecuteMlock,
         Proceed, tuiVars, PhaseInv
<1>7. CASE Prepare
  BY <1>4, <1>7 DEF Prepare, Return, tuiVars, PhaseInv, StatsInv, Counted
<1>8. CASE Sample
  <2>1. pc = "sample" => events = <<>> /\ result = "pending"
    BY DEF EventInv, Untold, PhaseInv
  <2> QED
    BY <1>4, <1>8, <2>1 DEF Sample, Proceed, tuiVars, StatsInv
<1>9. CASE Announce
  <2>1. pc = "announce" /\ events' = Append(events, "start") /\ result' = result
        /\ reported' = reported /\ snapshot' = snapshot
    BY <1>9 DEF Announce, Proceed
  <2>2. result = "pending" /\ touched = 0 /\ events = <<>>
    BY <2>1 DEF PhaseInv, WalkInv, EventInv, Untold
  <2>3. reported = 0
    BY <2>2 DEF CountInv, TypeInv
  <2>4. events' # <<>>
    BY <2>1, <2>2
  <2>5. stats' = Counted(reported)
    <3>1. stats = NoStats
      BY <2>2 DEF StatsInv
    <3>2. stats' = [stats EXCEPT !.files = 1, !.total = NPages, !.initial = Cardinality(snapshot)]
      BY <1>9 DEF Announce
    <3> QED
      BY <2>3, <3>1, <3>2 DEF Counted, NoStats
  <2>6. Counted(reported)' = Counted(reported)
    BY <2>1 DEF Counted
  <2> QED
    BY <2>1, <2>2, <2>4, <2>5, <2>6 DEF StatsInv
<1>10. CASE TouchPage
  <2>1. PICK p \in Pages :
          /\ TouchRead(p)
          /\ IF p % Interval = 0 /\ Display = "Tui" THEN Progress(p, touched + 1)
             ELSE UNCHANGED <<tuiVars, reported, stats>>
    BY <1>10 DEF TouchPage
  <2>2. snapshot' = snapshot /\ after' = after /\ result' = result /\ result = "pending" /\ pc = "read"
    BY <2>1 DEF TouchRead, Proceed, PhaseInv
  <2>3. CASE UNCHANGED <<tuiVars, reported, stats>>
    BY <1>1, <1>3, <2>2, <2>3 DEF tuiVars
  <2>4. CASE Progress(p, touched + 1) /\ Display = "Tui"
    <3>1. stats = Counted(reported) /\ events' # <<>>
      BY <2>2, <2>4 DEF Progress, EventInv, StatsInv, Untold
    <3>2. reported \in Nat /\ touched \in Nat /\ reported <= touched
      BY DEF TypeInv, CountInv
    <3>3. stats' = [stats EXCEPT !.action = @ + (touched + 1 - reported)] /\ reported' = touched + 1
      BY <2>4, <3>2 DEF Progress
    <3>4. stats' = [Counted(reported) EXCEPT !.action = touched + 1]
      BY <3>1, <3>2, <3>3 DEF Counted
    <3> QED
      BY <2>2, <3>1, <3>3, <3>4 DEF StatsInv, Counted
  <2> QED
    BY <2>1, <2>3, <2>4
<1>11. CASE Measure
  BY <1>4, <1>11 DEF Measure, Proceed, tuiVars, PhaseInv, StatsInv, Counted
<1>12. CASE ReportTui
  <2>1. stats = Counted(reported)
    BY <1>12 DEF ReportTui, EventInv, StatsInv, Untold, PhaseInv
  <2> DEFINE pages == ActionPages(Cardinality(snapshot), Cardinality(after))
  <2>2. reported + Minus(pages, reported) = pages
    BY <1>12, ReportedIsPart DEF ReportTui
  <2>3. stats' = [stats EXCEPT !.action = @ + Minus(pages, reported)]
    BY <1>12 DEF ReportTui
  <2>4. stats' = Counted(pages)
    BY <2>1, <2>2, <2>3 DEF Counted
  <2>5. Settled' = Counted(pages)
    BY <1>3, <1>12 DEF ReportTui, Settled, Counted, ActionPages, Effect, Op
  <2> QED
    BY <1>12, <2>4, <2>5 DEF ReportTui, Return, StatsInv
<1>13. CASE ReportCli
  BY <1>3, <1>13 DEF ReportCli, Return, StatsInv, Settled, Counted, ActionPages, Effect, Op
<1> QED
  BY <1>5, <1>6, <1>7, <1>8, <1>9, <1>10, <1>11, <1>12, <1>13 DEF Next, Worker, Execute

-----------------------------------------------------------------------------
Kinds == {"start", "progress", "residency", "done"}

(* Sending an event puts it last and leaves the others where they are. *)
LEMMA AppendEvent ==
  ASSUME NEW q \in Seq(Kinds), NEW e \in Kinds
  PROVE  /\ Append(q, e) \in Seq(Kinds) /\ Append(q, e) # <<>>
         /\ Len(q) \in Nat /\ Len(Append(q, e)) = Len(q) + 1
         /\ Append(q, e)[Len(q) + 1] = e
         /\ \A i \in 1 .. Len(q) : Append(q, e)[i] = q[i]
         /\ q # <<>> => 1 \in 1 .. Len(q)
<1>1. Len(q) \in Nat /\ Append(q, e) \in Seq(Kinds) /\ Len(Append(q, e)) = Len(q) + 1
  OBVIOUS
<1>2. /\ Append(q, e)[Len(q) + 1] = e
      /\ \A i \in 1 .. Len(q) : Append(q, e)[i] = q[i]
  OBVIOUS
<1>3. q # <<>> => Len(q) # 0
  OBVIOUS
<1>4. Append(q, e) # <<>>
  BY <1>1
<1> QED
  BY <1>1, <1>2, <1>3, <1>4

(* A file that the display has heard of and that goes on. *)
LEMMA TellMore ==
  ASSUME EventInv, PhaseInv, job' = job, pc \notin Untold \cup {"returned"}, Display = "Tui",
         result' = result, pc' \notin Untold \cup {"returned"}, events' = Append(events, "progress")
  PROVE  EventInv'
<1>1. events \in Seq(Kinds) /\ events # <<>> /\ events[1] = "start" /\ result = "pending"
  BY DEF EventInv, Kinds, PhaseInv
<1> USE AppendEvent
<1>2. events' \in Seq(Kinds) /\ events' # <<>> /\ events'[1] = "start"
  BY <1>1 DEF Kinds
<1>3. \A i \in 1 .. Len(events') : events'[i] = IF i <= Len(events) THEN events[i] ELSE "progress"
  BY <1>1 DEF Kinds
<1>4. \A i \in 1 .. Len(events') : events'[i] = "start" => i = 1
  BY <1>1, <1>3 DEF EventInv, Kinds
<1>5. \A i \in 1 .. Len(events') : events'[i] # "done"
  BY <1>1, <1>3 DEF EventInv, Closed, Kinds
<1> QED
  BY <1>1, <1>2, <1>4, <1>5 DEF EventInv, Display, Kinds, Closed

(* The last word on a file, after whatever is told with it. *)
LEMMA TellEnd ==
  ASSUME EventInv, PhaseInv, NEW q \in Seq(Kinds), result = "pending",
         q # <<>>, q[1] = "start", Display' = "Tui",
         \A i \in 1 .. Len(q) : q[i] = "start" => i = 1,
         \A i \in 1 .. Len(q) : q[i] # "done",
         result' # "pending", pc' = "returned", events' = Append(q, "done")
  PROVE  EventInv'
<1>1. events' \in Seq(Kinds) /\ events' # <<>> /\ events'[1] = "start" /\ Len(events') = Len(q) + 1
      /\ Len(q) \in Nat
  BY AppendEvent DEF Kinds
<1>2. \A i \in 1 .. Len(events') : events'[i] = IF i <= Len(q) THEN q[i] ELSE "done"
  BY AppendEvent DEF Kinds
<1>3. \A i \in 1 .. Len(events') : events'[i] = "start" => i = 1
  BY <1>1, <1>2
<1>4. \A i \in 1 .. Len(events') : events'[i] = "done" => i = Len(events')
  BY <1>1, <1>2
<1>5. events'[Len(events')] = "done"
  BY <1>1, <1>2
<1> QED
  BY <1>1, <1>3, <1>4, <1>5 DEF EventInv, Kinds, Closed, Untold

(* The display is told of a start first and of an end last. *)
LEMMA EventStep == TypeInv /\ PhaseInv /\ EventInv /\ [Next]_vars => EventInv'
<1> SUFFICES ASSUME TypeInv, PhaseInv, EventInv, [Next]_vars PROVE EventInv'
  OBVIOUS
<1>1. ASSUME UNCHANGED <<job, pc, events, result>> PROVE EventInv'
  BY <1>1 DEF EventInv, Closed, Display
<1>2. CASE UNCHANGED vars
  BY <1>1, <1>2 DEF vars, tuiVars
<1> SUFFICES ASSUME Next PROVE EventInv'
  BY <1>2
<1>3. job' = job /\ Display' = Display
  BY DEF Next, Display
<1>4. ASSUME result = "pending", events' = events, result' = result,
             pc \in Untold <=> pc' \in Untold, pc' # "returned"
      PROVE  EventInv'
  BY <1>3, <1>4 DEF EventInv, Closed, PhaseInv
<1>5. ASSUME result = "pending", events = <<>>, events' = <<>>, pc' = "returned" \/ pc' \in Untold \/ Display # "Tui"
      PROVE  EventInv'
  BY <1>3, <1>5 DEF EventInv
<1>6. ASSUME Fail, result = "pending"
      PROVE  EventInv'
  <2>1. CASE events = <<>>
    BY <1>5, <1>6, <2>1 DEF Fail, Return
  <2>2. CASE events # <<>>
    <3>1. events \in Seq(Kinds) /\ Display' = "Tui" /\ events' = Append(events, "done")
          /\ events[1] = "start" /\ result' = "error" /\ pc' = "returned"
      BY <1>3, <1>6, <2>2 DEF EventInv, Kinds, Fail, Return
    <3>2. /\ \A i \in 1 .. Len(events) : events[i] = "start" => i = 1
          /\ \A i \in 1 .. Len(events) : events[i] # "done"
      BY <1>6 DEF EventInv, Closed
    <3> QED
      BY <1>6, <2>2, <3>1, <3>2, TellEnd
  <2> QED
    BY <2>1, <2>2
<1>7. CASE Cancel \/ Reclaim \/ ReadIn
  BY <1>1, <1>3, <1>7 DEF Cancel, Reclaim, ReadIn, tuiVars
<1>8. CASE CliCheck \/ Sample
  BY <1>3, <1>4, <1>5, <1>6, <1>8
     DEF CliCheck, Sample, Proceed, tuiVars, PhaseInv, EventInv, Untold, Display
<1>9. CASE Prepare
  BY <1>4, <1>5, <1>6, <1>9 DEF Prepare, Return, tuiVars, PhaseInv, EventInv, Untold
<1>10. CASE TuiCheck \/ ExecuteQuery \/ ExecuteEvict \/ TouchBegin \/ TouchCheck
              \/ ExecuteMlock \/ Measure
  BY <1>4, <1>6, <1>10
     DEF TuiCheck, ExecuteQuery, ExecuteEvict, TouchBegin, TouchCheck, ExecuteMlock, Measure,
         Proceed, WalkEnd, tuiVars, PhaseInv, Untold
<1>11. CASE Announce
  <2>1. pc = "announce" /\ pc' = "recheck" /\ result' = result /\ result = "pending"
        /\ events' = Append(events, "start")
    BY <1>11 DEF Announce, Proceed, PhaseInv
  <2>2. events = <<>> /\ Display = "Tui"
    BY <2>1 DEF EventInv, Untold, PhaseInv
  <2>3. events' = <<"start">>
    BY <2>1, <2>2
  <2> QED
    BY <1>3, <2>1, <2>2, <2>3 DEF EventInv, Untold, Closed
<1>12. CASE TouchPage
  <2>1. PICK p \in Pages :
          /\ TouchRead(p)
          /\ IF p % Interval = 0 /\ Display = "Tui" THEN Progress(p, touched + 1)
             ELSE UNCHANGED <<tuiVars, reported, stats>>
    BY <1>12 DEF TouchPage
  <2>2. pc = "read" /\ pc' \in {"walk", "mlock", "measure"} /\ result' = result /\ result = "pending"
    BY <2>1 DEF TouchRead, Proceed, WalkEnd, PhaseInv
  <2>3. CASE UNCHANGED <<tuiVars, reported, stats>>
    BY <1>4, <2>2, <2>3 DEF tuiVars, Untold
  <2>4. CASE Progress(p, touched + 1) /\ Display = "Tui"
    BY <1>3, <2>2, <2>4, TellMore DEF Progress, Untold
  <2> QED
    BY <2>1, <2>3, <2>4
<1>13. CASE ReportTui
  <2>1. pc = "report" /\ result = "pending" /\ Display = "Tui" /\ result' = "output"
        /\ pc' = "returned"
    BY <1>13 DEF ReportTui, Return, PhaseInv
  <2>2. events \in Seq(Kinds) /\ events # <<>> /\ events[1] = "start"
    BY <2>1 DEF EventInv, Kinds, Untold
  <2>3. /\ \A i \in 1 .. Len(events) : events[i] = "start" => i = 1
        /\ \A i \in 1 .. Len(events) : events[i] # "done"
    BY <2>1 DEF EventInv, Closed
  <2>4. CASE events' = events \o <<"done">>
    <3>1. events' = Append(events, "done")
      BY <2>2, <2>4
    <3> QED
      BY <1>3, <2>1, <2>2, <2>3, <3>1, TellEnd
  <2>5. CASE events' = events \o <<"residency", "done">>
    <3> DEFINE q == Append(events, "residency")
    <3>1. events' = Append(q, "done")
      BY <2>2, <2>5
    <3>2. q \in Seq(Kinds) /\ q # <<>> /\ q[1] = "start"
      BY <2>2, AppendEvent DEF Kinds
    <3>3. \A i \in 1 .. Len(q) : q[i] = IF i <= Len(events) THEN events[i] ELSE "residency"
      BY <2>2, AppendEvent DEF Kinds
    <3>4. /\ \A i \in 1 .. Len(q) : q[i] = "start" => i = 1
          /\ \A i \in 1 .. Len(q) : q[i] # "done"
      BY <2>2, <2>3, <3>3
    <3> HIDE DEF q
    <3> QED
      BY <1>3, <2>1, <3>1, <3>2, <3>4, TellEnd
  <2> QED
    BY <1>13, <2>4, <2>5 DEF ReportTui
<1>14. CASE ReportCli
  BY <1>3, <1>5, <1>14 DEF ReportCli, Return, tuiVars, EventInv, PhaseInv, Display
<1> QED
  BY <1>7, <1>8, <1>9, <1>10, <1>11, <1>12, <1>13, <1>14 DEF Next, Worker, Execute

-----------------------------------------------------------------------------
(* The display shows no page as resident that was not sampled or read. *)
LEMMA ViewStep ==
  TypeInv /\ PhaseInv /\ WalkInv /\ ViewInv /\ [Next]_vars => ViewInv'
<1> SUFFICES ASSUME TypeInv, PhaseInv, WalkInv, ViewInv, [Next]_vars PROVE ViewInv'
  OBVIOUS
<1>1. CASE UNCHANGED vars
  BY <1>1 DEF vars, tuiVars, ViewInv, ProgressIsHonest, Effect, Op
<1> SUFFICES ASSUME Next PROVE ViewInv'
  BY <1>1
<1>2. job' = job /\ Op' = Op /\ Effect' = Effect
  BY DEF Next, Op, Effect
<1>3. ASSUME view' = view, snapshot' = snapshot, read' = read, pc' \in Untold => pc \in Untold
      PROVE  ViewInv'
  BY <1>2, <1>3 DEF ViewInv, ProgressIsHonest
<1>4. ASSUME Fail PROVE ViewInv'
  BY <1>3, <1>4 DEF Fail, Return, Untold
<1>5. CASE Cancel \/ Reclaim \/ ReadIn
  BY <1>3, <1>5 DEF Cancel, Reclaim, ReadIn, tuiVars
<1>6. CASE CliCheck \/ Prepare \/ TuiCheck
  BY <1>3, <1>4, <1>6 DEF CliCheck, Prepare, TuiCheck, Proceed, Return, tuiVars, Untold
<1>7. CASE Sample
  BY <1>4, <1>7 DEF Sample, Proceed, tuiVars, ViewInv, ProgressIsHonest, Untold
<1>8. CASE Announce
  BY <1>8 DEF Announce, Proceed, ViewInv, ProgressIsHonest, Untold
<1>9. CASE ExecuteQuery \/ ExecuteEvict \/ TouchBegin \/ TouchCheck \/ ExecuteMlock \/ Measure
  BY <1>3, <1>4, <1>9
     DEF ExecuteQuery, ExecuteEvict, TouchBegin, TouchCheck, ExecuteMlock, Measure, Proceed,
         WalkEnd, tuiVars, Untold
<1>10. CASE TouchPage
  <2>1. PICK p \in Pages :
          /\ TouchRead(p)
          /\ IF p % Interval = 0 /\ Display = "Tui" THEN Progress(p, touched + 1)
             ELSE UNCHANGED <<tuiVars, reported, stats>>
    BY <1>10 DEF TouchPage
  <2>2. pc = "read" /\ pc' \notin Untold /\ snapshot' = snapshot /\ read' = read \cup {p}
    BY <2>1 DEF TouchRead, Proceed, WalkEnd, Untold
  <2>3. 1 .. p \subseteq snapshot \cup read'
    BY <2>1, <2>2, TouchReadsMissing DEF WalkInv
  <2>4. view' \subseteq view \cup (1 .. p)
    BY <2>1 DEF Progress, tuiVars
  <2> QED
    BY <1>2, <2>2, <2>3, <2>4 DEF ViewInv, ProgressIsHonest
<1>11. CASE ReportTui
  <2>1. pc = "report" /\ view' \in {view, after} /\ snapshot' = snapshot /\ read' = read /\ pc' = "returned"
    BY <1>11 DEF ReportTui, Return
  <2>2. Effect = "Populate" => Op \in Walkers
    BY FileProcessingAssumption DEF TypeInv, Effect, Op, Walkers
  <2>3. Effect = "Populate" => after \subseteq snapshot \cup read
    BY <2>1, <2>2 DEF WalkInv
  <2> QED
    BY <1>2, <2>1, <2>3 DEF ViewInv, ProgressIsHonest, Untold
<1>12. CASE ReportCli
  BY <1>3, <1>12 DEF ReportCli, Return, tuiVars, Untold
<1> QED
  BY <1>5, <1>6, <1>7, <1>8, <1>9, <1>10, <1>11, <1>12 DEF Next, Worker, Execute

(* Locks outlive every step but the one that lets the mapping go. *)
LEMMA LockStep == TypeInv /\ PhaseInv /\ LockInv /\ [Next]_vars => LockInv'
<1> SUFFICES ASSUME TypeInv, PhaseInv, LockInv, [Next]_vars PROVE LockInv'
  OBVIOUS
<1> USE DEF LockInv, LockGuarantee, PhaseInv, Op
<1>1. CASE UNCHANGED vars
  BY <1>1 DEF vars, kernelVars
<1> SUFFICES ASSUME Next PROVE LockInv'
  BY <1>1
<1>2. job' = job
  BY DEF Next
<1>3. ASSUME Fail PROVE LockInv'
  BY <1>3 DEF Fail, Return
<1>4. CASE Cancel \/ Reclaim \/ ReadIn
  BY <1>2, <1>4 DEF Cancel, Reclaim, ReadIn, kernelVars, TypeInv
<1>5. CASE CliCheck \/ Sample \/ Announce \/ TuiCheck
  BY <1>2, <1>3, <1>5 DEF CliCheck, Sample, Announce, TuiCheck, Proceed, kernelVars
<1>6. CASE Prepare
  BY <1>2, <1>3, <1>6 DEF Prepare, Return, kernelVars
<1>7. CASE ExecuteQuery \/ ExecuteEvict
  BY <1>2, <1>3, <1>7 DEF ExecuteQuery, ExecuteEvict, Proceed, kernelVars
<1>8. CASE TouchBegin \/ TouchCheck
  BY <1>2, <1>3, <1>8 DEF TouchBegin, TouchCheck, Proceed, WalkEnd, kernelVars
<1>9. CASE TouchPage
  BY <1>2, <1>9 DEF TouchPage, TouchRead, Proceed, WalkEnd
<1>10. CASE ExecuteMlock \/ Measure
  BY <1>2, <1>3, <1>10 DEF ExecuteMlock, Measure, Proceed, kernelVars
<1>11. CASE ReportTui \/ ReportCli
  BY <1>2, <1>11 DEF ReportTui, ReportCli, Return, KeepsMapping
<1> QED
  BY <1>4, <1>5, <1>6, <1>7, <1>8, <1>9, <1>10, <1>11 DEF Next, Worker, Execute

-----------------------------------------------------------------------------
(* The invariant holds throughout. *)
LEMMA Invariance == Spec => []IInv
<1>1. IInv /\ [Next]_vars => IInv'
  BY TypeStep, PhaseStep, WalkStep, CountStep, StatsStep, EventStep, ViewStep, LockStep DEF IInv
<1> QED
  BY <1>1, InitIInv, PTL DEF Spec

(* Every variable keeps its type, for every operation and display: in        *)
(* particular no counter of a file exceeds its pages (mode.rs:58-134).       *)
THEOREM TypeCorrect == Spec => []TypeOK
<1>1. ASSUME IInv PROVE TypeOK
  <2>1. Cardinality(snapshot) \in 0 .. NPages /\ Cardinality(after) \in 0 .. NPages
        /\ Cardinality(todo) \in 0 .. NPages
    BY <1>1, CardOf DEF IInv, TypeInv
  <2>2. touched \in 0 .. NPages /\ reported \in 0 .. NPages
    BY <1>1, <2>1, FileProcessingAssumption DEF IInv, TypeInv, CountInv
  <2>3. ActionPages(Cardinality(snapshot), Cardinality(after)) \in 0 .. NPages
    <3>1. Op \in {"Query", "Touch", "Evict", "Lock"}
      BY <1>1, FileProcessingAssumption DEF IInv, TypeInv, Op
    <3> QED
      BY <2>1, <3>1, FileProcessingAssumption DEF ActionPages, Minus, Effect
  <2>4. stats \in [files : 0 .. 1, total : 0 .. NPages, initial : 0 .. NPages, action : 0 .. NPages]
    BY <1>1, <2>1, <2>2, <2>3, FileProcessingAssumption
       DEF IInv, StatsInv, Settled, Counted, NoStats
  <2>5. \A i \in DOMAIN events : events[i] \in {"start", "progress", "residency", "done"}
    BY <1>1 DEF IInv, EventInv
  <2> QED
    BY <1>1, <2>2, <2>4, <2>5 DEF IInv, TypeInv, TypeOK, Points
<1> QED
  BY <1>1, Invariance, PTL

(* What a reader of the live counters relies on, at every instant of a walk  *)
(* that reports its progress, fails or is cancelled (mode.rs:81-124).        *)
THEOREM CountersAreBounded == Spec => []StatsBounded
<1>1. ASSUME IInv PROVE StatsBounded
  <2> DEFINE b == Cardinality(snapshot)
             a == Cardinality(after)
  <2>1. b \in 0 .. NPages /\ a \in 0 .. NPages /\ Cardinality(todo) \in Nat
    BY <1>1, CardOf DEF IInv, TypeInv
  <2>2. Op \in {"Query", "Touch", "Evict", "Lock"}
    BY <1>1, FileProcessingAssumption DEF IInv, TypeInv, Op
  <2>3. reported \in Nat /\ reported <= NPages - b /\ (Op \notin Walkers => reported = 0)
    BY <1>1, <2>1, FileProcessingAssumption DEF IInv, TypeInv, CountInv
  <2>4. Effect \in {"Populate", "EvictAdvisory", "Preserve"}
        /\ (Effect = "Populate" <=> Op \in Walkers)
    BY <2>2 DEF Effect, Walkers
  <2> DEFINE Bounded(t, i, n) == /\ Effect = "Populate" => i + n <= t
                                 /\ Effect = "EvictAdvisory" => n <= i
                                 /\ Effect = "Preserve" => n = 0
  <2>5. Bounded(0, 0, 0)
    OBVIOUS
  <2>6. Bounded(NPages, b, reported)
    BY <2>1, <2>3, <2>4, FileProcessingAssumption
  <2>7. Bounded(NPages, b, ActionPages(b, a))
    <3>1. Minus(a, b) + b <= NPages /\ b + Minus(a, b) <= NPages /\ Minus(b, a) <= b
      BY <2>1, FileProcessingAssumption DEF Minus
    <3>2. /\ Effect = "Preserve" => ActionPages(b, a) = 0
          /\ Effect = "Populate" => ActionPages(b, a) = Minus(a, b)
          /\ Effect = "EvictAdvisory" => ActionPages(b, a) = Minus(b, a)
      BY DEF ActionPages
    <3> QED
      BY <3>1, <3>2
  <2>8. Bounded(stats.total, stats.initial, stats.action)
    <3>1. CASE stats = NoStats
      BY <2>5, <3>1 DEF NoStats
    <3>2. CASE stats = Counted(reported)
      BY <2>6, <3>2 DEF Counted
    <3>3. CASE stats = Settled
      BY <2>7, <3>3 DEF Settled, Counted
    <3> QED
      BY <1>1, <3>1, <3>2, <3>3 DEF IInv, StatsInv
  <2> QED
    BY <2>8 DEF StatsBounded
<1> QED
  BY <1>1, Invariance, PTL

(* The differences that progress adds and the rest that the end flushes make *)
(* the total once (mode.rs:89-124).                                          *)
THEOREM CountersSettle == Spec => []StatsSettle
<1>1. IInv => StatsSettle
  BY DEF IInv, StatsInv, StatsSettle, Settled, Counted
<1> QED
  BY <1>1, Invariance, PTL

(* No page is shown as resident that was neither sampled nor read            *)
(* (touch.rs:34-46).                                                         *)
THEOREM ViewIsHonest == Spec => []ProgressIsHonest
<1>1. IInv => ProgressIsHonest
  BY DEF IInv, ViewInv
<1> QED
  BY <1>1, Invariance, PTL

(* A file is opened once and first and closed once and last, on every way    *)
(* out of process_one (mode.rs:58-134).                                      *)
THEOREM FilesOpenAndClose == Spec => []EventProtocol
<1>1. ASSUME IInv PROVE EventProtocol
  <2>1. events \in Seq(Kinds)
    BY <1>1 DEF IInv, EventInv, Kinds
  <2> DEFINE n == Len(events)
             Of(kind) == {i \in 1 .. n : events[i] = kind}
  <2>2. n \in Nat /\ (events # <<>> => n # 0)
    BY <2>1
  <2>3. /\ events # <<>> => events[1] = "start"
        /\ \A i \in 1 .. n : events[i] = "start" => i = 1
        /\ \A i \in 1 .. n : events[i] = "done" => Closed /\ i = n
        /\ (events # <<>> /\ Closed) => events[n] = "done"
    BY <1>1 DEF IInv, EventInv
  <2>4. ASSUME NEW kind \in Kinds
        PROVE  Sent(kind) = Cardinality(Of(kind))
    BY <2>1 DEF Sent
  <2> HIDE DEF n
  <2>5. ASSUME events # <<>> PROVE Sent("start") = 1
    <3>1. Of("start") = {1}
      BY <2>2, <2>3, <2>5
    <3> QED
      BY <2>4, <3>1, FS_Singleton DEF Kinds
  <2>6. CASE events # <<>> /\ Closed
    <3>1. Of("done") = {n}
      BY <2>2, <2>3, <2>6
    <3>2. Sent("done") = 1
      BY <2>4, <3>1, FS_Singleton DEF Kinds
    <3> QED
      BY <2>3, <2>5, <2>6, <3>2 DEF EventProtocol, Closed, n
  <2>7. CASE ~ (events # <<>> /\ Closed)
    <3>1. events = <<>> => n = 0
      BY DEF n
    <3>2. Of("done") = {}
      BY <2>2, <2>3, <2>7, <3>1
    <3>3. Sent("done") = 0
      BY <2>4, <3>2, FS_EmptySet DEF Kinds
    <3> QED
      BY <2>3, <2>5, <2>7, <3>3 DEF EventProtocol, Closed
  <2> QED
    BY <2>6, <2>7
<1> QED
  BY <1>1, Invariance, PTL

(* A lock that was handed out holds every page in memory, and nothing else   *)
(* leaves a page locked (lock.rs, mlock.rs).                                 *)
THEOREM LocksHold == Spec => []LockGuarantee
<1>1. IInv => LockGuarantee
  BY DEF IInv, LockInv
<1> QED
  BY <1>1, Invariance, PTL
=============================================================================
