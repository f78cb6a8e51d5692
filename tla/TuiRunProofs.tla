---------------------------- MODULE TuiRunProofs ----------------------------
(***************************************************************************)
(* Proofs about module TuiRun, for any number of file events: the terminal *)
(* is restored, a cancellation has a cause, and the summary that stays on  *)
(* the screen counts every event that was sent.                            *)
(***************************************************************************)
EXTENDS TuiRun, FiniteSetTheorems, TLAPS

CoreEvents == {"file", "alldone"}
TuiEvents  == {"file", "alldone", "quit"}

(* The file events in a channel. *)
FilesIn(q) == {i \in 1 .. Len(q) : q[i] = "file"}
Files(q)   == Cardinality(FilesIn(q))

-----------------------------------------------------------------------------
(* The events in a channel can be counted. *)
LEMMA FilesType ==
  ASSUME NEW q \in Seq(TuiEvents)
  PROVE  /\ IsFiniteSet(FilesIn(q))
         /\ Files(q) \in Nat
<1>1. IsFiniteSet(1 .. Len(q))
  BY FS_Interval
<1>2. FilesIn(q) \in SUBSET (1 .. Len(q))
  BY DEF FilesIn
<1>3. IsFiniteSet(FilesIn(q))
  BY <1>1, <1>2, FS_Subset
<1> QED
  BY <1>3, FS_CardinalityType DEF Files

(* Sending an event counts it. *)
LEMMA FilesAppend ==
  ASSUME NEW q \in Seq(TuiEvents), NEW e \in TuiEvents
  PROVE  Files(Append(q, e)) = IF e = "file" THEN Files(q) + 1 ELSE Files(q)
<1> DEFINE n == Len(q) + 1
<1>1. /\ Len(Append(q, e)) = n
      /\ \A i \in 1 .. Len(q) : Append(q, e)[i] = q[i]
      /\ Append(q, e)[n] = e
  OBVIOUS
<1>2. CASE e = "file"
  <2>1. FilesIn(Append(q, e)) = FilesIn(q) \cup {n}
    BY <1>1, <1>2 DEF FilesIn
  <2>2. n \notin FilesIn(q)
    BY DEF FilesIn
  <2> QED
    BY <1>2, <2>1, <2>2, FilesType, FS_AddElement DEF Files
<1>3. CASE e # "file"
  <2>1. FilesIn(Append(q, e)) = FilesIn(q)
    BY <1>1, <1>3 DEF FilesIn
  <2> QED
    BY <1>3, <2>1 DEF Files
<1> QED
  BY <1>2, <1>3

(* Receiving one takes it off the count. *)
LEMMA FilesTail ==
  ASSUME NEW q \in Seq(TuiEvents), q # <<>>
  PROVE  Files(q) = IF Head(q) = "file" THEN Files(Tail(q)) + 1 ELSE Files(Tail(q))
<1> DEFINE S == FilesIn(q) \ {1}
           T == FilesIn(Tail(q))
           f == [i \in S |-> i - 1]
<1>1. /\ Len(q) \in Nat \ {0} /\ Len(Tail(q)) = Len(q) - 1
      /\ \A i \in 1 .. Len(q) - 1 : Tail(q)[i] = q[i + 1]
      /\ Head(q) = q[1]
      /\ Tail(q) \in Seq(TuiEvents)
  OBVIOUS
<1>2. f \in Bijection(S, T)
  <2>1. \A i \in S : i \in 2 .. Len(q) /\ q[i] = "file"
    BY <1>1 DEF FilesIn
  <2>2. \A i \in S : i - 1 \in T
    <3> TAKE i \in S
    <3>1. i - 1 \in 1 .. Len(q) - 1 /\ (i - 1) + 1 = i
      BY <1>1, <2>1
    <3> QED
      BY <1>1, <2>1, <3>1 DEF FilesIn
  <2>3. \A j \in T : j + 1 \in S /\ f[j + 1] = j
    <3> TAKE j \in T
    <3>1. j \in 1 .. Len(q) - 1 /\ q[j + 1] = "file"
      BY <1>1 DEF FilesIn
    <3>2. j + 1 \in S /\ (j + 1) - 1 = j
      BY <1>1, <3>1 DEF FilesIn
    <3> QED
      BY <3>2
  <2>4. \A a, b \in S : f[a] = f[b] => a = b
    BY <2>1
  <2> QED
    BY <2>2, <2>3, <2>4 DEF Bijection, Injection, Surjection, IsInjective
<1>3. IsFiniteSet(FilesIn(q)) /\ IsFiniteSet(S)
  BY FilesType, FS_RemoveElement
<1>4. Cardinality(T) = Cardinality(S)
  BY <1>2, <1>3, FS_Bijection DEF ExistsBijection
<1>5. 1 \in FilesIn(q) <=> Head(q) = "file"
  BY <1>1 DEF FilesIn
<1>6. Cardinality(S) = IF Head(q) = "file" THEN Files(q) - 1 ELSE Files(q)
  BY <1>3, <1>5, FS_RemoveElement DEF Files
<1>7. Files(q) \in Nat /\ Files(Tail(q)) \in Nat
  BY <1>1, FilesType
<1> QED
  BY <1>4, <1>6, <1>7 DEF Files

-----------------------------------------------------------------------------
(* The types, with the channels as sequences and no bound on what is shown. *)
QueueInv == coreQ \in Seq(CoreEvents) /\ tuiQ \in Seq(TuiEvents)

PlaceTypes ==
  /\ main \in {"begin", "crawl", "finish", "check", "join", "returned", "unwound", "exited"}
  /\ outcome \in {"none", "ok", "error", "cancelled"}
  /\ result \in {"none", "ok", "error", "cancelled", "tui", "tuipanic"}
  /\ forwarder \in {"absent", "alive", "gone"}
  /\ waiter \in {"absent", "alive", "gone"}
  /\ key \in {"absent", "alive", "gone"}
  /\ tui \in {"start", "setup", "spawn", "recv", "drain", "draw", "leave"} \cup Closed
  /\ flow \in {"continue", "quit", "done"}
  /\ tuiResult \in {"none", "ok", "err", "panic"}

DataTypes ==
  /\ sent \in 0 .. MaxEvents /\ shown \in Nat /\ summary \in Nat
  /\ raw \in BOOLEAN /\ hidden \in BOOLEAN /\ refused \subseteq {"show", "disable"}
  /\ cancelled \in BOOLEAN /\ asked \in BOOLEAN /\ signals \in {0, 1}

TypeInv == PlaceTypes /\ DataTypes

(* The thread of the display has been through the terminal guard. *)
Over == {"report", "ended"}

(* Which threads are there while the display lives, and what is left of it. *)
ThreadInv ==
  /\ main = "returned" => tui = "ended"
  /\ main = "exited" => tui \in {"ended", "killed"}
  /\ tui \in {"restore"} \cup Over => tuiResult # "none"
  /\ tui \notin Closed => tuiResult = "none"
  /\ forwarder = "absent" => tui \in {"start", "setup", "spawn"} \cup Closed
  /\ forwarder = "gone" => tui \in Closed \/ main = "unwound"
  /\ main = "join" => outcome # "none"

(* The terminal is touched only under the guard, and the guard undoes it. *)
TermInv ==
  /\ tui = "start" => ~raw /\ ~hidden
  /\ tui = "setup" => ~hidden
  /\ tui \in Over => (raw => "disable" \in refused) /\ (hidden => "show" \in refused)

(* Quit, wherever it is on its way, comes from a cancelled token. *)
CauseInv ==
  /\ waiter = "gone" => cancelled \/ main = "exited"
  /\ flow = "quit" => cancelled
  /\ \A i \in 1 .. Len(tuiQ) : tuiQ[i] = "quit" => cancelled
  /\ CancelHasCause

(* The main thread once AllDone was sent, or was not because it never began. *)
Past == {"check", "join", "returned", "exited"}

(* AllDone is behind every file event, in either channel. *)
AllDoneInv ==
  /\ \A i \in 1 .. Len(coreQ) : coreQ[i] = "alldone" => main \in Past /\ i = Len(coreQ)
  /\ \A i \in 1 .. Len(tuiQ) :
       tuiQ[i] = "alldone" => /\ main \in Past /\ coreQ = <<>>
                             /\ \A j \in 1 .. Len(tuiQ) : j > i => tuiQ[j] # "file"

(* While the display lives, an event that was sent is shown or in a channel. *)
CountInv ==
  /\ shown <= sent
  /\ tui \notin Closed => sent = shown + Files(coreQ) + Files(tuiQ)
  /\ flow = "done" => main \in Past
  /\ tui \in {"start", "setup", "spawn", "recv"} => flow = "continue"
  /\ (tui \notin Closed /\ flow = "done") => shown = sent
  /\ summary # NotShown => summary = sent /\ main \in Past

IInv == QueueInv /\ TypeInv /\ ThreadInv /\ TermInv /\ CauseInv /\ AllDoneInv /\ CountInv

-----------------------------------------------------------------------------
(* The invariant holds when run_tui is called. *)
LEMMA InitIInv == Init => IInv
<1> SUFFICES ASSUME Init PROVE IInv
  OBVIOUS
<1> USE TuiRunAssumption DEF Init, NotShown, Closed, Over
<1>1. QueueInv
  <2>1. <<>> \in Seq(CoreEvents) /\ <<>> \in Seq(TuiEvents)
    OBVIOUS
  <2> QED
    BY <2>1 DEF QueueInv
<1>2. TypeInv
  <2>1. sent \in 0 .. MaxEvents /\ shown \in Nat /\ summary \in Nat
    OBVIOUS
  <2>2. raw \in BOOLEAN /\ hidden \in BOOLEAN /\ cancelled \in BOOLEAN /\ asked \in BOOLEAN
    OBVIOUS
  <2> QED
    BY <2>1, <2>2 DEF TypeInv, PlaceTypes, DataTypes
<1>3. ThreadInv /\ TermInv /\ CauseInv /\ AllDoneInv
  BY DEF ThreadInv, TermInv, CauseInv, AllDoneInv, CancelHasCause
<1>4. CountInv
  <2>1. FilesIn(<<>>) = {}
    BY DEF FilesIn
  <2>2. Files(<<>>) = 0
    BY <2>1, FS_EmptySet DEF Files
  <2> QED
    BY <2>2 DEF CountInv
<1> QED
  BY <1>1, <1>2, <1>3, <1>4 DEF IInv

(* What goes through the channels. *)
LEMMA QueueStep == QueueInv /\ [Next]_vars => QueueInv'
<1> SUFFICES ASSUME QueueInv, [Next]_vars PROVE QueueInv'
  OBVIOUS
<1> USE DEF QueueInv, mainVars, tuiVars, termVars, helpers, tokenVars, Closed
<1>1. \A q \in Seq(CoreEvents), e \in CoreEvents : Append(q, e) \in Seq(CoreEvents)
  OBVIOUS
<1>2. \A q \in Seq(TuiEvents), e \in TuiEvents : Append(q, e) \in Seq(TuiEvents)
  OBVIOUS
<1>3. \A q \in Seq(CoreEvents) : q # <<>> => Tail(q) \in Seq(CoreEvents) /\ Head(q) \in CoreEvents
  OBVIOUS
<1>4. \A q \in Seq(TuiEvents) : q # <<>> => Tail(q) \in Seq(TuiEvents)
  OBVIOUS
<1>5. <<>> \in Seq(CoreEvents) /\ <<>> \in Seq(TuiEvents)
  OBVIOUS
<1>6. CASE Main
  <2>1. coreQ' = coreQ \/ \E e \in CoreEvents : coreQ' = Append(coreQ, e)
    BY <1>6 DEF Main, CrawlBegin, CrawlSend, CrawlJoined, CrawlFinish, CrawlReturns, Join,
       ScopePanics, SendCore, CoreEvents
  <2>2. tuiQ' = tuiQ
    BY <1>6 DEF Main, CrawlBegin, CrawlSend, CrawlJoined, CrawlFinish, CrawlReturns, Join,
       ScopePanics
  <2> QED
    BY <1>1, <2>1, <2>2
<1>7. CASE Forward
  BY <1>2, <1>3, <1>5, <1>7 DEF Forward, CoreEvents, TuiEvents
<1>8. CASE WaiterWakes \/ KeyQuits \/ KeyLeaves \/ Signal
  BY <1>2, <1>8 DEF WaiterWakes, KeyQuits, KeyLeaves, Signal, TuiEvents
<1>9. CASE Tui
  BY <1>4, <1>5, <1>9
     DEF Tui, TuiStart, TuiSetup, TuiSpawn, TuiReceive, TuiDrain, TuiDraw, TuiLeave, TuiRestore,
         TuiReport, TuiCloses, Handle
<1>10. CASE UNCHANGED vars
  BY <1>10 DEF vars
<1>11. CASE UnwindEnds \/ SecondSignal
  BY <1>5, <1>11 DEF UnwindEnds, SecondSignal, ProcessEnds
<1> QED
  BY <1>6, <1>7, <1>8, <1>9, <1>10, <1>11 DEF Next

(* The next event is one of three. *)
LEMMA HandleType ==
  ASSUME QueueInv, TypeInv, tuiQ # <<>>, Handle
  PROVE  shown' \in Nat /\ flow' \in {"continue", "quit", "done"}
<1>1. Head(tuiQ) \in TuiEvents
  BY DEF QueueInv
<1> QED
  BY <1>1 DEF Handle, TypeInv, PlaceTypes, DataTypes, TuiEvents

(* Every thread is where it can be. *)
LEMMA PlaceStep == QueueInv /\ TypeInv /\ ThreadInv /\ [Next]_vars => PlaceTypes'
<1> SUFFICES ASSUME QueueInv, TypeInv, ThreadInv, [Next]_vars PROVE PlaceTypes'
  OBVIOUS
<1> USE DEF TypeInv, PlaceTypes, ThreadInv, mainVars, tuiVars, termVars, helpers, tokenVars,
        Closed, Over
<1>1. CASE CrawlBegin \/ CrawlJoined \/ CrawlReturns \/ ScopePanics
  BY <1>1 DEF CrawlBegin, CrawlJoined, CrawlReturns, ScopePanics
<1>2. CASE CrawlSend \/ CrawlFinish \/ Join
  BY <1>2 DEF CrawlSend, CrawlFinish, Join
<1>3. CASE Forward
  BY <1>3 DEF Forward
<1>4. CASE WaiterWakes \/ KeyQuits \/ KeyLeaves \/ Signal
  BY <1>4 DEF WaiterWakes, KeyQuits, KeyLeaves, Signal
<1>5. CASE TuiStart \/ TuiSetup \/ TuiSpawn
  BY <1>5 DEF TuiStart, TuiSetup, TuiSpawn, TuiCloses
<1>6. CASE TuiDraw \/ TuiLeave
  BY <1>6 DEF TuiDraw, TuiLeave, TuiCloses
<1>7. CASE TuiReceive \/ TuiDrain
  <2>1. tui' \in {"drain", "draw", "leave"} /\ UNCHANGED <<mainVars, helpers, termVars, tokenVars,
                      tuiResult, summary>>
    BY <1>7 DEF TuiReceive, TuiDrain
  <2>2. flow' \in {"continue", "quit", "done"} /\ shown' \in Nat
    BY <1>7, HandleType DEF TuiReceive, TuiDrain, PlaceTypes, DataTypes
  <2> QED
    BY <2>1, <2>2
<1>8. CASE TuiRestore \/ TuiReport
  BY <1>8 DEF TuiRestore, TuiReport
<1>9. CASE UnwindEnds \/ SecondSignal
  BY <1>9 DEF UnwindEnds, SecondSignal, ProcessEnds
<1>10. CASE UNCHANGED vars
  BY <1>10 DEF vars
<1> QED
  BY <1>1, <1>2, <1>3, <1>4, <1>5, <1>6, <1>7, <1>8, <1>9, <1>10 DEF Next, Main, Tui

(* The counters, the terminal and the token keep their types. *)
LEMMA DataStep == QueueInv /\ TypeInv /\ [Next]_vars => DataTypes'
<1> SUFFICES ASSUME QueueInv, TypeInv, [Next]_vars PROVE DataTypes'
  OBVIOUS
<1> USE TuiRunAssumption
    DEF TypeInv, DataTypes, NotShown, mainVars, tuiVars, termVars, helpers, tokenVars
<1>1. CASE CrawlBegin \/ CrawlJoined \/ CrawlReturns \/ ScopePanics
  BY <1>1 DEF CrawlBegin, CrawlJoined, CrawlReturns, ScopePanics
<1>2. CASE CrawlSend \/ CrawlFinish \/ Join
  BY <1>2 DEF CrawlSend, CrawlFinish, Join
<1>3. CASE Forward
  BY <1>3 DEF Forward
<1>4. CASE WaiterWakes \/ KeyQuits \/ KeyLeaves \/ Signal
  BY <1>4 DEF WaiterWakes, KeyQuits, KeyLeaves, Signal
<1>5. CASE TuiStart \/ TuiSetup \/ TuiSpawn
  BY <1>5 DEF TuiStart, TuiSetup, TuiSpawn, TuiCloses
<1>6. CASE TuiDraw \/ TuiLeave
  BY <1>6 DEF TuiDraw, TuiLeave, TuiCloses
<1>7. CASE TuiReceive \/ TuiDrain
  <2>1. tui' \in {"drain", "draw", "leave"} /\ UNCHANGED <<mainVars, helpers, termVars, tokenVars,
                      tuiResult, summary>>
    BY <1>7 DEF TuiReceive, TuiDrain
  <2>2. flow' \in {"continue", "quit", "done"} /\ shown' \in Nat
    BY <1>7, HandleType DEF TuiReceive, TuiDrain, PlaceTypes, DataTypes
  <2> QED
    BY <2>1, <2>2
<1>8. CASE TuiRestore \/ TuiReport
  BY <1>8 DEF TuiRestore, TuiReport
<1>9. CASE UnwindEnds \/ SecondSignal
  BY <1>9 DEF UnwindEnds, SecondSignal, ProcessEnds
<1>10. CASE UNCHANGED vars
  BY <1>10 DEF vars
<1> QED
  BY <1>1, <1>2, <1>3, <1>4, <1>5, <1>6, <1>7, <1>8, <1>9, <1>10 DEF Next, Main, Tui

(* Which threads there are. *)
LEMMA ThreadStep == TypeInv /\ ThreadInv /\ [Next]_vars => ThreadInv'
<1> SUFFICES ASSUME TypeInv, ThreadInv, [Next]_vars PROVE ThreadInv'
  OBVIOUS
<1> USE DEF TypeInv, PlaceTypes, DataTypes, ThreadInv, mainVars, tuiVars, termVars, helpers,
        tokenVars, Closed, Over
<1>1. CASE Main
  BY <1>1 DEF Main, CrawlBegin, CrawlSend, CrawlJoined, CrawlFinish, CrawlReturns, Join, ScopePanics
<1>2. CASE Forward \/ WaiterWakes \/ KeyQuits \/ KeyLeaves \/ Signal
  BY <1>2 DEF Forward, WaiterWakes, KeyQuits, KeyLeaves, Signal
<1>3. CASE TuiStart \/ TuiSetup \/ TuiSpawn
  BY <1>3 DEF TuiStart, TuiSetup, TuiSpawn, TuiCloses
<1>4. CASE TuiReceive \/ TuiDrain \/ TuiDraw \/ TuiLeave \/ TuiRestore \/ TuiReport
  BY <1>4 DEF TuiReceive, TuiDrain, TuiDraw, TuiLeave, TuiRestore, TuiReport, TuiCloses, Handle
<1>5. CASE UnwindEnds \/ SecondSignal
  BY <1>5 DEF UnwindEnds, SecondSignal, ProcessEnds
<1>6. CASE UNCHANGED vars
  BY <1>6 DEF vars
<1> QED
  BY <1>1, <1>2, <1>3, <1>4, <1>5, <1>6 DEF Next, Tui

(* What the guard has to undo. *)
LEMMA TermStep == TypeInv /\ TermInv /\ [Next]_vars => TermInv'
<1> SUFFICES ASSUME TypeInv, TermInv, [Next]_vars PROVE TermInv'
  OBVIOUS
<1> USE DEF TypeInv, PlaceTypes, DataTypes, TermInv, mainVars, tuiVars, termVars, helpers,
        tokenVars, Closed, Over
<1>1. CASE Main \/ Forward \/ WaiterWakes \/ KeyQuits \/ KeyLeaves \/ Signal
  BY <1>1 DEF Main, CrawlBegin, CrawlSend, CrawlJoined, CrawlFinish, CrawlReturns, Join,
     ScopePanics, Forward, WaiterWakes, KeyQuits, KeyLeaves, Signal
<1>2. CASE TuiStart \/ TuiSetup \/ TuiSpawn
  BY <1>2 DEF TuiStart, TuiSetup, TuiSpawn, TuiCloses
<1>3. CASE TuiReceive \/ TuiDrain \/ TuiDraw \/ TuiLeave
  BY <1>3 DEF TuiReceive, TuiDrain, TuiDraw, TuiLeave, TuiCloses, Handle
<1>4. CASE TuiRestore
  BY <1>4 DEF TuiRestore
<1>5. CASE TuiReport
  BY <1>5 DEF TuiReport
<1>6. CASE UnwindEnds \/ SecondSignal
  BY <1>6 DEF UnwindEnds, SecondSignal, ProcessEnds
<1>7. CASE UNCHANGED vars
  BY <1>7 DEF vars
<1> QED
  BY <1>1, <1>2, <1>3, <1>4, <1>5, <1>6, <1>7 DEF Next, Tui

(* Where a quit comes from. *)
LEMMA CauseStep == QueueInv /\ TypeInv /\ ThreadInv /\ CauseInv /\ [Next]_vars => CauseInv'
<1> SUFFICES ASSUME QueueInv, TypeInv, ThreadInv, CauseInv, [Next]_vars PROVE CauseInv'
  OBVIOUS
<1> USE DEF CauseInv, CancelHasCause, mainVars, tuiVars, termVars, helpers, tokenVars, Closed
<1>1. CASE Main
  BY <1>1 DEF Main, CrawlBegin, CrawlSend, CrawlJoined, CrawlFinish, CrawlReturns, Join, ScopePanics
<1>2. CASE Forward
  <2>1. \A i \in 1 .. Len(tuiQ') : tuiQ'[i] = "quit" => cancelled
    <3>1. CASE coreQ # <<>> /\ tuiQ' = Append(tuiQ, Head(coreQ))
      <4>1. Head(coreQ) # "quit"
        BY <3>1 DEF QueueInv, CoreEvents
      <4> QED
        BY <3>1, <4>1 DEF QueueInv
    <3>2. CASE tuiQ' = tuiQ
      BY <3>2
    <3> QED
      BY <1>2, <3>1, <3>2 DEF Forward
  <2> QED
    BY <1>2, <2>1 DEF Forward
<1>3. CASE WaiterWakes
  BY <1>3 DEF WaiterWakes
<1>4. CASE KeyQuits \/ KeyLeaves \/ Signal
  BY <1>4 DEF KeyQuits, KeyLeaves, Signal
<1>5. CASE TuiStart \/ TuiSetup \/ TuiSpawn \/ TuiDraw \/ TuiLeave \/ TuiRestore \/ TuiReport
  <2>1. cancelled => cancelled'
    BY <1>5 DEF TuiStart, TuiSetup, TuiSpawn, TuiDraw, TuiLeave, TuiRestore, TuiReport
  <2>2. tuiResult = "err" => tuiResult' = "err"
    BY <1>5 DEF TuiStart, TuiSetup, TuiSpawn, TuiDraw, TuiLeave, TuiRestore, TuiReport, TuiCloses,
       ThreadInv
  <2>3. flow' = flow /\ (waiter' = waiter \/ waiter' = "alive") /\ asked' = asked /\ main' = main
    BY <1>5 DEF TuiStart, TuiSetup, TuiSpawn, TuiDraw, TuiLeave, TuiRestore, TuiReport, TuiCloses
  <2>4. tuiQ' = tuiQ \/ tuiQ' = <<>>
    BY <1>5 DEF TuiStart, TuiSetup, TuiSpawn, TuiDraw, TuiLeave, TuiRestore, TuiReport, TuiCloses
  <2>5. cancelled' => cancelled \/ tuiResult' = "err"
    BY <1>5 DEF TuiStart, TuiSetup, TuiSpawn, TuiDraw, TuiLeave, TuiRestore, TuiReport
  <2> QED
    BY <2>1, <2>2, <2>3, <2>4, <2>5
<1>6. CASE TuiReceive \/ TuiDrain
  <2>1. ASSUME tuiQ # <<>>, Handle
        PROVE  /\ \A i \in 1 .. Len(tuiQ') : tuiQ'[i] = "quit" => cancelled
               /\ flow' = "quit" => cancelled
    <3>1. /\ Head(tuiQ) = tuiQ[1] /\ 1 \in 1 .. Len(tuiQ) /\ Head(tuiQ) \in TuiEvents
          /\ \A i \in 1 .. Len(Tail(tuiQ)) : i + 1 \in 1 .. Len(tuiQ) /\ Tail(tuiQ)[i] = tuiQ[i + 1]
      BY <2>1 DEF QueueInv
    <3> QED
      BY <2>1, <3>1 DEF Handle, TuiEvents
  <2>2. (waiter = "gone" /\ tui \notin Closed) => cancelled
    BY DEF ThreadInv
  <2> QED
    BY <1>6, <2>1, <2>2 DEF TuiReceive, TuiDrain
<1>7. CASE UnwindEnds \/ SecondSignal
  BY <1>7 DEF UnwindEnds, SecondSignal, ProcessEnds
<1>8. CASE UNCHANGED vars
  BY <1>8 DEF vars
<1> QED
  BY <1>1, <1>2, <1>3, <1>4, <1>5, <1>6, <1>7, <1>8 DEF Next, Tui

(* AllDone stays behind the file events. *)
LEMMA AllDoneStep ==
  QueueInv /\ TypeInv /\ ThreadInv /\ AllDoneInv /\ [Next]_vars => AllDoneInv'
<1> SUFFICES ASSUME QueueInv, TypeInv, ThreadInv, AllDoneInv, [Next]_vars PROVE AllDoneInv'
  OBVIOUS
<1> USE DEF AllDoneInv, Past, mainVars, tuiVars, termVars, helpers, tokenVars, Closed
<1>1. CASE CrawlBegin \/ CrawlJoined \/ CrawlReturns \/ Join \/ ScopePanics
  BY <1>1 DEF CrawlBegin, CrawlJoined, CrawlReturns, Join, ScopePanics
<1>2. CASE CrawlSend \/ CrawlFinish
  <2>1. PICK e \in CoreEvents :
          /\ e = "alldone" => main' \in Past
          /\ coreQ' = coreQ \/ coreQ' = Append(coreQ, e)
    BY <1>2 DEF CrawlSend, CrawlFinish, SendCore, CoreEvents
  <2>2. main \notin Past /\ UNCHANGED tuiQ
    BY <1>2 DEF CrawlSend, CrawlFinish
  <2>3. /\ \A i \in 1 .. Len(coreQ) : coreQ[i] # "alldone"
        /\ \A i \in 1 .. Len(tuiQ) : tuiQ[i] # "alldone"
    BY <2>2
  <2>4. CASE coreQ' = coreQ
    BY <2>2, <2>3, <2>4
  <2>5. CASE coreQ' = Append(coreQ, e)
    <3>1. /\ Len(coreQ) \in Nat /\ Len(coreQ') = Len(coreQ) + 1 /\ coreQ'[Len(coreQ) + 1] = e
          /\ \A i \in 1 .. Len(coreQ) : coreQ'[i] = coreQ[i]
      BY <2>5 DEF QueueInv
    <3>2. \A i \in 1 .. Len(coreQ') : i \in 1 .. Len(coreQ) \/ i = Len(coreQ')
      BY <3>1
    <3>3. \A i \in 1 .. Len(coreQ') :
             coreQ'[i] = "alldone" => main' \in Past /\ i = Len(coreQ')
      BY <2>1, <2>3, <3>1, <3>2
    <3>4. \A i \in 1 .. Len(tuiQ') : tuiQ'[i] # "alldone"
      BY <2>2, <2>3
    <3> QED
      BY <3>3, <3>4
  <2> QED
    BY <2>1, <2>4, <2>5
<1>3. CASE Forward
  <2>1. CASE coreQ # <<>> /\ coreQ' = Tail(coreQ) /\ tuiQ' = Append(tuiQ, Head(coreQ))
    <3>1. /\ coreQ[1] = Head(coreQ) /\ Len(coreQ) \in Nat \ {0} /\ Len(coreQ') = Len(coreQ) - 1
          /\ \A i \in 1 .. Len(coreQ') : coreQ'[i] = coreQ[i + 1]
          /\ coreQ' \in Seq(CoreEvents)
      BY <2>1 DEF QueueInv
    <3>2. /\ Len(tuiQ') = Len(tuiQ) + 1 /\ Len(tuiQ) \in Nat
          /\ \A i \in 1 .. Len(tuiQ) : tuiQ'[i] = tuiQ[i] /\ tuiQ[i] # "alldone"
          /\ tuiQ'[Len(tuiQ) + 1] = Head(coreQ)
      BY <2>1 DEF QueueInv
    <3>3. UNCHANGED main
      BY <1>3 DEF Forward
    <3>4. Head(coreQ) = "alldone" => main \in Past /\ coreQ' = <<>>
      BY <3>1
    <3>5. \A i \in 1 .. Len(coreQ') :
             coreQ'[i] = "alldone" => main' \in Past /\ i = Len(coreQ')
      BY <3>1, <3>3
    <3>6. \A i \in 1 .. Len(tuiQ') :
             tuiQ'[i] = "alldone" => i = Len(tuiQ') /\ main' \in Past /\ coreQ' = <<>>
      BY <3>2, <3>3, <3>4
    <3> QED
      BY <3>2, <3>5, <3>6
  <2>2. CASE tuiQ' = tuiQ /\ coreQ' = <<>> /\ main' = main
    BY <2>2
  <2> QED
    BY <1>3, <2>1, <2>2 DEF Forward
<1>4. CASE WaiterWakes
  BY <1>4 DEF WaiterWakes, QueueInv
<1>5. CASE KeyQuits \/ KeyLeaves \/ Signal
  BY <1>5 DEF KeyQuits, KeyLeaves, Signal
<1>6. CASE TuiStart \/ TuiSetup \/ TuiSpawn \/ TuiDraw \/ TuiLeave \/ TuiRestore \/ TuiReport
  BY <1>6 DEF TuiStart, TuiSetup, TuiSpawn, TuiDraw, TuiLeave, TuiRestore, TuiReport, TuiCloses
<1>7. CASE TuiReceive \/ TuiDrain
  <2>1. UNCHANGED <<main, coreQ>> /\ (tuiQ' = tuiQ \/ (tuiQ # <<>> /\ tuiQ' = Tail(tuiQ)))
    BY <1>7 DEF TuiReceive, TuiDrain, Handle
  <2>2. CASE tuiQ # <<>> /\ tuiQ' = Tail(tuiQ)
    <3>1. /\ Len(tuiQ) \in Nat \ {0} /\ Len(tuiQ') = Len(tuiQ) - 1
          /\ \A i \in 1 .. Len(tuiQ') : tuiQ'[i] = tuiQ[i + 1]
      BY <2>2 DEF QueueInv
    <3> QED
      BY <2>1, <3>1
  <2> QED
    BY <2>1, <2>2
<1>8. CASE UnwindEnds \/ SecondSignal
  BY <1>8 DEF UnwindEnds, SecondSignal, ProcessEnds
<1>9. CASE UNCHANGED vars
  BY <1>9 DEF vars
<1> QED
  BY <1>1, <1>2, <1>3, <1>4, <1>5, <1>6, <1>7, <1>8, <1>9 DEF Next, Main, Tui

(* Receiving an event of the display: it is counted when it is a file, and    *)
(* AllDone finds nothing left to count.                                       *)
LEMMA HandleCount ==
  ASSUME QueueInv, TypeInv, AllDoneInv, CountInv, tui \notin Closed, flow = "continue",
         tuiQ # <<>>, Handle, UNCHANGED <<main, sent, coreQ>>
  PROVE  /\ shown' <= sent
         /\ sent = shown' + Files(coreQ') + Files(tuiQ')
         /\ flow' = "done" => main \in Past /\ shown' = sent
<1>1. coreQ \in Seq(TuiEvents) /\ tuiQ \in Seq(TuiEvents) /\ Tail(tuiQ) \in Seq(TuiEvents)
  BY DEF QueueInv, CoreEvents, TuiEvents
<1>2. Files(coreQ) \in Nat /\ Files(tuiQ) \in Nat /\ Files(Tail(tuiQ)) \in Nat
  BY <1>1, FilesType
<1>3. Files(tuiQ) = IF Head(tuiQ) = "file" THEN Files(Tail(tuiQ)) + 1 ELSE Files(Tail(tuiQ))
  BY <1>1, FilesTail
<1>4. sent = shown + Files(coreQ) + Files(tuiQ) /\ shown \in Nat /\ sent \in Nat
  BY DEF CountInv, TypeInv, DataTypes
<1>5. tuiQ' = Tail(tuiQ) /\ coreQ' = coreQ
  BY DEF Handle
<1>6. shown' = IF Head(tuiQ) = "file" THEN shown + 1 ELSE shown
  BY DEF Handle
<1>7. sent = shown' + Files(coreQ') + Files(tuiQ') /\ shown' <= sent
  <2>1. Files(coreQ') = Files(coreQ) /\ Files(tuiQ') = Files(Tail(tuiQ))
    BY <1>5
  <2>2. shown' + Files(Tail(tuiQ)) = shown + Files(tuiQ) /\ shown' \in Nat
    BY <1>2, <1>3, <1>4, <1>6
  <2> QED
    BY <1>2, <1>4, <2>1, <2>2
<1>8. ASSUME flow' = "done"
      PROVE  main \in Past /\ shown' = sent
  <2>1. Head(tuiQ) \in TuiEvents /\ Head(tuiQ) = tuiQ[1] /\ 1 \in 1 .. Len(tuiQ)
    BY DEF QueueInv
  <2>2. Head(tuiQ) = "alldone"
    BY <1>8, <2>1 DEF Handle, TuiEvents
  <2>3. main \in Past /\ coreQ = <<>> /\ \A j \in 1 .. Len(tuiQ) : j > 1 => tuiQ[j] # "file"
    BY <2>1, <2>2 DEF AllDoneInv
  <2>4. FilesIn(coreQ) = {} /\ FilesIn(tuiQ) = {}
    BY <2>1, <2>2, <2>3 DEF FilesIn, QueueInv
  <2>5. Files(coreQ) = 0 /\ Files(tuiQ) = 0
    BY <2>4, FS_EmptySet DEF Files
  <2> QED
    BY <1>4, <1>6, <2>2, <2>3, <2>5
<1> QED
  BY <1>7, <1>8

(* No event is lost while the display lives. *)
LEMMA CountStep ==
  QueueInv /\ TypeInv /\ ThreadInv /\ AllDoneInv /\ CountInv /\ [Next]_vars => CountInv'
<1> SUFFICES ASSUME QueueInv, TypeInv, ThreadInv, AllDoneInv, CountInv, [Next]_vars
             PROVE  CountInv'
  OBVIOUS
<1> USE DEF mainVars, tuiVars, termVars, helpers, tokenVars, Closed
<1>1. coreQ \in Seq(TuiEvents) /\ tuiQ \in Seq(TuiEvents)
  BY DEF QueueInv, CoreEvents, TuiEvents
<1>2. /\ Files(coreQ) \in Nat /\ Files(tuiQ) \in Nat
      /\ sent \in 0 .. MaxEvents /\ shown \in Nat /\ MaxEvents \in Nat
  BY <1>1, FilesType, TuiRunAssumption DEF TypeInv, DataTypes
<1>3. CASE CrawlBegin \/ CrawlJoined \/ CrawlReturns \/ Join \/ ScopePanics
  BY <1>3 DEF CrawlBegin, CrawlJoined, CrawlReturns, Join, ScopePanics, CountInv, Past, NotShown
<1>4. CASE CrawlSend
  <2>1. tui \notin Closed => coreQ' = Append(coreQ, "file")
    BY <1>4 DEF CrawlSend, SendCore, ThreadInv
  <2>2. tui \notin Closed => Files(coreQ') = Files(coreQ) + 1
    BY <1>1, <2>1, FilesAppend DEF TuiEvents
  <2>3. sent' = sent + 1 /\ main \notin Past /\ tuiQ' = tuiQ
    BY <1>4 DEF CrawlSend, Past
  <2>4. flow # "done" /\ summary = NotShown
    BY <2>3 DEF CountInv
  <2>5. UNCHANGED <<main, tui, flow, shown, summary>>
    BY <1>4 DEF CrawlSend
  <2>6. sent' = shown' + Files(coreQ') + Files(tuiQ') \/ tui' \in Closed
    BY <1>2, <2>2, <2>3, <2>5 DEF CountInv
  <2>7. shown' <= sent'
    BY <1>2, <2>3, <2>5 DEF CountInv
  <2> QED
    BY <2>4, <2>5, <2>6, <2>7 DEF CountInv, NotShown
<1>5. CASE CrawlFinish
  <2>1. coreQ' = coreQ \/ coreQ' = Append(coreQ, "alldone")
    BY <1>5 DEF CrawlFinish, SendCore
  <2>2. Files(coreQ') = Files(coreQ)
    BY <1>1, <2>1, FilesAppend DEF TuiEvents
  <2>3. UNCHANGED <<sent, tuiQ, tui, flow, shown, summary>> /\ main' \in Past
    BY <1>5 DEF CrawlFinish, Past
  <2> QED
    BY <2>2, <2>3 DEF CountInv, NotShown
<1>6. CASE Forward
  <2>1. UNCHANGED <<main, sent, tui, flow, shown, summary>>
    BY <1>6 DEF Forward
  <2>2. tui \notin Closed => Files(coreQ') + Files(tuiQ') = Files(coreQ) + Files(tuiQ)
    <3>1. CASE coreQ # <<>> /\ coreQ' = Tail(coreQ) /\ tuiQ' = Append(tuiQ, Head(coreQ))
      <4>1. Tail(coreQ) \in Seq(TuiEvents) /\ Head(coreQ) \in TuiEvents
        BY <1>1, <3>1
      <4>2. Files(Tail(coreQ)) \in Nat
        BY <4>1, FilesType
      <4>3. Files(coreQ) = IF Head(coreQ) = "file" THEN Files(coreQ') + 1 ELSE Files(coreQ')
        BY <1>1, <3>1, FilesTail
      <4>4. Files(tuiQ') = IF Head(coreQ) = "file" THEN Files(tuiQ) + 1 ELSE Files(tuiQ)
        BY <1>1, <3>1, <4>1, FilesAppend
      <4> QED
        BY <1>2, <3>1, <4>2, <4>3, <4>4
    <3>2. CASE tui \in Closed
      BY <3>2
    <3>3. CASE coreQ = <<>> /\ coreQ' = <<>> /\ tuiQ' = tuiQ
      BY <3>3
    <3> QED
      BY <1>6, <3>1, <3>2, <3>3 DEF Forward
  <2>3. CASE tui \in Closed
    BY <2>1, <2>3 DEF CountInv, NotShown
  <2>4. CASE tui \notin Closed
    <3>1. coreQ' \in Seq(TuiEvents) /\ tuiQ' \in Seq(TuiEvents)
      BY QueueStep DEF QueueInv, CoreEvents, TuiEvents
    <3>2. Files(coreQ') \in Nat /\ Files(tuiQ') \in Nat
      BY <3>1, FilesType
    <3>3. sent' = shown' + Files(coreQ') + Files(tuiQ')
      BY <1>2, <2>1, <2>2, <2>4, <3>2 DEF CountInv
    <3> QED
      BY <2>1, <3>3 DEF CountInv, NotShown
  <2> QED
    BY <2>3, <2>4
<1>7. CASE WaiterWakes
  <2>1. tuiQ' = tuiQ \/ tuiQ' = Append(tuiQ, "quit")
    BY <1>7 DEF WaiterWakes
  <2>2. Files(tuiQ') = Files(tuiQ)
    BY <1>1, <2>1, FilesAppend DEF TuiEvents
  <2>3. UNCHANGED <<main, sent, coreQ, tui, flow, shown, summary>>
    BY <1>7 DEF WaiterWakes
  <2> QED
    BY <2>2, <2>3 DEF CountInv, NotShown
<1>8. CASE KeyQuits \/ KeyLeaves \/ Signal
  BY <1>8 DEF KeyQuits, KeyLeaves, Signal, CountInv, NotShown
<1>9. CASE TuiStart \/ TuiSetup \/ TuiSpawn \/ TuiDraw
  BY <1>9 DEF TuiStart, TuiSetup, TuiSpawn, TuiDraw, TuiCloses, CountInv, NotShown
<1>10. CASE TuiLeave \/ TuiRestore \/ TuiReport
  BY <1>10 DEF TuiLeave, TuiRestore, TuiReport, TuiCloses, CountInv, NotShown
<1>11. CASE TuiReceive
  <2>1. CASE tuiQ # <<>> /\ Handle
    BY <1>11, <2>1, HandleCount DEF TuiReceive, CountInv, NotShown
  <2>2. CASE tuiQ = <<>>
    BY <1>11, <2>2 DEF TuiReceive, CountInv, NotShown
  <2> QED
    BY <1>11, <2>1, <2>2 DEF TuiReceive
<1>12. CASE TuiDrain
  <2>1. CASE flow = "continue" /\ tuiQ # <<>>
    BY <1>12, <2>1, HandleCount DEF TuiDrain, CountInv, NotShown
  <2>2. CASE ~(flow = "continue" /\ tuiQ # <<>>)
    BY <1>12, <2>2 DEF TuiDrain, CountInv, NotShown
  <2> QED
    BY <2>1, <2>2
<1>13. CASE UnwindEnds \/ SecondSignal
  BY <1>13 DEF UnwindEnds, SecondSignal, ProcessEnds, CountInv, NotShown, Past
<1>14. CASE UNCHANGED vars
  BY <1>14 DEF vars, CountInv, NotShown
<1> QED
  BY <1>3, <1>4, <1>5, <1>6, <1>7, <1>8, <1>9, <1>10, <1>11, <1>12, <1>13, <1>14
     DEF Next, Main, Tui

(* The invariant holds throughout. *)
LEMMA Invariance == Spec => []IInv
<1>1. IInv /\ [Next]_vars => IInv'
  BY QueueStep, PlaceStep, DataStep, ThreadStep, TermStep, CauseStep, AllDoneStep, CountStep
     DEF IInv, TypeInv
<1> QED
  BY <1>1, InitIInv, PTL DEF Spec

-----------------------------------------------------------------------------
(* Every variable stays in its type; no more is shown than was sent.        *)
THEOREM TypeCorrect == Spec => []TypeOK
<1>1. IInv => TypeOK
  <2> SUFFICES ASSUME IInv PROVE TypeOK
    OBVIOUS
  <2> USE DEF IInv
  <2>1. /\ \A i \in DOMAIN coreQ : coreQ[i] \in {"file", "alldone"}
        /\ \A i \in DOMAIN tuiQ : tuiQ[i] \in {"file", "alldone", "quit"}
    BY DEF QueueInv, CoreEvents, TuiEvents
  <2>2. /\ sent \in 0 .. MaxEvents /\ shown \in 0 .. MaxEvents
        /\ summary \in 0 .. NotShown
    BY TuiRunAssumption DEF TypeInv, DataTypes, CountInv, NotShown
  <2> QED
    BY <2>1, <2>2 DEF TypeInv, PlaceTypes, DataTypes, TypeOK
<1> QED
  BY <1>1, Invariance, PTL

(* What print_summary shows when AllDone ended the run counts every event    *)
(* that the workers sent.                                                    *)
THEOREM SummaryCountsAll == Spec => []SummaryIsComplete
<1>1. IInv => SummaryIsComplete
  BY DEF IInv, CountInv, SummaryIsComplete
<1> QED
  BY <1>1, Invariance, PTL

(* run_tui returns only after TerminalStateGuard was dropped, if there was one *)
(* to drop, which is so from enable_raw_mode on, and no call touches the       *)
(* terminal outside of it.  What then remains is what the terminal refused.    *)
THEOREM TerminalComesBack == Spec => []TerminalIsRestored
<1>1. IInv => TerminalIsRestored
  BY DEF IInv, ThreadInv, TermInv, Over, TerminalIsRestored
<1> QED
  BY <1>1, Invariance, PTL

(* Nobody cancels but the user, a signal and a broken terminal.              *)
THEOREM CancelsHaveCauses == Spec => []CancelHasCause
<1>1. IInv => CancelHasCause
  BY DEF IInv, CauseInv
<1> QED
  BY <1>1, Invariance, PTL
=============================================================================
