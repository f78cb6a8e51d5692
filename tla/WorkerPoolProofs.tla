-------------------------- MODULE WorkerPoolProofs --------------------------
(***************************************************************************)
(* Proofs about module WorkerPool, for any number of files and threads:    *)
(* no file is processed twice, Ok means that every file was processed and  *)
(* none failed, the display is told last, nothing outlives the call, and   *)
(* the pool implements the safety part of FileBatch.                       *)
(***************************************************************************)
EXTENDS WorkerPool, FiniteSetTheorems, TLAPS

Stopped == {"exited", "panicked"}
Busy    == {"process", "work"}
Failing == {"store", "record"}

\* Types without the bound on the counter, which CounterInv adds.
TypeInv ==
  /\ cancelled \in BOOLEAN
  /\ main \in MainPoints
  /\ nfiles \in 0 .. MaxFiles
  /\ partial \in BOOLEAN
  /\ spawned \in 0 .. NWorkers
  /\ joined \in 0 .. spawned
  /\ scopeResult \in {"Ok", "Spawn", "WorkerPanic"}
  /\ result \in Results
  /\ worker \in [Workers -> WorkerPoints]
  /\ idx \in [Workers -> Nat]
  /\ stored \in [Workers -> BOOLEAN]
  /\ next \in Nat
  /\ stop \in BOOLEAN
  /\ outputs \in Seq(Indexes)
  /\ firstError \in Indexes \cup {NoError}
  /\ finishes \in {0, 1}
  /\ opFinished \in BOOLEAN
  /\ claims \in [Indexes -> Nat]
  /\ outcome \in [Indexes -> {"pending", "output", "none", "error", "panic"}]

\* The calling thread: which workers exist, which are joined, and what has
\* been established at each of its control points.
MainInv ==
  /\ main \in {"start", "validate", "collect"} => nfiles = 0 /\ spawned = 0
  /\ main \in {"start", "validate", "collect", "spawn", "join", "scope", "display"}
       => finishes = 0
  /\ main = "returned" <=> result # "none"
  /\ main \in {"start", "validate", "collect", "spawn", "join"} => scopeResult = "Ok"
  /\ main = "join" => spawned = NWorkers
  /\ main \in {"scope", "display", "check", "op"} /\ scopeResult = "Ok"
       => spawned = NWorkers /\ joined = spawned
  /\ \A w \in Workers : worker[w] = "unborn" <=> w > spawned
  /\ \A w \in 1 .. joined : worker[w] \in Stopped
  /\ scopeResult # "WorkerPanic" => \A w \in 1 .. joined : worker[w] = "exited"
  /\ main \in {"display", "check", "op", "returned"} => Live = {}
  /\ main \in {"check", "op"} => scopeResult = "Ok" /\ firstError = NoError
  /\ partial => cancelled
  /\ main = "op" => ~partial
  /\ opFinished => main = "returned"

\* The counter and the claims: the indexes below the counter have been
\* claimed, each once, and a worker holds an index that it has claimed.
ClaimInv ==
  /\ \A i \in Indexes : claims[i] = IF i < next /\ i < nfiles THEN 1 ELSE 0
  /\ \A w \in Workers : worker[w] \in Busy \cup Failing \cup {"push"}
       => idx[w] < next /\ idx[w] < nfiles
  /\ spawned = 0 => next = 0

\* What became of each claimed index, and why a worker has exited.
UnclaimedIsPending ==
  \A i \in Indexes : i >= next => outcome[i] = "pending"

ClaimedIsSettled ==
  \A i \in Batch : i < next =>
    outcome[i] # "pending" \/ \E w \in Workers : worker[w] \in Busy /\ idx[w] = i

ErrorIsRecorded ==
  \A i \in Batch : outcome[i] = "error" =>
    firstError # NoError \/ \E w \in Workers : worker[w] \in Failing

PanicIsSeen ==
  \A i \in Batch : outcome[i] = "panic" => \E w \in Workers : worker[w] = "panicked"

ExitHasReason ==
  \A w \in Workers : worker[w] = "exited" => stop \/ next >= nfiles

StopHasReason ==
  stop => firstError # NoError \/ \E w \in Workers : worker[w] = "record"

OutcomeInv ==
  /\ UnclaimedIsPending /\ ClaimedIsSettled
  /\ ErrorIsRecorded /\ PanicIsSeen
  /\ ExitHasReason /\ StopHasReason

\* What the answer Ok, and op.finish() before it, rest on.
Succeeded == \A i \in Batch : outcome[i] \in {"output", "none"}

AnswerInv ==
  /\ main = "op" => Succeeded
  /\ opFinished => Succeeded
  /\ result = "Ok" => opFinished /\ ~partial

IInv == TypeInv /\ MainInv /\ ClaimInv /\ OutcomeInv /\ AnswerInv

-----------------------------------------------------------------------------
(* There is at least one worker, and the workers are numbered. *)
LEMMA WorkerFacts == Effective \in Nat \ {0} /\ Workers = 1 .. Effective
  BY WorkerPoolAssumption DEF Effective, Lesser, Workers

(* No more workers than files, nor than --threads allows; at least one     *)
(* when there is a file.                                                   *)
LEMMA NWorkersBound ==
  ASSUME nfiles \in Nat
  PROVE  /\ NWorkers \in Nat
         /\ NWorkers <= nfiles
         /\ NWorkers <= Effective
         /\ nfiles > 0 => NWorkers > 0
  BY WorkerFacts DEF NWorkers, Lesser

(* A counter that goes up by one leaves every counter a number. *)
LEMMA CountOneMore ==
  ASSUME NEW S, NEW f \in [S -> Nat], NEW i
  PROVE  [f EXCEPT ![i] = @ + 1] \in [S -> Nat]
<1>1. CASE i \in S
  <2>1. f[i] + 1 \in Nat
    BY <1>1
  <2> QED
    BY <2>1
<1>2. CASE i \notin S
  BY <1>2
<1> QED
  BY <1>1, <1>2

(* One more number in an interval. *)
LEMMA OneMore == ASSUME NEW n \in Nat PROVE 1 .. n + 1 = (1 .. n) \cup {n + 1}
  OBVIOUS

(* The types are kept by each step of the calling thread. *)
LEMMA MainTypeInv ==
  ASSUME TypeInv, MainInv, MainStep
  PROVE  TypeInv'
<1> USE WorkerPoolAssumption, WorkerFacts
    DEF TypeInv, MainInv, NWorkers, workerVars, mainVars, Return, MainPoints, Results
<1>1. CASE MainStart
  BY <1>1 DEF MainStart
<1>2. CASE MainValidate
  BY <1>2 DEF MainValidate
<1>3. CASE MainCollect
  <2>1. nfiles' \in 0 .. MaxFiles /\ nfiles' \in Nat
    BY <1>3 DEF MainCollect
  <2>2. spawned = 0 /\ joined = 0
    BY <1>3 DEF MainCollect
  <2>3. NWorkers' \in Nat
    BY <2>1, WorkerFacts DEF NWorkers, Lesser
  <2>4. 0 \in 0 .. NWorkers'
    BY <2>3
  <2> QED
    BY <1>3, <2>1, <2>2, <2>4 DEF MainCollect
<1>4. CASE MainCollectFails
  BY <1>4 DEF MainCollectFails
<1>5. CASE MainSpawn
  <2>1. NWorkers \in Nat /\ NWorkers <= Effective
    BY NWorkersBound
  <2>2. spawned + 1 \in 0 .. NWorkers /\ spawned + 1 \in Workers
    BY <1>5, <2>1 DEF MainSpawn
  <2>3. worker' \in [Workers -> WorkerPoints]
    BY <1>5 DEF MainSpawn, WorkerPoints
  <2>4. joined' \in 0 .. spawned'
    BY <1>5, <2>1, <2>2 DEF MainSpawn
  <2> QED
    BY <1>5, <2>2, <2>3, <2>4 DEF MainSpawn
<1>6. CASE MainSpawnFails
  BY <1>6 DEF MainSpawnFails
<1>7. CASE MainSpawned
  BY <1>7 DEF MainSpawned
<1>8. CASE MainJoin
  <2>1. NWorkers \in Nat
    BY NWorkersBound
  <2>2. joined' \in 0 .. spawned'
    BY <1>8, <2>1 DEF MainJoin
  <2>3. main' \in MainPoints /\ scopeResult' \in {"Ok", "Spawn", "WorkerPanic"}
    BY <1>8 DEF MainJoin
  <2> QED
    BY <1>8, <2>2, <2>3 DEF MainJoin
<1>9. CASE MainJoined
  BY <1>9 DEF MainJoined
<1>10. CASE MainScope
  BY <1>10 DEF MainScope
<1>11. CASE MainDisplay
  BY <1>11 DEF MainDisplay
<1>12. CASE MainCheck
  BY <1>12 DEF MainCheck
<1>13. CASE MainOpFinish
  BY <1>13 DEF MainOpFinish
<1> QED
  BY <1>1, <1>2, <1>3, <1>4, <1>5, <1>6, <1>7, <1>8, <1>9, <1>10, <1>11, <1>12, <1>13 DEF MainStep

(* The control facts are kept by each step of the calling thread. *)
LEMMA MainMainInv ==
  ASSUME IInv, MainStep
  PROVE  MainInv'
<1> USE WorkerPoolAssumption, WorkerFacts
    DEF IInv, TypeInv, MainInv, NWorkers, workerVars, mainVars, Return, Stopped, Live
<1>1. CASE MainStart
  BY <1>1 DEF MainStart
<1>2. CASE MainValidate
  BY <1>2 DEF MainValidate
<1>3. CASE MainCollect
  <2>1. joined = 0 /\ 1 .. joined = {}
    BY <1>3 DEF MainCollect
  <2>2. /\ main = "collect" /\ main' = "spawn"
        /\ UNCHANGED <<cancelled, spawned, joined, scopeResult, result, finishes, opFinished, worker>>
    BY <1>3 DEF MainCollect
  <2>3. partial' => cancelled
    BY <1>3, Zenon DEF MainCollect
  <2> QED
    BY <2>1, <2>2, <2>3
<1>4. CASE MainCollectFails
  BY <1>4 DEF MainCollectFails
<1>5. CASE MainSpawn
  BY <1>5 DEF MainSpawn
<1>6. CASE MainSpawnFails
  BY <1>6 DEF MainSpawnFails
<1>7. CASE MainSpawned
  BY <1>7 DEF MainSpawned
<1>8. CASE MainJoin
  <2>1. NWorkers \in Nat
    BY NWorkersBound
  <2>2. joined \in Nat /\ spawned \in Nat
    BY <2>1
  <2>3. /\ worker' = worker
        /\ worker[joined + 1] \in Stopped
        /\ 1 .. joined' = (1 .. joined) \cup {joined + 1}
    <3>1. joined' = joined + 1
      BY <1>8 DEF MainJoin
    <3>2. 1 .. joined + 1 = (1 .. joined) \cup {joined + 1}
      BY <2>2, OneMore
    <3> QED
      BY <1>8, <3>1, <3>2 DEF MainJoin
  <2>4. \A w \in 1 .. joined' : worker'[w] \in Stopped
    BY <2>3
  <2>5. scopeResult' # "WorkerPanic" => \A w \in 1 .. joined' : worker'[w] = "exited"
    BY <1>8, <2>3 DEF MainJoin
  <2> QED
    BY <1>8, <2>4, <2>5 DEF MainJoin
<1>9. CASE MainJoined
  BY <1>9 DEF MainJoined
<1>10. CASE MainScope
  BY <1>10 DEF MainScope
<1>11. CASE MainDisplay
  BY <1>11 DEF MainDisplay
<1>12. CASE MainCheck
  BY <1>12 DEF MainCheck
<1>13. CASE MainOpFinish
  BY <1>13 DEF MainOpFinish
<1> QED
  BY <1>1, <1>2, <1>3, <1>4, <1>5, <1>6, <1>7, <1>8, <1>9, <1>10, <1>11, <1>12, <1>13 DEF MainStep

(* A worker that takes a step exists and is not joined; it moves only      *)
(* itself, and it changes nothing of the calling thread's.                 *)
LEMMA WorkerMoves ==
  ASSUME TypeInv, NEW w \in Workers, WorkerStep(w)
  PROVE  /\ worker[w] \notin Stopped \cup {"unborn"}
         /\ \E p \in WorkerPoints \ {"unborn"} : worker' = [worker EXCEPT ![w] = p]
         /\ UNCHANGED <<cancelled, mainVars>>
<1> USE DEF Move, Stopped, WorkerPoints
<1>1. CASE Test(w)
  BY <1>1 DEF Test
<1>2. CASE Claim(w)
  BY <1>2 DEF Claim, Claimed
<1>3. CASE ProcessBegin(w)
  BY <1>3 DEF ProcessBegin
<1>4. CASE ProcessEnd(w)
  BY <1>4, WorkerPoolAssumption DEF ProcessEnd, After
<1>5. CASE Push(w)
  BY <1>5 DEF Push
<1>6. CASE Store(w)
  BY <1>6 DEF Store
<1>7. CASE Record(w)
  BY <1>7 DEF Record
<1> QED
  BY <1>1, <1>2, <1>3, <1>4, <1>5, <1>6, <1>7 DEF WorkerStep

(* The types are kept by each step of a worker. *)
LEMMA WorkerTypeInv ==
  ASSUME TypeInv, ClaimInv, NEW w \in Workers, WorkerStep(w)
  PROVE  TypeInv'
<1>1. worker' \in [Workers -> WorkerPoints] /\ UNCHANGED <<cancelled, mainVars>>
  BY WorkerMoves DEF TypeInv
<1>2. UNCHANGED NWorkers
  BY <1>1 DEF NWorkers, mainVars
<1>3. worker[w] \in {"process", "work", "push", "store", "record"} => idx[w] \in Indexes
  BY WorkerPoolAssumption DEF TypeInv, ClaimInv, Busy, Failing, Indexes
<1> USE <1>1, <1>2, <1>3 DEF TypeInv, mainVars, Move
<1>4. CASE Test(w)
  BY <1>4 DEF Test
<1>5. CASE Claim(w)
  <2>1. next' \in Nat /\ idx' \in [Workers -> Nat]
    BY <1>5 DEF Claim, Claimed
  <2>2. claims' \in [Indexes -> Nat]
    <3>1. claims' = claims \/ claims' = [claims EXCEPT ![next] = @ + 1]
      BY <1>5 DEF Claim, Claimed
    <3>2. claims \in [Indexes -> Nat]
      OBVIOUS
    <3>3. [claims EXCEPT ![next] = @ + 1] \in [Indexes -> Nat]
      BY <3>2, CountOneMore, Zenon
    <3> QED
      BY <3>1, <3>2, <3>3
  <2> QED
    BY <1>5, <2>1, <2>2 DEF Claim, Claimed
<1>6. CASE ProcessBegin(w)
  BY <1>6 DEF ProcessBegin, Settle
<1>7. CASE ProcessEnd(w)
  BY <1>7, WorkerPoolAssumption DEF ProcessEnd, Settle
<1>8. CASE Push(w)
  BY <1>8 DEF Push
<1>9. CASE Store(w)
  BY <1>9 DEF Store
<1>10. CASE Record(w)
  BY <1>10 DEF Record
<1> QED
  BY <1>4, <1>5, <1>6, <1>7, <1>8, <1>9, <1>10 DEF WorkerStep

(* The control facts are kept by each step of a worker. *)
LEMMA WorkerMainInv ==
  ASSUME TypeInv, MainInv, NEW w \in Workers, WorkerStep(w)
  PROVE  MainInv'
<1>1. PICK p \in WorkerPoints \ {"unborn"} : worker' = [worker EXCEPT ![w] = p]
  BY WorkerMoves
<1>2. worker[w] \notin Stopped \cup {"unborn"} /\ UNCHANGED <<cancelled, mainVars>>
  BY WorkerMoves
<1>3. UNCHANGED NWorkers
  BY <1>2 DEF NWorkers, mainVars
<1>4. Live # {}
  BY <1>2 DEF Live, Stopped
<1>5. main \notin {"display", "check", "op", "returned"}
  BY <1>4 DEF MainInv
<1>6. w \notin 1 .. joined
  BY <1>2 DEF MainInv
<1>7. \A v \in Workers : worker'[v] = "unborn" <=> v > spawned
  BY <1>1, <1>2 DEF MainInv, TypeInv
<1>8. \A v \in 1 .. joined : worker'[v] = worker[v]
  BY <1>1, <1>6 DEF TypeInv
<1> QED
  BY <1>2, <1>3, <1>5, <1>7, <1>8 DEF MainInv, mainVars

-----------------------------------------------------------------------------
(* Besides collecting and spawning, no step of the calling thread touches  *)
(* the list, the workers or what they share.                               *)
LEMMA MainTouchesLittle ==
  ASSUME MainStep
  PROVE  \/ MainCollect
         \/ MainSpawn
         \/ UNCHANGED <<nfiles, spawned, workerVars>>
<1> USE DEF workerVars
<1>1. CASE MainStart \/ MainValidate \/ MainCollectFails
  BY <1>1 DEF MainStart, MainValidate, MainCollectFails
<1>2. CASE MainSpawnFails \/ MainSpawned \/ MainJoin \/ MainJoined
  BY <1>2 DEF MainSpawnFails, MainSpawned, MainJoin, MainJoined
<1>3. CASE MainScope \/ MainDisplay \/ MainCheck \/ MainOpFinish
  BY <1>3 DEF MainScope, MainDisplay, MainCheck, MainOpFinish
<1> QED
  BY <1>1, <1>2, <1>3 DEF MainStep

(* While the files are collected there is no worker and nothing claimed.   *)
LEMMA Untouched ==
  ASSUME IInv, main \in {"start", "validate", "collect"}
  PROVE  /\ \A w \in Workers : worker[w] = "unborn"
         /\ next = 0 /\ nfiles = 0
         /\ \A i \in Indexes : claims[i] = 0 /\ outcome[i] = "pending"
<1>1. spawned = 0 /\ nfiles = 0
  BY DEF IInv, MainInv
<1>2. \A w \in Workers : worker[w] = "unborn"
  BY <1>1, WorkerFacts DEF IInv, MainInv
<1>3. next = 0
  BY <1>1 DEF IInv, ClaimInv
<1>4. \A i \in Indexes : i \in Nat
  BY WorkerPoolAssumption DEF Indexes
<1>5. \A i \in Indexes : claims[i] = 0
  BY <1>3, <1>4 DEF IInv, ClaimInv
<1>6. \A i \in Indexes : outcome[i] = "pending"
  BY <1>3, <1>4 DEF IInv, OutcomeInv, UnclaimedIsPending
<1> QED
  BY <1>1, <1>2, <1>3, <1>5, <1>6

(* The claims are kept by each step of the calling thread. *)
LEMMA MainClaimInv ==
  ASSUME IInv, MainStep
  PROVE  ClaimInv'
<1>1. CASE MainCollect
  <2>1. main = "collect" /\ UNCHANGED <<spawned, workerVars>>
    BY <1>1 DEF MainCollect
  <2>2. \A w \in Workers : worker'[w] = "unborn"
    BY <2>1, Untouched DEF workerVars
  <2>3. next' = 0 /\ \A i \in Indexes : claims'[i] = 0
    BY <2>1, Untouched DEF workerVars
  <2>4. \A i \in Indexes : ~(i < next')
    BY <2>3, WorkerPoolAssumption DEF Indexes
  <2> QED
    BY <2>2, <2>3, <2>4 DEF ClaimInv, Busy, Failing
<1>2. CASE MainSpawn
  <2>1. /\ worker' = [worker EXCEPT ![spawned + 1] = "test"]
        /\ spawned' = spawned + 1
        /\ UNCHANGED <<nfiles, idx, next, claims>>
    BY <1>2 DEF MainSpawn
  <2>2. spawned \in Nat
    BY NWorkersBound DEF IInv, TypeInv
  <2>3. \A w \in Workers : worker'[w] \in Busy \cup Failing \cup {"push"} => worker'[w] = worker[w]
    BY <2>1 DEF IInv, TypeInv, Busy, Failing
  <2> QED
    BY <2>1, <2>2, <2>3 DEF IInv, ClaimInv
<1>3. CASE UNCHANGED <<nfiles, spawned, workerVars>>
  BY <1>3 DEF IInv, ClaimInv, workerVars
<1> QED
  BY <1>1, <1>2, <1>3, MainTouchesLittle

(* The outcomes are kept by each step of the calling thread. *)
LEMMA MainOutcomeInv ==
  ASSUME IInv, MainStep
  PROVE  OutcomeInv'
<1>1. CASE MainCollect
  <2>1. main = "collect" /\ UNCHANGED workerVars
    BY <1>1 DEF MainCollect
  <2>2. /\ \A w \in Workers : worker'[w] = "unborn"
        /\ next' = 0
        /\ \A i \in Indexes : outcome'[i] = "pending"
    BY <2>1, Untouched DEF workerVars
  <2>3. ~stop' \/ firstError' # NoError \/ \E w \in Workers : worker'[w] = "record"
    BY <2>1 DEF IInv, OutcomeInv, StopHasReason, workerVars
  <2>4. Batch' \subseteq Indexes /\ \A i \in Indexes : ~(i < next')
    BY <1>1, <2>2, WorkerPoolAssumption DEF Batch, Indexes, MainCollect
  <2> QED
    BY <2>2, <2>3, <2>4 DEF OutcomeInv, UnclaimedIsPending, ClaimedIsSettled,
       ErrorIsRecorded, PanicIsSeen, ExitHasReason, StopHasReason
<1>2. CASE MainSpawn
  <2>1. /\ worker' = [worker EXCEPT ![spawned + 1] = "test"]
        /\ UNCHANGED <<nfiles, idx, next, outcome, stop, firstError>>
    BY <1>2 DEF MainSpawn
  <2>2. spawned + 1 \in Workers => worker[spawned + 1] = "unborn"
    BY NWorkersBound DEF IInv, TypeInv, MainInv
  <2>3. \A w \in Workers :
          worker'[w] = worker[w] \/ (worker[w] = "unborn" /\ worker'[w] = "test")
    <3> TAKE w \in Workers
    <3>1. CASE w = spawned + 1
      BY <2>1, <2>2, <3>1 DEF IInv, TypeInv
    <3>2. CASE w # spawned + 1
      <4>1. worker \in [Workers -> WorkerPoints]
        BY DEF IInv, TypeInv
      <4> QED
        BY <2>1, <3>2, <4>1
    <3> QED
      BY <3>1, <3>2
  <2> QED
    BY <2>1, <2>3 DEF Batch, Busy, Failing, IInv, OutcomeInv, UnclaimedIsPending, ClaimedIsSettled,
       ErrorIsRecorded, PanicIsSeen, ExitHasReason, StopHasReason
<1>3. CASE UNCHANGED <<nfiles, spawned, workerVars>>
  BY <1>3 DEF workerVars, Batch, IInv, OutcomeInv, UnclaimedIsPending, ClaimedIsSettled,
       ErrorIsRecorded, PanicIsSeen, ExitHasReason, StopHasReason
<1> QED
  BY <1>1, <1>2, <1>3, MainTouchesLittle

(* When every handle was joined without a panic and no error was recorded, *)
(* every file of the batch has been processed, with success.               *)
LEMMA CheckMeansSuccess ==
  ASSUME IInv, main = "check"
  PROVE  Succeeded
<1>1. /\ Live = {} /\ firstError = NoError
      /\ spawned = NWorkers /\ joined = spawned
      /\ \A w \in 1 .. joined : worker[w] = "exited"
  BY DEF IInv, MainInv
<1>2. nfiles \in Nat /\ NWorkers \in Nat /\ NWorkers <= Effective
  BY NWorkersBound, WorkerPoolAssumption DEF IInv, TypeInv
<1>3. \A w \in Workers : worker[w] \in {"exited", "unborn"}
  BY <1>1, <1>2, WorkerFacts DEF IInv, MainInv
<1>4. ~stop
  BY <1>1, <1>3 DEF IInv, OutcomeInv, StopHasReason
<1> SUFFICES ASSUME NEW i \in Batch PROVE outcome[i] \in {"output", "none"}
  BY DEF Succeeded
<1>5. nfiles > 0 /\ i < nfiles /\ i \in Indexes /\ i \in Nat
  BY <1>2, WorkerPoolAssumption DEF Batch, Indexes, IInv, TypeInv
<1>6. 1 \in 1 .. joined /\ 1 \in Workers
  BY <1>1, <1>2, <1>5, NWorkersBound, WorkerFacts
<1>7. next >= nfiles
  BY <1>1, <1>4, <1>6 DEF IInv, OutcomeInv, ExitHasReason
<1>8. i < next
  BY <1>5, <1>7, <1>2 DEF IInv, TypeInv
<1>9. outcome[i] \notin {"pending", "error", "panic"}
  BY <1>1, <1>3, <1>8 DEF IInv, Busy, Failing, OutcomeInv, ClaimedIsSettled,
       ErrorIsRecorded, PanicIsSeen
<1> QED
  BY <1>5, <1>9 DEF IInv, TypeInv

(* What Ok rests on is kept by each step of the calling thread. *)
LEMMA MainAnswerInv ==
  ASSUME IInv, MainStep
  PROVE  AnswerInv'
<1>1. CASE MainCheck
  <2>1. Succeeded
    BY <1>1, CheckMeansSuccess DEF MainCheck
  <2>2. Succeeded'
    BY <1>1, <2>1 DEF MainCheck, workerVars, Succeeded, Batch
  <2> QED
    BY <1>1, <2>2 DEF MainCheck, AnswerInv, IInv, MainInv, Return
<1>2. CASE MainOpFinish
  BY <1>2 DEF MainOpFinish, AnswerInv, IInv, MainInv, Return, workerVars, Succeeded, Batch
<1>3. CASE MainStart \/ MainValidate \/ MainCollect \/ MainCollectFails \/ MainSpawn
  <2>0. main # "returned"
    BY <1>3 DEF MainStart, MainValidate, MainCollect, MainCollectFails, MainSpawn
  <2>1. ~opFinished' /\ main' # "op" /\ result' # "Ok"
    <3>1. ~opFinished /\ result = "none"
      BY <2>0 DEF IInv, MainInv
    <3>2. CASE MainStart \/ MainValidate
      BY <3>1, <3>2 DEF MainStart, MainValidate, Return
    <3>3. CASE MainCollect
      BY <3>1, <3>3 DEF MainCollect
    <3>4. CASE MainCollectFails
      BY <3>1, <3>4 DEF MainCollectFails, Return
    <3>5. CASE MainSpawn
      BY <3>1, <3>5 DEF MainSpawn
    <3> QED
      BY <1>3, <3>2, <3>3, <3>4, <3>5
  <2> QED
    BY <2>1 DEF AnswerInv
<1>4. CASE MainSpawnFails \/ MainSpawned \/ MainJoin \/ MainJoined \/ MainScope \/ MainDisplay
  <2>1. ~opFinished' /\ main' # "op" /\ result' # "Ok"
    BY <1>4 DEF MainSpawnFails, MainSpawned, MainJoin, MainJoined, MainScope, MainDisplay,
                IInv, MainInv, TypeInv, Return
  <2> QED
    BY <2>1 DEF AnswerInv
<1> QED
  BY <1>1, <1>2, <1>3, <1>4 DEF MainStep

-----------------------------------------------------------------------------
(* The claims are kept by each step of a worker. *)
LEMMA WorkerClaimInv ==
  ASSUME IInv, NEW w \in Workers, WorkerStep(w)
  PROVE  ClaimInv'
<1>1. UNCHANGED <<nfiles, spawned>> /\ spawned # 0
  <2>1. worker[w] # "unborn" /\ UNCHANGED <<nfiles, spawned>>
    BY WorkerMoves DEF mainVars, IInv
  <2>2. ~(w > spawned)
    BY <2>1 DEF IInv, MainInv
  <2> QED
    BY <2>1, <2>2, WorkerFacts
<1>2. \A i \in Indexes : i \in Nat /\ claims[i] \in Nat
  BY WorkerPoolAssumption DEF Indexes, IInv, TypeInv
<1> USE <1>1, <1>2 DEF IInv, TypeInv, ClaimInv, Move, Busy, Failing
<1>3. CASE Test(w)
  BY <1>3 DEF Test
<1>4. CASE Claim(w)
  <2>1. next' = next + 1 /\ idx' = [idx EXCEPT ![w] = next]
    BY <1>4 DEF Claim, Claimed
  <2>2. CASE next < nfiles
    <3>1. worker' = [worker EXCEPT ![w] = "process"] /\ claims' = [claims EXCEPT ![next] = @ + 1]
      BY <1>4, <2>2 DEF Claim, Claimed
    <3>2. (\A i \in Indexes : claims[i] = IF i < next /\ i < nfiles THEN 1 ELSE 0)'
      BY <2>1, <2>2, <3>1
    <3>3. (\A v \in Workers : worker[v] \in {"process", "work", "store", "record", "push"}
             => idx[v] < next /\ idx[v] < nfiles)'
      BY <2>1, <2>2, <3>1
    <3> QED
      BY <2>1, <2>2, <3>2, <3>3
  <2>3. CASE ~(next < nfiles)
    <3>1. worker' = [worker EXCEPT ![w] = "exited"] /\ claims' = claims
      BY <1>4, <2>3 DEF Claim, Claimed
    <3> QED
      BY <2>1, <2>3, <3>1
  <2> QED
    BY <2>2, <2>3
<1>5. CASE ProcessBegin(w)
  BY <1>5 DEF ProcessBegin
<1>6. CASE ProcessEnd(w)
  <2>1. \E p \in WorkerPoints : worker' = [worker EXCEPT ![w] = p]
    BY WorkerMoves
  <2>2. UNCHANGED <<idx, next, claims>> /\ worker[w] = "work"
    BY <1>6 DEF ProcessEnd
  <2> QED
    BY <2>1, <2>2
<1>7. CASE Push(w)
  BY <1>7 DEF Push
<1>8. CASE Store(w)
  BY <1>8 DEF Store
<1>9. CASE Record(w)
  BY <1>9 DEF Record
<1> QED
  BY <1>3, <1>4, <1>5, <1>6, <1>7, <1>8, <1>9 DEF WorkerStep

(* The outcomes are kept by each step of a worker. *)
LEMMA WorkerOutcomeInv ==
  ASSUME IInv, NEW w \in Workers, WorkerStep(w)
  PROVE  OutcomeInv'
<1>1. PICK p \in WorkerPoints : worker' = [worker EXCEPT ![w] = p]
  BY WorkerMoves DEF IInv
<1>2. /\ \A v \in Workers \ {w} : worker'[v] = worker[v]
      /\ worker'[w] = p
  BY <1>1 DEF IInv, TypeInv
<1>3. \A v \in Workers \ {w} : idx'[v] = idx[v]
  <2>1. idx' = idx \/ idx' = [idx EXCEPT ![w] = next]
    BY DEF WorkerStep, Test, Claim, Claimed, ProcessBegin, ProcessEnd, Push, Store, Record
  <2> QED
    BY <2>1 DEF IInv, TypeInv
<1>4. worker[w] \notin Stopped /\ nfiles' = nfiles
  BY WorkerMoves DEF mainVars, IInv
<1>5. /\ Batch \subseteq Indexes /\ Batch' = Batch
      /\ \A i \in Indexes : i \in Nat
      /\ \A i \in Batch : i < nfiles
      /\ next \in Nat /\ nfiles \in Nat
  BY <1>4, WorkerPoolAssumption DEF Batch, Indexes, IInv, TypeInv
<1>6. worker[w] \in Busy \cup Failing \cup {"push"} =>
        idx[w] \in Nat /\ idx[w] < next /\ idx[w] \in Batch
  BY <1>5 DEF IInv, TypeInv, ClaimInv, Batch
<1>7. OutcomeInv
  BY DEF IInv
<1>8. NoError \notin Indexes
  BY WorkerPoolAssumption DEF NoError, Indexes
<1> USE <1>2, <1>3, <1>4, <1>5, <1>7
    DEF UnclaimedIsPending, ClaimedIsSettled, ErrorIsRecorded, PanicIsSeen, ExitHasReason,
        StopHasReason, Busy, Failing, Stopped
<1>9. CASE Test(w)
  <2>1. /\ worker[w] = "test" /\ p \in {"exited", "claim"} /\ (p = "exited" => stop)
        /\ UNCHANGED <<idx, next, stop, firstError, outcome>>
    <3>1. PICK seen \in {stop} \cup (IF stored[w] THEN {} ELSE {FALSE}) :
            Move(w, "test", IF seen THEN "exited" ELSE "claim")
      BY <1>9 DEF Test
    <3>2. seen => stop
      BY <3>1, Zenon
    <3>3. p = IF seen THEN "exited" ELSE "claim"
      BY <3>1 DEF Move, IInv, TypeInv
    <3>4. worker[w] = "test" /\ UNCHANGED <<idx, next, stop, firstError, outcome>>
      BY <1>9, <3>1 DEF Test, Move
    <3> QED
      BY <3>2, <3>3, <3>4
  <2> QED
    BY <2>1 DEF OutcomeInv
<1>10. CASE Claim(w)
  <2>1. /\ worker[w] = "claim" /\ next' = next + 1 /\ idx'[w] = next
        /\ UNCHANGED <<outcome, stop, firstError>>
        /\ IF next < nfiles THEN p = "process" ELSE p = "exited"
    BY <1>10 DEF Claim, Claimed, Move, IInv, TypeInv
  <2>2. UnclaimedIsPending' /\ ErrorIsRecorded' /\ PanicIsSeen' /\ StopHasReason' /\ ExitHasReason'
    BY <2>1 DEF OutcomeInv
  <2>3. ClaimedIsSettled'
    <3> SUFFICES ASSUME NEW i \in Batch, i < next', outcome'[i] = "pending"
                 PROVE  \E v \in Workers : worker'[v] \in Busy /\ idx'[v] = i
      OBVIOUS
    <3>1. CASE i = next
      BY <2>1, <3>1
    <3>2. CASE i < next
      BY <2>1, <3>2 DEF OutcomeInv
    <3> QED
      BY <2>1, <3>1, <3>2
  <2> QED
    BY <2>2, <2>3 DEF OutcomeInv
<1>11. ASSUME ProcessBegin(w) \/ ProcessEnd(w)
       PROVE  OutcomeInv'
  <2>1. /\ worker[w] \in Busy /\ UNCHANGED <<idx, next, stop, firstError>>
        /\ \/ p = "work" /\ outcome' = outcome
           \/ \E o \in {"output", "none", "error", "panic"} :
                /\ outcome' = [outcome EXCEPT ![idx[w]] = o]
                /\ p = After[o]
    <3>1. CASE ProcessBegin(w)
      <4>1. /\ worker[w] = "process" /\ UNCHANGED <<idx, next, stop, firstError>>
            /\ \/ worker'[w] = "work" /\ outcome' = outcome
               \/ worker'[w] = "store" /\ outcome' = [outcome EXCEPT ![idx[w]] = "error"]
               \/ worker'[w] = "test" /\ outcome' = [outcome EXCEPT ![idx[w]] = "none"]
        BY <3>1 DEF ProcessBegin, Move, Settle, IInv, TypeInv
      <4> QED
        BY <4>1 DEF After
    <3>2. CASE ProcessEnd(w)
      <4>1. PICK o \in Outcomes : Move(w, "work", After[o]) /\ Settle(w, o)
        BY <3>2 DEF ProcessEnd
      <4>2. UNCHANGED <<idx, next, stop, firstError>>
        BY <3>2 DEF ProcessEnd
      <4>3. o \in {"output", "none", "error", "panic"}
        BY WorkerPoolAssumption
      <4> QED
        BY <4>1, <4>2, <4>3 DEF Move, Settle, IInv, TypeInv
    <3> QED
      BY <1>11, <3>1, <3>2
  <2>2. CASE p = "work" /\ outcome' = outcome
    BY <2>1, <2>2 DEF OutcomeInv
  <2>3. ASSUME NEW o \in {"output", "none", "error", "panic"},
               outcome' = [outcome EXCEPT ![idx[w]] = o], p = After[o]
        PROVE  OutcomeInv'
    <3>1. idx[w] \in Nat /\ idx[w] < next /\ idx[w] \in Batch
      BY <2>1, <1>6
    <3>2. outcome'[idx[w]] = o /\ \A i \in Indexes \ {idx[w]} : outcome'[i] = outcome[i]
      BY <2>3, <3>1 DEF IInv, TypeInv
    <3>3. p \in {"push", "test", "store", "panicked"}
          /\ (o = "error" <=> p = "store") /\ (o = "panic" <=> p = "panicked")
      BY <2>3 DEF After
    <3>4. UnclaimedIsPending'
      BY <2>1, <3>1, <3>2 DEF OutcomeInv
    <3>5. ClaimedIsSettled'
      BY <2>1, <3>1, <3>2 DEF OutcomeInv
    <3>6. ErrorIsRecorded' /\ PanicIsSeen'
      BY <2>1, <3>1, <3>2, <3>3 DEF OutcomeInv
    <3>7. ExitHasReason' /\ StopHasReason'
      BY <2>1, <3>3 DEF OutcomeInv
    <3> QED
      BY <3>4, <3>5, <3>6, <3>7 DEF OutcomeInv
  <2> QED
    BY <2>1, <2>2, <2>3
<1>12. CASE Push(w)
  <2>1. /\ worker[w] = "push" /\ p = "test"
        /\ UNCHANGED <<idx, next, stop, firstError, outcome>>
    BY <1>12 DEF Push, Move, IInv, TypeInv
  <2> QED
    BY <2>1 DEF OutcomeInv
<1>13. CASE Store(w)
  <2>1. /\ worker[w] = "store" /\ p = "record"
        /\ UNCHANGED <<idx, next, firstError, outcome>>
    BY <1>13 DEF Store, Move, IInv, TypeInv
  <2>2. ExitHasReason'
    BY <1>13, <2>1 DEF OutcomeInv, Store
  <2> QED
    BY <2>1, <2>2 DEF OutcomeInv
<1>14. CASE Record(w)
  <2>1. /\ worker[w] = "record" /\ p = "test"
        /\ UNCHANGED <<idx, next, stop, outcome>>
        /\ firstError' # NoError
    BY <1>14, <1>6, <1>8 DEF Record, Move, IInv, TypeInv
  <2> QED
    BY <2>1 DEF OutcomeInv
<1> QED
  BY <1>9, <1>10, <1>11, <1>12, <1>13, <1>14 DEF WorkerStep

(* A worker takes no step once op.finish() may have been called. *)
LEMMA WorkerAnswerInv ==
  ASSUME IInv, NEW w \in Workers, WorkerStep(w)
  PROVE  AnswerInv'
<1>1. worker[w] \notin Stopped \cup {"unborn"} /\ UNCHANGED mainVars
  BY WorkerMoves DEF IInv
<1>2. Live # {}
  BY <1>1 DEF Live, Stopped
<1>3. main \notin {"op", "returned"}
  BY <1>2 DEF IInv, MainInv
<1>4. ~opFinished /\ result # "Ok"
  BY <1>3 DEF IInv, MainInv
<1> QED
  BY <1>1, <1>3, <1>4 DEF AnswerInv, mainVars

-----------------------------------------------------------------------------
(* The initial state satisfies the invariant. *)
LEMMA InitIInv == Init => IInv
<1> SUFFICES ASSUME Init PROVE IInv
  OBVIOUS
<1>1. /\ \A w \in Workers : worker[w] = "unborn"
      /\ \A i \in Indexes : claims[i] = 0 /\ outcome[i] = "pending" /\ i \in Nat
      /\ Batch = {}
  BY WorkerPoolAssumption DEF Init, Indexes, Batch
<1>2. NWorkers = 0
  BY WorkerFacts DEF NWorkers, Lesser, Init
<1>3. TypeInv
  <2>1. /\ worker \in [Workers -> WorkerPoints]
        /\ idx \in [Workers -> Nat] /\ stored \in [Workers -> BOOLEAN]
    BY DEF Init, WorkerPoints
  <2>2. /\ claims \in [Indexes -> Nat]
        /\ outcome \in [Indexes -> {"pending", "output", "none", "error", "panic"}]
    BY DEF Init
  <2>3. main \in MainPoints /\ result \in Results /\ nfiles \in 0 .. MaxFiles
    BY WorkerPoolAssumption DEF Init, MainPoints, Results
  <2>4. spawned \in 0 .. NWorkers /\ joined \in 0 .. spawned
    BY <1>2 DEF Init
  <2>5. /\ outputs \in Seq(Indexes) /\ next \in Nat /\ finishes \in {0, 1}
        /\ firstError \in Indexes \cup {NoError}
        /\ scopeResult \in {"Ok", "Spawn", "WorkerPanic"}
    BY DEF Init
  <2>6. cancelled \in BOOLEAN /\ partial \in BOOLEAN /\ stop \in BOOLEAN /\ opFinished \in BOOLEAN
    BY DEF Init
  <2> QED
    BY <2>1, <2>2, <2>3, <2>4, <2>5, <2>6 DEF TypeInv
<1>4. MainInv
  BY <1>1, WorkerFacts DEF Init, MainInv, Live, Stopped
<1>5. ClaimInv
  BY <1>1 DEF Init, ClaimInv, Busy, Failing
<1>6. OutcomeInv
  BY <1>1 DEF Init, OutcomeInv, UnclaimedIsPending, ClaimedIsSettled, ErrorIsRecorded,
              PanicIsSeen, ExitHasReason, StopHasReason
<1>7. AnswerInv
  BY DEF Init, AnswerInv
<1> QED
  BY <1>3, <1>4, <1>5, <1>6, <1>7 DEF IInv

(* A cancellation, which may come at any time, keeps the invariant. *)
LEMMA CancelIInv == ASSUME IInv, Cancel PROVE IInv'
<1> USE DEF IInv, Cancel, mainVars, workerVars
<1>1. TypeInv'
  BY DEF TypeInv, NWorkers
<1>2. MainInv'
  BY DEF MainInv, NWorkers, Live
<1>3. ClaimInv'
  BY DEF ClaimInv
<1>4. OutcomeInv'
  BY DEF OutcomeInv, UnclaimedIsPending, ClaimedIsSettled, ErrorIsRecorded, PanicIsSeen,
         ExitHasReason, StopHasReason, Batch
<1>5. AnswerInv'
  BY DEF AnswerInv, Succeeded, Batch
<1> QED
  BY <1>1, <1>2, <1>3, <1>4, <1>5

(* The invariant depends on nothing but the variables. *)
LEMMA StutterIInv == ASSUME IInv, UNCHANGED vars PROVE IInv'
  BY DEF vars, mainVars, workerVars, IInv, TypeInv, NWorkers, MainInv, Live, ClaimInv,
         OutcomeInv, UnclaimedIsPending, ClaimedIsSettled, ErrorIsRecorded, PanicIsSeen,
         ExitHasReason, StopHasReason, Batch, AnswerInv, Succeeded

(* The invariant holds in every reachable state. *)
LEMMA InvariantHolds == SafeSpec => []IInv
<1>1. Init => IInv
  BY InitIInv
<1>2. IInv /\ [Next]_vars => IInv'
  <2> SUFFICES ASSUME IInv, [Next]_vars PROVE IInv'
    OBVIOUS
  <2>1. CASE MainStep
    BY <2>1, MainTypeInv, MainMainInv, MainClaimInv, MainOutcomeInv, MainAnswerInv DEF IInv
  <2>2. ASSUME NEW w \in Workers, WorkerStep(w) PROVE IInv'
    BY <2>2, WorkerTypeInv, WorkerMainInv, WorkerClaimInv, WorkerOutcomeInv, WorkerAnswerInv
       DEF IInv
  <2>3. CASE Cancel
    BY <2>3, CancelIInv
  <2>4. CASE UNCHANGED vars
    BY <2>4, StutterIInv
  <2> QED
    BY <2>1, <2>2, <2>3, <2>4 DEF Next, Done
<1> QED
  BY <1>1, <1>2, PTL DEF SafeSpec

-----------------------------------------------------------------------------
(* No file is processed by two workers, or twice by one.                   *)
THEOREM ClaimsAreUnique == SafeSpec => []ClaimedOnce
<1>1. IInv => ClaimedOnce
  BY WorkerPoolAssumption DEF IInv, ClaimInv, ClaimedOnce
<1> QED
  BY <1>1, InvariantHolds, PTL

(* crawl_and_process answers Ok only when the walk was not cut short and   *)
(* every file it found was processed, none with an error or a panic.       *)
THEOREM OkMeansComplete == SafeSpec => []OkIsComplete
<1>1. IInv => OkIsComplete
  BY DEF IInv, AnswerInv, Succeeded, OkIsComplete
<1> QED
  BY <1>1, InvariantHolds, PTL

(* display.finish() comes after the last worker has stopped, and so does   *)
(* the return, on every path.                                              *)
THEOREM FinishComesLast == SafeSpec => []FinishIsLast
<1>1. IInv => FinishIsLast
  BY DEF IInv, TypeInv, MainInv, MainPoints, FinishIsLast
<1> QED
  BY <1>1, InvariantHolds, PTL

(* op.finish() comes after every file succeeded and every thread stopped.  *)
THEOREM OpFinishComesLast == SafeSpec => []OpFinishIsLast
<1>1. IInv => OpFinishIsLast
  BY DEF IInv, MainInv, AnswerInv, Succeeded, OpFinishIsLast
<1> QED
  BY <1>1, InvariantHolds, PTL

-----------------------------------------------------------------------------
\* The overshoot of the counter: each claim past the end of the list ends a
\* worker, so it is paid for by a worker that has exited.
Exited     == {w \in Workers : worker[w] = "exited"}
CounterInv == next <= nfiles \/ next - nfiles <= Cardinality(Exited)

(* The workers that have ended can be counted. *)
LEMMA ExitedIsFinite ==
  /\ IsFiniteSet(Workers) /\ IsFiniteSet(Exited) /\ IsFiniteSet(Exited')
  /\ Cardinality(Exited) \in Nat /\ Cardinality(Exited') \in Nat
<1>1. IsFiniteSet(Workers)
  BY WorkerFacts, FS_Interval
<1>2. IsFiniteSet(Exited) /\ IsFiniteSet(Exited')
  BY <1>1, FS_Subset DEF Exited
<1> QED
  BY <1>1, <1>2, FS_CardinalityType

(* The overshoot is kept by each step of a worker. *)
LEMMA WorkerCounterInv ==
  ASSUME IInv, CounterInv, NEW w \in Workers, WorkerStep(w)
  PROVE  CounterInv'
<1>1. PICK p \in WorkerPoints : worker' = [worker EXCEPT ![w] = p]
  BY WorkerMoves DEF IInv
<1>2. worker[w] # "exited" /\ nfiles' = nfiles
  BY WorkerMoves DEF mainVars, IInv, Stopped
<1>3. \A v \in Workers : worker'[v] = IF v = w THEN p ELSE worker[v]
  BY <1>1 DEF IInv, TypeInv
<1>4. Exited' = (IF p = "exited" THEN Exited \cup {w} ELSE Exited) /\ w \notin Exited
  BY <1>2, <1>3 DEF Exited
<1>5. p = "exited" => Cardinality(Exited') = Cardinality(Exited) + 1
  BY <1>4, ExitedIsFinite, FS_AddElement
<1>6. next \in Nat /\ nfiles \in Nat
  BY DEF IInv, TypeInv
<1>7. CASE Claim(w)
  <2>1. next' = next + 1 /\ (~(next < nfiles) => p = "exited")
    BY <1>7, <1>3 DEF Claim, Claimed, Move, IInv, TypeInv
  <2> QED
    BY <2>1, <1>2, <1>4, <1>5, <1>6, ExitedIsFinite DEF CounterInv
<1>8. CASE ~Claim(w)
  <2>1. next' = next
    BY <1>8 DEF WorkerStep, Test, ProcessBegin, ProcessEnd, Push, Store, Record
  <2> QED
    BY <2>1, <1>2, <1>4, <1>5, <1>6, ExitedIsFinite DEF CounterInv
<1> QED
  BY <1>7, <1>8

(* The overshoot is kept by each step of the calling thread. *)
LEMMA MainCounterInv ==
  ASSUME IInv, CounterInv, MainStep
  PROVE  CounterInv'
<1>1. CASE MainCollect
  <2>1. next' = 0 /\ nfiles' \in Nat
    BY <1>1, Untouched DEF MainCollect, workerVars
  <2> QED
    BY <2>1 DEF CounterInv
<1>2. CASE MainSpawn
  <2>1. /\ worker' = [worker EXCEPT ![spawned + 1] = "test"]
        /\ UNCHANGED <<nfiles, next>>
        /\ spawned < NWorkers
    BY <1>2 DEF MainSpawn
  <2>2. spawned + 1 \in Workers /\ worker[spawned + 1] = "unborn"
    BY <2>1, NWorkersBound, WorkerFacts DEF IInv, TypeInv, MainInv
  <2>3. \A v \in Workers : worker'[v] = "exited" <=> worker[v] = "exited"
    BY <2>1, <2>2 DEF IInv, TypeInv
  <2>4. Exited' = Exited
    BY <2>3 DEF Exited
  <2> QED
    BY <2>1, <2>4 DEF CounterInv
<1>3. CASE UNCHANGED <<nfiles, spawned, workerVars>>
  BY <1>3 DEF CounterInv, Exited, workerVars
<1> QED
  BY <1>1, <1>2, <1>3, MainTouchesLittle

(* The overshoot is bounded in every reachable state. *)
LEMMA CounterHolds == SafeSpec => []CounterInv
<1>1. Init => CounterInv
  BY DEF Init, CounterInv
<1>2. IInv /\ CounterInv /\ [Next]_vars => CounterInv'
  <2> SUFFICES ASSUME IInv, CounterInv, [Next]_vars PROVE CounterInv'
    OBVIOUS
  <2>1. CASE Cancel \/ UNCHANGED vars
    BY <2>1 DEF Cancel, vars, mainVars, workerVars, CounterInv, Exited
  <2> QED
    BY <2>1, MainCounterInv, WorkerCounterInv DEF Next, Done
<1> QED
  BY <1>1, <1>2, InvariantHolds, PTL DEF SafeSpec

(* Every variable keeps its type, and the shared counter never runs        *)
(* further past the end of the list than the number of workers, so that    *)
(* fetch_add cannot wrap.                                                  *)
THEOREM TypeCorrect == SafeSpec => []TypeOK
<1>1. IInv /\ CounterInv => TypeOK
  <2> SUFFICES ASSUME IInv, CounterInv PROVE TypeOK
    OBVIOUS
  <2>1. nfiles \in Nat /\ next \in Nat /\ spawned \in Nat /\ NWorkers \in Nat
    BY NWorkersBound, WorkerPoolAssumption DEF IInv, TypeInv
  <2>2. Exited \subseteq 1 .. spawned
    BY <2>1, WorkerFacts DEF Exited, IInv, MainInv
  <2>3. Cardinality(Exited) <= spawned
    <3>1. IsFiniteSet(1 .. spawned) /\ Cardinality(1 .. spawned) = spawned
      BY <2>1, FS_Interval
    <3> QED
      BY <2>2, <3>1, FS_Subset
  <2>4. spawned <= NWorkers
    BY <2>1 DEF IInv, TypeInv
  <2>5. next \in 0 .. nfiles + NWorkers
    BY <2>1, <2>3, <2>4, ExitedIsFinite DEF CounterInv
  <2> QED
    BY <2>5 DEF IInv, TypeInv, TypeOK
<1> QED
  BY <1>1, InvariantHolds, CounterHolds, PTL

-----------------------------------------------------------------------------
\* The display: after the scope it has been told.
FinishInv ==
  /\ main \in {"check", "op"} => finishes = 1
  /\ FinishIsSent

(* The display is told on every path, or the walk never began.             *)
LEMMA FinishHolds == SafeSpec => []FinishInv
<1>1. Init => FinishInv
  BY DEF Init, FinishInv, FinishIsSent
<1>2. IInv /\ FinishInv /\ [Next]_vars => FinishInv'
  <2> SUFFICES ASSUME IInv, FinishInv, [Next]_vars PROVE FinishInv'
    OBVIOUS
  <2> USE DEF FinishInv, FinishIsSent
  <2>1. CASE Cancel \/ UNCHANGED vars
    BY <2>1 DEF Cancel, vars, mainVars
  <2>2. ASSUME NEW w \in Workers, WorkerStep(w) PROVE FinishInv'
    BY <2>2, WorkerMoves DEF mainVars, IInv
  <2>3. CASE MainStep
    <3> USE DEF IInv, MainInv, Return
    <3>1. CASE MainStart
      BY <3>1 DEF MainStart
    <3>2. CASE MainValidate \/ MainCollect
      BY <3>2 DEF MainValidate, MainCollect
    <3>3. CASE MainCollectFails
      BY <3>3 DEF MainCollectFails
    <3>4. CASE MainSpawn \/ MainSpawnFails \/ MainSpawned \/ MainJoin \/ MainJoined
      BY <3>4 DEF MainSpawn, MainSpawnFails, MainSpawned, MainJoin, MainJoined
    <3>5. CASE MainScope
      BY <3>5 DEF MainScope
    <3>6. CASE MainDisplay
      BY <3>6 DEF MainDisplay
    <3>7. CASE MainCheck \/ MainOpFinish
      BY <3>7 DEF MainCheck, MainOpFinish
    <3> QED
      BY <2>3, <3>1, <3>2, <3>3, <3>4, <3>5, <3>6, <3>7 DEF MainStep
  <2> QED
    BY <2>1, <2>2, <2>3 DEF Next, Done
<1> QED
  BY <1>1, <1>2, InvariantHolds, PTL DEF SafeSpec

(* Whatever fails after the walk has begun, the display gets its AllDone,  *)
(* unless the scope itself panics.                                         *)
THEOREM FinishIsAlwaysSent == SafeSpec => []FinishIsSent
<1>1. FinishInv => FinishIsSent
  BY DEF FinishInv
<1> QED
  BY <1>1, FinishHolds, PTL

-----------------------------------------------------------------------------
\* Causes.  A file that is being processed has come to nothing yet and is
\* nobody else's, so that its outcome overwrites no other, ...
BusyIsPending ==
  \A w \in Workers : worker[w] \in Busy =>
    /\ outcome[idx[w]] = "pending"
    /\ \A v \in Workers \ {w} : worker[v] \in Busy => idx[v] # idx[w]

\* ... and what is recorded, or about to be, is the failure of a file.
FailingIsError ==
  \A w \in Workers : worker[w] \in Failing => outcome[idx[w]] = "error"

RecordedIsError ==
  firstError # NoError => firstError \in Batch /\ outcome[firstError] = "error"

\* The calling thread names a panic when it has seen one.
PanicIsReal == scopeResult = "WorkerPanic" => Panicked # {}

ReturnHasCause ==
  main = "returned" =>
    /\ result = "File" => \E i \in Batch : outcome[i] = "error"
    /\ Panicked # {} => result \in {"WorkerPanic", "Spawn", "Panic"}
    /\ result \in {"WorkerPanic", "Panic"} => Panicked # {}

CauseInv ==
  BusyIsPending /\ FailingIsError /\ RecordedIsError /\ PanicIsReal /\ ReturnHasCause

(* Causes are kept by each step of a worker. *)
LEMMA WorkerCauseInv ==
  ASSUME IInv, CauseInv, NEW w \in Workers, WorkerStep(w)
  PROVE  CauseInv'
<1>1. PICK p \in WorkerPoints : worker' = [worker EXCEPT ![w] = p]
  BY WorkerMoves DEF IInv
<1>2. /\ worker[w] \notin Stopped \cup {"unborn"}
      /\ UNCHANGED <<main, result, scopeResult, nfiles>>
  BY WorkerMoves DEF IInv, mainVars
<1>3. worker'[w] = p /\ \A v \in Workers \ {w} : worker'[v] = worker[v]
  BY <1>1 DEF IInv, TypeInv
<1>4. ReturnHasCause'
  <2>1. Live # {}
    BY <1>2 DEF Live, Stopped
  <2> QED
    BY <1>2, <2>1 DEF ReturnHasCause, IInv, MainInv
<1>5. PanicIsReal'
  <2>1. Panicked \subseteq Panicked'
    BY <1>2, <1>3 DEF Panicked, Stopped
  <2> QED
    BY <1>2, <2>1 DEF CauseInv, PanicIsReal
<1>6. /\ Batch' = Batch /\ Batch \subseteq Indexes
      /\ next \in Nat /\ nfiles \in Nat /\ idx \in [Workers -> Nat]
      /\ outcome \in [Indexes -> {"pending", "output", "none", "error", "panic"}]
      /\ \A v \in Workers : worker[v] \in Busy \cup Failing => idx[v] < next /\ idx[v] \in Batch
  <2>1. Batch' = Batch /\ Batch \subseteq Indexes /\ next \in Nat /\ nfiles \in Nat
    BY <1>2, WorkerPoolAssumption DEF Batch, Indexes, IInv, TypeInv
  <2>2. ASSUME NEW v \in Workers, worker[v] \in Busy \cup Failing
        PROVE  idx[v] < next /\ idx[v] \in Batch
    <3>1. idx[v] < next /\ idx[v] < nfiles /\ idx[v] \in Nat
      BY <2>2 DEF IInv, ClaimInv, TypeInv
    <3> QED
      BY <2>1, <3>1 DEF Batch
  <2> QED
    BY <2>1, <2>2 DEF IInv, TypeInv
<1>7. CASE Claim(w)
  <2>1. /\ idx' = [idx EXCEPT ![w] = next]
        /\ UNCHANGED <<outcome, firstError>>
        /\ IF next < nfiles THEN p = "process" ELSE p = "exited"
    BY <1>7, <1>3 DEF Claim, Claimed, Move, IInv, TypeInv
  <2>2. idx'[w] = next /\ \A v \in Workers \ {w} : idx'[v] = idx[v]
    BY <1>6, <2>1
  <2>3. next < nfiles => outcome[next] = "pending"
    <3>1. next < nfiles => next \in Indexes /\ next >= next
      BY <1>6, WorkerPoolAssumption DEF Indexes, IInv, TypeInv
    <3> QED
      BY <3>1 DEF IInv, OutcomeInv, UnclaimedIsPending
  <2>4. \A v \in Workers \ {w} : worker[v] \in Busy => idx[v] # next
    BY <1>6
  <2>5. p \in Busy => next < nfiles
    BY <2>1 DEF Busy
  <2>6. BusyIsPending'
    BY <1>3, <2>1, <2>2, <2>3, <2>4, <2>5 DEF CauseInv, BusyIsPending
  <2>7. p \notin Failing
    BY <2>1 DEF Failing
  <2>8. FailingIsError' /\ RecordedIsError'
    BY <1>3, <1>6, <2>1, <2>2, <2>7 DEF CauseInv, FailingIsError, RecordedIsError
  <2> QED
    BY <1>4, <1>5, <2>6, <2>8 DEF CauseInv
<1>8. CASE ProcessBegin(w) \/ ProcessEnd(w)
  <2>1. /\ worker[w] \in Busy /\ UNCHANGED <<idx, firstError>>
        /\ \/ p = "work" /\ outcome' = outcome
           \/ \E o \in {"output", "none", "error", "panic"} :
                /\ outcome' = [outcome EXCEPT ![idx[w]] = o]
                /\ p = After[o]
    <3>1. CASE ProcessBegin(w)
      <4>1. /\ worker[w] = "process" /\ UNCHANGED <<idx, firstError>>
            /\ \/ worker'[w] = "work" /\ outcome' = outcome
               \/ worker'[w] = "store" /\ outcome' = [outcome EXCEPT ![idx[w]] = "error"]
               \/ worker'[w] = "test" /\ outcome' = [outcome EXCEPT ![idx[w]] = "none"]
        BY <3>1 DEF ProcessBegin, Move, Settle, IInv, TypeInv
      <4> QED
        BY <1>3, <4>1 DEF After, Busy
    <3>2. CASE ProcessEnd(w)
      <4>1. PICK o \in Outcomes : Move(w, "work", After[o]) /\ Settle(w, o)
        BY <3>2 DEF ProcessEnd
      <4>2. UNCHANGED <<idx, firstError>>
        BY <3>2 DEF ProcessEnd
      <4>3. o \in {"output", "none", "error", "panic"}
        BY WorkerPoolAssumption
      <4> QED
        BY <1>3, <4>1, <4>2, <4>3 DEF Move, Settle, IInv, TypeInv, Busy
    <3> QED
      BY <1>8, <3>1, <3>2
  <2>2. CASE p = "work" /\ outcome' = outcome
    <3>1. BusyIsPending'
      BY <1>3, <2>1, <2>2 DEF CauseInv, BusyIsPending
    <3>2. FailingIsError' /\ RecordedIsError'
      BY <1>3, <1>6, <2>1, <2>2 DEF CauseInv, FailingIsError, RecordedIsError, Failing
    <3> QED
      BY <1>4, <1>5, <3>1, <3>2 DEF CauseInv
  <2>3. ASSUME NEW o \in {"output", "none", "error", "panic"},
               outcome' = [outcome EXCEPT ![idx[w]] = o], p = After[o]
        PROVE  CauseInv'
    <3>1. p \notin Busy /\ (p \in Failing => o = "error")
      BY <2>3 DEF After, Busy, Failing
    <3>2. outcome[idx[w]] = "pending" /\ idx[w] \in Indexes
      BY <1>6, <2>1 DEF CauseInv, BusyIsPending
    <3>3. outcome'[idx[w]] = o /\ \A i \in Indexes \ {idx[w]} : outcome'[i] = outcome[i]
      BY <1>6, <2>3, <3>2
    <3>4. BusyIsPending'
      <4> SUFFICES ASSUME NEW v \in Workers, worker'[v] \in Busy
                   PROVE  /\ outcome'[idx'[v]] = "pending"
                          /\ \A u \in Workers \ {v} : worker'[u] \in Busy => idx'[u] # idx'[v]
        BY DEF BusyIsPending
      <4>1. v # w /\ worker[v] \in Busy
        BY <1>3, <3>1
      <4>2. idx[v] # idx[w] /\ outcome[idx[v]] = "pending" /\ idx[v] \in Indexes
        BY <1>6, <2>1, <4>1 DEF CauseInv, BusyIsPending
      <4>3. \A u \in Workers \ {v} : worker'[u] \in Busy => worker[u] \in Busy
        BY <1>3, <3>1
      <4> QED
        BY <2>1, <3>3, <4>1, <4>2, <4>3 DEF CauseInv, BusyIsPending
    <3>5. FailingIsError'
      <4> SUFFICES ASSUME NEW v \in Workers, worker'[v] \in Failing
                   PROVE  outcome'[idx'[v]] = "error"
        BY DEF FailingIsError
      <4>1. CASE v = w
        BY <1>3, <2>1, <3>1, <3>3, <4>1
      <4>2. CASE v # w
        <5>1. worker[v] \in Failing /\ outcome[idx[v]] = "error" /\ idx[v] \in Indexes
          BY <1>3, <1>6, <4>2 DEF CauseInv, FailingIsError
        <5> QED
          BY <2>1, <3>2, <3>3, <5>1
      <4> QED
        BY <4>1, <4>2
    <3>6. RecordedIsError'
      BY <1>6, <2>1, <3>2, <3>3 DEF CauseInv, RecordedIsError
    <3> QED
      BY <1>4, <1>5, <3>4, <3>5, <3>6 DEF CauseInv
  <2> QED
    BY <2>1, <2>2, <2>3
<1>9. CASE Record(w)
  <2>1. /\ worker[w] = "record" /\ p = "test" /\ UNCHANGED <<idx, outcome>>
        /\ firstError' = IF firstError = NoError THEN idx[w] ELSE firstError
    BY <1>9, <1>3 DEF Record, Move, IInv, TypeInv
  <2>2. outcome[idx[w]] = "error" /\ idx[w] \in Batch
    BY <1>6, <2>1 DEF CauseInv, FailingIsError, Failing
  <2>3. BusyIsPending' /\ FailingIsError'
    BY <1>3, <2>1 DEF CauseInv, BusyIsPending, FailingIsError, Busy, Failing
  <2>4. RecordedIsError'
    BY <1>6, <2>1, <2>2 DEF CauseInv, RecordedIsError
  <2> QED
    BY <1>4, <1>5, <2>3, <2>4 DEF CauseInv
<1>10. CASE Test(w) \/ Push(w) \/ Store(w)
  <2>1. /\ UNCHANGED <<idx, outcome, firstError>>
        /\ p \notin Busy
        /\ p \in Failing => worker[w] \in Failing
    <3>1. CASE Test(w)
      <4>1. p \in {"exited", "claim"}
        BY <3>1, <1>3 DEF Test, Move, IInv, TypeInv
      <4> QED
        BY <3>1, <4>1 DEF Test, Busy, Failing
    <3>2. CASE Push(w) \/ Store(w)
      BY <3>2, <1>3 DEF Push, Store, Move, Busy, Failing, IInv, TypeInv
    <3> QED
      BY <1>10, <3>1, <3>2
  <2>2. BusyIsPending' /\ FailingIsError' /\ RecordedIsError'
    BY <1>3, <1>6, <2>1 DEF CauseInv, BusyIsPending, FailingIsError, RecordedIsError
  <2> QED
    BY <1>4, <1>5, <2>2 DEF CauseInv
<1> QED
  BY <1>7, <1>8, <1>9, <1>10 DEF WorkerStep

(* Causes are kept by each step of the calling thread. *)
LEMMA MainCauseInv ==
  ASSUME IInv, CauseInv, MainStep
  PROVE  CauseInv'
<1>1. BusyIsPending' /\ FailingIsError' /\ RecordedIsError'
  <2> USE DEF BusyIsPending, FailingIsError, RecordedIsError
  <2>1. CASE MainCollect
    <3>1. main = "collect" /\ UNCHANGED workerVars
      BY <2>1 DEF MainCollect
    <3>2. \A v \in Workers : worker'[v] = "unborn"
      BY <3>1, Untouched DEF workerVars
    <3>3. Batch = {}
      BY <3>1, Untouched DEF Batch
    <3>4. firstError' = NoError
      BY <3>1, <3>3 DEF CauseInv, workerVars
    <3> QED
      BY <3>2, <3>4 DEF Busy, Failing
  <2>2. CASE MainSpawn
    <3>1. /\ worker' = [worker EXCEPT ![spawned + 1] = "test"]
          /\ UNCHANGED <<nfiles, idx, outcome, firstError>>
      BY <2>2 DEF MainSpawn
    <3>2. \A v \in Workers : worker'[v] \in Busy \cup Failing => worker'[v] = worker[v]
      BY <3>1 DEF IInv, TypeInv, Busy, Failing
    <3> QED
      BY <3>1, <3>2 DEF CauseInv, Batch
  <2>3. CASE UNCHANGED <<nfiles, spawned, workerVars>>
    BY <2>3 DEF CauseInv, Batch, workerVars
  <2> QED
    BY <2>1, <2>2, <2>3, MainTouchesLittle
<1>2. Panicked' = Panicked
  <2>1. CASE MainSpawn
    <3>1. worker' = [worker EXCEPT ![spawned + 1] = "test"] /\ spawned < NWorkers
      BY <2>1 DEF MainSpawn
    <3>2. spawned + 1 \in Workers /\ worker[spawned + 1] = "unborn"
      BY <3>1, NWorkersBound, WorkerFacts DEF IInv, TypeInv, MainInv
    <3>3. \A v \in Workers : worker'[v] = "panicked" <=> worker[v] = "panicked"
      BY <3>1, <3>2 DEF IInv, TypeInv
    <3> QED
      BY <3>3 DEF Panicked
  <2>2. CASE MainCollect \/ UNCHANGED <<nfiles, spawned, workerVars>>
    BY <2>2 DEF MainCollect, workerVars, Panicked
  <2> QED
    BY <2>1, <2>2, MainTouchesLittle
<1>3. PanicIsReal'
  <2>1. CASE MainJoin
    <3>1. scopeResult' = "WorkerPanic" =>
            scopeResult = "WorkerPanic" \/ worker[joined + 1] = "panicked"
      BY <2>1 DEF MainJoin
    <3>2. joined + 1 \in Workers
      BY <2>1, NWorkersBound, WorkerFacts DEF MainJoin, IInv, TypeInv
    <3> QED
      BY <1>2, <3>1, <3>2 DEF CauseInv, PanicIsReal, Panicked
  <2>2. CASE ~MainJoin
    <3>1. scopeResult' = "WorkerPanic" => scopeResult = "WorkerPanic"
      BY <2>2 DEF MainStep, MainStart, MainValidate, MainCollect, MainCollectFails, MainSpawn,
                  MainSpawnFails, MainSpawned, MainJoined, MainScope, MainDisplay, MainCheck,
                  MainOpFinish
    <3> QED
      BY <1>2, <3>1 DEF CauseInv, PanicIsReal
  <2> QED
    BY <2>1, <2>2
<1>4. main \in {"start", "validate", "collect"} => Panicked = {}
  BY Untouched DEF Panicked
<1>5. main \in {"display", "check", "op"} /\ scopeResult = "Ok" => Panicked = {}
  <2> SUFFICES ASSUME main \in {"display", "check", "op"}, scopeResult = "Ok"
               PROVE  Panicked = {}
    OBVIOUS
  <2>1. joined = spawned /\ \A v \in 1 .. joined : worker[v] = "exited"
    BY DEF IInv, MainInv
  <2>2. \A v \in Workers : v > spawned \/ v \in 1 .. joined
    BY <2>1, NWorkersBound, WorkerFacts DEF IInv, TypeInv
  <2>3. \A v \in Workers : v > spawned => worker[v] = "unborn"
    BY DEF IInv, MainInv
  <2> QED
    BY <2>1, <2>2, <2>3 DEF Panicked
<1>6. ReturnHasCause'
  <2> USE DEF ReturnHasCause, Return
  <2>1. CASE MainStart \/ MainValidate \/ MainCollectFails
    BY <2>1, <1>2, <1>4 DEF MainStart, MainValidate, MainCollectFails
  <2>2. CASE MainCollect \/ MainSpawn \/ MainSpawnFails \/ MainSpawned \/ MainJoin \/ MainJoined
    <3>1. main' # "returned"
      BY <2>2 DEF MainCollect, MainSpawn, MainSpawnFails, MainSpawned, MainJoin, MainJoined
    <3> QED
      BY <3>1
  <2>3. CASE MainScope
    BY <2>3, <1>2 DEF MainScope
  <2>4. CASE MainDisplay
    <3>1. UNCHANGED <<nfiles, outcome, scopeResult>>
      BY <2>4 DEF MainDisplay, workerVars
    <3>2. CASE scopeResult # "Ok"
      <4>1. result' = scopeResult /\ scopeResult \in {"Spawn", "WorkerPanic"}
        BY <2>4, <3>2 DEF MainDisplay, IInv, TypeInv
      <4> QED
        BY <1>2, <4>1 DEF CauseInv, PanicIsReal
    <3>3. CASE scopeResult = "Ok" /\ firstError # NoError
      <4>1. result' = "File" /\ main = "display"
        BY <2>4, <3>3 DEF MainDisplay
      <4>2. firstError \in Batch' /\ outcome'[firstError] = "error"
        BY <3>1, <3>3 DEF CauseInv, RecordedIsError, Batch
      <4> QED
        BY <1>2, <1>5, <3>3, <4>1, <4>2
    <3>4. CASE scopeResult = "Ok" /\ firstError = NoError
      BY <2>4, <3>4 DEF MainDisplay
    <3> QED
      BY <3>2, <3>3, <3>4
  <2>5. CASE MainCheck \/ MainOpFinish
    <3>1. Panicked = {}
      BY <2>5, <1>5 DEF MainCheck, MainOpFinish, IInv, MainInv
    <3>2. main' = "returned" => result' \in {"Cancelled", "OpFinish", "Ok"}
      BY <2>5 DEF MainCheck, MainOpFinish
    <3> QED
      BY <1>2, <3>1, <3>2
  <2> QED
    BY <2>1, <2>2, <2>3, <2>4, <2>5 DEF MainStep
<1> QED
  BY <1>1, <1>3, <1>6 DEF CauseInv

(* Every failure has its cause in every reachable state. *)
LEMMA CauseHolds == SafeSpec => []CauseInv
<1>1. Init => CauseInv
  BY DEF Init, CauseInv, BusyIsPending, FailingIsError, RecordedIsError, PanicIsReal,
         ReturnHasCause, Busy, Failing, Panicked
<1>2. IInv /\ CauseInv /\ [Next]_vars => CauseInv'
  <2> SUFFICES ASSUME IInv, CauseInv, [Next]_vars PROVE CauseInv'
    OBVIOUS
  <2>1. CASE Cancel \/ UNCHANGED vars
    BY <2>1 DEF Cancel, vars, mainVars, workerVars, CauseInv, BusyIsPending, FailingIsError,
                RecordedIsError, PanicIsReal, ReturnHasCause, Panicked, Batch
  <2> QED
    BY <2>1, MainCauseInv, WorkerCauseInv DEF Next, Done
<1> QED
  BY <1>1, <1>2, InvariantHolds, PTL DEF SafeSpec

(* The recorded error is that of a file that failed, a panic of a worker   *)
(* is never swallowed, and none is made up.                                *)
THEOREM ResultsHaveCauses == SafeSpec => []ResultHasCause
<1>1. CauseInv => ResultHasCause
  BY DEF CauseInv, RecordedIsError, ReturnHasCause, ResultHasCause
<1> QED
  BY <1>1, CauseHolds, PTL

-----------------------------------------------------------------------------
\* After a cancellation that came in time.
TooLateForOk == cancelled /\ main # "op" /\ result # "Ok"

(* A cancellation before the last check rules Ok out for good.             *)
THEOREM CancelsAreKept == SafeSpec => CancelIsNotLost
<1>1. IInv /\ cancelled /\ main \notin {"op", "returned"} => TooLateForOk
  BY DEF IInv, MainInv, TooLateForOk
<1>2. TooLateForOk /\ [Next]_vars => TooLateForOk'
  <2> SUFFICES ASSUME TooLateForOk, [Next]_vars PROVE TooLateForOk'
    OBVIOUS
  <2> USE DEF TooLateForOk
  <2>1. CASE Cancel \/ UNCHANGED vars
    BY <2>1 DEF Cancel, vars, mainVars
  <2>2. ASSUME NEW w \in Workers, WorkerStep(w) PROVE TooLateForOk'
    BY <2>2 DEF WorkerStep, Test, Claim, ProcessBegin, ProcessEnd, Push, Store, Record, mainVars
  <2>3. CASE MainStep
    <3> USE DEF Return
    <3>1. CASE MainStart \/ MainValidate \/ MainCollect \/ MainCollectFails
      BY <3>1 DEF MainStart, MainValidate, MainCollect, MainCollectFails
    <3>2. CASE MainSpawn \/ MainSpawnFails \/ MainSpawned \/ MainJoin \/ MainJoined \/ MainScope
      BY <3>2 DEF MainSpawn, MainSpawnFails, MainSpawned, MainJoin, MainJoined, MainScope
    <3>3. CASE MainDisplay
      BY <3>3 DEF MainDisplay
    <3>4. CASE MainCheck \/ MainOpFinish
      BY <3>4 DEF MainCheck, MainOpFinish
    <3> QED
      BY <2>3, <3>1, <3>2, <3>3, <3>4 DEF MainStep
  <2> QED
    BY <2>1, <2>2, <2>3 DEF Next, Done
<1>3. TooLateForOk => result # "Ok"
  BY DEF TooLateForOk
<1> QED
  BY <1>1, <1>2, <1>3, InvariantHolds, PTL DEF SafeSpec, CancelIsNotLost

-----------------------------------------------------------------------------
\* The place of a number among those of a set.
Rank(S, i) == Cardinality({j \in S : j < i})

(* The places of n numbers are among 0 .. n - 1, ... *)
LEMMA RankIsPlace ==
  ASSUME NEW S \in SUBSET Nat, IsFiniteSet(S), NEW i \in S
  PROVE  Rank(S, i) \in 0 .. Cardinality(S) - 1
<1> DEFINE below == {j \in S : j < i}
<1>1. IsFiniteSet(S \ {i}) /\ Cardinality(S \ {i}) = Cardinality(S) - 1
  BY FS_RemoveElement
<1>2. below \in SUBSET (S \ {i})
  OBVIOUS
<1>3. IsFiniteSet(below) /\ Cardinality(below) <= Cardinality(S) - 1
  BY <1>1, <1>2, FS_Subset
<1>4. Cardinality(below) \in Nat /\ Cardinality(S) \in Nat
  BY <1>3, FS_CardinalityType
<1> QED
  BY <1>3, <1>4 DEF Rank

(* ... a larger one has a later place, ... *)
LEMMA RankGrows ==
  ASSUME NEW S \in SUBSET Nat, IsFiniteSet(S), NEW i \in S, NEW k \in S, i < k
  PROVE  Rank(S, i) < Rank(S, k)
<1> DEFINE below == {j \in S : j < i}
           upto  == {j \in S : j < k}
<1>1. IsFiniteSet(below) /\ IsFiniteSet(upto)
  BY FS_Subset
<1>2. IsFiniteSet(below \cup {i}) /\ Cardinality(below \cup {i}) = Cardinality(below) + 1
  <2>1. i \notin below
    OBVIOUS
  <2> QED
    BY <1>1, <2>1, FS_AddElement
<1>3. below \cup {i} \in SUBSET upto
  <2>1. i \in Nat /\ k \in Nat /\ \A j \in S : j \in Nat
    OBVIOUS
  <2>2. \A j \in below : j \in S /\ j < k
    BY <2>1
  <2> QED
    BY <2>2
<1>4. Cardinality(below) + 1 <= Cardinality(upto)
  BY <1>1, <1>2, <1>3, FS_Subset
<1>5. Cardinality(below) \in Nat /\ Cardinality(upto) \in Nat
  BY <1>1, FS_CardinalityType
<1> QED
  BY <1>4, <1>5 DEF Rank

(* ... so that no two have the same one, ... *)
LEMMA RankIsOne ==
  ASSUME NEW S \in SUBSET Nat, IsFiniteSet(S), NEW i \in S, NEW k \in S,
         Rank(S, i) = Rank(S, k)
  PROVE  i = k
<1>1. Rank(S, i) \in Int
  BY RankIsPlace
<1>2. ~(i < k)
  BY <1>1, RankGrows
<1>3. ~(k < i)
  BY <1>1, RankGrows
<1> QED
  BY <1>2, <1>3

(* ... and every place is taken. *)
LEMMA RankIsTaken ==
  ASSUME NEW S \in SUBSET Nat, IsFiniteSet(S), NEW r \in 0 .. Cardinality(S) - 1
  PROVE  \E i \in S : Rank(S, i) = r
<1> SUFFICES ASSUME \A i \in S : Rank(S, i) # r PROVE FALSE
  OBVIOUS
<1> DEFINE Places == 0 .. Cardinality(S) - 1
           f      == [i \in S |-> Rank(S, i)]
<1>1. Cardinality(S) \in Nat
  BY FS_CardinalityType
<1>2. IsFiniteSet(Places) /\ Cardinality(Places) = Cardinality(S)
  <2>1. 0 \in Int /\ Cardinality(S) - 1 \in Int
    BY <1>1
  <2>2. /\ IsFiniteSet(Places)
        /\ Cardinality(Places) =
             IF 0 > Cardinality(S) - 1 THEN 0 ELSE Cardinality(S) - 1 - 0 + 1
    BY <2>1, FS_Interval
  <2> QED
    BY <1>1, <2>2
<1>3. IsFiniteSet(Places \ {r}) /\ Cardinality(Places \ {r}) = Cardinality(S) - 1
  BY <1>2, FS_RemoveElement
<1>4. f \in [S -> Places \ {r}]
  BY RankIsPlace
<1>5. Cardinality(Places \ {r}) < Cardinality(S)
  BY <1>1, <1>3
<1> HIDE DEF f
<1>6. \E i, k \in S : i # k /\ f[i] = f[k]
  BY <1>3, <1>4, <1>5, FS_PigeonHole
<1> QED
  BY <1>6, RankIsOne DEF f

(* FileBatch counts as WorkerPool does. *)
LEMMA SameCount == \A S : B!Cardinality(S) = Cardinality(S)
  BY DEF B!Cardinality, Cardinality

(* Sorting a vector without repetitions puts the numbers in it in          *)
(* increasing order.                                                       *)
LEMMA SortIsIncreasing ==
  ASSUME NEW S \in SUBSET Nat, NEW s \in Seq(S),
         \A m, n \in 1 .. Len(s) : s[m] = s[n] => m = n,
         \A i \in S : \E n \in 1 .. Len(s) : s[n] = i
  PROVE  SortedByIndex(s) = B!Increasing(S)
<1> DEFINE D == 1 .. Len(s)
           smaller(n) == {m \in D : s[m] < s[n]}
<1>1. Len(s) \in Nat /\ s \in [D -> S]
  OBVIOUS
<1>2. IsFiniteSet(D) /\ Cardinality(D) = Len(s)
  <2>1. 1 \in Int /\ Len(s) \in Int
    BY <1>1
  <2>2. IsFiniteSet(D) /\ Cardinality(D) = IF 1 > Len(s) THEN 0 ELSE Len(s) - 1 + 1
    BY <2>1, FS_Interval
  <2> QED
    BY <1>1, <2>2
<1>3. IsFiniteSet(S) /\ Cardinality(S) = Len(s)
  <2>1. s \in Bijection(D, S)
    BY <1>1 DEF Bijection, Injection, Surjection, IsInjective
  <2> QED
    BY <1>2, <2>1, FS_Bijection DEF ExistsBijection
<1>4. ASSUME NEW n \in D
      PROVE  Cardinality(smaller(n)) = Rank(S, s[n])
  <2> DEFINE f == [m \in smaller(n) |-> s[m]]
  <2>1. f \in Bijection(smaller(n), {j \in S : j < s[n]})
    BY <1>1 DEF Bijection, Injection, Surjection, IsInjective
  <2>2. IsFiniteSet(smaller(n))
    BY <1>2, FS_Subset
  <2> QED
    BY <2>1, <2>2, FS_Bijection DEF ExistsBijection, Rank
<1>5. ASSUME NEW k \in D
      PROVE  s[CHOOSE n \in D : Cardinality(smaller(n)) = k - 1]
               = CHOOSE i \in S : B!Cardinality({j \in S : j < i}) = k - 1
  <2>1. PICK p \in S : Rank(S, p) = k - 1
    <3>1. k - 1 \in 0 .. Cardinality(S) - 1
      BY <1>1, <1>3
    <3> QED
      BY <1>3, <3>1, RankIsTaken
  <2>2. \E n \in D : Cardinality(smaller(n)) = k - 1
    BY <1>4, <2>1
  <2> DEFINE c == CHOOSE n \in D : Cardinality(smaller(n)) = k - 1
             e == CHOOSE i \in S : B!Cardinality({j \in S : j < i}) = k - 1
  <2>3. c \in D /\ Cardinality(smaller(c)) = k - 1
    BY <2>2
  <2>4. e \in S /\ Rank(S, e) = k - 1
    <3>1. \A j \in S : B!Cardinality({m \in S : m < j}) = Rank(S, j)
      BY SameCount DEF Rank
    <3>2. \E j \in S : B!Cardinality({m \in S : m < j}) = k - 1
      BY <2>1, <3>1
    <3>3. e \in S /\ B!Cardinality({m \in S : m < e}) = k - 1
      BY <3>2
    <3> HIDE DEF e
    <3> QED
      BY <3>1, <3>3
  <2> HIDE DEF c, e
  <2>5. s[c] \in S /\ Rank(S, s[c]) = k - 1
    BY <1>1, <1>4, <2>3
  <2>6. s[c] = e
    BY <1>3, <2>4, <2>5, RankIsOne
  <2> QED
    BY <2>6 DEF c, e
<1> DEFINE ith(k)   == s[CHOOSE n \in D : Cardinality(smaller(n)) = k - 1]
           least(k) == CHOOSE i \in S : B!Cardinality({j \in S : j < i}) = k - 1
<1>6. SortedByIndex(s) = [k \in D |-> ith(k)]
  BY DEF SortedByIndex
<1>7. B!Increasing(S) = [k \in 1 .. Cardinality(S) |-> least(k)]
  BY SameCount DEF B!Increasing
<1>8. \A k \in D : ith(k) = least(k)
  BY <1>5
<1>9. 1 .. Cardinality(S) = D
  BY <1>3
<1> HIDE DEF D, ith, least
<1> QED
  BY <1>6, <1>7, <1>8, <1>9

-----------------------------------------------------------------------------
\* The vector holds each file whose outcome is an output once, but for those
\* that a worker is about to push.
Pushed(i) == \E n \in 1 .. Len(outputs) : outputs[n] = i

PushedIsOutput ==
  \A n \in 1 .. Len(outputs) : outputs[n] \in Batch /\ outcome[outputs[n]] = "output"

PushedOnce == \A m, n \in 1 .. Len(outputs) : outputs[m] = outputs[n] => m = n

PushingIsOutput ==
  \A w \in Workers : worker[w] = "push" =>
    /\ outcome[idx[w]] = "output" /\ ~Pushed(idx[w])
    /\ \A v \in Workers \ {w} : worker[v] = "push" => idx[v] # idx[w]

OutputIsPushed ==
  \A i \in Batch : outcome[i] = "output" =>
    Pushed(i) \/ \E w \in Workers : worker[w] = "push" /\ idx[w] = i

OutputsInv == PushedIsOutput /\ PushedOnce /\ PushingIsOutput /\ OutputIsPushed

(* What a worker's step does to its file's outcome. *)
LEMMA WorkerSettles ==
  ASSUME IInv, CauseInv, NEW w \in Workers, ProcessBegin(w) \/ ProcessEnd(w)
  PROVE  /\ worker[w] \in Busy
         /\ idx[w] \in Batch /\ outcome[idx[w]] = "pending"
         /\ UNCHANGED <<idx, outputs, mainVars>>
         /\ \A v \in Workers \ {w} : worker'[v] = worker[v]
         /\ \/ worker'[w] = "work" /\ outcome' = outcome
            \/ \E o \in B!Settled : /\ outcome' = [outcome EXCEPT ![idx[w]] = o]
                                    /\ worker'[w] = "push" <=> o = "output"
<1>1. worker[w] \in Busy
  BY DEF ProcessBegin, ProcessEnd, Move, Busy
<1>2. idx[w] \in Batch /\ outcome[idx[w]] = "pending"
  <2>1. idx[w] < nfiles /\ idx[w] \in Nat /\ nfiles \in Nat
    BY <1>1, WorkerPoolAssumption DEF IInv, TypeInv, ClaimInv
  <2> QED
    BY <1>1, <2>1 DEF Batch, CauseInv, BusyIsPending
<1>3. CASE ProcessBegin(w)
  BY <1>1, <1>2, <1>3 DEF ProcessBegin, Move, Settle, IInv, TypeInv, B!Settled
<1>4. CASE ProcessEnd(w)
  <2>1. PICK o \in Outcomes : Move(w, "work", After[o]) /\ Settle(w, o)
    BY <1>4 DEF ProcessEnd
  <2>2. o \in {"output", "none", "error", "panic"}
    BY WorkerPoolAssumption
  <2>3. After[o] = "push" <=> o = "output"
    BY <2>2 DEF After
  <2>4. UNCHANGED <<idx, outputs, mainVars>>
    BY <1>4 DEF ProcessEnd
  <2>5. worker'[w] = After[o] /\ \A v \in Workers \ {w} : worker'[v] = worker[v]
    BY <2>1 DEF Move, IInv, TypeInv
  <2> QED
    BY <1>1, <1>2, <2>1, <2>2, <2>3, <2>4, <2>5 DEF Settle, B!Settled
<1> QED
  BY <1>3, <1>4

(* The vector is kept by each step of a worker. *)
LEMMA WorkerOutputsInv ==
  ASSUME IInv, CauseInv, OutputsInv, NEW w \in Workers, WorkerStep(w)
  PROVE  OutputsInv'
<1>1. /\ \A v \in Workers \ {w} : worker'[v] = worker[v]
      /\ nfiles' = nfiles /\ Batch' = Batch /\ Batch \subseteq Indexes
  BY WorkerMoves, WorkerPoolAssumption DEF IInv, TypeInv, mainVars, Batch, Indexes
<1>2. /\ outputs \in Seq(Indexes) /\ idx \in [Workers -> Nat]
      /\ outcome \in [Indexes -> {"pending", "output", "none", "error", "panic"}]
      /\ Len(outputs) \in Nat
  BY DEF IInv, TypeInv
<1>3. CASE ProcessBegin(w) \/ ProcessEnd(w)
  <2>1. /\ worker[w] \in Busy /\ idx[w] \in Batch /\ outcome[idx[w]] = "pending"
        /\ UNCHANGED <<idx, outputs>>
    BY <1>3, WorkerSettles
  <2>2. CASE worker'[w] = "work" /\ outcome' = outcome
    BY <1>1, <2>1, <2>2 DEF OutputsInv, PushedIsOutput, PushedOnce, PushingIsOutput,
                            OutputIsPushed, Pushed, Busy
  <2>3. ASSUME NEW o, outcome' = [outcome EXCEPT ![idx[w]] = o],
               worker'[w] = "push" <=> o = "output"
        PROVE  OutputsInv'
    <3>1. /\ outcome'[idx[w]] = o
          /\ \A i \in Indexes \ {idx[w]} : outcome'[i] = outcome[i]
      BY <1>1, <1>2, <2>1, <2>3
    <3>2. ~Pushed(idx[w])
      BY <2>1 DEF OutputsInv, PushedIsOutput, Pushed
    <3>3. PushedOnce' /\ \A i : Pushed(i)' <=> Pushed(i)
      BY <2>1 DEF OutputsInv, PushedOnce, Pushed
    <3>4. PushedIsOutput'
      BY <1>1, <1>2, <2>1, <3>1 DEF OutputsInv, PushedIsOutput
    <3>5. PushingIsOutput'
      <4>1. \A v \in Workers \ {w} : worker[v] = "push" =>
              outcome[idx[v]] = "output" /\ idx[v] # idx[w] /\ idx[v] \in Indexes
        <5>1. \A v \in Workers : worker[v] = "push" => idx[v] \in Indexes
          BY WorkerPoolAssumption DEF IInv, TypeInv, ClaimInv, Indexes
        <5> QED
          BY <2>1, <5>1 DEF OutputsInv, PushingIsOutput
      <4>2. \A v \in Workers \ {w} : worker'[v] = "push" =>
              outcome'[idx'[v]] = "output" /\ ~Pushed(idx[v]) /\ idx[v] # idx[w]
        BY <1>1, <2>1, <3>1, <4>1 DEF OutputsInv, PushingIsOutput
      <4>3. \A u, v \in Workers \ {w} : worker'[u] = "push" /\ worker'[v] = "push" /\ u # v
              => idx[u] # idx[v]
        BY <1>1 DEF OutputsInv, PushingIsOutput
      <4> QED
        BY <2>1, <2>3, <3>1, <3>2, <3>3, <4>2, <4>3 DEF PushingIsOutput, Pushed
    <3>6. OutputIsPushed'
      <4> SUFFICES ASSUME NEW i \in Batch, outcome'[i] = "output"
                   PROVE  Pushed(i) \/ \E v \in Workers : worker'[v] = "push" /\ idx[v] = i
        BY <1>1, <2>1, <3>3 DEF OutputIsPushed, Pushed
      <4>1. CASE i = idx[w]
        BY <2>3, <3>1, <4>1
      <4>2. CASE i # idx[w]
        <5>1. outcome[i] = "output"
          BY <1>1, <3>1, <4>2
        <5>2. Pushed(i) \/ \E v \in Workers : worker[v] = "push" /\ idx[v] = i
          BY <5>1 DEF OutputsInv, OutputIsPushed
        <5> QED
          BY <1>1, <2>1, <5>2 DEF Busy
      <4> QED
        BY <4>1, <4>2
    <3> QED
      BY <3>3, <3>4, <3>5, <3>6 DEF OutputsInv
  <2> QED
    BY <1>3, <2>2, <2>3, WorkerSettles
<1>4. CASE Push(w)
  <2>1. /\ worker[w] = "push" /\ worker'[w] = "test"
        /\ outputs' = Append(outputs, idx[w])
        /\ UNCHANGED <<idx, outcome>>
    BY <1>4 DEF Push, Move, IInv, TypeInv
  <2>2. idx[w] \in Batch /\ outcome[idx[w]] = "output" /\ ~Pushed(idx[w])
    <3>1. idx[w] < nfiles /\ idx[w] \in Nat /\ nfiles \in Nat
      BY <2>1, WorkerPoolAssumption DEF IInv, TypeInv, ClaimInv
    <3> QED
      BY <2>1, <3>1 DEF Batch, OutputsInv, PushingIsOutput
  <2>3. /\ Len(outputs') = Len(outputs) + 1
        /\ outputs'[Len(outputs) + 1] = idx[w]
        /\ \A n \in 1 .. Len(outputs) : outputs'[n] = outputs[n]
        /\ 1 .. Len(outputs') = (1 .. Len(outputs)) \cup {Len(outputs) + 1}
    BY <1>1, <1>2, <2>1, <2>2
  <2>4. \A i : Pushed(i)' <=> Pushed(i) \/ i = idx[w]
    BY <2>3 DEF Pushed
  <2>5. PushedIsOutput'
    BY <1>1, <2>1, <2>2, <2>3 DEF OutputsInv, PushedIsOutput
  <2>6. PushedOnce'
    BY <2>2, <2>3 DEF OutputsInv, PushedOnce, Pushed
  <2>7. PushingIsOutput'
    <3>1. \A v \in Workers \ {w} : worker[v] = "push" => idx[v] # idx[w]
      BY <2>1 DEF OutputsInv, PushingIsOutput
    <3>2. \A v \in Workers : worker'[v] = "push" => v # w /\ worker[v] = "push"
      BY <1>1, <2>1
    <3> SUFFICES ASSUME NEW v \in Workers, worker'[v] = "push"
                 PROVE  /\ outcome'[idx'[v]] = "output" /\ ~Pushed(idx[v])'
                        /\ \A u \in Workers \ {v} : worker'[u] = "push" => idx'[u] # idx'[v]
      BY <2>1 DEF PushingIsOutput, Pushed
    <3> QED
      BY <2>1, <2>4, <3>1, <3>2 DEF OutputsInv, PushingIsOutput
  <2>8. OutputIsPushed'
    <3> SUFFICES ASSUME NEW i \in Batch, outcome[i] = "output"
                 PROVE  Pushed(i)' \/ \E v \in Workers : worker'[v] = "push" /\ idx[v] = i
      BY <1>1, <2>1 DEF OutputIsPushed, Pushed
    <3>1. Pushed(i) \/ \E v \in Workers : worker[v] = "push" /\ idx[v] = i
      BY DEF OutputsInv, OutputIsPushed
    <3> QED
      BY <1>1, <2>4, <3>1
  <2> QED
    BY <2>5, <2>6, <2>7, <2>8 DEF OutputsInv
<1>5. CASE Claim(w) \/ Test(w) \/ Store(w) \/ Record(w)
  <2>1. /\ UNCHANGED <<outputs, outcome>>
        /\ worker[w] # "push" /\ worker'[w] # "push"
        /\ \A v \in Workers \ {w} : idx'[v] = idx[v]
    <3>1. CASE Claim(w)
      BY <3>1 DEF Claim, Claimed, Move, IInv, TypeInv
    <3>2. CASE Test(w)
      BY <3>2 DEF Test, Move, IInv, TypeInv
    <3>3. CASE Store(w) \/ Record(w)
      BY <3>3 DEF Store, Record, Move, IInv, TypeInv
    <3> QED
      BY <1>5, <3>1, <3>2, <3>3
  <2>2. \A i : Pushed(i)' <=> Pushed(i)
    BY <2>1 DEF Pushed
  <2>3. PushedIsOutput' /\ PushedOnce'
    BY <1>1, <2>1 DEF OutputsInv, PushedIsOutput, PushedOnce
  <2>4. PushingIsOutput'
    BY <1>1, <2>1 DEF OutputsInv, PushingIsOutput, Pushed
  <2>5. OutputIsPushed'
    BY <1>1, <2>1 DEF OutputsInv, OutputIsPushed, Pushed
  <2> QED
    BY <2>3, <2>4, <2>5 DEF OutputsInv
<1> QED
  BY <1>3, <1>4, <1>5 DEF WorkerStep

(* The vector is kept by each step of the calling thread. *)
LEMMA MainOutputsInv ==
  ASSUME IInv, OutputsInv, MainStep
  PROVE  OutputsInv'
<1> USE DEF OutputsInv, PushedIsOutput, PushedOnce, PushingIsOutput, OutputIsPushed, Pushed
<1>1. CASE MainCollect
  <2>1. main = "collect" /\ UNCHANGED workerVars
    BY <1>1 DEF MainCollect
  <2>2. /\ \A w \in Workers : worker'[w] = "unborn"
        /\ \A i \in Indexes : outcome'[i] = "pending"
    BY <2>1, Untouched DEF workerVars
  <2>3. Batch = {} /\ Batch' \subseteq Indexes
    BY <1>1, <2>1, Untouched, WorkerPoolAssumption DEF Batch, Indexes, MainCollect
  <2>4. 1 .. Len(outputs) = {} /\ outputs' = outputs
    BY <2>1, <2>3 DEF workerVars
  <2> QED
    BY <2>2, <2>3, <2>4
<1>2. CASE MainSpawn
  <2>1. /\ worker' = [worker EXCEPT ![spawned + 1] = "test"] /\ spawned < NWorkers
        /\ UNCHANGED <<nfiles, idx, outcome, outputs>>
    BY <1>2 DEF MainSpawn
  <2>2. spawned + 1 \in Workers /\ worker[spawned + 1] = "unborn"
    BY <2>1, NWorkersBound, WorkerFacts DEF IInv, TypeInv, MainInv
  <2>3. \A v \in Workers : worker'[v] = "push" <=> worker[v] = "push"
    BY <2>1, <2>2 DEF IInv, TypeInv
  <2> QED
    BY <2>1, <2>3 DEF Batch
<1>3. CASE UNCHANGED <<nfiles, spawned, workerVars>>
  BY <1>3 DEF Batch, workerVars
<1> QED
  BY <1>1, <1>2, <1>3, MainTouchesLittle

(* The vector is sound in every reachable state. *)
LEMMA OutputsHold == SafeSpec => []OutputsInv
<1>1. Init => OutputsInv
  BY DEF Init, OutputsInv, PushedIsOutput, PushedOnce, PushingIsOutput, OutputIsPushed, Pushed,
         Batch
<1>2. IInv /\ CauseInv /\ OutputsInv /\ [Next]_vars => OutputsInv'
  <2> SUFFICES ASSUME IInv, CauseInv, OutputsInv, [Next]_vars PROVE OutputsInv'
    OBVIOUS
  <2>1. CASE Cancel \/ UNCHANGED vars
    BY <2>1 DEF Cancel, vars, mainVars, workerVars, OutputsInv, PushedIsOutput, PushedOnce,
                PushingIsOutput, OutputIsPushed, Pushed, Batch
  <2> QED
    BY <2>1, MainOutputsInv, WorkerOutputsInv DEF Next, Done
<1> QED
  BY <1>1, <1>2, InvariantHolds, CauseHolds, PTL DEF SafeSpec

-----------------------------------------------------------------------------
\* What FileBatch shows of a state.
Status == [i \in Batch |-> outcome[i]]
Answer == IF result = "none" THEN [kind |-> "none"]
          ELSE IF result = "Ok" THEN [kind |-> "ok", outputs |-> value]
          ELSE [kind |-> "err"]

(* A return with an error is one of the batch.                             *)
LEMMA ErrorIsReturnErr ==
  ASSUME IInv, main # "returned", main' = "returned", result' \notin {"none", "Ok"},
         UNCHANGED <<nfiles, outcome>>
  PROVE  B!ReturnErr
<1>1. Phase # "returned" /\ Phase' = "returned"
  BY DEF Phase
<1>2. Answer' = [kind |-> "err"]
  BY DEF Answer
<1>3. Status' = Status
  BY DEF Status, Batch
<1> QED
  BY <1>1, <1>2, <1>3 DEF B!ReturnErr, B!Err, Answer, Status

(* What the batch shows does not change while main stays among the points  *)
(* between the collection and the return.                                  *)
LEMMA NothingShown ==
  ASSUME UNCHANGED <<nfiles, outcome, result, value>>, Phase' = Phase
  PROVE  UNCHANGED B!vars
<1>1. Status' = Status /\ Answer' = Answer
  BY DEF Status, Answer, Batch
<1> QED
  BY <1>1 DEF B!vars, Status, Answer

(* The answer Ok is the batch's: the sort puts all outputs in order.       *)
LEMMA OkIsReturnOk ==
  ASSUME IInv, OutputsInv, main = "op", MainOpFinish, result' = "Ok"
  PROVE  B!ReturnOk
<1>1. /\ main' = "returned" /\ value' = SortedByIndex(outputs)
      /\ UNCHANGED <<nfiles, outcome>>
  BY DEF MainOpFinish, Return, workerVars
<1>2. Phase = "running" /\ Phase' = "returned"
  BY <1>1 DEF Phase
<1>3. Status' = Status /\ DOMAIN Status = Batch
  BY <1>1 DEF Status, Batch
<1>4. \A i \in Batch : Status[i] \in {"output", "none"}
  BY DEF IInv, AnswerInv, Succeeded, Status
<1> DEFINE S == {i \in Batch : Status[i] = "output"}
<1>5. \A i \in Batch : i \in S <=> outcome[i] = "output"
  BY DEF Status
<1>6. SortedByIndex(outputs) = B!Increasing(S)
  <2>1. S \in SUBSET Nat
    BY WorkerPoolAssumption DEF Batch, IInv, TypeInv
  <2>2. outputs \in Seq(S)
    <3>1. outputs \in Seq(Indexes)
      BY DEF IInv, TypeInv
    <3>2. \A n \in 1 .. Len(outputs) : outputs[n] \in S
      BY <1>5 DEF OutputsInv, PushedIsOutput
    <3> QED
      BY <3>1, <3>2
  <2>3. \A i \in S : \E n \in 1 .. Len(outputs) : outputs[n] = i
    <3> SUFFICES ASSUME NEW i \in S PROVE Pushed(i)
      BY DEF Pushed
    <3>1. Live = {}
      BY DEF IInv, MainInv
    <3>2. \A w \in Workers : worker[w] # "push"
      BY <3>1 DEF Live
    <3> QED
      BY <1>5, <3>2 DEF OutputsInv, OutputIsPushed
  <2>4. \A m, n \in 1 .. Len(outputs) : outputs[m] = outputs[n] => m = n
    BY DEF OutputsInv, PushedOnce
  <2> HIDE DEF S
  <2> QED
    BY <2>1, <2>2, <2>3, <2>4, SortIsIncreasing
<1>7. Answer' = [kind |-> "ok", outputs |-> B!Increasing(S)]
  BY <1>1, <1>6 DEF Answer
<1> QED
  BY <1>2, <1>3, <1>4, <1>7 DEF B!ReturnOk, B!Files, B!Succeeds, B!Ok, Status, Answer

(* Each step of the calling thread begins the batch, answers, or shows     *)
(* nothing.                                                                *)
LEMMA MainImplements ==
  ASSUME IInv, OutputsInv, MainStep
  PROVE  [B!Next]_(B!vars)
<1> USE DEF Return
<1>1. CASE MainCollect
  <2>1. /\ main = "collect" /\ main' = "spawn"
        /\ UNCHANGED <<result, value, outcome>>
    BY <1>1 DEF MainCollect, workerVars
  <2> PICK n \in 0 .. MaxFiles : nfiles' = n
    BY <1>1 DEF MainCollect
  <2>2. Phase = "collecting" /\ Phase' = "running" /\ Answer' = Answer
    BY <2>1 DEF Phase, Answer
  <2>3. Status' = [i \in 0 .. n - 1 |-> "pending"]
    <3>1. \A i \in 0 .. n - 1 : outcome'[i] = "pending"
      <4>1. 0 .. n - 1 \subseteq Indexes
        BY WorkerPoolAssumption DEF Indexes
      <4> QED
        BY <2>1, <4>1, Untouched
    <3> QED
      BY <3>1 DEF Status, Batch
  <2>4. B!Collect(n)
    BY <2>2, <2>3 DEF B!Collect, Status, Answer
  <2> QED
    BY <2>4 DEF B!Next
<1>2. CASE MainSpawn \/ MainSpawnFails \/ MainSpawned \/ MainJoin \/ MainJoined
  <2>1. /\ UNCHANGED <<nfiles, outcome, result, value>>
        /\ main \in {"spawn", "join"} /\ main' \in {"spawn", "join", "scope"}
    BY <1>2 DEF MainSpawn, MainSpawnFails, MainSpawned, MainJoin, MainJoined, workerVars
  <2>2. Phase' = Phase
    BY <2>1 DEF Phase
  <2> QED
    BY <2>1, <2>2, NothingShown
<1>3. CASE MainStart \/ MainValidate \/ MainCollectFails \/ MainScope \/ MainDisplay \/ MainCheck
  <2>1. UNCHANGED <<nfiles, outcome, value>> /\ main # "returned"
    BY <1>3 DEF MainStart, MainValidate, MainCollectFails, MainScope, MainDisplay, MainCheck,
                workerVars
  <2>2. CASE main' = "returned"
    <3>1. result' \notin {"none", "Ok"}
      BY <1>3, <2>2 DEF MainStart, MainValidate, MainCollectFails, MainScope, MainDisplay,
                        MainCheck, IInv, TypeInv
    <3> QED
      BY <2>1, <2>2, <3>1, ErrorIsReturnErr DEF B!Next
  <2>3. CASE main' # "returned"
    <3>1. result' = result
      BY <1>3, <2>3 DEF MainStart, MainValidate, MainCollectFails, MainScope, MainDisplay, MainCheck
    <3>2. Phase' = Phase
      BY <1>3, <2>3 DEF MainStart, MainValidate, MainCollectFails, MainScope, MainDisplay,
                        MainCheck, Phase
    <3> QED
      BY <2>1, <3>1, <3>2, NothingShown
  <2> QED
    BY <2>2, <2>3
<1>4. CASE MainOpFinish
  <2>1. /\ main = "op" /\ main' = "returned" /\ result' \in {"OpFinish", "Ok"}
        /\ UNCHANGED <<nfiles, outcome>>
    BY <1>4 DEF MainOpFinish, workerVars
  <2>2. CASE result' = "Ok"
    BY <1>4, <2>1, <2>2, OkIsReturnOk DEF B!Next
  <2>3. CASE result' = "OpFinish"
    BY <2>1, <2>3, ErrorIsReturnErr DEF B!Next
  <2> QED
    BY <2>1, <2>2, <2>3
<1> QED
  BY <1>1, <1>2, <1>3, <1>4 DEF MainStep

(* Each step of a worker settles a file or shows nothing.                  *)
LEMMA WorkerImplements ==
  ASSUME IInv, CauseInv, NEW w \in Workers, WorkerStep(w)
  PROVE  [B!Next]_(B!vars)
<1>1. worker[w] \notin Stopped \cup {"unborn"} /\ UNCHANGED mainVars
  BY WorkerMoves DEF IInv
<1>2. UNCHANGED <<main, nfiles, result, value>> /\ Phase' = Phase
  BY <1>1 DEF mainVars, Phase
<1>3. CASE outcome' = outcome
  BY <1>2, <1>3, NothingShown
<1>4. CASE outcome' # outcome
  <2>1. ProcessBegin(w) \/ ProcessEnd(w)
    BY <1>4 DEF WorkerStep, Test, Claim, Push, Store, Record
  <2>2. idx[w] \in Batch /\ outcome[idx[w]] = "pending"
    BY <2>1, WorkerSettles
  <2>3. PICK o \in B!Settled : outcome' = [outcome EXCEPT ![idx[w]] = o]
    BY <1>4, <2>1, WorkerSettles
  <2>4. Phase = "running"
    <3>1. Live # {}
      BY <1>1 DEF Live, Stopped
    <3>2. main # "returned"
      BY <3>1 DEF IInv, MainInv
    <3>3. main \notin {"start", "validate", "collect"}
      BY <1>1, Untouched
    <3> QED
      BY <3>2, <3>3 DEF Phase
  <2>5. Status[idx[w]] = "pending" /\ Status' = [Status EXCEPT ![idx[w]] = o]
    <3>1. Batch' = Batch /\ Batch \subseteq Indexes
      BY <1>2, WorkerPoolAssumption DEF Batch, Indexes, IInv, TypeInv
    <3>2. \A i \in Batch : outcome'[i] = IF i = idx[w] THEN o ELSE outcome[i]
      BY <2>2, <2>3, <3>1 DEF IInv, TypeInv
    <3> QED
      BY <2>2, <3>1, <3>2 DEF Status
  <2>6. Answer' = Answer
    BY <1>2 DEF Answer
  <2>7. idx[w] \in B!Files
    BY <2>2 DEF B!Files
  <2>8. B!Settle(idx[w], o)
    BY <1>2, <2>4, <2>5, <2>6 DEF B!Settle, Status, Answer
  <2> QED
    BY <2>7, <2>8 DEF B!Next
<1> QED
  BY <1>3, <1>4

(* crawl_and_process keeps the promise of FileBatch, whatever the numbers  *)
(* of files and threads: no file is settled twice, Ok carries the outputs  *)
(* of all files in the order of the files, nothing happens after it.       *)
THEOREM ImplementsFileBatch == SafeSpec => BatchSafe
<1>1. Init => B!Init
  <2> SUFFICES ASSUME Init PROVE B!Init
    OBVIOUS
  <2>1. Phase = "collecting" /\ Batch = {}
    BY DEF Init, Phase, Batch
  <2> QED
    BY <2>1 DEF Init, B!Init, B!NoAnswer
<1>2. IInv /\ CauseInv /\ OutputsInv /\ [Next]_vars => [B!Next]_(B!vars)
  <2> SUFFICES ASSUME IInv, CauseInv, OutputsInv, [Next]_vars PROVE [B!Next]_(B!vars)
    OBVIOUS
  <2>1. CASE Cancel \/ UNCHANGED vars
    <3>1. UNCHANGED <<nfiles, outcome, result, value>> /\ Phase' = Phase
      BY <2>1 DEF Cancel, vars, mainVars, workerVars, Phase
    <3> QED
      BY <3>1, NothingShown
  <2> QED
    BY <2>1, MainImplements, WorkerImplements DEF Next, Done
<1> QED
  BY <1>1, <1>2, InvariantHolds, CauseHolds, OutputsHold, PTL
     DEF SafeSpec, BatchSafe, B!SafeSpec
=============================================================================
