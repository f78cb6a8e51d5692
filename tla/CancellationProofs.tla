------------------------- MODULE CancellationProofs -------------------------
(***************************************************************************)
(* Proofs about module Cancellation, for any set of calls and any number   *)
(* of spurious wake-ups: the mutex excludes, no wake-up is lost, wait()    *)
(* returns only after cancel(), and the token implements the latch.        *)
(***************************************************************************)
EXTENDS Cancellation, TLAPS

(* The parts that make the invariant inductive: a call about to park has   *)
(* tested the flag under the mutex it still holds; whoever has swapped the *)
(* flag has set it; whoever is past the notification finds nobody parked.  *)
ParkIsUncancelled ==
  \A w \in Waits : pc[w] = "park" => ~cancelled

SwapIsCancelled ==
  \A c \in Cancels : pc[c] \in {"notify", "unlock", "returned"} => cancelled

UnlockIsNotified ==
  \A c \in Cancels : pc[c] \in {"unlock", "returned"} => Parked = {}

IInv ==
  /\ TypeOK
  /\ NoLostWakeup
  /\ OnlyCancelledLeave
  /\ ParkIsUncancelled
  /\ SwapIsCancelled
  /\ UnlockIsNotified

-----------------------------------------------------------------------------
(* The initial state satisfies the invariant. *)
LEMMA InitIInv == Init => IInv
<1> SUFFICES ASSUME Init PROVE IInv
  OBVIOUS
<1>1. TypeOK
  <2>1. \A p \in Calls : pc[p] = "idle" /\ owner # p
    BY CancellationAssumption DEF Init
  <2>2. pc \in [Calls -> CancelPoints \cup WaitPoints]
    BY DEF Init, CancelPoints
  <2>3. spurious \in 0 .. MaxSpurious
    BY CancellationAssumption DEF Init
  <2>4. \A p \in Calls : pc[p] \in Critical <=> owner = p
    BY <2>1 DEF Critical
  <2> QED
    BY <2>1, <2>2, <2>3, <2>4 DEF Init, TypeOK, CancelPoints, WaitPoints, Calls
<1>2. Parked = {} /\ ~cancelled
  BY DEF Init, Parked, Calls
<1>3. OnlyCancelledLeave /\ ParkIsUncancelled /\ SwapIsCancelled
  BY <1>2 DEF Init, OnlyCancelledLeave, ParkIsUncancelled, SwapIsCancelled, Calls
<1> QED
  BY <1>1, <1>2, <1>3 DEF IInv, NoLostWakeup, UnlockIsNotified

(* Types and mutual exclusion are kept by each step of cancel(). *)
LEMMA CancelTypeOK ==
  ASSUME TypeOK, NEW c \in Cancels, CancelBegin(c) \/ CancelStep(c)
  PROVE  TypeOK'
<1> USE CancellationAssumption
    DEF TypeOK, Calls, CancelPoints, WaitPoints, Critical, Goto
<1>1. CASE CancelBegin(c)
  BY <1>1 DEF CancelBegin
<1>2. CASE CancelLock(c)
  BY <1>2 DEF CancelLock
<1>3. CASE CancelSwap(c)
  BY <1>3 DEF CancelSwap
<1>4. CASE CancelNotify(c)
  BY <1>4 DEF CancelNotify
<1>5. CASE CancelUnlock(c)
  BY <1>5 DEF CancelUnlock
<1> QED
  BY <1>1, <1>2, <1>3, <1>4, <1>5 DEF CancelStep

(* Types and mutual exclusion are kept by each step of wait(). *)
LEMMA WaitTypeOK ==
  ASSUME TypeOK, NEW w \in Waits, WaitBegin(w) \/ WaitStep(w) \/ SpuriousWakeup(w)
  PROVE  TypeOK'
<1> USE CancellationAssumption
    DEF TypeOK, Calls, CancelPoints, WaitPoints, Critical, Goto
<1>1. CASE WaitBegin(w)
  BY <1>1 DEF WaitBegin
<1>2. CASE WaitLock(w)
  BY <1>2 DEF WaitLock
<1>3. CASE WaitTest(w)
  BY <1>3 DEF WaitTest
<1>4. CASE WaitPark(w)
  BY <1>4 DEF WaitPark
<1>5. CASE WaitLeave(w)
  BY <1>5 DEF WaitLeave
<1>6. CASE SpuriousWakeup(w)
  BY <1>6 DEF SpuriousWakeup
<1> QED
  BY <1>1, <1>2, <1>3, <1>4, <1>5, <1>6 DEF WaitStep

(* The invariant is kept by each step of cancel(). *)
LEMMA CancelIInv ==
  ASSUME IInv, NEW c \in Cancels, CancelBegin(c) \/ CancelStep(c)
  PROVE  IInv'
<1>1. TypeOK /\ TypeOK'
  BY CancelTypeOK DEF IInv
<1> USE CancellationAssumption, <1>1
    DEF TypeOK, Calls, IInv, NoLostWakeup, OnlyCancelledLeave, ParkIsUncancelled,
        SwapIsCancelled, UnlockIsNotified, Goto, Parked
<1>2. CASE CancelBegin(c)
  BY <1>2 DEF CancelBegin
<1>3. CASE CancelLock(c)
  BY <1>3 DEF CancelLock
<1>4. CASE CancelSwap(c)
  <2>1. owner = c
    BY <1>4 DEF CancelSwap, Critical
  <2>2. \A p \in Calls : p # c => pc[p] \notin {"notify", "park"}
    BY <2>1 DEF Critical
  <2>3. cancelled => Parked = {}
    BY <1>4, <2>2 DEF CancelSwap
  <2> QED
    BY <1>4, <2>2, <2>3 DEF CancelSwap, Critical
<1>5. CASE CancelNotify(c)
  BY <1>5 DEF CancelNotify
<1>6. CASE CancelUnlock(c)
  BY <1>6 DEF CancelUnlock
<1> QED
  BY <1>2, <1>3, <1>4, <1>5, <1>6 DEF CancelStep

(* The invariant is kept by each step of wait(). *)
LEMMA WaitIInv ==
  ASSUME IInv, NEW w \in Waits, WaitBegin(w) \/ WaitStep(w) \/ SpuriousWakeup(w)
  PROVE  IInv'
<1>1. TypeOK /\ TypeOK'
  BY WaitTypeOK DEF IInv
<1> USE CancellationAssumption, <1>1
    DEF TypeOK, Calls, IInv, NoLostWakeup, OnlyCancelledLeave, ParkIsUncancelled,
        SwapIsCancelled, UnlockIsNotified, Goto, Parked
<1>2. CASE WaitBegin(w)
  BY <1>2 DEF WaitBegin
<1>3. CASE WaitLock(w)
  BY <1>3 DEF WaitLock
<1>4. CASE WaitTest(w)
  BY <1>4 DEF WaitTest
<1>5. CASE WaitPark(w)
  BY <1>5 DEF WaitPark
<1>6. CASE WaitLeave(w)
  BY <1>6 DEF WaitLeave
<1>7. CASE SpuriousWakeup(w)
  BY <1>7 DEF SpuriousWakeup
<1> QED
  BY <1>2, <1>3, <1>4, <1>5, <1>6, <1>7 DEF WaitStep

(* The strengthened invariant holds in every reachable state. *)
LEMMA InvariantHolds == SafeSpec => []IInv
<1>1. Init => IInv
  BY InitIInv
<1>2. IInv /\ [Next]_vars => IInv'
  <2> SUFFICES ASSUME IInv, [Next]_vars PROVE IInv'
    OBVIOUS
  <2>1. CASE Next
    BY <2>1, CancelIInv, WaitIInv DEF Next
  <2>2. CASE UNCHANGED vars
    BY <2>2 DEF vars, IInv, TypeOK, NoLostWakeup, OnlyCancelledLeave, ParkIsUncancelled,
                SwapIsCancelled, UnlockIsNotified, Parked
  <2> QED
    BY <2>1, <2>2
<1> QED
  BY <1>1, <1>2, PTL DEF SafeSpec

-----------------------------------------------------------------------------
(* Every variable keeps its type, and a call of cancel() or wait() is in   *)
(* its critical section exactly when it owns State.lock.                   *)
THEOREM TypeCorrect == SafeSpec => []TypeOK
<1>1. IInv => TypeOK
  BY DEF IInv
<1> QED
  BY <1>1, InvariantHolds, PTL

(* Once the flag is set, a call of wait() is parked only while the call of *)
(* cancel() that set the flag has still to notify.                         *)
THEOREM WakeupsAreKept == SafeSpec => []NoLostWakeup
<1>1. IInv => NoLostWakeup
  BY DEF IInv
<1> QED
  BY <1>1, InvariantHolds, PTL

(* When a call of cancel() has returned, no call of wait() is parked.      *)
THEOREM CancelIsComplete == SafeSpec => []ReturnMeansNotified
<1>1. IInv => ReturnMeansNotified
  BY DEF IInv, UnlockIsNotified, ReturnMeansNotified
<1> QED
  BY <1>1, InvariantHolds, PTL

(* A call of wait() returns only once the token is cancelled.              *)
THEOREM WaitIsSound == SafeSpec => []OnlyCancelledLeave
<1>1. IInv => OnlyCancelledLeave
  BY DEF IInv
<1> QED
  BY <1>1, InvariantHolds, PTL

-----------------------------------------------------------------------------
\* The calls of wait() that have begun and those that have returned: what
\* the refinement mapping of Cancellation substitutes for inside and left.
Inside == {w \in Waits : pc[w] \notin {"idle", "returned"}}
Left   == {w \in Waits : pc[w] = "returned"}

(* A step that moves no call of wait() across its entry or its return, and *)
(* that does not touch the flag, is a stutter of the latch.                *)
LEMMA StepOfLatch ==
  ASSUME IInv, Next
  PROVE  [L!Next]_(L!vars)
<1> USE CancellationAssumption
    DEF IInv, TypeOK, Calls, Goto, L!vars, Inside, Left
<1>1. ASSUME NEW c \in Cancels, CancelBegin(c) \/ CancelStep(c)
      PROVE  [L!Next]_(L!vars)
  <2>1. \A w \in Waits :
          /\ pc[w] \in {"idle", "returned"} <=> pc'[w] \in {"idle", "returned"}
          /\ pc[w] = "returned" <=> pc'[w] = "returned"
    BY <1>1 DEF CancelBegin, CancelStep, CancelLock, CancelSwap, CancelNotify, CancelUnlock
  <2>2. Inside' = Inside /\ Left' = Left
    BY <2>1
  <2>3. cancelled' = TRUE \/ cancelled' = cancelled
    BY <1>1 DEF CancelBegin, CancelStep, CancelLock, CancelSwap, CancelNotify, CancelUnlock
  <2> QED
    BY <2>2, <2>3 DEF L!Next, L!Open
<1>2. ASSUME NEW w \in Waits, WaitBegin(w)
      PROVE  [L!Next]_(L!vars)
  <2>1. w \notin Inside \cup Left
    BY <1>2 DEF WaitBegin
  <2>2. Inside' = Inside \cup {w} /\ Left' = Left /\ cancelled' = cancelled
    BY <1>2 DEF WaitBegin
  <2>3. L!Enter(w)
    BY <2>1, <2>2 DEF L!Enter
  <2> QED
    BY <2>3 DEF L!Next
<1>3. ASSUME NEW w \in Waits, WaitLeave(w)
      PROVE  [L!Next]_(L!vars)
  <2>1. cancelled
    BY <1>3 DEF WaitLeave, OnlyCancelledLeave
  <2>2. w \in Inside
    BY <1>3 DEF WaitLeave
  <2>3. Inside' = Inside \ {w} /\ Left' = Left \cup {w} /\ cancelled' = cancelled
    BY <1>3 DEF WaitLeave
  <2>4. L!Leave(w)
    BY <2>1, <2>2, <2>3 DEF L!Leave
  <2> QED
    BY <2>4 DEF L!Next
<1>4. ASSUME NEW w \in Waits, WaitLock(w) \/ WaitTest(w) \/ WaitPark(w) \/ SpuriousWakeup(w)
      PROVE  [L!Next]_(L!vars)
  <2>1. \A v \in Waits :
          /\ pc[v] \in {"idle", "returned"} <=> pc'[v] \in {"idle", "returned"}
          /\ pc[v] = "returned" <=> pc'[v] = "returned"
    BY <1>4 DEF WaitLock, WaitTest, WaitPark, SpuriousWakeup
  <2>2. Inside' = Inside /\ Left' = Left /\ cancelled' = cancelled
    BY <1>4, <2>1 DEF WaitLock, WaitTest, WaitPark, SpuriousWakeup
  <2> QED
    BY <2>2
<1> QED
  BY <1>1, <1>2, <1>3, <1>4 DEF Next, WaitStep

(* The token implements the latch: every step of cancel() and wait() opens *)
(* it, enters it, leaves it, or changes nothing the latch shows.           *)
THEOREM ImplementsLatch == SafeSpec => LatchSafe
<1>1. Init => L!Init
  BY DEF Init, L!Init, Calls
<1>2. IInv /\ [Next]_vars => [L!Next]_(L!vars)
  <2> SUFFICES ASSUME IInv, [Next]_vars PROVE [L!Next]_(L!vars)
    OBVIOUS
  <2>1. CASE Next
    BY <2>1, StepOfLatch
  <2>2. CASE UNCHANGED vars
    BY <2>2 DEF vars, L!vars
  <2> QED
    BY <2>1, <2>2
<1> QED
  BY <1>1, <1>2, InvariantHolds, PTL DEF SafeSpec, LatchSafe, L!SafeSpec
=============================================================================
