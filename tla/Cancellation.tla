---------------------------- MODULE Cancellation ----------------------------
(***************************************************************************)
(* pagers_core::Cancellation (crates/pagers-core/src/cancel.rs): an atomic *)
(* flag, a mutex and a condition variable shared by every clone.  A        *)
(* process is one call: a member of Cancels is one call of cancel()        *)
(* (signal thread, key thread, TUI teardown), a member of Waits one call   *)
(* of wait() (the daemon's hold(), the TUI's signal waiter).               *)
(*                                                                         *)
(* The mutex and the condition variable are those of std::sync, modelled   *)
(* from how cancel.rs uses them: Condvar::wait releases the mutex and      *)
(* parks in one step, notify_all releases every parked caller, and a       *)
(* parked caller may also wake for no reason.                              *)
(***************************************************************************)
EXTENDS Naturals

CONSTANTS
  Cancels,          \* the calls of cancel()
  Waits,            \* the calls of wait()
  NoCall,           \* the owner of a free mutex
  MaxSpurious       \* bound on the wake-ups nobody asked for

Calls == Cancels \cup Waits

ASSUME CancellationAssumption ==
  /\ Cancels \cap Waits = {}
  /\ NoCall \notin Calls
  /\ MaxSpurious \in Nat

VARIABLES
  cancelled,        \* State.cancelled
  owner,            \* the call that holds State.lock, or NoCall
  pc,               \* where each call is
  spurious          \* spurious wake-ups left

vars == <<cancelled, owner, pc, spurious>>

\* The control points of a call.  "swap", "notify", "unlock" belong to
\* cancel(), "test", "park", "leave" to wait(); the mutex is held there.
CancelPoints == {"idle", "lock", "swap", "notify", "unlock", "returned"}
WaitPoints   == {"idle", "lock", "test", "park", "leave", "parked", "relock", "returned"}
Critical     == {"swap", "notify", "unlock", "test", "park", "leave"}

Parked == {w \in Waits : pc[w] = "parked"}

Init ==
  /\ cancelled = FALSE
  /\ owner = NoCall
  /\ pc = [p \in Calls |-> "idle"]
  /\ spurious = MaxSpurious

Goto(p, from, to) ==
  /\ pc[p] = from
  /\ pc' = [pc EXCEPT ![p] = to]

-----------------------------------------------------------------------------
\* cancel(): takes the lock, swaps the flag, and notifies only when it was
\* the one to set it; the guard is dropped at the end of the function.

CancelBegin(c) ==
  /\ Goto(c, "idle", "lock")
  /\ UNCHANGED <<cancelled, owner, spurious>>

\* The same without the lock: the flag is set while a waiter may be
\* between its test and its wait.
CancelLockNoMutex(c) ==
  /\ Goto(c, "lock", "swap")
  /\ UNCHANGED <<cancelled, owner, spurious>>

CancelLock(c) ==
  /\ owner = NoCall
  /\ owner' = c
  /\ Goto(c, "lock", "swap")
  /\ UNCHANGED <<cancelled, spurious>>

\* The guard is forgotten when the flag was set already.
CancelSwapLeaksGuard(c) ==
  /\ Goto(c, "swap", IF cancelled THEN "returned" ELSE "notify")
  /\ cancelled' = TRUE
  /\ UNCHANGED <<owner, spurious>>

\* notify_all is skipped also by the call that set the flag.
CancelSwapNeverNotifies(c) ==
  /\ Goto(c, "swap", "unlock")
  /\ cancelled' = TRUE
  /\ UNCHANGED <<owner, spurious>>

CancelSwap(c) ==
  /\ Goto(c, "swap", IF cancelled THEN "unlock" ELSE "notify")
  /\ cancelled' = TRUE
  /\ UNCHANGED <<owner, spurious>>

CancelNotify(c) ==
  /\ pc[c] = "notify"
  /\ pc' = [p \in Calls |-> IF p = c THEN "unlock"
                            ELSE IF pc[p] = "parked" THEN "relock" ELSE pc[p]]
  /\ UNCHANGED <<cancelled, owner, spurious>>

CancelUnlock(c) ==
  /\ Goto(c, "unlock", "returned")
  /\ owner' = NoCall
  /\ UNCHANGED <<cancelled, spurious>>

-----------------------------------------------------------------------------
\* wait(): wait_while re-tests the flag, under the lock, each time it wakes.

WaitBegin(w) ==
  /\ Goto(w, "idle", "lock")
  /\ UNCHANGED <<cancelled, owner, spurious>>

\* An `if` in the place of the `while`: a wake-up is taken for the event.
WaitLockNoRetest(w) ==
  /\ owner = NoCall
  /\ owner' = w
  /\ Goto(w, "lock", "test") \/ Goto(w, "relock", "leave")
  /\ UNCHANGED <<cancelled, spurious>>

WaitLock(w) ==
  /\ owner = NoCall
  /\ owner' = w
  /\ Goto(w, "lock", "test") \/ Goto(w, "relock", "test")
  /\ UNCHANGED <<cancelled, spurious>>

WaitTest(w) ==
  /\ Goto(w, "test", IF cancelled THEN "leave" ELSE "park")
  /\ UNCHANGED <<cancelled, owner, spurious>>

\* Condvar::wait: release the mutex and park, in one step.
WaitPark(w) ==
  /\ Goto(w, "park", "parked")
  /\ owner' = NoCall
  /\ UNCHANGED <<cancelled, spurious>>

WaitLeave(w) ==
  /\ Goto(w, "leave", "returned")
  /\ owner' = NoCall
  /\ UNCHANGED <<cancelled, spurious>>

SpuriousWakeup(w) ==
  /\ spurious > 0
  /\ spurious' = spurious - 1
  /\ Goto(w, "parked", "relock")
  /\ UNCHANGED <<cancelled, owner>>

-----------------------------------------------------------------------------
\* The steps of a call that has begun: the scheduler takes them in the end.
CancelStep(c) == CancelLock(c) \/ CancelSwap(c) \/ CancelNotify(c) \/ CancelUnlock(c)
WaitStep(w)   == WaitLock(w) \/ WaitTest(w) \/ WaitPark(w) \/ WaitLeave(w)

Next ==
  \/ \E c \in Cancels : CancelBegin(c) \/ CancelStep(c)
  \/ \E w \in Waits : WaitBegin(w) \/ WaitStep(w) \/ SpuriousWakeup(w)

\* Nothing makes anybody call cancel() or wait(), nor wakes a parked call
\* for no reason; a call that can take a step takes one.
Fairness ==
  /\ \A c \in Cancels : WF_vars(CancelStep(c))
  /\ \A w \in Waits : WF_vars(WaitStep(w))

SafeSpec == Init /\ [][Next]_vars
Spec     == SafeSpec /\ Fairness

-----------------------------------------------------------------------------
(* Types, and mutual exclusion: the guard returned by lock() lives exactly *)
(* as long as its call is between taking the mutex and releasing it, so a  *)
(* call is in its critical section exactly when it owns the mutex.         *)
TypeOK ==
  /\ cancelled \in BOOLEAN
  /\ owner \in Calls \cup {NoCall}
  /\ pc \in [Calls -> CancelPoints \cup WaitPoints]
  /\ \A c \in Cancels : pc[c] \in CancelPoints
  /\ \A w \in Waits : pc[w] \in WaitPoints
  /\ spurious \in 0 .. MaxSpurious
  /\ \A p \in Calls : pc[p] \in Critical <=> owner = p

(* No wake-up is lost: once the flag is set, a call is parked only while   *)
(* the call of cancel() that set it has still to notify.  This is what     *)
(* setting the flag under the mutex buys (cancel.rs:24-27).                *)
NoLostWakeup ==
  cancelled /\ Parked # {} => \E c \in Cancels : pc[c] = "notify"

(* When any call of cancel() has returned, also one that found the flag    *)
(* set and notified nobody, no call of wait() is parked: a second signal   *)
(* cannot return from cancel() ahead of the first one's notification.      *)
ReturnMeansNotified ==
  (\E c \in Cancels : pc[c] = "returned") => Parked = {}

(* wait() returns only after cancel(): a spurious wake-up does not end     *)
(* hold() and drop the locks (cancel.rs:39).                               *)
OnlyCancelledLeave ==
  \A w \in Waits : pc[w] \in {"leave", "returned"} => cancelled

(* The token is a latch.                                                   *)
L == INSTANCE Latch WITH
       open   <- cancelled,
       inside <- {w \in Waits : pc[w] \notin {"idle", "returned"}},
       left   <- {w \in Waits : pc[w] = "returned"}

LatchSafe == L!SafeSpec
LatchSpec == L!Spec
=============================================================================
