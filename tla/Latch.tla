-------------------------------- MODULE Latch --------------------------------
(***************************************************************************)
(* What pagers promises of a cancellation token: a latch that is opened    *)
(* once and stays open, and callers that wait for it.  A caller leaves     *)
(* only through an open latch, and every caller that waits at an open      *)
(* latch leaves.  Nothing is said of locks, wake-ups or memory order;      *)
(* module Cancellation is shown to implement this one.                     *)
(***************************************************************************)
CONSTANT Waits      \* the calls of wait()

VARIABLES
  open,             \* the latch has been opened
  inside,           \* the calls that have started to wait
  left              \* the calls that have returned

vars == <<open, inside, left>>

TypeOK ==
  /\ open \in BOOLEAN
  /\ inside \subseteq Waits
  /\ left \subseteq Waits

Init ==
  /\ open = FALSE
  /\ inside = {}
  /\ left = {}

Open ==
  /\ open' = TRUE
  /\ UNCHANGED <<inside, left>>

Enter(w) ==
  /\ w \notin inside \cup left
  /\ inside' = inside \cup {w}
  /\ UNCHANGED <<open, left>>

Leave(w) ==
  /\ open
  /\ w \in inside
  /\ inside' = inside \ {w}
  /\ left' = left \cup {w}
  /\ UNCHANGED open

Next == Open \/ \E w \in Waits : Enter(w) \/ Leave(w)

SafeSpec == Init /\ [][Next]_vars

Spec == SafeSpec /\ \A w \in Waits : WF_vars(Leave(w))
=============================================================================
