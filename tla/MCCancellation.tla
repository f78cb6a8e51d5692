--------------------------- MODULE MCCancellation ---------------------------
(* Two calls of cancel() (a first and a second signal) and three of wait(), *)
(* with two spurious wake-ups: enough for a waiter to be tested, parked,    *)
(* woken for nothing and parked again while both cancels race.              *)
EXTENDS Cancellation
=============================================================================
