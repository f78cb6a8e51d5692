------------------------------ MODULE MCTuiRun ------------------------------
(* Instances of TuiRun for TLC. *)
EXTENDS TuiRun
=============================================================================
