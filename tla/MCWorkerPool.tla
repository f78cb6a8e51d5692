---------------------------- MODULE MCWorkerPool ----------------------------
(* Instances of WorkerPool for TLC. *)
EXTENDS WorkerPool

AllOutcomes == {"output", "none", "error", "panic"}
=============================================================================
