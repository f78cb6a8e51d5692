------------------------------ MODULE FileBatch ------------------------------
(***************************************************************************)
(* What one call of crawl_and_process promises its caller, whatever the    *)
(* number of worker threads: a batch of files is fixed; every file is      *)
(* settled at most once; Ok is answered only when every file of the batch  *)
(* succeeded, with the outputs in the order of the batch; and nothing is   *)
(* processed after the answer.  Module WorkerPool implements this.         *)
(***************************************************************************)
EXTENDS Naturals, FiniteSets

CONSTANT MaxFiles     \* bound on the size of a batch

VARIABLES
  phase,              \* "collecting", "running" or "returned"
  status,             \* what became of each file of the batch
  answer              \* what the caller gets

vars == <<phase, status, answer>>

Files    == DOMAIN status
Settled  == {"output", "none", "error", "panic"}
Succeeds == {"output", "none"}

\* The members of a set of numbers in increasing order.
Increasing(S) ==
  [k \in 1 .. Cardinality(S) |->
     CHOOSE i \in S : Cardinality({j \in S : j < i}) = k - 1]

NoAnswer    == [kind |-> "none"]
Err         == [kind |-> "err"]
Ok(outputs) == [kind |-> "ok", outputs |-> outputs]

Init ==
  /\ phase = "collecting"
  /\ status = [i \in {} |-> "pending"]
  /\ answer = NoAnswer

Collect(n) ==
  /\ phase = "collecting"
  /\ phase' = "running"
  /\ status' = [i \in 0 .. n - 1 |-> "pending"]
  /\ UNCHANGED answer

Settle(i, s) ==
  /\ phase = "running"
  /\ status[i] = "pending"
  /\ status' = [status EXCEPT ![i] = s]
  /\ UNCHANGED <<phase, answer>>

ReturnOk ==
  /\ phase = "running"
  /\ \A i \in Files : status[i] \in Succeeds
  /\ phase' = "returned"
  /\ answer' = Ok(Increasing({i \in Files : status[i] = "output"}))
  /\ UNCHANGED status

ReturnErr ==
  /\ phase # "returned"
  /\ phase' = "returned"
  /\ answer' = Err
  /\ UNCHANGED status

Next ==
  \/ \E n \in 0 .. MaxFiles : Collect(n)
  \/ \E i \in Files, s \in Settled : Settle(i, s)
  \/ ReturnOk
  \/ ReturnErr

SafeSpec == Init /\ [][Next]_vars
Spec     == SafeSpec /\ WF_vars(ReturnOk \/ ReturnErr)
=============================================================================
