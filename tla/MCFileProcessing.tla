-------------------------- MODULE MCFileProcessing --------------------------
(* Instances of FileProcessing for TLC. *)
EXTENDS FileProcessing

AllOps == {"Query", "Touch", "Evict", "Lock"}

\* The kernel may reclaim at any point of process_one and after it.
Anywhere == {"check", "prepare", "sample", "announce", "recheck", "execute", "walk", "read",
             "mlock", "measure", "report", "returned"}

\* It reclaims only between the sample and the walk.
BeforeTheWalk == {"announce", "recheck", "execute"}
=============================================================================
