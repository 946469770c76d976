--------------------------- MODULE MCRunReporting ---------------------------
(* Instances of RunReporting for TLC: where the processes run.             *)
EXTENDS RunReporting, TLC

CONSTANT Elsewhere  \* processes that run in a container of their own

MCLock == {"host"} \cup Elsewhere

MCHome == [p \in Proc |-> IF p \in Elsewhere THEN p ELSE "host"]

Alike == Permutations(Proc \ Elsewhere)
=============================================================================
