----------------------------- MODULE MCAgentRun -----------------------------
(* Instances of AgentRun for TLC: the runs of one user, all in one thread,  *)
(* or r1 in a thread and the others in a second one.                       *)
EXTENDS AgentRun, TLC

CONSTANTS u1, t1, t2, r1, r2, r3

MCOwner    == [t \in Threads |-> u1]
OneThread  == [r \in Runs |-> t1]
TwoThreads == [r \in Runs |-> IF r = r1 THEN t1 ELSE t2]

(* The runs of the second thread are alike.                                *)
Symmetry == Permutations({r2, r3})
=============================================================================
