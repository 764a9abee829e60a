----------------------------- MODULE ResearchRun -----------------------------
(***************************************************************************)
(* What a research run promises its user, without attempts, queues or      *)
(* deadlines: one run at a time in a thread, at most DailyLimit runs that  *)
(* count against a day, a place given back only by a run that never got    *)
(* started, and one outcome per run.  AgentRun is shown to implement it.   *)
(***************************************************************************)
EXTENDS Naturals, FiniteSets

CONSTANTS Runs, Days, DailyLimit,
          ThreadOf,   \* run -> thread
          RunUser      \* run -> user

VARIABLES phase,      \* [Runs -> Phases]
          charged     \* [Runs -> SUBSET Days]: the day a run counts against

vars == <<phase, charged>>

Phases == {"absent", "queued", "started", "answered", "closed", "removed"}

Open(r) == phase[r] \in {"queued", "started"}

Charges(u, d) == {r \in Runs : RunUser[r] = u /\ d \in charged[r]}

Init == phase = [r \in Runs |-> "absent"] /\ charged = [r \in Runs |-> {}]

Submit(r, d) ==
  /\ phase[r] = "absent"
  /\ \A s \in Runs : ThreadOf[s] = ThreadOf[r] => ~Open(s) /\ phase[s] # "removed"
  /\ Cardinality(Charges(RunUser[r], d)) < DailyLimit
  /\ phase' = [phase EXCEPT ![r] = "queued"]
  /\ charged' = [charged EXCEPT ![r] = {d}]

Start(r) ==
  /\ phase[r] = "queued"
  /\ phase' = [phase EXCEPT ![r] = "started"]
  /\ UNCHANGED charged

Answer(r) ==
  /\ phase[r] = "started"
  /\ phase' = [phase EXCEPT ![r] = "answered"]
  /\ UNCHANGED charged

(* Runs end without an answer; those not started give their place back.    *)
Close(S) ==
  /\ \A r \in S : Open(r)
  /\ phase' = [r \in Runs |-> IF r \in S THEN "closed" ELSE phase[r]]
  /\ charged' = [r \in Runs |-> IF r \in S /\ phase[r] = "queued" THEN {} ELSE charged[r]]

(* A thread goes with all its runs; what they were charged stays charged.  *)
Remove(t) ==
  /\ phase' = [r \in Runs |-> IF ThreadOf[r] = t /\ phase[r] # "absent"
                              THEN "removed" ELSE phase[r]]
  /\ UNCHANGED charged

Next ==
  \/ \E r \in Runs, d \in Days : Submit(r, d)
  \/ \E r \in Runs : Start(r) \/ Answer(r)
  \/ \E S \in SUBSET Runs : Close(S)
  \/ \E t \in {ThreadOf[r] : r \in Runs} : Remove(t)

Spec == Init /\ [][Next]_vars
=============================================================================
