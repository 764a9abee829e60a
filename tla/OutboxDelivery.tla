--------------------------- MODULE OutboxDelivery ---------------------------
(***************************************************************************)
(* What the transactional outbox promises to the rest of the pipeline,     *)
(* without leases, attempts or clocks: an event that was recorded is       *)
(* handed to the queue zero or more times while it is pending, and is then *)
(* settled for good, either as published (a copy did reach the queue) or   *)
(* as stopped.  OutboxRelay is shown to implement this module.             *)
(***************************************************************************)
EXTENDS Naturals

CONSTANT Events         \* identities of outbox rows (outbox_events.event_id)

VARIABLES
  status,               \* [Events -> {"absent","pending","published","stopped"}]
  copies                \* [Events -> Nat]: copies the queue has accepted

vars == <<status, copies>>

Pending(e) == status[e] = "pending"

Init ==
  /\ status = [e \in Events |-> "absent"]
  /\ copies = [e \in Events |-> 0]

(* A business transaction commits together with its event.                 *)
Record(e) ==
  /\ status[e] = "absent"
  /\ status' = [status EXCEPT ![e] = "pending"]
  /\ UNCHANGED copies

(* The queue accepts one copy of each pending event of a batch S.          *)
Deliver(S) ==
  /\ \A e \in S : Pending(e)
  /\ copies' = [e \in Events |-> IF e \in S THEN copies[e] + 1 ELSE copies[e]]
  /\ UNCHANGED status

(* A pending event is confirmed as published: a copy is in the queue.      *)
Confirm(e) ==
  /\ Pending(e)
  /\ copies[e] > 0
  /\ status' = [status EXCEPT ![e] = "published"]
  /\ UNCHANGED copies

(* Automatic delivery of the pending events of S is given up.              *)
GiveUp(S) ==
  /\ \A e \in S : Pending(e)
  /\ status' = [e \in Events |-> IF e \in S THEN "stopped" ELSE status[e]]
  /\ UNCHANGED copies

Next ==
  \/ \E e \in Events : Record(e) \/ Confirm(e)
  \/ \E S \in SUBSET Events : Deliver(S) \/ GiveUp(S)

Spec == Init /\ [][Next]_vars
=============================================================================
