---------------------------- MODULE OutboxRelay ----------------------------
(***************************************************************************)
(* The transactional outbox table and the relay runs that drain it.        *)
(*                                                                         *)
(* A row of outbox_events is leased by a relay run, sent to SQS and then   *)
(* marked published, scheduled for a retry or stopped.  Every database     *)
(* transaction of backend/app/outbox/relay is one action; a run is the     *)
(* sequence of those transactions, and may end between any two of them.    *)
(*                                                                         *)
(* Time is a countdown: lease_left and wait_left are the ticks until       *)
(* leased_until and next_attempt_at, and life is what is left of a run's   *)
(* Lambda timeout, so "leased_until > now" reads lease_left > 0.           *)
(***************************************************************************)
EXTENDS Naturals, FiniteSets

CONSTANTS
  Events,         \* event ids; smaller means smaller occurred_at
  InvalidEvents,  \* events whose envelope build_message refuses
  Relays,         \* relay executions that can be alive at the same time
  MaxAttempts,    \* MAX_PUBLISH_ATTEMPTS
  LeaseLimit,     \* rows one run may lease
  StopLimit,      \* rows one run may stop at the attempt limit
  LeaseDuration,  \* ticks a lease lasts
  RunTimeout,     \* ticks after which Lambda ends a run
  RetryDelays     \* attempt -> the delays (in ticks) jitter may produce

ASSUME OutboxAssumption ==
  /\ Events \subseteq Nat
  /\ InvalidEvents \subseteq Events
  /\ IsFiniteSet(Relays)
  /\ MaxAttempts \in Nat \ {0}
  /\ LeaseLimit \in Nat \ {0}
  /\ StopLimit \in Nat \ {0}
  /\ LeaseDuration \in Nat \ {0}
  /\ RunTimeout \in Nat \ {0}
  /\ RetryDelays \in [1..(MaxAttempts - 1) -> SUBSET Nat]

VARIABLES
  outbox,   \* the events whose row exists
  row,      \* [Events -> Row]: the delivery columns of outbox_events
  pc,       \* [Relays -> Phase]: where each run is in run_once
  life,     \* [Relays -> Nat]: ticks until Lambda ends the run
  hand,     \* [Relays -> SUBSET Events]: leased events not yet settled by the run
  token,    \* [Relays -> [Events -> Nat]]: lease_token the run holds
  outcome,  \* [Relays -> [Events -> Outcome]]: send result not yet recorded
  copies    \* [Events -> Nat]: copies SQS accepted (external)

vars == <<outbox, row, pc, life, hand, token, outcome, copies>>

Phase   == {"idle", "stop", "lease", "build", "record"}
Failure == {"retryable", "final"}
Outcome == {"none", "accepted"} \cup Failure
Reason  == {"none", "non_retryable_failure", "retry_exhausted"}

(* lease_token is gen_random_uuid() and is only ever compared with tokens  *)
(* of the same row; the ordinal of the lease stands for it and 0 for NULL. *)
NoToken == 0

Row == [attempt_count : 0..MaxAttempts, lease_token : 0..MaxAttempts,
        lease_left : Nat, wait_left : Nat, published : BOOLEAN, stop_reason : Reason]

NewRow == [attempt_count |-> 0, lease_token |-> NoToken, lease_left |-> 0,
           wait_left |-> 0, published |-> FALSE, stop_reason |-> "none"]

Settled(e) == row[e].published \/ row[e].stop_reason # "none"

Unleased(e) == row[e].lease_left = 0   \* leased_until IS NULL or <= now

-----------------------------------------------------------------------------
(* Row selection: the first n rows, by occurred_at, of a candidate set.    *)
Oldest(S, n) ==
  {e \in S : Cardinality({f \in S : f < e}) < n}

(* Faulty: the reaper compares with > and misses rows exactly at the limit.*)
AtAttemptLimitOffByOne ==
  {e \in outbox : row[e].attempt_count > MaxAttempts /\ ~Settled(e) /\ Unleased(e)}

(* Faulty: the reaper does not wait for the last attempt's lease to end.   *)
AtAttemptLimitWhileLeased ==
  {e \in outbox : row[e].attempt_count >= MaxAttempts /\ ~Settled(e)}

AtAttemptLimit ==
  {e \in outbox : row[e].attempt_count >= MaxAttempts /\ ~Settled(e) /\ Unleased(e)}

(* Faulty: a row is leased while another run's lease on it is valid.       *)
LeasableWhileLeased ==
  {e \in outbox : /\ row[e].attempt_count < MaxAttempts
                  /\ ~Settled(e)
                  /\ row[e].wait_left = 0}

(* Faulty: a settled row is leased again.                                  *)
LeasableWhenSettled ==
  {e \in outbox : /\ row[e].attempt_count < MaxAttempts
                  /\ row[e].wait_left = 0
                  /\ Unleased(e)}

Leasable ==
  {e \in outbox : /\ row[e].attempt_count < MaxAttempts
                  /\ ~Settled(e)
                  /\ row[e].wait_left = 0
                  /\ Unleased(e)}

(* Faulty: the expiry of the lease is left behind.                         *)
ReleasedTokenOnly(e) == [row[e] EXCEPT !.lease_token = NoToken]

(* The row after an outcome is recorded: every outcome releases the lease. *)
Released(e) == [row[e] EXCEPT !.lease_token = NoToken, !.lease_left = 0]

(* Faulty: an attempt that is never answered is not counted.               *)
LeasedUncounted(e) == [row[e] EXCEPT !.lease_token = row[e].attempt_count + 1,
                                     !.lease_left = LeaseDuration]

(* The row after it is leased: a new token, and one more attempt.          *)
Leased(e) == [row[e] EXCEPT !.attempt_count = @ + 1,
                            !.lease_token = row[e].attempt_count + 1,
                            !.lease_left = LeaseDuration]

(* Faulty: any unexpired lease will do, whoever holds it.                  *)
MayUpdateAnyHolder(r, e) ==
  /\ row[e].lease_left > 0
  /\ ~Settled(e)

(* Only the owner of an unexpired lease on an unsettled row updates it.    *)
MayUpdate(r, e) ==
  /\ row[e].lease_token = token[r][e]
  /\ row[e].lease_left > 0
  /\ ~Settled(e)

SetRow(e, new) == row' = [row EXCEPT ![e] = new]

MarkPublished(r, e) ==
  IF MayUpdate(r, e) THEN SetRow(e, [Released(e) EXCEPT !.published = TRUE])
                     ELSE UNCHANGED row

ScheduleRetry(r, e, delay) ==
  IF MayUpdate(r, e) THEN SetRow(e, [Released(e) EXCEPT !.wait_left = delay])
                     ELSE UNCHANGED row

StopDelivery(r, e, reason) ==
  IF MayUpdate(r, e) THEN SetRow(e, [Released(e) EXCEPT !.stop_reason = reason])
                     ELSE UNCHANGED row

(* decide_publish_retry followed by the transaction of the failure handler.*)
(* attempt_count is the one returned by the lease, i.e. the token's ordinal.*)
HandleFailure(r, e, failure) ==
  \/ /\ failure = "final"
     /\ StopDelivery(r, e, "non_retryable_failure")
  \/ /\ failure = "retryable"
     /\ token[r][e] >= MaxAttempts
     /\ StopDelivery(r, e, "retry_exhausted")
  \/ /\ failure = "retryable"
     /\ token[r][e] < MaxAttempts
     /\ \E delay \in RetryDelays[token[r][e]] : ScheduleRetry(r, e, delay)

-----------------------------------------------------------------------------
(* A business transaction adds the event's row with its server defaults.   *)
AppendEvent(e) ==
  /\ e \notin outbox
  /\ outbox' = outbox \cup {e}
  /\ UNCHANGED <<row, pc, life, hand, token, outcome, copies>>

(* The scheduler invokes the relay Lambda.                                 *)
StartRun(r) ==
  /\ pc[r] = "idle"
  /\ pc' = [pc EXCEPT ![r] = "stop"]
  /\ life' = [life EXCEPT ![r] = RunTimeout]
  /\ UNCHANGED <<outbox, row, hand, token, outcome, copies>>

(* First transaction: rows at the attempt limit that nobody holds stop.    *)
StopAtLimit(r) ==
  /\ pc[r] = "stop"
  /\ LET S == Oldest(AtAttemptLimit, StopLimit) IN
       row' = [e \in Events |->
                 IF e \in S THEN [Released(e) EXCEPT !.stop_reason = "retry_exhausted"]
                            ELSE row[e]]
  /\ pc' = [pc EXCEPT ![r] = "lease"]
  /\ UNCHANGED <<outbox, life, hand, token, outcome, copies>>

NoOutcome == [e \in Events |-> "none"]
NoTokens  == [e \in Events |-> NoToken]

(* The run goes on with the events of held in phase next, or is over when  *)
(* there are none: its local state is then gone.                           *)
ContinueWith(r, held, next) ==
  /\ hand' = [hand EXCEPT ![r] = held]
  /\ pc' = [pc EXCEPT ![r] = IF held = {} THEN "idle" ELSE next]
  /\ life' = [life EXCEPT ![r] = IF held = {} THEN 0 ELSE @]

(* Second transaction: lease the oldest due rows; none ends the run.       *)
LeaseEvents(r) ==
  /\ pc[r] = "lease"
  /\ LET S == Oldest(Leasable, LeaseLimit) IN
       /\ row' = [e \in Events |-> IF e \in S THEN Leased(e) ELSE row[e]]
       /\ token' = [token EXCEPT ![r] =
                      [e \in Events |-> IF e \in S THEN Leased(e).lease_token
                                                   ELSE NoToken]]
       /\ ContinueWith(r, S, "build")
  /\ UNCHANGED <<outbox, outcome, copies>>

First(S) == {e \in S : \A f \in S : e <= f}

(* build_message refuses the first remaining invalid event: it is stopped  *)
(* at once and leaves the batch; a batch left empty ends the run.          *)
RejectInvalid(r) ==
  /\ pc[r] = "build"
  /\ \E e \in First(hand[r] \cap InvalidEvents) :
       /\ HandleFailure(r, e, "final")
       /\ token' = [token EXCEPT ![r][e] = NoToken]
       /\ ContinueWith(r, hand[r] \ {e}, "build")
  /\ UNCHANGED <<outbox, outcome, copies>>

(* The sender cannot be opened: one error becomes every event's failure.   *)
OpenSenderFails(r) ==
  /\ pc[r] = "build"
  /\ hand[r] \cap InvalidEvents = {}
  /\ \E failure \in Failure :
       outcome' = [outcome EXCEPT ![r] =
                     [e \in Events |-> IF e \in hand[r] THEN failure ELSE "none"]]
  /\ pc' = [pc EXCEPT ![r] = "record"]
  /\ UNCHANGED <<outbox, row, life, hand, token, copies>>

(* One SendMessageBatch.  SQS takes the events of delivered; an accepted   *)
(* entry is delivered, but a timeout, an unverifiable response or a body   *)
(* mismatch reports a failure whether or not the queue has the message.    *)
SendBatch(r) ==
  /\ pc[r] = "build"
  /\ hand[r] \cap InvalidEvents = {}
  /\ \E delivered \in SUBSET hand[r], result \in [hand[r] -> Outcome \ {"none"}] :
       /\ \A e \in hand[r] : result[e] = "accepted" => e \in delivered
       /\ outcome' = [outcome EXCEPT ![r] =
                        [e \in Events |-> IF e \in hand[r] THEN result[e] ELSE "none"]]
       /\ copies' = [e \in Events |-> IF e \in delivered THEN copies[e] + 1 ELSE copies[e]]
  /\ pc' = [pc EXCEPT ![r] = "record"]
  /\ UNCHANGED <<outbox, row, life, hand, token>>

(* Faulty: a batch call that returned is taken as success of every entry.  *)
RecordAllAsPublished(r) ==
  /\ pc[r] = "record"
  /\ \E e \in First(hand[r]) :
       /\ MarkPublished(r, e)
       /\ outcome' = [outcome EXCEPT ![r][e] = "none"]
       /\ token' = [token EXCEPT ![r][e] = NoToken]
       /\ ContinueWith(r, hand[r] \ {e}, "record")
  /\ UNCHANGED <<outbox, copies>>

(* Results are recorded one transaction each, in order.                    *)
RecordResult(r) ==
  /\ pc[r] = "record"
  /\ \E e \in First(hand[r]) :
       /\ \/ outcome[r][e] = "accepted" /\ MarkPublished(r, e)
          \/ outcome[r][e] \in Failure /\ HandleFailure(r, e, outcome[r][e])
       /\ outcome' = [outcome EXCEPT ![r][e] = "none"]
       /\ token' = [token EXCEPT ![r][e] = NoToken]
       /\ ContinueWith(r, hand[r] \ {e}, "record")
  /\ UNCHANGED <<outbox, copies>>

(* An exception or a crash ends the run between two transactions: what it  *)
(* still held stays leased in the table until the lease expires.           *)
AbortRun(r) ==
  /\ pc[r] # "idle"
  /\ ContinueWith(r, {}, "idle")
  /\ token' = [token EXCEPT ![r] = NoTokens]
  /\ outcome' = [outcome EXCEPT ![r] = NoOutcome]
  /\ UNCHANGED <<outbox, row, copies>>

Less1(n) == IF n > 0 THEN n - 1 ELSE 0

(* Time passes for leases and retries; Lambda ends the runs out of time.   *)
Tick ==
  LET Ended(r) == life[r] <= 1 IN
  /\ row' = [e \in Events |-> [row[e] EXCEPT !.lease_left = Less1(@),
                                             !.wait_left = Less1(@)]]
  /\ life' = [r \in Relays |-> Less1(life[r])]
  /\ pc' = [r \in Relays |-> IF Ended(r) THEN "idle" ELSE pc[r]]
  /\ hand' = [r \in Relays |-> IF Ended(r) THEN {} ELSE hand[r]]
  /\ token' = [r \in Relays |-> IF Ended(r) THEN NoTokens ELSE token[r]]
  /\ outcome' = [r \in Relays |-> IF Ended(r) THEN NoOutcome ELSE outcome[r]]
  /\ UNCHANGED <<outbox, copies>>

-----------------------------------------------------------------------------
Init ==
  /\ outbox = {}
  /\ row = [e \in Events |-> NewRow]
  /\ pc = [r \in Relays |-> "idle"]
  /\ life = [r \in Relays |-> 0]
  /\ hand = [r \in Relays |-> {}]
  /\ token = [r \in Relays |-> NoTokens]
  /\ outcome = [r \in Relays |-> NoOutcome]
  /\ copies = [e \in Events |-> 0]

RelayStep(r) ==
  \/ StartRun(r) \/ StopAtLimit(r) \/ LeaseEvents(r) \/ RejectInvalid(r)
  \/ OpenSenderFails(r) \/ SendBatch(r) \/ RecordResult(r) \/ AbortRun(r)

Next ==
  \/ \E e \in Events : AppendEvent(e)
  \/ \E r \in Relays : RelayStep(r)
  \/ Tick

Spec == Init /\ [][Next]_vars

(* The scheduler keeps invoking the relay, time passes, and the database   *)
(* does not fail forever at the same transaction: strong fairness, because *)
(* any single run may be aborted just before it.  Nothing is assumed about *)
(* sending or recording.                                                   *)
Fairness ==
  /\ WF_vars(Tick)
  /\ \A r \in Relays : /\ WF_vars(StartRun(r))
                       /\ SF_vars(StopAtLimit(r))
                       /\ SF_vars(LeaseEvents(r))

FairSpec == Spec /\ Fairness

-----------------------------------------------------------------------------
(* The table's CHECK constraints: a lease token and its expiry come and go *)
(* together, and an event is not both published and stopped.               *)
CheckConstraints ==
  \A e \in Events : /\ row[e].lease_token = NoToken => row[e].lease_left = 0
                    /\ ~(row[e].published /\ row[e].stop_reason # "none")

(* Types of the columns and of the runs' locals; no update is one that the *)
(* table's CHECK constraints would refuse.                                 *)
TypeOK ==
  /\ outbox \subseteq Events
  /\ row \in [Events -> Row]
  /\ pc \in [Relays -> Phase]
  /\ life \in [Relays -> Nat]
  /\ hand \in [Relays -> SUBSET Events]
  /\ token \in [Relays -> [Events -> 0..MaxAttempts]]
  /\ outcome \in [Relays -> [Events -> Outcome]]
  /\ copies \in [Events -> Nat]
  /\ CheckConstraints

(* published_at means that SQS accepted the message: no interleaving of    *)
(* stale runs, crashes and retries marks an event whose copy never arrived.*)
PublishedWasAccepted ==
  \A e \in Events : row[e].published => copies[e] > 0

(* attempt_count counts every send the relay makes, crashes included, so   *)
(* the queue never holds more copies of an event than its attempts, and    *)
(* only an event that used up all attempts is recorded as exhausted.       *)
CopiesWithinAttempts ==
  \A e \in Events :
    /\ copies[e] <= row[e].attempt_count
    /\ row[e].stop_reason = "retry_exhausted" => row[e].attempt_count = MaxAttempts

(* A run that overran its lease cannot take the row away from the run that *)
(* leased it afterwards: while the newest lease's run still works on the   *)
(* event, the row carries that run's token, unless the attempt limit       *)
(* stopped it after that lease, too, had expired.                          *)
NewestLeaseKept ==
  \A r \in Relays : \A e \in hand[r] :
    token[r][e] = row[e].attempt_count =>
      \/ row[e].lease_token = token[r][e]
      \/ row[e].stop_reason = "retry_exhausted"

(* A settled row never changes again, except that its clocks run down.     *)
SettledIsFinal ==
  [][\A e \in Events : Settled(e) =>
       /\ row'[e].published = row[e].published
       /\ row'[e].stop_reason = row[e].stop_reason
       /\ row'[e].attempt_count = row[e].attempt_count]_vars

(* When Lambda ends a run before its leases expire, two live runs never    *)
(* work on the same event, and a run's recorded outcome is never skipped.  *)
ExclusiveWork ==
  /\ \A r, s \in Relays : r # s => hand[r] \cap hand[s] = {}
  /\ \A r \in Relays : \A e \in hand[r] : MayUpdate(r, e)

(* The inductive strengthenings the proofs use.  Tokens in hand are ordinals *)
(* of leases that were granted, and no two runs hold the same one.         *)
TokenInv ==
  /\ \A e \in Events : row[e].lease_token <= row[e].attempt_count
  /\ \A r \in Relays : \A e \in hand[r] :
       /\ e \in outbox
       /\ 1 <= token[r][e] /\ token[r][e] <= row[e].attempt_count
       /\ \A s \in Relays : s # r /\ e \in hand[s] => token[r][e] # token[s][e]

(* Only existing rows are settled; an accepted result means a copy exists.  *)
AcceptedInv ==
  /\ \A e \in Events : Settled(e) => e \in outbox
  /\ \A r \in Relays : \A e \in Events : outcome[r][e] = "accepted" => copies[e] > 0

(* The runs that hold the event and may still send it: each of them has    *)
(* been granted an attempt that no copy has used yet.                      *)
Unsent(e) == {r \in Relays : pc[r] = "build" /\ e \in hand[r]}

AttemptInv ==
  \A e \in Events :
    /\ copies[e] + Cardinality(Unsent(e)) <= row[e].attempt_count
    /\ row[e].stop_reason = "retry_exhausted" => row[e].attempt_count = MaxAttempts

(* A live run's leases outlast the run.                                    *)
OutlastInv ==
  \A r \in Relays :
    /\ pc[r] = "idle" => hand[r] = {}
    /\ pc[r] # "idle" => 1 <= life[r] /\ life[r] <= RunTimeout
    /\ \A e \in hand[r] : MayUpdate(r, e) /\ life[r] <= row[e].lease_left

(* Every recorded event is eventually published or stopped, however often  *)
(* runs die between sending and recording.                                 *)
EventuallySettled == \A e \in Events : e \in outbox ~> Settled(e)

(* The abstract promise this module implements.                            *)
DeliveryStatus ==
  [e \in Events |-> IF e \notin outbox THEN "absent"
                    ELSE IF row[e].published THEN "published"
                    ELSE IF row[e].stop_reason # "none" THEN "stopped"
                    ELSE "pending"]

Delivery == INSTANCE OutboxDelivery WITH status <- DeliveryStatus, copies <- copies

ImplementsDelivery == Delivery!Spec
=============================================================================
