------------------------- MODULE OutboxRelayProofs -------------------------
(* Proofs about OutboxRelay, for every set of events and relays, every     *)
(* attempt limit, lease duration, timeout and set of retry delays.         *)
EXTENDS OutboxRelay, FiniteSetTheorems, WellFoundedInduction, TLAPS

-----------------------------------------------------------------------------
(* What each row transformer does to the columns.                          *)

(* What row selection returns are candidates.                              *)
LEMMA OldestIsSubset ==
  ASSUME NEW S, NEW n
  PROVE  Oldest(S, n) \subseteq S
  BY DEF Oldest

(* A row whose two lease columns are set within their types is a row.      *)
LEMMA LeaseColumns ==
  ASSUME NEW old \in Row, NEW t \in 0..MaxAttempts, NEW left \in Nat
  PROVE  [old EXCEPT !.lease_token = t, !.lease_left = left] \in Row
  BY DEF Row

(* Releasing a lease touches the two lease columns only.                   *)
LEMMA ReleasedColumns ==
  ASSUME TypeOK, NEW e \in Events
  PROVE  /\ Released(e) \in Row
         /\ Released(e).attempt_count = row[e].attempt_count
         /\ Released(e).lease_token = NoToken
         /\ Released(e).lease_left = 0
         /\ Released(e).wait_left = row[e].wait_left
         /\ Released(e).published = row[e].published
         /\ Released(e).stop_reason = row[e].stop_reason
<1>1. row[e] \in Row
  BY DEF TypeOK
<1>2. Released(e) \in Row
  <2>1. NoToken \in 0..MaxAttempts /\ 0 \in Nat
    BY OutboxAssumption DEF NoToken
  <2>2. QED
    BY <1>1, <2>1, LeaseColumns, Zenon DEF Released
<1>3. /\ Released(e).attempt_count = row[e].attempt_count
      /\ Released(e).lease_token = NoToken
      /\ Released(e).lease_left = 0
      /\ Released(e).wait_left = row[e].wait_left
      /\ Released(e).published = row[e].published
      /\ Released(e).stop_reason = row[e].stop_reason
  BY <1>1 DEF Released, Row
<1>4. QED
  BY <1>2, <1>3

LEMMA GrantedColumns ==
  ASSUME NEW old \in Row, old.attempt_count + 1 \in 0..MaxAttempts, NEW left \in Nat
  PROVE  LET new == [old EXCEPT !.attempt_count = @ + 1,
                                !.lease_token = old.attempt_count + 1, !.lease_left = left]
         IN  /\ new \in Row
             /\ new.attempt_count = old.attempt_count + 1
             /\ new.lease_token = old.attempt_count + 1
             /\ new.lease_left = left
             /\ new.published = old.published
             /\ new.stop_reason = old.stop_reason
  BY DEF Row

(* Leasing counts an attempt and hands out its ordinal as the new token.   *)
LEMMA LeasedColumns ==
  ASSUME TypeOK, NEW e \in Events, row[e].attempt_count < MaxAttempts
  PROVE  /\ Leased(e) \in Row
         /\ Leased(e).attempt_count = row[e].attempt_count + 1
         /\ Leased(e).lease_token = row[e].attempt_count + 1
         /\ Leased(e).lease_left = LeaseDuration
         /\ Leased(e).published = row[e].published
         /\ Leased(e).stop_reason = row[e].stop_reason
<1> DEFINE n == row[e].attempt_count + 1
<1>1. row[e] \in Row
  BY DEF TypeOK
<1>2. n \in 0..MaxAttempts
  BY <1>1, OutboxAssumption DEF Row
<1>3. /\ Leased(e) \in Row
      /\ Leased(e).attempt_count = n
      /\ Leased(e).lease_token = n
      /\ Leased(e).lease_left = LeaseDuration
      /\ Leased(e).published = row[e].published
      /\ Leased(e).stop_reason = row[e].stop_reason
  <2>1. LeaseDuration \in Nat /\ row[e].attempt_count + 1 \in 0..MaxAttempts
    BY <1>2, OutboxAssumption
  <2>2. QED
    BY <1>1, <2>1, GrantedColumns, Zenon DEF Leased
<1>4. QED
  BY <1>3

-----------------------------------------------------------------------------
(* What the recording transactions do to the table.                        *)

OnlyRow(e) == /\ row' \in [Events -> Row]
              /\ \A d \in Events : d # e => row'[d] = row[d]

LeaseReleased(e) ==
  /\ row'[e].attempt_count = row[e].attempt_count
  /\ row'[e].lease_token = NoToken
  /\ row'[e].lease_left = 0

LEMMA MarkPublishedEffect ==
  ASSUME TypeOK, NEW r \in Relays, NEW e \in Events, MarkPublished(r, e)
  PROVE  /\ OnlyRow(e)
         /\ \/ UNCHANGED row
            \/ /\ MayUpdate(r, e)
               /\ LeaseReleased(e)
               /\ row'[e].published = TRUE
               /\ row'[e].stop_reason = row[e].stop_reason
<1>1. row \in [Events -> Row]
  BY DEF TypeOK
<1>2. CASE ~MayUpdate(r, e)
  BY <1>1, <1>2 DEF MarkPublished, OnlyRow
<1>3. CASE MayUpdate(r, e)
  <2> DEFINE new == [Released(e) EXCEPT !.published = TRUE]
  <2>1. row' = [row EXCEPT ![e] = new]
    BY <1>3 DEF MarkPublished, SetRow
  <2>2. /\ new \in Row
        /\ new.attempt_count = row[e].attempt_count
        /\ new.lease_token = NoToken
        /\ new.lease_left = 0
        /\ new.published = TRUE
        /\ new.stop_reason = row[e].stop_reason
    BY ReleasedColumns DEF Row
  <2> HIDE DEF new
  <2>3. QED
    BY <1>1, <1>3, <2>1, <2>2 DEF OnlyRow, LeaseReleased
<1>4. QED
  BY <1>2, <1>3

LEMMA ScheduleRetryEffect ==
  ASSUME TypeOK, NEW r \in Relays, NEW e \in Events, NEW delay \in Nat,
         ScheduleRetry(r, e, delay)
  PROVE  /\ OnlyRow(e)
         /\ \/ UNCHANGED row
            \/ /\ MayUpdate(r, e)
               /\ LeaseReleased(e)
               /\ row'[e].published = row[e].published
               /\ row'[e].stop_reason = row[e].stop_reason
<1>1. row \in [Events -> Row]
  BY DEF TypeOK
<1>2. CASE ~MayUpdate(r, e)
  BY <1>1, <1>2 DEF ScheduleRetry, OnlyRow
<1>3. CASE MayUpdate(r, e)
  <2> DEFINE new == [Released(e) EXCEPT !.wait_left = delay]
  <2>1. row' = [row EXCEPT ![e] = new]
    BY <1>3 DEF ScheduleRetry, SetRow
  <2>2. /\ new \in Row
        /\ new.attempt_count = row[e].attempt_count
        /\ new.lease_token = NoToken
        /\ new.lease_left = 0
        /\ new.published = row[e].published
        /\ new.stop_reason = row[e].stop_reason
    BY ReleasedColumns DEF Row
  <2> HIDE DEF new
  <2>3. QED
    BY <1>1, <1>3, <2>1, <2>2 DEF OnlyRow, LeaseReleased
<1>4. QED
  BY <1>2, <1>3

LEMMA StopDeliveryEffect ==
  ASSUME TypeOK, NEW r \in Relays, NEW e \in Events, NEW reason \in Reason,
         StopDelivery(r, e, reason)
  PROVE  /\ OnlyRow(e)
         /\ \/ UNCHANGED row
            \/ /\ MayUpdate(r, e)
               /\ LeaseReleased(e)
               /\ row'[e].published = row[e].published
               /\ row'[e].stop_reason = reason
<1>1. row \in [Events -> Row]
  BY DEF TypeOK
<1>2. CASE ~MayUpdate(r, e)
  BY <1>1, <1>2 DEF StopDelivery, OnlyRow
<1>3. CASE MayUpdate(r, e)
  <2> DEFINE new == [Released(e) EXCEPT !.stop_reason = reason]
  <2>1. row' = [row EXCEPT ![e] = new]
    BY <1>3 DEF StopDelivery, SetRow
  <2>2. /\ new \in Row
        /\ new.attempt_count = row[e].attempt_count
        /\ new.lease_token = NoToken
        /\ new.lease_left = 0
        /\ new.published = row[e].published
        /\ new.stop_reason = reason
    BY ReleasedColumns DEF Row
  <2> HIDE DEF new
  <2>3. QED
    BY <1>1, <1>3, <2>1, <2>2 DEF OnlyRow, LeaseReleased
<1>4. QED
  BY <1>2, <1>3

LEMMA HandleFailureEffect ==
  ASSUME TypeOK, NEW r \in Relays, NEW e \in Events, NEW failure \in Failure,
         token[r][e] \in Nat \ {0}, HandleFailure(r, e, failure)
  PROVE  /\ OnlyRow(e)
         /\ \/ UNCHANGED row
            \/ /\ MayUpdate(r, e)
               /\ LeaseReleased(e)
               /\ row'[e].published = row[e].published
               /\ \/ row'[e].stop_reason = row[e].stop_reason
                  \/ row'[e].stop_reason = "non_retryable_failure"
                  \/ row'[e].stop_reason = "retry_exhausted" /\ token[r][e] >= MaxAttempts
<1>1. CASE failure = "final"
  BY <1>1, StopDeliveryEffect DEF HandleFailure, Reason
<1>2. CASE failure = "retryable" /\ token[r][e] >= MaxAttempts
  BY <1>2, StopDeliveryEffect, OutboxAssumption DEF HandleFailure, Reason
<1>3. CASE failure = "retryable" /\ token[r][e] < MaxAttempts
  <2>1. PICK delay \in RetryDelays[token[r][e]] : ScheduleRetry(r, e, delay)
    BY <1>3, OutboxAssumption DEF HandleFailure
  <2>2. delay \in Nat
    BY <1>3, OutboxAssumption
  <2>3. QED
    BY <2>1, <2>2, ScheduleRetryEffect
<1>4. QED
  BY <1>1, <1>2, <1>3, OutboxAssumption DEF Failure

LEMMA StopAtLimitEffect ==
  ASSUME TypeOK, NEW r \in Relays, StopAtLimit(r)
  PROVE  /\ row' \in [Events -> Row]
         /\ \A e \in Events :
              \/ row'[e] = row[e]
              \/ /\ e \in AtAttemptLimit
                 /\ LeaseReleased(e)
                 /\ row'[e].wait_left = row[e].wait_left
                 /\ row'[e].published = row[e].published
                 /\ row'[e].stop_reason = "retry_exhausted"
         /\ \A e \in Events \cap Oldest(AtAttemptLimit, StopLimit) :
              row'[e].stop_reason = "retry_exhausted"
<1> DEFINE S == Oldest(AtAttemptLimit, StopLimit)
           new(e) == [Released(e) EXCEPT !.stop_reason = "retry_exhausted"]
<1>1. row' = [e \in Events |-> IF e \in S THEN new(e) ELSE row[e]]
  BY DEF StopAtLimit
<1>2. S = Oldest(AtAttemptLimit, StopLimit) /\ S \subseteq AtAttemptLimit
  BY OldestIsSubset
<1>3. ASSUME NEW e \in Events
      PROVE  /\ row[e] \in Row
             /\ new(e) \in Row
             /\ new(e).attempt_count = row[e].attempt_count
             /\ new(e).lease_token = NoToken
             /\ new(e).lease_left = 0
             /\ new(e).wait_left = row[e].wait_left
             /\ new(e).published = row[e].published
             /\ new(e).stop_reason = "retry_exhausted"
  BY ReleasedColumns DEF Row, Reason, TypeOK
<1> HIDE DEF S, new
<1>4. QED
  BY <1>1, <1>2, <1>3 DEF LeaseReleased

LEMMA LeaseEventsEffect ==
  ASSUME TypeOK, NEW r \in Relays, LeaseEvents(r)
  PROVE  \E S \in SUBSET Leasable :
           /\ S = Oldest(Leasable, LeaseLimit)
           /\ row' \in [Events -> Row]
           /\ \A e \in Events \ S : row'[e] = row[e]
           /\ \A e \in S :
                /\ e \in Events
                /\ row'[e].attempt_count = row[e].attempt_count + 1
                /\ row'[e].lease_token = row[e].attempt_count + 1
                /\ row'[e].lease_left = LeaseDuration
                /\ row'[e].published = row[e].published
                /\ row'[e].stop_reason = row[e].stop_reason
                /\ token'[r][e] = row[e].attempt_count + 1
           /\ token' = [token EXCEPT ![r] = [e \in Events |->
                           IF e \in S THEN row[e].attempt_count + 1 ELSE NoToken]]
           /\ ContinueWith(r, S, "build")
<1> DEFINE S == Oldest(Leasable, LeaseLimit)
           new(e) == Leased(e)
           nt == [e \in Events |-> IF e \in S THEN row[e].attempt_count + 1 ELSE NoToken]
<1>1. S \subseteq Leasable /\ Leasable \subseteq Events
  BY OldestIsSubset DEF Leasable, TypeOK
<1>2. ASSUME NEW e \in S
      PROVE  /\ new(e) \in Row
             /\ new(e).attempt_count = row[e].attempt_count + 1
             /\ new(e).lease_token = row[e].attempt_count + 1
             /\ new(e).lease_left = LeaseDuration
             /\ new(e).published = row[e].published
             /\ new(e).stop_reason = row[e].stop_reason
  BY <1>1, <1>2, LeasedColumns DEF Leasable
<1>3. \A e \in Events : row[e] \in Row
  BY DEF TypeOK
<1>4. /\ row' = [e \in Events |-> IF e \in S THEN new(e) ELSE row[e]]
      /\ token' = [token EXCEPT ![r] =
                     [e \in Events |-> IF e \in S THEN new(e).lease_token ELSE NoToken]]
      /\ ContinueWith(r, S, "build")
  BY DEF LeaseEvents
<1> HIDE DEF S, new
<1>5. [e \in Events |-> IF e \in S THEN new(e).lease_token ELSE NoToken] = nt
  BY <1>2
<1>6. token' = [token EXCEPT ![r] = nt]
  BY <1>4, <1>5
<1>7. \A e \in S : token'[r][e] = row[e].attempt_count + 1
  BY <1>1, <1>6 DEF TypeOK
<1>8. S = Oldest(Leasable, LeaseLimit)
  BY DEF S
<1>9. QED
  BY <1>1, <1>2, <1>3, <1>4, <1>6, <1>7, <1>8

LEMMA TickEffect ==
  ASSUME TypeOK, Tick
  PROVE  /\ row' \in [Events -> Row]
         /\ \A e \in Events :
              /\ row'[e].attempt_count = row[e].attempt_count
              /\ row'[e].lease_token = row[e].lease_token
              /\ row'[e].lease_left = Less1(row[e].lease_left)
              /\ row'[e].wait_left = Less1(row[e].wait_left)
              /\ row'[e].published = row[e].published
              /\ row'[e].stop_reason = row[e].stop_reason
<1>1. ASSUME NEW e \in Events
      PROVE  /\ row'[e] \in Row
             /\ row'[e].attempt_count = row[e].attempt_count
             /\ row'[e].lease_token = row[e].lease_token
             /\ row'[e].lease_left = Less1(row[e].lease_left)
             /\ row'[e].wait_left = Less1(row[e].wait_left)
             /\ row'[e].published = row[e].published
             /\ row'[e].stop_reason = row[e].stop_reason
  <2>1. row[e] \in Row
    BY DEF TypeOK
  <2> DEFINE half == [row[e] EXCEPT !.lease_left = Less1(@)]
  <2>2. /\ half \in Row
        /\ half.attempt_count = row[e].attempt_count
        /\ half.lease_token = row[e].lease_token
        /\ half.lease_left = Less1(row[e].lease_left)
        /\ half.wait_left = row[e].wait_left
        /\ half.published = row[e].published
        /\ half.stop_reason = row[e].stop_reason
    BY <2>1 DEF Row, Less1
  <2>3. row'[e] = [half EXCEPT !.wait_left = Less1(row[e].wait_left)]
    BY <2>1 DEF Tick, Row
  <2>4. Less1(row[e].wait_left) \in Nat
    BY <2>1 DEF Row, Less1
  <2> HIDE DEF half
  <2>5. QED
    BY <2>2, <2>3, <2>4 DEF Row
<1>2. row' = [e \in Events |-> row'[e]]
  BY DEF Tick
<1>3. QED
  BY <1>1, <1>2

-----------------------------------------------------------------------------
(* Type correctness, together with the facts about tokens it rests on: the *)
(* retry delay is looked up at the attempt the token stands for.           *)

LEMMA ContinueWithType ==
  ASSUME TypeOK, NEW r \in Relays, NEW held \in SUBSET Events,
         NEW next \in Phase, ContinueWith(r, held, next)
  PROVE  /\ hand' \in [Relays -> SUBSET Events]
         /\ pc' \in [Relays -> Phase]
         /\ life' \in [Relays -> Nat]
  BY DEF ContinueWith, TypeOK, Phase

(* What the run learns about one event: it is dropped from the hand, and   *)
(* its row is released with an outcome if the run still owns the lease.    *)
Settles(r, e) ==
  /\ OnlyRow(e)
  /\ \/ UNCHANGED row
     \/ /\ MayUpdate(r, e)
        /\ LeaseReleased(e)
        /\ \/ /\ row'[e].published = row[e].published
              /\ \/ row'[e].stop_reason = row[e].stop_reason
                 \/ row'[e].stop_reason = "non_retryable_failure"
                 \/ row'[e].stop_reason = "retry_exhausted" /\ token[r][e] >= MaxAttempts
           \/ /\ outcome[r][e] = "accepted"
              /\ row'[e].published = TRUE
              /\ row'[e].stop_reason = row[e].stop_reason
  /\ outcome' \in {outcome, [outcome EXCEPT ![r][e] = "none"]}
  /\ token' = [token EXCEPT ![r][e] = NoToken]
  /\ \E next \in {"build", "record"} : ContinueWith(r, hand[r] \ {e}, next)
  /\ UNCHANGED <<outbox, copies>>

LEMMA SettleEffect ==
  ASSUME TypeOK, TokenInv, NEW r \in Relays, RejectInvalid(r) \/ RecordResult(r)
  PROVE  \E e \in hand[r] : Settles(r, e)
<1>1. \A e \in hand[r] : e \in Events /\ token[r][e] \in Nat \ {0}
  BY OutboxAssumption DEF TypeOK, TokenInv
<1>2. CASE RejectInvalid(r)
  <2>1. PICK e \in First(hand[r] \cap InvalidEvents) :
          /\ HandleFailure(r, e, "final")
          /\ token' = [token EXCEPT ![r][e] = NoToken]
          /\ ContinueWith(r, hand[r] \ {e}, "build")
    BY <1>2 DEF RejectInvalid
  <2>2. e \in hand[r]
    BY DEF First
  <2>3. "final" \in Failure
    BY DEF Failure
  <2>4. QED
    BY <1>1, <1>2, <2>1, <2>2, <2>3, HandleFailureEffect DEF RejectInvalid, Settles
<1>3. CASE RecordResult(r)
  <2>1. PICK e \in First(hand[r]) :
          /\ \/ outcome[r][e] = "accepted" /\ MarkPublished(r, e)
             \/ outcome[r][e] \in Failure /\ HandleFailure(r, e, outcome[r][e])
          /\ outcome' = [outcome EXCEPT ![r][e] = "none"]
          /\ token' = [token EXCEPT ![r][e] = NoToken]
          /\ ContinueWith(r, hand[r] \ {e}, "record")
    BY <1>3 DEF RecordResult
  <2>2. e \in hand[r]
    BY DEF First
  <2>3. CASE outcome[r][e] = "accepted" /\ MarkPublished(r, e)
    BY <1>1, <1>3, <2>1, <2>2, <2>3, MarkPublishedEffect DEF RecordResult, Settles
  <2>4. CASE outcome[r][e] \in Failure /\ HandleFailure(r, e, outcome[r][e])
    BY <1>1, <1>3, <2>1, <2>2, <2>4, HandleFailureEffect DEF RecordResult, Settles
  <2>5. QED
    BY <2>1, <2>3, <2>4
<1>4. QED
  BY <1>2, <1>3

LEMMA InitTypes == Init => TypeOK /\ TokenInv
<1> SUFFICES ASSUME Init
             PROVE  TypeOK /\ TokenInv
  OBVIOUS
<1>1. NewRow \in Row
  BY OutboxAssumption DEF NewRow, Row, NoToken, Reason
<1>2. NewRow.lease_token = 0 /\ NewRow.lease_left = 0 /\ NewRow.attempt_count = 0
      /\ NewRow.published = FALSE /\ NewRow.stop_reason = "none"
  BY DEF NewRow, NoToken
<1>3. TypeOK
  BY <1>1, <1>2, OutboxAssumption
     DEF Init, TypeOK, CheckConstraints, NoTokens, NoOutcome, NoToken, Outcome, Phase
<1>4. TokenInv
  BY <1>2, OutboxAssumption DEF Init, TokenInv
<1>5. QED
  BY <1>3, <1>4

LEMMA StepTypes == TypeOK /\ TokenInv /\ [Next]_vars => TypeOK' /\ TokenInv'
<1> SUFFICES ASSUME TypeOK, TokenInv, [Next]_vars
             PROVE  TypeOK' /\ TokenInv'
  OBVIOUS
<1>a. \A e \in Events : /\ row[e].attempt_count \in Nat
                        /\ row[e].lease_token \in Nat
                        /\ row[e].lease_token <= row[e].attempt_count
                        /\ row[e].lease_token = NoToken => row[e].lease_left = 0
                        /\ ~(row[e].published /\ row[e].stop_reason # "none")
  BY DEF TypeOK, Row, TokenInv, CheckConstraints
<1>1. ASSUME NEW e \in Events, AppendEvent(e)
      PROVE  TypeOK' /\ TokenInv'
  BY <1>1 DEF AppendEvent, TypeOK, TokenInv, CheckConstraints
<1>2. ASSUME NEW r \in Relays, StartRun(r)
      PROVE  TypeOK' /\ TokenInv'
  BY <1>2, OutboxAssumption DEF StartRun, TypeOK, TokenInv, Phase, CheckConstraints
<1>3. ASSUME NEW r \in Relays, StopAtLimit(r)
      PROVE  TypeOK' /\ TokenInv'
  <2>1. /\ row' \in [Events -> Row]
        /\ \A e \in Events :
             \/ row'[e] = row[e]
             \/ /\ e \in AtAttemptLimit
                /\ LeaseReleased(e)
                /\ row'[e].published = row[e].published
                /\ row'[e].stop_reason = "retry_exhausted"
    BY <1>3, StopAtLimitEffect
  <2>2. \A e \in AtAttemptLimit : ~row[e].published
    BY DEF AtAttemptLimit, Settled
  <2>3. CheckConstraints'
    BY <1>a, <2>1, <2>2 DEF CheckConstraints, LeaseReleased
  <2>4. TypeOK'
    BY <1>3, <2>1, <2>3 DEF StopAtLimit, TypeOK, Phase
  <2>5. \A e \in Events : /\ row'[e].attempt_count = row[e].attempt_count
                          /\ row'[e].lease_token <= row'[e].attempt_count
    BY <1>a, <2>1 DEF LeaseReleased, NoToken
  <2>6. TokenInv'
    BY <1>3, <2>5 DEF StopAtLimit, TypeOK, TokenInv
  <2>7. QED
    BY <2>4, <2>6
<1>4. ASSUME NEW r \in Relays, LeaseEvents(r)
      PROVE  TypeOK' /\ TokenInv'
  <2>1. PICK S \in SUBSET Leasable :
          /\ row' \in [Events -> Row]
          /\ \A e \in Events \ S : row'[e] = row[e]
          /\ \A e \in S :
               /\ e \in Events
               /\ row'[e].attempt_count = row[e].attempt_count + 1
               /\ row'[e].lease_token = row[e].attempt_count + 1
               /\ row'[e].lease_left = LeaseDuration
               /\ row'[e].published = row[e].published
               /\ row'[e].stop_reason = row[e].stop_reason
               /\ token'[r][e] = row[e].attempt_count + 1
          /\ token' = [token EXCEPT ![r] = [e \in Events |->
                          IF e \in S THEN row[e].attempt_count + 1 ELSE NoToken]]
          /\ ContinueWith(r, S, "build")
    BY <1>4, LeaseEventsEffect
  <2>2. S \subseteq outbox /\ S \subseteq Events
    BY DEF Leasable, TypeOK
  <2>4. ASSUME NEW e \in S
        PROVE  row[e].attempt_count + 1 \in 0..MaxAttempts
    <3>1. row[e].attempt_count \in Nat
      BY <1>a, <2>2
    <3>2. row[e].attempt_count < MaxAttempts
      BY DEF Leasable
    <3>3. QED
      BY <3>1, <3>2, OutboxAssumption
  <2>5. token' \in [Relays -> [Events -> 0..MaxAttempts]]
    <3> DEFINE nt == [e \in Events |->
                        IF e \in S THEN row[e].attempt_count + 1 ELSE NoToken]
    <3>1. nt \in [Events -> 0..MaxAttempts]
      BY <2>4, OutboxAssumption DEF NoToken
    <3> HIDE DEF nt
    <3>2. QED
      BY <2>1, <3>1 DEF TypeOK, nt
  <2>6. /\ hand' \in [Relays -> SUBSET Events]
        /\ pc' \in [Relays -> Phase]
        /\ life' \in [Relays -> Nat]
    BY <2>1, <2>2, ContinueWithType DEF Phase
  <2>7. TypeOK'
    <3>1. ASSUME NEW e \in Events
          PROVE  /\ row'[e].lease_token = NoToken => row'[e].lease_left = 0
                 /\ ~(row'[e].published /\ row'[e].stop_reason # "none")
      <4>1. CASE e \in S
        <5>1. /\ row'[e].lease_token = row[e].attempt_count + 1
              /\ row'[e].published = row[e].published
              /\ row'[e].stop_reason = row[e].stop_reason
          BY <2>1, <4>1
        <5>2. QED
          BY <1>a, <5>1 DEF NoToken
      <4>2. CASE e \notin S
        BY <1>a, <2>1, <4>2
      <4>3. QED
        BY <4>1, <4>2
    <3>2. QED
      BY <1>4, <2>1, <2>5, <2>6, <3>1 DEF LeaseEvents, TypeOK, CheckConstraints
  <2>8. /\ hand'[r] = S
        /\ \A s \in Relays : s # r => hand'[s] = hand[s] /\ token'[s] = token[s]
    BY <2>1 DEF ContinueWith, TypeOK
  <2>9. \A e \in Events : /\ row[e].attempt_count <= row'[e].attempt_count
                          /\ row'[e].lease_token <= row'[e].attempt_count
    <3>1. ASSUME NEW e \in S
          PROVE  /\ row[e].attempt_count <= row'[e].attempt_count
                 /\ row'[e].lease_token <= row'[e].attempt_count
      <4>1. /\ e \in Events
            /\ row'[e].attempt_count = row[e].attempt_count + 1
            /\ row'[e].lease_token = row[e].attempt_count + 1
        BY <2>1
      <4>2. QED
        BY <1>a, <4>1
    <3>2. QED
      BY <1>a, <2>1, <3>1
  <2>10. \A s \in Relays : \A e \in hand'[s] :
           /\ e \in outbox' /\ e \in Events
           /\ 1 <= token'[s][e] /\ token'[s][e] <= row'[e].attempt_count
    <3>1. ASSUME NEW s \in Relays, s # r, NEW e \in hand'[s]
          PROVE  /\ e \in outbox' /\ e \in Events
                 /\ 1 <= token'[s][e] /\ token'[s][e] <= row'[e].attempt_count
      <4>1. e \in Events /\ token[s][e] \in Nat /\ row'[e].attempt_count \in Nat
        BY <2>1, <2>8, <3>1 DEF TypeOK, Row
      <4>2. QED
        BY <1>4, <1>a, <2>8, <2>9, <3>1, <4>1 DEF LeaseEvents, TokenInv
    <3>2. ASSUME NEW e \in hand'[r]
          PROVE  /\ e \in outbox' /\ e \in Events
                 /\ 1 <= token'[r][e] /\ token'[r][e] <= row'[e].attempt_count
      <4>1. e \in S /\ e \in Events /\ e \in outbox
        BY <2>2, <2>8, <3>2
      <4>2. /\ row'[e].attempt_count = row[e].attempt_count + 1
            /\ token'[r][e] = row[e].attempt_count + 1
        BY <2>1, <4>1
      <4>3. QED
        BY <1>4, <1>a, <4>1, <4>2 DEF LeaseEvents
    <3>3. QED
      BY <3>1, <3>2
  <2>11. ASSUME NEW s \in Relays, NEW t \in Relays, s # t,
                NEW e \in hand'[s], e \in hand'[t]
         PROVE  token'[s][e] # token'[t][e]
    <3>1. CASE s # r /\ t # r
      BY <2>8, <2>11, <3>1 DEF TokenInv
    <3>2. CASE s = r
      <4>1. token'[s][e] = row[e].attempt_count + 1 /\ e \in Events
        BY <2>1, <2>8, <2>11, <3>2
      <4>2. token'[t][e] <= row[e].attempt_count
        BY <2>8, <2>11, <3>2 DEF TokenInv
      <4>3. token'[t][e] \in Nat
        BY <2>5, <4>1
      <4>4. QED
        BY <1>a, <4>1, <4>2, <4>3
    <3>3. CASE t = r
      <4>1. token'[t][e] = row[e].attempt_count + 1 /\ e \in Events
        BY <2>1, <2>8, <2>11, <3>3
      <4>2. token'[s][e] <= row[e].attempt_count
        BY <2>8, <2>11, <3>3 DEF TokenInv
      <4>3. token'[s][e] \in Nat
        BY <2>5, <4>1
      <4>4. QED
        BY <1>a, <4>1, <4>2, <4>3
    <3>4. QED
      BY <3>1, <3>2, <3>3
  <2>12. TokenInv'
    BY <2>9, <2>10, <2>11 DEF TokenInv
  <2>13. QED
    BY <2>7, <2>12
<1>5. ASSUME NEW r \in Relays, RejectInvalid(r) \/ RecordResult(r)
      PROVE  TypeOK' /\ TokenInv'
  <2>1. PICK e \in hand[r] : Settles(r, e)
    BY <1>5, SettleEffect
  <2>2. e \in Events
    BY DEF TypeOK
  <2>3. PICK next \in {"build", "record"} : ContinueWith(r, hand[r] \ {e}, next)
    BY <2>1 DEF Settles
  <2>4. /\ hand' \in [Relays -> SUBSET Events]
        /\ pc' \in [Relays -> Phase]
        /\ life' \in [Relays -> Nat]
    BY <2>3, ContinueWithType DEF Phase, TypeOK
  <2>5. token' \in [Relays -> [Events -> 0..MaxAttempts]]
    BY <2>1, <2>2, OutboxAssumption DEF Settles, TypeOK, NoToken
  <2>6. outcome' \in [Relays -> [Events -> Outcome]]
    <3>1. outcome \in [Relays -> [Events -> Outcome]] /\ "none" \in Outcome
      BY DEF TypeOK, Outcome
    <3>2. outcome' = outcome \/ outcome' = [outcome EXCEPT ![r][e] = "none"]
      BY <2>1 DEF Settles
    <3>3. QED
      BY <2>2, <3>1, <3>2
  <2>7. \A d \in Events : /\ row'[d].attempt_count = row[d].attempt_count
                          /\ row'[d].lease_token \in {row[d].lease_token, 0}
                          /\ row'[d].lease_token = NoToken => row'[d].lease_left = 0
                          /\ ~(row'[d].published /\ row'[d].stop_reason # "none")
    BY <1>a, <2>1, <2>2 DEF Settles, OnlyRow, LeaseReleased, MayUpdate, Settled, NoToken
  <2>8. TypeOK'
    BY <2>1, <2>4, <2>5, <2>6, <2>7 DEF Settles, OnlyRow, TypeOK, CheckConstraints
  <2>9. /\ hand'[r] = hand[r] \ {e}
        /\ \A s \in Relays : s # r => hand'[s] = hand[s] /\ token'[s] = token[s]
        /\ \A d \in hand'[r] : token'[r][d] = token[r][d]
    BY <2>1, <2>2, <2>3 DEF Settles, ContinueWith, TypeOK
  <2>10. \A d \in Events : row'[d].lease_token <= row'[d].attempt_count
    BY <1>a, <2>7
  <2>11. \A s \in Relays : hand'[s] \subseteq hand[s]
                           /\ \A d \in hand'[s] : token'[s][d] = token[s][d]
    BY <2>9
  <2>12. TokenInv'
    BY <2>1, <2>7, <2>10, <2>11 DEF Settles, TokenInv, TypeOK
  <2>13. QED
    BY <2>8, <2>12
<1>6. ASSUME NEW r \in Relays, OpenSenderFails(r)
      PROVE  TypeOK' /\ TokenInv'
  <2>1. outcome' \in [Relays -> [Events -> Outcome]]
    BY <1>6 DEF OpenSenderFails, TypeOK, Outcome
  <2>2. QED
    BY <1>6, <2>1 DEF OpenSenderFails, TypeOK, TokenInv, Phase, CheckConstraints
<1>7. ASSUME NEW r \in Relays, SendBatch(r)
      PROVE  TypeOK' /\ TokenInv'
  <2>1. PICK delivered \in SUBSET hand[r], result \in [hand[r] -> Outcome \ {"none"}] :
          /\ outcome' = [outcome EXCEPT ![r] =
                           [e \in Events |-> IF e \in hand[r] THEN result[e] ELSE "none"]]
          /\ copies' = [e \in Events |-> IF e \in delivered THEN copies[e] + 1 ELSE copies[e]]
    BY <1>7 DEF SendBatch
  <2>2. outcome' \in [Relays -> [Events -> Outcome]]
    BY <2>1 DEF TypeOK, Outcome
  <2>3. copies' \in [Events -> Nat]
    BY <2>1 DEF TypeOK
  <2>4. QED
    BY <1>7, <2>2, <2>3 DEF SendBatch, TypeOK, TokenInv, Phase, CheckConstraints
<1>8. ASSUME NEW r \in Relays, AbortRun(r)
      PROVE  TypeOK' /\ TokenInv'
  <2>1. /\ hand' \in [Relays -> SUBSET Events]
        /\ pc' \in [Relays -> Phase]
        /\ life' \in [Relays -> Nat]
    BY <1>8, ContinueWithType DEF AbortRun, Phase
  <2>2. /\ hand'[r] = {}
        /\ \A s \in Relays : s # r => hand'[s] = hand[s] /\ token'[s] = token[s]
    BY <1>8 DEF AbortRun, ContinueWith, TypeOK
  <2>3. TypeOK'
    <3>1. NoTokens \in [Events -> 0..MaxAttempts] /\ NoOutcome \in [Events -> Outcome]
      BY OutboxAssumption DEF NoTokens, NoOutcome, NoToken, Outcome
    <3>2. QED
      BY <1>8, <2>1, <3>1 DEF AbortRun, TypeOK, CheckConstraints
  <2>4. TokenInv'
    BY <1>8, <2>2 DEF AbortRun, TokenInv
  <2>5. QED
    BY <2>3, <2>4
<1>9. CASE Tick
  <2>1. /\ row' \in [Events -> Row]
        /\ \A e \in Events :
             /\ row'[e].attempt_count = row[e].attempt_count
             /\ row'[e].lease_token = row[e].lease_token
             /\ row'[e].lease_left = Less1(row[e].lease_left)
             /\ row'[e].published = row[e].published
             /\ row'[e].stop_reason = row[e].stop_reason
    BY <1>9, TickEffect
  <2>2. /\ hand' \in [Relays -> SUBSET Events]
        /\ pc' \in [Relays -> Phase]
        /\ life' \in [Relays -> Nat]
        /\ token' \in [Relays -> [Events -> 0..MaxAttempts]]
        /\ outcome' \in [Relays -> [Events -> Outcome]]
    <3>1. NoTokens \in [Events -> 0..MaxAttempts] /\ NoOutcome \in [Events -> Outcome]
      BY OutboxAssumption DEF NoTokens, NoOutcome, NoToken, Outcome
    <3>2. \A n \in Nat : Less1(n) \in Nat
      BY DEF Less1
    <3>3. QED
      BY <1>9, <3>1, <3>2 DEF Tick, TypeOK, Phase
  <2>3. \A s \in Relays : hand'[s] \subseteq hand[s]
                          /\ \A d \in hand'[s] : token'[s][d] = token[s][d]
    BY <1>9 DEF Tick
  <2>4. Less1(0) = 0
    BY DEF Less1
  <2>5. TypeOK'
    <3>1. CheckConstraints'
      BY <1>a, <2>1, <2>4 DEF CheckConstraints
    <3>2. QED
      BY <1>9, <2>1, <2>2, <3>1 DEF Tick, TypeOK
  <2>6. TokenInv'
    <3>1. \A s \in Relays : hand[s] \subseteq Events
      BY DEF TypeOK
    <3>2. outbox' = outbox
      BY <1>9 DEF Tick
    <3>3. \A e \in Events : row'[e].lease_token <= row'[e].attempt_count
      BY <1>a, <2>1
    <3>4. QED
      BY <2>1, <2>3, <3>1, <3>2, <3>3 DEF TokenInv
  <2>7. QED
    BY <2>5, <2>6
<1>10. CASE UNCHANGED vars
  BY <1>10 DEF vars, TypeOK, TokenInv, CheckConstraints
<1>11. QED
  BY <1>1, <1>2, <1>3, <1>4, <1>5, <1>6, <1>7, <1>8, <1>9, <1>10 DEF Next, RelayStep

(* The table's columns and the runs' locals always have their types, and   *)
(* the CHECK constraints of models/outbox_event.py are never hit.          *)
THEOREM TypeCorrect == Spec => []TypeOK
<1>1. Spec => [](TypeOK /\ TokenInv)
  BY InitTypes, StepTypes, PTL DEF Spec
<1>2. QED
  BY <1>1, PTL

-----------------------------------------------------------------------------
(* The run of the newest lease keeps the row.  A stale run passes the guard *)
(* of an update only with the token of the row, and that is the token of   *)
(* the newest lease or NULL.                                               *)

(* Runs only lose what they hold, and tokens in hand do not change.        *)
HandsShrink ==
  \A s \in Relays : /\ hand'[s] \subseteq hand[s]
                    /\ \A d \in hand'[s] : token'[s][d] = token[s][d]

LEMMA SettlesHands ==
  ASSUME TypeOK, NEW r \in Relays, NEW e \in hand[r], Settles(r, e)
  PROVE  HandsShrink /\ hand'[r] = hand[r] \ {e} /\ e \in Events
<1>1. e \in Events
  BY DEF TypeOK
<1>2. /\ hand' = [hand EXCEPT ![r] = hand[r] \ {e}]
      /\ token' = [token EXCEPT ![r][e] = NoToken]
  BY DEF Settles, ContinueWith
<1>3. QED
  BY <1>1, <1>2 DEF TypeOK, HandsShrink

LEMMA AbortHands ==
  ASSUME TypeOK, NEW r \in Relays, AbortRun(r)
  PROVE  HandsShrink
  BY DEF AbortRun, ContinueWith, TypeOK, HandsShrink

LEMMA StepNewest ==
  TypeOK /\ TokenInv /\ NewestLeaseKept /\ [Next]_vars => NewestLeaseKept'
<1> SUFFICES ASSUME TypeOK, TokenInv, NewestLeaseKept, [Next]_vars
             PROVE  NewestLeaseKept'
  OBVIOUS
<1>a. \A s \in Relays : \A d \in hand[s] : d \in Events
  BY DEF TypeOK
<1>1. ASSUME NEW e \in Events, AppendEvent(e)
      PROVE  NewestLeaseKept'
  BY <1>1 DEF AppendEvent, NewestLeaseKept
<1>2. ASSUME NEW r \in Relays, StartRun(r) \/ OpenSenderFails(r) \/ SendBatch(r)
      PROVE  NewestLeaseKept'
  BY <1>2 DEF StartRun, OpenSenderFails, SendBatch, NewestLeaseKept
<1>3. ASSUME NEW r \in Relays, StopAtLimit(r)
      PROVE  NewestLeaseKept'
  <2>1. \A e \in Events :
          \/ row'[e] = row[e]
          \/ /\ row'[e].attempt_count = row[e].attempt_count
             /\ row'[e].stop_reason = "retry_exhausted"
    BY <1>3, StopAtLimitEffect DEF LeaseReleased
  <2>2. hand' = hand /\ token' = token
    BY <1>3 DEF StopAtLimit
  <2>3. QED
    BY <1>a, <2>1, <2>2 DEF NewestLeaseKept
<1>4. ASSUME NEW r \in Relays, LeaseEvents(r)
      PROVE  NewestLeaseKept'
  <2>1. PICK S \in SUBSET Leasable :
          /\ \A e \in Events \ S : row'[e] = row[e]
          /\ \A e \in S : /\ e \in Events
                          /\ row'[e].attempt_count = row[e].attempt_count + 1
                          /\ row'[e].lease_token = row[e].attempt_count + 1
                          /\ token'[r][e] = row[e].attempt_count + 1
          /\ token' = [token EXCEPT ![r] = [e \in Events |->
                          IF e \in S THEN row[e].attempt_count + 1 ELSE NoToken]]
          /\ ContinueWith(r, S, "build")
    BY <1>4, LeaseEventsEffect
  <2>2. /\ hand'[r] = S
        /\ \A s \in Relays : s # r => hand'[s] = hand[s] /\ token'[s] = token[s]
    BY <2>1 DEF ContinueWith, TypeOK
  <2>3. ASSUME NEW s \in Relays, NEW e \in hand'[s],
               token'[s][e] = row'[e].attempt_count
        PROVE  row'[e].lease_token = token'[s][e] \/ row'[e].stop_reason = "retry_exhausted"
    <3>1. CASE s = r
      BY <2>1, <2>2, <2>3, <3>1
    <3>2. CASE s # r /\ e \in S
      <4>1. token[s][e] <= row[e].attempt_count /\ e \in Events
        BY <1>a, <2>2, <2>3, <3>2 DEF TokenInv
      <4>2. token[s][e] = row[e].attempt_count + 1
        BY <2>1, <2>2, <2>3, <3>2
      <4>3. row[e].attempt_count \in Nat
        BY <4>1 DEF TypeOK, Row
      <4>4. QED
        BY <4>1, <4>2, <4>3
    <3>3. CASE s # r /\ e \notin S
      BY <1>a, <2>1, <2>2, <2>3, <3>3 DEF NewestLeaseKept
    <3>4. QED
      BY <3>1, <3>2, <3>3
  <2>4. QED
    BY <2>3 DEF NewestLeaseKept
<1>5. ASSUME NEW r \in Relays, RejectInvalid(r) \/ RecordResult(r)
      PROVE  NewestLeaseKept'
  <2>1. PICK e \in hand[r] : Settles(r, e)
    BY <1>5, SettleEffect
  <2>2. HandsShrink /\ hand'[r] = hand[r] \ {e} /\ e \in Events
    BY <2>1, SettlesHands
  <2>3. ASSUME NEW s \in Relays, NEW d \in hand'[s],
               token'[s][d] = row'[d].attempt_count
        PROVE  row'[d].lease_token = token'[s][d] \/ row'[d].stop_reason = "retry_exhausted"
    <3>1. d \in hand[s] /\ token'[s][d] = token[s][d] /\ d \in Events
      BY <1>a, <2>2, <2>3 DEF HandsShrink
    <3>2. CASE d # e \/ row' = row
      <4>1. row'[d] = row[d]
        BY <2>1, <3>1, <3>2 DEF Settles, OnlyRow
      <4>2. row[d].lease_token = token[s][d] \/ row[d].stop_reason = "retry_exhausted"
        BY <2>3, <3>1, <4>1 DEF NewestLeaseKept
      <4>3. QED
        BY <3>1, <4>1, <4>2
    <3>3. CASE d = e /\ row' # row
      <4>1. s # r
        BY <2>2, <2>3, <3>3
      <4>2. MayUpdate(r, e) /\ row'[e].attempt_count = row[e].attempt_count
        BY <2>1, <3>3 DEF Settles, LeaseReleased
      <4>3. token[s][e] # token[r][e]
        BY <3>1, <3>3, <4>1 DEF TokenInv
      <4>4. row[e].lease_token # token[s][e] /\ row[e].stop_reason = "none"
        BY <4>2, <4>3 DEF MayUpdate, Settled
      <4>5. QED
        BY <2>3, <3>1, <3>3, <4>2, <4>4 DEF NewestLeaseKept
    <3>4. QED
      BY <3>2, <3>3
  <2>4. QED
    BY <2>3 DEF NewestLeaseKept
<1>6. ASSUME NEW r \in Relays, AbortRun(r)
      PROVE  NewestLeaseKept'
  <2>1. HandsShrink /\ row' = row
    BY <1>6, AbortHands DEF AbortRun
  <2>2. QED
    BY <2>1 DEF HandsShrink, NewestLeaseKept
<1>7. CASE Tick
  <2>1. HandsShrink
    BY <1>7 DEF Tick, HandsShrink
  <2>2. \A e \in Events : /\ row'[e].attempt_count = row[e].attempt_count
                          /\ row'[e].lease_token = row[e].lease_token
                          /\ row'[e].stop_reason = row[e].stop_reason
    BY <1>7, TickEffect
  <2>3. QED
    BY <1>a, <2>1, <2>2 DEF HandsShrink, NewestLeaseKept
<1>8. CASE UNCHANGED vars
  BY <1>8 DEF vars, NewestLeaseKept
<1>9. QED
  BY <1>1, <1>2, <1>3, <1>4, <1>5, <1>6, <1>7, <1>8 DEF Next, RelayStep

(* No run that overran its lease ever takes the row from the run that      *)
(* leased it afterwards (the WHERE clause of _delivery_update).            *)
THEOREM NewestLeaseIsKept == Spec => []NewestLeaseKept
<1>1. Init => NewestLeaseKept
  BY DEF Init, NewestLeaseKept
<1>2. Spec => [](TypeOK /\ TokenInv /\ NewestLeaseKept)
  BY <1>1, InitTypes, StepTypes, StepNewest, PTL DEF Spec
<1>3. QED
  BY <1>2, PTL
-----------------------------------------------------------------------------
(* A published event was accepted by the queue.                            *)

LEMMA StepAccepted ==
  TypeOK /\ TokenInv /\ AcceptedInv /\ PublishedWasAccepted /\ [Next]_vars
    => AcceptedInv' /\ PublishedWasAccepted'
<1> SUFFICES ASSUME TypeOK, TokenInv, AcceptedInv, PublishedWasAccepted, [Next]_vars
             PROVE  AcceptedInv' /\ PublishedWasAccepted'
  OBVIOUS
<1>1. ASSUME NEW e \in Events, AppendEvent(e)
      PROVE  AcceptedInv' /\ PublishedWasAccepted'
  BY <1>1 DEF AppendEvent, AcceptedInv, PublishedWasAccepted, Settled
<1>2. ASSUME NEW r \in Relays, StartRun(r)
      PROVE  AcceptedInv' /\ PublishedWasAccepted'
  BY <1>2 DEF StartRun, AcceptedInv, PublishedWasAccepted, Settled
<1>3. ASSUME NEW r \in Relays, StopAtLimit(r)
      PROVE  AcceptedInv' /\ PublishedWasAccepted'
  <2>1. \A e \in Events : \/ row'[e] = row[e]
                          \/ e \in outbox /\ row'[e].published = row[e].published
    BY <1>3, StopAtLimitEffect DEF AtAttemptLimit
  <2>2. UNCHANGED <<outbox, outcome, copies>>
    BY <1>3 DEF StopAtLimit
  <2>3. QED
    BY <2>1, <2>2 DEF AcceptedInv, PublishedWasAccepted, Settled
<1>4. ASSUME NEW r \in Relays, LeaseEvents(r)
      PROVE  AcceptedInv' /\ PublishedWasAccepted'
  <2>1. \A e \in Events : /\ row'[e].published = row[e].published
                          /\ row'[e].stop_reason = row[e].stop_reason
    BY <1>4, LeaseEventsEffect
  <2>2. UNCHANGED <<outbox, outcome, copies>>
    BY <1>4 DEF LeaseEvents
  <2>3. QED
    BY <2>1, <2>2 DEF AcceptedInv, PublishedWasAccepted, Settled
<1>5. ASSUME NEW r \in Relays, RejectInvalid(r) \/ RecordResult(r)
      PROVE  AcceptedInv' /\ PublishedWasAccepted'
  <2>1. PICK e \in hand[r] : Settles(r, e)
    BY <1>5, SettleEffect
  <2>2. e \in outbox /\ e \in Events
    BY DEF TokenInv, TypeOK
  <2>3. UNCHANGED <<outbox, copies>>
    BY <2>1 DEF Settles
  <2>4. \A s \in Relays : \A d \in Events :
          outcome'[s][d] = "accepted" => outcome[s][d] = "accepted"
    <3>1. outcome' = outcome \/ outcome' = [outcome EXCEPT ![r][e] = "none"]
      BY <2>1 DEF Settles
    <3>2. CASE outcome' = outcome
      BY <3>2
    <3>3. CASE outcome' = [outcome EXCEPT ![r][e] = "none"]
      <4>1. outcome'[r] = [outcome[r] EXCEPT ![e] = "none"]
            /\ \A s \in Relays : s # r => outcome'[s] = outcome[s]
        BY <3>3 DEF TypeOK
      <4>2. \A d \in Events : outcome'[r][d] = "accepted" => outcome[r][d] = "accepted"
        BY <2>2, <4>1 DEF TypeOK
      <4>3. QED
        BY <4>1, <4>2
    <3>4. QED
      BY <3>1, <3>2, <3>3
  <2>5. \A d \in Events : d # e => row'[d] = row[d]
    BY <2>1 DEF Settles, OnlyRow
  <2>6. row'[e].published => row[e].published \/ outcome[r][e] = "accepted"
    BY <2>1 DEF Settles
  <2>7. QED
    BY <2>2, <2>3, <2>4, <2>5, <2>6 DEF AcceptedInv, PublishedWasAccepted, Settled
<1>6. ASSUME NEW r \in Relays, OpenSenderFails(r)
      PROVE  AcceptedInv' /\ PublishedWasAccepted'
  <2>1. \A s \in Relays : \A d \in Events :
          outcome'[s][d] = "accepted" => outcome[s][d] = "accepted"
    BY <1>6 DEF OpenSenderFails, TypeOK, Failure
  <2>2. UNCHANGED <<outbox, row, copies>>
    BY <1>6 DEF OpenSenderFails
  <2>3. QED
    BY <2>1, <2>2 DEF AcceptedInv, PublishedWasAccepted, Settled
<1>7. ASSUME NEW r \in Relays, SendBatch(r)
      PROVE  AcceptedInv' /\ PublishedWasAccepted'
  <2>1. PICK delivered \in SUBSET hand[r], result \in [hand[r] -> Outcome \ {"none"}] :
          /\ \A e \in hand[r] : result[e] = "accepted" => e \in delivered
          /\ outcome' = [outcome EXCEPT ![r] =
                           [e \in Events |-> IF e \in hand[r] THEN result[e] ELSE "none"]]
          /\ copies' = [e \in Events |-> IF e \in delivered THEN copies[e] + 1 ELSE copies[e]]
    BY <1>7 DEF SendBatch
  <2>2. UNCHANGED <<outbox, row>>
    BY <1>7 DEF SendBatch
  <2>3. \A e \in Events : copies[e] \in Nat
    BY DEF TypeOK
  <2>4. \A e \in Events : copies[e] > 0 \/ e \in delivered => copies'[e] > 0
    BY <2>1, <2>3
  <2>5. \A s \in Relays : \A e \in Events :
          outcome'[s][e] = "accepted" => outcome[s][e] = "accepted" \/ e \in delivered
    BY <2>1 DEF TypeOK
  <2>6. QED
    BY <2>2, <2>4, <2>5 DEF AcceptedInv, PublishedWasAccepted, Settled
<1>8. ASSUME NEW r \in Relays, AbortRun(r)
      PROVE  AcceptedInv' /\ PublishedWasAccepted'
  BY <1>8 DEF AbortRun, NoOutcome, TypeOK, AcceptedInv, PublishedWasAccepted, Settled
<1>9. CASE Tick
  <2>1. \A e \in Events : /\ row'[e].published = row[e].published
                          /\ row'[e].stop_reason = row[e].stop_reason
    BY <1>9, TickEffect
  <2>2. \A s \in Relays : \A d \in Events :
          outcome'[s][d] = "accepted" => outcome[s][d] = "accepted"
    BY <1>9 DEF Tick, NoOutcome
  <2>3. UNCHANGED <<outbox, copies>>
    BY <1>9 DEF Tick
  <2>4. QED
    BY <2>1, <2>2, <2>3 DEF AcceptedInv, PublishedWasAccepted, Settled
<1>10. CASE UNCHANGED vars
  BY <1>10 DEF vars, AcceptedInv, PublishedWasAccepted, Settled
<1>11. QED
  BY <1>1, <1>2, <1>3, <1>4, <1>5, <1>6, <1>7, <1>8, <1>9, <1>10 DEF Next, RelayStep

LEMMA InitAccepted == Init => AcceptedInv /\ PublishedWasAccepted
  BY DEF Init, NewRow, NoOutcome, AcceptedInv, PublishedWasAccepted, Settled

(* published_at is set only for events of which SQS holds a copy.          *)
THEOREM PublishedIsAccepted == Spec => []PublishedWasAccepted
<1>1. Spec => [](TypeOK /\ TokenInv /\ AcceptedInv /\ PublishedWasAccepted)
  BY InitTypes, StepTypes, InitAccepted, StepAccepted, PTL DEF Spec
<1>2. QED
  BY <1>1, PTL

-----------------------------------------------------------------------------
(* A settled row is final: leasing and the reaper skip it, and the guard of *)
(* every update refuses it, whatever tokens stale runs still hold.          *)

SettledKept ==
  \A e \in Events : Settled(e) =>
    /\ row'[e].published = row[e].published
    /\ row'[e].stop_reason = row[e].stop_reason
    /\ row'[e].attempt_count = row[e].attempt_count

LEMMA StepSettled ==
  TypeOK /\ TokenInv /\ [Next]_vars => SettledKept
<1> SUFFICES ASSUME TypeOK, TokenInv, [Next]_vars
             PROVE  SettledKept
  OBVIOUS
<1>1. ASSUME NEW r \in Relays, StopAtLimit(r)
      PROVE  SettledKept
  BY <1>1, StopAtLimitEffect DEF AtAttemptLimit, SettledKept
<1>2. ASSUME NEW r \in Relays, LeaseEvents(r)
      PROVE  SettledKept
  <2>1. PICK S \in SUBSET Leasable : \A e \in Events \ S : row'[e] = row[e]
    BY <1>2, LeaseEventsEffect
  <2>2. QED
    BY <2>1 DEF Leasable, SettledKept
<1>3. ASSUME NEW r \in Relays, RejectInvalid(r) \/ RecordResult(r)
      PROVE  SettledKept
  <2>1. PICK e \in hand[r] : Settles(r, e)
    BY <1>3, SettleEffect
  <2>2. QED
    BY <2>1 DEF Settles, OnlyRow, MayUpdate, SettledKept
<1>4. CASE Tick
  BY <1>4, TickEffect DEF SettledKept
<1>5. CASE UNCHANGED row
  BY <1>5 DEF SettledKept
<1>6. QED
  BY <1>1, <1>2, <1>3, <1>4, <1>5
     DEF Next, RelayStep, AppendEvent, StartRun, OpenSenderFails, SendBatch, AbortRun, vars

(* Once published or stopped, a row keeps that outcome for good.           *)
THEOREM SettledStaysFinal == Spec => SettledIsFinal
<1>1. Spec => [](TypeOK /\ TokenInv)
  BY InitTypes, StepTypes, PTL DEF Spec
<1>2. TypeOK /\ TokenInv /\ [Next]_vars
        => [\A e \in Events : Settled(e) =>
              /\ row'[e].published = row[e].published
              /\ row'[e].stop_reason = row[e].stop_reason
              /\ row'[e].attempt_count = row[e].attempt_count]_vars
  BY StepSettled DEF SettledKept
<1>3. QED
  BY <1>1, <1>2, PTL DEF Spec, SettledIsFinal
-----------------------------------------------------------------------------
(* Delivery cannot go on for ever: what is left of an event's delivery, its *)
(* attempts first, then its lease, then its wait, never grows, and every   *)
(* transaction that has work to do, and every tick, uses some of it up.    *)
(* It is the part of EventuallySettled that needs no fairness.             *)

(* A nonempty set of numbers has a least one.                              *)
LEMMA LeastNumber ==
  ASSUME NEW T, T \subseteq Nat, T # {}
  PROVE  \E x \in T : \A y \in T : x <= y
<1> DEFINE Below(x) == 1..x
           U == {Below(x) : x \in T}
<1>1. \A x \in T : x \in Nat /\ IsFiniteSet(Below(x)) /\ Below(x) \subseteq Nat
  BY FS_Interval
<1>2. U # {} /\ U \subseteq FiniteSubsetsOf(Nat)
  BY <1>1 DEF FiniteSubsetsOf
<1>3. IsWellFoundedOn(StrictSubsetOrdering(Nat), FiniteSubsetsOf(Nat))
  BY FS_StrictSubsetOrderingWellFounded
<1> HIDE DEF U
<1>4. PICK S \in U : \A V \in U : ~ (<<V, S>> \in StrictSubsetOrdering(Nat))
  BY <1>2, <1>3, WFMin
<1>5. PICK x \in T : S = Below(x)
  BY DEF U
<1>6. ASSUME NEW y \in T, y < x
      PROVE  FALSE
  <2>1. <<Below(y), Below(x)>> \notin StrictSubsetOrdering(Nat)
    BY <1>4, <1>5 DEF U
  <2>2. Below(y) \subseteq Below(x) /\ x \in Below(x) /\ x \notin Below(y)
    BY <1>6
  <2>3. Below(y) \subseteq Nat /\ Below(x) \subseteq Nat
    BY <1>1
  <2>4. QED
    BY <2>1, <2>2, <2>3 DEF StrictSubsetOrdering
<1>7. \A y \in T : x <= y
  BY <1>6
<1>8. QED
  BY <1>7

(* Row selection with a positive limit takes something if there is any.    *)
LEMMA OldestTakesOne ==
  ASSUME NEW S, S \subseteq Nat, S # {}, NEW n \in Nat \ {0}
  PROVE  Oldest(S, n) # {}
<1>1. PICK e \in S : \A f \in S : e <= f
  BY LeastNumber
<1>2. {f \in S : f < e} = {}
  <2>1. ASSUME NEW f \in S
        PROVE  ~(f < e)
    <3>1. f \in Nat /\ e \in Nat /\ e <= f
      BY <1>1
    <3>2. QED
      BY <3>1
  <2>2. QED
    BY <2>1
<1>3. Cardinality({f \in S : f < e}) < n
  BY <1>2, FS_EmptySet
<1>4. QED
  BY <1>1, <1>3 DEF Oldest

(* More attempts used, or as many and less of the lease, or of the wait.   *)
RankFalls(e) ==
  \/ row'[e].attempt_count > row[e].attempt_count
  \/ /\ row'[e].attempt_count = row[e].attempt_count
     /\ row'[e].lease_left < row[e].lease_left
  \/ /\ row'[e].attempt_count = row[e].attempt_count
     /\ row'[e].lease_left = row[e].lease_left
     /\ row'[e].wait_left < row[e].wait_left

RankKept(e) == /\ row'[e].attempt_count = row[e].attempt_count
               /\ row'[e].lease_left = row[e].lease_left
               /\ row'[e].wait_left = row[e].wait_left

ClockRuns(e) == row[e].lease_left > 0 \/ row[e].wait_left > 0

(* An unsettled row is waiting for a clock, for the reaper or for a lease. *)
NoRowIsStuck ==
  \A e \in outbox : \/ Settled(e)
                    \/ ClockRuns(e)
                    \/ e \in AtAttemptLimit
                    \/ e \in Leasable

(* No step gives a delivery more time, and each kind of step that has      *)
(* something to do takes some away or settles an event.                    *)
DeliveriesRunOut ==
  [][/\ \A e \in Events : RankFalls(e) \/ RankKept(e)
     /\ Tick => \A e \in Events : ClockRuns(e) => RankFalls(e)
     /\ \A r \in Relays :
          /\ (StopAtLimit(r) /\ AtAttemptLimit # {}) => \E e \in AtAttemptLimit : Settled(e)'
          /\ (LeaseEvents(r) /\ Leasable # {}) => \E e \in Leasable : RankFalls(e)]_vars

LEMMA RankColumns ==
  ASSUME TypeOK, NEW e \in Events
  PROVE  /\ row[e].attempt_count \in Nat
         /\ row[e].lease_left \in Nat
         /\ row[e].wait_left \in Nat
<1>1. row[e] \in Row
  BY DEF TypeOK
<1>2. QED
  BY <1>1, OutboxAssumption DEF Row

LEMMA StuckNever == TypeOK => NoRowIsStuck
<1> SUFFICES ASSUME TypeOK, NEW e \in outbox, ~Settled(e), ~ClockRuns(e)
             PROVE  e \in AtAttemptLimit \/ e \in Leasable
  BY DEF NoRowIsStuck
<1>1. e \in Events
  BY DEF TypeOK
<1>2. /\ row[e].attempt_count \in Nat
      /\ row[e].lease_left = 0
      /\ row[e].wait_left = 0
  BY <1>1, RankColumns DEF ClockRuns
<1>3. QED
  BY <1>2, OutboxAssumption DEF AtAttemptLimit, Leasable, Unleased

LEMMA StopAtLimitRank ==
  ASSUME TypeOK, NEW r \in Relays, StopAtLimit(r)
  PROVE  /\ \A e \in Events : RankKept(e)
         /\ AtAttemptLimit # {} => \E e \in AtAttemptLimit : Settled(e)'
<1>1. ASSUME NEW e \in Events
      PROVE  RankKept(e)
  <2>1. CASE row'[e] = row[e]
    BY <2>1 DEF RankKept
  <2>2. CASE row'[e] # row[e]
    <3>1. /\ e \in AtAttemptLimit
          /\ LeaseReleased(e)
          /\ row'[e].wait_left = row[e].wait_left
      BY <2>2, StopAtLimitEffect
    <3>2. QED
      BY <3>1 DEF AtAttemptLimit, Unleased, LeaseReleased, RankKept
  <2>3. QED
    BY <2>1, <2>2
<1>2. ASSUME AtAttemptLimit # {}
      PROVE  \E e \in AtAttemptLimit : Settled(e)'
  <2>1. AtAttemptLimit \subseteq Events /\ Events \subseteq Nat
    BY OutboxAssumption DEF AtAttemptLimit, TypeOK
  <2>2. PICK e \in Oldest(AtAttemptLimit, StopLimit) : TRUE
    <3>1. AtAttemptLimit \subseteq Nat /\ StopLimit \in Nat \ {0}
      BY <2>1, OutboxAssumption
    <3>2. QED
      BY <1>2, <3>1, OldestTakesOne
  <2>3. e \in AtAttemptLimit
    BY OldestIsSubset
  <2>4. row'[e].stop_reason = "retry_exhausted"
    BY <2>1, <2>3, StopAtLimitEffect
  <2>5. QED
    BY <2>3, <2>4 DEF Settled
<1>3. QED
  BY <1>1, <1>2

LEMMA LeaseEventsRank ==
  ASSUME TypeOK, NEW r \in Relays, LeaseEvents(r)
  PROVE  /\ \A e \in Events : RankFalls(e) \/ RankKept(e)
         /\ Leasable # {} => \E e \in Leasable : RankFalls(e)
<1>1. PICK S \in SUBSET Leasable :
        /\ S = Oldest(Leasable, LeaseLimit)
        /\ \A e \in Events \ S : row'[e] = row[e]
        /\ \A e \in S : e \in Events /\ row'[e].attempt_count = row[e].attempt_count + 1
  BY LeaseEventsEffect
<1>2. ASSUME NEW e \in S
      PROVE  RankFalls(e)
  <2>1. row[e].attempt_count \in Nat /\ row'[e].attempt_count = row[e].attempt_count + 1
    BY <1>1, RankColumns
  <2>2. QED
    BY <2>1 DEF RankFalls
<1>3. \A e \in Events \ S : RankKept(e)
  BY <1>1 DEF RankKept
<1>4. Leasable # {} => S # {}
  <2>1. Leasable \subseteq Nat /\ LeaseLimit \in Nat \ {0}
    BY OutboxAssumption DEF Leasable, TypeOK
  <2>2. QED
    BY <1>1, <2>1, OldestTakesOne
<1>5. QED
  BY <1>2, <1>3, <1>4

LEMMA SettleRank ==
  ASSUME TypeOK, TokenInv, NEW r \in Relays, RejectInvalid(r) \/ RecordResult(r)
  PROVE  \A e \in Events : RankFalls(e) \/ RankKept(e)
<1>1. PICK d \in hand[r] : Settles(r, d)
  BY SettleEffect
<1>2. \A e \in Events : e # d => row'[e] = row[e]
  BY <1>1 DEF Settles, OnlyRow
<1>3. UNCHANGED row \/ (MayUpdate(r, d) /\ LeaseReleased(d))
  BY <1>1 DEF Settles
<1>4. RankFalls(d) \/ RankKept(d)
  <2>1. CASE UNCHANGED row
    BY <2>1 DEF RankKept
  <2>2. CASE MayUpdate(r, d) /\ LeaseReleased(d)
    BY <2>2 DEF MayUpdate, LeaseReleased, RankFalls
  <2>3. QED
    BY <1>3, <2>1, <2>2
<1>5. ASSUME NEW e \in Events
      PROVE  RankFalls(e) \/ RankKept(e)
  BY <1>2, <1>4 DEF RankKept
<1>6. QED
  BY <1>5

LEMMA TickRank ==
  ASSUME TypeOK, Tick
  PROVE  /\ \A e \in Events : RankFalls(e) \/ RankKept(e)
         /\ \A e \in Events : ClockRuns(e) => RankFalls(e)
<1>1. ASSUME NEW e \in Events
      PROVE  /\ RankFalls(e) \/ RankKept(e)
             /\ ClockRuns(e) => RankFalls(e)
  <2>1. /\ row[e].lease_left \in Nat
        /\ row[e].wait_left \in Nat
    BY RankColumns
  <2>2. /\ row'[e].attempt_count = row[e].attempt_count
        /\ row'[e].lease_left = Less1(row[e].lease_left)
        /\ row'[e].wait_left = Less1(row[e].wait_left)
    BY TickEffect
  <2>3. CASE row[e].lease_left > 0
    BY <2>1, <2>2, <2>3 DEF Less1, RankFalls
  <2>4. CASE row[e].lease_left = 0 /\ row[e].wait_left > 0
    BY <2>1, <2>2, <2>4 DEF Less1, RankFalls
  <2>5. CASE row[e].lease_left = 0 /\ row[e].wait_left = 0
    BY <2>1, <2>2, <2>5 DEF Less1, RankKept, ClockRuns
  <2>6. QED
    BY <2>1, <2>3, <2>4, <2>5
<1>2. QED
  BY <1>1

(* Every event has only so many attempts, leases and waits to go through,  *)
(* and no unsettled row is out of reach of the clocks and the relay.       *)
THEOREM DeliveryIsBounded == Spec => []NoRowIsStuck /\ DeliveriesRunOut
<1> DEFINE Falls ==
      /\ \A e \in Events : RankFalls(e) \/ RankKept(e)
      /\ Tick => \A e \in Events : ClockRuns(e) => RankFalls(e)
      /\ \A r \in Relays :
           /\ (StopAtLimit(r) /\ AtAttemptLimit # {}) => \E e \in AtAttemptLimit : Settled(e)'
           /\ (LeaseEvents(r) /\ Leasable # {}) => \E e \in Leasable : RankFalls(e)
<1>1. Spec => [](TypeOK /\ TokenInv)
  BY InitTypes, StepTypes, PTL DEF Spec
<1>2. TypeOK /\ TokenInv /\ [Next]_vars => [Falls]_vars
  <2> SUFFICES ASSUME TypeOK, TokenInv, Next
               PROVE  Falls
    OBVIOUS
  <2>1. \A e \in Events : RankFalls(e) \/ RankKept(e)
    <3>1. ASSUME NEW r \in Relays, StopAtLimit(r)
          PROVE  \A e \in Events : RankKept(e)
      BY <3>1, StopAtLimitRank
    <3>2. ASSUME NEW r \in Relays, LeaseEvents(r)
          PROVE  \A e \in Events : RankFalls(e) \/ RankKept(e)
      BY <3>2, LeaseEventsRank
    <3>3. ASSUME NEW r \in Relays, RejectInvalid(r) \/ RecordResult(r)
          PROVE  \A e \in Events : RankFalls(e) \/ RankKept(e)
      BY <3>3, SettleRank
    <3>4. CASE UNCHANGED row
      BY <3>4 DEF RankKept
    <3>5. CASE Tick
      BY <3>5, TickRank
    <3>6. \/ Tick
          \/ UNCHANGED row
          \/ \E r \in Relays : \/ StopAtLimit(r)
                               \/ LeaseEvents(r)
                               \/ RejectInvalid(r) \/ RecordResult(r)
      BY DEF Next, RelayStep, AppendEvent, StartRun, OpenSenderFails, SendBatch, AbortRun
    <3>7. QED
      BY <3>1, <3>2, <3>3, <3>4, <3>5, <3>6
  <2>2. Tick => \A e \in Events : ClockRuns(e) => RankFalls(e)
    BY TickRank
  <2>3. ASSUME NEW r \in Relays
        PROVE  /\ (StopAtLimit(r) /\ AtAttemptLimit # {})
                    => \E e \in AtAttemptLimit : Settled(e)'
               /\ (LeaseEvents(r) /\ Leasable # {}) => \E e \in Leasable : RankFalls(e)
    BY StopAtLimitRank, LeaseEventsRank
  <2>4. QED
    BY <2>1, <2>2, <2>3
<1>3. Spec => []NoRowIsStuck
  BY <1>1, StuckNever, PTL
<1>4. Spec => [][Falls]_vars
  <2> HIDE DEF Falls
  <2>1. QED
    BY <1>1, <1>2, PTL DEF Spec
<1>5. QED
  BY <1>3, <1>4 DEF DeliveriesRunOut
=============================================================================
