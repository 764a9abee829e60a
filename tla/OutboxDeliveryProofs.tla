------------------------ MODULE OutboxDeliveryProofs ------------------------
(* Further proofs about OutboxRelay: attempts bound the copies of an event, *)
(* leases that outlast the runs make their work exclusive, and then the     *)
(* relay implements the abstract delivery of OutboxDelivery.                *)
EXTENDS OutboxRelayProofs, FiniteSetTheorems

-----------------------------------------------------------------------------
(* Every copy uses up an attempt that was counted when the row was leased.  *)

LEMMA UnsentFinite ==
  ASSUME NEW e
  PROVE  IsFiniteSet(Unsent(e)) /\ Cardinality(Unsent(e)) \in Nat
<1>1. Unsent(e) \in SUBSET Relays
  BY DEF Unsent
<1>2. QED
  BY <1>1, FS_Subset, FS_CardinalityType, OutboxAssumption

(* Runs that give up or have sent no longer hold an unused attempt.         *)
LEMMA FewerUnsent ==
  ASSUME TypeOK, AttemptInv, NEW e \in Events,
         Unsent(e)' \subseteq Unsent(e), copies'[e] = copies[e],
         row'[e].attempt_count = row[e].attempt_count
  PROVE  copies'[e] + Cardinality(Unsent(e)') <= row'[e].attempt_count
<1>1. /\ Cardinality(Unsent(e)) \in Nat
      /\ Cardinality(Unsent(e)') \in Nat
      /\ Cardinality(Unsent(e)') <= Cardinality(Unsent(e))
  BY UnsentFinite, FS_Subset, FS_CardinalityType
<1>2. /\ copies[e] \in Nat
      /\ row[e].attempt_count \in Nat
      /\ copies[e] + Cardinality(Unsent(e)) <= row[e].attempt_count
  BY OutboxAssumption DEF TypeOK, Row, AttemptInv
<1>3. QED
  BY <1>1, <1>2

LEMMA StepAttempts ==
  TypeOK /\ TokenInv /\ AttemptInv /\ [Next]_vars => AttemptInv'
<1> SUFFICES ASSUME TypeOK, TokenInv, AttemptInv, [Next]_vars
             PROVE  AttemptInv'
  OBVIOUS
<1> DEFINE ExhaustedAtLimit ==
             \A e \in Events : row[e].stop_reason = "retry_exhausted"
                               => row[e].attempt_count = MaxAttempts
<1>a. /\ ExhaustedAtLimit
      /\ \A e \in Events : /\ row[e].attempt_count \in Nat
                           /\ row[e].attempt_count <= MaxAttempts
                           /\ copies[e] \in Nat
  BY OutboxAssumption DEF AttemptInv, TypeOK, Row
<1>b. ASSUME \A e \in Events : /\ Unsent(e)' \subseteq Unsent(e)
                               /\ row'[e].attempt_count = row[e].attempt_count,
             UNCHANGED copies, ExhaustedAtLimit'
      PROVE  AttemptInv'
  BY <1>b, FewerUnsent DEF AttemptInv
<1>1. ASSUME NEW e \in Events, AppendEvent(e)
      PROVE  AttemptInv'
  BY <1>1 DEF AppendEvent, AttemptInv, Unsent
<1>2. ASSUME NEW r \in Relays, StartRun(r) \/ OpenSenderFails(r) \/ AbortRun(r)
      PROVE  AttemptInv'
  <2>1. \A e \in Events : Unsent(e)' \subseteq Unsent(e)
    <3>1. /\ pc'[r] # "build"
          /\ \A s \in Relays : s # r => pc'[s] = pc[s] /\ hand'[s] = hand[s]
      BY <1>2 DEF StartRun, OpenSenderFails, AbortRun, ContinueWith, TypeOK
    <3>2. QED
      BY <3>1 DEF Unsent
  <2>2. UNCHANGED <<row, copies>>
    BY <1>2 DEF StartRun, OpenSenderFails, AbortRun
  <2>3. QED
    BY <1>a, <1>b, <2>1, <2>2
<1>3. ASSUME NEW r \in Relays, StopAtLimit(r)
      PROVE  AttemptInv'
  <2>1. \A e \in Events : Unsent(e)' \subseteq Unsent(e)
    BY <1>3 DEF StopAtLimit, Unsent, TypeOK
  <2>2. \A e \in Events : /\ row'[e].attempt_count = row[e].attempt_count
                          /\ row'[e] = row[e] \/ row[e].attempt_count >= MaxAttempts
    BY <1>3, StopAtLimitEffect DEF LeaseReleased, AtAttemptLimit
  <2>3. UNCHANGED copies
    BY <1>3 DEF StopAtLimit
  <2>4. ExhaustedAtLimit'
    <3>1. \A e \in Events : row[e].attempt_count >= MaxAttempts
                             => row[e].attempt_count = MaxAttempts
      BY <1>a, OutboxAssumption
    <3>2. QED
      BY <1>a, <2>2, <3>1
  <2>5. QED
    BY <1>b, <2>1, <2>2, <2>3, <2>4
<1>4. ASSUME NEW r \in Relays, LeaseEvents(r)
      PROVE  AttemptInv'
  <2>1. PICK S \in SUBSET Leasable :
          /\ \A e \in Events \ S : row'[e] = row[e]
          /\ \A e \in S : /\ row'[e].attempt_count = row[e].attempt_count + 1
                          /\ row'[e].stop_reason = row[e].stop_reason
          /\ ContinueWith(r, S, "build")
    BY <1>4, LeaseEventsEffect
  <2>2. pc[r] = "lease" /\ UNCHANGED copies
    BY <1>4 DEF LeaseEvents
  <2>3. \A e \in Events : e \notin S => Unsent(e)' = Unsent(e)
    BY <2>1, <2>2 DEF ContinueWith, Unsent, TypeOK
  <2>4. \A e \in S : Unsent(e)' = Unsent(e) \cup {r} /\ r \notin Unsent(e)
    BY <2>1, <2>2 DEF ContinueWith, Unsent, TypeOK
  <2>5. ASSUME NEW e \in Events
        PROVE  copies'[e] + Cardinality(Unsent(e)') <= row'[e].attempt_count
    <3>1. CASE e \in S
      <4>1. Cardinality(Unsent(e)') = Cardinality(Unsent(e)) + 1
        BY <2>4, <3>1, UnsentFinite, FS_AddElement
      <4>2. copies[e] + Cardinality(Unsent(e)) <= row[e].attempt_count
        BY DEF AttemptInv
      <4>3. QED
        BY <1>a, <2>1, <2>2, <3>1, <4>1, <4>2, UnsentFinite
    <3>2. CASE e \notin S
      BY <2>1, <2>2, <2>3, <3>2, FewerUnsent
    <3>3. QED
      BY <3>1, <3>2
  <2>6. ExhaustedAtLimit'
    BY <1>a, <2>1 DEF Leasable, Settled
  <2>7. QED
    BY <2>5, <2>6 DEF AttemptInv
<1>5. ASSUME NEW r \in Relays, RejectInvalid(r) \/ RecordResult(r)
      PROVE  AttemptInv'
  <2>1. PICK e \in hand[r] : Settles(r, e)
    BY <1>5, SettleEffect
  <2>2. /\ e \in Events
        /\ token[r][e] <= row[e].attempt_count
        /\ token[r][e] \in Nat
    BY OutboxAssumption DEF TypeOK, TokenInv
  <2>3. \A d \in Events : Unsent(d)' \subseteq Unsent(d)
    BY <1>5 DEF RejectInvalid, RecordResult, ContinueWith, Unsent, TypeOK
  <2>4. \A d \in Events : row'[d].attempt_count = row[d].attempt_count
    BY <2>1, <2>2 DEF Settles, OnlyRow, LeaseReleased
  <2>5. row'[e].stop_reason = "retry_exhausted" =>
          row[e].stop_reason = "retry_exhausted" \/ token[r][e] >= MaxAttempts
    BY <2>1 DEF Settles
  <2>6. ExhaustedAtLimit'
    <3>1. \A d \in Events : d # e => row'[d] = row[d]
      BY <2>1 DEF Settles, OnlyRow
    <3>2. QED
      BY <1>a, <2>2, <2>4, <2>5, <3>1, OutboxAssumption
  <2>7. UNCHANGED copies
    BY <2>1 DEF Settles
  <2>8. QED
    BY <1>b, <2>3, <2>4, <2>6, <2>7
<1>6. ASSUME NEW r \in Relays, SendBatch(r)
      PROVE  AttemptInv'
  <2>1. PICK delivered \in SUBSET hand[r] :
          copies' = [e \in Events |-> IF e \in delivered THEN copies[e] + 1 ELSE copies[e]]
    BY <1>6 DEF SendBatch
  <2>2. /\ pc[r] = "build" /\ pc' = [pc EXCEPT ![r] = "record"]
        /\ UNCHANGED <<row, hand>>
    BY <1>6 DEF SendBatch
  <2>3. \A e \in Events : Unsent(e)' = Unsent(e) \ {r}
    BY <2>2 DEF Unsent, TypeOK
  <2>4. ASSUME NEW e \in Events
        PROVE  copies'[e] + Cardinality(Unsent(e)') <= row'[e].attempt_count
    <3>1. CASE e \in delivered
      <4>1. r \in Unsent(e)
        BY <2>2, <3>1 DEF Unsent
      <4>2. Cardinality(Unsent(e)') = Cardinality(Unsent(e)) - 1
        BY <2>3, <4>1, UnsentFinite, FS_RemoveElement
      <4>3. copies[e] + Cardinality(Unsent(e)) <= row[e].attempt_count
        BY DEF AttemptInv
      <4>4. QED
        BY <1>a, <2>1, <2>2, <3>1, <4>2, <4>3, UnsentFinite
    <3>2. CASE e \notin delivered
      BY <2>1, <2>2, <2>3, <3>2, FewerUnsent
    <3>3. QED
      BY <3>1, <3>2
  <2>5. QED
    BY <1>a, <2>2, <2>4 DEF AttemptInv
<1>7. CASE Tick
  <2>1. \A e \in Events : Unsent(e)' \subseteq Unsent(e)
    BY <1>7 DEF Tick, Unsent
  <2>2. \A e \in Events : /\ row'[e].attempt_count = row[e].attempt_count
                          /\ row'[e].stop_reason = row[e].stop_reason
    BY <1>7, TickEffect
  <2>3. UNCHANGED copies
    BY <1>7 DEF Tick
  <2>4. QED
    BY <1>a, <1>b, <2>1, <2>2, <2>3
<1>8. CASE UNCHANGED vars
  BY <1>8 DEF vars, AttemptInv, Unsent
<1>9. QED
  BY <1>1, <1>2, <1>3, <1>4, <1>5, <1>6, <1>7, <1>8 DEF Next, RelayStep

LEMMA InitAttempts == Init => AttemptInv
<1> SUFFICES ASSUME Init
             PROVE  AttemptInv
  OBVIOUS
<1>1. ASSUME NEW e \in Events
      PROVE  Cardinality(Unsent(e)) = 0
  <2>1. Unsent(e) = {}
    BY DEF Init, Unsent
  <2>2. QED
    BY <2>1, FS_EmptySet
<1>2. QED
  BY <1>1 DEF Init, NewRow, AttemptInv

(* The queue never holds more copies of an event than the attempts its row *)
(* counts, crashed attempts included.                                      *)
THEOREM CopiesAreAttempts == Spec => []CopiesWithinAttempts
<1>1. Spec => [](TypeOK /\ TokenInv /\ AttemptInv)
  BY InitTypes, StepTypes, InitAttempts, StepAttempts, PTL DEF Spec
<1>2. TypeOK /\ AttemptInv => CopiesWithinAttempts
  <2> SUFFICES ASSUME TypeOK, AttemptInv, NEW e \in Events
               PROVE  /\ copies[e] <= row[e].attempt_count
                      /\ row[e].stop_reason = "retry_exhausted"
                           => row[e].attempt_count = MaxAttempts
    BY DEF CopiesWithinAttempts
  <2>1. copies[e] \in Nat /\ row[e].attempt_count \in Nat
    BY OutboxAssumption DEF TypeOK, Row
  <2>2. QED
    BY <2>1, UnsentFinite DEF AttemptInv
<1>3. QED
  BY <1>1, <1>2, PTL
-----------------------------------------------------------------------------
(* When Lambda ends a run before its leases expire, the run owns what it    *)
(* holds for as long as it lives.                                           *)

LEMMA InitOutlast == Init => OutlastInv
  BY DEF Init, OutlastInv

(* Two runs cannot hold the same event: both would own the row's one token. *)
LEMMA OwnersExclusive ==
  ASSUME TokenInv, OutlastInv
  PROVE  ExclusiveWork
<1>1. ASSUME NEW r \in Relays, NEW s \in Relays, r # s, NEW e \in hand[r], e \in hand[s]
      PROVE  FALSE
  <2>1. row[e].lease_token = token[r][e] /\ row[e].lease_token = token[s][e]
    BY <1>1 DEF OutlastInv, MayUpdate
  <2>2. token[r][e] # token[s][e]
    BY <1>1 DEF TokenInv
  <2>3. QED
    BY <2>1, <2>2
<1>2. QED
  BY <1>1 DEF ExclusiveWork, OutlastInv

LEMMA StepOutlast ==
  ASSUME RunTimeout <= LeaseDuration
  PROVE  TypeOK /\ TokenInv /\ OutlastInv /\ [Next]_vars => OutlastInv'
<1> SUFFICES ASSUME TypeOK, TokenInv, OutlastInv, [Next]_vars
             PROVE  OutlastInv'
  OBVIOUS
<1>a. \A s \in Relays : /\ hand[s] \subseteq Events
                        /\ life[s] \in Nat
                        /\ pc[s] = "idle" => hand[s] = {}
                        /\ pc[s] # "idle" => 1 <= life[s] /\ life[s] <= RunTimeout
                        /\ \A e \in hand[s] : MayUpdate(s, e) /\ life[s] <= row[e].lease_left
  BY DEF TypeOK, OutlastInv
<1>b. \A r, s \in Relays : r # s => hand[r] \cap hand[s] = {}
  BY OwnersExclusive DEF ExclusiveWork
<1>1. ASSUME NEW e \in Events, AppendEvent(e)
      PROVE  OutlastInv'
  BY <1>1 DEF AppendEvent, OutlastInv, MayUpdate, Settled
<1>2. ASSUME NEW r \in Relays, StartRun(r)
      PROVE  OutlastInv'
  <2>1. /\ pc[r] = "idle" /\ pc' = [pc EXCEPT ![r] = "stop"]
        /\ life' = [life EXCEPT ![r] = RunTimeout]
        /\ UNCHANGED <<row, hand, token>>
    BY <1>2 DEF StartRun
  <2>2. ASSUME NEW s \in Relays, s # r
        PROVE  pc'[s] = pc[s] /\ life'[s] = life[s]
    BY <2>1, <2>2 DEF TypeOK
  <2>3. pc'[r] = "stop" /\ life'[r] = RunTimeout /\ hand'[r] = {}
    BY <1>a, <2>1 DEF TypeOK
  <2>4. QED
    BY <1>a, <2>1, <2>2, <2>3, OutboxAssumption DEF OutlastInv, MayUpdate, Settled
<1>3. ASSUME NEW r \in Relays, StopAtLimit(r)
      PROVE  OutlastInv'
  <2>1. \A e \in Events : row'[e] = row[e] \/ row[e].lease_left = 0
    BY <1>3, StopAtLimitEffect DEF AtAttemptLimit, Unleased
  <2>2. \A s \in Relays : \A e \in hand[s] : row'[e] = row[e]
    BY <1>a, <2>1 DEF MayUpdate
  <2>3. pc[r] = "stop" /\ pc' = [pc EXCEPT ![r] = "lease"] /\ UNCHANGED <<life, hand, token>>
    BY <1>3 DEF StopAtLimit
  <2>4. \A s \in Relays : pc'[s] = "idle" <=> pc[s] = "idle"
    BY <2>3 DEF TypeOK
  <2>5. QED
    BY <1>a, <2>2, <2>3, <2>4 DEF OutlastInv, MayUpdate, Settled
<1>4. ASSUME NEW r \in Relays, LeaseEvents(r)
      PROVE  OutlastInv'
  <2>1. PICK S \in SUBSET Leasable :
          /\ \A e \in Events \ S : row'[e] = row[e]
          /\ \A e \in S : /\ e \in Events
                          /\ row'[e].lease_token = row[e].attempt_count + 1
                          /\ row'[e].lease_left = LeaseDuration
                          /\ row'[e].published = row[e].published
                          /\ row'[e].stop_reason = row[e].stop_reason
                          /\ token'[r][e] = row[e].attempt_count + 1
          /\ token' = [token EXCEPT ![r] = [e \in Events |->
                          IF e \in S THEN row[e].attempt_count + 1 ELSE NoToken]]
          /\ ContinueWith(r, S, "build")
    BY <1>4, LeaseEventsEffect
  <2>2. /\ hand'[r] = S
        /\ pc'[r] = IF S = {} THEN "idle" ELSE "build"
        /\ life'[r] = IF S = {} THEN 0 ELSE life[r]
    BY <2>1 DEF ContinueWith, TypeOK
  <2>3. \A s \in Relays : s # r => /\ hand'[s] = hand[s] /\ token'[s] = token[s]
                                  /\ pc'[s] = pc[s] /\ life'[s] = life[s]
    BY <2>1 DEF ContinueWith, TypeOK
  <2>4. pc[r] = "lease"
    BY <1>4 DEF LeaseEvents
  <2>5. ASSUME NEW e \in S
        PROVE  MayUpdate(r, e)' /\ life'[r] <= row'[e].lease_left
    <3>1. row'[e].lease_token = token'[r][e] /\ row'[e].lease_left = LeaseDuration
      BY <2>1
    <3>2. ~Settled(e)'
      BY <2>1 DEF Leasable, Settled
    <3>3. life'[r] <= LeaseDuration /\ LeaseDuration > 0
      BY <1>a, <2>2, <2>4, OutboxAssumption
    <3>4. QED
      BY <3>1, <3>2, <3>3 DEF MayUpdate
  <2>6. ASSUME NEW s \in Relays, s # r, NEW e \in hand[s]
        PROVE  MayUpdate(s, e)' /\ life'[s] <= row'[e].lease_left
    <3>1. row'[e] = row[e]
      BY <1>a, <2>1, <2>6 DEF Leasable, Unleased, MayUpdate
    <3>2. QED
      BY <1>a, <2>3, <2>6, <3>1 DEF MayUpdate, Settled
  <2>7. QED
    BY <1>a, <2>2, <2>3, <2>4, <2>5, <2>6 DEF OutlastInv
<1>5. ASSUME NEW r \in Relays, RejectInvalid(r) \/ RecordResult(r)
      PROVE  OutlastInv'
  <2>1. PICK e \in hand[r] : Settles(r, e)
    BY <1>5, SettleEffect
  <2>2. HandsShrink /\ hand'[r] = hand[r] \ {e} /\ e \in Events
    BY <2>1, SettlesHands
  <2>3. PICK next \in {"build", "record"} : ContinueWith(r, hand[r] \ {e}, next)
    BY <2>1 DEF Settles
  <2>4. \A s \in Relays : \A d \in hand'[s] : d # e
    BY <1>b, <2>2 DEF HandsShrink
  <2>5. \A s \in Relays : \A d \in hand'[s] : row'[d] = row[d]
    BY <1>a, <2>1, <2>2, <2>4 DEF Settles, OnlyRow, HandsShrink
  <2>6. \A s \in Relays : s # r => pc'[s] = pc[s] /\ life'[s] = life[s] /\ hand'[s] = hand[s]
    BY <2>3 DEF ContinueWith, TypeOK
  <2>7. /\ pc'[r] = IF hand'[r] = {} THEN "idle" ELSE next
        /\ life'[r] = IF hand'[r] = {} THEN 0 ELSE life[r]
    BY <2>2, <2>3 DEF ContinueWith, TypeOK
  <2>8. pc[r] # "idle"
    BY <1>5 DEF RejectInvalid, RecordResult
  <2>9. \A s \in Relays : \A d \in hand'[s] :
          MayUpdate(s, d)' /\ life'[s] <= row'[d].lease_left
    <3>1. ASSUME NEW s \in Relays, NEW d \in hand'[s]
          PROVE  MayUpdate(s, d)' /\ life'[s] <= row'[d].lease_left
      <4>1. d \in hand[s] /\ token'[s][d] = token[s][d] /\ row'[d] = row[d]
        BY <2>2, <2>5, <3>1 DEF HandsShrink
      <4>2. life'[s] = life[s]
        BY <2>6, <2>7, <3>1
      <4>3. QED
        BY <1>a, <4>1, <4>2 DEF MayUpdate, Settled
    <3>2. QED
      BY <3>1
  <2>10. QED
    BY <1>a, <2>6, <2>7, <2>8, <2>9 DEF OutlastInv
<1>6. ASSUME NEW r \in Relays, OpenSenderFails(r) \/ SendBatch(r)
      PROVE  OutlastInv'
  <2>1. /\ pc[r] = "build" /\ pc' = [pc EXCEPT ![r] = "record"]
        /\ UNCHANGED <<row, life, hand, token>>
    BY <1>6 DEF OpenSenderFails, SendBatch
  <2>2. \A s \in Relays : pc'[s] = "idle" <=> pc[s] = "idle"
    BY <2>1 DEF TypeOK
  <2>3. QED
    BY <1>a, <2>1, <2>2 DEF OutlastInv, MayUpdate, Settled
<1>7. ASSUME NEW r \in Relays, AbortRun(r)
      PROVE  OutlastInv'
  <2>1. /\ hand'[r] = {} /\ pc'[r] = "idle" /\ row' = row
        /\ \A s \in Relays : s # r => /\ hand'[s] = hand[s] /\ token'[s] = token[s]
                                     /\ pc'[s] = pc[s] /\ life'[s] = life[s]
    BY <1>7 DEF AbortRun, ContinueWith, TypeOK
  <2>2. QED
    BY <1>a, <2>1 DEF OutlastInv, MayUpdate, Settled
<1>8. CASE Tick
  <2>1. ASSUME NEW s \in Relays, life[s] <= 1
        PROVE  pc'[s] = "idle" /\ hand'[s] = {}
    BY <1>8, <2>1 DEF Tick
  <2>2. ASSUME NEW s \in Relays, life[s] > 1
        PROVE  /\ pc'[s] = pc[s] /\ hand'[s] = hand[s] /\ token'[s] = token[s]
               /\ life'[s] = life[s] - 1
    <3>1. life[s] \in Nat /\ ~(life[s] <= 1) /\ Less1(life[s]) = life[s] - 1
      BY <1>a, <2>2 DEF Less1
    <3>2. QED
      BY <1>8, <3>1 DEF Tick
  <2>3. \A e \in Events : /\ row'[e].lease_token = row[e].lease_token
                          /\ row'[e].lease_left = Less1(row[e].lease_left)
                          /\ row'[e].published = row[e].published
                          /\ row'[e].stop_reason = row[e].stop_reason
                          /\ row[e].lease_left \in Nat
    BY <1>8, TickEffect DEF TypeOK, Row
  <2>4. ASSUME NEW s \in Relays, life[s] > 1, NEW e \in hand[s]
        PROVE  MayUpdate(s, e)' /\ life'[s] <= row'[e].lease_left
    <3>1. e \in Events /\ MayUpdate(s, e) /\ life[s] <= row[e].lease_left
      BY <1>a
    <3>2. row'[e].lease_left = row[e].lease_left - 1 /\ row'[e].lease_left > 0
      BY <1>a, <2>3, <2>4, <3>1 DEF Less1
    <3>3. life'[s] <= row'[e].lease_left
      BY <1>a, <2>2, <2>3, <2>4, <3>1, <3>2
    <3>4. QED
      BY <2>2, <2>3, <2>4, <3>1, <3>2, <3>3 DEF MayUpdate, Settled
  <2>5. ASSUME NEW s \in Relays
        PROVE  /\ pc'[s] = "idle" => hand'[s] = {}
               /\ pc'[s] # "idle" => 1 <= life'[s] /\ life'[s] <= RunTimeout
               /\ \A e \in hand'[s] : MayUpdate(s, e)' /\ life'[s] <= row'[e].lease_left
    <3>1. CASE life[s] <= 1
      BY <2>1, <3>1
    <3>2. CASE life[s] > 1
      BY <1>a, <2>2, <2>4, <3>2, OutboxAssumption
    <3>3. QED
      BY <1>a, <3>1, <3>2
  <2>6. QED
    BY <2>5 DEF OutlastInv
<1>9. CASE UNCHANGED vars
  BY <1>9 DEF vars, OutlastInv, MayUpdate, Settled
<1>10. QED
  BY <1>1, <1>2, <1>3, <1>4, <1>5, <1>6, <1>7, <1>8, <1>9 DEF Next, RelayStep

(* In production Lambda ends a run after 120 s and a lease lasts 150 s; for *)
(* all durations in that order no two live runs work on the same event, and *)
(* none loses an outcome to an expired lease.                               *)
THEOREM WorkIsExclusive ==
  ASSUME RunTimeout <= LeaseDuration
  PROVE  Spec => []ExclusiveWork
<1>1. TypeOK /\ TokenInv /\ OutlastInv /\ [Next]_vars => OutlastInv'
  BY StepOutlast
<1>2. TokenInv /\ OutlastInv => ExclusiveWork
  BY OwnersExclusive
<1>3. QED
  BY <1>1, <1>2, InitTypes, StepTypes, InitOutlast, PTL DEF Spec
-----------------------------------------------------------------------------
(* The relay implements the abstract delivery: each transaction is one     *)
(* abstract step, and leasing, scheduling a retry and time are stutters.    *)

LEMMA InitImplements == Init => Delivery!Init
  BY DEF Init, Delivery!Init, DeliveryStatus

LEMMA StepImplements ==
  TypeOK /\ TokenInv /\ AcceptedInv /\ OutlastInv /\ [Next]_vars
    => [Delivery!Next]_(Delivery!vars)
<1> SUFFICES ASSUME TypeOK, TokenInv, AcceptedInv, OutlastInv, [Next]_vars
             PROVE  Delivery!Next \/ UNCHANGED Delivery!vars
  OBVIOUS
<1> DEFINE St == DeliveryStatus
<1>a. St = [e \in Events |-> St[e]] /\ St' = [e \in Events |-> St'[e]]
  BY DEF DeliveryStatus
<1>b. \A e \in Events : e \in outbox /\ ~Settled(e) => Delivery!Pending(e)
  BY DEF Delivery!Pending, DeliveryStatus, Settled
<1>c. \A e \in Events : /\ UNCHANGED outbox
                       /\ row'[e].published = row[e].published
                       /\ row'[e].stop_reason = row[e].stop_reason
                       => St'[e] = St[e]
  BY DEF DeliveryStatus
<1>d. ASSUME NEW S \in SUBSET Events, \A e \in S : e \in outbox /\ ~Settled(e),
             \A e \in S : ~row'[e].published /\ row'[e].stop_reason # "none",
             \A e \in Events \ S : /\ row'[e].published = row[e].published
                                  /\ row'[e].stop_reason = row[e].stop_reason,
             UNCHANGED <<outbox, copies>>
      PROVE  Delivery!Next
  <2>1. St' = [e \in Events |-> IF e \in S THEN "stopped" ELSE St[e]]
    <3>1. \A e \in S : St'[e] = "stopped"
      BY <1>d DEF DeliveryStatus
    <3>2. \A e \in Events \ S : St'[e] = St[e]
      BY <1>c, <1>d
    <3> HIDE DEF St
    <3>3. QED
      BY <1>a, <3>1, <3>2
  <2>2. Delivery!GiveUp(S)
    BY <1>b, <1>d, <2>1 DEF Delivery!GiveUp
  <2>3. QED
    BY <2>2 DEF Delivery!Next
<1>1. ASSUME NEW e \in Events, AppendEvent(e)
      PROVE  Delivery!Next
  <2>1. e \notin outbox /\ outbox' = outbox \cup {e} /\ UNCHANGED <<row, copies>>
    BY <1>1 DEF AppendEvent
  <2>2. ~Settled(e)
    BY <2>1 DEF AcceptedInv
  <2>3. St[e] = "absent" /\ St' = [St EXCEPT ![e] = "pending"]
    BY <2>1, <2>2 DEF DeliveryStatus, Settled
  <2>4. Delivery!Record(e)
    BY <2>1, <2>3 DEF Delivery!Record
  <2>5. QED
    BY <2>4 DEF Delivery!Next
<1>2. ASSUME NEW r \in Relays, StartRun(r) \/ OpenSenderFails(r) \/ AbortRun(r)
      PROVE  UNCHANGED Delivery!vars
  BY <1>2 DEF StartRun, OpenSenderFails, AbortRun, Delivery!vars, DeliveryStatus
<1>3. ASSUME NEW r \in Relays, StopAtLimit(r)
      PROVE  Delivery!Next
  <2> DEFINE S == {e \in Events : row'[e] # row[e]}
  <2>1. \A e \in S : /\ e \in outbox /\ ~Settled(e)
                     /\ ~row'[e].published /\ row'[e].stop_reason # "none"
    BY <1>3, StopAtLimitEffect DEF AtAttemptLimit, Settled
  <2>2. UNCHANGED <<outbox, copies>>
    BY <1>3 DEF StopAtLimit
  <2>3. QED
    BY <1>d, <2>1, <2>2
<1>4. ASSUME NEW r \in Relays, LeaseEvents(r)
      PROVE  UNCHANGED Delivery!vars
  <2>1. \A e \in Events : /\ row'[e].published = row[e].published
                          /\ row'[e].stop_reason = row[e].stop_reason
    BY <1>4, LeaseEventsEffect
  <2>2. UNCHANGED <<outbox, copies>>
    BY <1>4 DEF LeaseEvents
  <2>3. \A e \in Events : St'[e] = St[e]
    BY <1>c, <2>1, <2>2
  <2> HIDE DEF St
  <2>4. St' = St
    BY <1>a, <2>3
  <2>5. QED
    BY <2>2, <2>4 DEF Delivery!vars, St
<1>5. ASSUME NEW r \in Relays, RejectInvalid(r) \/ RecordResult(r)
      PROVE  Delivery!Next \/ UNCHANGED Delivery!vars
  <2>1. PICK e \in hand[r] : Settles(r, e)
    BY <1>5, SettleEffect
  <2>2. /\ e \in outbox /\ e \in Events
        /\ row[e].published \in BOOLEAN
        /\ row[e].stop_reason = "none" /\ row[e].published = FALSE
    BY DEF TokenInv, TypeOK, OutlastInv, MayUpdate, Settled, Row
  <2>3. /\ UNCHANGED <<outbox, copies>>
        /\ row' \in [Events -> Row]
        /\ \A d \in Events : d # e => row'[d] = row[d]
    BY <2>1 DEF Settles, OnlyRow
  <2>4. \A d \in Events : d # e => St'[d] = St[d]
    BY <1>c, <2>3
  <2>5. CASE row'[e].published = FALSE /\ row'[e].stop_reason = "none"
    <3>1. \A d \in Events : St'[d] = St[d]
      BY <1>c, <2>2, <2>3, <2>4, <2>5
    <3> HIDE DEF St
    <3>2. St' = St
      BY <1>a, <3>1
    <3>3. QED
      BY <2>3, <3>2 DEF Delivery!vars, St
  <2>6. CASE row'[e].published = FALSE /\ row'[e].stop_reason # "none"
    <3>1. \A d \in Events \ {e} : /\ row'[d].published = row[d].published
                                 /\ row'[d].stop_reason = row[d].stop_reason
      BY <2>3
    <3>2. {e} \in SUBSET Events /\ ~Settled(e)
      BY <2>2 DEF Settled
    <3>3. QED
      BY <1>d, <2>2, <2>3, <2>6, <3>1, <3>2
  <2>7. CASE row'[e].published = TRUE
    <3>1. outcome[r][e] = "accepted"
      BY <2>1, <2>2, <2>7 DEF Settles
    <3>2. copies[e] > 0
      BY <2>2, <3>1 DEF AcceptedInv
    <3>3. St'[e] = "published"
      BY <2>2, <2>3, <2>7 DEF DeliveryStatus
    <3>4. Delivery!Pending(e)
      BY <1>b, <2>2 DEF Settled
    <3>5. St' = [St EXCEPT ![e] = "published"]
      <4> HIDE DEF St
      <4>1. QED
        BY <1>a, <2>2, <2>4, <3>3
    <3>6. Delivery!Confirm(e)
      BY <2>3, <3>2, <3>4, <3>5 DEF Delivery!Confirm
    <3>7. QED
      BY <2>2, <3>6 DEF Delivery!Next
  <2>8. row'[e].published \in BOOLEAN
    BY <2>2, <2>3 DEF Row
  <2>9. QED
    BY <2>5, <2>6, <2>7, <2>8
<1>6. ASSUME NEW r \in Relays, SendBatch(r)
      PROVE  Delivery!Next
  <2>1. PICK delivered \in SUBSET hand[r] :
          copies' = [e \in Events |-> IF e \in delivered THEN copies[e] + 1 ELSE copies[e]]
    BY <1>6 DEF SendBatch
  <2>2. \A e \in delivered : e \in Events /\ Delivery!Pending(e)
    BY <1>b DEF TokenInv, TypeOK, OutlastInv, MayUpdate
  <2>3. UNCHANGED DeliveryStatus
    BY <1>6 DEF SendBatch, DeliveryStatus
  <2>4. Delivery!Deliver(delivered)
    BY <2>1, <2>2, <2>3 DEF Delivery!Deliver
  <2>5. QED
    BY <2>2, <2>4 DEF Delivery!Next
<1>7. CASE Tick
  <2>1. \A e \in Events : /\ row'[e].published = row[e].published
                          /\ row'[e].stop_reason = row[e].stop_reason
    BY <1>7, TickEffect
  <2>2. UNCHANGED <<outbox, copies>>
    BY <1>7 DEF Tick
  <2>3. \A e \in Events : St'[e] = St[e]
    BY <1>c, <2>1, <2>2
  <2> HIDE DEF St
  <2>4. St' = St
    BY <1>a, <2>3
  <2>5. QED
    BY <2>2, <2>4 DEF Delivery!vars, St
<1>8. CASE UNCHANGED vars
  BY <1>8 DEF vars, Delivery!vars, DeliveryStatus
<1>9. QED
  BY <1>1, <1>2, <1>3, <1>4, <1>5, <1>6, <1>7, <1>8 DEF Next, RelayStep

(* For every lease that outlasts the runs, the relay with its leases,       *)
(* tokens, retries and crashes behaves as OutboxDelivery promises.          *)
THEOREM RelayImplementsDelivery ==
  ASSUME RunTimeout <= LeaseDuration
  PROVE  Spec => ImplementsDelivery
<1>1. TypeOK /\ TokenInv /\ OutlastInv /\ [Next]_vars => OutlastInv'
  BY StepOutlast
<1>2. Spec => [](TypeOK /\ TokenInv /\ AcceptedInv /\ PublishedWasAccepted /\ OutlastInv)
  BY <1>1, InitTypes, StepTypes, InitAccepted, StepAccepted, InitOutlast, PTL DEF Spec
<1>3. QED
  BY <1>2, InitImplements, StepImplements, PTL DEF Spec, ImplementsDelivery, Delivery!Spec
=============================================================================
