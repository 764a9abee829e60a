----------------------- MODULE ArticleAnalysisProofs -----------------------
(* Proofs about ArticleAnalysis, for every set of articles, workers and    *)
(* copies and every receive limit.                                         *)
EXTENDS ArticleAnalysis, TLAPS

Busy(w) == pc[w] # "idle"

(* What a worker has found out about its article under the row lock still  *)
(* holds, because the others cannot commit without that lock.              *)
Uncommitted(w) ==
  /\ pc[w] \in {"insert", "commit"} =>
       Article(w) \notin Rows(Stage(w), Opposite(verdict[w]))
  /\ pc[w] = "commit" =>
       inserted[w] = verdict[w] /\ Article(w) \notin Rows(Stage(w), verdict[w])

WorkersInv == \A w \in Workers : Uncommitted(w) /\ (Busy(w) => Published(message[w]))

(* A result of a stage presupposes the kept result of the stage before.    *)
Descent ==
  /\ kept["assessment"] \cup dropped["assessment"] \subseteq kept["curation"]
  /\ kept["embedding"] \subseteq kept["assessment"]

AnalysisInv ==
  WorkersInv /\ OneVerdict /\ KeptIsAnnouncedOnce /\ AckedIsDecided /\ Descent

-----------------------------------------------------------------------------
(* The ends of an invocation, whatever becomes of its message.             *)

Ended(w) ==
  /\ Ends(w) /\ Unlock(w)
  /\ deleted \subseteq deleted' /\ deleted' \subseteq deleted \cup {message[w]}
  /\ rejected' \subseteq deleted'
  /\ deleted' \ rejected' \subseteq (deleted \ rejected) \cup {message[w]}

EndedUndecided(w) == Ended(w) /\ deleted' \ rejected' \subseteq deleted \ rejected

LEMMA BusyMessage ==
  ASSUME TypeOK, NEW w \in Workers, Busy(w)
  PROVE  /\ message[w] \in Messages
         /\ Stage(w) \in Stages
         /\ Article(w) \in Articles
<1>1. message[w] # NoMessage /\ message[w] \in Messages \cup {NoMessage}
  BY DEF TypeOK, Busy
<1>2. message[w] \in Messages
  BY <1>1
<1>3. QED
  BY <1>2 DEF Messages, Stage, Article

LEMMA AckEnds ==
  ASSUME TypeOK, NEW w \in Workers, Ack(w)
  PROVE  Ended(w)
  BY DEF Ack, Ended, TypeOK

LEMMA RetryEnds ==
  ASSUME TypeOK, NEW w \in Workers, Ends(w), Unlock(w), UNCHANGED <<deleted, rejected>>
  PROVE  EndedUndecided(w)
  BY DEF Ended, EndedUndecided, TypeOK

LEMMA FailsEnds ==
  ASSUME TypeOK, NEW w \in Workers, Fails(w)
  PROVE  EndedUndecided(w)
<1>1. CASE Retry(w)
  BY <1>1, RetryEnds DEF Retry
<1>2. CASE Reject(w)
  BY <1>2 DEF Reject, Ended, EndedUndecided, TypeOK
<1>3. QED
  BY <1>1, <1>2 DEF Fails

(* The ended worker is as before its invocation, the others as they were.  *)
LEMMA EndedWorkers ==
  ASSUME TypeOK, NEW w \in Workers, Busy(w), Ended(w)
  PROVE  /\ pc' = [pc EXCEPT ![w] = "idle"]
         /\ pc'[w] = "idle"
         /\ \A v \in Workers \ {w} :
              /\ pc'[v] = pc[v] /\ message'[v] = message[v]
              /\ verdict'[v] = verdict[v] /\ inserted'[v] = inserted[v]
  BY DEF Ended, Ends, TypeOK

LEMMA EndedTypes ==
  ASSUME TypeOK, NEW w \in Workers, Busy(w), Ended(w),
         kept' \in [Stages -> SUBSET Articles],
         dropped' \in [Stages -> SUBSET Articles],
         events' \in [Stages -> [Articles -> Nat]]
  PROVE  TypeOK'
<1>1. /\ receives' \in [Messages -> 0..MaxReceives]
      /\ deleted' \subseteq Messages
      /\ rejected' \subseteq deleted'
  BY BusyMessage DEF Ended, Ends, TypeOK
<1>2. /\ pc' \in [Workers -> Pc]
      /\ message' \in [Workers -> Messages \cup {NoMessage}]
      /\ verdict' \in [Workers -> Verdict]
      /\ inserted' \in [Workers -> Verdict]
  BY DEF Ended, Ends, TypeOK, Pc, Verdict
<1>3. /\ lock' \in [Stages -> [Articles -> Workers \cup {Nobody}]]
      /\ \A s \in Stages, a \in Articles :
           lock'[s][a] = IF lock[s][a] = w THEN Nobody ELSE lock[s][a]
  BY DEF Ended, Unlock, TypeOK
<1>4. ASSUME NEW v \in Workers
      PROVE  /\ message'[v] = NoMessage <=> pc'[v] = "idle"
             /\ verdict'[v] = "none" <=> pc'[v] \in {"idle", "load", "ask"}
             /\ inserted'[v] # "none" <=> pc'[v] = "commit"
             /\ \A s \in Stages, a \in Articles :
                  lock'[s][a] = v <=> /\ pc'[v] \in {"check", "insert", "commit"}
                                      /\ message'[v].stage = s /\ message'[v].article = a
  <2>1. CASE v = w
    <3>1. /\ message'[w] = NoMessage /\ verdict'[w] = "none" /\ inserted'[w] = "none"
          /\ pc'[w] = "idle"
      BY DEF Ended, Ends, TypeOK
    <3>2. \A s \in Stages, a \in Articles : lock'[s][a] # w
      BY <1>3, AnalysisAssumption DEF Nobody
    <3>3. QED
      BY <2>1, <3>1, <3>2
  <2>2. CASE v # w
    <3>1. \A s \in Stages, a \in Articles : lock'[s][a] = v <=> lock[s][a] = v
      BY <1>3, <2>2, AnalysisAssumption DEF Nobody
    <3>2. QED
      BY <2>2, <3>1, EndedWorkers DEF TypeOK
  <2>3. QED
    BY <2>1, <2>2
<1>5. QED
  BY <1>1, <1>2, <1>3, <1>4 DEF TypeOK

-----------------------------------------------------------------------------
(* Type correctness                                                        *)

(* One step forward of an invocation, with what it sets.                   *)
Advanced(w, next, v, i) ==
  /\ pc' = [pc EXCEPT ![w] = next]
  /\ verdict' = [verdict EXCEPT ![w] = v]
  /\ inserted' = [inserted EXCEPT ![w] = i]
  /\ UNCHANGED <<storeVars, message, queueVars>>

LEMMA AdvancedTypes ==
  ASSUME TypeOK, NEW w \in Workers, Busy(w),
         NEW next \in Pc, next # "idle", NEW v \in Verdict, NEW i \in Verdict,
         Advanced(w, next, v, i),
         v = "none" <=> next \in {"load", "ask"},
         i # "none" <=> next = "commit",
         \/ UNCHANGED lock /\ (pc[w] \in {"check", "insert", "commit"} <=>
                               next \in {"check", "insert", "commit"})
         \/ /\ next \in {"check", "insert", "commit"}
            /\ pc[w] \notin {"check", "insert", "commit"}
            /\ lock[Stage(w)][Article(w)] = Nobody
            /\ lock' = [lock EXCEPT ![Stage(w)][Article(w)] = w]
  PROVE  TypeOK'
<1>1. /\ kept' \in [Stages -> SUBSET Articles]
      /\ dropped' \in [Stages -> SUBSET Articles]
      /\ events' \in [Stages -> [Articles -> Nat]]
      /\ receives' \in [Messages -> 0..MaxReceives]
      /\ deleted' \subseteq Messages /\ rejected' \subseteq deleted'
      /\ pc' \in [Workers -> Pc]
      /\ message' \in [Workers -> Messages \cup {NoMessage}]
      /\ verdict' \in [Workers -> Verdict] /\ inserted' \in [Workers -> Verdict]
  BY DEF TypeOK, Advanced, storeVars, queueVars
<1>2. /\ message' = message
      /\ pc'[w] = next /\ verdict'[w] = v /\ inserted'[w] = i
      /\ \A u \in Workers \ {w} : /\ pc'[u] = pc[u] /\ verdict'[u] = verdict[u]
                                  /\ inserted'[u] = inserted[u]
  BY DEF TypeOK, Advanced
<1>3. /\ lock' \in [Stages -> [Articles -> Workers \cup {Nobody}]]
      /\ \A u \in Workers, s \in Stages, a \in Articles :
           lock'[s][a] = u <=> /\ pc'[u] \in {"check", "insert", "commit"}
                               /\ message'[u].stage = s /\ message'[u].article = a
  <2>1. CASE UNCHANGED lock /\ (pc[w] \in {"check", "insert", "commit"} <=>
                                next \in {"check", "insert", "commit"})
    BY <1>2, <2>1 DEF TypeOK
  <2>2. CASE /\ next \in {"check", "insert", "commit"}
             /\ pc[w] \notin {"check", "insert", "commit"}
             /\ lock[Stage(w)][Article(w)] = Nobody
             /\ lock' = [lock EXCEPT ![Stage(w)][Article(w)] = w]
    <3>1. /\ lock' \in [Stages -> [Articles -> Workers \cup {Nobody}]]
          /\ lock'[Stage(w)][Article(w)] = w
          /\ \A s \in Stages, a \in Articles :
               s # Stage(w) \/ a # Article(w) => lock'[s][a] = lock[s][a]
      BY <2>2, BusyMessage DEF TypeOK
    <3>2. ASSUME NEW u \in Workers, NEW s \in Stages, NEW a \in Articles
          PROVE  lock'[s][a] = u <=> /\ pc'[u] \in {"check", "insert", "commit"}
                                     /\ message'[u].stage = s /\ message'[u].article = a
      <4>1. CASE s = Stage(w) /\ a = Article(w)
        <5>1. Nobody # u
          BY AnalysisAssumption DEF Nobody
        <5>2. u # w => ~ /\ pc[u] \in {"check", "insert", "commit"}
                         /\ message[u].stage = s /\ message[u].article = a
          BY <2>2, <4>1, <5>1 DEF TypeOK
        <5>3. QED
          BY <1>2, <2>2, <3>1, <4>1, <5>2 DEF Stage, Article
      <4>2. CASE s # Stage(w) \/ a # Article(w)
        <5>1. lock'[s][a] = u <=> lock[s][a] = u
          BY <3>1, <4>2
        <5>2. CASE u = w
          BY <1>2, <2>2, <4>2, <5>1, <5>2 DEF TypeOK, Stage, Article
        <5>3. CASE u # w
          BY <1>2, <5>1, <5>3 DEF TypeOK
        <5>4. QED
          BY <5>2, <5>3
      <4>3. QED
        BY <4>1, <4>2
    <3>3. QED
      BY <3>1, <3>2
  <2>3. QED
    BY <2>1, <2>2
<1>4. \A u \in Workers :
        /\ message'[u] = NoMessage <=> pc'[u] = "idle"
        /\ verdict'[u] = "none" <=> pc'[u] \in {"idle", "load", "ask"}
        /\ inserted'[u] # "none" <=> pc'[u] = "commit"
  BY <1>2 DEF TypeOK, Busy
<1>5. QED
  BY <1>1, <1>3, <1>4 DEF TypeOK

LEMMA ReceiveTypes ==
  ASSUME TypeOK, NEW w \in Workers, NEW m \in Messages, Receive(w, m)
  PROVE  TypeOK'
<1>1. /\ pc' = [pc EXCEPT ![w] = "load"] /\ message' = [message EXCEPT ![w] = m]
      /\ receives' = [receives EXCEPT ![m] = @ + 1] /\ receives[m] < MaxReceives
      /\ pc[w] = "idle"
      /\ UNCHANGED <<kept, dropped, events, lock, deleted, rejected, verdict, inserted>>
  BY DEF Receive, storeVars
<1>2. receives' \in [Messages -> 0..MaxReceives]
  <2>1. receives[m] + 1 \in 0..MaxReceives
    BY <1>1, AnalysisAssumption DEF TypeOK
  <2>2. QED
    BY <1>1, <2>1 DEF TypeOK
<1>3. pc' \in [Workers -> Pc] /\ message' \in [Workers -> Messages \cup {NoMessage}]
  BY <1>1 DEF TypeOK, Pc
<1>4. m # NoMessage
  BY DEF Messages, NoMessage, Stages
<1>5. ASSUME NEW u \in Workers
      PROVE  /\ message'[u] = NoMessage <=> pc'[u] = "idle"
             /\ verdict'[u] = "none" <=> pc'[u] \in {"idle", "load", "ask"}
             /\ inserted'[u] # "none" <=> pc'[u] = "commit"
             /\ \A s \in Stages, a \in Articles :
                  lock'[s][a] = u <=> /\ pc'[u] \in {"check", "insert", "commit"}
                                      /\ message'[u].stage = s /\ message'[u].article = a
  <2>1. CASE u = w
    <3>1. /\ pc'[u] = "load" /\ message'[u] = m /\ pc[u] = "idle"
          /\ verdict'[u] = verdict[u] /\ inserted'[u] = inserted[u] /\ lock' = lock
      BY <1>1, <2>1 DEF TypeOK
    <3>2. /\ verdict[u] = "none" /\ inserted[u] = "none"
      BY <3>1 DEF TypeOK
    <3>3. ASSUME NEW s \in Stages, NEW a \in Articles
          PROVE  lock[s][a] # u
      <4>1. lock[s][a] = u => pc[u] \in {"check", "insert", "commit"}
        BY DEF TypeOK
      <4>2. QED
        BY <3>1, <4>1
    <3>4. QED
      BY <1>4, <3>1, <3>2, <3>3
  <2>2. CASE u # w
    BY <1>1, <2>2 DEF TypeOK
  <2>3. QED
    BY <2>1, <2>2
<1>6. QED
  BY <1>1, <1>2, <1>3, <1>5 DEF TypeOK

(* What the steps forward do, and when.                                    *)
Forward(w) ==
  \/ pc[w] = "load" /\ Advanced(w, "ask", verdict[w], inserted[w]) /\ UNCHANGED lock
  \/ /\ pc[w] = "ask" /\ UNCHANGED lock
     /\ \E v \in {"keep", "drop"} : Advanced(w, "lock", v, inserted[w])
  \/ /\ pc[w] = "lock" /\ Advanced(w, "check", verdict[w], inserted[w])
     /\ lock[Stage(w)][Article(w)] = Nobody
     /\ lock' = [lock EXCEPT ![Stage(w)][Article(w)] = w]
  \/ /\ pc[w] = "check" /\ Advanced(w, "insert", verdict[w], inserted[w]) /\ UNCHANGED lock
     /\ Article(w) \notin Rows(Stage(w), Opposite(verdict[w]))
  \/ /\ pc[w] = "insert" /\ Advanced(w, "commit", verdict[w], verdict[w]) /\ UNCHANGED lock
     /\ Article(w) \notin Rows(Stage(w), verdict[w])

(* The transaction that stores a result, and the end of its invocation.    *)
Stores(w) ==
  LET s == Stage(w)
      a == Article(w) IN
  /\ pc[w] = "commit"
  /\ \/ /\ inserted[w] = "keep"
        /\ kept' = [kept EXCEPT ![s] = @ \cup {a}]
        /\ events' = [events EXCEPT ![s][a] = IF s = "embedding" THEN @ ELSE @ + 1]
        /\ UNCHANGED dropped
     \/ /\ inserted[w] = "drop"
        /\ dropped' = [dropped EXCEPT ![s] = @ \cup {a}]
        /\ UNCHANGED <<kept, events>>
  /\ Ended(w)

(* An invocation that ends without a result: the message is acknowledged   *)
(* as done only where there is a row already.                              *)
Quits(w) ==
  /\ Busy(w) /\ UNCHANGED storeVars
  /\ \/ EndedUndecided(w)
     \/ Ended(w) /\ Decided(Stage(w), Article(w))

LEMMA WorkerEffect ==
  ASSUME TypeOK, NEW w \in Workers, WorkerStep(w)
  PROVE  \/ \E m \in Messages : Receive(w, m)
         \/ Forward(w) \/ Stores(w) \/ Quits(w)
<1> USE DEF Busy
<1>0. /\ verdict = [verdict EXCEPT ![w] = verdict[w]]
      /\ inserted = [inserted EXCEPT ![w] = inserted[w]]
  BY DEF TypeOK
<1>1. CASE LoadReady(w)
  BY <1>0, <1>1, AckEnds DEF LoadReady, Quits, Forward, Advanced, Goes
<1>2. CASE AskModel(w)
  <2>1. PICK v \in Verdicts(Stage(w)) : verdict' = [verdict EXCEPT ![w] = v]
    BY <1>2 DEF AskModel
  <2>2. v \in {"keep", "drop"}
    BY DEF Verdicts
  <2>3. QED
    BY <1>0, <1>2, <2>1, <2>2 DEF AskModel, Forward, Advanced, Goes
<1>3. CASE LockParent(w)
  BY <1>0, <1>3 DEF LockParent, Forward, Advanced, Goes
<1>4. CASE CheckOpposite(w)
  <2>1. CASE Article(w) \in Rows(Stage(w), Opposite(verdict[w]))
    <3>1. Decided(Stage(w), Article(w))
      BY <2>1 DEF Rows, Opposite, Decided
    <3>2. QED
      BY <1>4, <2>1, <3>1, AckEnds DEF CheckOpposite, Quits
  <2>2. CASE Article(w) \notin Rows(Stage(w), Opposite(verdict[w]))
    BY <1>0, <1>4, <2>2 DEF CheckOpposite, Forward, Advanced, Goes
  <2>3. QED
    BY <2>1, <2>2
<1>5. CASE InsertResult(w)
  <2>1. CASE Article(w) \in Rows(Stage(w), verdict[w])
    <3>1. Decided(Stage(w), Article(w))
      BY <2>1 DEF Rows, Decided
    <3>2. QED
      BY <1>5, <2>1, <3>1, AckEnds DEF InsertResult, Quits
  <2>2. CASE Article(w) \notin Rows(Stage(w), verdict[w])
    BY <1>0, <1>5, <2>2 DEF InsertResult, Forward, Advanced, Goes
  <2>3. QED
    BY <2>1, <2>2
<1>6. CASE CommitResult(w)
  BY <1>6, AckEnds, FailsEnds DEF CommitResult, Stores, EndedUndecided
<1>7. CASE StageFails(w)
  BY <1>7, FailsEnds DEF StageFails, Quits
<1>8. CASE CrashWorker(w)
  BY <1>8, RetryEnds DEF CrashWorker, Quits
<1>9. QED
  BY <1>1, <1>2, <1>3, <1>4, <1>5, <1>6, <1>7, <1>8 DEF WorkerStep, Proceeds

LEMMA ForwardTypes ==
  ASSUME TypeOK, NEW w \in Workers, Forward(w)
  PROVE  TypeOK'
<1>1. /\ verdict[w] \in Verdict /\ inserted[w] \in Verdict
      /\ verdict[w] = "none" <=> pc[w] \in {"idle", "load", "ask"}
      /\ inserted[w] # "none" <=> pc[w] = "commit"
  BY DEF TypeOK
<1>2. CASE pc[w] = "load" /\ Advanced(w, "ask", verdict[w], inserted[w]) /\ UNCHANGED lock
  BY <1>1, <1>2, AdvancedTypes DEF Busy, Pc
<1>3. CASE /\ pc[w] = "ask" /\ UNCHANGED lock
           /\ \E v \in {"keep", "drop"} : Advanced(w, "lock", v, inserted[w])
  <2>1. PICK v \in {"keep", "drop"} : Advanced(w, "lock", v, inserted[w])
    BY <1>3
  <2>2. QED
    BY <1>1, <1>3, <2>1, AdvancedTypes DEF Busy, Pc, Verdict
<1>4. CASE /\ pc[w] = "lock" /\ Advanced(w, "check", verdict[w], inserted[w])
           /\ lock[Stage(w)][Article(w)] = Nobody
           /\ lock' = [lock EXCEPT ![Stage(w)][Article(w)] = w]
  BY <1>1, <1>4, AdvancedTypes DEF Busy, Pc
<1>5. CASE pc[w] = "check" /\ Advanced(w, "insert", verdict[w], inserted[w]) /\ UNCHANGED lock
  BY <1>1, <1>5, AdvancedTypes DEF Busy, Pc
<1>6. CASE pc[w] = "insert" /\ Advanced(w, "commit", verdict[w], verdict[w]) /\ UNCHANGED lock
  BY <1>1, <1>6, AdvancedTypes DEF Busy, Pc
<1>7. QED
  BY <1>2, <1>3, <1>4, <1>5, <1>6 DEF Forward

(* The store after a commit.                                               *)
LEMMA StoredRows ==
  ASSUME TypeOK, NEW w \in Workers, Stores(w)
  PROVE  /\ Busy(w)
         /\ kept' \in [Stages -> SUBSET Articles]
         /\ dropped' \in [Stages -> SUBSET Articles]
         /\ events' \in [Stages -> [Articles -> Nat]]
         /\ \A s \in Stages, a \in Articles :
              IF s = Stage(w) /\ a = Article(w)
              THEN \/ /\ inserted[w] = "keep" /\ a \in kept'[s]
                      /\ (a \in dropped'[s] <=> a \in dropped[s])
                      /\ s # "embedding" => events'[s][a] = events[s][a] + 1
                   \/ /\ inserted[w] = "drop" /\ a \in dropped'[s]
                      /\ (a \in kept'[s] <=> a \in kept[s])
                      /\ events'[s][a] = events[s][a]
              ELSE /\ (a \in kept'[s] <=> a \in kept[s])
                   /\ (a \in dropped'[s] <=> a \in dropped[s])
                   /\ events'[s][a] = events[s][a]
<1>1. Busy(w) /\ Stage(w) \in Stages /\ Article(w) \in Articles
  BY BusyMessage DEF Stores, Busy
<1> DEFINE s == Stage(w)
           a == Article(w)
<1>2. CASE /\ inserted[w] = "keep"
           /\ kept' = [kept EXCEPT ![s] = @ \cup {a}]
           /\ events' = [events EXCEPT ![s][a] = IF s = "embedding" THEN @ ELSE @ + 1]
           /\ UNCHANGED dropped
  BY <1>1, <1>2 DEF TypeOK
<1>3. CASE /\ inserted[w] = "drop"
           /\ dropped' = [dropped EXCEPT ![s] = @ \cup {a}]
           /\ UNCHANGED <<kept, events>>
  BY <1>1, <1>3 DEF TypeOK
<1>4. QED
  BY <1>1, <1>2, <1>3 DEF Stores

LEMMA TypeStep == TypeOK /\ [Next]_vars => TypeOK'
<1> SUFFICES ASSUME TypeOK, [Next]_vars
             PROVE  TypeOK'
  OBVIOUS
<1>1. CASE UNCHANGED vars
  BY <1>1 DEF TypeOK, vars, storeVars, queueVars
<1>2. ASSUME NEW w \in Workers, WorkerStep(w)
      PROVE  TypeOK'
  <2>1. CASE Stores(w)
    BY <2>1, StoredRows, EndedTypes DEF Stores
  <2>2. CASE Quits(w)
    <3>1. /\ kept' \in [Stages -> SUBSET Articles]
          /\ dropped' \in [Stages -> SUBSET Articles]
          /\ events' \in [Stages -> [Articles -> Nat]]
      BY <2>2 DEF Quits, storeVars, TypeOK
    <3>2. QED
      BY <2>2, <3>1, EndedTypes DEF Quits, EndedUndecided
  <2>3. QED
    BY <1>2, <2>1, <2>2, WorkerEffect, ReceiveTypes, ForwardTypes
<1>3. QED
  BY <1>1, <1>2 DEF Next

(* Tables, locks and invocations keep their shapes; a lock is held exactly *)
(* by the worker between obtaining and ending its transaction.             *)
THEOREM TypeCorrect == Spec => []TypeOK
<1>1. Init => TypeOK
  BY AnalysisAssumption DEF Init, TypeOK, Pc, Verdict, Nobody
<1>2. QED
  BY <1>1, TypeStep, PTL DEF Spec

-----------------------------------------------------------------------------
(* Safety                                                                  *)

(* An event, once written, stays, and so does what was published by it.    *)
LEMMA PublishedStays ==
  ASSUME TypeOK, NEW m \in Messages, Published(m),
         \A s \in Stages, a \in Articles : events'[s][a] >= events[s][a],
         events' \in [Stages -> [Articles -> Nat]]
  PROVE  Published(m)'
<1>1. Previous(m.stage) \in Stages /\ m.article \in Articles
  BY DEF Previous, Stages, Messages
<1>2. CASE m.stage = "curation"
  BY <1>2 DEF Published
<1>3. CASE events[Previous(m.stage)][m.article] > 0
  <2> DEFINE p == Previous(m.stage)
             a == m.article
  <2>1. events[p][a] \in Nat /\ events'[p][a] \in Nat /\ events'[p][a] >= events[p][a]
    BY <1>1 DEF TypeOK
  <2>2. events'[p][a] > 0
    BY <1>3, <2>1
  <2>3. QED
    BY <2>2 DEF Published
<1>4. QED
  BY <1>2, <1>3 DEF Published

(* A step that leaves the store and another worker alone leaves what that  *)
(* worker has found out.                                                   *)
Undisturbed(v) ==
  /\ pc'[v] = pc[v] /\ message'[v] = message[v]
  /\ verdict'[v] = verdict[v] /\ inserted'[v] = inserted[v]

LEMMA OthersKept ==
  ASSUME TypeOK, WorkersInv, NEW v \in Workers, Undisturbed(v), UNCHANGED storeVars
  PROVE  Uncommitted(v)' /\ (Busy(v)' => Published(message[v])' /\ message'[v] = message[v])
  BY DEF WorkersInv, Uncommitted, Undisturbed, storeVars, Busy, Published, Article, Stage, Rows

(* One committing worker at a time: a commit does not touch the rows that  *)
(* another worker has found missing.                                       *)
LEMMA OthersUntouched ==
  ASSUME TypeOK, WorkersInv, NEW w \in Workers, Stores(w),
         NEW v \in Workers, v # w
  PROVE  Uncommitted(v)'
<1>1. Undisturbed(v)
  BY StoredRows, EndedWorkers DEF Stores, Undisturbed
<1>2. CASE pc[v] \notin {"insert", "commit"}
  BY <1>1, <1>2 DEF Uncommitted, Undisturbed
<1>3. CASE pc[v] \in {"insert", "commit"}
  <2>1. Stage(v) \in Stages /\ Article(v) \in Articles
    BY <1>3, BusyMessage DEF Busy
  <2>2. Stage(v) # Stage(w) \/ Article(v) # Article(w)
    <3>1. lock[Stage(v)][Article(v)] = v
      BY <1>3, <2>1 DEF TypeOK, Stage, Article
    <3>2. Stage(w) \in Stages /\ Article(w) \in Articles
      BY StoredRows, BusyMessage
    <3>3. lock[Stage(w)][Article(w)] = w
      BY <3>2 DEF TypeOK, Stage, Article, Stores
    <3>4. QED
      BY <3>1, <3>3
  <2>3. /\ Article(v) \in kept'[Stage(v)] <=> Article(v) \in kept[Stage(v)]
        /\ Article(v) \in dropped'[Stage(v)] <=> Article(v) \in dropped[Stage(v)]
    BY <2>1, <2>2, StoredRows
  <2>4. Stage(v)' = Stage(v) /\ Article(v)' = Article(v)
    BY <1>1 DEF Undisturbed, Stage, Article
  <2>5. Uncommitted(v)
    BY DEF WorkersInv
  <2>6. \A r \in {"keep", "drop"} : Article(v) \in Rows(Stage(v), r)' <=>
                                    Article(v) \in Rows(Stage(v), r)
    BY <2>3, <2>4 DEF Rows
  <2>7. verdict[v] \in {"keep", "drop"} /\ Opposite(verdict[v]) \in {"keep", "drop"}
    BY <1>3 DEF TypeOK, Verdict, Opposite
  <2>8. QED
    BY <1>1, <2>4, <2>5, <2>6, <2>7 DEF Uncommitted, Undisturbed
<1>4. QED
  BY <1>2, <1>3

(* At its commit a worker knows the row to be the first of its article.    *)
LEMMA FirstResult ==
  ASSUME TypeOK, WorkersInv, NEW w \in Workers, Stores(w)
  PROVE  Article(w) \notin kept[Stage(w)] /\ Article(w) \notin dropped[Stage(w)]
<1>1. /\ inserted[w] = verdict[w] /\ inserted[w] \in {"keep", "drop"}
      /\ Article(w) \notin Rows(Stage(w), verdict[w])
      /\ Article(w) \notin Rows(Stage(w), Opposite(verdict[w]))
  BY DEF WorkersInv, Uncommitted, Stores
<1>2. QED
  BY <1>1 DEF Rows, Opposite

LEMMA WorkersStep ==
  ASSUME TypeOK, WorkersInv, NEW w \in Workers, WorkerStep(w)
  PROVE  WorkersInv'
<1>1. CASE \E m \in Messages : Receive(w, m)
  <2>1. PICK m \in Messages : Receive(w, m)
    BY <1>1
  <2>2. /\ UNCHANGED storeVars /\ Published(m)
        /\ pc'[w] = "load" /\ message'[w] = m
        /\ \A v \in Workers \ {w} : Undisturbed(v)
    BY <2>1 DEF Receive, TypeOK, Undisturbed
  <2>3. Published(m)'
    BY <2>2 DEF Published, storeVars
  <2>4. Uncommitted(w)' /\ Published(message[w])'
    BY <2>2, <2>3 DEF Uncommitted, Published
  <2>5. QED
    BY <2>2, <2>4, OthersKept DEF WorkersInv
<1>2. CASE Forward(w)
  <2>1. /\ UNCHANGED storeVars /\ message' = message /\ Busy(w)
        /\ \A v \in Workers \ {w} : Undisturbed(v)
    BY <1>2 DEF Forward, Advanced, TypeOK, Undisturbed, Busy
  <2>2. Published(message[w])'
    BY <2>1 DEF WorkersInv, Published, storeVars
  <2>3. Uncommitted(w)'
    <3>1. CASE pc'[w] \notin {"insert", "commit"}
      BY <3>1 DEF Uncommitted
    <3>2. CASE pc'[w] = "insert"
      <4>1. /\ verdict'[w] = verdict[w]
            /\ Article(w) \notin Rows(Stage(w), Opposite(verdict[w]))
        BY <1>2, <3>2 DEF Forward, Advanced, TypeOK
      <4>2. QED
        BY <2>1, <3>2, <4>1 DEF Uncommitted, Article, Stage, Rows, storeVars
    <3>3. CASE pc'[w] = "commit"
      <4>1. /\ verdict'[w] = verdict[w] /\ inserted'[w] = verdict[w] /\ pc[w] = "insert"
            /\ Article(w) \notin Rows(Stage(w), verdict[w])
        BY <1>2, <3>3 DEF Forward, Advanced, TypeOK
      <4>2. Article(w) \notin Rows(Stage(w), Opposite(verdict[w]))
        BY <4>1 DEF WorkersInv, Uncommitted
      <4>3. QED
        BY <2>1, <3>3, <4>1, <4>2 DEF Uncommitted, Article, Stage, Rows, storeVars
    <3>4. QED
      BY <3>1, <3>2, <3>3
  <2>4. QED
    BY <2>1, <2>2, <2>3, OthersKept DEF WorkersInv
<1>3. CASE Stores(w)
  <2>1. pc'[w] = "idle" /\ \A v \in Workers \ {w} : Undisturbed(v)
    BY <1>3, StoredRows, EndedWorkers DEF Stores, Undisturbed
  <2>2. \A s \in Stages, a \in Articles : events'[s][a] >= events[s][a]
    <3> SUFFICES ASSUME NEW s \in Stages, NEW a \in Articles
                 PROVE  events'[s][a] >= events[s][a]
      OBVIOUS
    <3>1. events[s][a] \in Nat
      BY DEF TypeOK
    <3>2. CASE s = Stage(w) /\ s = "embedding" /\ inserted[w] = "keep"
      BY <1>3, <3>1, <3>2 DEF Stores, TypeOK
    <3>3. CASE ~(s = Stage(w) /\ s = "embedding" /\ inserted[w] = "keep")
      BY <1>3, <3>1, <3>3, StoredRows
    <3>4. QED
      BY <3>2, <3>3
  <2>3. ASSUME NEW v \in Workers, v # w
        PROVE  Uncommitted(v)' /\ (Busy(v)' => Published(message[v])')
    <3>1. Uncommitted(v)'
      BY <1>3, <2>3, OthersUntouched
    <3>2. ASSUME Busy(v)
          PROVE  Published(message[v])'
      <4>1. message[v] \in Messages /\ Published(message[v])
        BY <3>2, BusyMessage DEF WorkersInv
      <4>2. \A m \in Messages : Published(m) => Published(m)'
        BY <1>3, <2>2, StoredRows, PublishedStays
      <4>3. message'[v] = message[v]
        BY <2>1, <2>3 DEF Undisturbed
      <4>4. QED
        BY <4>1, <4>2, <4>3 DEF Published
    <3>3. QED
      BY <2>1, <2>3, <3>1, <3>2 DEF Busy, Undisturbed
  <2>4. QED
    BY <2>1, <2>3 DEF WorkersInv, Uncommitted, Busy
<1>4. CASE Quits(w)
  <2>1. pc'[w] = "idle" /\ \A v \in Workers \ {w} : Undisturbed(v)
    BY <1>4, EndedWorkers DEF Quits, EndedUndecided, Undisturbed
  <2>2. QED
    BY <1>4, <2>1, OthersKept DEF Quits, WorkersInv, Uncommitted, Busy
<1>5. QED
  BY <1>1, <1>2, <1>3, <1>4, WorkerEffect

LEMMA OneVerdictStep ==
  ASSUME TypeOK, WorkersInv, OneVerdict, NEW w \in Workers, WorkerStep(w)
  PROVE  OneVerdict'
<1>1. CASE Stores(w)
  <2>1. ASSUME NEW s \in Stages, NEW a \in Articles
        PROVE  ~(a \in kept'[s] /\ a \in dropped'[s])
    <3>1. ~(a \in kept[s] /\ a \in dropped[s])
      BY DEF OneVerdict
    <3>2. CASE s = Stage(w) /\ a = Article(w)
      BY <1>1, <3>2, StoredRows, FirstResult
    <3>3. CASE ~(s = Stage(w) /\ a = Article(w))
      BY <1>1, <3>1, <3>3, StoredRows
    <3>4. QED
      BY <3>2, <3>3
  <2>2. \A s \in Stages : kept'[s] \subseteq Articles
    BY <1>1, StoredRows
  <2>3. QED
    BY <2>1, <2>2 DEF OneVerdict
<1>2. CASE UNCHANGED storeVars
  BY <1>2 DEF OneVerdict, storeVars
<1>3. QED
  BY <1>1, <1>2, WorkerEffect DEF Receive, Forward, Advanced, Quits

LEMMA AnnouncedStep ==
  ASSUME TypeOK, WorkersInv, KeptIsAnnouncedOnce, NEW w \in Workers, WorkerStep(w)
  PROVE  KeptIsAnnouncedOnce'
<1>1. CASE Stores(w)
  <2> SUFFICES ASSUME NEW s \in Stages \ {"embedding"}, NEW a \in Articles
               PROVE  events'[s][a] = IF a \in kept'[s] THEN 1 ELSE 0
    BY DEF KeptIsAnnouncedOnce
  <2>1. events[s][a] = IF a \in kept[s] THEN 1 ELSE 0
    BY DEF KeptIsAnnouncedOnce
  <2>2. CASE s = Stage(w) /\ a = Article(w)
    BY <1>1, <2>1, <2>2, StoredRows, FirstResult
  <2>3. CASE ~(s = Stage(w) /\ a = Article(w))
    BY <1>1, <2>1, <2>3, StoredRows
  <2>4. QED
    BY <2>2, <2>3
<1>2. CASE UNCHANGED storeVars
  BY <1>2 DEF KeptIsAnnouncedOnce, storeVars
<1>3. QED
  BY <1>1, <1>2, WorkerEffect DEF Receive, Forward, Advanced, Quits

LEMMA AckedStep ==
  ASSUME TypeOK, WorkersInv, AckedIsDecided, NEW w \in Workers, WorkerStep(w)
  PROVE  AckedIsDecided'
<1>1. \A m \in deleted \ rejected : /\ m.stage \in Stages /\ m.article \in Articles
                                    /\ Decided(m.stage, m.article)
  BY DEF AckedIsDecided, TypeOK, Messages
<1>2. CASE Stores(w)
  <2>1. Stage(w) \in Stages /\ Article(w) \in Articles
    BY <1>2, StoredRows, BusyMessage
  <2>2. Article(w) \in kept'[Stage(w)] \/ Article(w) \in dropped'[Stage(w)]
    BY <1>2, <2>1, StoredRows
  <2>3. \A s \in Stages, a \in Articles :
          Decided(s, a) => a \in kept'[s] \/ a \in dropped'[s]
    BY <1>2, <2>1, StoredRows DEF Decided
  <2>4. \A m \in deleted' \ rejected' : m \in deleted \ rejected \/ m = message[w]
    BY <1>2 DEF Stores, Ended
  <2>5. QED
    BY <1>1, <2>2, <2>3, <2>4 DEF AckedIsDecided, Decided, Stage, Article
<1>3. CASE Quits(w)
  <2>1. \A m \in deleted' \ rejected' :
          m \in deleted \ rejected \/ (m = message[w] /\ Decided(Stage(w), Article(w)))
    BY <1>3 DEF Quits, Ended, EndedUndecided
  <2>2. QED
    BY <1>1, <1>3, <2>1 DEF AckedIsDecided, Quits, storeVars, Decided, Stage, Article
<1>4. CASE UNCHANGED <<kept, dropped, deleted, rejected>>
  BY <1>4 DEF AckedIsDecided, Decided
<1>5. QED
  BY <1>2, <1>3, <1>4, WorkerEffect
  DEF Receive, Forward, Advanced, storeVars, queueVars

(* A worker on a stage has a published message, so the stage before it has *)
(* kept the article.                                                       *)
LEMMA ParentKept ==
  ASSUME TypeOK, WorkersInv, KeptIsAnnouncedOnce, NEW w \in Workers, Stores(w)
  PROVE  /\ Stage(w) = "assessment" => Article(w) \in kept["curation"]
         /\ Stage(w) = "embedding" => Article(w) \in kept["assessment"]
<1>1. Published(message[w]) /\ Article(w) \in Articles
  BY StoredRows, BusyMessage DEF WorkersInv
<1>2. /\ Stage(w) = "assessment" => events["curation"][Article(w)] > 0
      /\ Stage(w) = "embedding" => events["assessment"][Article(w)] > 0
  BY <1>1 DEF Published, Previous, Stage, Article
<1>3. QED
  BY <1>1, <1>2 DEF KeptIsAnnouncedOnce, Stages

LEMMA DescentStep ==
  ASSUME TypeOK, WorkersInv, KeptIsAnnouncedOnce, Descent,
         NEW w \in Workers, WorkerStep(w)
  PROVE  Descent'
<1>1. CASE Stores(w)
  <2>1. ASSUME NEW a \in Articles
        PROVE  /\ a \in kept'["assessment"] \/ a \in dropped'["assessment"]
                    => a \in kept'["curation"]
               /\ a \in kept'["embedding"] => a \in kept'["assessment"]
    <3>1. \A s \in Stages : a \in kept[s] => a \in kept'[s]
      BY <1>1, StoredRows
    <3>2. \A s \in Stages : /\ a \in kept'[s] => a \in kept[s] \/ (s = Stage(w) /\ a = Article(w))
                            /\ a \in dropped'[s] => a \in dropped[s] \/ (s = Stage(w) /\ a = Article(w))
      BY <1>1, StoredRows
    <3>3. QED
      BY <1>1, <3>1, <3>2, ParentKept DEF Descent, Stages
  <2>2. \A s \in Stages : kept'[s] \subseteq Articles /\ dropped'[s] \subseteq Articles
    BY <1>1, StoredRows
  <2>3. QED
    BY <2>1, <2>2 DEF Descent, Stages
<1>2. CASE UNCHANGED storeVars
  BY <1>2 DEF Descent, storeVars
<1>3. QED
  BY <1>1, <1>2, WorkerEffect DEF Receive, Forward, Advanced, Quits

LEMMA AnalysisStep == TypeOK /\ AnalysisInv /\ [Next]_vars => AnalysisInv'
<1> SUFFICES ASSUME TypeOK, AnalysisInv, [Next]_vars
             PROVE  AnalysisInv'
  OBVIOUS
<1>1. ASSUME NEW w \in Workers, WorkerStep(w)
      PROVE  AnalysisInv'
  BY <1>1, WorkersStep, OneVerdictStep, AnnouncedStep, AckedStep, DescentStep
  DEF AnalysisInv
<1>2. CASE UNCHANGED vars
  BY <1>2 DEF AnalysisInv, WorkersInv, Uncommitted, Busy, Published, Stage, Article, Rows,
              OneVerdict, KeptIsAnnouncedOnce, AckedIsDecided, Decided, Descent,
              vars, storeVars, queueVars
<1>3. QED
  BY <1>1, <1>2 DEF Next

LEMMA AnalysisInvHolds == Spec => []AnalysisInv
<1>1. Init => AnalysisInv
  BY DEF Init, AnalysisInv, WorkersInv, Uncommitted, Busy, OneVerdict,
         KeptIsAnnouncedOnce, AckedIsDecided, Descent, Stages
<1>2. QED
  BY <1>1, AnalysisStep, TypeCorrect, PTL DEF Spec

(* An article has one result per stage, however many copies of its message *)
(* are worked on at once and whatever the model answers each of them.      *)
THEOREM OneVerdictHolds == Spec => []OneVerdict
  BY AnalysisInvHolds, PTL DEF AnalysisInv

(* The next stage is told of a kept result exactly once.                   *)
THEOREM KeptAnnouncedOnceHolds == Spec => []KeptIsAnnouncedOnce
  BY AnalysisInvHolds, PTL DEF AnalysisInv

(* A message leaves the queue with a result, or a failure that is final.   *)
THEOREM AckedDecidedHolds == Spec => []AckedIsDecided
  BY AnalysisInvHolds, PTL DEF AnalysisInv

-----------------------------------------------------------------------------
(* Refinement: the three stages implement the funnel.                      *)

(* The six places, told apart by results that exclude each other.          *)
OnePlace(a) ==
  /\ ~(a \in kept["curation"] /\ a \in dropped["curation"])
  /\ ~(a \in kept["assessment"] /\ a \in dropped["assessment"])
  /\ Decided("assessment", a) => a \in kept["curation"]
  /\ a \in kept["embedding"] => a \in kept["assessment"]

PlaceFacts(a) ==
  OnePlace(a) =>
    /\ ~Decided("curation", a) => Place[a] = "new"
    /\ a \in dropped["curation"] => Place[a] = "noise"
    /\ a \in kept["curation"] /\ ~Decided("assessment", a) => Place[a] = "signal"
    /\ a \in dropped["assessment"] => Place[a] = "out"
    /\ a \in kept["assessment"] /\ a \notin kept["embedding"] => Place[a] = "in"
    /\ a \in kept["embedding"] => Place[a] = "embedded"

LEMMA PlaceIs == \A a \in Articles : PlaceFacts(a)
<1> SUFFICES ASSUME NEW a \in Articles, OnePlace(a)
             PROVE  PlaceFacts(a)
  BY DEF PlaceFacts
<1> USE DEF OnePlace, PlaceFacts, Place, Decided
<1>1. CASE ~Decided("curation", a)
  BY <1>1
<1>2. CASE a \in dropped["curation"]
  BY <1>2
<1>3. CASE a \in kept["curation"] /\ ~Decided("assessment", a)
  BY <1>3
<1>4. CASE a \in dropped["assessment"]
  BY <1>4
<1>5. CASE a \in kept["assessment"] /\ a \notin kept["embedding"]
  BY <1>5
<1>6. CASE a \in kept["embedding"]
  BY <1>6
<1>7. QED
  BY <1>1, <1>2, <1>3, <1>4, <1>5, <1>6

LEMMA PlaceIsFunction == Place = [b \in Articles |-> Place[b]]
<1> DEFINE at(a) ==
     CASE ~Decided("curation", a)                              -> "new"
       [] a \in dropped["curation"]                            -> "noise"
       [] a \in kept["curation"] /\ ~Decided("assessment", a)  -> "signal"
       [] a \in dropped["assessment"]                          -> "out"
       [] a \in kept["assessment"] /\ a \notin kept["embedding"] -> "in"
       [] a \in kept["embedding"]                              -> "embedded"
<1>1. Place = [a \in Articles |-> at(a)]
  BY DEF Place
<1> HIDE DEF at
<1>2. QED
  BY <1>1

LEMMA PlaceWillBeFunction == Place' = [b \in Articles |-> Place'[b]]
<1>1. (Place = [b \in Articles |-> Place[b]])'
  BY PlaceIsFunction, PTL
<1>2. QED
  BY <1>1

LEMMA PlaceWillBe == (\A a \in Articles : PlaceFacts(a))'
  BY PlaceIs, PTL

LEMMA SamePlace ==
  ASSUME NEW a \in Articles,
         \A s \in Stages : /\ a \in kept'[s] <=> a \in kept[s]
                           /\ a \in dropped'[s] <=> a \in dropped[s]
  PROVE  Place'[a] = Place[a]
  BY DEF Place, Stages, Decided

(* A commit moves its article one place down; the others stay.             *)
LEMMA StoresMoves ==
  ASSUME TypeOK, WorkersInv, OneVerdict, KeptIsAnnouncedOnce, Descent,
         NEW w \in Workers, Stores(w)
  PROVE  [Funnel!Next]_Place
<1>1. PICK a \in Articles, s \in Stages : a = Article(w) /\ s = Stage(w)
  BY StoredRows, BusyMessage
<1>2. \A b \in Articles \ {a} : Place'[b] = Place[b]
  BY <1>1, StoredRows, SamePlace
<1>3. /\ a \notin kept[s] /\ a \notin dropped[s]
      /\ \A r \in Stages \ {s} : /\ a \in kept'[r] <=> a \in kept[r]
                                 /\ a \in dropped'[r] <=> a \in dropped[r]
      /\ \/ a \in kept'[s] /\ a \notin dropped'[s]
         \/ a \notin kept'[s] /\ a \in dropped'[s]
  BY <1>1, FirstResult, StoredRows
<1>4. /\ s = "assessment" => a \in kept["curation"]
      /\ s = "embedding" => a \in kept["assessment"] /\ a \in kept["curation"]
  BY <1>1, ParentKept DEF Descent
<1>5. OnePlace(a) /\ OnePlace(a)'
  <2>1. OnePlace(a)
    BY <1>1 DEF OnePlace, OneVerdict, Descent, Decided, Stages
  <2>2. CASE s = "curation"
    BY <1>3, <2>1, <2>2 DEF OnePlace, Decided, Stages
  <2>3. CASE s = "assessment"
    BY <1>3, <1>4, <2>1, <2>3 DEF OnePlace, Decided, Stages
  <2>4. CASE s = "embedding"
    BY <1>3, <1>4, <2>1, <2>4 DEF OnePlace, Decided, Stages
  <2>5. QED
    BY <1>1, <2>1, <2>2, <2>3, <2>4 DEF Stages
<1>6. PlaceFacts(a) /\ PlaceFacts(a)'
  BY <1>1, PlaceIs, PlaceWillBe
<1>7. <<Place[a], Place'[a]>> \in Funnel!Moves \/ Place'[a] = Place[a]
  <2>1. CASE s = "curation"
    <3>1. Place[a] = "new"
      BY <1>3, <1>5, <1>6, <2>1 DEF PlaceFacts, Decided
    <3>2. Place'[a] \in {"signal", "noise"}
      BY <1>3, <1>5, <1>6, <2>1 DEF PlaceFacts, Decided, OnePlace, Stages
    <3>3. QED
      BY <3>1, <3>2 DEF Funnel!Moves
  <2>2. CASE s = "assessment"
    <3>1. Place[a] = "signal"
      BY <1>3, <1>4, <1>5, <1>6, <2>2 DEF PlaceFacts, Decided
    <3>2. Place'[a] \in {"in", "out"}
      BY <1>3, <1>5, <1>6, <2>2 DEF PlaceFacts, Decided, OnePlace, Stages
    <3>3. QED
      BY <3>1, <3>2 DEF Funnel!Moves
  <2>3. CASE s = "embedding"
    <3>1. Place[a] = "in"
      BY <1>3, <1>4, <1>5, <1>6, <2>3 DEF PlaceFacts
    <3>2. Place'[a] \in {"in", "embedded"}
      BY <1>3, <1>4, <1>5, <1>6, <2>3 DEF PlaceFacts, Stages
    <3>3. QED
      BY <3>1, <3>2 DEF Funnel!Moves
  <2>4. QED
    BY <1>1, <2>1, <2>2, <2>3 DEF Stages
<1>8. /\ Place = [b \in Articles |-> Place[b]]
      /\ Place' = [b \in Articles |-> Place'[b]]
  BY PlaceIsFunction, PlaceWillBeFunction
<1>9. Place' = [Place EXCEPT ![a] = Place'[a]]
  BY <1>1, <1>2, <1>8
<1>10. CASE Place'[a] = Place[a]
  <2>1. \A b \in Articles : Place'[b] = Place[b]
    BY <1>2, <1>10
  <2>2. QED
    BY <1>8, <2>1
<1>11. CASE <<Place[a], Place'[a]>> \in Funnel!Moves
  <2>1. Funnel!Move(a, <<Place[a], Place'[a]>>[2])
    BY <1>9, <1>11 DEF Funnel!Move
  <2>2. QED
    BY <1>1, <1>11, <2>1 DEF Funnel!Next
<1>12. QED
  BY <1>7, <1>10, <1>11

LEMMA FunnelStep ==
  ASSUME TypeOK, AnalysisInv, [Next]_vars
  PROVE  [Funnel!Next]_Place
<1>1. CASE UNCHANGED storeVars
  BY <1>1 DEF Place, storeVars, Decided
<1>2. ASSUME NEW w \in Workers, Stores(w)
      PROVE  [Funnel!Next]_Place
  BY <1>2, StoresMoves DEF AnalysisInv
<1>3. QED
  BY <1>1, <1>2, WorkerEffect
  DEF Next, vars, Receive, Forward, Advanced, Quits

(* With duplicated messages, lost answers and crashes, an article moves    *)
(* down one path of the funnel and never back or across.                   *)
THEOREM AnalysisImplementsFunnel == Spec => ImplementsFunnel
<1>1. Init => Funnel!Init
  <2> SUFFICES ASSUME Init
               PROVE  Funnel!Init
    OBVIOUS
  <2>1. \A a \in Articles : OnePlace(a) /\ ~Decided("curation", a)
    BY DEF Init, OnePlace, Decided, Stages
  <2>2. \A a \in Articles : Place[a] = "new"
    BY <2>1, PlaceIs DEF PlaceFacts
  <2>3. QED
    BY <2>2 DEF Place, Funnel!Init
<1>2. TypeOK /\ AnalysisInv /\ [Next]_vars => [Funnel!Next]_Place
  BY FunnelStep
<1>3. QED
  BY <1>1, <1>2, TypeCorrect, AnalysisInvHolds, PTL DEF Spec, ImplementsFunnel, Funnel!Spec
-----------------------------------------------------------------------------
(* Progress: what EveryArticleEnds needs besides fairness.                 *)

(* The copies of the message that carries article a into stage s.          *)
Carriers(s, a) == {m \in Messages : m.stage = s /\ m.article = a}

Waiting(s, a) == (s = "curation" \/ a \in kept[Previous(s)]) /\ ~Decided(s, a)

Receivable(m) == Published(m) /\ m \notin deleted /\ receives[m] < MaxReceives

InProgress(m) == \E w \in Workers : message[w] = m

(* Where an article waits for a stage's result, no copy of its message is  *)
(* gone without a trace: it can be received, is worked on, was given up as *)
(* a final failure, or is in the dead-letter queue.                        *)
NothingIsForgotten ==
  \A s \in Stages, a \in Articles : Waiting(s, a) =>
    \A m \in Carriers(s, a) :
      Receivable(m) \/ InProgress(m) \/ m \in rejected \/ DeadLettered(m)

LEMMA KeptIsAnnounced ==
  ASSUME KeptIsAnnouncedOnce, NEW m \in Messages, Waiting(m.stage, m.article)
  PROVE  Published(m)
<1>1. m.stage \in Stages /\ m.article \in Articles
  BY DEF Messages
<1>2. CASE m.stage = "curation"
  BY <1>2 DEF Published
<1>3. CASE m.stage # "curation"
  <2>1. Previous(m.stage) \in Stages \ {"embedding"} /\ m.article \in kept[Previous(m.stage)]
    BY <1>3 DEF Previous, Stages, Waiting
  <2>2. events[Previous(m.stage)][m.article] = 1
    BY <1>1, <2>1 DEF KeptIsAnnouncedOnce
  <2>3. QED
    BY <2>2 DEF Published
<1>4. QED
  BY <1>2, <1>3

(* An article is lost to no stage: as long as it waits there, its message  *)
(* is in the queue, in work, or put aside where an operator finds it.      *)
THEOREM NoArticleIsForgotten == Spec => []NothingIsForgotten
<1>1. TypeOK /\ AnalysisInv => NothingIsForgotten
  <2> SUFFICES ASSUME TypeOK, AnalysisInv, NEW s \in Stages, NEW a \in Articles, Waiting(s, a),
                      NEW m \in Carriers(s, a), ~InProgress(m), m \notin rejected
               PROVE  Receivable(m) \/ DeadLettered(m)
    BY DEF NothingIsForgotten
  <2>1. m \in Messages /\ m.stage = s /\ m.article = a
    BY DEF Carriers
  <2>2. Published(m)
    BY <2>1, KeptIsAnnounced DEF AnalysisInv
  <2>3. m \notin deleted
    BY <2>1 DEF AnalysisInv, AckedIsDecided, Waiting
  <2>4. receives[m] < MaxReceives \/ receives[m] = MaxReceives
    <3>1. receives[m] \in 0..MaxReceives
      BY <2>1 DEF TypeOK
    <3>2. QED
      BY <3>1, AnalysisAssumption
  <2>5. QED
    BY <2>2, <2>3, <2>4 DEF Receivable, DeadLettered, InProgress
<1>2. QED
  BY <1>1, TypeCorrect, AnalysisInvHolds, PTL

Holds(w, s, a) == lock[s][a] = w

WaitsFor(w, v) == pc[w] = "lock" /\ Holds(v, Stage(w), Article(w))

(* A worker holds one parent row at most, and whoever holds one waits for  *)
(* nobody: the row locks of the three stages never form a cycle.           *)
NoLockCycle ==
  /\ \A w \in Workers : \A s, t \in Stages : \A a, b \in Articles :
       Holds(w, s, a) /\ Holds(w, t, b) => s = t /\ a = b
  /\ \A w, v, x \in Workers : WaitsFor(w, v) => ~WaitsFor(v, x)

(* Workers that save results of one article at the same time wait for each *)
(* other's parent lock, but never in a circle.                             *)
THEOREM WorkersDoNotDeadlock == Spec => []NoLockCycle
<1>1. TypeOK => NoLockCycle
  <2> SUFFICES ASSUME TypeOK
               PROVE  NoLockCycle
    OBVIOUS
  <2>1. ASSUME NEW w \in Workers, NEW s \in Stages, NEW a \in Articles, Holds(w, s, a)
        PROVE  pc[w] # "lock" /\ message[w].stage = s /\ message[w].article = a
    BY <2>1 DEF Holds, TypeOK
  <2>2. ASSUME NEW w \in Workers, NEW s \in Stages, NEW t \in Stages,
               NEW a \in Articles, NEW b \in Articles, Holds(w, s, a), Holds(w, t, b)
        PROVE  s = t /\ a = b
    BY <2>1, <2>2
  <2>3. ASSUME NEW w \in Workers, NEW v \in Workers, NEW x \in Workers,
               WaitsFor(w, v), WaitsFor(v, x)
        PROVE  FALSE
    <3>1. Stage(w) \in Stages /\ Article(w) \in Articles
      BY <2>3, BusyMessage DEF WaitsFor, Busy
    <3>2. pc[v] # "lock"
      BY <2>1, <2>3, <3>1 DEF WaitsFor
    <3>3. QED
      BY <2>3, <3>2 DEF WaitsFor
  <2>4. QED
    BY <2>2, <2>3 DEF NoLockCycle
<1>2. QED
  BY <1>1, TypeCorrect, PTL

(* The steps of an invocation, in their order.                             *)
Onward == {<<"load", "ask">>, <<"ask", "lock">>, <<"lock", "check">>,
           <<"check", "insert">>, <<"insert", "commit">>}

(* What a step may do to a worker: take one more of the deliveries of a    *)
(* message that is still queued, go on with its message, or end.           *)
Moves(w) ==
  \/ pc'[w] = pc[w] /\ message'[w] = message[w]
  \/ pc[w] = "idle" /\ \E m \in Messages : /\ Receivable(m)
                                           /\ message'[w] = m
                                           /\ receives'[m] = receives[m] + 1
  \/ <<pc[w], pc'[w]>> \in Onward /\ message'[w] = message[w]
  \/ pc'[w] = "idle"

InvocationsRunOut ==
  [][/\ \A m \in Messages : receives'[m] >= receives[m]
     /\ deleted \subseteq deleted'
     /\ \A w \in Workers : Moves(w)]_vars

LEMMA MovesStep ==
  ASSUME TypeOK, NEW w \in Workers, WorkerStep(w)
  PROVE  /\ \A m \in Messages : receives'[m] >= receives[m]
         /\ deleted \subseteq deleted'
         /\ \A v \in Workers : Moves(v)
<1>1. \A m \in Messages : receives[m] \in Nat
  BY AnalysisAssumption DEF TypeOK
<1>2. CASE \E m \in Messages : Receive(w, m)
  <2>1. PICK m \in Messages : Receive(w, m)
    BY <1>2
  <2>2. Receivable(m) /\ pc[w] = "idle" /\ deleted' = deleted
    BY <2>1 DEF Receive, Receivable
  <2>3. receives' = [receives EXCEPT ![m] = @ + 1]
    BY <2>1 DEF Receive
  <2>4. \A n \in Messages : receives'[n] >= receives[n]
    BY <1>1, <2>3 DEF TypeOK
  <2>5. message'[w] = m /\ receives'[m] = receives[m] + 1
    BY <2>1, <2>3 DEF Receive, TypeOK
  <2>6. \A v \in Workers : v # w => pc'[v] = pc[v] /\ message'[v] = message[v]
    BY <2>1 DEF Receive, TypeOK
  <2>7. QED
    BY <2>2, <2>4, <2>5, <2>6 DEF Moves
<1>3. CASE Forward(w)
  <2>1. PICK next \in Pc : /\ <<pc[w], next>> \in Onward
                           /\ pc' = [pc EXCEPT ![w] = next]
                           /\ UNCHANGED <<message, queueVars>>
    BY <1>3 DEF Forward, Advanced, Onward, Pc
  <2>2. pc' = [pc EXCEPT ![w] = next] /\ UNCHANGED <<message, receives, deleted>>
    BY <2>1 DEF queueVars
  <2>3. pc'[w] = next /\ \A v \in Workers : v # w => pc'[v] = pc[v]
    BY <2>2 DEF TypeOK
  <2>4. QED
    BY <1>1, <2>1, <2>2, <2>3 DEF Moves
<1>4. CASE Stores(w) \/ Quits(w)
  <2>1. Ended(w)
    BY <1>4 DEF Stores, Quits, EndedUndecided
  <2>2. /\ pc' = [pc EXCEPT ![w] = "idle"]
        /\ message' = [message EXCEPT ![w] = NoMessage]
        /\ UNCHANGED receives
        /\ deleted \subseteq deleted'
    BY <2>1 DEF Ended, Ends
  <2>3. pc'[w] = "idle" /\ \A v \in Workers : v # w => pc'[v] = pc[v] /\ message'[v] = message[v]
    BY <2>2 DEF TypeOK
  <2>4. QED
    BY <1>1, <2>2, <2>3 DEF Moves
<1>5. QED
  BY <1>2, <1>3, <1>4, WorkerEffect

(* The analysis of an article cannot go round for ever: an invocation only *)
(* moves forward, each takes a delivery of its message, and a message has  *)
(* MaxReceives of them.                                                    *)
THEOREM InvocationsAreBounded == Spec => InvocationsRunOut
<1>1. TypeOK /\ [Next]_vars => [/\ \A m \in Messages : receives'[m] >= receives[m]
                                /\ deleted \subseteq deleted'
                                /\ \A w \in Workers : Moves(w)]_vars
  BY MovesStep DEF Next
<1>2. QED
  BY <1>1, TypeCorrect, PTL DEF Spec, InvocationsRunOut
=============================================================================
