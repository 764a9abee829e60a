------------------------ MODULE ArticleIntakeProofs ------------------------
(* Proofs about ArticleIntake, for every set of urls, ids, acquisitions,   *)
(* workers and copies, and every batch size and receive limit.             *)
EXTENDS ArticleIntake, TLAPS

Settled == {"closed", "removed"}

(* A row that the unique index of urls sees, or will see at a commit.      *)
Live(i) ==
  status[i] \in {"open", "closed"} \/ \E a \in Acquirers : i \in newRows[a]

(* No two rows of a url, counting those of open transactions, which are of *)
(* one transaction each and still absent.                                  *)
RowsInv ==
  /\ \A i \in Ids : status[i] # "absent" => url[i] \in Urls
  /\ \A a \in Acquirers : \A i \in newRows[a] : status[i] = "absent" /\ url[i] \in Urls
  /\ \A a, b \in Acquirers : a # b => newRows[a] \cap newRows[b] = {}
  /\ \A i, j \in Ids : Live(i) /\ Live(j) /\ url[i] = url[j] => i = j
  /\ \A a \in Acquirers : apc[a] = "inserting" => checked[a] \in Urls

(* An article that is inserted and not committed is new, and is pending in *)
(* one transaction only: that is why its event is the first.               *)
ArticlesInv ==
  /\ \A a \in Acquirers : newArticles[a] \cap articles = {}
  /\ \A a, b \in Acquirers : a # b => newArticles[a] \cap newArticles[b] = {}
  /\ AnnouncedOnce

(* Workers only have messages of rows that were committed.                 *)
WorkersInv ==
  \A w \in Workers : /\ current[w] # NoMessage => status[current[w].id] # "absent"
                     /\ \A m \in todo[w] : status[m.id] # "absent"

IntakeInv == RowsInv /\ ArticlesInv /\ WorkersInv /\ RemovedIsStored /\ AckedIsSettled

StoreTypes ==
  /\ articles \subseteq Urls
  /\ announced \in [Urls -> Nat]
  /\ url \in [Ids -> Urls \cup {NoUrl}]
  /\ status \in [Ids -> RowStatus]

AcquirerTypes ==
  /\ apc \in [Acquirers -> {"idle", "reading", "inserting"}]
  /\ checked \in [Acquirers -> Urls \cup {NoUrl}]
  /\ newArticles \in [Acquirers -> SUBSET Urls]
  /\ newRows \in [Acquirers -> SUBSET Ids]

WorkerTypes ==
  /\ receives \in [Messages -> 0..MaxReceives]
  /\ deleted \subseteq Messages
  /\ wpc \in [Workers -> WorkerPc]
  /\ todo \in [Workers -> SUBSET Messages]
  /\ current \in [Workers -> Messages \cup {NoMessage}]
  /\ acked \in [Workers -> SUBSET Messages]
  /\ \A w \in Workers : current[w] = NoMessage <=> wpc[w] \in {"idle", "pick"}

LEMMA TypeParts ==
  ASSUME StoreTypes, AcquirerTypes, WorkerTypes, RowsInv
  PROVE  TypeOK
<1>1. ASSUME NEW i \in Ids, NEW j \in Ids,
             url[i] = url[j], {status[i], status[j]} \subseteq {"open", "closed"}
      PROVE  i = j
  BY <1>1 DEF RowsInv, Live
<1>2. QED
  BY <1>1 DEF StoreTypes, AcquirerTypes, WorkerTypes, TypeOK

-----------------------------------------------------------------------------
(* What the steps of a completion worker do                                *)

BusySteps == {"load", "check", "fetch", "commit", "close"}

LEMMA BusyRow ==
  ASSUME WorkerTypes, StoreTypes, RowsInv, WorkersInv, NEW w \in Workers, wpc[w] \in BusySteps
  PROVE  /\ current[w] \in Messages /\ current[w] # NoMessage
         /\ Row(w) \in Ids /\ RowUrl(w) \in Urls
         /\ status[Row(w)] \in {"open", "closed", "removed"}
<1>1. current[w] # NoMessage /\ current[w] \in Messages \cup {NoMessage}
  BY DEF WorkerTypes, BusySteps
<1>2. current[w] \in Messages /\ Row(w) \in Ids
  BY <1>1 DEF Messages, Row
<1>3. status[Row(w)] # "absent"
  BY <1>1 DEF WorkersInv, Row
<1>4. QED
  BY <1>1, <1>2, <1>3 DEF RowsInv, RowUrl, StoreTypes, RowStatus

(* A decision on the row of the current message, unless there was one.     *)
Decides(w, x) ==
  status' = [status EXCEPT ![Row(w)] = IF @ = "open" THEN x ELSE @]

(* What a transaction of the worker does to the store.                     *)
StoreEffect(w) ==
  /\ UNCHANGED url
  /\ \/ UNCHANGED <<status, articles, announced>>
     \/ Decides(w, "closed") /\ UNCHANGED <<articles, announced>>
     \/ Decides(w, "removed") /\ RowUrl(w) \in articles /\ UNCHANGED <<articles, announced>>
     \/ /\ Decides(w, "removed")
        /\ \A a \in Acquirers : RowUrl(w) \notin newArticles[a]
        /\ articles' = articles \cup {RowUrl(w)}
        /\ announced' = [announced EXCEPT ![RowUrl(w)] =
                           IF RowUrl(w) \in articles THEN @ ELSE @ + 1]

(* A message is left for acknowledgement when its row is settled.          *)
WorkerEffect(w) ==
  \/ \E next \in {"check", "fetch", "commit", "close"} : Goes(w, next)
  \/ Retry(w)
  \/ NoRetry(w) /\ status'[Row(w)] \in Settled

CompletionEffect(w) ==
  /\ wpc[w] \in BusySteps
  /\ UNCHANGED <<acqVars, queueVars>>
  /\ StoreEffect(w) /\ WorkerEffect(w)

LEMMA CompletionStepEffect ==
  ASSUME StoreTypes, WorkerTypes, RowsInv, WorkersInv, NEW w \in Workers, CompletionStep(w)
  PROVE  CompletionEffect(w)
<1>1. wpc[w] \in BusySteps
  BY DEF CompletionStep, LoadRow, CheckConflict, FetchArticle, CommitCompleted, CloseRow,
         TransactionFails, BusySteps
<1>2. /\ Row(w) \in Ids /\ status[Row(w)] \in {"open", "closed", "removed"}
      /\ status \in [Ids -> RowStatus]
  BY <1>1, BusyRow DEF StoreTypes
<1>3. Fails(w) => WorkerEffect(w)
  BY DEF Fails, WorkerEffect
<1>4. \A x \in Settled : Decides(w, x) => status'[Row(w)] \in Settled
  BY <1>2 DEF Decides, Settled
<1>5. CASE LoadRow(w)
  BY <1>1, <1>2, <1>5 DEF LoadRow, CompletionEffect, StoreEffect, WorkerEffect, storeVars, Settled
<1>6. CASE CheckConflict(w)
  <2>1. CASE /\ RowUrl(w) \in articles /\ Decides(w, "removed")
             /\ NoRetry(w) \/ Fails(w)
    <3>1. WorkerEffect(w)
      BY <1>3, <1>4, <2>1 DEF WorkerEffect, Settled
    <3>2. StoreEffect(w)
      BY <1>6, <2>1 DEF CheckConflict, StoreEffect
    <3>3. QED
      BY <1>1, <1>6, <3>1, <3>2 DEF CheckConflict, CompletionEffect
  <2>2. CASE Goes(w, "fetch") /\ UNCHANGED status
    BY <1>1, <1>6, <2>2 DEF CheckConflict, CompletionEffect, StoreEffect, WorkerEffect
  <2>3. QED
    BY <1>6, <2>1, <2>2 DEF CheckConflict, Decides
<1>7. CASE FetchArticle(w)
  BY <1>1, <1>3, <1>7 DEF FetchArticle, CompletionEffect, StoreEffect, WorkerEffect, storeVars
<1>8. CASE CommitCompleted(w)
  <2>1. CASE status[Row(w)] # "open" /\ NoRetry(w) /\ UNCHANGED <<status, articles, announced>>
    BY <1>1, <1>2, <1>8, <2>1
    DEF CommitCompleted, CompletionEffect, StoreEffect, WorkerEffect, Settled
  <2>2. CASE /\ status[Row(w)] = "open"
             /\ \A a \in Acquirers : RowUrl(w) \notin newArticles[a]
             /\ status' = [status EXCEPT ![Row(w)] = "removed"]
             /\ articles' = articles \cup {RowUrl(w)}
             /\ announced' = [announced EXCEPT ![RowUrl(w)] =
                                IF RowUrl(w) \in articles THEN @ ELSE @ + 1]
             /\ NoRetry(w) \/ Fails(w)
    <3>1. Decides(w, "removed")
      BY <2>2 DEF Decides
    <3>2. WorkerEffect(w)
      BY <1>3, <1>4, <2>2, <3>1 DEF WorkerEffect, Settled
    <3>3. StoreEffect(w)
      BY <1>8, <2>2, <3>1 DEF CommitCompleted, StoreEffect
    <3>4. QED
      BY <1>1, <1>8, <3>2, <3>3 DEF CommitCompleted, CompletionEffect
  <2>3. QED
    BY <1>8, <2>1, <2>2 DEF CommitCompleted
<1>9. CASE CloseRow(w)
  <2>1. CASE Decides(w, "closed") /\ (NoRetry(w) \/ Retry(w))
    BY <1>1, <1>4, <1>9, <2>1 DEF CloseRow, CompletionEffect, StoreEffect, WorkerEffect, Settled
  <2>2. CASE UNCHANGED status /\ Retry(w)
    BY <1>1, <1>9, <2>2 DEF CloseRow, CompletionEffect, StoreEffect, WorkerEffect
  <2>3. QED
    BY <1>9, <2>1, <2>2 DEF CloseRow, Decides
<1>10. CASE TransactionFails(w)
  BY <1>1, <1>3, <1>10 DEF TransactionFails, CompletionEffect, StoreEffect, storeVars
<1>11. QED
  BY <1>5, <1>6, <1>7, <1>8, <1>9, <1>10 DEF CompletionStep

-----------------------------------------------------------------------------
(* Rows                                                                    *)

(* A row is recorded, then decided on once.                                *)
StatusMove(i) ==
  \/ status'[i] = status[i]
  \/ status[i] = "open" /\ status'[i] \in Settled
  \/ status[i] = "absent" /\ status'[i] = "open"

LEMMA DecidesRow ==
  ASSUME StoreTypes, WorkerTypes, RowsInv, WorkersInv, NEW w \in Workers,
         wpc[w] \in BusySteps, NEW x \in Settled, Decides(w, x)
  PROVE  /\ status' \in [Ids -> RowStatus]
         /\ \A i \in Ids : \/ status'[i] = status[i]
                           \/ i = Row(w) /\ status[i] = "open" /\ status'[i] = x
  BY BusyRow DEF Decides, Settled, StoreTypes, RowStatus

LEMMA StatusStep ==
  ASSUME StoreTypes, AcquirerTypes, WorkerTypes, RowsInv, WorkersInv, Next
  PROVE  status' \in [Ids -> RowStatus] /\ \A i \in Ids : StatusMove(i)
<1>1. ASSUME NEW a \in Acquirers, CommitAcquisition(a)
      PROVE  status' \in [Ids -> RowStatus] /\ \A i \in Ids : StatusMove(i)
  BY <1>1 DEF CommitAcquisition, StatusMove, StoreTypes, RowStatus, RowsInv
<1>2. ASSUME NEW w \in Workers, CompletionStep(w)
      PROVE  status' \in [Ids -> RowStatus] /\ \A i \in Ids : StatusMove(i)
  <2>1. CompletionEffect(w)
    BY <1>2, CompletionStepEffect
  <2>2. UNCHANGED status \/ \E x \in Settled : Decides(w, x)
    BY <2>1 DEF CompletionEffect, StoreEffect, Settled
  <2>3. QED
    BY <2>1, <2>2, DecidesRow DEF CompletionEffect, StatusMove, StoreTypes
<1>3. CASE UNCHANGED status
  BY <1>3 DEF StatusMove, StoreTypes
<1>4. QED
  BY <1>1, <1>2, <1>3
  DEF Next, AcquirerStep, WorkerStep, StartAcquisition, RollbackAcquisition, SaveArticle,
      CheckObserved, InsertObserved, Receive, Pick, Respond, CrashWorker, storeVars

-----------------------------------------------------------------------------
(* Types                                                                   *)

LEMMA AcquirerStepTypes ==
  ASSUME StoreTypes, AcquirerTypes, WorkerTypes, RowsInv, ArticlesInv,
         NEW a \in Acquirers, AcquirerStep(a)
  PROVE  /\ articles' \subseteq Urls /\ announced' \in [Urls -> Nat]
         /\ url' \in [Ids -> Urls \cup {NoUrl}]
         /\ AcquirerTypes' /\ UNCHANGED <<queueVars, workVars>>
<1>1. CASE StartAcquisition(a)
  BY <1>1 DEF StartAcquisition, storeVars, StoreTypes, AcquirerTypes
<1>2. CASE CommitAcquisition(a)
  BY <1>2 DEF CommitAcquisition, EndsAcquisition, StoreTypes, AcquirerTypes
<1>3. CASE RollbackAcquisition(a)
  BY <1>3 DEF RollbackAcquisition, EndsAcquisition, StoreTypes, AcquirerTypes
<1>4. ASSUME NEW u \in Urls, SaveArticle(a, u)
      PROVE  /\ UNCHANGED storeVars /\ AcquirerTypes' /\ UNCHANGED <<queueVars, workVars>>
  BY <1>4 DEF SaveArticle, StoreTypes, AcquirerTypes
<1>5. ASSUME NEW u \in Urls, CheckObserved(a, u)
      PROVE  /\ UNCHANGED storeVars /\ AcquirerTypes' /\ UNCHANGED <<queueVars, workVars>>
  BY <1>5 DEF CheckObserved, AcquirerTypes
<1>6. CASE InsertObserved(a)
  BY <1>6 DEF InsertObserved, StoreTypes, AcquirerTypes
<1>7. QED
  BY <1>1, <1>2, <1>3, <1>4, <1>5, <1>6 DEF AcquirerStep, storeVars, StoreTypes

(* A worker's locals after a step that replaces them.                      *)
WorkerNow(w, step, left, m, done) ==
  /\ wpc' = [wpc EXCEPT ![w] = step]
  /\ todo' = [todo EXCEPT ![w] = left]
  /\ current' = [current EXCEPT ![w] = m]
  /\ acked' = [acked EXCEPT ![w] = done]

LEMMA WorkerNowTypes ==
  ASSUME WorkerTypes, NEW w \in Workers, NEW step \in WorkerPc, NEW left \in SUBSET Messages,
         NEW m \in Messages \cup {NoMessage}, NEW done \in SUBSET Messages,
         WorkerNow(w, step, left, m, done),
         m = NoMessage <=> step \in {"idle", "pick"},
         receives' \in [Messages -> 0..MaxReceives], deleted' \subseteq Messages
  PROVE  WorkerTypes'
<1>1. /\ wpc' \in [Workers -> WorkerPc] /\ todo' \in [Workers -> SUBSET Messages]
      /\ current' \in [Workers -> Messages \cup {NoMessage}]
      /\ acked' \in [Workers -> SUBSET Messages]
  BY DEF WorkerNow, WorkerTypes
<1>2. \A v \in Workers : current'[v] = NoMessage <=> wpc'[v] \in {"idle", "pick"}
  BY DEF WorkerNow, WorkerTypes
<1>3. QED
  BY <1>1, <1>2 DEF WorkerTypes

LEMMA MessageIsOne == \A m \in Messages : m # NoMessage
<1> SUFFICES ASSUME NEW m \in Messages, m = NoMessage
             PROVE  FALSE
  OBVIOUS
<1>1. m.id \in Ids /\ m.id = 0
  BY DEF Messages, NoMessage
<1>2. QED
  BY <1>1, IntakeAssumption

LEMMA WorkerStepTypes ==
  ASSUME StoreTypes, WorkerTypes, RowsInv, WorkersInv, NEW w \in Workers, WorkerStep(w)
  PROVE  WorkerTypes'
<1>0. /\ wpc[w] \in WorkerPc /\ todo[w] \in SUBSET Messages /\ acked[w] \in SUBSET Messages
      /\ current[w] \in Messages \cup {NoMessage}
      /\ current[w] = NoMessage <=> wpc[w] \in {"idle", "pick"}
      /\ todo = [todo EXCEPT ![w] = todo[w]]
      /\ current = [current EXCEPT ![w] = current[w]]
      /\ acked = [acked EXCEPT ![w] = acked[w]]
  BY DEF WorkerTypes
<1>1. ASSUME NEW S \in SUBSET Messages, Receive(w, S)
      PROVE  WorkerTypes'
  <2>1. receives' \in [Messages -> 0..MaxReceives]
    <3>1. \A m \in S : receives[m] + 1 \in 0..MaxReceives
      BY <1>1, IntakeAssumption DEF Receive, Receivable, WorkerTypes
    <3>2. QED
      BY <1>1, <3>1 DEF Receive, WorkerTypes
  <2>2. WorkerNow(w, "pick", S, current[w], acked[w])
    BY <1>0, <1>1 DEF Receive, WorkerNow
  <2>3. current[w] = NoMessage /\ deleted' = deleted
    BY <1>0, <1>1 DEF Receive
  <2>4. QED
    BY <1>0, <2>1, <2>2, <2>3, WorkerNowTypes DEF WorkerPc, WorkerTypes
<1>2. CASE Pick(w)
  <2>1. PICK m \in todo[w] : /\ current' = [current EXCEPT ![w] = m]
                             /\ todo' = [todo EXCEPT ![w] = @ \ {m}]
    BY <1>2 DEF Pick
  <2>2. WorkerNow(w, "load", todo[w] \ {m}, m, acked[w])
    BY <1>0, <1>2, <2>1 DEF Pick, WorkerNow
  <2>3. m \in Messages /\ m # NoMessage /\ todo[w] \ {m} \in SUBSET Messages
    BY <1>0, MessageIsOne
  <2>4. receives' \in [Messages -> 0..MaxReceives] /\ deleted' \subseteq Messages
    BY <1>2 DEF Pick, queueVars, WorkerTypes
  <2>5. QED
    BY <1>0, <2>2, <2>3, <2>4, WorkerNowTypes DEF WorkerPc
<1>3. CASE Respond(w) \/ CrashWorker(w)
  <2>1. WorkerNow(w, "idle", {}, NoMessage, {})
    BY <1>3 DEF Respond, CrashWorker, EndsBatch, WorkerNow
  <2>2. receives' \in [Messages -> 0..MaxReceives] /\ deleted' \subseteq Messages
    BY <1>0, <1>3 DEF Respond, CrashWorker, queueVars, WorkerTypes
  <2>3. QED
    BY <2>1, <2>2, WorkerNowTypes DEF WorkerPc
<1>4. CASE CompletionStep(w)
  <2>1. CompletionEffect(w)
    BY <1>4, CompletionStepEffect
  <2>2. /\ receives' \in [Messages -> 0..MaxReceives] /\ deleted' \subseteq Messages
        /\ current[w] \in Messages /\ current[w] # NoMessage
    BY <2>1, BusyRow DEF CompletionEffect, queueVars, WorkerTypes
  <2>3. ASSUME NEW next \in {"check", "fetch", "commit", "close"}, Goes(w, next)
        PROVE  WorkerTypes'
    <3>1. WorkerNow(w, next, todo[w], current[w], acked[w])
      BY <1>0, <2>3 DEF Goes, WorkerNow
    <3>2. QED
      BY <1>0, <2>2, <3>1, WorkerNowTypes DEF WorkerPc
  <2>4. ASSUME NEW ack \in BOOLEAN, Settle(w, ack)
        PROVE  WorkerTypes'
    <3> DEFINE done == acked[w] \cup (IF ack THEN {current[w]} ELSE {})
    <3>1. WorkerNow(w, "pick", todo[w], NoMessage, done)
      BY <1>0, <2>4 DEF Settle, WorkerNow
    <3>2. done \in SUBSET Messages
      BY <1>0, <2>2
    <3> HIDE DEF done
    <3>3. QED
      BY <1>0, <2>2, <3>1, <3>2, WorkerNowTypes DEF WorkerPc
  <2>5. QED
    BY <2>1, <2>3, <2>4 DEF CompletionEffect, WorkerEffect, Retry, NoRetry
<1>5. QED
  BY <1>1, <1>2, <1>3, <1>4 DEF WorkerStep

LEMMA CompletionStoreTypes ==
  ASSUME StoreTypes, WorkerTypes, RowsInv, WorkersInv, NEW w \in Workers, CompletionStep(w)
  PROVE  /\ articles' \subseteq Urls /\ announced' \in [Urls -> Nat]
         /\ UNCHANGED <<url, acqVars>>
<1>1. CompletionEffect(w) /\ RowUrl(w) \in Urls
  BY CompletionStepEffect, BusyRow DEF CompletionEffect
<1>2. QED
  BY <1>1 DEF CompletionEffect, StoreEffect, StoreTypes

LEMMA TypesStep ==
  ASSUME StoreTypes, AcquirerTypes, WorkerTypes, IntakeInv, Next
  PROVE  StoreTypes' /\ AcquirerTypes' /\ WorkerTypes'
<1>1. ASSUME NEW a \in Acquirers, AcquirerStep(a)
      PROVE  StoreTypes' /\ AcquirerTypes' /\ WorkerTypes'
  BY <1>1, AcquirerStepTypes, StatusStep
  DEF IntakeInv, StoreTypes, WorkerTypes, queueVars, workVars
<1>2. ASSUME NEW w \in Workers, WorkerStep(w)
      PROVE  StoreTypes' /\ AcquirerTypes' /\ WorkerTypes'
  <2>1. /\ articles' \subseteq Urls /\ announced' \in [Urls -> Nat]
        /\ UNCHANGED <<url, acqVars>>
    BY <1>2, CompletionStoreTypes
    DEF IntakeInv, WorkerStep, Receive, Pick, Respond, CrashWorker, storeVars, StoreTypes
  <2>2. QED
    BY <1>2, <2>1, WorkerStepTypes, StatusStep
    DEF IntakeInv, StoreTypes, AcquirerTypes, acqVars
<1>3. QED
  BY <1>1, <1>2 DEF Next

-----------------------------------------------------------------------------
(* Safety                                                                  *)

LEMMA LiveIs ==
  ASSUME NEW i \in Ids
  PROVE  Live(i)' <=> \/ status'[i] \in {"open", "closed"}
                      \/ \E a \in Acquirers : i \in newRows'[a]
  BY DEF Live

(* Live rows only come from an insert, which saw no live row of its url.   *)
LEMMA RowsAcquirer ==
  ASSUME StoreTypes, AcquirerTypes, RowsInv, NEW a \in Acquirers, AcquirerStep(a)
  PROVE  RowsInv'
<1>1. CASE StartAcquisition(a) \/ \E u \in Urls : SaveArticle(a, u) \/ CheckObserved(a, u)
  <2>1. /\ UNCHANGED <<url, status, newRows>>
        /\ \A b \in Acquirers : apc'[b] = "inserting" => checked'[b] \in Urls
    BY <1>1 DEF StartAcquisition, SaveArticle, CheckObserved, storeVars, RowsInv, AcquirerTypes
  <2>2. QED
    BY <2>1 DEF RowsInv, Live
<1>2. CASE CommitAcquisition(a)
  <2>1. /\ \A i \in Ids : status'[i] = IF i \in newRows[a] THEN "open" ELSE status[i]
        /\ url' = url /\ newRows'[a] = {} /\ apc'[a] = "idle"
        /\ \A b \in Acquirers \ {a} : /\ newRows'[b] = newRows[b] /\ apc'[b] = apc[b]
                                      /\ checked'[b] = checked[b]
    BY <1>2 DEF CommitAcquisition, EndsAcquisition, AcquirerTypes
  <2>2. \A i \in Ids : Live(i)' => Live(i)
    BY <2>1 DEF Live
  <2>3. /\ \A i \in Ids : status'[i] # "absent" => url'[i] \in Urls
        /\ \A b \in Acquirers : \A i \in newRows'[b] : status'[i] = "absent" /\ url'[i] \in Urls
        /\ \A b, c \in Acquirers : b # c => newRows'[b] \cap newRows'[c] = {}
        /\ \A b \in Acquirers : apc'[b] = "inserting" => checked'[b] \in Urls
    BY <2>1 DEF RowsInv, AcquirerTypes
  <2>4. QED
    BY <2>1, <2>2, <2>3 DEF RowsInv
<1>3. CASE RollbackAcquisition(a)
  <2>1. /\ \A i \in Ids : url'[i] = IF i \in newRows[a] THEN NoUrl ELSE url[i]
        /\ status' = status /\ newRows'[a] = {} /\ apc'[a] = "idle"
        /\ \A b \in Acquirers \ {a} : /\ newRows'[b] = newRows[b] /\ apc'[b] = apc[b]
                                      /\ checked'[b] = checked[b]
    BY <1>3 DEF RollbackAcquisition, EndsAcquisition, AcquirerTypes
  <2>2. \A i \in Ids : Live(i)' => Live(i) /\ i \notin newRows[a]
    BY <2>1 DEF Live, RowsInv
  <2>3. /\ \A i \in Ids : status'[i] # "absent" => url'[i] \in Urls
        /\ \A b \in Acquirers : \A i \in newRows'[b] : status'[i] = "absent" /\ url'[i] \in Urls
        /\ \A b, c \in Acquirers : b # c => newRows'[b] \cap newRows'[c] = {}
        /\ \A b \in Acquirers : apc'[b] = "inserting" => checked'[b] \in Urls
    BY <2>1 DEF RowsInv, AcquirerTypes
  <2>4. QED
    BY <2>1, <2>2, <2>3 DEF RowsInv
<1>4. CASE InsertObserved(a)
  <2>1. /\ status' = status /\ apc'[a] = "reading"
        /\ \A b \in Acquirers \ {a} : apc'[b] = apc[b] /\ checked'[b] = checked[b]
    BY <1>4 DEF InsertObserved, AcquirerTypes
  <2>2. \A b \in Acquirers : apc'[b] = "inserting" => checked'[b] \in Urls
    BY <2>1 DEF RowsInv
  <2>3. CASE UNCHANGED <<url, newRows>>
    BY <2>1, <2>2, <2>3 DEF RowsInv, Live
  <2>4. CASE ~UNCHANGED <<url, newRows>>
    <3> DEFINE u == checked[a]
    <3>1. u \in Urls /\ RowKeyFree(a, u) /\ Conflicting(a, u) = {}
      BY <1>4, <2>4 DEF InsertObserved, RowsInv
    <3>2. PICK i \in Ids : /\ url[i] = NoUrl
                           /\ url' = [url EXCEPT ![i] = u]
                           /\ newRows' = [newRows EXCEPT ![a] = @ \cup {i}]
      BY <1>4, <2>4 DEF InsertObserved
    <3>3. \A j \in Ids : Live(j) => url[j] # u
      BY <3>1 DEF Live, RowKeyFree, Conflicting
    <3>4. /\ url'[i] = u /\ \A j \in Ids \ {i} : url'[j] = url[j]
          /\ newRows'[a] = newRows[a] \cup {i}
          /\ \A b \in Acquirers \ {a} : newRows'[b] = newRows[b]
      BY <3>2 DEF StoreTypes, AcquirerTypes
    <3>5. status[i] = "absent" /\ \A b \in Acquirers : i \notin newRows[b]
      BY <3>2, IntakeAssumption DEF RowsInv, NoUrl
    <3>6. \A j \in Ids : Live(j)' => Live(j) \/ j = i
      BY <2>1, <3>4 DEF Live
    <3>7. /\ \A j \in Ids : status'[j] # "absent" => url'[j] \in Urls
          /\ \A b \in Acquirers : \A j \in newRows'[b] : status'[j] = "absent" /\ url'[j] \in Urls
          /\ \A b, c \in Acquirers : b # c => newRows'[b] \cap newRows'[c] = {}
      BY <2>1, <3>1, <3>4, <3>5 DEF RowsInv, AcquirerTypes
    <3>8. \A j, k \in Ids : Live(j)' /\ Live(k)' /\ url'[j] = url'[k] => j = k
      BY <3>3, <3>4, <3>6 DEF RowsInv
    <3>9. QED
      BY <2>2, <3>7, <3>8 DEF RowsInv
  <2>5. QED
    BY <2>3, <2>4
<1>5. QED
  BY <1>1, <1>2, <1>3, <1>4 DEF AcquirerStep

LEMMA RowsStep ==
  ASSUME StoreTypes, AcquirerTypes, WorkerTypes, IntakeInv, Next
  PROVE  RowsInv'
<1>1. ASSUME NEW w \in Workers, WorkerStep(w)
      PROVE  RowsInv'
  <2>1. UNCHANGED <<url, acqVars>>
    BY <1>1, CompletionStoreTypes
    DEF IntakeInv, WorkerStep, Receive, Pick, Respond, CrashWorker, storeVars
  <2>2. \A i \in Ids : \/ status'[i] = status[i]
                       \/ status[i] = "open" /\ status'[i] \in Settled
    <3>1. CASE CompletionStep(w)
      <4>1. CompletionEffect(w)
        BY <3>1, CompletionStepEffect DEF IntakeInv
      <4>2. UNCHANGED status \/ \E x \in Settled : Decides(w, x)
        BY <4>1 DEF CompletionEffect, StoreEffect, Settled
      <4>3. QED
        BY <4>1, <4>2, DecidesRow DEF CompletionEffect, IntakeInv
    <3>2. QED
      BY <1>1, <3>1 DEF WorkerStep, Receive, Pick, Respond, CrashWorker, storeVars
  <2>3. \A i \in Ids : Live(i)' => Live(i)
    BY <2>1, <2>2 DEF Live, acqVars, Settled
  <2>4. /\ \A i \in Ids : status'[i] # "absent" => url'[i] \in Urls
        /\ \A b \in Acquirers : \A i \in newRows'[b] : status'[i] = "absent" /\ url'[i] \in Urls
        /\ \A b, c \in Acquirers : b # c => newRows'[b] \cap newRows'[c] = {}
        /\ \A b \in Acquirers : apc'[b] = "inserting" => checked'[b] \in Urls
    BY <2>1, <2>2 DEF IntakeInv, RowsInv, acqVars, AcquirerTypes
  <2>5. QED
    BY <2>1, <2>3, <2>4 DEF IntakeInv, RowsInv
<1>2. QED
  BY <1>1, RowsAcquirer DEF Next, IntakeInv

LEMMA ArticlesStep ==
  ASSUME StoreTypes, AcquirerTypes, WorkerTypes, IntakeInv, Next
  PROVE  ArticlesInv'
<1> USE DEF IntakeInv
<1>1. ASSUME NEW a \in Acquirers, AcquirerStep(a)
      PROVE  ArticlesInv'
  <2>1. CASE UNCHANGED <<articles, announced, newArticles>>
    BY <2>1 DEF ArticlesInv, AnnouncedOnce
  <2>2. ASSUME NEW u \in Urls, SaveArticle(a, u)
        PROVE  ArticlesInv'
    <3>1. /\ newArticles'[a] = newArticles[a] \cup ({u} \ articles)
          /\ \A b \in Acquirers \ {a} : newArticles'[b] = newArticles[b] /\ u \notin newArticles[b]
          /\ UNCHANGED <<articles, announced>>
      BY <2>2 DEF SaveArticle, ArticleKeyFree, AcquirerTypes, storeVars
    <3>2. QED
      BY <3>1 DEF ArticlesInv, AnnouncedOnce
  <2>3. CASE CommitAcquisition(a)
    <3>1. /\ articles' = articles \cup newArticles[a]
          /\ newArticles'[a] = {}
          /\ \A b \in Acquirers \ {a} : newArticles'[b] = newArticles[b]
          /\ \A u \in Urls : announced'[u] = IF u \in newArticles[a] THEN announced[u] + 1
                                                                    ELSE announced[u]
      BY <2>3 DEF CommitAcquisition, EndsAcquisition, AcquirerTypes
    <3>2. \A u \in Urls : u \in newArticles[a] => u \notin articles /\ announced[u] = 0
      BY DEF ArticlesInv, AnnouncedOnce
    <3>3. AnnouncedOnce'
      BY <3>1, <3>2 DEF ArticlesInv, AnnouncedOnce
    <3>4. /\ \A b \in Acquirers : newArticles'[b] \cap articles' = {}
          /\ \A b, c \in Acquirers : b # c => newArticles'[b] \cap newArticles'[c] = {}
      BY <3>1 DEF ArticlesInv
    <3>5. QED
      BY <3>3, <3>4 DEF ArticlesInv
  <2>4. CASE RollbackAcquisition(a)
    <3>1. /\ newArticles'[a] = {} /\ UNCHANGED <<articles, announced>>
          /\ \A b \in Acquirers \ {a} : newArticles'[b] = newArticles[b]
      BY <2>4 DEF RollbackAcquisition, EndsAcquisition, AcquirerTypes
    <3>2. QED
      BY <3>1 DEF ArticlesInv, AnnouncedOnce
  <2>5. QED
    BY <1>1, <2>1, <2>2, <2>3, <2>4
    DEF AcquirerStep, StartAcquisition, CheckObserved, InsertObserved, storeVars
<1>2. ASSUME NEW w \in Workers, WorkerStep(w)
      PROVE  ArticlesInv'
  <2>1. CASE UNCHANGED <<articles, announced, newArticles>>
    BY <2>1 DEF ArticlesInv, AnnouncedOnce
  <2>2. CASE CompletionStep(w)
    <3>1. CompletionEffect(w) /\ RowUrl(w) \in Urls
      BY <2>2, CompletionStepEffect, BusyRow DEF CompletionEffect
    <3>2. UNCHANGED newArticles
      BY <3>1 DEF CompletionEffect, acqVars
    <3>3. CASE /\ \A a \in Acquirers : RowUrl(w) \notin newArticles[a]
               /\ articles' = articles \cup {RowUrl(w)}
               /\ announced' = [announced EXCEPT ![RowUrl(w)] =
                                  IF RowUrl(w) \in articles THEN @ ELSE @ + 1]
      <4>1. AnnouncedOnce'
        BY <3>1, <3>3 DEF ArticlesInv, AnnouncedOnce, StoreTypes
      <4>2. QED
        BY <3>2, <3>3, <4>1 DEF ArticlesInv
    <3>4. QED
      BY <2>1, <3>1, <3>2, <3>3 DEF CompletionEffect, StoreEffect
  <2>3. QED
    BY <1>2, <2>1, <2>2
    DEF WorkerStep, Receive, Pick, Respond, CrashWorker, storeVars, acqVars
<1>3. QED
  BY <1>1, <1>2 DEF Next

(* Which messages a worker, the others and the queue have after a step.    *)
LEMMA MessagesMove ==
  ASSUME StoreTypes, AcquirerTypes, WorkerTypes, IntakeInv, NEW w \in Workers, WorkerStep(w)
  PROVE  /\ \A v \in Workers \ {w} : /\ current'[v] = current[v] /\ todo'[v] = todo[v]
                                     /\ acked'[v] = acked[v]
         /\ \A m \in todo'[w] \cup ({current'[w]} \ {NoMessage}) :
              status[m.id] # "absent" /\ m.id \in Ids
         /\ \A m \in (deleted' \ deleted) \cup acked'[w] :
              \/ m \in acked[w]
              \/ m \in Messages /\ status'[m.id] \in Settled
<1> USE DEF IntakeInv
<1>0. /\ todo[w] \subseteq Messages /\ current[w] \in Messages \cup {NoMessage}
      /\ \A m \in todo[w] : status[m.id] # "absent" /\ m.id \in Ids
      /\ \A m \in {current[w]} \ {NoMessage} : status[m.id] # "absent" /\ m.id \in Ids
  BY DEF WorkerTypes, WorkersInv, Messages
<1>1. ASSUME NEW S \in SUBSET Messages, Receive(w, S)
      PROVE  /\ \A v \in Workers \ {w} : todo'[v] = todo[v]
             /\ \A m \in todo'[w] : status[m.id] # "absent" /\ m.id \in Ids
             /\ UNCHANGED <<current, acked, deleted>>
  BY <1>1 DEF Receive, Receivable, WorkerTypes, Messages
<1>2. CASE Pick(w)
  <2>1. PICK m \in todo[w] : /\ current' = [current EXCEPT ![w] = m]
                             /\ todo' = [todo EXCEPT ![w] = @ \ {m}]
    BY <1>2 DEF Pick
  <2>2. /\ current'[w] = m /\ todo'[w] = todo[w] \ {m} /\ acked' = acked /\ deleted' = deleted
        /\ \A v \in Workers \ {w} : current'[v] = current[v] /\ todo'[v] = todo[v]
    BY <1>2, <2>1 DEF Pick, queueVars, WorkerTypes
  <2>3. QED
    BY <1>0, <2>2
<1>3. CASE Respond(w) \/ CrashWorker(w)
  <2>1. /\ current'[w] = NoMessage /\ todo'[w] = {} /\ acked'[w] = {}
        /\ deleted' \subseteq deleted \cup acked[w]
        /\ \A v \in Workers \ {w} : /\ current'[v] = current[v] /\ todo'[v] = todo[v]
                                    /\ acked'[v] = acked[v]
    BY <1>3 DEF Respond, CrashWorker, EndsBatch, queueVars, WorkerTypes
  <2>2. QED
    BY <2>1
<1>4. CASE CompletionStep(w)
  <2>1. CompletionEffect(w) /\ current[w] \in Messages
    BY <1>4, CompletionStepEffect, BusyRow DEF CompletionEffect
  <2>2. /\ deleted' = deleted /\ todo' = todo
        /\ current'[w] \in {current[w], NoMessage}
        /\ \A v \in Workers \ {w} : current'[v] = current[v] /\ acked'[v] = acked[v]
        /\ \A m \in acked'[w] : m \in acked[w] \/ (m = current[w] /\ status'[Row(w)] \in Settled)
    BY <2>1 DEF CompletionEffect, WorkerEffect, Goes, Retry, NoRetry, Settle, queueVars, WorkerTypes
  <2>3. QED
    BY <1>0, <2>1, <2>2 DEF Row
<1>5. QED
  BY <1>0, <1>1, <1>2, <1>3, <1>4 DEF WorkerStep

LEMMA WorkersStep ==
  ASSUME StoreTypes, AcquirerTypes, WorkerTypes, IntakeInv, Next
  PROVE  WorkersInv'
<1> USE DEF IntakeInv
<1>1. \A i \in Ids : status[i] # "absent" => status'[i] # "absent"
  BY StatusStep DEF StatusMove, Settled
<1>2. \A v \in Workers : /\ \A m \in todo[v] : status[m.id] # "absent" /\ m.id \in Ids
                         /\ current[v] # NoMessage => /\ status[current[v].id] # "absent"
                                                      /\ current[v].id \in Ids
  BY DEF WorkerTypes, WorkersInv, Messages
<1>3. ASSUME NEW w \in Workers, WorkerStep(w)
      PROVE  WorkersInv'
  <2>1. \A m \in todo'[w] : status'[m.id] # "absent"
    BY <1>1, <1>3, MessagesMove
  <2>2. current'[w] # NoMessage => status'[current'[w].id] # "absent"
    BY <1>1, <1>3, MessagesMove
  <2>3. ASSUME NEW v \in Workers \ {w}
        PROVE  /\ current'[v] # NoMessage => status'[current'[v].id] # "absent"
               /\ \A m \in todo'[v] : status'[m.id] # "absent"
    <3>1. current'[v] = current[v] /\ todo'[v] = todo[v]
      BY <1>3, MessagesMove
    <3>2. QED
      BY <1>1, <1>2, <3>1
  <2>4. QED
    BY <2>1, <2>2, <2>3 DEF WorkersInv
<1>4. ASSUME NEW a \in Acquirers, AcquirerStep(a)
      PROVE  WorkersInv'
  <2>1. UNCHANGED workVars
    BY <1>4, AcquirerStepTypes
  <2>2. QED
    BY <1>1, <1>2, <2>1 DEF WorkersInv, workVars
<1>5. QED
  BY <1>3, <1>4 DEF Next

LEMMA RemovedStep ==
  ASSUME StoreTypes, AcquirerTypes, WorkerTypes, IntakeInv, Next
  PROVE  RemovedIsStored'
<1> USE DEF IntakeInv
<1>1. ASSUME NEW a \in Acquirers, AcquirerStep(a)
      PROVE  RemovedIsStored'
  <2>1. \A i \in Ids : status'[i] = "removed" => status[i] = "removed" /\ url'[i] = url[i]
    <3>1. CASE InsertObserved(a)
      <4>1. \A i \in Ids : status[i] # "absent" => url[i] # NoUrl
        BY IntakeAssumption DEF RowsInv, NoUrl
      <4>2. \A i \in Ids : url'[i] = url[i] \/ url[i] = NoUrl
        BY <3>1 DEF InsertObserved, StoreTypes
      <4>3. QED
        BY <3>1, <4>1, <4>2 DEF InsertObserved
    <3>2. CASE RollbackAcquisition(a)
      BY <3>2 DEF RollbackAcquisition, RowsInv
    <3>3. CASE CommitAcquisition(a)
      BY <3>3 DEF CommitAcquisition
    <3>4. CASE UNCHANGED storeVars
      BY <3>4 DEF storeVars
    <3>5. QED
      BY <1>1, <3>1, <3>2, <3>3, <3>4
      DEF AcquirerStep, StartAcquisition, SaveArticle, CheckObserved
  <2>2. articles \subseteq articles'
    BY <1>1 DEF AcquirerStep, StartAcquisition, SaveArticle, CheckObserved, InsertObserved,
                CommitAcquisition, RollbackAcquisition, storeVars
  <2>3. QED
    BY <2>1, <2>2 DEF RemovedIsStored
<1>2. ASSUME NEW w \in Workers, CompletionStep(w)
      PROVE  RemovedIsStored'
  <2>1. CompletionEffect(w)
    BY <1>2, CompletionStepEffect
  <2>2. CASE UNCHANGED <<status, articles>>
    BY <2>1, <2>2 DEF RemovedIsStored, CompletionEffect, StoreEffect
  <2>3. CASE Decides(w, "closed") /\ UNCHANGED articles
    <3>1. \A i \in Ids : status'[i] = "removed" => status[i] = "removed"
      BY <2>1, <2>3, DecidesRow DEF CompletionEffect, Settled
    <3>2. QED
      BY <2>1, <2>3, <3>1 DEF RemovedIsStored, CompletionEffect, StoreEffect
  <2>4. CASE Decides(w, "removed") /\ RowUrl(w) \in articles' /\ articles \subseteq articles'
    <3>1. \A i \in Ids : status'[i] = "removed" => status[i] = "removed" \/ i = Row(w)
      BY <2>1, <2>4, DecidesRow DEF CompletionEffect, Settled
    <3>2. QED
      BY <2>1, <2>4, <3>1 DEF RemovedIsStored, CompletionEffect, StoreEffect, RowUrl
  <2>5. QED
    BY <2>1, <2>2, <2>3, <2>4 DEF CompletionEffect, StoreEffect
<1>3. CASE UNCHANGED storeVars
  BY <1>3 DEF RemovedIsStored, storeVars
<1>4. QED
  BY <1>1, <1>2, <1>3 DEF Next, WorkerStep, Receive, Pick, Respond, CrashWorker

LEMMA AckedStep ==
  ASSUME StoreTypes, AcquirerTypes, WorkerTypes, IntakeInv, Next
  PROVE  AckedIsSettled'
<1> USE DEF IntakeInv
<1>1. \A i \in Ids : status[i] \in Settled => status'[i] \in Settled
  BY StatusStep DEF StatusMove, Settled
<1>2. \A m \in deleted : m.id \in Ids /\ status[m.id] \in Settled
  BY DEF AckedIsSettled, Settled, WorkerTypes, Messages
<1>3. \A v \in Workers : \A m \in acked[v] : m.id \in Ids /\ status[m.id] \in Settled
  BY DEF AckedIsSettled, Settled, WorkerTypes, Messages
<1>4. ASSUME NEW w \in Workers, WorkerStep(w)
      PROVE  AckedIsSettled'
  <2>1. \A m \in deleted' : status'[m.id] \in Settled
    BY <1>1, <1>2, <1>3, <1>4, MessagesMove
  <2>2. \A m \in acked'[w] : status'[m.id] \in Settled
    BY <1>1, <1>3, <1>4, MessagesMove
  <2>3. \A v \in Workers \ {w} : \A m \in acked'[v] : status'[m.id] \in Settled
    BY <1>1, <1>3, <1>4, MessagesMove
  <2>4. QED
    BY <2>1, <2>2, <2>3 DEF AckedIsSettled, Settled
<1>5. ASSUME NEW a \in Acquirers, AcquirerStep(a)
      PROVE  AckedIsSettled'
  <2>1. UNCHANGED <<queueVars, workVars>>
    BY <1>5, AcquirerStepTypes
  <2>2. QED
    BY <1>1, <1>2, <1>3, <2>1 DEF AckedIsSettled, Settled, queueVars, workVars
<1>6. QED
  BY <1>4, <1>5 DEF Next

-----------------------------------------------------------------------------
(* The theorems                                                            *)

FullInv == StoreTypes /\ AcquirerTypes /\ WorkerTypes /\ IntakeInv

LEMMA FullInvHolds == Spec => []FullInv
<1>1. Init => FullInv
  <2> SUFFICES ASSUME Init
               PROVE  FullInv
    OBVIOUS
  <2>1. StoreTypes /\ AcquirerTypes
    BY DEF Init, StoreTypes, AcquirerTypes, RowStatus
  <2>2. WorkerTypes
    BY IntakeAssumption DEF Init, WorkerTypes, WorkerPc
  <2>3. RowsInv /\ ArticlesInv
    BY DEF Init, RowsInv, ArticlesInv, AnnouncedOnce, Live
  <2>4. WorkersInv /\ RemovedIsStored /\ AckedIsSettled
    BY DEF Init, WorkersInv, RemovedIsStored, AckedIsSettled
  <2>5. QED
    BY <2>1, <2>2, <2>3, <2>4 DEF FullInv, IntakeInv
<1>2. FullInv /\ [Next]_vars => FullInv'
  <2> SUFFICES ASSUME FullInv, [Next]_vars
               PROVE  FullInv'
    OBVIOUS
  <2>1. CASE Next
    BY <2>1, TypesStep, RowsStep, ArticlesStep, WorkersStep, RemovedStep, AckedStep
    DEF FullInv, IntakeInv
  <2>2. CASE UNCHANGED vars
    BY <2>2 DEF FullInv, StoreTypes, AcquirerTypes, WorkerTypes, IntakeInv, RowsInv, Live,
                ArticlesInv, AnnouncedOnce, WorkersInv, RemovedIsStored, AckedIsSettled,
                vars, storeVars, acqVars, queueVars, workVars
  <2>3. QED
    BY <2>1, <2>2
<1>3. QED
  BY <1>1, <1>2, PTL DEF Spec

(* Shapes, and one live row of a url: no step of the model would be        *)
(* refused by the unique index.                                            *)
THEOREM TypeCorrect == Spec => []TypeOK
<1>1. FullInv => TypeOK
  BY TypeParts DEF FullInv, IntakeInv
<1>2. QED
  BY <1>1, FullInvHolds, PTL

(* A message is acknowledged, or kept for it, only when its row is settled.*)
THEOREM AckedSettledHolds == Spec => []AckedIsSettled
  BY FullInvHolds, PTL DEF FullInv, IntakeInv

(* A row disappears only in favour of an article of its url.               *)
THEOREM RemovedStoredHolds == Spec => []RemovedIsStored
  BY FullInvHolds, PTL DEF FullInv, IntakeInv

(* Every article is announced to curation exactly once.                    *)
THEOREM AnnouncedOnceHolds == Spec => []AnnouncedOnce
  BY FullInvHolds, PTL DEF FullInv, IntakeInv, ArticlesInv

(* No late worker changes the first decision on a row.                     *)
THEOREM FirstDecisionHolds == Spec => FirstDecisionWins
<1>1. FullInv /\ [Next]_vars =>
        [\A i \in Ids : status[i] \in {"closed", "removed"} => status'[i] = status[i]]_vars
  BY StatusStep DEF FullInv, IntakeInv, StatusMove
<1>2. QED
  BY <1>1, FullInvHolds, PTL DEF Spec, FirstDecisionWins
-----------------------------------------------------------------------------
(* Rows and articles are kept                                              *)

(* A committed row keeps its url and is never uncommitted, a stored        *)
(* article stays, and none is stored or announced twice: what one          *)
(* transaction rolls back was never another's.                             *)
StoreKept ==
  /\ articles \subseteq articles'
  /\ \A u \in Urls : announced'[u] >= announced[u]
  /\ \A i \in Ids : status[i] # "absent" => url'[i] = url[i] /\ status'[i] # "absent"

StoreOnlyGrows == [][StoreKept]_vars

LEMMA StoreStep ==
  ASSUME StoreTypes, AcquirerTypes, WorkerTypes, IntakeInv, Next
  PROVE  StoreKept
<1> USE DEF IntakeInv
<1>1. \A i \in Ids : status[i] # "absent" => status'[i] # "absent"
  BY StatusStep DEF StatusMove, Settled
<1>2. \A u \in Urls : announced[u] \in Nat
  BY DEF StoreTypes
<1>3. CASE UNCHANGED storeVars
  BY <1>2, <1>3 DEF StoreKept, storeVars
<1>4. ASSUME NEW a \in Acquirers, InsertObserved(a)
      PROVE  StoreKept
  <2>1. \A i \in Ids : url'[i] = url[i] \/ url[i] = NoUrl
    BY <1>4 DEF InsertObserved, StoreTypes
  <2>2. \A i \in Ids : status[i] # "absent" => url[i] # NoUrl
    BY IntakeAssumption DEF RowsInv, NoUrl
  <2>3. UNCHANGED <<articles, announced, status>>
    BY <1>4 DEF InsertObserved
  <2>4. QED
    BY <1>2, <2>1, <2>2, <2>3 DEF StoreKept
<1>5. ASSUME NEW a \in Acquirers, RollbackAcquisition(a)
      PROVE  StoreKept
  <2>1. \A i \in Ids : url'[i] = url[i] \/ status[i] = "absent"
    BY <1>5 DEF RollbackAcquisition, RowsInv
  <2>2. UNCHANGED <<articles, announced, status>>
    BY <1>5 DEF RollbackAcquisition
  <2>3. QED
    BY <1>2, <2>1, <2>2 DEF StoreKept
<1>6. ASSUME NEW a \in Acquirers, CommitAcquisition(a)
      PROVE  StoreKept
  <2>1. articles \subseteq articles' /\ url' = url
    BY <1>6 DEF CommitAcquisition
  <2>2. \A u \in Urls : announced'[u] = announced[u] \/ announced'[u] = announced[u] + 1
    BY <1>6 DEF CommitAcquisition
  <2>3. QED
    BY <1>1, <1>2, <2>1, <2>2 DEF StoreKept
<1>7. ASSUME NEW w \in Workers, CompletionStep(w)
      PROVE  StoreKept
  <2>1. StoreEffect(w)
    BY <1>7, CompletionStepEffect DEF CompletionEffect
  <2>2. articles \subseteq articles' /\ url' = url
    BY <2>1 DEF StoreEffect
  <2>3. \A u \in Urls : announced'[u] = announced[u] \/ announced'[u] = announced[u] + 1
    BY <2>1 DEF StoreEffect, StoreTypes
  <2>4. QED
    BY <1>1, <1>2, <2>2, <2>3 DEF StoreKept
<1>8. \/ UNCHANGED storeVars
      \/ \E a \in Acquirers : InsertObserved(a) \/ RollbackAcquisition(a) \/ CommitAcquisition(a)
      \/ \E w \in Workers : CompletionStep(w)
  BY DEF Next, AcquirerStep, WorkerStep, StartAcquisition, SaveArticle, CheckObserved,
         Receive, Pick, Respond, CrashWorker
<1>9. QED
  BY <1>3, <1>4, <1>5, <1>6, <1>7, <1>8

(* Rolling a feed back, crashing and completing late never take away what  *)
(* another transaction has committed.                                      *)
THEOREM StoreGrows == Spec => StoreOnlyGrows
<1>1. FullInv /\ [Next]_vars => [StoreKept]_vars
  BY StoreStep DEF FullInv
<1>2. QED
  BY <1>1, FullInvHolds, PTL DEF Spec, StoreOnlyGrows

-----------------------------------------------------------------------------
(* Progress: what RowsEventuallySettled needs besides fairness.            *)

(* An open row's messages are all in the queue: none is acknowledged, and  *)
(* each can be received again or has used up its deliveries.               *)
NoRowIsForgotten ==
  \A m \in Messages : status[m.id] = "open" =>
    m \notin deleted /\ (Receivable(m) \/ receives[m] = MaxReceives)

(* The steps with one message, in their order.                             *)
Onward == {<<"load", "check">>, <<"check", "fetch">>, <<"fetch", "commit">>,
           <<"load", "close">>, <<"check", "close">>, <<"fetch", "close">>,
           <<"commit", "close">>}

(* What a step may do to a worker: receive a batch, which costs each of    *)
(* its messages a delivery, begin the next message of the batch, go on     *)
(* with it, be done with it, or end the batch.                             *)
Moves(w) ==
  \/ wpc'[w] = wpc[w] /\ todo'[w] = todo[w]
  \/ /\ wpc[w] = "idle"
     /\ todo'[w] # {}
     /\ \A m \in todo'[w] : Receivable(m) /\ receives'[m] = receives[m] + 1
  \/ wpc[w] = "pick" /\ wpc'[w] = "load" /\ \E m \in todo[w] : todo'[w] = todo[w] \ {m}
  \/ <<wpc[w], wpc'[w]>> \in Onward /\ todo'[w] = todo[w]
  \/ wpc[w] \in BusySteps /\ wpc'[w] = "pick" /\ todo'[w] = todo[w]
  \/ wpc'[w] = "idle"

BatchesRunOut ==
  [][/\ \A m \in Messages : receives'[m] >= receives[m]
     /\ deleted \subseteq deleted'
     /\ \A w \in Workers : Moves(w)]_vars

LEMMA CompletionMoves ==
  ASSUME WorkerTypes, NEW w \in Workers, CompletionStep(w)
  PROVE  /\ UNCHANGED <<receives, deleted, todo>>
         /\ \E next \in WorkerPc :
              /\ wpc' = [wpc EXCEPT ![w] = next]
              /\ \/ <<wpc[w], next>> \in Onward
                 \/ wpc[w] \in BusySteps /\ next = "pick"
<1>1. wpc[w] \in BusySteps
  BY DEF CompletionStep, LoadRow, CheckConflict, FetchArticle, CommitCompleted, CloseRow,
         TransactionFails, BusySteps
<1>2. /\ UNCHANGED <<receives, deleted>>
      /\ \/ NoRetry(w) \/ Retry(w)
         \/ \E next \in WorkerPc : Goes(w, next) /\ <<wpc[w], next>> \in Onward
  BY DEF CompletionStep, LoadRow, CheckConflict, FetchArticle, CommitCompleted, CloseRow,
         TransactionFails, Fails, Onward, WorkerPc, queueVars
<1>3. CASE NoRetry(w) \/ Retry(w)
  <2>1. wpc' = [wpc EXCEPT ![w] = "pick"] /\ todo' = todo
    BY <1>3 DEF NoRetry, Retry, Settle
  <2>2. QED
    BY <1>1, <1>2, <2>1 DEF WorkerPc
<1>4. CASE \E next \in WorkerPc : Goes(w, next) /\ <<wpc[w], next>> \in Onward
  BY <1>2, <1>4 DEF Goes
<1>5. QED
  BY <1>2, <1>3, <1>4

LEMMA MovesStep ==
  ASSUME StoreTypes, AcquirerTypes, WorkerTypes, IntakeInv, Next
  PROVE  /\ \A m \in Messages : receives'[m] >= receives[m]
         /\ deleted \subseteq deleted'
         /\ \A w \in Workers : Moves(w)
<1> USE DEF IntakeInv
<1>1. \A m \in Messages : receives[m] \in Nat
  BY IntakeAssumption DEF WorkerTypes
<1>2. ASSUME NEW a \in Acquirers, AcquirerStep(a)
      PROVE  UNCHANGED <<receives, deleted, wpc, todo>>
  BY <1>2, AcquirerStepTypes DEF queueVars, workVars
<1>3. ASSUME NEW w \in Workers, NEW S \in SUBSET Messages, Receive(w, S)
      PROVE  /\ \A m \in Messages : receives'[m] >= receives[m]
             /\ deleted' = deleted
             /\ \A v \in Workers : Moves(v)
  <2>1. /\ wpc[w] = "idle" /\ S # {} /\ deleted' = deleted
        /\ \A m \in S : Receivable(m)
        /\ receives' = [m \in Messages |-> IF m \in S THEN receives[m] + 1 ELSE receives[m]]
    BY <1>3 DEF Receive
  <2>2. /\ todo'[w] = S
        /\ \A v \in Workers : v # w => wpc'[v] = wpc[v] /\ todo'[v] = todo[v]
    BY <1>3 DEF Receive, WorkerTypes
  <2>3. \A m \in Messages : receives'[m] >= receives[m]
    BY <1>1, <2>1
  <2>4. \A m \in S : receives'[m] = receives[m] + 1
    BY <2>1
  <2>5. QED
    BY <2>1, <2>2, <2>3, <2>4 DEF Moves
<1>4. ASSUME NEW w \in Workers, Pick(w)
      PROVE  UNCHANGED <<receives, deleted>> /\ \A v \in Workers : Moves(v)
  <2>1. PICK m \in todo[w] : todo' = [todo EXCEPT ![w] = @ \ {m}]
    BY <1>4 DEF Pick
  <2>2. /\ wpc[w] = "pick" /\ wpc'[w] = "load" /\ todo'[w] = todo[w] \ {m}
        /\ UNCHANGED <<receives, deleted>>
        /\ \A v \in Workers : v # w => wpc'[v] = wpc[v] /\ todo'[v] = todo[v]
    BY <1>4, <2>1 DEF Pick, WorkerTypes, queueVars
  <2>3. QED
    BY <2>2 DEF Moves
<1>5. ASSUME NEW w \in Workers, Respond(w) \/ CrashWorker(w)
      PROVE  /\ UNCHANGED receives
             /\ deleted \subseteq deleted'
             /\ \A v \in Workers : Moves(v)
  <2>1. /\ UNCHANGED receives /\ deleted \subseteq deleted'
        /\ wpc'[w] = "idle"
        /\ \A v \in Workers : v # w => wpc'[v] = wpc[v] /\ todo'[v] = todo[v]
    BY <1>5 DEF Respond, CrashWorker, EndsBatch, queueVars, WorkerTypes
  <2>2. QED
    BY <2>1 DEF Moves
<1>6. ASSUME NEW w \in Workers, CompletionStep(w)
      PROVE  UNCHANGED <<receives, deleted>> /\ \A v \in Workers : Moves(v)
  <2>1. PICK next \in WorkerPc :
          /\ wpc' = [wpc EXCEPT ![w] = next]
          /\ \/ <<wpc[w], next>> \in Onward
             \/ wpc[w] \in BusySteps /\ next = "pick"
    BY <1>6, CompletionMoves
  <2>2. UNCHANGED <<receives, deleted, todo>>
    BY <1>6, CompletionMoves
  <2>3. wpc'[w] = next /\ \A v \in Workers : v # w => wpc'[v] = wpc[v]
    BY <2>1 DEF WorkerTypes
  <2>4. QED
    BY <2>1, <2>2, <2>3 DEF Moves
<1>7. CASE UNCHANGED <<receives, deleted, wpc, todo>>
  BY <1>1, <1>7 DEF Moves
<1>8. CASE \E w \in Workers : WorkerStep(w)
  <2>1. PICK w \in Workers : WorkerStep(w)
    BY <1>8
  <2>2. CASE \E S \in SUBSET Messages : Receive(w, S)
    BY <1>3, <2>2
  <2>3. CASE Pick(w) \/ CompletionStep(w)
    BY <1>1, <1>4, <1>6, <2>3
  <2>4. CASE Respond(w) \/ CrashWorker(w)
    BY <1>1, <1>5, <2>4
  <2>5. QED
    BY <2>1, <2>2, <2>3, <2>4 DEF WorkerStep
<1>9. QED
  BY <1>2, <1>7, <1>8 DEF Next

(* As long as a row is open its messages stay in the queue, and completion *)
(* does not go round for ever: each batch costs its messages a delivery,   *)
(* and a worker only moves forward in a batch.                             *)
THEOREM CompletionIsBounded == Spec => []NoRowIsForgotten /\ BatchesRunOut
<1>1. FullInv => NoRowIsForgotten
  <2> SUFFICES ASSUME FullInv, NEW m \in Messages, status[m.id] = "open"
               PROVE  m \notin deleted /\ (Receivable(m) \/ receives[m] = MaxReceives)
    BY DEF NoRowIsForgotten
  <2>1. m \notin deleted
    BY DEF FullInv, IntakeInv, AckedIsSettled
  <2>2. receives[m] \in 0..MaxReceives /\ MaxReceives \in Nat
    BY IntakeAssumption DEF FullInv, WorkerTypes
  <2>3. QED
    BY <2>1, <2>2 DEF Receivable
<1>2. FullInv /\ [Next]_vars => [/\ \A m \in Messages : receives'[m] >= receives[m]
                                 /\ deleted \subseteq deleted'
                                 /\ \A w \in Workers : Moves(w)]_vars
  BY MovesStep DEF FullInv
<1>3. Spec => []NoRowIsForgotten
  BY <1>1, FullInvHolds, PTL
<1>4. Spec => BatchesRunOut
  BY <1>2, FullInvHolds, PTL DEF Spec, BatchesRunOut
<1>5. QED
  BY <1>3, <1>4
=============================================================================
