--------------------------- MODULE ArticleIntake ---------------------------
(***************************************************************************)
(* How an article enters the store: acquisition Lambdas save what a feed   *)
(* carries, complete articles at once and the others as incomplete rows,   *)
(* and completion Lambdas work through the messages of the incomplete rows *)
(* and turn each row into an article or close it.                          *)
(*                                                                         *)
(* An acquisition is one long READ COMMITTED transaction over a feed: its  *)
(* statements are separate actions, its inserts are pending until commit,  *)
(* and an insert of a key that another open transaction has inserted       *)
(* waits.  The transactions of a completion worker hold their row lock     *)
(* until they commit, so each of them is one action.                       *)
(***************************************************************************)
EXTENDS Naturals, FiniteSets

CONSTANTS
  Urls,         \* article URLs, normalised
  Ids,          \* incomplete_articles ids; bounds how many rows can be recorded
  Acquirers,    \* acquisition executions that can run at the same time
  Workers,      \* completion executions that can run at the same time
  Copies,       \* copies of one message the queue may come to hold
  BatchSize,    \* batch_size of the event source mapping
  MaxReceives   \* maxReceiveCount: then the message is dead-lettered

ASSUME IntakeAssumption ==
  /\ Ids \subseteq Nat \ {0}
  /\ "none" \notin Urls
  /\ BatchSize \in Nat \ {0}
  /\ MaxReceives \in Nat \ {0}

VARIABLES
  articles,   \* SUBSET Urls: committed rows of analyzable_articles
  announced,  \* [Urls -> Nat]: AnalyzableArticleCreated events in the outbox
  url,        \* [Ids -> Urls \cup {NoUrl}]: url of the incomplete row
  status,     \* [Ids -> RowStatus]: committed status of the incomplete row
  apc,        \* [Acquirers -> {"idle", "reading", "inserting"}]
  checked,    \* [Acquirers -> Urls \cup {NoUrl}]: observed URL found not to be an article
  newArticles,\* [Acquirers -> SUBSET Urls]: articles inserted, not committed
  newRows,    \* [Acquirers -> SUBSET Ids]: incomplete rows inserted, not committed
  receives,   \* [Messages -> 0..MaxReceives]: ApproximateReceiveCount (external)
  deleted,    \* SUBSET Messages: acknowledged, gone from the queue (external)
  wpc,        \* [Workers -> WorkerPc]
  todo,       \* [Workers -> SUBSET Messages]: messages of the batch not yet begun
  current,    \* [Workers -> Messages \cup {NoMessage}]
  acked       \* [Workers -> SUBSET Messages]: to be left out of batchItemFailures

storeVars == <<articles, announced, url, status>>
acqVars   == <<apc, checked, newArticles, newRows>>
queueVars == <<receives, deleted>>
workVars  == <<wpc, todo, current, acked>>
vars == <<storeVars, acqVars, queueVars, workVars>>

Messages  == [id : Ids, copy : Copies]
NoUrl     == "none"
NoMessage == [id |-> 0, copy |-> 0]

(* "absent" is an id not committed, "removed" a row that was deleted.      *)
RowStatus == {"absent", "open", "closed", "removed"}
WorkerPc  == {"idle", "pick", "load", "check", "fetch", "commit", "close"}

-----------------------------------------------------------------------------
(* Acquisition                                                             *)

StartAcquisition(a) ==
  /\ apc[a] = "idle"
  /\ apc' = [apc EXCEPT ![a] = "reading"]
  /\ UNCHANGED <<storeVars, checked, newArticles, newRows, queueVars, workVars>>

(* No other open transaction has inserted the article.                     *)
ArticleKeyFree(a, u) == \A b \in Acquirers \ {a} : u \notin newArticles[b]

(* A complete entry: INSERT ... ON CONFLICT DO NOTHING; an article that is *)
(* known adds nothing.  The table of incomplete rows is not consulted.     *)
SaveArticle(a, u) ==
  /\ apc[a] = "reading"
  /\ ArticleKeyFree(a, u)
  /\ newArticles' = [newArticles EXCEPT ![a] = @ \cup ({u} \ articles)]
  /\ UNCHANGED <<storeVars, apc, checked, newRows, queueVars, workVars>>

(* An incomplete entry: exists_by_source_url, which sees committed rows    *)
(* and the transaction's own.                                              *)
CheckObserved(a, u) ==
  /\ apc[a] = "reading"
  /\ u \notin articles \cup newArticles[a]
  /\ checked' = [checked EXCEPT ![a] = u]
  /\ apc' = [apc EXCEPT ![a] = "inserting"]
  /\ UNCHANGED <<storeVars, newArticles, newRows, queueVars, workVars>>

(* Faulty: a closed row does not keep its url.                             *)
ConflictingOpen(a, u) ==
  {i \in Ids : url[i] = u /\ (status[i] = "open" \/ i \in newRows[a])}

(* Rows whose url conflicts with a new row of a for url u.                 *)
Conflicting(a, u) ==
  {i \in Ids : url[i] = u /\ (status[i] \in {"open", "closed"} \/ i \in newRows[a])}

RowKeyFree(a, u) ==
  \A b \in Acquirers \ {a} : \A i \in newRows[b] : url[i] # u

(* The insert of the incomplete row; a row of the same url in any state    *)
(* makes it do nothing.                                                    *)
InsertObserved(a) ==
  LET u == checked[a] IN
  /\ apc[a] = "inserting"
  /\ RowKeyFree(a, u)
  /\ \/ Conflicting(a, u) # {} /\ UNCHANGED <<url, newRows>>
     \/ /\ Conflicting(a, u) = {}
        /\ \E i \in Ids : /\ url[i] = NoUrl
                          /\ url' = [url EXCEPT ![i] = u]
                          /\ newRows' = [newRows EXCEPT ![a] = @ \cup {i}]
  /\ apc' = [apc EXCEPT ![a] = "reading"]
  /\ checked' = [checked EXCEPT ![a] = NoUrl]
  /\ UNCHANGED <<articles, announced, status, newArticles, queueVars, workVars>>

EndsAcquisition(a) ==
  /\ apc' = [apc EXCEPT ![a] = "idle"]
  /\ checked' = [checked EXCEPT ![a] = NoUrl]
  /\ newArticles' = [newArticles EXCEPT ![a] = {}]
  /\ newRows' = [newRows EXCEPT ![a] = {}]
  /\ UNCHANGED <<queueVars, workVars>>

(* The whole feed commits with its events.                                 *)
CommitAcquisition(a) ==
  /\ apc[a] = "reading"
  /\ articles' = articles \cup newArticles[a]
  /\ announced' = [u \in Urls |-> IF u \in newArticles[a] THEN announced[u] + 1
                                                          ELSE announced[u]]
  /\ status' = [i \in Ids |-> IF i \in newRows[a] THEN "open" ELSE status[i]]
  /\ UNCHANGED url
  /\ EndsAcquisition(a)

(* Any exception, deadlock or timeout rolls the whole feed back.           *)
RollbackAcquisition(a) ==
  /\ apc[a] # "idle"
  /\ url' = [i \in Ids |-> IF i \in newRows[a] THEN NoUrl ELSE url[i]]
  /\ UNCHANGED <<articles, announced, status>>
  /\ EndsAcquisition(a)

-----------------------------------------------------------------------------
(* Delivery of completion messages                                         *)

(* The queue has the message of a committed row, at least once, and gives  *)
(* it out again while it is not acknowledged, also to two workers at once. *)
Receivable(m) ==
  /\ status[m.id] # "absent"
  /\ m \notin deleted
  /\ receives[m] < MaxReceives

Receive(w, S) ==
  /\ wpc[w] = "idle"
  /\ S # {} /\ Cardinality(S) <= BatchSize
  /\ \A m \in S : Receivable(m)
  /\ receives' = [m \in Messages |-> IF m \in S THEN receives[m] + 1 ELSE receives[m]]
  /\ wpc' = [wpc EXCEPT ![w] = "pick"]
  /\ todo' = [todo EXCEPT ![w] = S]
  /\ UNCHANGED <<storeVars, acqVars, deleted, current, acked>>

(* The next message, unless the processing start deadline has passed.      *)
Pick(w) ==
  /\ wpc[w] = "pick"
  /\ \E m \in todo[w] : /\ current' = [current EXCEPT ![w] = m]
                        /\ todo' = [todo EXCEPT ![w] = @ \ {m}]
  /\ wpc' = [wpc EXCEPT ![w] = "load"]
  /\ UNCHANGED <<storeVars, acqVars, queueVars, acked>>

EndsBatch(w) ==
  /\ wpc' = [wpc EXCEPT ![w] = "idle"]
  /\ todo' = [todo EXCEPT ![w] = {}]
  /\ current' = [current EXCEPT ![w] = NoMessage]
  /\ acked' = [acked EXCEPT ![w] = {}]

(* Faulty: messages that were not begun are not listed as failures.        *)
RespondWithoutUnstarted(w) ==
  /\ wpc[w] = "pick"
  /\ deleted' = deleted \cup acked[w] \cup todo[w]
  /\ EndsBatch(w)
  /\ UNCHANGED <<storeVars, acqVars, receives>>

(* The partial batch response: what it does not list is deleted.  Messages *)
(* past the processing start deadline are listed without being begun.      *)
Respond(w) ==
  /\ wpc[w] = "pick"
  /\ deleted' = deleted \cup acked[w]
  /\ EndsBatch(w)
  /\ UNCHANGED <<storeVars, acqVars, receives>>

(* A crash or the Lambda timeout: nothing of the batch is acknowledged,    *)
(* not even the messages that were already settled.                        *)
CrashWorker(w) ==
  /\ wpc[w] # "idle"
  /\ EndsBatch(w)
  /\ UNCHANGED <<storeVars, acqVars, queueVars>>

-----------------------------------------------------------------------------
(* Completion                                                              *)

Row(w)    == current[w].id
RowUrl(w) == url[Row(w)]

(* The current message is done with: acknowledged or to be delivered again.*)
Settle(w, ack) ==
  /\ wpc' = [wpc EXCEPT ![w] = "pick"]
  /\ current' = [current EXCEPT ![w] = NoMessage]
  /\ acked' = [acked EXCEPT ![w] = @ \cup (IF ack THEN {current[w]} ELSE {})]
  /\ UNCHANGED todo

NoRetry(w) == Settle(w, TRUE)
Retry(w)   == Settle(w, FALSE)

Goes(w, pc) == wpc' = [wpc EXCEPT ![w] = pc] /\ UNCHANGED <<todo, current, acked>>

(* The failure handler's decision: close the row, or have it retried.      *)
Fails(w) == Goes(w, "close") \/ Retry(w)

LoadRow(w) ==
  /\ wpc[w] = "load"
  /\ \/ status[Row(w)] \in {"removed", "closed"} /\ NoRetry(w)
     \/ status[Row(w)] = "open" /\ Goes(w, "check")
  /\ UNCHANGED <<storeVars, acqVars, queueVars>>

(* Faulty: a row is removed although nothing was stored for its url.       *)
CheckConflictByRow(w) ==
  /\ wpc[w] = "check"
  /\ status' = [status EXCEPT ![Row(w)] = IF @ = "open" THEN "removed" ELSE @]
  /\ NoRetry(w)
  /\ UNCHANGED <<articles, announced, url, acqVars, queueVars>>

(* A row whose article exists is removed, unless it was settled meanwhile. *)
(* A commit whose outcome is not known is handled as a failure although it *)
(* took effect.                                                            *)
CheckConflict(w) ==
  /\ wpc[w] = "check"
  /\ \/ /\ RowUrl(w) \in articles
        /\ status' = [status EXCEPT ![Row(w)] = IF @ = "open" THEN "removed" ELSE @]
        /\ NoRetry(w) \/ Fails(w)
     \/ RowUrl(w) \notin articles /\ Goes(w, "fetch") /\ UNCHANGED status
  /\ UNCHANGED <<articles, announced, url, acqVars, queueVars>>

(* Fetch, extraction and build, outside any transaction.                   *)
FetchArticle(w) ==
  /\ wpc[w] = "fetch"
  /\ Goes(w, "commit") \/ Fails(w)
  /\ UNCHANGED <<storeVars, acqVars, queueVars>>

(* Faulty: the row may have been closed since it was loaded.               *)
CommitOverClosed(w) ==
  /\ wpc[w] = "commit"
  /\ \A a \in Acquirers : RowUrl(w) \notin newArticles[a]
  /\ status' = [status EXCEPT ![Row(w)] = "removed"]
  /\ articles' = articles \cup {RowUrl(w)}
  /\ announced' = [announced EXCEPT ![RowUrl(w)] =
                     IF RowUrl(w) \in articles THEN @ ELSE @ + 1]
  /\ NoRetry(w)
  /\ UNCHANGED <<url, acqVars, queueVars>>

(* Faulty: the event is added also when the article was already there.     *)
CommitAnnouncesAgain(w) ==
  /\ wpc[w] = "commit"
  /\ status[Row(w)] = "open"
  /\ status' = [status EXCEPT ![Row(w)] = "removed"]
  /\ articles' = articles \cup {RowUrl(w)}
  /\ announced' = [announced EXCEPT ![RowUrl(w)] = @ + 1]
  /\ NoRetry(w)
  /\ UNCHANGED <<url, acqVars, queueVars>>

(* delete_nonclosed, the insert of the article and its event, one          *)
(* transaction, whose outcome may not be known either.                     *)
CommitCompleted(w) ==
  /\ wpc[w] = "commit"
  /\ \/ status[Row(w)] # "open" /\ NoRetry(w) /\ UNCHANGED <<status, articles, announced>>
     \/ /\ status[Row(w)] = "open"
        /\ \A a \in Acquirers : RowUrl(w) \notin newArticles[a]
        /\ status' = [status EXCEPT ![Row(w)] = "removed"]
        /\ articles' = articles \cup {RowUrl(w)}
        /\ announced' = [announced EXCEPT ![RowUrl(w)] =
                           IF RowUrl(w) \in articles THEN @ ELSE @ + 1]
        /\ NoRetry(w) \/ Fails(w)
  /\ UNCHANGED <<url, acqVars, queueVars>>

(* A transaction of the worker fails and is rolled back.                   *)
TransactionFails(w) ==
  /\ wpc[w] \in {"load", "check", "commit"}
  /\ Fails(w)
  /\ UNCHANGED <<storeVars, acqVars, queueVars>>

(* Faulty: the message is acknowledged although the row was not closed.    *)
CloseOrGiveUp(w) ==
  /\ wpc[w] = "close"
  /\ status' = [status EXCEPT ![Row(w)] = IF @ = "open" THEN "closed" ELSE @]
     \/ UNCHANGED status
  /\ NoRetry(w)
  /\ UNCHANGED <<articles, announced, url, acqVars, queueVars>>

(* close_nonclosed; when closing fails the message is delivered again,     *)
(* whether or not the row was closed.                                      *)
CloseRow(w) ==
  /\ wpc[w] = "close"
  /\ \/ /\ status' = [status EXCEPT ![Row(w)] = IF @ = "open" THEN "closed" ELSE @]
        /\ NoRetry(w) \/ Retry(w)
     \/ UNCHANGED status /\ Retry(w)
  /\ UNCHANGED <<articles, announced, url, acqVars, queueVars>>

-----------------------------------------------------------------------------
Init ==
  /\ articles = {}
  /\ announced = [u \in Urls |-> 0]
  /\ url = [i \in Ids |-> NoUrl]
  /\ status = [i \in Ids |-> "absent"]
  /\ apc = [a \in Acquirers |-> "idle"]
  /\ checked = [a \in Acquirers |-> NoUrl]
  /\ newArticles = [a \in Acquirers |-> {}]
  /\ newRows = [a \in Acquirers |-> {}]
  /\ receives = [m \in Messages |-> 0]
  /\ deleted = {}
  /\ wpc = [w \in Workers |-> "idle"]
  /\ todo = [w \in Workers |-> {}]
  /\ current = [w \in Workers |-> NoMessage]
  /\ acked = [w \in Workers |-> {}]

AcquirerStep(a) ==
  \/ StartAcquisition(a) \/ CommitAcquisition(a) \/ RollbackAcquisition(a)
  \/ \E u \in Urls : SaveArticle(a, u) \/ CheckObserved(a, u)
  \/ InsertObserved(a)

CompletionStep(w) ==
  \/ LoadRow(w) \/ CheckConflict(w) \/ FetchArticle(w) \/ CommitCompleted(w)
  \/ CloseRow(w) \/ TransactionFails(w)

WorkerStep(w) ==
  \/ \E S \in SUBSET Messages : Receive(w, S)
  \/ Pick(w) \/ Respond(w) \/ CrashWorker(w) \/ CompletionStep(w)

Next ==
  \/ \E a \in Acquirers : AcquirerStep(a)
  \/ \E w \in Workers : WorkerStep(w)

Spec == Init /\ [][Next]_vars

(* Workers do not stop for ever, messages are delivered while they may be, *)
(* and an acquisition's transaction ends, if only by the Lambda timeout.   *)
FairSpec ==
  /\ Spec
  /\ \A w \in Workers : /\ WF_vars(WorkerStep(w))
                        /\ WF_vars(Pick(w) \/ Respond(w) \/ CompletionStep(w))
  /\ \A a \in Acquirers : WF_vars(CommitAcquisition(a) \/ RollbackAcquisition(a))

-----------------------------------------------------------------------------
(* Shapes of rows, transactions and batches; at most one live row of a url *)
(* (uq_incomplete_articles_url), so no insert the model makes would be     *)
(* refused by the table.                                                   *)
TypeOK ==
  /\ articles \subseteq Urls
  /\ announced \in [Urls -> Nat]
  /\ url \in [Ids -> Urls \cup {NoUrl}]
  /\ status \in [Ids -> RowStatus]
  /\ apc \in [Acquirers -> {"idle", "reading", "inserting"}]
  /\ checked \in [Acquirers -> Urls \cup {NoUrl}]
  /\ newArticles \in [Acquirers -> SUBSET Urls]
  /\ newRows \in [Acquirers -> SUBSET Ids]
  /\ receives \in [Messages -> 0..MaxReceives]
  /\ deleted \subseteq Messages
  /\ wpc \in [Workers -> WorkerPc]
  /\ todo \in [Workers -> SUBSET Messages]
  /\ current \in [Workers -> Messages \cup {NoMessage}]
  /\ acked \in [Workers -> SUBSET Messages]
  /\ \A w \in Workers : current[w] = NoMessage <=> wpc[w] \in {"idle", "pick"}
  /\ \A i, j \in Ids :
       url[i] = url[j] /\ {status[i], status[j]} \subseteq {"open", "closed"} => i = j

(* A message is acknowledged only when its row is settled: no crash, race  *)
(* or failing close leaves an open row without a message.                  *)
AckedIsSettled ==
  \A m \in deleted \cup UNION {acked[w] : w \in Workers} :
    status[m.id] \in {"closed", "removed"}

(* An incomplete row disappears only in favour of an article of its url.   *)
RemovedIsStored == \A i \in Ids : status[i] = "removed" => url[i] \in articles

(* However an article came in, and however often that was tried, it is     *)
(* announced to curation exactly once.                                     *)
AnnouncedOnce == \A u \in Urls : announced[u] = IF u \in articles THEN 1 ELSE 0

(* The first decision on a row is the last: a late worker neither revives  *)
(* a closed row nor closes one that became an article.                     *)
FirstDecisionWins ==
  [][\A i \in Ids : status[i] \in {"closed", "removed"} => status'[i] = status[i]]_vars

(* Its last receive is over and did not acknowledge it.                    *)
DeadLettered(m) ==
  /\ receives[m] = MaxReceives /\ m \notin deleted
  /\ \A w \in Workers : m \notin todo[w] \cup acked[w] /\ current[w] # m

(* Every recorded row is settled, or ends in the dead-letter queue.        *)
RowsEventuallySettled ==
  \A i \in Ids :
    status[i] = "open"
      ~> (status[i] # "open" \/ \A c \in Copies : DeadLettered([id |-> i, copy |-> c]))

(* What the docstring of IncompleteArticle says of uq_incomplete_articles_ *)
(* url: a url is not at the same time pending and an article.              *)
PendingIsNotStored ==
  \A i \in Ids : status[i] = "open" => url[i] \notin articles
=============================================================================
