-------------------------- MODULE ArticleAnalysis --------------------------
(***************************************************************************)
(* The three analysis stages of an article: curation (signal or noise),    *)
(* assessment (in scope or out of scope) and embedding.  Each is a Lambda  *)
(* that takes one message, asks a model, and stores the result in a        *)
(* transaction together with the event of the next stage.                  *)
(*                                                                         *)
(* The two results of a stage are in two tables.  A trigger locks the      *)
(* parent row and refuses a result when the other table has one, a unique  *)
(* index refuses a second one in the same table; the embedding locks its   *)
(* own row.  Statements of a transaction are separate actions.             *)
(***************************************************************************)
EXTENDS Naturals, FiniteSets

CONSTANTS
  Articles,     \* ids of analyzable articles
  Workers,      \* stage executions that can run at the same time
  Copies,       \* copies of one message the queue may come to hold
  MaxReceives   \* maxReceiveCount: then the message is dead-lettered

ASSUME AnalysisAssumption == MaxReceives \in Nat \ {0} /\ "nobody" \notin Workers

VARIABLES
  kept,      \* [Stages -> SUBSET Articles]: article_curations, analyzed_articles, embedding
  dropped,   \* [Stages -> SUBSET Articles]: curation_noises, out_of_scope_articles
  events,    \* [Stages -> [Articles -> Nat]]: outbox events of a stage's kept result
  lock,      \* [Stages -> [Articles -> Workers \cup {Nobody}]]: the parent row's lock
  receives,  \* [Messages -> 0..MaxReceives]: ApproximateReceiveCount (external)
  deleted,   \* SUBSET Messages: acknowledged, gone from the queue (external)
  rejected,  \* SUBSET Messages: acknowledged with a NoRetry failure (history)
  pc,        \* [Workers -> Pc]
  message,   \* [Workers -> Messages \cup {NoMessage}]
  verdict,   \* [Workers -> Verdict]: the model's answer
  inserted   \* [Workers -> Verdict]: row inserted, not committed

storeVars == <<kept, dropped, events>>
queueVars == <<receives, deleted, rejected>>
vars == <<storeVars, lock, queueVars, pc, message, verdict, inserted>>

Stages    == {"curation", "assessment", "embedding"}
Messages  == [stage : Stages, article : Articles, copy : Copies]
NoMessage == [stage |-> "none"]
Nobody    == "nobody"
Pc        == {"idle", "load", "ask", "lock", "check", "insert", "commit"}
Verdict   == {"none", "keep", "drop"}

(* The stage whose event carries an article into stage s.                  *)
Previous(s) == IF s = "assessment" THEN "curation" ELSE "assessment"

Stage(w)   == message[w].stage
Article(w) == message[w].article

(* Embedding has one table and no opposite.                                *)
Verdicts(s) == IF s = "embedding" THEN {"keep"} ELSE {"keep", "drop"}

Rows(s, v) == IF v = "keep" THEN kept[s] ELSE dropped[s]

Opposite(v) == IF v = "keep" THEN "drop" ELSE "keep"

Decided(s, a) == a \in kept[s] \/ a \in dropped[s]

-----------------------------------------------------------------------------
(* Ends of an invocation                                                   *)

(* Faulty: the connection goes back to the pool with its transaction open. *)
KeepLock(w) == UNCHANGED lock

(* The transaction's end, if only by the loss of the connection.           *)
Unlock(w) ==
  lock' = [s \in Stages |-> [a \in Articles |-> IF lock[s][a] = w THEN Nobody
                                                               ELSE lock[s][a]]]

Ends(w) ==
  /\ pc' = [pc EXCEPT ![w] = "idle"]
  /\ message' = [message EXCEPT ![w] = NoMessage]
  /\ verdict' = [verdict EXCEPT ![w] = "none"]
  /\ inserted' = [inserted EXCEPT ![w] = "none"]
  /\ UNCHANGED receives

(* The message is left out of batchItemFailures, hence deleted.            *)
Ack(w) ==
  Ends(w) /\ Unlock(w) /\ deleted' = deleted \cup {message[w]} /\ UNCHANGED rejected

Reject(w) ==
  /\ Ends(w) /\ Unlock(w)
  /\ deleted' = deleted \cup {message[w]}
  /\ rejected' = rejected \cup {message[w]}

(* Faulty: a Retry result is not listed in batchItemFailures.              *)
RetryUnlisted(w) == Ack(w)

(* The message is listed, hence delivered again.                           *)
Retry(w) == Ends(w) /\ Unlock(w) /\ UNCHANGED <<deleted, rejected>>

(* classify_*_failure: an unrecoverable input or database failure is not   *)
(* retried.                                                                *)
Fails(w) == Retry(w) \/ Reject(w)

Goes(w, next) ==
  pc' = [pc EXCEPT ![w] = next] /\ UNCHANGED <<message, queueVars>>

-----------------------------------------------------------------------------
Published(m) == m.stage = "curation" \/ events[Previous(m.stage)][m.article] > 0

Receive(w, m) ==
  /\ pc[w] = "idle"
  /\ Published(m) /\ m \notin deleted /\ receives[m] < MaxReceives
  /\ receives' = [receives EXCEPT ![m] = @ + 1]
  /\ pc' = [pc EXCEPT ![w] = "load"]
  /\ message' = [message EXCEPT ![w] = m]
  /\ UNCHANGED <<storeVars, lock, deleted, rejected, verdict, inserted>>

(* load_ready_build_facts: work already done is a normal completion.       *)
LoadReady(w) ==
  /\ pc[w] = "load"
  /\ \/ Decided(Stage(w), Article(w)) /\ Ack(w)
     \/ /\ ~Decided(Stage(w), Article(w))
        /\ Goes(w, "ask") /\ UNCHANGED <<lock, verdict, inserted>>
  /\ UNCHANGED storeVars

AskModel(w) ==
  /\ pc[w] = "ask"
  /\ \E v \in Verdicts(Stage(w)) : verdict' = [verdict EXCEPT ![w] = v]
  /\ Goes(w, "lock")
  /\ UNCHANGED <<storeVars, lock, inserted>>

(* Faulty: the trigger of revision z32, which does not lock the parent.    *)
LockParentWithoutWaiting(w) ==
  /\ pc[w] = "lock"
  /\ lock' = [lock EXCEPT ![Stage(w)][Article(w)] = w]
  /\ Goes(w, "check")
  /\ UNCHANGED <<storeVars, verdict, inserted>>

(* FOR NO KEY UPDATE of the parent row, first thing in the trigger, or the *)
(* FOR UPDATE of lock_save_state: waits for the transaction that has it.   *)
LockParent(w) ==
  /\ pc[w] = "lock"
  /\ lock[Stage(w)][Article(w)] = Nobody
  /\ lock' = [lock EXCEPT ![Stage(w)][Article(w)] = w]
  /\ Goes(w, "check")
  /\ UNCHANGED <<storeVars, verdict, inserted>>

(* Faulty: the trigger of the dropped results is missing.                  *)
CheckOppositeOfKept(w) ==
  /\ pc[w] = "check"
  /\ \/ /\ verdict[w] = "keep" /\ Article(w) \in Rows(Stage(w), "drop")
        /\ Ack(w)
     \/ /\ ~(verdict[w] = "keep" /\ Article(w) \in Rows(Stage(w), "drop"))
        /\ Goes(w, "insert") /\ UNCHANGED <<lock, verdict, inserted>>
  /\ UNCHANGED storeVars

(* The trigger looks into the opposite table; its refusal is read as a     *)
(* concurrent result and ends normally.                                    *)
CheckOpposite(w) ==
  LET refused == Article(w) \in Rows(Stage(w), Opposite(verdict[w])) IN
  /\ pc[w] = "check"
  /\ \/ refused /\ Ack(w)
     \/ ~refused /\ Goes(w, "insert") /\ UNCHANGED <<lock, verdict, inserted>>
  /\ UNCHANGED storeVars

(* Faulty: ON CONFLICT DO NOTHING is taken for an insert.                  *)
InsertIgnoringConflict(w) ==
  /\ pc[w] = "insert"
  /\ inserted' = [inserted EXCEPT ![w] = verdict[w]]
  /\ Goes(w, "commit")
  /\ UNCHANGED <<storeVars, lock, verdict>>

(* ON CONFLICT DO NOTHING, or the update of a NULL embedding: an existing  *)
(* row ends normally without another.                                      *)
InsertResult(w) ==
  LET exists == Article(w) \in Rows(Stage(w), verdict[w]) IN
  /\ pc[w] = "insert"
  /\ \/ exists /\ Ack(w)
     \/ /\ ~exists
        /\ inserted' = [inserted EXCEPT ![w] = verdict[w]]
        /\ Goes(w, "commit") /\ UNCHANGED <<lock, verdict>>
  /\ UNCHANGED storeVars

(* Result and event become visible together.  A commit whose outcome is    *)
(* not known is handled as a failure although it took effect.              *)
CommitResult(w) ==
  LET s == Stage(w)
      a == Article(w) IN
  /\ pc[w] = "commit"
  /\ \/ /\ inserted[w] = "keep"
        /\ kept' = [kept EXCEPT ![s] = @ \cup {a}]
        /\ events' = [events EXCEPT ![s][a] = IF s = "embedding" THEN @ ELSE @ + 1]
        /\ UNCHANGED dropped
     \/ /\ inserted[w] = "drop"
        /\ dropped' = [dropped EXCEPT ![s] = @ \cup {a}]
        /\ UNCHANGED <<kept, events>>
  /\ Ack(w) \/ Fails(w)

(* The model or the database fails, or the 60 seconds are over.            *)
StageFails(w) ==
  /\ pc[w] \in {"load", "ask", "lock", "check", "insert", "commit"}
  /\ Fails(w)
  /\ UNCHANGED storeVars

(* A crash or the Lambda timeout: no response, so the message returns.     *)
CrashWorker(w) ==
  /\ pc[w] # "idle"
  /\ Ends(w) /\ Unlock(w)
  /\ UNCHANGED <<storeVars, deleted, rejected>>

-----------------------------------------------------------------------------
Init ==
  /\ kept = [s \in Stages |-> {}]
  /\ dropped = [s \in Stages |-> {}]
  /\ events = [s \in Stages |-> [a \in Articles |-> 0]]
  /\ lock = [s \in Stages |-> [a \in Articles |-> Nobody]]
  /\ receives = [m \in Messages |-> 0]
  /\ deleted = {}
  /\ rejected = {}
  /\ pc = [w \in Workers |-> "idle"]
  /\ message = [w \in Workers |-> NoMessage]
  /\ verdict = [w \in Workers |-> "none"]
  /\ inserted = [w \in Workers |-> "none"]

Proceeds(w) ==
  \/ LoadReady(w) \/ AskModel(w) \/ LockParent(w) \/ CheckOpposite(w)
  \/ InsertResult(w) \/ CommitResult(w)

WorkerStep(w) ==
  \/ \E m \in Messages : Receive(w, m)
  \/ Proceeds(w) \/ StageFails(w) \/ CrashWorker(w)

Next == \E w \in Workers : WorkerStep(w)

Spec == Init /\ [][Next]_vars

(* Published messages are received, and an invocation that can go on does, *)
(* or fails.  A worker that waits for a lock is not assumed to fail.       *)
FairSpec ==
  /\ Spec
  /\ \A w \in Workers : WF_vars(Proceeds(w))
  /\ \A m \in Messages : WF_vars(\E w \in Workers : Receive(w, m))

-----------------------------------------------------------------------------
(* Shapes of tables and invocations; a worker has a verdict, a lock and an *)
(* uncommitted row exactly in the steps between obtaining and ending them. *)
TypeOK ==
  /\ kept \in [Stages -> SUBSET Articles]
  /\ dropped \in [Stages -> SUBSET Articles]
  /\ events \in [Stages -> [Articles -> Nat]]
  /\ lock \in [Stages -> [Articles -> Workers \cup {Nobody}]]
  /\ receives \in [Messages -> 0..MaxReceives]
  /\ deleted \subseteq Messages
  /\ rejected \subseteq deleted
  /\ pc \in [Workers -> Pc]
  /\ message \in [Workers -> Messages \cup {NoMessage}]
  /\ verdict \in [Workers -> Verdict]
  /\ inserted \in [Workers -> Verdict]
  /\ \A w \in Workers :
       /\ message[w] = NoMessage <=> pc[w] = "idle"
       /\ verdict[w] = "none" <=> pc[w] \in {"idle", "load", "ask"}
       /\ inserted[w] # "none" <=> pc[w] = "commit"
       /\ \A s \in Stages, a \in Articles :
            lock[s][a] = w <=> /\ pc[w] \in {"check", "insert", "commit"}
                               /\ message[w].stage = s /\ message[w].article = a

(* An article has one result per stage, whatever messages are duplicated   *)
(* and however the model answers the second time.                          *)
OneVerdict == \A s \in Stages : kept[s] \cap dropped[s] = {}

(* The next stage is told of a kept result exactly once, and of no other.  *)
KeptIsAnnouncedOnce ==
  \A s \in Stages \ {"embedding"}, a \in Articles :
    events[s][a] = IF a \in kept[s] THEN 1 ELSE 0

(* A message leaves the queue only when the stage's result is committed,   *)
(* or the failure was classified as final.                                 *)
AckedIsDecided == \A m \in deleted \ rejected : Decided(m.stage, m.article)

(* Its last receive is over and did not acknowledge it.                    *)
DeadLettered(m) ==
  /\ receives[m] = MaxReceives /\ m \notin deleted
  /\ \A w \in Workers : message[w] # m

(* Every article ends at the bottom of the funnel, unless a failure was    *)
(* classified as final or a message went to the dead-letter queue.         *)
EveryArticleEnds ==
  \A a \in Articles :
    <>(\/ a \in dropped["curation"] \cup dropped["assessment"] \cup kept["embedding"]
       \/ \E m \in Messages : m.article = a /\ (m \in rejected \/ DeadLettered(m)))

Place ==
  [a \in Articles |->
     CASE ~Decided("curation", a)                              -> "new"
       [] a \in dropped["curation"]                            -> "noise"
       [] a \in kept["curation"] /\ ~Decided("assessment", a)  -> "signal"
       [] a \in dropped["assessment"]                          -> "out"
       [] a \in kept["assessment"] /\ a \notin kept["embedding"] -> "in"
       [] a \in kept["embedding"]                              -> "embedded"]

Funnel == INSTANCE ArticleFunnel WITH place <- Place

ImplementsFunnel == Funnel!Spec
=============================================================================
