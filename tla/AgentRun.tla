------------------------------ MODULE AgentRun ------------------------------
(***************************************************************************)
(* Research runs: admission with a daily quota, enqueueing, the attempts   *)
(* of the workers, cancellation, thread deletion and deadline recovery.    *)
(*                                                                         *)
(* An admission is two steps, with the lock of its thread between them.    *)
(* Every method of AgentRunStateRepository locks the run's row, decides on *)
(* RunState and writes in one transaction, so each is one action; what a   *)
(* worker or the router does between two of them interleaves freely.       *)
(* accept_left and answer_left are the ticks until deadline_at and until   *)
(* the recovery deadline of a started answer: "now >= deadline" reads = 0. *)
(***************************************************************************)
EXTENDS Naturals, FiniteSets

CONSTANTS
  Users, Threads, Runs, Workers,
  Owner,           \* thread -> user
  ThreadOf,        \* run -> thread
  Days,            \* the JST dates of the model, 0..n
  DailyLimit,      \* DAILY_REQUEST_LIMIT
  AcceptWindow,    \* RUN_DEADLINE_SECONDS, in ticks
  RecoveryWindow,  \* answer_generation_recovery_window(), in ticks
  MaxCopies        \* bound: deliveries the queue makes of one message

ASSUME AgentAssumption ==
  /\ Owner \in [Threads -> Users]
  /\ ThreadOf \in [Runs -> Threads]
  /\ IsFiniteSet(Runs)
  /\ Days \subseteq Nat /\ 0 \in Days
  /\ DailyLimit \in Nat \ {0}
  /\ AcceptWindow \in Nat \ {0}
  /\ RecoveryWindow \in Nat \ {0}
  /\ MaxCopies \in Nat \ {0}

VARIABLES
  thread,       \* [Threads -> {"absent", "present", "deleted"}]
  status,       \* [Runs -> Status]
  epoch,        \* [Runs -> Nat]: attempt_epoch
  started,      \* [Runs -> BOOLEAN]: answer_started_at IS NOT NULL
  accept_left,  \* [Runs -> 0..AcceptWindow]
  answer_left,  \* [Runs -> 0..RecoveryWindow]
  usage_date,   \* [Runs -> Days]: quota_usage_date
  answers,      \* [Runs -> SUBSET Nat]: epochs of the attempts that saved an answer
  used,         \* [Users -> [Days -> 0..DailyLimit]]: used_count
  today,        \* the JST date
  router,       \* [Runs -> RouterPc]: the request that created the run
  deliveries,   \* [Runs -> 0..MaxCopies]: deliveries still to come (external)
  wpc,          \* [Workers -> WorkerPc]
  job           \* [Workers -> Jobs \cup {NoJob}]: the attempt of a worker

rowVars == <<status, epoch, started, accept_left, answer_left, usage_date, answers>>
vars == <<thread, rowVars, used, today, router, deliveries, wpc, job>>

Terminal == {"completed", "deadline_exceeded", "failed"}
Status   == {"absent", "queued", "running"} \cup Terminal
RouterPc == {"none", "admitting", "enqueue", "record_failure", "done"}
WorkerPc == {"idle", "started", "preparing", "answering", "failing"}
Jobs     == [run : Runs, epoch : Nat]
NoJob    == [run |-> "none", epoch |-> 0]

UserOf(r) == Owner[ThreadOf[r]]

(* Rows of a deleted thread are gone; the columns keep their last values.  *)
Exists(r) == status[r] # "absent" /\ thread[ThreadOf[r]] = "present"

Active(r) == status[r] \in {"queued", "running"}

Phase(r) ==
  CASE ~Active(r)                              -> "finished"
    [] status[r] = "queued"                    -> "queued"
    [] status[r] = "running" /\ ~started[r]    -> "preparing"
    [] status[r] = "running" /\ started[r]     -> "answering"

(* Ticks until the deadline at which an unfinished run is recovered.       *)
RecoveryLeft(r) == IF started[r] THEN answer_left[r] ELSE accept_left[r]

-----------------------------------------------------------------------------
(* The daily quota                                                         *)

(* Faulty: the upsert compares with <= DAILY_REQUEST_LIMIT.                *)
MayReserveOneMore(u) == used[u][today] <= DailyLimit

MayReserve(u) == used[u][today] < DailyLimit

(* Faulty: the place is given back to the current day.                     *)
ReleaseToday(S) ==
  used' = [u \in Users |-> [d \in Days |->
             LET n == Cardinality({r \in S : /\ status[r] = "queued" /\ UserOf(r) = u
                                             /\ d = today})
             IN  IF used[u][d] >= n THEN used[u][d] - n ELSE used[u][d]]]

(* The runs of S that end while queued give back their places, grouped by  *)
(* user and date; a group larger than the count changes nothing.           *)
Release(S) ==
  used' = [u \in Users |-> [d \in Days |->
             LET n == Cardinality({r \in S : /\ status[r] = "queued" /\ UserOf(r) = u
                                             /\ usage_date[r] = d})
             IN  IF used[u][d] >= n THEN used[u][d] - n ELSE used[u][d]]]

(* The runs of S end as s, in one transaction with the quota.              *)
FinishAll(S, s) ==
  /\ status' = [r \in Runs |-> IF r \in S THEN s ELSE status[r]]
  /\ Release(S)

Finish(r, s) == FinishAll({r}, s)

NotFinished == UNCHANGED <<status, used>>

(* The transaction of an operation that is refused: past its deadline the  *)
(* run ends as deadline_exceeded, otherwise nothing changes.               *)
Refuse(r, admitted) ==
  IF admitted THEN Finish(r, "deadline_exceeded") ELSE NotFinished

-----------------------------------------------------------------------------
(* The API                                                                 *)

(* Faulty: a queued run is not taken for an active one.                    *)
HasRunningRun(t) == \E r \in Runs : ThreadOf[r] = t /\ status[r] = "running"

HasActiveRun(t) == \E r \in Runs : ThreadOf[r] = t /\ Active(r)

(* Faulty: the thread is read without FOR UPDATE.                          *)
ThreadReadable(t) == TRUE

(* The transaction of an admission has the lock of the thread's row, or    *)
(* inserts the row, which nobody else sees before the commit.  A deletion  *)
(* and a completion wait for the row; a recovery locks the threads of      *)
(* active runs only, which no admission has.                               *)
ThreadIsFree(t) == \A r \in Runs : ThreadOf[r] = t => router[r] # "admitting"

(* POST /responses: the transaction locks the thread and looks for a run   *)
(* that is active.  An absent thread is a request without thread_id.       *)
Admit(r) ==
  LET t == ThreadOf[r] IN
  /\ status[r] = "absent" /\ router[r] = "none"
  /\ thread[t] # "deleted" /\ ThreadIsFree(t)
  /\ ~HasActiveRun(t)
  /\ router' = [router EXCEPT ![r] = "admitting"]
  /\ UNCHANGED <<thread, rowVars, used, today, deliveries, wpc, job>>

(* It reserves the quota, whose row stays locked until the commit, and     *)
(* inserts the message and the run.  uq_agent_runs_thread_active is left   *)
(* out: OneActiveRun says that the index never has to refuse a run.        *)
CreateRun(r) ==
  LET t == ThreadOf[r] IN
  /\ router[r] = "admitting"
  /\ MayReserve(Owner[t])
  /\ thread' = [thread EXCEPT ![t] = "present"]
  /\ status' = [status EXCEPT ![r] = "queued"]
  /\ accept_left' = [accept_left EXCEPT ![r] = AcceptWindow]
  /\ usage_date' = [usage_date EXCEPT ![r] = today]
  /\ used' = [used EXCEPT ![Owner[t]][today] = @ + 1]
  /\ router' = [router EXCEPT ![r] = "enqueue"]
  /\ UNCHANGED <<epoch, started, answer_left, answers, today, deliveries, wpc, job>>

(* The limit is reached (429), or the transaction fails: all is rolled     *)
(* back, and the user may ask again.                                       *)
Rollback(r) ==
  /\ router[r] = "admitting"
  /\ router' = [router EXCEPT ![r] = "none"]
  /\ UNCHANGED <<thread, rowVars, used, today, deliveries, wpc, job>>

(* kiq after the commit: it may fail although the message is in the queue, *)
(* and the queue may hand the message out more than once.                  *)
Enqueue(r) ==
  /\ router[r] = "enqueue"
  /\ \/ /\ \E n \in 1..MaxCopies : deliveries' = [deliveries EXCEPT ![r] = n]
        /\ router' = [router EXCEPT ![r] = "done"]
     \/ /\ \E n \in 0..MaxCopies : deliveries' = [deliveries EXCEPT ![r] = n]
        /\ router' = [router EXCEPT ![r] = "record_failure"]
  /\ UNCHANGED <<thread, rowVars, used, today, wpc, job>>

(* A failed enqueue ends the run unless a worker has already started it.   *)
RecordEnqueueFailure(r) ==
  /\ router[r] = "record_failure"
  /\ IF Exists(r) /\ Phase(r) = "queued" /\ RecoveryLeft(r) > 0
     THEN Finish(r, "failed")
     ELSE Refuse(r, Exists(r) /\ Phase(r) = "queued")
  /\ router' = [router EXCEPT ![r] = "done"]
  /\ UNCHANGED <<thread, epoch, started, accept_left, answer_left, usage_date, answers,
                 today, deliveries, wpc, job>>

(* The API process dies, or the recording transaction fails (503).         *)
RouterGivesUp(r) ==
  /\ router[r] \in {"enqueue", "record_failure"}
  /\ router' = [router EXCEPT ![r] = "done"]
  /\ UNCHANGED <<thread, rowVars, used, today, deliveries, wpc, job>>

(* Faulty: a run that has ended is cancelled again.                        *)
MayCancelAny(r) == Exists(r)

MayCancel(r) == Exists(r) /\ Phase(r) \in {"queued", "preparing", "answering"}

CancelRun(r) ==
  /\ MayCancel(r)
  /\ IF RecoveryLeft(r) > 0 THEN Finish(r, "failed")
                            ELSE Finish(r, "deadline_exceeded")
  /\ UNCHANGED <<thread, epoch, started, accept_left, answer_left, usage_date, answers,
                 today, router, deliveries, wpc, job>>

(* DELETE /threads: messages and runs go by cascade, whatever their state. *)
DeleteThread(t) ==
  /\ thread[t] = "present" /\ ThreadIsFree(t)
  /\ thread' = [thread EXCEPT ![t] = "deleted"]
  /\ UNCHANGED <<rowVars, used, today, router, deliveries, wpc, job>>

-----------------------------------------------------------------------------
(* Deadline recovery                                                       *)

(* Faulty: only started runs are recovered.                                *)
OverdueRunning == {r \in Runs : Exists(r) /\ status[r] = "running" /\ RecoveryLeft(r) = 0}

(* Faulty: an answer in progress is measured by the acceptance deadline.   *)
OverdueByAcceptance == {r \in Runs : Exists(r) /\ Active(r) /\ accept_left[r] = 0}

Overdue == {r \in Runs : Exists(r) /\ Active(r) /\ RecoveryLeft(r) = 0}

Recover(S) ==
  /\ FinishAll(S, "deadline_exceeded")
  /\ UNCHANGED <<thread, epoch, started, accept_left, answer_left, usage_date, answers,
                 today, router, deliveries, wpc, job>>

(* The cron sweep of every minute.                                         *)
SweepAll == Overdue # {} /\ Recover(Overdue)

(* GET /threads/{id} recovers the thread's runs first.                     *)
OpenThread(t) ==
  LET S == {r \in Overdue : ThreadOf[r] = t} IN S # {} /\ Recover(S)

(* The check reserved for the time of the run's deadline.                  *)
CheckDeadline(r) == r \in Overdue /\ Recover({r})

-----------------------------------------------------------------------------
(* The workers                                                             *)

(* Faulty: ownership of a run does not depend on the attempt.              *)
OwnsAnyAttempt(w) == LET r == job[w].run IN Exists(r) /\ status[r] = "running"

(* The worker's attempt is the current one of a running run.               *)
Owns(w) == LET r == job[w].run IN
  Exists(r) /\ status[r] = "running" /\ epoch[r] = job[w].epoch

Goes(w, next) == wpc' = [wpc EXCEPT ![w] = next] /\ UNCHANGED job

Stops(w) == wpc' = [wpc EXCEPT ![w] = "idle"] /\ job' = [job EXCEPT ![w] = NoJob]

(* Faulty: an answering run is started again.                              *)
StartableAgain(r) == Exists(r) /\ Active(r)

Startable(r) == Exists(r) /\ Phase(r) \in {"queued", "preparing"}

(* A delivered message starts an attempt: of a queued run, or again of one *)
(* whose answer has not been started.                                      *)
StartAttempt(w, r) ==
  /\ wpc[w] = "idle" /\ deliveries[r] > 0
  /\ deliveries' = [deliveries EXCEPT ![r] = @ - 1]
  /\ IF Startable(r) /\ accept_left[r] > 0
     THEN /\ status' = [status EXCEPT ![r] = "running"]
          /\ epoch' = [epoch EXCEPT ![r] = @ + 1]
          /\ job' = [job EXCEPT ![w] = [run |-> r, epoch |-> epoch[r] + 1]]
          /\ wpc' = [wpc EXCEPT ![w] = "started"]
          /\ UNCHANGED used
     ELSE Refuse(r, Startable(r)) /\ UNCHANGED <<epoch, job, wpc>>
  /\ UNCHANGED <<thread, started, accept_left, answer_left, usage_date, answers,
                 today, router>>

(* check_progress: what an attempt goes on with needs the phase and the    *)
(* acceptance deadline; refused, the worker stops.                         *)
Proceeds(w, phases) ==
  Owns(w) /\ Phase(job[w].run) \in phases /\ accept_left[job[w].run] > 0

StopsShort(w, phases) ==
  /\ ~Proceeds(w, phases)
  /\ Refuse(job[w].run, Owns(w) /\ Phase(job[w].run) \in phases)
  /\ Stops(w)

(* The probe before planning; when the database is unreachable it allows.  *)
EnsureCanContinue(w) ==
  /\ wpc[w] = "started"
  /\ \/ StopsShort(w, {"preparing", "answering"})
     \/ NotFinished /\ Goes(w, "preparing")
  /\ UNCHANGED <<thread, epoch, started, accept_left, answer_left, usage_date, answers,
                 today, router, deliveries>>

StartAnswerGeneration(w) ==
  LET r == job[w].run IN
  /\ wpc[w] = "preparing"
  /\ \/ /\ Proceeds(w, {"preparing"})
        /\ started' = [started EXCEPT ![r] = TRUE]
        /\ answer_left' = [answer_left EXCEPT ![r] = RecoveryWindow]
        /\ NotFinished /\ Goes(w, "answering")
     \/ StopsShort(w, {"preparing"}) /\ UNCHANGED <<started, answer_left>>
  /\ UNCHANGED <<thread, epoch, accept_left, usage_date, answers, today, router,
                 deliveries>>

(* A further generation of the answer; admitted, nothing changes.          *)
AuthorizeRegeneration(w) ==
  /\ wpc[w] = "answering"
  /\ StopsShort(w, {"answering"})
  /\ UNCHANGED <<thread, epoch, started, accept_left, answer_left, usage_date, answers,
                 today, router, deliveries>>

(* The answer, its sources and the run's end in one transaction.  When the *)
(* outcome of the commit is not known the worker goes on to mark a failure.*)
Complete(w) ==
  LET r == job[w].run
      admitted == Owns(w) /\ Phase(r) = "answering" IN
  /\ wpc[w] = "answering" /\ ThreadIsFree(ThreadOf[r])
  /\ \/ /\ admitted /\ RecoveryLeft(r) > 0
        /\ Finish(r, "completed")
        /\ answers' = [answers EXCEPT ![r] = @ \cup {job[w].epoch}]
        /\ Stops(w) \/ Goes(w, "failing")
     \/ /\ ~(admitted /\ RecoveryLeft(r) > 0)
        /\ Refuse(r, admitted)
        /\ Stops(w) /\ UNCHANGED answers
  /\ UNCHANGED <<thread, epoch, started, accept_left, answer_left, usage_date,
                 today, router, deliveries>>

(* Any exception of the attempt ends in record_failure.                    *)
MarkFailed(w) ==
  LET r == job[w].run IN
  /\ wpc[w] # "idle"
  /\ IF Owns(w) /\ RecoveryLeft(r) > 0 THEN Finish(r, "failed") ELSE Refuse(r, Owns(w))
  /\ Stops(w)
  /\ UNCHANGED <<thread, epoch, started, accept_left, answer_left, usage_date, answers,
                 today, router, deliveries>>

(* A worker dies or times out, or record_failure itself fails.             *)
WorkerDies(w) ==
  /\ wpc[w] # "idle"
  /\ Stops(w)
  /\ UNCHANGED <<thread, rowVars, used, today, router, deliveries>>

-----------------------------------------------------------------------------
Less1(n) == IF n > 0 THEN n - 1 ELSE 0

Tick ==
  /\ accept_left' = [r \in Runs |-> Less1(accept_left[r])]
  /\ answer_left' = [r \in Runs |-> Less1(answer_left[r])]
  /\ UNCHANGED <<thread, status, epoch, started, usage_date, answers, used, today,
                 router, deliveries, wpc, job>>

NextDay ==
  /\ today + 1 \in Days
  /\ today' = today + 1
  /\ UNCHANGED <<thread, rowVars, used, router, deliveries, wpc, job>>

Init ==
  /\ thread = [t \in Threads |-> "absent"]
  /\ status = [r \in Runs |-> "absent"]
  /\ epoch = [r \in Runs |-> 0]
  /\ started = [r \in Runs |-> FALSE]
  /\ accept_left = [r \in Runs |-> 0]
  /\ answer_left = [r \in Runs |-> 0]
  /\ usage_date = [r \in Runs |-> 0]
  /\ answers = [r \in Runs |-> {}]
  /\ used = [u \in Users |-> [d \in Days |-> 0]]
  /\ today = 0
  /\ router = [r \in Runs |-> "none"]
  /\ deliveries = [r \in Runs |-> 0]
  /\ wpc = [w \in Workers |-> "idle"]
  /\ job = [w \in Workers |-> NoJob]

ApiStep(r) ==
  \/ Admit(r) \/ CreateRun(r) \/ Rollback(r)
  \/ Enqueue(r) \/ RecordEnqueueFailure(r) \/ RouterGivesUp(r)
  \/ CancelRun(r)

WorkerStep(w) ==
  \/ \E r \in Runs : StartAttempt(w, r)
  \/ EnsureCanContinue(w) \/ StartAnswerGeneration(w) \/ AuthorizeRegeneration(w)
  \/ Complete(w) \/ MarkFailed(w) \/ WorkerDies(w)

Next ==
  \/ \E r \in Runs : ApiStep(r) \/ CheckDeadline(r)
  \/ \E t \in Threads : DeleteThread(t) \/ OpenThread(t)
  \/ SweepAll
  \/ \E w \in Workers : WorkerStep(w)
  \/ Tick \/ NextDay

Spec == Init /\ [][Next]_vars

(* Time passes and the cron sweep keeps running; workers, the queue, the   *)
(* router and the reserved checks may all fail.                            *)
FairSpec == Spec /\ WF_vars(Tick) /\ WF_vars(SweepAll)

-----------------------------------------------------------------------------
TypeOK ==
  /\ thread \in [Threads -> {"absent", "present", "deleted"}]
  /\ status \in [Runs -> Status]
  /\ epoch \in [Runs -> Nat]
  /\ started \in [Runs -> BOOLEAN]
  /\ accept_left \in [Runs -> 0..AcceptWindow]
  /\ answer_left \in [Runs -> 0..RecoveryWindow]
  /\ usage_date \in [Runs -> Days]
  /\ answers \in [Runs -> SUBSET Nat]
  /\ used \in [Users -> [Days -> 0..DailyLimit]]   \* ck_..._used_count_range
  /\ today \in Days
  /\ router \in [Runs -> RouterPc]
  /\ deliveries \in [Runs -> 0..MaxCopies]
  /\ wpc \in [Workers -> WorkerPc]
  /\ job \in [Workers -> Jobs \cup {NoJob}]
  /\ \A w \in Workers : wpc[w] = "idle" <=> job[w] = NoJob

(* A thread has at most one queued or running run: what a request has      *)
(* found under the lock of its thread still holds when it commits, so      *)
(* creating a run never hits uq_agent_runs_thread_active.                  *)
OneActiveRun ==
  \A r, s \in Runs : ThreadOf[r] = ThreadOf[s] /\ Active(r) /\ Active(s) => r = s

(* The runs that count against user u's day d: all that were admitted, but *)
(* those that ended before any worker started them.                        *)
Charges(u, d) ==
  {r \in Runs : /\ status[r] # "absent" /\ UserOf(r) = u /\ usage_date[r] = d
                /\ ~(status[r] \in Terminal /\ epoch[r] = 0)}

(* The counter equals the runs it stands for, across cancels, sweeps,      *)
(* enqueue failures and changes of the day: no place is given back twice,  *)
(* for a started run, or to another day, and none is lost.                 *)
QuotaIsExact ==
  \A u \in Users, d \in Days : used[u][d] = Cardinality(Charges(u, d))

(* A run has an answer iff it is completed, and only one: that of its last *)
(* attempt, for which answer generation was recorded.                      *)
AnswerOfLastAttempt ==
  \A r \in Runs : /\ answers[r] = IF status[r] = "completed" THEN {epoch[r]} ELSE {}
                  /\ status[r] = "completed" => started[r]

(* Once a run has ended, nothing late changes how: no stale attempt,       *)
(* duplicate delivery, cancel or sweep.                                    *)
OutcomeIsFinal ==
  [][\A r \in Runs : status[r] \in Terminal =>
       /\ status'[r] = status[r] /\ epoch'[r] = epoch[r]
       /\ answers'[r] = answers[r] /\ started'[r] = started[r]]_vars

(* No redelivery or regeneration gives an answer in progress more time or  *)
(* another attempt.                                                        *)
AnswerWindowIsFixed ==
  [][\A r \in Runs : started[r] =>
       started'[r] /\ answer_left'[r] <= answer_left[r] /\ epoch'[r] = epoch[r]]_vars

(* An answer begun in time may outlive the acceptance deadline: before its *)
(* recovery deadline it expires only when its own worker, past the         *)
(* acceptance deadline, asks for a further generation.                     *)
AnswerNotCutShort ==
  [][\A r \in Runs :
       Phase(r) = "answering" /\ answer_left[r] > 0 /\ status'[r] = "deadline_exceeded"
         => /\ accept_left[r] = 0
            /\ \E w \in Workers : /\ wpc[w] = "answering" /\ wpc'[w] = "idle"
                                  /\ job[w] = [run |-> r, epoch |-> epoch[r]]]_vars

(* Every admitted run ends, or is deleted, whatever fails on the way.      *)
EventuallyEnds ==
  \A r \in Runs : Active(r) ~> (~Active(r) \/ thread[ThreadOf[r]] = "deleted")

LifecyclePhaseOf(r) ==
  CASE status[r] = "absent"            -> "absent"
    [] status[r] # "absent" /\ thread[ThreadOf[r]] = "deleted" -> "removed"
    [] Exists(r) /\ status[r] = "queued"    -> "queued"
    [] Exists(r) /\ status[r] = "running"   -> "started"
    [] Exists(r) /\ status[r] = "completed" -> "answered"
    [] Exists(r) /\ status[r] \in {"failed", "deadline_exceeded"} -> "closed"

LifecyclePhase == [r \in Runs |-> LifecyclePhaseOf(r)]

LifecycleCharged == [r \in Runs |-> {d \in Days : r \in Charges(UserOf(r), d)}]

Lifecycle == INSTANCE ResearchRun WITH
  phase   <- LifecyclePhase,
  charged <- LifecycleCharged,
  RunUser <- [r \in Runs |-> UserOf(r)]

ImplementsLifecycle == Lifecycle!Spec
=============================================================================
