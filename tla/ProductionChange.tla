-------------------------- MODULE ProductionChange --------------------------
(***************************************************************************)
(* Changes of production: workflow runs that migrate the schema, and runs  *)
(* that roll the newest commit out to the services and functions.  Both    *)
(* are dispatched and approved by hand at any time, and hold the           *)
(* concurrency group vector-production-change while they change anything.  *)
(*                                                                         *)
(* A migration's job is the controller, and a cleanup step that the        *)
(* workflow runs when the controller failed.  The controller may be        *)
(* interrupted by a signal, or end, at any step, and so may the job.       *)
(***************************************************************************)
EXTENDS MigrationTask

CONSTANTS
  Stages,      \* what a rollout updates together, in its order
  MaxFaults    \* bound: lost calls, interrupts, deaths

ASSUME RolloutAssumption ==
  /\ MaxFaults \in Nat /\ Len(Stages) \in Nat \ {0}
  /\ \A k, l \in 1..Len(Stages) : k # l => Stages[k] \cap Stages[l] = {}

VARIABLES
  jobs,      \* [Jobs -> the state of that run's job]
  holder,    \* the job that holds the concurrency group, or 0
  want,      \* [Services -> the commit the service was told to run]
  running,   \* [Services -> the commit it has converged to]
  faults

vars == <<main, ledger, db, lock, tasks, jobs, holder, want, running, faults>>
jobVars == <<main, ledger, jobs, holder, want, running>>

Services == UNION {Stages[k] : k \in 1..Len(Stages)}

ControllerSteps == {"preflight", "begin", "create", "mark", "save", "launch", "wait",
                    "record", "success"}
FailureSteps    == {"failed", "stop", "conclude", "report"}
Steps == {"idle", "ready", "check", "update", "verify", "cleanup", "over"}
           \cup ControllerSteps \cup FailureSteps

(* started: what begin returned, in memory or saved to the attempt file;   *)
(* state: what start returned, written to the state file only or known.    *)
NoJob == [kind |-> "none", step |-> "idle", mode |-> "verify", sha |-> 1,
          baseline |-> <<0, "none">>, start |-> NoRevision, started |-> "no",
          requested |-> FALSE, state |-> "none", completing |-> FALSE,
          cleaning |-> FALSE, stage |-> 1, todo |-> {}]

Init ==
  /\ LedgerInit /\ TaskInit
  /\ jobs = [j \in Jobs |-> NoJob] /\ holder = 0
  /\ want = [s \in Services |-> 1] /\ running = [s \in Services |-> 1]
  /\ faults = 0

At(j, step) == jobs[j].step = step
Goto(j, step) == jobs' = [jobs EXCEPT ![j].step = step]
Over(j) == holder' = 0 /\ jobs' = [jobs EXCEPT ![j] = [NoJob EXCEPT !.step = "over"]]

Fault == faults < MaxFaults /\ faults' = faults + 1
CostOf(outcome) == IF outcome = "confirmed" THEN UNCHANGED faults ELSE Fault

-----------------------------------------------------------------------------
(* Dispatch                                                                *)

Merge ==
  /\ main < Len(HeadOf) /\ main' = main + 1
  /\ UNCHANGED <<ledger, db, lock, tasks, jobs, holder, want, running, faults>>

NextJob(j) == At(j, "idle") /\ \A i \in 1..j - 1 : ~At(i, "idle")

(* The prepare job reads main and the ledger; the run then waits for its   *)
(* approval.                                                               *)
DispatchMigration(j, c, mode) ==
  /\ NextJob(j) /\ MayPrepare(c, mode)
  /\ jobs' = [jobs EXCEPT ![j] = [NoJob EXCEPT !.kind = "migrate", !.step = "ready",
                !.mode = mode, !.sha = c, !.baseline = Baseline, !.start = TargetRevision]]
  /\ UNCHANGED <<main, ledger, db, lock, tasks, holder, want, running, faults>>

(* A rollout is of the commit main had when it was dispatched.             *)
DispatchRollout(j) ==
  /\ NextJob(j)
  /\ jobs' = [jobs EXCEPT ![j] = [NoJob EXCEPT !.kind = "rollout", !.step = "ready",
                                               !.sha = main]]
  /\ UNCHANGED <<main, ledger, db, lock, tasks, holder, want, running, faults>>

GroupIgnored == TRUE    \* Faulty: no concurrency group
GroupFree    == holder = 0

TakeGroup(j) ==
  /\ At(j, "ready") /\ GroupFree
  /\ holder' = j
  /\ Goto(j, IF jobs[j].kind = "migrate" THEN "preflight" ELSE "check")
  /\ UNCHANGED <<main, ledger, db, lock, tasks, want, running, faults>>

-----------------------------------------------------------------------------
(* The controller of a migration                                           *)

Mine(j) == ledger # <<>> /\ Latest.job = j

(* The write is answered, and the attempt's record is still the latest.    *)
Confirmed(j, outcome) == outcome = "confirmed" /\ Mine(j)

Preflight(j) ==
  /\ At(j, "preflight")
  /\ Goto(j, IF ActiveTasks = {} THEN "begin" ELSE "failed")
  /\ UNCHANGED <<main, ledger, db, lock, tasks, holder, want, running, faults>>

(* begin compares the baseline and then creates the deployment: two calls, *)
(* and GitHub does not compare again.                                      *)
Begin(j) ==
  /\ At(j, "begin")
  /\ Goto(j, IF MayBegin(jobs[j].baseline, jobs[j].mode, jobs[j].start)
             THEN "create" ELSE "failed")
  /\ UNCHANGED <<main, ledger, db, lock, tasks, holder, want, running, faults>>

Create(j, outcome) ==
  /\ At(j, "create")
  /\ CreateDeployment(j, jobs[j].sha, outcome) /\ CostOf(outcome)
  /\ Goto(j, IF outcome = "confirmed" THEN "mark" ELSE "failed")
  /\ UNCHANGED <<main, db, lock, tasks, holder, want, running>>

MarkInProgress(j, outcome) ==
  /\ At(j, "mark")
  /\ WriteStatus(j, "in_progress", outcome) /\ CostOf(outcome)
  /\ jobs' = [jobs EXCEPT ![j].step = IF Confirmed(j, outcome) THEN "save" ELSE "failed",
                          ![j].started = IF Confirmed(j, outcome) THEN "memory" ELSE "no"]
  /\ UNCHANGED <<main, db, lock, tasks, holder, want, running>>

SaveAttempt(j) ==
  /\ At(j, "save")
  /\ jobs' = [jobs EXCEPT ![j].step = "launch", ![j].started = "saved"]
  /\ UNCHANGED <<main, ledger, db, lock, tasks, holder, want, running, faults>>

(* RunTask, which may start the task without telling; an interrupt between *)
(* the state file and the assignment leaves the state unknown as well.     *)
Launches == [answer : Outcomes, state : {"none", "file", "known"}]
Launch(j, launch) ==
  /\ At(j, "launch")
  /\ launch.answer = "confirmed" <=> launch.state # "none"
  /\ IF launch.answer = "lost" THEN UNCHANGED tasks
     ELSE RunTask(j, jobs[j].mode, jobs[j].sha, jobs[j].start)
  /\ jobs' = [jobs EXCEPT ![j].requested = TRUE, ![j].state = launch.state,
                          ![j].step = IF launch.state = "known" THEN "wait" ELSE "failed"]
  /\ IF launch.state = "known" THEN UNCHANGED faults ELSE Fault
  /\ UNCHANGED <<main, ledger, db, lock, holder, want, running>>

(* Only exit code 0 counts; the wait for it ends after timeout_seconds.    *)
Wait(j) ==
  /\ At(j, "wait")
  /\ Goto(j, IF ~Active(j) /\ tasks[j].exit = Success THEN "record" ELSE "failed")
  /\ UNCHANGED <<main, ledger, db, lock, tasks, holder, want, running, faults>>

(* finish confirms first that the attempt's in_progress is the latest.     *)
Unfinished(j) == Mine(j) /\ Latest.status = "in_progress"

ConfirmAttempt(j) ==
  /\ At(j, "record")
  /\ jobs' = [jobs EXCEPT ![j].step = IF Unfinished(j) THEN "success" ELSE "failed",
                          ![j].completing = TRUE]
  /\ UNCHANGED <<main, ledger, db, lock, tasks, holder, want, running, faults>>

RecordSuccess(j, outcome) ==
  /\ At(j, "success")
  /\ WriteStatus(j, "success", outcome) /\ CostOf(outcome)
  /\ IF Confirmed(j, outcome) THEN Over(j) ELSE Goto(j, "failed") /\ UNCHANGED holder
  /\ UNCHANGED <<main, db, lock, tasks, want, running>>

(* SIGINT and SIGTERM raise ControllerInterrupted wherever the controller  *)
(* is; the AWS calls that are not modelled may fail as well.               *)
Interrupt(j) ==
  /\ jobs[j].step \in ControllerSteps /\ Fault
  /\ Goto(j, "failed")
  /\ UNCHANGED <<main, ledger, db, lock, tasks, holder, want, running>>

(* The process ends without its own clean-up, or its runner is lost with   *)
(* the whole job.                                                          *)
Die(j) ==
  /\ jobs[j].step \in ControllerSteps \cup FailureSteps \cup {"cleanup"} /\ Fault
  /\ \/ /\ ~jobs[j].cleaning
        /\ jobs' = [jobs EXCEPT ![j].step = "cleanup", ![j].cleaning = TRUE]
        /\ UNCHANGED holder
     \/ Over(j)
  /\ UNCHANGED <<main, ledger, db, lock, tasks, want, running>>

-----------------------------------------------------------------------------
(* After a failure: in the controller, and once more in the cleanup step   *)

ToCleanup(j) ==
  IF jobs[j].cleaning THEN Over(j)
  ELSE jobs' = [jobs EXCEPT ![j].step = "cleanup", ![j].cleaning = TRUE] /\ UNCHANGED holder

(* cleanup_migration goes by the state file, or looks for the task by its  *)
(* startedBy, and then may not see a task that RunTask has just started.   *)
CleanupMigration(j) ==
  /\ At(j, "failed") \/ At(j, "cleanup")
  /\ \/ Goto(j, "stop") /\ (jobs[j].state # "none" \/ Active(j)) /\ UNCHANGED holder
     \/ Goto(j, "conclude") /\ jobs[j].state = "none" /\ UNCHANGED holder
  /\ jobs[j].requested \/ jobs[j].cleaning
  /\ UNCHANGED <<main, ledger, db, lock, tasks, want, running, faults>>

SkipCleanup(j) ==
  /\ At(j, "failed") /\ ~jobs[j].requested
  /\ Goto(j, "conclude")
  /\ UNCHANGED <<main, ledger, db, lock, tasks, holder, want, running, faults>>

(* StopTask and the wait for the task to be STOPPED.                       *)
Stopped(j) ==
  /\ At(j, "stop") /\ ~Active(j)
  /\ Goto(j, "conclude")
  /\ UNCHANGED <<main, ledger, db, lock, tasks, holder, want, running, faults>>

(* The task is not stopped in time, or AWS cannot be asked.                *)
CleanupFails(j) ==
  /\ \/ At(j, "stop") /\ UNCHANGED faults
     \/ At(j, "cleanup") /\ Fault
     \/ At(j, "failed") /\ jobs[j].requested /\ Fault
  /\ ToCleanup(j)
  /\ UNCHANGED <<main, ledger, db, lock, tasks, want, running>>

(* Which failures are recorded: never one of a task whose start is not     *)
(* known, and never over a completion that was attempted.                  *)
OutcomeKnown(j) ==
  IF jobs[j].cleaning
  THEN jobs[j].started = "saved" /\ jobs[j].state # "none"
  ELSE /\ jobs[j].started # "no" /\ ~jobs[j].completing
       /\ ~jobs[j].requested \/ jobs[j].state = "known"

Conclude(j) ==
  /\ At(j, "conclude")
  /\ IF OutcomeKnown(j) /\ Unfinished(j) THEN Goto(j, "report") /\ UNCHANGED holder
     ELSE ToCleanup(j)
  /\ UNCHANGED <<main, ledger, db, lock, tasks, want, running, faults>>

ReportFailure(j, outcome) ==
  /\ At(j, "report")
  /\ WriteStatus(j, "failure", outcome) /\ CostOf(outcome)
  /\ ToCleanup(j)
  /\ UNCHANGED <<main, db, lock, tasks, want, running>>

-----------------------------------------------------------------------------
(* The rollout                                                             *)

(* check_app_release: the applied schema first, the newest commit last.    *)
AllowsAnyCommit(c) == AllowsRollout(c)      \* Faulty: main may have moved on
AllowsAnySchema(c) == main = c              \* Faulty: the schema is taken for granted
ReleaseAllowed(c)  == AllowsRollout(c) /\ main = c

(* Before anything is registered, and again before each stage.             *)
CheckRelease(j) ==
  /\ At(j, "check")
  /\ IF ReleaseAllowed(jobs[j].sha)
     THEN /\ jobs' = [jobs EXCEPT ![j].step = "update", ![j].todo = Stages[jobs[j].stage]]
          /\ UNCHANGED holder
     ELSE Over(j)
  /\ UNCHANGED <<main, ledger, db, lock, tasks, want, running, faults>>

Update(j, s) ==
  /\ At(j, "update") /\ s \in jobs[j].todo
  /\ want' = [want EXCEPT ![s] = jobs[j].sha]
  /\ jobs' = [jobs EXCEPT ![j].todo = @ \ {s}]
  /\ UNCHANGED <<main, ledger, db, lock, tasks, holder, running, faults>>

Converge(s) ==
  /\ running[s] # want[s]
  /\ running' = [running EXCEPT ![s] = want[s]]
  /\ UNCHANGED <<main, ledger, db, lock, tasks, jobs, holder, want, faults>>

(* verify_ecs_rollout and the waiting part of rollout_lambda_images: every *)
(* service of the stage runs the release, and nothing else.                *)
Accepted(j)  == \A s \in Stages[jobs[j].stage] : want[s] = jobs[j].sha   \* Faulty: told is enough
Converged(j) == \A s \in Stages[jobs[j].stage] : running[s] = jobs[j].sha

BeyondLastStage(j) == jobs[j].stage > Len(Stages)   \* Faulty: one stage too many
LastStage(j)       == jobs[j].stage = Len(Stages)

VerifyStage(j) ==
  /\ At(j, "update") /\ jobs[j].todo = {} /\ Converged(j)
  /\ IF LastStage(j) THEN Over(j)
     ELSE /\ jobs' = [jobs EXCEPT ![j].step = "check", ![j].stage = @ + 1]
          /\ UNCHANGED holder
  /\ UNCHANGED <<main, ledger, db, lock, tasks, want, running, faults>>

(* A request is refused, a stage does not converge in time, the job ends.  *)
RolloutFails(j) ==
  /\ At(j, "check") \/ At(j, "update")
  /\ Over(j)
  /\ UNCHANGED <<main, ledger, db, lock, tasks, want, running, faults>>

-----------------------------------------------------------------------------
TaskStep(j) ==
  /\ \/ RunnerStep(j) /\ UNCHANGED faults
     \/ Kill(j) /\ IF At(j, "stop") THEN UNCHANGED faults ELSE Fault
  /\ UNCHANGED jobVars

Controller(j) ==
  \/ Preflight(j) \/ Begin(j) \/ SaveAttempt(j) \/ Wait(j) \/ ConfirmAttempt(j)
  \/ Interrupt(j) \/ Die(j)
  \/ \E outcome \in Outcomes : Create(j, outcome) \/ MarkInProgress(j, outcome)
                                 \/ RecordSuccess(j, outcome) \/ ReportFailure(j, outcome)
  \/ \E launch \in Launches : Launch(j, launch)
  \/ CleanupMigration(j) \/ SkipCleanup(j) \/ Stopped(j) \/ CleanupFails(j) \/ Conclude(j)

Rollout(j) ==
  \/ CheckRelease(j) \/ VerifyStage(j) \/ RolloutFails(j)
  \/ \E s \in Services : Update(j, s)

Dispatch(j) ==
  \/ \E c \in Commits, mode \in Modes : DispatchMigration(j, c, mode)
  \/ DispatchRollout(j)

Next ==
  \/ Merge
  \/ \E j \in Jobs : Dispatch(j) \/ TakeGroup(j) \/ Controller(j) \/ Rollout(j) \/ TaskStep(j)
  \/ \E s \in Services : Converge(s)

Spec == Init /\ [][Next]_vars

-----------------------------------------------------------------------------
(* Properties                                                              *)

TypeOK ==
  /\ main \in Commits /\ ledger \in Seq(Deployments)
  /\ db \in Revisions /\ lock \in 0..MaxJobs
  /\ tasks \in [Jobs -> [status : {"none", "active", "stopped"},
                         step : {"connect", "locked", "upgrade", "unlock", "closed"},
                         mode : Modes, sha : Commits, start : 0..Len(KindOf),
                         exit : {Success, Rejected}]]
  /\ jobs \in [Jobs -> [kind : {"none", "migrate", "rollout"}, step : Steps, mode : Modes,
                        sha : Commits, baseline : Nat \X Statuses, start : 0..Len(KindOf),
                        started : {"no", "memory", "saved"}, requested : BOOLEAN,
                        state : {"none", "file", "known"}, completing : BOOLEAN,
                        cleaning : BOOLEAN, stage : 1..Len(Stages), todo : SUBSET Services]]
  /\ holder \in 0..MaxJobs /\ faults \in 0..MaxFaults
  /\ want \in [Services -> Commits] /\ running \in [Services -> Commits]

AtWork == ActiveTasks \cup (IF lock = 0 THEN {} ELSE {lock})

(* What was compared, or confirmed, is still so when the write it is for   *)
(* is due.                                                                 *)
StillSo(j) ==
  /\ At(j, "create") => MayBegin(jobs[j].baseline, jobs[j].mode, jobs[j].start)
  /\ At(j, "success") \/ At(j, "report") => Unfinished(j)

(* What the ledger says is so: a success, that the database has that       *)
(* schema and nothing is left that could still change it; a failure, that  *)
(* the task of the attempt has ended.  No lost call, interrupt, death or   *)
(* COMMIT that outlives its task makes it wrong, and no other run writes   *)
(* between what a controller reads of it and the write that relies on it.  *)
LedgerIsTrue ==
  /\ Available => db = TargetRevision /\ AtWork = {}
  /\ \A i \in 1..Len(ledger) :
       ledger[i].status = "failure" => ~Active(ledger[i].job)
  /\ \A j \in Jobs : StillSo(j)

(* A service is only ever told to run a release whose schema the database  *)
(* has, while no migration is at work.                                     *)
UpdatedOnConfirmedSchema ==
  [][\A s \in Services : want'[s] # want[s] => db = HeadOf[want'[s]] /\ AtWork = {}]_vars

(* However long runs wait for their approval and for each other, a service *)
(* is never told to go back to an older commit.                            *)
ServicesNeverGoBack == [][\A s \in Services : want'[s] >= want[s]]_vars

(* The workers are updated when the old scheduler is gone, and functions   *)
(* when every service runs the new image.                                  *)
StagesConverge ==
  [][\A k \in 1..Len(Stages) : \A s \in Stages[k] :
       want'[s] # want[s] =>
         \A i \in 1..k - 1 : \A t \in Stages[i] : running[t] = want'[s]]_vars
=============================================================================
