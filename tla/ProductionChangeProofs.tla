----------------------- MODULE ProductionChangeProofs -----------------------
(* Proofs about ProductionChange, for every history of commits, kinds of   *)
(* revisions, number of runs, stages and faults.                           *)
EXTENDS ProductionChange, TLAPS

JobStates ==
  [kind : {"none", "migrate", "rollout"}, step : Steps, mode : Modes,
   sha : Commits, baseline : Nat \X Statuses, start : 0..Len(KindOf),
   started : {"no", "memory", "saved"}, requested : BOOLEAN,
   state : {"none", "file", "known"}, completing : BOOLEAN,
   cleaning : BOOLEAN, stage : 1..Len(Stages), todo : SUBSET Services]

TaskStates ==
  [status : {"none", "active", "stopped"},
   step : {"connect", "locked", "upgrade", "unlock", "closed"},
   mode : Modes, sha : Commits, start : 0..Len(KindOf), exit : {Success, Rejected}]

LEMMA ConstantFacts ==
  /\ Len(HeadOf) \in Nat \ {0} /\ Len(KindOf) \in Nat \ {0}
  /\ 1 \in Commits /\ \A c \in Commits : HeadOf[c] \in Revisions
  /\ \A c \in Commits : HeadOf[c] \in 0..Len(KindOf)
  /\ \A c \in Commits : c \in Nat
  /\ 1 \in 1..Len(Stages)
<1>1. HeadOf \in Seq(Revisions) /\ Len(HeadOf) > 0 /\ KindOf \in Seq({"expand", "contract"})
  BY LedgerAssumption
<1>2. Len(HeadOf) \in Nat /\ Len(KindOf) \in Nat /\ \A c \in Commits : HeadOf[c] \in Revisions
  BY <1>1 DEF Commits
<1>3. 1 \in Commits
  BY <1>1, <1>2 DEF Commits
<1>4. HeadOf[1] \in Revisions
  BY <1>2, <1>3
<1>5. QED
  BY <1>1, <1>2, <1>3, <1>4, RolloutAssumption DEF Commits, Revisions

LEMMA NoJobType == NoJob \in JobStates
  BY ConstantFacts DEF NoJob, JobStates, Steps, Modes, Statuses, NoRevision

LEMMA NoTaskType == NoTask \in TaskStates
  BY ConstantFacts DEF NoTask, TaskStates, Modes, NoRevision, Success

-----------------------------------------------------------------------------
(* The invariant                                                           *)

Holding    == Steps \ {"idle", "ready", "over"}
PreLaunch  == {"idle", "ready", "preflight", "begin", "create", "mark", "save", "launch"}
Unrecorded == {"idle", "ready", "preflight", "begin", "create"}
Begun      == {"mark", "save", "launch", "wait", "record", "success"}
Sessions   == {"locked", "upgrade", "unlock"}

(* The session of a task has the lock between taking and releasing it, and *)
(* a run has no task before it asks for one.                               *)
TaskFacts(j) ==
  /\ lock = j <=> tasks[j].step \in Sessions
  /\ Active(j) => tasks[j].step # "closed"
  /\ tasks[j].status = "none" => tasks[j].step = "connect"
  /\ tasks[j].status = "stopped" /\ tasks[j].step # "closed" => tasks[j].exit = Rejected
  /\ tasks[j].step = "unlock" => db = HeadOf[tasks[j].sha]
  /\ jobs[j].step \in PreLaunch \/ (jobs[j].step # "over" /\ ~jobs[j].requested)
       => tasks[j].status = "none"

(* From its preflight on, a controller is alone with its own task; an exit *)
(* code 0 says that the database has the schema and the lock is free.      *)
ControlFacts(j) ==
  LET step == jobs[j].step IN
  /\ step \in Holding => holder = j
  /\ step \in {"begin", "create", "mark", "save", "launch"} => ActiveTasks = {}
  /\ step \in {"wait", "record", "success"} => ActiveTasks \subseteq {j}
  /\ step = "wait" => /\ tasks[j].status # "none"
                      /\ Active(j) => tasks[j].sha = jobs[j].sha
                      /\ ~Active(j) /\ tasks[j].exit = Success =>
                           lock = 0 /\ db = HeadOf[jobs[j].sha]
  /\ step \in {"record", "success"} => AtWork = {} /\ db = HeadOf[jobs[j].sha]
  /\ step = "conclude" /\ (jobs[j].state # "none" \/ ~jobs[j].requested) => ~Active(j)
  /\ step = "report" => ~Active(j)

Entries == 1..Len(ledger)

(* Nobody writes after a run that holds the group, a controller that has   *)
(* begun wrote the latest record and has not called it a success or a      *)
(* failure, and what it compared or confirmed is still so.                 *)
LedgerFacts(j) ==
  LET step == jobs[j].step IN
  /\ step \in Unrecorded => \A i \in Entries : ledger[i].job # j
  /\ step \in Holding => \A i \in Entries : ledger[i].job = j => i = Len(ledger)
  /\ step \in Begun => /\ ledger # <<>> /\ Latest.job = j /\ Latest.sha = jobs[j].sha
                       /\ Latest.status \in {"none", "in_progress"}
  /\ StillSo(j)

(* What a rollout has done, and that it goes on with the newest release.   *)
RolloutFacts(j) ==
  LET step == jobs[j].step IN
  /\ jobs[j].sha <= main
  /\ step = "ready" => jobs[j].stage = 1
  /\ step \in {"check", "update"} =>
       \A k \in 1..jobs[j].stage - 1 : \A s \in Stages[k] :
         want[s] = jobs[j].sha /\ running[s] = jobs[j].sha
  /\ step = "update" => /\ jobs[j].todo \subseteq Stages[jobs[j].stage]
                        /\ AllowsRollout(jobs[j].sha)
                        /\ \A s \in Services : want[s] <= jobs[j].sha
                        /\ \A s \in Stages[jobs[j].stage] \ jobs[j].todo : want[s] = jobs[j].sha

JobFacts(j) == TaskFacts(j) /\ ControlFacts(j) /\ LedgerFacts(j) /\ RolloutFacts(j)

FailuresAreOver ==
  \A i \in Entries :
    ledger[i].status = "failure" => ledger[i].job \in Jobs /\ ~Active(ledger[i].job)

SuccessIsTrue == Available => db = TargetRevision /\ AtWork = {}

ChangeInv ==
  /\ \A j \in Jobs : JobFacts(j)
  /\ SuccessIsTrue /\ FailuresAreOver
  /\ \A s \in Services : want[s] <= main

-----------------------------------------------------------------------------
(* Changes of one job                                                      *)

Others(j) == \A i \in Jobs \ {j} : jobs'[i] = jobs[i]

(* What a migration was approved for: nothing, for a rollout.              *)
SamePlan(q, r) == r.mode = q.mode /\ r.sha = q.sha /\ r.start = q.start
Approved(r) ==
  /\ r.mode # "verify" => r.start # NoRevision /\ MayApply(r.mode, Pending(r.start, r.sha))
  /\ r.mode = "contract" => r.sha \notin Runtime /\ r.start = HeadOf[r.sha - 1]

Kept(j) ==
  /\ SamePlan(jobs[j], jobs'[j]) /\ jobs'[j].sha = jobs[j].sha
  /\ jobs'[j].baseline = jobs[j].baseline /\ jobs'[j].requested = jobs[j].requested
  /\ jobs'[j].state = jobs[j].state /\ jobs'[j].stage = jobs[j].stage

JobChange(j) == jobs' \in [Jobs -> JobStates] /\ Others(j)

(* The steps of a run that change nothing but its own state.               *)
JobMove(j) ==
  LET from == jobs[j].step
      to   == jobs'[j].step IN
  \/ /\ from = "idle" /\ to = "ready" /\ UNCHANGED holder
     /\ jobs'[j].sha <= main /\ jobs'[j].stage = 1 /\ Approved(jobs'[j])
  \/ /\ from = "ready" /\ to \in {"preflight", "check"} /\ Kept(j)
     /\ holder = 0 /\ holder' = j
  \/ /\ from \in Holding /\ Kept(j) /\ UNCHANGED holder
     /\ \/ from = "preflight" /\ to = "begin" /\ ActiveTasks = {}
        \/ /\ from = "begin" /\ to = "create"
           /\ MayBegin(jobs[j].baseline, jobs[j].mode, jobs[j].start)
        \/ from = "save" /\ to = "launch"
        \/ from = "wait" /\ to = "record" /\ ~Active(j) /\ tasks[j].exit = Success
        \/ from = "record" /\ to = "success" /\ Unfinished(j)
        \/ from = "conclude" /\ to = "report" /\ OutcomeKnown(j) /\ Unfinished(j)
        \/ to \in {"failed", "cleanup", "stop"}
        \/ to = "conclude" /\ (jobs[j].state = "none" \/ ~Active(j))
        \/ to = "conclude" /\ ~jobs[j].requested
        \/ /\ from = "check" /\ to = "update" /\ ReleaseAllowed(jobs[j].sha)
           /\ jobs'[j].todo = Stages[jobs[j].stage]
  \/ /\ from = "update" /\ to = "check" /\ UNCHANGED holder
     /\ jobs[j].todo = {} /\ Converged(j)
     /\ jobs'[j].stage = jobs[j].stage + 1 /\ jobs'[j].sha = jobs[j].sha
     /\ jobs'[j].requested = jobs[j].requested /\ SamePlan(jobs[j], jobs'[j])
  \/ /\ from \in Holding /\ to = "over" /\ holder' = 0
     /\ jobs'[j].sha = 1 /\ Approved(jobs'[j])

JobOnly(j) ==
  /\ UNCHANGED <<main, ledger, db, lock, tasks, want, running>>
  /\ JobChange(j) /\ JobMove(j) /\ faults' \in 0..MaxFaults

(* Fields of a job's state that a setter leaves alone.                     *)
SameBut(q, r) ==
  /\ r \in JobStates /\ SamePlan(q, r)
  /\ r.sha = q.sha /\ r.requested = q.requested /\ r.state = q.state
  /\ r.stage = q.stage /\ r.baseline = q.baseline

LEMMA SetStep ==
  ASSUME NEW q \in JobStates, NEW step \in Steps
  PROVE  LET r == [q EXCEPT !.step = step]
         IN SameBut(q, r) /\ r.step = step /\ r.todo = q.todo
  BY DEF JobStates, SameBut, SamePlan

LEMMA SetFlags ==
  ASSUME NEW q \in JobStates, NEW b \in BOOLEAN
  PROVE  /\ SameBut(q, [q EXCEPT !.cleaning = b]) /\ [q EXCEPT !.cleaning = b].step = q.step
         /\ SameBut(q, [q EXCEPT !.completing = b]) /\ [q EXCEPT !.completing = b].step = q.step
  BY DEF JobStates, SameBut, SamePlan

LEMMA SetStarted ==
  ASSUME NEW q \in JobStates, NEW v \in {"no", "memory", "saved"}
  PROVE  SameBut(q, [q EXCEPT !.started = v]) /\ [q EXCEPT !.started = v].step = q.step
  BY DEF JobStates, SameBut, SamePlan

LEMMA SetTodo ==
  ASSUME NEW q \in JobStates, NEW v \in SUBSET Services
  PROVE  /\ SameBut(q, [q EXCEPT !.todo = v]) /\ [q EXCEPT !.todo = v].step = q.step
         /\ [q EXCEPT !.todo = v].todo = v
  BY DEF JobStates, SameBut, SamePlan

LEMMA SetStage ==
  ASSUME NEW q \in JobStates, NEW k \in 1..Len(Stages)
  PROVE  LET r == [q EXCEPT !.stage = k]
         IN /\ r \in JobStates /\ r.stage = k /\ r.step = q.step
            /\ r.sha = q.sha /\ r.requested = q.requested /\ SamePlan(q, r)
  BY DEF JobStates, SamePlan

LEMMA JobSet ==
  ASSUME TypeOK, NEW j \in Jobs, NEW r \in JobStates, jobs' = [jobs EXCEPT ![j] = r]
  PROVE  JobChange(j) /\ jobs'[j] = r
<1>1. jobs \in [Jobs -> JobStates]
  BY DEF TypeOK, JobStates
<1>2. QED
  BY <1>1 DEF JobChange, Others

LEMMA JobKept ==
  ASSUME TypeOK, NEW j \in Jobs, NEW r, SameBut(jobs[j], r), jobs' = [jobs EXCEPT ![j] = r]
  PROVE  JobChange(j) /\ Kept(j) /\ jobs'[j] = r
  BY JobSet DEF SameBut, Kept

LEMMA JobState == ASSUME TypeOK, NEW j \in Jobs PROVE jobs[j] \in JobStates
  BY DEF TypeOK, JobStates

LEMMA CleaningEffect ==
  ASSUME TypeOK, NEW j \in Jobs,
         jobs' = [jobs EXCEPT ![j].step = "cleanup", ![j].cleaning = TRUE]
  PROVE  JobChange(j) /\ Kept(j) /\ jobs'[j].step = "cleanup"
<1> DEFINE q == [jobs[j] EXCEPT !.step = "cleanup"]
           r == [q EXCEPT !.cleaning = TRUE]
<1>1. SameBut(jobs[j], q) /\ q.step = "cleanup"
  BY SetStep, JobState DEF Steps
<1>2. jobs' = [jobs EXCEPT ![j] = r]
  BY DEF TypeOK
<1> HIDE DEF q
<1>3. SameBut(jobs[j], r) /\ r.step = "cleanup"
  BY <1>1, SetFlags DEF SameBut, SamePlan
<1>4. QED
  BY <1>2, <1>3, JobKept

LEMMA SavedEffect ==
  ASSUME TypeOK, NEW j \in Jobs, NEW step \in Steps, NEW v \in {"no", "memory", "saved"},
         jobs' = [jobs EXCEPT ![j].step = step, ![j].started = v]
  PROVE  JobChange(j) /\ Kept(j) /\ jobs'[j].step = step
<1> DEFINE q == [jobs[j] EXCEPT !.step = step]
           r == [q EXCEPT !.started = v]
<1>1. SameBut(jobs[j], q) /\ q.step = step
  BY SetStep, JobState
<1>2. jobs' = [jobs EXCEPT ![j] = r]
  BY DEF TypeOK
<1> HIDE DEF q
<1>3. SameBut(jobs[j], r) /\ r.step = step
  BY <1>1, SetStarted DEF SameBut, SamePlan
<1>4. QED
  BY <1>2, <1>3, JobKept

LEMMA CompletingEffect ==
  ASSUME TypeOK, NEW j \in Jobs, NEW step \in Steps,
         jobs' = [jobs EXCEPT ![j].step = step, ![j].completing = TRUE]
  PROVE  JobChange(j) /\ Kept(j) /\ jobs'[j].step = step
<1> DEFINE q == [jobs[j] EXCEPT !.step = step]
           r == [q EXCEPT !.completing = TRUE]
<1>1. SameBut(jobs[j], q) /\ q.step = step
  BY SetStep, JobState
<1>2. jobs' = [jobs EXCEPT ![j] = r]
  BY DEF TypeOK
<1> HIDE DEF q
<1>3. SameBut(jobs[j], r) /\ r.step = step
  BY <1>1, SetFlags DEF SameBut, SamePlan
<1>4. QED
  BY <1>2, <1>3, JobKept

LEMMA UpdateEffect ==
  ASSUME TypeOK, NEW j \in Jobs, NEW v \in SUBSET Services,
         jobs' = [jobs EXCEPT ![j].step = "update", ![j].todo = v]
  PROVE  JobChange(j) /\ Kept(j) /\ jobs'[j].step = "update" /\ jobs'[j].todo = v
<1> DEFINE q == [jobs[j] EXCEPT !.step = "update"]
           r == [q EXCEPT !.todo = v]
<1>1. SameBut(jobs[j], q) /\ q.step = "update"
  BY SetStep, JobState DEF Steps
<1>2. jobs' = [jobs EXCEPT ![j] = r]
  BY DEF TypeOK
<1> HIDE DEF q
<1>3. SameBut(jobs[j], r) /\ r.step = "update" /\ r.todo = v
  BY <1>1, SetTodo DEF SameBut, SamePlan
<1>4. QED
  BY <1>2, <1>3, JobKept

LEMMA NextStageEffect ==
  ASSUME TypeOK, NEW j \in Jobs, jobs[j].stage + 1 \in 1..Len(Stages),
         jobs' = [jobs EXCEPT ![j].step = "check", ![j].stage = @ + 1]
  PROVE  /\ JobChange(j) /\ jobs'[j].step = "check" /\ jobs'[j].stage = jobs[j].stage + 1
         /\ jobs'[j].sha = jobs[j].sha /\ jobs'[j].requested = jobs[j].requested
         /\ SamePlan(jobs[j], jobs'[j])
<1> DEFINE q == [jobs[j] EXCEPT !.step = "check"]
           r == [q EXCEPT !.stage = jobs[j].stage + 1]
<1>1. SameBut(jobs[j], q) /\ q.step = "check"
  BY SetStep, JobState DEF Steps
<1>2. jobs' = [jobs EXCEPT ![j] = r]
  BY DEF TypeOK
<1> HIDE DEF q
<1>3. /\ r \in JobStates /\ r.step = "check" /\ r.stage = jobs[j].stage + 1
      /\ r.sha = jobs[j].sha /\ r.requested = jobs[j].requested /\ SamePlan(jobs[j], r)
  BY <1>1, SetStage DEF SameBut, SamePlan
<1> HIDE DEF r
<1>4. QED
  BY <1>2, <1>3, JobSet

LEMMA GotoEffect ==
  ASSUME TypeOK, NEW j \in Jobs, NEW step \in Steps, Goto(j, step)
  PROVE  /\ JobChange(j) /\ Kept(j) /\ jobs'[j].step = step /\ jobs'[j].todo = jobs[j].todo
<1> DEFINE r == [jobs[j] EXCEPT !.step = step]
<1>1. SameBut(jobs[j], r) /\ r.step = step /\ r.todo = jobs[j].todo
  BY SetStep, JobState
<1>2. jobs' = [jobs EXCEPT ![j] = r]
  BY DEF Goto
<1>3. QED
  BY <1>1, <1>2, JobKept

LEMMA OverEffect ==
  ASSUME TypeOK, NEW j \in Jobs, Over(j)
  PROVE  /\ JobChange(j) /\ jobs'[j].step = "over" /\ jobs'[j].sha = 1 /\ holder' = 0
         /\ Approved(jobs'[j])
<1> DEFINE r == [NoJob EXCEPT !.step = "over"]
<1>1. r \in JobStates /\ r.step = "over" /\ r.sha = 1 /\ r.mode = "verify"
  BY NoJobType DEF JobStates, Steps, NoJob
<1>2. jobs' = [jobs EXCEPT ![j] = r] /\ holder' = 0
  BY DEF Over
<1> HIDE DEF r
<1>3. jobs \in [Jobs -> JobStates]
  BY DEF TypeOK, JobStates
<1>4. QED
  BY <1>1, <1>2, <1>3 DEF JobChange, Others, Approved

LEMMA FaultTypes ==
  ASSUME TypeOK, Fault \/ UNCHANGED faults
  PROVE  faults' \in 0..MaxFaults
<1>1. faults \in 0..MaxFaults
  BY DEF TypeOK
<1>2. QED
  BY <1>1, RolloutAssumption DEF Fault

LEMMA DispatchEffect ==
  ASSUME TypeOK, NEW j \in Jobs, Dispatch(j)
  PROVE  JobOnly(j)
<1>0. jobs \in [Jobs -> JobStates] /\ main \in Commits
  BY DEF TypeOK, JobStates
<1>1. ASSUME NEW c \in Commits, NEW mode \in Modes, DispatchMigration(j, c, mode)
      PROVE  JobOnly(j)
  <2> DEFINE r == [NoJob EXCEPT !.kind = "migrate", !.step = "ready", !.mode = mode, !.sha = c,
                                !.baseline = Baseline, !.start = TargetRevision]
  <2>1. Baseline \in Nat \X Statuses /\ TargetRevision \in 0..Len(KindOf)
    <3>1. ledger \in Seq(Deployments) /\ Len(ledger) \in Nat
      BY DEF TypeOK
    <3>2. ledger # <<>> => Latest \in Deployments
      BY <3>1 DEF Latest, Last
    <3>3. QED
      BY <3>1, <3>2, ConstantFacts
      DEF Baseline, TargetRevision, Available, NoRevision, Deployments, Statuses
  <2>2. /\ r \in JobStates /\ r.step = "ready" /\ r.sha = c /\ r.stage = 1
        /\ r.mode = mode /\ r.start = TargetRevision
    <3> HIDE DEF Baseline, TargetRevision
    <3>1. QED
      BY <2>1, NoJobType DEF JobStates, Steps, NoJob
  <2>3. jobs' = [jobs EXCEPT ![j] = r]
    BY <1>1 DEF DispatchMigration
  <2> HIDE DEF r
  <2>4. JobChange(j) /\ jobs'[j] = r
    BY <1>0, <2>2, <2>3 DEF JobChange, Others
  <2>5. MayPrepare(c, mode) /\ UNCHANGED faults
    BY <1>1 DEF DispatchMigration
  <2>6. Approved(r)
    <3>1. Available => TargetRevision # NoRevision
      <4>1. ledger # <<>> => Latest \in Deployments
        BY DEF TypeOK, Latest, Last
      <4>2. QED
        BY <4>1, ConstantFacts
        DEF Available, TargetRevision, NoRevision, Deployments, Revisions
    <3>2. mode # "verify" => Available /\ MayApply(mode, Pending(TargetRevision, c))
      BY <2>5 DEF MayPrepare
    <3>3. mode = "contract" => c \notin Runtime /\ TargetRevision = HeadOf[c - 1]
      BY <2>5 DEF MayPrepare, ContractComesAlone, AllowsRollout
    <3>4. QED
      BY <2>2, <3>1, <3>2, <3>3 DEF Approved
  <2>7. QED
    BY <1>1, <2>2, <2>4, <2>5, <2>6, FaultTypes
    DEF DispatchMigration, MayPrepare, NextJob, At, JobOnly, JobMove
<1>2. CASE DispatchRollout(j)
  <2> DEFINE r == [NoJob EXCEPT !.kind = "rollout", !.step = "ready", !.sha = main]
  <2>1. /\ r \in JobStates /\ r.step = "ready" /\ r.sha = main /\ r.stage = 1
        /\ r.mode = "verify"
    BY <1>0, NoJobType DEF JobStates, Steps, NoJob
  <2>2. jobs' = [jobs EXCEPT ![j] = r]
    BY <1>2 DEF DispatchRollout
  <2> HIDE DEF r
  <2>3. JobChange(j) /\ jobs'[j] = r
    BY <1>0, <2>1, <2>2 DEF JobChange, Others
  <2>4. main <= main
    BY <1>0, ConstantFacts
  <2>5. QED
    BY <1>2, <2>1, <2>3, <2>4, FaultTypes
    DEF DispatchRollout, NextJob, At, JobOnly, JobMove, Approved
<1>3. QED
  BY <1>1, <1>2 DEF Dispatch

LEMMA TakeGroupEffect ==
  ASSUME TypeOK, NEW j \in Jobs, TakeGroup(j)
  PROVE  JobOnly(j)
  BY GotoEffect, FaultTypes DEF TakeGroup, GroupFree, At, JobOnly, JobMove, Steps, ControllerSteps

LEMMA ToCleanupEffect ==
  ASSUME TypeOK, NEW j \in Jobs, ToCleanup(j)
  PROVE  /\ JobChange(j)
         /\ \/ /\ jobs'[j].step = "over" /\ jobs'[j].sha = 1 /\ holder' = 0
               /\ Approved(jobs'[j])
            \/ jobs'[j].step = "cleanup" /\ UNCHANGED holder /\ Kept(j)
<1>1. CASE jobs[j].cleaning
  BY <1>1, OverEffect DEF ToCleanup
<1>2. CASE ~jobs[j].cleaning
  <2>1. jobs \in [Jobs -> JobStates] /\ "cleanup" \in Steps
    BY DEF TypeOK, JobStates, Steps
  <2>2. jobs' = [jobs EXCEPT ![j].step = "cleanup", ![j].cleaning = TRUE] /\ UNCHANGED holder
    BY <1>2 DEF ToCleanup
  <2>3. QED
    BY <2>2, CleaningEffect
<1>3. QED
  BY <1>1, <1>2

(* The controller's and the rollout's steps that only move the job.        *)
LEMMA PlainEffect ==
  ASSUME TypeOK, NEW j \in Jobs,
         \/ Preflight(j) \/ Begin(j) \/ SaveAttempt(j) \/ Wait(j) \/ ConfirmAttempt(j)
         \/ Interrupt(j) \/ Die(j) \/ CleanupMigration(j) \/ SkipCleanup(j)
         \/ Stopped(j) \/ CleanupFails(j) \/ Conclude(j)
         \/ CheckRelease(j) \/ VerifyStage(j) \/ RolloutFails(j)
  PROVE  JobOnly(j)
<1> USE DEF At
<1>0. jobs \in [Jobs -> JobStates] /\ \A x \in ControllerSteps \cup FailureSteps \cup
        {"check", "update", "cleanup"} : x \in Steps /\ x \in Holding
  BY DEF TypeOK, JobStates, Steps, Holding, ControllerSteps, FailureSteps
<1>1. CASE Preflight(j)
  <2>1. PICK to \in {"begin", "failed"} :
          Goto(j, to) /\ (to = "begin" => ActiveTasks = {})
    BY <1>1 DEF Preflight
  <2>2. JobChange(j) /\ Kept(j) /\ jobs'[j].step = to
    BY <1>0, <2>1, GotoEffect DEF ControllerSteps, FailureSteps
  <2>3. QED
    BY <1>0, <1>1, <2>1, <2>2, FaultTypes DEF Preflight, JobOnly, JobMove, ControllerSteps
<1>2. CASE SaveAttempt(j)
  <2>1. jobs' = [jobs EXCEPT ![j].step = "launch", ![j].started = "saved"]
    BY <1>2 DEF SaveAttempt
  <2>2. JobChange(j) /\ Kept(j) /\ jobs'[j].step = "launch"
    BY <2>1, SavedEffect DEF Steps, ControllerSteps
  <2>3. QED
    BY <1>0, <1>2, <2>2, FaultTypes DEF SaveAttempt, JobOnly, JobMove, ControllerSteps
<1>3. CASE Wait(j)
  <2>1. PICK to \in {"record", "failed"} :
          Goto(j, to) /\ (to = "record" => ~Active(j) /\ tasks[j].exit = Success)
    BY <1>3 DEF Wait
  <2>2. JobChange(j) /\ Kept(j) /\ jobs'[j].step = to
    BY <1>0, <2>1, GotoEffect DEF ControllerSteps, FailureSteps
  <2>3. QED
    BY <1>0, <1>3, <2>1, <2>2, FaultTypes DEF Wait, JobOnly, JobMove, ControllerSteps
<1>4. CASE Interrupt(j)
  BY <1>0, <1>4, GotoEffect, FaultTypes DEF Interrupt, JobOnly, JobMove, FailureSteps
<1>5. CASE Die(j)
  <2>1. jobs[j].step \in Holding
    BY <1>0, <1>5 DEF Die
  <2>2. CASE Over(j)
    BY <1>5, <2>1, <2>2, OverEffect, FaultTypes DEF Die, JobOnly, JobMove
  <2>3. CASE /\ jobs' = [jobs EXCEPT ![j].step = "cleanup", ![j].cleaning = TRUE]
             /\ UNCHANGED holder
    <3>1. JobChange(j) /\ Kept(j) /\ jobs'[j].step = "cleanup"
      BY <2>3, CleaningEffect
    <3>2. QED
      BY <1>5, <2>1, <2>3, <3>1, FaultTypes DEF Die, JobOnly, JobMove
  <2>4. QED
    BY <1>5, <2>2, <2>3 DEF Die
<1>6. CASE CleanupMigration(j)
  <2>1. PICK to \in {"stop", "conclude"} :
          Goto(j, to) /\ (to = "conclude" => jobs[j].state = "none") /\ UNCHANGED holder
    BY <1>6 DEF CleanupMigration
  <2>2. JobChange(j) /\ Kept(j) /\ jobs'[j].step = to
    BY <1>0, <2>1, GotoEffect DEF FailureSteps
  <2>3. QED
    BY <1>0, <1>6, <2>1, <2>2, FaultTypes DEF CleanupMigration, JobOnly, JobMove, FailureSteps
<1>7. CASE SkipCleanup(j)
  BY <1>0, <1>7, GotoEffect, FaultTypes DEF SkipCleanup, JobOnly, JobMove, FailureSteps
<1>8. CASE Stopped(j)
  BY <1>0, <1>8, GotoEffect, FaultTypes DEF Stopped, JobOnly, JobMove, FailureSteps
<1>9. CASE CleanupFails(j)
  BY <1>0, <1>9, ToCleanupEffect, FaultTypes DEF CleanupFails, JobOnly, JobMove, FailureSteps
<1>10. CASE CheckRelease(j)
  <2>1. CASE ReleaseAllowed(jobs[j].sha)
    <3>1. /\ jobs' = [jobs EXCEPT ![j].step = "update", ![j].todo = Stages[jobs[j].stage]]
          /\ UNCHANGED holder
      BY <1>10, <2>1 DEF CheckRelease
    <3>2. Stages[jobs[j].stage] \in SUBSET Services
      BY <1>0 DEF JobStates, Services
    <3>3. JobChange(j) /\ Kept(j) /\ jobs'[j].step = "update"
            /\ jobs'[j].todo = Stages[jobs[j].stage]
      BY <3>1, <3>2, UpdateEffect
    <3>4. QED
      BY <1>0, <1>10, <2>1, <3>1, <3>3, FaultTypes DEF CheckRelease, JobOnly, JobMove
  <2>2. CASE ~ReleaseAllowed(jobs[j].sha)
    BY <1>0, <1>10, <2>2, OverEffect, FaultTypes DEF CheckRelease, JobOnly, JobMove
  <2>3. QED
    BY <2>1, <2>2
<1>11. CASE VerifyStage(j)
  <2>1. CASE LastStage(j)
    BY <1>0, <1>11, <2>1, OverEffect, FaultTypes DEF VerifyStage, JobOnly, JobMove
  <2>2. CASE ~LastStage(j)
    <3>1. /\ jobs' = [jobs EXCEPT ![j].step = "check", ![j].stage = @ + 1]
          /\ UNCHANGED holder
      BY <1>11, <2>2 DEF VerifyStage
    <3>2. jobs[j].stage + 1 \in 1..Len(Stages)
      BY <1>0, <2>2, RolloutAssumption DEF JobStates, LastStage
    <3>3. /\ JobChange(j) /\ jobs'[j].step = "check" /\ jobs'[j].stage = jobs[j].stage + 1
          /\ jobs'[j].sha = jobs[j].sha /\ jobs'[j].requested = jobs[j].requested
          /\ SamePlan(jobs[j], jobs'[j])
      BY <3>1, <3>2, NextStageEffect
    <3>4. QED
      BY <1>0, <1>11, <3>1, <3>3, FaultTypes DEF VerifyStage, JobOnly, JobMove
  <2>3. QED
    BY <2>1, <2>2
<1>12. CASE RolloutFails(j)
  BY <1>0, <1>12, OverEffect, FaultTypes DEF RolloutFails, JobOnly, JobMove
<1>13. CASE Begin(j)
  <2>1. PICK to \in {"create", "failed"} :
          /\ Goto(j, to)
          /\ to = "create" => MayBegin(jobs[j].baseline, jobs[j].mode, jobs[j].start)
    BY <1>13 DEF Begin
  <2>2. JobChange(j) /\ Kept(j) /\ jobs'[j].step = to
    BY <1>0, <2>1, GotoEffect DEF ControllerSteps, FailureSteps
  <2>3. QED
    BY <1>0, <1>13, <2>1, <2>2, FaultTypes DEF Begin, JobOnly, JobMove, ControllerSteps
<1>14. CASE ConfirmAttempt(j)
  <2>1. PICK to \in {"success", "failed"} :
          /\ jobs' = [jobs EXCEPT ![j].step = to, ![j].completing = TRUE]
          /\ to = "success" => Unfinished(j)
    BY <1>14 DEF ConfirmAttempt
  <2>2. JobChange(j) /\ Kept(j) /\ jobs'[j].step = to
    BY <1>0, <2>1, CompletingEffect DEF ControllerSteps, FailureSteps
  <2>3. QED
    BY <1>0, <1>14, <2>1, <2>2, FaultTypes DEF ConfirmAttempt, JobOnly, JobMove, ControllerSteps
<1>15. CASE Conclude(j)
  <2>1. CASE OutcomeKnown(j) /\ Unfinished(j)
    <3>1. Goto(j, "report") /\ UNCHANGED holder
      BY <1>15, <2>1 DEF Conclude
    <3>2. JobChange(j) /\ Kept(j) /\ jobs'[j].step = "report"
      BY <1>0, <3>1, GotoEffect DEF FailureSteps
    <3>3. QED
      BY <1>0, <1>15, <2>1, <3>1, <3>2, FaultTypes DEF Conclude, JobOnly, JobMove, FailureSteps
  <2>2. CASE ~(OutcomeKnown(j) /\ Unfinished(j))
    <3>1. ToCleanup(j)
      BY <1>15, <2>2 DEF Conclude
    <3>2. QED
      BY <1>0, <1>15, <3>1, ToCleanupEffect, FaultTypes
      DEF Conclude, JobOnly, JobMove, FailureSteps
  <2>3. QED
    BY <2>1, <2>2
<1>16. QED
  BY <1>1, <1>2, <1>3, <1>4, <1>5, <1>6, <1>7, <1>8, <1>9, <1>10, <1>11, <1>12, <1>13, <1>14,
     <1>15

LEMMA SetRequested ==
  ASSUME NEW q \in JobStates, NEW v \in {"none", "file", "known"}
  PROVE  LET r == [q EXCEPT !.requested = TRUE, !.state = v]
         IN /\ r \in JobStates /\ r.requested = TRUE /\ r.state = v /\ r.step = q.step
            /\ r.sha = q.sha /\ r.stage = q.stage /\ SamePlan(q, r)
  BY DEF JobStates, SamePlan

LEMMA LaunchedEffect ==
  ASSUME TypeOK, NEW j \in Jobs, NEW v \in {"none", "file", "known"}, NEW step \in Steps,
         jobs' = [jobs EXCEPT ![j].requested = TRUE, ![j].state = v, ![j].step = step]
  PROVE  /\ JobChange(j) /\ jobs'[j].step = step /\ jobs'[j].requested = TRUE
         /\ jobs'[j].state = v /\ jobs'[j].sha = jobs[j].sha /\ jobs'[j].stage = jobs[j].stage
         /\ SamePlan(jobs[j], jobs'[j])
<1> DEFINE q == [jobs[j] EXCEPT !.requested = TRUE, !.state = v]
           r == [q EXCEPT !.step = step]
<1>1. /\ q \in JobStates /\ q.requested = TRUE /\ q.state = v
      /\ q.sha = jobs[j].sha /\ q.stage = jobs[j].stage /\ SamePlan(jobs[j], q)
  BY SetRequested, JobState
<1>2. jobs' = [jobs EXCEPT ![j] = r]
  BY DEF TypeOK
<1> HIDE DEF q
<1>3. SameBut(q, r) /\ r.step = step
  BY <1>1, SetStep
<1> HIDE DEF r
<1>4. JobChange(j) /\ jobs'[j] = r
  BY <1>2, <1>3, JobSet DEF SameBut
<1>5. QED
  BY <1>1, <1>3, <1>4 DEF SameBut, SamePlan

LEMMA TodoEffect ==
  ASSUME TypeOK, NEW j \in Jobs, NEW s \in Services,
         jobs' = [jobs EXCEPT ![j].todo = @ \ {s}]
  PROVE  /\ JobChange(j) /\ Kept(j) /\ jobs'[j].step = jobs[j].step
         /\ jobs'[j].todo = jobs[j].todo \ {s}
<1> DEFINE v == jobs[j].todo \ {s}
           r == [jobs[j] EXCEPT !.todo = v]
<1>1. v \in SUBSET Services
  BY JobState DEF JobStates
<1>2. jobs' = [jobs EXCEPT ![j] = r]
  BY DEF TypeOK
<1> HIDE DEF v
<1>3. SameBut(jobs[j], r) /\ r.step = jobs[j].step /\ r.todo = v
  BY <1>1, SetTodo, JobState
<1>4. QED
  BY <1>2, <1>3, JobKept DEF v

-----------------------------------------------------------------------------
(* The ledger                                                              *)

LEMMA LedgerTypes ==
  ASSUME TypeOK
  PROVE  /\ ledger \in Seq(Deployments) /\ Len(ledger) \in Nat
         /\ \A i \in Entries : ledger[i] \in Deployments
         /\ ledger # <<>> => Len(ledger) \in Entries /\ Latest = ledger[Len(ledger)]
  BY DEF TypeOK, Entries, Latest, Last

(* A new record is the last one; nothing else changes.                     *)
LEMMA AppendEffect ==
  ASSUME TypeOK, NEW j \in Jobs, NEW c \in Commits,
         ledger' = Append(ledger, Recorded(j, c))
  PROVE  /\ ledger' \in Seq(Deployments) /\ ledger' # <<>>
         /\ Len(ledger') = Len(ledger) + 1
         /\ \A i \in Entries : ledger'[i] = ledger[i]
         /\ Latest' = Recorded(j, c) /\ ledger'[Len(ledger')] = Recorded(j, c)
<1>1. Recorded(j, c) \in Deployments
  BY DEF Recorded, Deployments, Statuses, Jobs
<1>2. QED
  BY <1>1, LedgerTypes DEF Entries, Latest, Last

LEMMA StatusEffect ==
  ASSUME TypeOK, ledger # <<>>, NEW status \in Statuses,
         ledger' = [ledger EXCEPT ![Len(ledger)].status = status]
  PROVE  /\ ledger' \in Seq(Deployments) /\ ledger' # <<>>
         /\ Len(ledger') = Len(ledger)
         /\ \A i \in Entries : /\ ledger'[i].job = ledger[i].job
                               /\ i # Len(ledger) => ledger'[i] = ledger[i]
         /\ Latest' = ledger'[Len(ledger)]
         /\ Latest'.job = Latest.job /\ Latest'.sha = Latest.sha
         /\ Latest'.status = status
<1>1. Latest \in Deployments
  BY LedgerTypes
<1> DEFINE r == [Latest EXCEPT !.status = status]
<1>2. r \in Deployments /\ r.job = Latest.job /\ r.sha = Latest.sha /\ r.status = status
  BY <1>1 DEF Deployments
<1>3. ledger' = [ledger EXCEPT ![Len(ledger)] = r]
  BY LedgerTypes
<1> HIDE DEF r
<1>4. /\ ledger' \in Seq(Deployments) /\ Len(ledger') = Len(ledger)
      /\ ledger'[Len(ledger)] = r
      /\ \A i \in Entries : i # Len(ledger) => ledger'[i] = ledger[i]
  BY <1>2, <1>3, LedgerTypes DEF Entries
<1>5. Latest' = r /\ ledger' # <<>>
  BY <1>4, LedgerTypes DEF Latest, Last, Entries
<1>6. QED
  BY <1>2, <1>4, <1>5, LedgerTypes DEF Entries

(* A run whose only record is the latest writes the latest status.         *)
LEMMA WrittenLast ==
  ASSUME TypeOK, NEW j \in Jobs, NEW status \in Statuses, NEW outcome \in Outcomes,
         ledger # <<>>, Latest.job = j, \A k \in Entries : ledger[k].job = j => k = Len(ledger),
         WriteStatus(j, status, outcome)
  PROVE  /\ \/ UNCHANGED ledger
            \/ ledger' = [ledger EXCEPT ![Len(ledger)].status = status]
         /\ outcome # "lost" => ledger' = [ledger EXCEPT ![Len(ledger)].status = status]
<1> DEFINE written == [i \in 1..Len(ledger) |->
             IF ledger[i].job = j THEN [ledger[i] EXCEPT !.status = status] ELSE ledger[i]]
           marked == [ledger EXCEPT ![Len(ledger)].status = status]
<1>1. DOMAIN ledger = 1..Len(ledger) /\ ledger[Len(ledger)].job = j /\ Len(ledger) \in Entries
  BY LedgerTypes
<1>2. ASSUME NEW i \in 1..Len(ledger) PROVE written[i] = marked[i]
  <2>1. CASE i = Len(ledger)
    BY <1>1, <2>1
  <2>2. CASE i # Len(ledger)
    BY <1>1, <2>2 DEF Entries
  <2>3. QED
    BY <2>1, <2>2
<1>3. written = marked
  BY <1>1, <1>2
<1>4. QED
  BY <1>3 DEF WriteStatus, Post

-----------------------------------------------------------------------------
(* What a step of one run leaves true of the others                        *)

LEMMA TypeParts ==
  TypeOK <=>
    /\ main \in Commits /\ ledger \in Seq(Deployments)
    /\ db \in Revisions /\ lock \in 0..MaxJobs
    /\ tasks \in [Jobs -> TaskStates] /\ jobs \in [Jobs -> JobStates]
    /\ holder \in 0..MaxJobs /\ faults \in 0..MaxFaults
    /\ want \in [Services -> Commits] /\ running \in [Services -> Commits]
  BY DEF TypeOK, TaskStates, JobStates

LEMMA TypeStep ==
  ASSUME TypeOK,
         main' \in Commits, ledger' \in Seq(Deployments), db' \in Revisions,
         lock' \in 0..MaxJobs, tasks' \in [Jobs -> TaskStates], jobs' \in [Jobs -> JobStates],
         holder' \in 0..MaxJobs, faults' \in 0..MaxFaults,
         want' \in [Services -> Commits], running' \in [Services -> Commits]
  PROVE  TypeOK'
  BY DEF TypeOK, TaskStates, JobStates

LEMMA StepSets ==
  /\ {"preflight", "begin", "create", "mark", "save", "launch", "wait", "record", "success",
      "failed", "stop", "conclude", "report", "check", "update", "verify", "cleanup"} = Holding
  /\ "idle" \notin Holding /\ "ready" \notin Holding /\ "over" \notin Holding
  /\ Holding \subseteq Steps
  BY DEF Holding, Steps, ControllerSteps, FailureSteps

LEMMA HolderIsAlone ==
  ASSUME TypeOK, ChangeInv, NEW j \in Jobs, jobs[j].step \in Holding, NEW i \in Jobs \ {j}
  PROVE  holder = j /\ jobs[i].step \in {"idle", "ready", "over"}
<1>1. \A k \in Jobs : jobs[k].step \in Holding => holder = k
  BY DEF ChangeInv, JobFacts, ControlFacts
<1>2. jobs[i].step \in Steps
  BY JobState DEF JobStates
<1>3. QED
  BY <1>1, <1>2 DEF Holding

(* A step of the holder: what the others have and wait for is as it was.   *)
LEMMA OtherFacts ==
  ASSUME TypeOK, ChangeInv, NEW j \in Jobs, jobs[j].step \in Holding, NEW i \in Jobs \ {j},
         jobs'[i] = jobs[i], tasks'[i] = tasks[i], lock' = lock, db' = db, main' = main,
         \A k \in Entries' : ledger'[k].job = i => \E l \in Entries : ledger[l].job = i
  PROVE  JobFacts(i)'
<1>1. jobs[i].step \in {"idle", "ready", "over"}
  BY HolderIsAlone
<1>2. jobs[i].step \notin Holding
  BY <1>1 DEF Holding
<1>3. JobFacts(i)
  BY DEF ChangeInv
<1>4. TaskFacts(i)'
  BY <1>3 DEF JobFacts, TaskFacts, Active
<1>5. ControlFacts(i)'
  BY <1>1, <1>2 DEF ControlFacts
<1>6. LedgerFacts(i)'
  BY <1>1, <1>2, <1>3 DEF JobFacts, LedgerFacts, StillSo, At, Unrecorded, Begun
<1>7. RolloutFacts(i)'
  BY <1>1, <1>3 DEF JobFacts, RolloutFacts
<1>8. QED
  BY <1>4, <1>5, <1>6, <1>7 DEF JobFacts

LEMMA LedgerFactsKept ==
  ASSUME NEW j \in Jobs, UNCHANGED ledger, jobs'[j] = jobs[j], LedgerFacts(j)
  PROVE  LedgerFacts(j)'
  BY DEF LedgerFacts, StillSo, At, MayBegin, Baseline, Available, TargetRevision, Unfinished,
         Mine, Latest, Last, Entries

LEMMA JobMoveOthers ==
  ASSUME TypeOK, ChangeInv, NEW j \in Jobs, JobOnly(j), NEW i \in Jobs \ {j}
  PROVE  JobFacts(i)'
<1>1. /\ jobs'[i] = jobs[i]
      /\ UNCHANGED <<main, ledger, db, lock, tasks, want, running>>
  BY DEF JobOnly, JobChange, Others
<1>2. JobFacts(i)
  BY DEF ChangeInv
<1>3. jobs[i].step \in Holding => holder' = i
  <2>1. ASSUME jobs[i].step \in Holding PROVE holder = i /\ i # 0
    BY <1>2, <2>1 DEF JobFacts, ControlFacts, Jobs
  <2>2. ASSUME jobs[i].step \in Holding PROVE jobs[j].step \in {"idle", "ready", "over"}
    BY <2>2, HolderIsAlone
  <2>3. ASSUME jobs[i].step \in Holding PROVE UNCHANGED holder
    BY <2>1, <2>2, <2>3, StepSets DEF JobOnly, JobMove
  <2>4. QED
    BY <2>1, <2>3
<1>4. TaskFacts(i)'
  BY <1>1, <1>2 DEF JobFacts, TaskFacts, Active
<1>5. ControlFacts(i)'
  BY <1>1, <1>2, <1>3 DEF JobFacts, ControlFacts, Active, ActiveTasks, AtWork
<1>6. LedgerFacts(i)'
  BY <1>1, <1>2, LedgerFactsKept DEF JobFacts
<1>7. RolloutFacts(i)'
  BY <1>1, <1>2 DEF JobFacts, RolloutFacts, AllowsRollout, Available, TargetRevision, Latest, Last
<1>8. QED
  BY <1>4, <1>5, <1>6, <1>7 DEF JobFacts

LEMMA JobMoveOwn ==
  ASSUME TypeOK, ChangeInv, NEW j \in Jobs, JobOnly(j)
  PROVE  JobFacts(j)'
<1> USE StepSets
<1>1. JobFacts(j) /\ JobMove(j) /\ UNCHANGED <<main, ledger, db, lock, tasks, want, running>>
  BY DEF ChangeInv, JobOnly
<1>2. TaskFacts(j)'
  <2>1. UNCHANGED <<lock, db, tasks>> /\ TaskFacts(j)
    BY <1>1 DEF JobFacts
  <2>2. ASSUME jobs'[j].step \in PreLaunch \/ (jobs'[j].step # "over" /\ ~jobs'[j].requested)
        PROVE  jobs[j].step \in PreLaunch \/ (jobs[j].step # "over" /\ ~jobs[j].requested)
    BY <1>1, <2>2 DEF JobMove, Kept, PreLaunch
  <2>3. QED
    BY <2>1, <2>2 DEF TaskFacts, Active
<1>3. ControlFacts(j)'
  <2>1. ControlFacts(j) /\ TaskFacts(j) /\ UNCHANGED <<lock, db, tasks>>
    BY <1>1 DEF JobFacts
  <2>2. jobs'[j].step \in Holding => holder' = j
    BY <1>1, <2>1 DEF JobMove, ControlFacts
  <2>3. jobs'[j].step \in {"begin", "create", "mark", "save", "launch"} => ActiveTasks = {}
    BY <1>1, <2>1 DEF JobMove, ControlFacts
  <2>4. jobs'[j].step # "wait"
    BY <1>1 DEF JobMove
  <2>5. jobs'[j].step \in {"record", "success"} => AtWork = {} /\ db = HeadOf[jobs'[j].sha]
    <3>1. CASE jobs'[j].step = "record"
      <4>1. /\ jobs[j].step = "wait" /\ ~Active(j) /\ tasks[j].exit = Success
            /\ jobs'[j].sha = jobs[j].sha
        BY <1>1, <3>1 DEF JobMove, Kept
      <4>2. ActiveTasks = {} /\ lock = 0 /\ db = HeadOf[jobs[j].sha]
        BY <2>1, <4>1 DEF ControlFacts, ActiveTasks
      <4>3. QED
        BY <4>1, <4>2 DEF AtWork
    <3>2. CASE jobs'[j].step = "success"
      <4>1. jobs[j].step = "record" /\ jobs'[j].sha = jobs[j].sha
        BY <1>1, <3>2 DEF JobMove, Kept
      <4>2. QED
        BY <2>1, <4>1 DEF ControlFacts
    <3>3. QED
      BY <3>1, <3>2
  <2>6. jobs'[j].step = "conclude" /\ (jobs'[j].state # "none" \/ ~jobs'[j].requested)
          => ~Active(j)
    <3>1. ASSUME jobs'[j].step = "conclude", jobs'[j].state # "none" \/ ~jobs'[j].requested
          PROVE  ~Active(j) \/ (jobs[j].step # "over" /\ ~jobs[j].requested)
      BY <1>1, <3>1 DEF JobMove, Kept
    <3>2. QED
      BY <2>1, <3>1 DEF TaskFacts, Active
  <2>7. jobs'[j].step = "report" => ~Active(j)
    <3>1. ASSUME jobs'[j].step = "report" PROVE jobs[j].step = "conclude" /\ OutcomeKnown(j)
      BY <1>1, <3>1 DEF JobMove
    <3>2. OutcomeKnown(j) => jobs[j].state # "none" \/ ~jobs[j].requested
      BY DEF OutcomeKnown
    <3>3. QED
      BY <2>1, <3>1, <3>2 DEF ControlFacts
  <2>8. QED
    BY <2>1, <2>2, <2>3, <2>4, <2>5, <2>6, <2>7 DEF ControlFacts, ActiveTasks, Active, AtWork
<1>4. LedgerFacts(j)'
  <2>1. UNCHANGED ledger /\ LedgerFacts(j)
    BY <1>1 DEF JobFacts
  <2>2. jobs'[j].step \in Unrecorded => jobs[j].step \in Unrecorded
    BY <1>1 DEF JobMove, Unrecorded
  <2>3. jobs'[j].step \in Holding => jobs[j].step \in Holding \cup Unrecorded
    BY <1>1 DEF JobMove, Unrecorded
  <2>4. jobs'[j].step \in Begun => jobs[j].step \in Begun /\ jobs'[j].sha = jobs[j].sha
    BY <1>1 DEF JobMove, Kept, Begun
  <2>5. StillSo(j)'
    <3>1. jobs'[j].step = "create" =>
            /\ MayBegin(jobs[j].baseline, jobs[j].mode, jobs[j].start)
            /\ jobs'[j].baseline = jobs[j].baseline
            /\ jobs'[j].mode = jobs[j].mode /\ jobs'[j].start = jobs[j].start
      BY <1>1 DEF JobMove, Kept, SamePlan
    <3>2. jobs'[j].step \in {"success", "report"} => Unfinished(j)
      BY <1>1 DEF JobMove
    <3>3. Baseline' = Baseline /\ Available' = Available /\ TargetRevision' = TargetRevision
            /\ Unfinished(j)' = Unfinished(j)
      BY <2>1 DEF Baseline, Available, TargetRevision, Unfinished, Mine, Latest, Last
    <3>4. QED
      BY <3>1, <3>2, <3>3 DEF StillSo, At, MayBegin
  <2>6. QED
    BY <2>1, <2>2, <2>3, <2>4, <2>5 DEF LedgerFacts, Latest, Last, Entries
<1>5. RolloutFacts(j)'
  <2>1. RolloutFacts(j) /\ UNCHANGED <<main, ledger, want, running>>
    BY <1>1 DEF JobFacts
  <2>2. jobs'[j].sha <= main
    <3>1. main \in Commits /\ 1 <= main
      BY DEF TypeOK, Commits
    <3>2. QED
      BY <1>1, <2>1, <3>1 DEF JobMove, Kept, RolloutFacts
  <2>3. jobs'[j].step = "ready" => jobs'[j].stage = 1
    BY <1>1 DEF JobMove
  <2>4. ASSUME jobs'[j].step \in {"check", "update"},
               NEW k \in 1..jobs'[j].stage - 1, NEW s \in Stages[k]
        PROVE  want[s] = jobs'[j].sha /\ running[s] = jobs'[j].sha
    <3>0. jobs[j].stage \in 1..Len(Stages) /\ Len(Stages) \in Nat
      BY JobState, ConstantFacts, RolloutAssumption DEF JobStates
    <3>1. CASE jobs'[j].stage = 1
      BY <2>4, <3>1
    <3>2. CASE /\ jobs[j].step \in {"check", "update"} /\ jobs'[j].sha = jobs[j].sha
               /\ jobs'[j].stage = jobs[j].stage
      BY <2>1, <2>4, <3>2 DEF RolloutFacts
    <3>3. CASE /\ jobs[j].step = "update" /\ jobs[j].todo = {} /\ Converged(j)
               /\ jobs'[j].stage = jobs[j].stage + 1 /\ jobs'[j].sha = jobs[j].sha
      <4>1. CASE k = jobs[j].stage
        BY <2>1, <3>3, <4>1 DEF RolloutFacts, Converged
      <4>2. CASE k # jobs[j].stage
        <5>1. k \in 1..jobs[j].stage - 1
          BY <2>4, <3>0, <3>3, <4>2
        <5>2. QED
          BY <2>1, <3>3, <5>1 DEF RolloutFacts
      <4>3. QED
        BY <4>1, <4>2
    <3>4. QED
      BY <1>1, <2>1, <2>4, <3>1, <3>2, <3>3 DEF JobMove, Kept, RolloutFacts
  <2>5. ASSUME jobs'[j].step = "update"
        PROVE  /\ jobs'[j].todo = Stages[jobs'[j].stage]
               /\ AllowsRollout(jobs'[j].sha)
               /\ \A s \in Services : want[s] <= jobs'[j].sha
    <3>1. /\ jobs'[j].todo = Stages[jobs[j].stage] /\ jobs'[j].stage = jobs[j].stage
          /\ jobs'[j].sha = jobs[j].sha /\ ReleaseAllowed(jobs[j].sha)
      BY <1>1, <2>5 DEF JobMove, Kept
    <3>2. QED
      BY <3>1 DEF ReleaseAllowed, ChangeInv
  <2>6. QED
    BY <2>1, <2>2, <2>3, <2>4, <2>5
    DEF RolloutFacts, AllowsRollout, Available, TargetRevision, Latest, Last
<1>6. QED
  BY <1>2, <1>3, <1>4, <1>5 DEF JobFacts

LEMMA JobOnlyInv ==
  ASSUME TypeOK, ChangeInv, NEW j \in Jobs, JobOnly(j)
  PROVE  TypeOK' /\ ChangeInv'
<1>1. /\ UNCHANGED <<main, ledger, db, lock, tasks, want, running>>
      /\ jobs' \in [Jobs -> JobStates] /\ faults' \in 0..MaxFaults
  BY DEF JobOnly, JobChange
<1>2. holder' \in 0..MaxJobs
  <2>1. holder \in 0..MaxJobs /\ 0 \in 0..MaxJobs /\ j \in 0..MaxJobs
    BY TypeParts, LedgerAssumption DEF Jobs
  <2>2. holder' \in {holder, 0, j}
    BY DEF JobOnly, JobMove
  <2>3. QED
    BY <2>1, <2>2
<1>3. TypeOK'
  BY <1>1, <1>2, TypeParts, TypeStep
<1>4. \A i \in Jobs : JobFacts(i)'
  BY JobMoveOthers, JobMoveOwn
<1>5. SuccessIsTrue' /\ FailuresAreOver' /\ \A s \in Services : want'[s] <= main'
  BY <1>1 DEF ChangeInv, SuccessIsTrue, FailuresAreOver, Available, TargetRevision, Latest,
              Last, AtWork, ActiveTasks, Active, Entries
<1>6. QED
  BY <1>3, <1>4, <1>5 DEF ChangeInv

(* A controller that fails, goes on to clean up or is done knows nothing   *)
(* that has to be kept true.                                               *)
LEMMA GivenUp ==
  ASSUME TypeOK, ChangeInv, NEW j \in Jobs, jobs[j].step \in Holding,
         UNCHANGED <<main, db, lock>>, tasks'[j] = tasks[j],
         \A k \in Entries' : ledger'[k].job = j => k = Len(ledger'),
         \/ jobs'[j].step \in {"failed", "cleanup"} /\ Kept(j) /\ UNCHANGED holder
         \/ jobs'[j].step = "over" /\ jobs'[j].sha = 1
  PROVE  JobFacts(j)'
<1> USE StepSets
<1>1. JobFacts(j)
  BY DEF ChangeInv
<1>2. TaskFacts(j)'
  <2>1. ASSUME jobs'[j].step \in PreLaunch \/ (jobs'[j].step # "over" /\ ~jobs'[j].requested)
        PROVE  jobs[j].step # "over" /\ ~jobs[j].requested
    BY <2>1 DEF Kept, PreLaunch
  <2>2. QED
    BY <1>1, <2>1 DEF JobFacts, TaskFacts, Active
<1>3. ControlFacts(j)'
  BY <1>1 DEF JobFacts, ControlFacts
<1>4. LedgerFacts(j)'
  BY DEF LedgerFacts, StillSo, At, Unrecorded, Begun
<1>5. RolloutFacts(j)'
  <2>1. 1 <= main
    BY DEF TypeOK, Commits
  <2>2. QED
    BY <1>1, <2>1 DEF JobFacts, RolloutFacts, Kept
<1>6. QED
  BY <1>2, <1>3, <1>4, <1>5 DEF JobFacts

LEMMA CostTypes ==
  ASSUME TypeOK, NEW outcome, CostOf(outcome)
  PROVE  faults' \in 0..MaxFaults
  BY FaultTypes DEF CostOf

LEMMA CreateInv ==
  ASSUME TypeOK, ChangeInv, NEW j \in Jobs, NEW outcome \in Outcomes, Create(j, outcome)
  PROVE  TypeOK' /\ ChangeInv'
<1> USE StepSets DEF At
<1>1. /\ jobs[j].step = "create" /\ jobs[j].step \in Holding
      /\ UNCHANGED <<main, db, lock, tasks, holder, want, running>>
  BY DEF Create
<1>2. JobFacts(j) /\ jobs[j].sha \in Commits
  BY JobState DEF ChangeInv, JobStates
<1>3. PICK to \in {"mark", "failed"} :
        /\ Goto(j, to)
        /\ \/ ledger' = Append(ledger, Recorded(j, jobs[j].sha))
           \/ UNCHANGED ledger /\ to = "failed"
        /\ faults' \in 0..MaxFaults
  BY CostTypes DEF Create, CreateDeployment, Post
<1>4. JobChange(j) /\ Kept(j) /\ jobs'[j].step = to
  BY <1>3, GotoEffect
<1>5. ledger' \in Seq(Deployments)
  BY <1>2, <1>3, AppendEffect, LedgerTypes
<1>6. TypeOK'
  BY <1>1, <1>3, <1>4, <1>5, TypeParts, TypeStep DEF JobChange
<1>7. ASSUME NEW i \in Jobs \ {j}, NEW k \in Entries', ledger'[k].job = i
      PROVE  \E l \in Entries : ledger[l].job = i
  <2>1. CASE ledger' = Append(ledger, Recorded(j, jobs[j].sha))
    <3>1. k = Len(ledger) + 1 => ledger'[k].job = j
      BY <1>2, <2>1, AppendEffect DEF Recorded
    <3>2. k # Len(ledger) + 1 => k \in Entries /\ ledger'[k] = ledger[k]
      BY <1>2, <1>7, <2>1, AppendEffect, LedgerTypes DEF Entries
    <3>3. QED
      BY <1>7, <3>1, <3>2
  <2>2. CASE UNCHANGED ledger
    BY <1>7, <2>2 DEF Entries
  <2>3. QED
    BY <1>3, <2>1, <2>2
<1>8. \A i \in Jobs \ {j} : JobFacts(i)'
  BY <1>1, <1>4, <1>7, OtherFacts DEF JobChange, Others
<1>9. ASSUME NEW k \in Entries', ledger'[k].job = j PROVE k = Len(ledger')
  <2>0. \A l \in Entries : ledger[l].job # j
    BY <1>1, <1>2 DEF JobFacts, LedgerFacts, Unrecorded
  <2>1. CASE ledger' = Append(ledger, Recorded(j, jobs[j].sha))
    <3>1. k # Len(ledger) + 1 => k \in Entries /\ ledger'[k] = ledger[k]
      BY <1>2, <1>9, <2>1, AppendEffect, LedgerTypes DEF Entries
    <3>2. QED
      BY <1>2, <1>9, <2>0, <2>1, <3>1, AppendEffect
  <2>2. CASE UNCHANGED ledger
    BY <1>9, <2>0, <2>2 DEF Entries
  <2>3. QED
    BY <1>3, <2>1, <2>2
<1>10. JobFacts(j)'
  <2>1. CASE to = "failed"
    BY <1>1, <1>4, <1>9, <2>1, GivenUp
  <2>2. CASE to = "mark"
    <3>1. ledger' = Append(ledger, Recorded(j, jobs[j].sha))
      BY <1>3, <2>2
    <3>2. TaskFacts(j)'
      BY <1>1, <1>2, <1>4, <2>2 DEF JobFacts, TaskFacts, Active, PreLaunch, Kept
    <3>3. ControlFacts(j)'
      BY <1>1, <1>2, <1>4, <2>2 DEF JobFacts, ControlFacts, ActiveTasks, Active
    <3>4. LedgerFacts(j)'
      <4>1. /\ ledger' # <<>> /\ Latest'.job = j /\ Latest'.sha = jobs'[j].sha
            /\ Latest'.status = "none"
        BY <1>2, <1>4, <3>1, AppendEffect DEF Recorded, Kept
      <4>2. QED
        BY <1>4, <1>9, <2>2, <4>1 DEF LedgerFacts, StillSo, At, Unrecorded
    <3>5. RolloutFacts(j)'
      BY <1>1, <1>2, <1>4, <2>2 DEF JobFacts, RolloutFacts, Kept
    <3>6. QED
      BY <3>2, <3>3, <3>4, <3>5 DEF JobFacts
  <2>3. QED
    BY <2>1, <2>2
<1>11. SuccessIsTrue' /\ FailuresAreOver' /\ \A s \in Services : want'[s] <= main'
  <2>1. CASE ledger' = Append(ledger, Recorded(j, jobs[j].sha))
    <3>1. ~Available'
      BY <1>2, <2>1, AppendEffect DEF Available, Recorded
    <3>2. ASSUME NEW k \in Entries', ledger'[k].status = "failure"
          PROVE  k \in Entries /\ ledger'[k] = ledger[k]
      <4>1. k # Len(ledger) + 1
        BY <1>2, <2>1, <3>2, AppendEffect DEF Recorded
      <4>2. QED
        BY <1>2, <2>1, <3>2, <4>1, AppendEffect, LedgerTypes DEF Entries
    <3>3. FailuresAreOver'
      BY <1>1, <3>2 DEF ChangeInv, FailuresAreOver, Active
    <3>4. QED
      BY <1>1, <3>1, <3>3 DEF SuccessIsTrue, ChangeInv
  <2>2. CASE UNCHANGED ledger
    BY <1>1, <2>2 DEF ChangeInv, SuccessIsTrue, FailuresAreOver, Available, TargetRevision,
                      Latest, Last, AtWork, ActiveTasks, Active, Entries
  <2>3. QED
    BY <1>3, <2>1, <2>2
<1>12. QED
  BY <1>6, <1>8, <1>10, <1>11 DEF ChangeInv

(* A run writes a status of its own record, which has to be true.          *)
LEMMA StatusInv ==
  ASSUME TypeOK, ChangeInv, NEW j \in Jobs, jobs[j].step \in Holding, NEW status \in Statuses,
         UNCHANGED <<main, db, lock, tasks, want, running>>,
         JobChange(j), JobFacts(j)', holder' \in {holder, 0}, faults' \in 0..MaxFaults,
         \/ UNCHANGED ledger
         \/ /\ ledger' = [ledger EXCEPT ![Len(ledger)].status = status]
            /\ ledger # <<>> /\ Latest.job = j
            /\ status = "success" => AtWork = {} /\ db = HeadOf[Latest.sha]
            /\ status = "failure" => ~Active(j)
  PROVE  TypeOK' /\ ChangeInv'
<1>1. ledger' \in Seq(Deployments)
  BY LedgerTypes, StatusEffect
<1>2. holder' \in 0..MaxJobs
  BY TypeParts, LedgerAssumption
<1>3. TypeOK'
  BY <1>1, <1>2, TypeParts, TypeStep DEF JobChange
<1>4. \A k \in Entries' : k \in Entries /\ ledger'[k].job = ledger[k].job
  BY LedgerTypes, StatusEffect DEF Entries
<1>5. \A i \in Jobs \ {j} : JobFacts(i)'
  BY <1>4, OtherFacts DEF JobChange, Others
<1>6. SuccessIsTrue' /\ FailuresAreOver'
  <2>1. CASE UNCHANGED ledger
    BY <2>1 DEF ChangeInv, SuccessIsTrue, FailuresAreOver, Available, TargetRevision,
                Latest, Last, AtWork, ActiveTasks, Active, Entries
  <2>2. CASE /\ ledger' = [ledger EXCEPT ![Len(ledger)].status = status]
             /\ ledger # <<>> /\ Latest.job = j
             /\ status = "success" => AtWork = {} /\ db = HeadOf[Latest.sha]
             /\ status = "failure" => ~Active(j)
    <3>1. SuccessIsTrue'
      <4>1. Latest'.status = status /\ Latest'.sha = Latest.sha
        BY <2>2, StatusEffect
      <4>2. AtWork' = AtWork /\ db' = db
        BY DEF AtWork, ActiveTasks, Active
      <4>3. QED
        BY <2>2, <4>1, <4>2 DEF SuccessIsTrue, Available, TargetRevision
    <3>2. FailuresAreOver'
      <4> SUFFICES ASSUME NEW k \in Entries', ledger'[k].status = "failure"
                   PROVE  ledger'[k].job \in Jobs /\ ~Active(ledger'[k].job)
        BY DEF FailuresAreOver, Active
      <4>1. CASE k = Len(ledger)
        BY <2>2, <4>1, StatusEffect
      <4>2. CASE k # Len(ledger)
        BY <1>4, <2>2, <4>2, StatusEffect DEF ChangeInv, FailuresAreOver
      <4>3. QED
        BY <4>1, <4>2
    <3>3. QED
      BY <3>1, <3>2
  <2>3. QED
    BY <2>1, <2>2
<1>7. \A s \in Services : want'[s] <= main'
  BY DEF ChangeInv
<1>8. QED
  BY <1>3, <1>5, <1>6, <1>7 DEF ChangeInv

LEMMA MarkInv ==
  ASSUME TypeOK, ChangeInv, NEW j \in Jobs, NEW outcome \in Outcomes,
         MarkInProgress(j, outcome)
  PROVE  TypeOK' /\ ChangeInv'
<1> USE StepSets DEF At
<1>1. /\ jobs[j].step = "mark" /\ jobs[j].step \in Holding
      /\ UNCHANGED <<main, db, lock, tasks, holder, want, running>>
  BY DEF MarkInProgress
<1>2. JobFacts(j)
  BY DEF ChangeInv
<1>3. /\ JobChange(j) /\ Kept(j)
      /\ jobs'[j].step = IF Confirmed(j, outcome) THEN "save" ELSE "failed"
  <2>1. PICK step \in Steps, v \in {"no", "memory", "saved"} :
          /\ step = IF Confirmed(j, outcome) THEN "save" ELSE "failed"
          /\ jobs' = [jobs EXCEPT ![j].step = step, ![j].started = v]
    BY DEF MarkInProgress
  <2>2. QED
    BY <2>1, SavedEffect
<1>4. /\ ledger # <<>> /\ Latest.job = j /\ Latest.sha = jobs[j].sha
      /\ \A k \in Entries : ledger[k].job = j => k = Len(ledger)
  BY <1>1, <1>2 DEF JobFacts, LedgerFacts, Begun
<1>5. /\ UNCHANGED ledger \/ ledger' = [ledger EXCEPT ![Len(ledger)].status = "in_progress"]
      /\ Confirmed(j, outcome) =>
           ledger' = [ledger EXCEPT ![Len(ledger)].status = "in_progress"]
  BY <1>4, WrittenLast DEF MarkInProgress, Confirmed, Statuses
<1>6. \A k \in Entries' : ledger'[k].job = j => k = Len(ledger')
  BY <1>4, <1>5, StatusEffect DEF Entries, Statuses
<1>7. JobFacts(j)'
  <2>1. CASE ~Confirmed(j, outcome)
    BY <1>1, <1>3, <1>6, <2>1, GivenUp
  <2>2. CASE Confirmed(j, outcome)
    <3>2. TaskFacts(j)'
      BY <1>1, <1>2, <1>3, <2>2 DEF JobFacts, TaskFacts, Active, PreLaunch, Kept
    <3>3. ControlFacts(j)'
      BY <1>1, <1>2, <1>3, <2>2 DEF JobFacts, ControlFacts, ActiveTasks, Active
    <3>4. LedgerFacts(j)'
      <4>1. /\ ledger' # <<>> /\ Len(ledger') = Len(ledger)
            /\ \A k \in Entries : ledger'[k].job = ledger[k].job
            /\ Latest'.job = j /\ Latest'.sha = jobs[j].sha /\ Latest'.status = "in_progress"
        BY <1>4, <1>5, <2>2, StatusEffect DEF Statuses
      <4>2. QED
        BY <1>3, <1>6, <2>2, <4>1 DEF LedgerFacts, Kept, StillSo, At, Unrecorded
    <3>5. RolloutFacts(j)'
      BY <1>1, <1>2, <1>3, <2>2 DEF JobFacts, RolloutFacts, Kept
    <3>6. QED
      BY <3>2, <3>3, <3>4, <3>5 DEF JobFacts
  <2>3. QED
    BY <2>1, <2>2
<1>8. faults' \in 0..MaxFaults
  BY CostTypes DEF MarkInProgress
<1>9. QED
  BY <1>1, <1>3, <1>4, <1>5, <1>7, <1>8, StatusInv DEF Statuses

LEMMA RecordInv ==
  ASSUME TypeOK, ChangeInv, NEW j \in Jobs, NEW outcome \in Outcomes,
         RecordSuccess(j, outcome)
  PROVE  TypeOK' /\ ChangeInv'
<1> USE StepSets DEF At
<1>1. /\ jobs[j].step = "success" /\ jobs[j].step \in Holding
      /\ UNCHANGED <<main, db, lock, tasks, want, running>>
  BY DEF RecordSuccess
<1>2. JobFacts(j)
  BY DEF ChangeInv
<1>3. /\ JobChange(j) /\ holder' \in {holder, 0}
      /\ \/ jobs'[j].step = "failed" /\ Kept(j) /\ UNCHANGED holder
         \/ jobs'[j].step = "over" /\ jobs'[j].sha = 1
  BY OverEffect, GotoEffect DEF RecordSuccess
<1>4. /\ ledger # <<>> /\ Latest.job = j /\ Latest.sha = jobs[j].sha
      /\ \A k \in Entries : ledger[k].job = j => k = Len(ledger)
      /\ AtWork = {} /\ db = HeadOf[jobs[j].sha]
  BY <1>1, <1>2 DEF JobFacts, LedgerFacts, ControlFacts, Begun
<1>5. UNCHANGED ledger \/ ledger' = [ledger EXCEPT ![Len(ledger)].status = "success"]
  BY <1>4, WrittenLast DEF RecordSuccess, Statuses
<1>6. \A k \in Entries' : ledger'[k].job = j => k = Len(ledger')
  BY <1>4, <1>5, StatusEffect DEF Entries, Statuses
<1>7. JobFacts(j)'
  BY <1>1, <1>3, <1>6, GivenUp
<1>8. faults' \in 0..MaxFaults
  BY CostTypes DEF RecordSuccess
<1>9. QED
  BY <1>1, <1>3, <1>4, <1>5, <1>7, <1>8, StatusInv DEF Statuses

LEMMA ReportInv ==
  ASSUME TypeOK, ChangeInv, NEW j \in Jobs, NEW outcome \in Outcomes,
         ReportFailure(j, outcome)
  PROVE  TypeOK' /\ ChangeInv'
<1> USE StepSets DEF At
<1>1. /\ jobs[j].step = "report" /\ jobs[j].step \in Holding
      /\ UNCHANGED <<main, db, lock, tasks, want, running>>
  BY DEF ReportFailure
<1>2. JobFacts(j)
  BY DEF ChangeInv
<1>3. /\ JobChange(j) /\ holder' \in {holder, 0}
      /\ \/ jobs'[j].step = "cleanup" /\ Kept(j) /\ UNCHANGED holder
         \/ jobs'[j].step = "over" /\ jobs'[j].sha = 1
  BY ToCleanupEffect DEF ReportFailure
<1>4. /\ ledger # <<>> /\ Latest.job = j
      /\ \A k \in Entries : ledger[k].job = j => k = Len(ledger)
      /\ ~Active(j)
  BY <1>1, <1>2 DEF JobFacts, LedgerFacts, ControlFacts, StillSo, Unfinished, Mine
<1>5. UNCHANGED ledger \/ ledger' = [ledger EXCEPT ![Len(ledger)].status = "failure"]
  BY <1>4, WrittenLast DEF ReportFailure, Statuses
<1>6. \A k \in Entries' : ledger'[k].job = j => k = Len(ledger')
  BY <1>4, <1>5, StatusEffect DEF Entries, Statuses
<1>7. JobFacts(j)'
  BY <1>1, <1>3, <1>6, GivenUp
<1>8. faults' \in 0..MaxFaults
  BY CostTypes DEF ReportFailure
<1>9. QED
  BY <1>1, <1>3, <1>4, <1>5, <1>7, <1>8, StatusInv DEF Statuses

-----------------------------------------------------------------------------
(* Tasks, services and main                                                *)

LEMMA RunTaskEffect ==
  ASSUME TypeOK, NEW j \in Jobs, RunTask(j, jobs[j].mode, jobs[j].sha, jobs[j].start)
  PROVE  /\ tasks' \in [Jobs -> TaskStates]
         /\ \A i \in Jobs \ {j} : tasks'[i] = tasks[i]
         /\ tasks'[j].status = "active" /\ tasks'[j].step = "connect"
         /\ tasks'[j].sha = jobs[j].sha /\ SamePlan(jobs[j], tasks'[j])
<1> DEFINE r == [NoTask EXCEPT !.status = "active", !.mode = jobs[j].mode,
                               !.sha = jobs[j].sha, !.start = jobs[j].start]
<1>1. /\ r \in TaskStates /\ r.status = "active" /\ r.step = "connect"
      /\ r.sha = jobs[j].sha /\ SamePlan(jobs[j], r)
  BY NoTaskType, JobState DEF TaskStates, NoTask, JobStates, SamePlan
<1>2. tasks' = [tasks EXCEPT ![j] = r]
  BY DEF RunTask
<1> HIDE DEF r
<1>3. tasks \in [Jobs -> TaskStates]
  BY TypeParts
<1>4. tasks'[j] = r /\ \A i \in Jobs \ {j} : tasks'[i] = tasks[i]
  BY <1>2, <1>3
<1>5. tasks' \in [Jobs -> TaskStates]
  BY <1>1, <1>2, <1>3
<1>6. QED
  BY <1>1, <1>4, <1>5

LEMMA LaunchInv ==
  ASSUME TypeOK, ChangeInv, NEW j \in Jobs, NEW launch \in Launches, Launch(j, launch)
  PROVE  TypeOK' /\ ChangeInv'
<1> USE StepSets DEF At
<1>1. /\ jobs[j].step = "launch" /\ jobs[j].step \in Holding
      /\ UNCHANGED <<main, ledger, db, lock, holder, want, running>>
  BY DEF Launch
<1>2. JobFacts(j)
  BY DEF ChangeInv
<1>3. PICK step \in {"wait", "failed"} :
        /\ jobs' = [jobs EXCEPT ![j].requested = TRUE, ![j].state = launch.state,
                                ![j].step = step]
        /\ step = "wait" => launch.answer # "lost"
  BY DEF Launch
<1>4. /\ JobChange(j) /\ jobs'[j].step = step /\ jobs'[j].requested = TRUE
      /\ jobs'[j].sha = jobs[j].sha /\ jobs'[j].stage = jobs[j].stage
  <2>1. launch.state \in {"none", "file", "known"}
    BY DEF Launches
  <2>2. step \in Steps
    OBVIOUS
  <2>3. jobs' = [jobs EXCEPT ![j].requested = TRUE, ![j].state = launch.state,
                             ![j].step = step]
    BY <1>3
  <2> DEFINE v == launch.state
  <2> HIDE DEF v
  <2>4. v \in {"none", "file", "known"}
    BY <2>1 DEF v
  <2>5. jobs' = [jobs EXCEPT ![j].requested = TRUE, ![j].state = v, ![j].step = step]
    BY <2>3 DEF v
  <2>6. QED
    BY <2>2, <2>4, <2>5, LaunchedEffect
<1>5. /\ tasks' \in [Jobs -> TaskStates] /\ \A i \in Jobs \ {j} : tasks'[i] = tasks[i]
      /\ \/ UNCHANGED tasks /\ step = "failed"
         \/ /\ tasks'[j].status = "active" /\ tasks'[j].step = "connect"
            /\ tasks'[j].sha = jobs[j].sha
  BY <1>3, RunTaskEffect, TypeParts DEF Launch
<1>6. faults' \in 0..MaxFaults
  BY FaultTypes DEF Launch
<1>7. TypeOK'
  BY <1>1, <1>4, <1>5, <1>6, TypeParts, TypeStep DEF JobChange
<1>8. \A i \in Jobs \ {j} : JobFacts(i)'
  BY <1>1, <1>4, <1>5, OtherFacts DEF JobChange, Others, Entries
<1>9. /\ ActiveTasks = {} /\ tasks[j].status = "none" /\ tasks[j].step = "connect" /\ lock # j
      /\ Latest.status \in {"none", "in_progress"} /\ ledger # <<>>
      /\ \A k \in Entries : ledger[k].job = j => k = Len(ledger)
  BY <1>1, <1>2
  DEF JobFacts, TaskFacts, ControlFacts, LedgerFacts, PreLaunch, Sessions, Begun
<1>10. JobFacts(j)'
  <2>1. TaskFacts(j)'
    BY <1>1, <1>4, <1>5, <1>9 DEF TaskFacts, Active, Sessions, PreLaunch
  <2>2. ControlFacts(j)'
    <3>1. step = "wait" => ActiveTasks' \subseteq {j}
      BY <1>5, <1>9 DEF ActiveTasks, Active
    <3>2. step = "wait" => Active(j)' /\ tasks'[j].status # "none" /\ tasks'[j].sha = jobs'[j].sha
      BY <1>4, <1>5 DEF Active
    <3>3. holder' = j
      BY <1>1, <1>2 DEF JobFacts, ControlFacts
    <3>4. QED
      BY <1>4, <3>1, <3>2, <3>3 DEF ControlFacts
  <2>3. LedgerFacts(j)'
    BY <1>1, <1>2, <1>4
    DEF JobFacts, LedgerFacts, StillSo, Latest, Last, Entries, Begun, Unrecorded
  <2>4. RolloutFacts(j)'
    BY <1>1, <1>2, <1>4 DEF JobFacts, RolloutFacts
  <2>5. QED
    BY <2>1, <2>2, <2>3, <2>4 DEF JobFacts
<1>11. SuccessIsTrue'
  BY <1>1, <1>9 DEF SuccessIsTrue, Available, Latest, Last
<1>12. FailuresAreOver'
  <2>1. ASSUME NEW k \in Entries, ledger[k].status = "failure" PROVE ledger[k].job # j
    BY <1>9, <2>1, LedgerTypes
  <2>2. QED
    BY <1>1, <1>5, <2>1 DEF ChangeInv, FailuresAreOver, Active, Entries
<1>13. QED
  BY <1>1, <1>7, <1>8, <1>10, <1>11, <1>12 DEF ChangeInv

LEMMA UpdateInv ==
  ASSUME TypeOK, ChangeInv, NEW j \in Jobs, NEW s \in Services, Update(j, s)
  PROVE  TypeOK' /\ ChangeInv'
<1> USE StepSets DEF At
<1>1. /\ jobs[j].step = "update" /\ jobs[j].step \in Holding /\ s \in jobs[j].todo
      /\ UNCHANGED <<main, ledger, db, lock, tasks, holder, running, faults>>
      /\ want' = [want EXCEPT ![s] = jobs[j].sha]
  BY DEF Update
<1>2. /\ JobChange(j) /\ Kept(j) /\ jobs'[j].step = "update"
      /\ jobs'[j].todo = jobs[j].todo \ {s}
  BY <1>1, TodoEffect DEF Update
<1>3. JobFacts(j) /\ jobs[j].sha \in Commits
  BY JobState DEF ChangeInv, JobStates
<1>4. /\ want' \in [Services -> Commits] /\ want'[s] = jobs[j].sha
      /\ \A t \in Services \ {s} : want'[t] = want[t]
  BY <1>1, <1>3, TypeParts
<1>5. TypeOK'
  BY <1>1, <1>2, <1>4, TypeParts, TypeStep DEF JobChange
<1>6. \A i \in Jobs \ {j} : JobFacts(i)'
  BY <1>1, <1>2, OtherFacts DEF JobChange, Others, Entries
<1>7. RolloutFacts(j) /\ \A k \in 1..Len(Stages) : Stages[k] \subseteq Services
  BY <1>3 DEF JobFacts, Services
<1>8. JobFacts(j)'
  <2>1. TaskFacts(j)'
    BY <1>1, <1>2, <1>3 DEF JobFacts, TaskFacts, Active, PreLaunch, Kept
  <2>2. ControlFacts(j)'
    BY <1>1, <1>2, <1>3 DEF JobFacts, ControlFacts
  <2>3. LedgerFacts(j)'
    BY <1>1, <1>2, <1>3 DEF JobFacts, LedgerFacts, StillSo, Entries, Begun, Unrecorded
  <2>4. RolloutFacts(j)'
    <3>1. jobs[j].stage \in 1..Len(Stages) /\ Len(Stages) \in Nat
      BY JobState, RolloutAssumption DEF JobStates
    <3>2. ASSUME NEW k \in 1..jobs[j].stage - 1, NEW t \in Stages[k]
          PROVE  want'[t] = jobs[j].sha /\ running[t] = jobs[j].sha
      <4>1. want[t] = jobs[j].sha /\ running[t] = jobs[j].sha /\ t \in Services
        BY <1>1, <1>7, <3>1, <3>2 DEF RolloutFacts
      <4>2. QED
        BY <1>4, <4>1
    <3>3. AllowsRollout(jobs[j].sha)'
      BY <1>1, <1>2, <1>7 DEF RolloutFacts, AllowsRollout, Available, TargetRevision, Latest,
                              Last, Kept
    <3>4. \A t \in Services : want'[t] <= jobs[j].sha
      BY <1>1, <1>3, <1>4, <1>7, ConstantFacts DEF RolloutFacts
    <3>5. \A t \in Stages[jobs[j].stage] \ jobs'[j].todo : want'[t] = jobs[j].sha
      BY <1>1, <1>2, <1>4, <1>7, <3>1 DEF RolloutFacts
    <3>6. jobs'[j].todo \subseteq Stages[jobs[j].stage] /\ jobs[j].sha <= main
      BY <1>1, <1>2, <1>7 DEF RolloutFacts
    <3>7. QED
      BY <1>1, <1>2, <3>2, <3>3, <3>4, <3>5, <3>6 DEF RolloutFacts, Kept
  <2>5. QED
    BY <2>1, <2>2, <2>3, <2>4 DEF JobFacts
<1>9. SuccessIsTrue' /\ FailuresAreOver'
  BY <1>1 DEF ChangeInv, SuccessIsTrue, FailuresAreOver, Available, TargetRevision,
              Latest, Last, AtWork, ActiveTasks, Active, Entries
<1>10. \A t \in Services : want'[t] <= main'
  BY <1>1, <1>4, <1>7 DEF RolloutFacts, ChangeInv
<1>11. QED
  BY <1>5, <1>6, <1>8, <1>9, <1>10 DEF ChangeInv

LEMMA ConvergeInv ==
  ASSUME TypeOK, ChangeInv, NEW s \in Services, Converge(s)
  PROVE  TypeOK' /\ ChangeInv'
<1>1. /\ UNCHANGED <<main, ledger, db, lock, tasks, jobs, holder, want, faults>>
      /\ running' = [running EXCEPT ![s] = want[s]]
  BY DEF Converge
<1>2. /\ running' \in [Services -> Commits] /\ running'[s] = want[s]
      /\ \A t \in Services \ {s} : running'[t] = running[t]
  BY <1>1, TypeParts
<1>3. TypeOK'
  BY <1>1, <1>2, TypeParts, TypeStep
<1>4. ASSUME NEW j \in Jobs PROVE JobFacts(j)'
  <2>1. JobFacts(j)
    BY DEF ChangeInv
  <2>2. TaskFacts(j)' /\ ControlFacts(j)' /\ LedgerFacts(j)'
    BY <1>1, <2>1, LedgerFactsKept
    DEF JobFacts, TaskFacts, ControlFacts, Active, ActiveTasks, AtWork
  <2>3. RolloutFacts(j)'
    <3>1. ASSUME jobs[j].step \in {"check", "update"},
                 NEW k \in 1..jobs[j].stage - 1, NEW t \in Stages[k]
          PROVE  want[t] = jobs[j].sha /\ running'[t] = jobs[j].sha
      <4>1. want[t] = jobs[j].sha /\ running[t] = jobs[j].sha
        BY <2>1, <3>1 DEF JobFacts, RolloutFacts
      <4>2. jobs[j].stage \in 1..Len(Stages) /\ Len(Stages) \in Nat
        BY JobState, RolloutAssumption DEF JobStates
      <4>3. t \in Services
        BY <4>2 DEF Services
      <4>4. QED
        BY <1>2, <4>1, <4>3
    <3>2. QED
      BY <1>1, <2>1, <3>1 DEF JobFacts, RolloutFacts, AllowsRollout, Available,
                              TargetRevision, Latest, Last
  <2>4. QED
    BY <2>2, <2>3 DEF JobFacts
<1>5. SuccessIsTrue' /\ FailuresAreOver' /\ \A t \in Services : want'[t] <= main'
  BY <1>1 DEF ChangeInv, SuccessIsTrue, FailuresAreOver, Available, TargetRevision,
              Latest, Last, AtWork, ActiveTasks, Active, Entries
<1>6. QED
  BY <1>3, <1>4, <1>5 DEF ChangeInv

LEMMA MergeInv ==
  ASSUME TypeOK, ChangeInv, Merge
  PROVE  TypeOK' /\ ChangeInv'
<1>1. /\ UNCHANGED <<ledger, db, lock, tasks, jobs, holder, want, running, faults>>
      /\ main' = main + 1 /\ main' \in Commits /\ main \in Nat
  BY ConstantFacts DEF Merge, TypeOK, Commits
<1>2. TypeOK'
  BY <1>1, TypeParts, TypeStep
<1>3. ASSUME NEW j \in Jobs PROVE JobFacts(j)'
  <2>1. JobFacts(j) /\ jobs[j].sha \in Nat
    BY JobState, ConstantFacts DEF ChangeInv, JobStates
  <2>2. TaskFacts(j)' /\ ControlFacts(j)' /\ LedgerFacts(j)'
    BY <1>1, <2>1, LedgerFactsKept
    DEF JobFacts, TaskFacts, ControlFacts, Active, ActiveTasks, AtWork
  <2>3. RolloutFacts(j)'
    BY <1>1, <2>1 DEF JobFacts, RolloutFacts, AllowsRollout, Available, TargetRevision,
                      Latest, Last
  <2>4. QED
    BY <2>2, <2>3 DEF JobFacts
<1>4. SuccessIsTrue' /\ FailuresAreOver'
  BY <1>1 DEF ChangeInv, SuccessIsTrue, FailuresAreOver, Available, TargetRevision,
              Latest, Last, AtWork, ActiveTasks, Active, Entries
<1>5. \A t \in Services : want[t] \in Nat
  BY TypeParts, ConstantFacts
<1>6. \A t \in Services : want'[t] <= main'
  BY <1>1, <1>5 DEF ChangeInv
<1>7. QED
  BY <1>2, <1>3, <1>4, <1>6 DEF ChangeInv

-----------------------------------------------------------------------------
(* The steps of a task and of its session                                  *)

TaskMove(j) ==
  /\ tasks' \in [Jobs -> TaskStates] /\ \A i \in Jobs \ {j} : tasks'[i] = tasks[i]
  /\ Active(j) \/ tasks[j].step \in Sessions
  /\ tasks'[j].status \in {"active", "stopped"}
  /\ tasks'[j].status = "active" =>
       Active(j) /\ tasks'[j].sha = tasks[j].sha /\ tasks'[j].step # "closed"
  /\ tasks'[j].status = "stopped" /\ tasks'[j].step # "closed" => tasks'[j].exit = Rejected
  /\ db' # db => tasks[j].step = "upgrade"
  /\ tasks'[j].step = "unlock" => db' = HeadOf[tasks'[j].sha]
  /\ lock' = j <=> tasks'[j].step \in Sessions
  /\ lock' = j => lock \in {0, j}
  /\ lock' # j => lock' = IF lock = j THEN 0 ELSE lock
  /\ tasks'[j].status = "stopped" /\ tasks'[j].exit = Success =>
       Active(j) /\ lock' = 0 /\ db' = HeadOf[tasks[j].sha]

LEMMA ExitsEffect ==
  ASSUME TypeOK, NEW j \in Jobs, NEW code \in {Success, Rejected}, Exits(j, code)
  PROVE  /\ tasks' \in [Jobs -> TaskStates] /\ \A i \in Jobs \ {j} : tasks'[i] = tasks[i]
         /\ tasks'[j].status = "stopped" /\ tasks'[j].step = "closed" /\ tasks'[j].exit = code
         /\ Approved(tasks'[j])
<1> DEFINE r == [NoTask EXCEPT !.status = "stopped", !.step = "closed", !.exit = code]
<1>1. /\ r \in TaskStates /\ r.status = "stopped" /\ r.step = "closed" /\ r.exit = code
      /\ Approved(r)
  BY NoTaskType DEF TaskStates, NoTask, Approved
<1>2. tasks' = [tasks EXCEPT ![j] = r]
  BY DEF Exits
<1> HIDE DEF r
<1>3. QED
  BY <1>1, <1>2, TypeParts

LEMMA GoesEffect ==
  ASSUME TypeOK, NEW j \in Jobs, NEW step \in {"locked", "upgrade", "unlock"}, Goes(j, step)
  PROVE  /\ tasks' \in [Jobs -> TaskStates] /\ \A i \in Jobs \ {j} : tasks'[i] = tasks[i]
         /\ tasks'[j].step = step /\ tasks'[j].status = tasks[j].status
         /\ tasks'[j].sha = tasks[j].sha /\ SamePlan(tasks[j], tasks'[j])
<1> DEFINE r == [tasks[j] EXCEPT !.step = step]
<1>1. tasks[j] \in TaskStates
  BY TypeParts
<1>2. /\ r \in TaskStates /\ r.step = step /\ r.status = tasks[j].status
      /\ r.sha = tasks[j].sha /\ SamePlan(tasks[j], r)
  BY <1>1 DEF TaskStates, SamePlan
<1>3. tasks' = [tasks EXCEPT ![j] = r]
  BY DEF Goes
<1> HIDE DEF r
<1>4. QED
  BY <1>2, <1>3, TypeParts

LEMMA KilledEffect ==
  ASSUME TypeOK, NEW j \in Jobs,
         tasks' = [tasks EXCEPT ![j].status = "stopped", ![j].exit = Rejected]
  PROVE  /\ tasks' \in [Jobs -> TaskStates] /\ \A i \in Jobs \ {j} : tasks'[i] = tasks[i]
         /\ tasks'[j].step = tasks[j].step /\ tasks'[j].status = "stopped"
         /\ tasks'[j].sha = tasks[j].sha /\ tasks'[j].exit = Rejected
         /\ SamePlan(tasks[j], tasks'[j])
<1> DEFINE r == [tasks[j] EXCEPT !.status = "stopped", !.exit = Rejected]
<1>1. tasks[j] \in TaskStates
  BY TypeParts
<1>2. /\ r \in TaskStates /\ r.step = tasks[j].step /\ r.status = "stopped"
      /\ r.sha = tasks[j].sha /\ r.exit = Rejected /\ SamePlan(tasks[j], r)
  BY <1>1 DEF TaskStates, SamePlan
<1>3. tasks' = [tasks EXCEPT ![j] = r]
  BY TypeParts
<1> HIDE DEF r
<1>4. QED
  BY <1>2, <1>3, TypeParts

LEMMA TaskStepEffect ==
  ASSUME TypeOK, NEW j \in Jobs, TaskFacts(j), RunnerStep(j) \/ Kill(j)
  PROVE  TaskMove(j)
<1> USE DEF Active, Sessions, Release
<1>0. /\ Success # Rejected /\ j # 0
      /\ Success \in {Success, Rejected} /\ Rejected \in {Success, Rejected}
  BY DEF Success, Rejected, Jobs
<1>1. CASE TakeLock(j)
  <2>1. CASE LockFree(j)
    <3>1. Goes(j, "locked") /\ lock = 0 /\ lock' = j /\ db' = db /\ Active(j)
      BY <1>1, <2>1 DEF TakeLock, LockFree
    <3>2. QED
      BY <1>0, <3>1, GoesEffect DEF TaskMove
  <2>2. CASE ~LockFree(j)
    <3>1. Exits(j, Rejected) /\ lock' = lock /\ db' = db /\ Active(j) /\ tasks[j].step = "connect"
      BY <1>1, <2>2 DEF TakeLock
    <3>2. QED
      BY <1>0, <3>1, ExitsEffect DEF TaskMove, TaskFacts
  <2>3. QED
    BY <2>1, <2>2
<1>2. CASE Compare(j)
  <2>1. Active(j) /\ tasks[j].step = "locked" /\ lock = j /\ db' = db
    BY <1>2 DEF Compare, TaskFacts
  <2>2. CASE Verified(j) /\ Release(j) /\ Exits(j, Success)
    BY <1>0, <2>1, <2>2, ExitsEffect DEF TaskMove, Verified
  <2>3. CASE UNCHANGED lock /\ Goes(j, "upgrade")
    BY <1>0, <2>1, <2>3, GoesEffect DEF TaskMove
  <2>4. CASE Release(j) /\ Exits(j, Rejected)
    BY <1>0, <2>1, <2>4, ExitsEffect DEF TaskMove
  <2>5. QED
    BY <1>2, <2>2, <2>3, <2>4 DEF Compare
<1>3. CASE Upgrade(j)
  <2>1. /\ Active(j) /\ tasks[j].step = "upgrade" /\ lock = j /\ lock' = lock
        /\ db' = HeadOf[tasks[j].sha] /\ Goes(j, "unlock")
    BY <1>3 DEF Upgrade, TaskFacts
  <2>2. QED
    BY <1>0, <2>1, GoesEffect DEF TaskMove
<1>4. CASE UpgradeFails(j)
  <2>1. Active(j) /\ tasks[j].step = "upgrade" /\ lock = j /\ db' = db /\ Release(j)
          /\ Exits(j, Rejected)
    BY <1>4 DEF UpgradeFails, TaskFacts
  <2>2. QED
    BY <1>0, <2>1, ExitsEffect DEF TaskMove
<1>5. CASE Unlock(j)
  <2>1. Active(j) /\ tasks[j].step = "unlock" /\ lock = j /\ db' = db /\ Release(j)
          /\ Exits(j, Success) /\ db = HeadOf[tasks[j].sha]
    BY <1>5 DEF Unlock, TaskFacts
  <2>2. QED
    BY <1>0, <2>1, ExitsEffect DEF TaskMove
<1>6. CASE SessionEnds(j)
  <2>1. tasks[j].step \in Sessions /\ lock = j /\ Release(j) /\ Exits(j, Rejected)
          /\ (db' # db => tasks[j].step = "upgrade")
    BY <1>6 DEF SessionEnds, TaskFacts
  <2>2. QED
    BY <1>0, <2>1, ExitsEffect DEF TaskMove
<1>7. CASE Kill(j)
  <2>1. CASE tasks[j].step = "connect"
    <3>1. Active(j) /\ Exits(j, Rejected) /\ db' = db /\ lock' = lock /\ lock # j
      BY <1>7, <2>1 DEF Kill, TaskFacts
    <3>2. QED
      BY <1>0, <3>1, ExitsEffect DEF TaskMove
  <2>2. CASE tasks[j].step # "connect"
    <3>1. /\ Active(j) /\ db' = db /\ lock' = lock
          /\ tasks' = [tasks EXCEPT ![j].status = "stopped", ![j].exit = Rejected]
      BY <1>7, <2>2 DEF Kill
    <3>2. QED
      BY <1>0, <3>1, KilledEffect DEF TaskMove, TaskFacts
  <2>3. QED
    BY <2>1, <2>2
<1>8. QED
  BY <1>1, <1>2, <1>3, <1>4, <1>5, <1>6, <1>7 DEF RunnerStep

LEMMA TaskInv ==
  ASSUME TypeOK, ChangeInv, NEW j \in Jobs, TaskStep(j)
  PROVE  TypeOK' /\ ChangeInv'
<1>1. /\ UNCHANGED <<main, ledger, jobs, holder, want, running>>
      /\ faults' \in 0..MaxFaults
  BY FaultTypes DEF TaskStep, jobVars
<1>2. JobFacts(j) /\ j # 0
  BY DEF ChangeInv, Jobs
<1>3. TaskMove(j)
  BY <1>2, TaskStepEffect DEF TaskStep, JobFacts
<1>4. db' \in Revisions /\ lock' \in 0..MaxJobs
  <2>1. db' \in {db} \cup {HeadOf[tasks[j].sha]}
    BY DEF TaskStep, RunnerStep, TakeLock, Compare, Upgrade, UpgradeFails, Unlock, SessionEnds,
           Kill
  <2>2. tasks[j].sha \in Commits /\ db \in Revisions
    BY TypeParts DEF TaskStates
  <2>3. lock' \in {0, j, lock} /\ lock \in 0..MaxJobs
    BY <1>3, TypeParts DEF TaskMove
  <2>4. 0 \in 0..MaxJobs /\ j \in 0..MaxJobs
    BY LedgerAssumption DEF Jobs
  <2>5. QED
    BY <2>1, <2>2, <2>3, <2>4, ConstantFacts
<1>5. TypeOK'
  BY <1>1, <1>3, <1>4, TypeParts, TypeStep DEF TaskMove
<1>6. ActiveTasks' \subseteq ActiveTasks /\ (Active(j)' => Active(j))
      /\ \A i \in Jobs \ {j} : Active(i)' <=> Active(i)
  BY <1>3 DEF TaskMove, ActiveTasks, Active
<1>7. Active(j) \/ lock = j
  BY <1>2, <1>3 DEF TaskMove, JobFacts, TaskFacts
<1>8. AtWork # {} /\ (ActiveTasks = {} => lock = j)
  BY <1>2, <1>7 DEF AtWork, ActiveTasks
<1>9. ASSUME NEW i \in Jobs PROVE LedgerFacts(i)' /\ RolloutFacts(i)'
  <2>1. LedgerFacts(i)'
    BY <1>1, LedgerFactsKept DEF ChangeInv, JobFacts
  <2>2. RolloutFacts(i)'
    BY <1>1 DEF ChangeInv, JobFacts, RolloutFacts, AllowsRollout, Available, TargetRevision,
                Latest, Last
  <2>3. QED
    BY <2>1, <2>2
<1>10. ASSUME NEW i \in Jobs \ {j} PROVE JobFacts(i)'
  <2>1. JobFacts(i) /\ jobs'[i] = jobs[i] /\ tasks'[i] = tasks[i] /\ i # 0
    BY <1>1, <1>3 DEF ChangeInv, TaskMove, Jobs
  <2>2. TaskFacts(i)'
    <3>1. lock' = i <=> lock = i
      BY <1>3, <2>1 DEF TaskMove
    <3>2. lock = i => db' = db
      BY <1>2, <1>3 DEF TaskMove, JobFacts, TaskFacts, Sessions
    <3>3. QED
      BY <1>1, <2>1, <3>1, <3>2 DEF JobFacts, TaskFacts, Active, Sessions
  <2>3. ControlFacts(i)'
    <3>1. jobs[i].step \notin {"record", "success"}
      BY <1>8, <2>1 DEF JobFacts, ControlFacts
    <3>2. jobs[i].step = "wait" /\ ~Active(i) => tasks[i].exit # Success
      BY <1>2, <1>7, <2>1 DEF JobFacts, ControlFacts, ActiveTasks
    <3>3. QED
      BY <1>1, <1>6, <2>1, <3>1, <3>2 DEF JobFacts, ControlFacts, Active
  <2>4. QED
    BY <1>9, <2>2, <2>3 DEF JobFacts
<1>11. JobFacts(j)'
  <2>1. TaskFacts(j)'
    <3>1. tasks[j].status # "none"
      BY <1>2, <1>3 DEF TaskMove, JobFacts, TaskFacts, Active, Sessions
    <3>2. QED
      BY <1>1, <1>2, <1>3, <3>1 DEF TaskMove, JobFacts, TaskFacts, Active
  <2>2. ControlFacts(j)'
    <3>1. jobs[j].step \notin {"record", "success"}
      BY <1>2, <1>8 DEF JobFacts, ControlFacts
    <3>2. jobs[j].step = "wait" /\ ~Active(j)' /\ tasks'[j].exit = Success =>
            lock' = 0 /\ db' = HeadOf[jobs[j].sha]
      BY <1>2, <1>3 DEF TaskMove, JobFacts, ControlFacts, Active
    <3>3. jobs[j].step = "wait" => /\ tasks'[j].status # "none"
                                   /\ Active(j)' => tasks'[j].sha = jobs[j].sha
      BY <1>2, <1>3 DEF TaskMove, JobFacts, ControlFacts, Active
    <3>4. QED
      BY <1>1, <1>2, <1>6, <3>1, <3>2, <3>3 DEF JobFacts, ControlFacts
  <2>3. QED
    BY <1>9, <2>1, <2>2 DEF JobFacts
<1>12. SuccessIsTrue'
  BY <1>1, <1>8 DEF ChangeInv, SuccessIsTrue, Available, Latest, Last
<1>13. FailuresAreOver'
  BY <1>1, <1>6 DEF ChangeInv, FailuresAreOver, Entries
<1>14. QED
  BY <1>1, <1>5, <1>10, <1>11, <1>12, <1>13 DEF ChangeInv

-----------------------------------------------------------------------------
(* The theorems                                                            *)

LEMMA InitInv == Init => TypeOK /\ ChangeInv
<1> SUFFICES ASSUME Init PROVE TypeOK /\ ChangeInv
  OBVIOUS
<1> USE StepSets
<1>1. /\ main = 1 /\ db = HeadOf[1] /\ lock = 0 /\ holder = 0 /\ faults = 0
      /\ tasks = [j \in Jobs |-> NoTask] /\ jobs = [j \in Jobs |-> NoJob]
      /\ want = [s \in Services |-> 1] /\ running = [s \in Services |-> 1]
  BY DEF Init, LedgerInit, TaskInit
<1>2. /\ ledger \in Seq(Deployments)
      /\ ledger = <<>> \/ (/\ Len(ledger) = 1 /\ ledger[1].job = 0 /\ ledger[1].sha = 1
                           /\ ledger[1].status = "success")
  <2>1. [Recorded(0, 1) EXCEPT !.status = "success"] =
          [job |-> 0, sha |-> 1, status |-> "success"]
    BY DEF Recorded
  <2>2. [job |-> 0, sha |-> 1, status |-> "success"] \in Deployments
    BY ConstantFacts, LedgerAssumption DEF Deployments, Statuses
  <2>3. ledger = <<>> \/ ledger = <<[job |-> 0, sha |-> 1, status |-> "success"]>>
    BY <2>1 DEF Init, LedgerInit
  <2>4. PICK r \in Deployments : /\ ledger = <<>> \/ ledger = <<r>>
                                 /\ r.job = 0 /\ r.sha = 1 /\ r.status = "success"
    BY <2>2, <2>3
  <2>5. CASE ledger = <<>>
    BY <2>5
  <2>6. CASE ledger = <<r>>
    <3>1. ledger \in Seq(Deployments) /\ Len(ledger) = 1 /\ ledger[1] = r
      BY <2>6
    <3>2. QED
      BY <2>4, <3>1
  <2>7. QED
    BY <2>4, <2>5, <2>6
<1>3. TypeOK
  BY <1>1, <1>2, TypeParts, ConstantFacts, NoJobType, NoTaskType, LedgerAssumption,
     RolloutAssumption
<1>4. \A j \in Jobs : ~Active(j)
  BY <1>1 DEF Active, NoTask
<1>5. ASSUME NEW j \in Jobs PROVE JobFacts(j)
  <2>1. /\ jobs[j].step = "idle" /\ jobs[j].sha = 1 /\ j # 0
        /\ tasks[j].status = "none" /\ tasks[j].step = "connect"
    BY <1>1 DEF NoJob, NoTask, Jobs
  <2>2. TaskFacts(j) /\ ControlFacts(j)
    BY <1>1, <2>1 DEF TaskFacts, ControlFacts, Active, Sessions
  <2>3. LedgerFacts(j) /\ RolloutFacts(j)
    BY <1>1, <1>2, <2>1 DEF LedgerFacts, RolloutFacts, Entries, StillSo, At, Begun
  <2>4. QED
    BY <2>2, <2>3 DEF JobFacts
<1>6. SuccessIsTrue
  <2>1. Available => Latest.sha = 1
    BY <1>2 DEF Available, Latest, Last
  <2>2. QED
    BY <1>1, <1>4, <2>1 DEF SuccessIsTrue, TargetRevision, AtWork, ActiveTasks
<1>7. FailuresAreOver /\ \A s \in Services : want[s] <= main
  BY <1>1, <1>2 DEF FailuresAreOver, Entries
<1>8. QED
  BY <1>3, <1>5, <1>6, <1>7 DEF ChangeInv

LEMMA NextInv ==
  ASSUME TypeOK, ChangeInv, [Next]_vars
  PROVE  TypeOK' /\ ChangeInv'
<1>1. CASE Next
  <2>1. CASE Merge
    BY <2>1, MergeInv
  <2>2. CASE \E s \in Services : Converge(s)
    BY <2>2, ConvergeInv
  <2>3. ASSUME NEW j \in Jobs, Dispatch(j) \/ TakeGroup(j)
        PROVE  TypeOK' /\ ChangeInv'
    BY <2>3, DispatchEffect, TakeGroupEffect, JobOnlyInv
  <2>4. ASSUME NEW j \in Jobs, Controller(j) \/ Rollout(j)
        PROVE  TypeOK' /\ ChangeInv'
    <3>1. CASE \/ Preflight(j) \/ Begin(j) \/ SaveAttempt(j) \/ Wait(j) \/ ConfirmAttempt(j)
               \/ Interrupt(j) \/ Die(j) \/ CleanupMigration(j) \/ SkipCleanup(j)
               \/ Stopped(j) \/ CleanupFails(j) \/ Conclude(j)
               \/ CheckRelease(j) \/ VerifyStage(j) \/ RolloutFails(j)
      <4>1. JobOnly(j)
        BY <3>1, PlainEffect
      <4>2. QED
        BY <4>1, JobOnlyInv
    <3>2. CASE \E outcome \in Outcomes : Create(j, outcome) \/ MarkInProgress(j, outcome)
                                           \/ RecordSuccess(j, outcome)
                                           \/ ReportFailure(j, outcome)
      BY <3>2, CreateInv, MarkInv, RecordInv, ReportInv
    <3>3. CASE \E launch \in Launches : Launch(j, launch)
      BY <3>3, LaunchInv
    <3>4. CASE \E s \in Services : Update(j, s)
      BY <3>4, UpdateInv
    <3>5. QED
      BY <2>4, <3>1, <3>2, <3>3, <3>4 DEF Controller, Rollout
  <2>5. ASSUME NEW j \in Jobs, TaskStep(j)
        PROVE  TypeOK' /\ ChangeInv'
    BY <2>5, TaskInv
  <2>6. QED
    BY <1>1, <2>1, <2>2, <2>3, <2>4, <2>5 DEF Next
<1>2. CASE UNCHANGED vars
  <2>1. UNCHANGED <<main, ledger, db, lock, tasks, jobs, holder, want, running, faults>>
    BY <1>2 DEF vars
  <2>2. TypeOK'
    BY <2>1, TypeParts, TypeStep
  <2>3. ChangeInv'
    BY <2>1, LedgerFactsKept
    DEF ChangeInv, JobFacts, TaskFacts, ControlFacts, RolloutFacts, SuccessIsTrue,
        FailuresAreOver, AllowsRollout, Available, TargetRevision, Latest, Last, AtWork,
        ActiveTasks, Active, Entries
  <2>4. QED
    BY <2>2, <2>3
<1>3. QED
  BY <1>1, <1>2

LEMMA InvariantHolds == Spec => [](TypeOK /\ ChangeInv)
<1>1. Init => TypeOK /\ ChangeInv
  BY InitInv
<1>2. TypeOK /\ ChangeInv /\ [Next]_vars => (TypeOK /\ ChangeInv)'
  BY NextInv
<1>3. QED
  BY <1>1, <1>2, PTL DEF Spec

(* Every reachable state is of the types that TypeOK names: no entry of    *)
(* the ledger, task or run ever holds a value the code has no case for.    *)
THEOREM TypeCorrect == Spec => []TypeOK
  BY InvariantHolds, PTL

(* migration_ledger.py: a recorded success is a schema that the database   *)
(* has with nothing at work on it, and a recorded failure is of a task     *)
(* that has ended, whatever calls are lost and wherever controllers die,   *)
(* and what a controller compared or confirmed is so when it writes.       *)
THEOREM LedgerIsTrueHolds == Spec => []LedgerIsTrue
<1>1. TypeOK /\ ChangeInv => LedgerIsTrue
  BY DEF ChangeInv, JobFacts, LedgerFacts, SuccessIsTrue, FailuresAreOver, LedgerIsTrue, Entries
<1>2. QED
  BY <1>1, InvariantHolds, PTL

(* Only an update of a rollout tells a service what to run.                *)
LEMMA OnlyUpdates ==
  ASSUME [Next]_vars, NEW s \in Services, want'[s] # want[s], TypeOK
  PROVE  \E j \in Jobs : Update(j, s)
<1>1. Next
  BY DEF vars
<1>2. ASSUME NEW j \in Jobs, NEW t \in Services, Update(j, t)
      PROVE  t = s
  BY <1>2, TypeParts DEF Update
<1>3. ~UNCHANGED want
  OBVIOUS
<1>4. \E j \in Jobs, t \in Services : Update(j, t)
  <2>1. ~Merge /\ \A t \in Services : ~Converge(t)
    BY <1>3 DEF Merge, Converge
  <2>2. ASSUME NEW j \in Jobs
        PROVE  /\ ~Dispatch(j) /\ ~TakeGroup(j) /\ ~Controller(j) /\ ~TaskStep(j)
    BY <1>3 DEF Dispatch, DispatchMigration, DispatchRollout, TakeGroup, Controller, Preflight,
                Begin, Create, MarkInProgress, SaveAttempt, Launch, Wait, ConfirmAttempt,
                RecordSuccess, Interrupt, Die, CleanupMigration, SkipCleanup, Stopped,
                CleanupFails, Conclude, ReportFailure, TaskStep, jobVars
  <2>3. ASSUME NEW j \in Jobs
        PROVE  ~CheckRelease(j) /\ ~VerifyStage(j) /\ ~RolloutFails(j)
    BY <1>3 DEF CheckRelease, VerifyStage, RolloutFails
  <2>4. QED
    BY <1>1, <2>1, <2>2, <2>3 DEF Next, Rollout
<1>5. QED
  BY <1>2, <1>4

(* check_app_release: a service is told to run a release only while the    *)
(* database has its schema and no migration is at work.                    *)
THEOREM UpdatedOnConfirmedSchemaHolds == Spec => UpdatedOnConfirmedSchema
<1>1. TypeOK /\ ChangeInv /\ [Next]_vars =>
        \A s \in Services : want'[s] # want[s] => db = HeadOf[want'[s]] /\ AtWork = {}
  <2> SUFFICES ASSUME TypeOK, ChangeInv, [Next]_vars, NEW s \in Services, want'[s] # want[s]
               PROVE  db = HeadOf[want'[s]] /\ AtWork = {}
    OBVIOUS
  <2>1. PICK j \in Jobs : Update(j, s)
    BY OnlyUpdates
  <2>2. want'[s] = jobs[j].sha /\ AllowsRollout(jobs[j].sha)
    BY <2>1, TypeParts DEF Update, At, ChangeInv, JobFacts, RolloutFacts
  <2>3. QED
    BY <2>2 DEF AllowsRollout, ChangeInv, SuccessIsTrue
<1>2. QED
  BY <1>1, InvariantHolds, PTL DEF Spec, UpdatedOnConfirmedSchema

(* However long rollouts wait for their approval and for the concurrency   *)
(* group, none tells a service to run an older commit than it was told.    *)
THEOREM ServicesNeverGoBackHolds == Spec => ServicesNeverGoBack
<1>1. TypeOK /\ ChangeInv /\ [Next]_vars => \A s \in Services : want'[s] >= want[s]
  <2> SUFFICES ASSUME TypeOK, ChangeInv, [Next]_vars, NEW s \in Services
               PROVE  want'[s] >= want[s]
    OBVIOUS
  <2>1. want[s] \in Nat
    BY TypeParts, ConstantFacts
  <2>2. CASE want'[s] = want[s]
    BY <2>1, <2>2
  <2>3. CASE want'[s] # want[s]
    <3>1. PICK j \in Jobs : Update(j, s)
      BY <2>3, OnlyUpdates
    <3>2. want'[s] = jobs[j].sha /\ want[s] <= jobs[j].sha /\ jobs[j].sha \in Nat
      BY <3>1, TypeParts, JobState, ConstantFacts
      DEF Update, At, ChangeInv, JobFacts, RolloutFacts, JobStates
    <3>3. QED
      BY <2>1, <3>2
  <2>4. QED
    BY <2>2, <2>3
<1>2. QED
  BY <1>1, InvariantHolds, PTL DEF Spec, ServicesNeverGoBack

(* A stage of a rollout starts when everything of the earlier stages runs  *)
(* the release: no worker is updated beside the old scheduler.             *)
THEOREM StagesConvergeHolds == Spec => StagesConverge
<1>1. TypeOK /\ ChangeInv /\ [Next]_vars =>
        \A k \in 1..Len(Stages) : \A s \in Stages[k] :
          want'[s] # want[s] => \A i \in 1..k - 1 : \A t \in Stages[i] : running[t] = want'[s]
  <2> SUFFICES ASSUME TypeOK, ChangeInv, [Next]_vars, NEW k \in 1..Len(Stages),
                      NEW s \in Stages[k], want'[s] # want[s],
                      NEW i \in 1..k - 1, NEW t \in Stages[i]
               PROVE  running[t] = want'[s]
    OBVIOUS
  <2>1. s \in Services
    BY DEF Services
  <2>2. PICK j \in Jobs : Update(j, s)
    BY <2>1, OnlyUpdates
  <2>3. /\ want'[s] = jobs[j].sha /\ RolloutFacts(j) /\ jobs[j].step = "update"
        /\ s \in jobs[j].todo /\ jobs[j].stage \in 1..Len(Stages)
    BY <2>1, <2>2, TypeParts, JobState DEF Update, At, ChangeInv, JobFacts, JobStates
  <2>4. s \in Stages[jobs[j].stage]
    BY <2>3 DEF RolloutFacts
  <2>5. k = jobs[j].stage
    BY <2>3, <2>4, RolloutAssumption
  <2>6. QED
    BY <2>3, <2>5 DEF RolloutFacts
<1>2. QED
  BY <1>1, InvariantHolds, PTL DEF Spec, StagesConverge
-----------------------------------------------------------------------------
(* What a migration does to the database                                   *)

(* A task does what its run was approved for, and the run has recorded it. *)
PlanFacts(j) ==
  /\ Approved(jobs[j]) /\ Approved(tasks[j])
  /\ tasks[j].step = "upgrade" =>
       /\ tasks[j].start \in {NoRevision, db} /\ tasks[j].mode # "verify"
       /\ db < HeadOf[tasks[j].sha]
  /\ Active(j) \/ tasks[j].step \in Sessions =>
       \E i \in Entries : ledger[i].job = j /\ ledger[i].sha = tasks[j].sha

PlanInv == \A j \in Jobs : PlanFacts(j)

(* What only the lock's owner can be: no two sessions are ever past the    *)
(* advisory lock of the migration runner.                                  *)
OneSessionAtATime ==
  \A i, j \in Jobs : tasks[i].step \in Sessions /\ tasks[j].step \in Sessions => i = j

(* The database only moves forward, by the owner of the lock, to the head  *)
(* of a commit its run has put on record, from the revision that was       *)
(* approved, and through revisions of the approved kind only: a contract   *)
(* directly from the schema of the commit before it, and alone.            *)
ChangesAsApproved ==
  [][db' # db =>
       /\ db < db' /\ ~Available
       /\ \E j \in Jobs :
            LET task == tasks[j] IN
            /\ lock = j /\ db' = HeadOf[task.sha] /\ task.start = db
            /\ MayApply(task.mode, Pending(db, task.sha))
            /\ task.mode = "contract" => task.sha \notin Runtime /\ db = HeadOf[task.sha - 1]
            /\ \E i \in Entries : ledger[i].job = j /\ ledger[i].sha = task.sha]_vars

LEMMA SamePlanApproved ==
  ASSUME NEW q, NEW r, SamePlan(q, r), Approved(q)
  PROVE  Approved(r)
  BY DEF SamePlan, Approved

(* Every step leaves each run with what it was approved for.               *)
LEMMA JobPlans ==
  ASSUME TypeOK, PlanInv, [Next]_vars, NEW i \in Jobs
  PROVE  Approved(jobs'[i])
<1>1. ASSUME NEW j \in Jobs, JobChange(j), Kept(j) \/ Approved(jobs'[j])
      PROVE  Approved(jobs'[i])
  BY <1>1, SamePlanApproved DEF PlanInv, PlanFacts, JobChange, Others, Kept
<1>2. CASE UNCHANGED jobs
  BY <1>2 DEF PlanInv, PlanFacts
<1>3. ASSUME NEW j \in Jobs, JobOnly(j)
      PROVE  Approved(jobs'[i])
  <2>1. JobChange(j) /\ JobMove(j)
    BY <1>3 DEF JobOnly
  <2>2. SamePlan(jobs[j], jobs'[j]) \/ Approved(jobs'[j])
    BY <2>1 DEF JobMove, Kept
  <2>3. QED
    BY <1>1, <2>1, <2>2, SamePlanApproved DEF PlanInv, PlanFacts
<1>4. ASSUME NEW j \in Jobs, NEW outcome \in Outcomes,
             Create(j, outcome) \/ MarkInProgress(j, outcome)
               \/ RecordSuccess(j, outcome) \/ ReportFailure(j, outcome)
      PROVE  Approved(jobs'[i])
  <2> USE StepSets
  <2>1. CASE Create(j, outcome)
    <3>1. PICK to \in {"mark", "failed"} : Goto(j, to)
      BY <2>1 DEF Create
    <3>2. QED
      BY <1>1, <3>1, GotoEffect
  <2>2. CASE MarkInProgress(j, outcome)
    <3>1. PICK to \in {"save", "failed"}, v \in {"no", "memory", "saved"} :
            jobs' = [jobs EXCEPT ![j].step = to, ![j].started = v]
      BY <2>2 DEF MarkInProgress
    <3>2. QED
      BY <1>1, <3>1, SavedEffect
  <2>3. CASE RecordSuccess(j, outcome)
    BY <1>1, <2>3, OverEffect, GotoEffect DEF RecordSuccess
  <2>4. CASE ReportFailure(j, outcome)
    BY <1>1, <2>4, ToCleanupEffect DEF ReportFailure
  <2>5. QED
    BY <1>4, <2>1, <2>2, <2>3, <2>4
<1>5. ASSUME NEW j \in Jobs, NEW launch \in Launches, Launch(j, launch)
      PROVE  Approved(jobs'[i])
  <2>1. PICK to \in {"wait", "failed"} :
          jobs' = [jobs EXCEPT ![j].requested = TRUE, ![j].state = launch.state,
                               ![j].step = to]
    BY <1>5 DEF Launch
  <2>2. launch.state \in {"none", "file", "known"}
    BY DEF Launches
  <2>3. to \in Steps
    BY StepSets
  <2>4. JobChange(j) /\ SamePlan(jobs[j], jobs'[j])
    BY <2>1, <2>2, <2>3, LaunchedEffect
  <2>5. QED
    BY <1>1, <2>4, SamePlanApproved DEF PlanInv, PlanFacts
<1>6. ASSUME NEW j \in Jobs, NEW s \in Services, Update(j, s)
      PROVE  Approved(jobs'[i])
  BY <1>1, <1>6, TodoEffect DEF Update
<1>7. CASE Next
  <2>1. CASE Merge \/ \E s \in Services : Converge(s)
    BY <1>2, <2>1 DEF Merge, Converge
  <2>2. ASSUME NEW j \in Jobs, Dispatch(j) \/ TakeGroup(j)
        PROVE  Approved(jobs'[i])
    BY <1>3, <2>2, DispatchEffect, TakeGroupEffect
  <2>3. ASSUME NEW j \in Jobs, Controller(j) \/ Rollout(j)
        PROVE  Approved(jobs'[i])
    <3>1. CASE \/ Preflight(j) \/ Begin(j) \/ SaveAttempt(j) \/ Wait(j) \/ ConfirmAttempt(j)
               \/ Interrupt(j) \/ Die(j) \/ CleanupMigration(j) \/ SkipCleanup(j)
               \/ Stopped(j) \/ CleanupFails(j) \/ Conclude(j)
               \/ CheckRelease(j) \/ VerifyStage(j) \/ RolloutFails(j)
      BY <1>3, <3>1, PlainEffect
    <3>2. QED
      BY <1>4, <1>5, <1>6, <2>3, <3>1 DEF Controller, Rollout
  <2>4. ASSUME NEW j \in Jobs, TaskStep(j)
        PROVE  Approved(jobs'[i])
    BY <1>2, <2>4 DEF TaskStep, jobVars
  <2>5. QED
    BY <1>7, <2>1, <2>2, <2>3, <2>4 DEF Next
<1>8. QED
  BY <1>2, <1>7 DEF vars

(* Records are added and their status is written; whose they are and of    *)
(* which commit stays.                                                     *)
LEMMA RecordsStay ==
  ASSUME TypeOK, ChangeInv, [Next]_vars, NEW k \in Entries
  PROVE  /\ k \in Entries' /\ ledger'[k].job = ledger[k].job
         /\ ledger'[k].sha = ledger[k].sha
<1>1. CASE UNCHANGED ledger
  BY <1>1 DEF Entries
<1>2. ASSUME NEW status \in Statuses, ledger # <<>>,
             ledger' = [ledger EXCEPT ![Len(ledger)].status = status]
      PROVE  /\ k \in Entries' /\ ledger'[k].job = ledger[k].job
             /\ ledger'[k].sha = ledger[k].sha
  <2>1. CASE k = Len(ledger)
    BY <1>2, <2>1, StatusEffect, LedgerTypes DEF Entries
  <2>2. CASE k # Len(ledger)
    BY <1>2, <2>2, StatusEffect, LedgerTypes DEF Entries
  <2>3. QED
    BY <2>1, <2>2
<1>3. ASSUME NEW j \in Jobs, NEW c \in Commits, ledger' = Append(ledger, Recorded(j, c))
      PROVE  /\ k \in Entries' /\ ledger'[k].job = ledger[k].job
             /\ ledger'[k].sha = ledger[k].sha
  BY <1>3, AppendEffect, LedgerTypes DEF Entries
<1>4. \/ UNCHANGED ledger
      \/ \E status \in Statuses : ledger' = [ledger EXCEPT ![Len(ledger)].status = status]
      \/ \E j \in Jobs, c \in Commits : ledger' = Append(ledger, Recorded(j, c))
  <2>1. CASE UNCHANGED vars
    BY <2>1 DEF vars
  <2>2. ASSUME NEW j \in Jobs, NEW outcome \in Outcomes, Create(j, outcome)
        PROVE  UNCHANGED ledger \/ \E c \in Commits : ledger' = Append(ledger, Recorded(j, c))
    <3>1. jobs[j].sha \in Commits
      BY JobState DEF JobStates
    <3>2. QED
      BY <2>2, <3>1 DEF Create, CreateDeployment, Post
  <2>3. ASSUME NEW j \in Jobs, NEW outcome \in Outcomes,
               MarkInProgress(j, outcome) \/ RecordSuccess(j, outcome) \/ ReportFailure(j, outcome)
        PROVE  \/ UNCHANGED ledger
               \/ \E status \in Statuses :
                    ledger' = [ledger EXCEPT ![Len(ledger)].status = status]
    <3>1. /\ jobs[j].step \in {"mark", "success", "report"} /\ LedgerFacts(j)
          /\ \E status \in Statuses : WriteStatus(j, status, outcome)
      BY <2>3 DEF MarkInProgress, RecordSuccess, ReportFailure, At, ChangeInv, JobFacts, Statuses
    <3>2. /\ ledger # <<>> /\ Latest.job = j
          /\ \A l \in Entries : ledger[l].job = j => l = Len(ledger)
      BY <3>1, StepSets DEF LedgerFacts, StillSo, At, Unfinished, Mine, Begun
    <3>3. QED
      BY <3>1, <3>2, WrittenLast
  <2>4. CASE Merge \/ \E s \in Services : Converge(s)
    BY <2>4 DEF Merge, Converge
  <2>5. ASSUME NEW j \in Jobs, Dispatch(j) \/ TakeGroup(j) \/ TaskStep(j) \/ Rollout(j)
        PROVE  UNCHANGED ledger
    BY <2>5 DEF Dispatch, DispatchMigration, DispatchRollout, TakeGroup, TaskStep, jobVars,
                Rollout, CheckRelease, VerifyStage, RolloutFails, Update
  <2>6. ASSUME NEW j \in Jobs,
               \/ Preflight(j) \/ Begin(j) \/ SaveAttempt(j) \/ Wait(j) \/ ConfirmAttempt(j)
               \/ Interrupt(j) \/ Die(j) \/ CleanupMigration(j) \/ SkipCleanup(j)
               \/ Stopped(j) \/ CleanupFails(j) \/ Conclude(j)
               \/ \E launch \in Launches : Launch(j, launch)
        PROVE  UNCHANGED ledger
    BY <2>6 DEF Preflight, Begin, SaveAttempt, Wait, ConfirmAttempt, Interrupt, Die,
                CleanupMigration, SkipCleanup, Stopped, CleanupFails, Conclude, Launch
  <2>7. QED
    BY <2>1, <2>2, <2>3, <2>4, <2>5, <2>6 DEF Next, Controller
<1>5. ledger = <<>> => Entries = {}
  BY DEF Entries
<1>6. QED
  BY <1>1, <1>2, <1>3, <1>4, <1>5

(* What the database and a task were before decides what they become.      *)
TaskPlanStep(i) ==
  /\ Approved(tasks'[i])
  /\ Active(i)' \/ tasks'[i].step \in Sessions =>
       \E k \in Entries' : ledger'[k].job = i /\ ledger'[k].sha = tasks'[i].sha
  /\ tasks'[i].step = "upgrade" =>
       /\ tasks'[i].start \in {NoRevision, db'} /\ tasks'[i].mode # "verify"
       /\ db' < HeadOf[tasks'[i].sha]

(* A task that goes on works for the commit its run has on record.         *)
TaskGoes(j) ==
  \/ /\ SamePlan(tasks[j], tasks'[j])
     /\ Active(j) \/ tasks[j].step \in Sessions
     /\ tasks'[j].step = "upgrade" =>
          /\ db' = db
          /\ \/ tasks[j].step = "upgrade"
             \/ tasks[j].start \in {NoRevision, db} /\ Applies(j)
  \/ tasks'[j].status = "stopped" /\ tasks'[j].step = "closed" /\ Approved(tasks'[j])

LEMMA TaskGoesOn ==
  ASSUME TypeOK, NEW j \in Jobs, TaskStep(j), TaskFacts(j)
  PROVE  TaskGoes(j)
<1> USE DEF Active, Sessions
<1>0. Success \in {Success, Rejected} /\ Rejected \in {Success, Rejected}
  OBVIOUS
<1>1. CASE \E code \in {Success, Rejected} : Exits(j, code)
  BY <1>1, ExitsEffect DEF TaskGoes
<1>2. CASE Active(j) /\ (Goes(j, "locked") \/ Goes(j, "unlock"))
  BY <1>2, GoesEffect DEF TaskGoes
<1>3. CASE /\ Active(j) /\ Goes(j, "upgrade") /\ db' = db
           /\ tasks[j].start \in {NoRevision, db} /\ Applies(j)
  BY <1>3, GoesEffect DEF TaskGoes
<1>4. CASE /\ Active(j) /\ db' = db
           /\ tasks' = [tasks EXCEPT ![j].status = "stopped", ![j].exit = Rejected]
  BY <1>4, KilledEffect DEF TaskGoes
<1>5. QED
  <2>1. CASE TakeLock(j)
    BY <1>0, <1>1, <1>2, <2>1 DEF TakeLock
  <2>2. CASE Compare(j)
    BY <1>0, <1>1, <1>3, <2>2 DEF Compare
  <2>3. CASE Upgrade(j)
    BY <1>2, <2>3 DEF Upgrade
  <2>4. CASE UpgradeFails(j) \/ Unlock(j) \/ SessionEnds(j)
    BY <1>0, <1>1, <2>4 DEF UpgradeFails, Unlock, SessionEnds
  <2>5. CASE Kill(j)
    BY <1>0, <1>1, <1>4, <2>5 DEF Kill
  <2>6. QED
    BY <2>1, <2>2, <2>3, <2>4, <2>5 DEF TaskStep, RunnerStep

LEMMA TaskPlans ==
  ASSUME TypeOK, ChangeInv, PlanInv, [Next]_vars, NEW i \in Jobs
  PROVE  TaskPlanStep(i)
<1>1. ASSUME tasks'[i] = tasks[i], tasks[i].step = "upgrade" => db' = db
      PROVE  TaskPlanStep(i)
  BY <1>1, RecordsStay DEF PlanInv, PlanFacts, TaskPlanStep, Active
<1>2. ASSUME NEW j \in Jobs, TaskStep(j)
      PROVE  TaskPlanStep(i)
  <2>1. TaskFacts(i) /\ TaskFacts(j) /\ TaskMove(j)
    BY <1>2, TaskStepEffect DEF TaskStep, ChangeInv, JobFacts
  <2>2. CASE i # j
    <3>1. tasks'[i] = tasks[i]
      BY <2>1, <2>2 DEF TaskMove
    <3>2. db' # db => tasks[i].step # "upgrade"
      BY <2>1, <2>2 DEF TaskMove, TaskFacts, Sessions
    <3>3. QED
      BY <1>1, <3>1, <3>2
  <2>3. CASE i = j
    <3>1. TaskGoes(i) /\ PlanFacts(i)
      BY <1>2, <2>1, <2>3, TaskGoesOn DEF PlanInv
    <3>2. CASE /\ SamePlan(tasks[i], tasks'[i])
               /\ Active(i) \/ tasks[i].step \in Sessions
               /\ tasks'[i].step = "upgrade" =>
                    /\ db' = db
                    /\ \/ tasks[i].step = "upgrade"
                       \/ tasks[i].start \in {NoRevision, db} /\ Applies(i)
      <4>1. Approved(tasks'[i])
        BY <3>1, <3>2, SamePlanApproved DEF PlanFacts
      <4>2. \E k \in Entries' : ledger'[k].job = i /\ ledger'[k].sha = tasks'[i].sha
        BY <3>1, <3>2, RecordsStay DEF PlanFacts, SamePlan
      <4>3. tasks'[i].step = "upgrade" =>
              /\ tasks'[i].start \in {NoRevision, db'} /\ tasks'[i].mode # "verify"
              /\ db' < HeadOf[tasks'[i].sha]
        BY <3>1, <3>2 DEF PlanFacts, SamePlan, Applies
      <4>4. QED
        BY <4>1, <4>2, <4>3 DEF TaskPlanStep
    <3>3. CASE /\ tasks'[i].status = "stopped" /\ tasks'[i].step = "closed"
               /\ Approved(tasks'[i])
      BY <3>3 DEF TaskPlanStep, Active, Sessions
    <3>4. QED
      BY <3>1, <3>2, <3>3 DEF TaskGoes
  <2>4. QED
    BY <2>2, <2>3
<1>3. ASSUME NEW j \in Jobs, NEW launch \in Launches, Launch(j, launch)
      PROVE  TaskPlanStep(i)
  <2>1. db' = db /\ UNCHANGED ledger
    BY <1>3 DEF Launch
  <2>2. CASE UNCHANGED tasks
    BY <1>1, <2>1, <2>2
  <2>3. CASE RunTask(j, jobs[j].mode, jobs[j].sha, jobs[j].start)
    <3>1. /\ \A l \in Jobs \ {j} : tasks'[l] = tasks[l]
          /\ tasks'[j].step = "connect" /\ tasks'[j].sha = jobs[j].sha
          /\ SamePlan(jobs[j], tasks'[j])
      BY <2>3, RunTaskEffect
    <3>2. CASE i # j
      BY <1>1, <2>1, <3>1, <3>2
    <3>3. CASE i = j
      <4>1. Approved(tasks'[i])
        BY <3>1, <3>3, SamePlanApproved DEF PlanInv, PlanFacts
      <4>2. /\ Len(ledger) \in Entries /\ ledger[Len(ledger)].job = i
            /\ ledger[Len(ledger)].sha = tasks'[i].sha
        <5>1. ledger # <<>> /\ Latest.job = j /\ Latest.sha = jobs[j].sha
          BY <1>3 DEF Launch, At, ChangeInv, JobFacts, LedgerFacts, Begun
        <5>2. QED
          BY <3>1, <3>3, <5>1, LedgerTypes
      <4>3. \E k \in Entries' : ledger'[k].job = i /\ ledger'[k].sha = tasks'[i].sha
        BY <2>1, <4>2 DEF Entries
      <4>4. QED
        BY <3>1, <3>3, <4>1, <4>3 DEF TaskPlanStep
    <3>4. QED
      BY <3>2, <3>3
  <2>4. QED
    BY <1>3, <2>2, <2>3 DEF Launch
<1>4. ASSUME UNCHANGED <<db, tasks>> PROVE TaskPlanStep(i)
  BY <1>1, <1>4
<1>5. CASE UNCHANGED vars
  BY <1>4, <1>5 DEF vars
<1>6. CASE Next
  <2>1. CASE Merge \/ \E s \in Services : Converge(s)
    BY <1>4, <2>1 DEF Merge, Converge
  <2>2. ASSUME NEW j \in Jobs, Dispatch(j) \/ TakeGroup(j) \/ Rollout(j)
        PROVE  UNCHANGED <<db, tasks>>
    BY <2>2 DEF Dispatch, DispatchMigration, DispatchRollout, TakeGroup,
                Rollout, CheckRelease, VerifyStage, RolloutFails, Update
  <2>3. ASSUME NEW j \in Jobs,
               \/ Preflight(j) \/ Begin(j) \/ SaveAttempt(j) \/ Wait(j) \/ ConfirmAttempt(j)
               \/ Interrupt(j) \/ Die(j) \/ CleanupMigration(j) \/ SkipCleanup(j)
               \/ Stopped(j) \/ CleanupFails(j) \/ Conclude(j)
               \/ \E outcome \in Outcomes : Create(j, outcome) \/ MarkInProgress(j, outcome)
                                              \/ RecordSuccess(j, outcome)
                                              \/ ReportFailure(j, outcome)
        PROVE  UNCHANGED <<db, tasks>>
    BY <2>3 DEF Preflight, Begin, SaveAttempt, Wait, ConfirmAttempt, Interrupt, Die,
                CleanupMigration, SkipCleanup, Stopped, CleanupFails, Conclude, Create,
                MarkInProgress, RecordSuccess, ReportFailure
  <2>4. QED
    BY <1>2, <1>3, <1>4, <1>6, <2>1, <2>2, <2>3 DEF Next, Controller
<1>7. QED
  BY <1>5, <1>6

LEMMA PlanHolds == Spec => [](TypeOK /\ ChangeInv /\ PlanInv)
<1>1. Init => PlanInv
  <2> SUFFICES ASSUME Init, NEW j \in Jobs PROVE PlanFacts(j)
    BY DEF PlanInv
  <2>1. jobs[j] = NoJob /\ tasks[j] = NoTask
    BY DEF Init, TaskInit
  <2>2. /\ jobs[j].mode = "verify" /\ tasks[j].mode = "verify"
        /\ tasks[j].step = "connect" /\ tasks[j].status = "none"
    BY <2>1 DEF NoJob, NoTask
  <2>3. QED
    BY <2>2 DEF PlanFacts, Approved, Active, Sessions
<1>2. TypeOK /\ ChangeInv /\ PlanInv /\ [Next]_vars => PlanInv'
  BY JobPlans, TaskPlans DEF PlanInv, PlanFacts, TaskPlanStep
<1>3. QED
  BY <1>1, <1>2, InvariantHolds, PTL DEF Spec

(* The session advisory lock of the migration runner: from taking it to    *)
(* its release or the end of the connection, at most one session is past   *)
(* it, even when a task was stopped and its session lives on.              *)
THEOREM OneSession == Spec => []OneSessionAtATime
<1>1. TypeOK /\ ChangeInv => OneSessionAtATime
  <2> SUFFICES ASSUME ChangeInv, NEW i \in Jobs, NEW j \in Jobs,
                      tasks[i].step \in Sessions, tasks[j].step \in Sessions
               PROVE  i = j
    BY DEF OneSessionAtATime
  <2>1. lock = i /\ lock = j
    BY DEF ChangeInv, JobFacts, TaskFacts
  <2>2. QED
    BY <2>1
<1>2. QED
  BY <1>1, InvariantHolds, PTL

(* Only an upgrade under the lock changes the revision.                    *)
LEMMA OnlyUpgrades ==
  ASSUME TypeOK, ChangeInv, [Next]_vars, db' # db
  PROVE  \E j \in Jobs : tasks[j].step = "upgrade" /\ lock = j /\ db' = HeadOf[tasks[j].sha]
<1>1. Next
  BY DEF vars
<1>2. ~UNCHANGED db
  OBVIOUS
<1>3. ~Merge /\ \A s \in Services : ~Converge(s)
  BY <1>2 DEF Merge, Converge
<1>4. ASSUME NEW j \in Jobs
      PROVE  ~Dispatch(j) /\ ~TakeGroup(j) /\ ~Rollout(j)
  BY <1>2 DEF Dispatch, DispatchMigration, DispatchRollout, TakeGroup, Rollout, CheckRelease,
              VerifyStage, RolloutFails, Update
<1>5. ASSUME NEW j \in Jobs
      PROVE  ~Controller(j)
  BY <1>2 DEF Controller, Preflight, Begin, SaveAttempt, Wait, ConfirmAttempt, Interrupt, Die,
              CleanupMigration, SkipCleanup, Stopped, CleanupFails, Create, MarkInProgress,
              RecordSuccess, Conclude, ReportFailure, Launch
<1>6. PICK j \in Jobs : TaskStep(j)
  BY <1>1, <1>3, <1>4, <1>5 DEF Next
<1>7. tasks[j].step = "upgrade" /\ db' = HeadOf[tasks[j].sha]
  BY <1>2, <1>6 DEF TaskStep, RunnerStep, TakeLock, Compare, Upgrade, UpgradeFails, Unlock,
                    SessionEnds, Kill
<1>8. lock = j
  BY <1>7 DEF ChangeInv, JobFacts, TaskFacts, Sessions
<1>9. QED
  BY <1>7, <1>8

(* app/migrations/runner.py with the controller before it: whatever runs   *)
(* wait, die or are retried, and though a stopped task's COMMIT may still  *)
(* take effect, the database only moves forward, from the revision that    *)
(* was approved, by an attempt that is on record and while no success is;  *)
(* a contract is applied alone, on the schema of the commit before it.     *)
THEOREM ChangesAreAsApproved == Spec => ChangesAsApproved
<1>1. TypeOK /\ ChangeInv /\ PlanInv /\ [Next]_vars /\ db' # db =>
        /\ db < db' /\ ~Available
        /\ \E j \in Jobs :
             LET task == tasks[j] IN
             /\ lock = j /\ db' = HeadOf[task.sha] /\ task.start = db
             /\ MayApply(task.mode, Pending(db, task.sha))
             /\ task.mode = "contract" =>
                  task.sha \notin Runtime /\ db = HeadOf[task.sha - 1]
             /\ \E i \in Entries : ledger[i].job = j /\ ledger[i].sha = task.sha
  <2> SUFFICES ASSUME TypeOK, ChangeInv, PlanInv, [Next]_vars, db' # db
               PROVE  /\ db < db' /\ ~Available
                      /\ \E j \in Jobs :
                           LET task == tasks[j] IN
                           /\ lock = j /\ db' = HeadOf[task.sha] /\ task.start = db
                           /\ MayApply(task.mode, Pending(db, task.sha))
                           /\ task.mode = "contract" =>
                                task.sha \notin Runtime /\ db = HeadOf[task.sha - 1]
                           /\ \E i \in Entries :
                                ledger[i].job = j /\ ledger[i].sha = task.sha
    OBVIOUS
  <2>1. PICK j \in Jobs :
          tasks[j].step = "upgrade" /\ lock = j /\ db' = HeadOf[tasks[j].sha]
    BY OnlyUpgrades
  <2>2. /\ Approved(tasks[j]) /\ tasks[j].mode # "verify"
        /\ tasks[j].start \in {NoRevision, db} /\ db < HeadOf[tasks[j].sha]
        /\ \E i \in Entries : ledger[i].job = j /\ ledger[i].sha = tasks[j].sha
    BY <2>1 DEF PlanInv, PlanFacts, Sessions
  <2>3. /\ tasks[j].start = db /\ MayApply(tasks[j].mode, Pending(db, tasks[j].sha))
        /\ tasks[j].mode = "contract" =>
             tasks[j].sha \notin Runtime /\ db = HeadOf[tasks[j].sha - 1]
    BY <2>2 DEF Approved
  <2>4. ~Available
    <3>1. AtWork # {}
      BY <2>1 DEF AtWork, Jobs
    <3>2. QED
      BY <3>1 DEF ChangeInv, SuccessIsTrue
  <2>5. db < db'
    BY <2>1, <2>2
  <2>6. QED
    BY <2>1, <2>2, <2>3, <2>4, <2>5
<1>2. QED
  BY <1>1, PlanHolds, PTL DEF Spec, ChangesAsApproved
=============================================================================
