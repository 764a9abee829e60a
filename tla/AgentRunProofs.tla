--------------------------- MODULE AgentRunProofs ---------------------------
(* Proofs about AgentRun, for every set of users, threads, runs, workers   *)
(* and days, every limit, deadline window and number of deliveries.        *)
EXTENDS AgentRun, FiniteSetTheorems, TLAPS

-----------------------------------------------------------------------------
(* Reading a run's state                                                   *)

(* RunState.phase in terms of the columns.                                 *)
LEMMA PhaseIs ==
  ASSUME TypeOK, NEW r \in Runs
  PROVE  /\ Phase(r) = "queued" <=> status[r] = "queued"
         /\ Phase(r) = "preparing" <=> status[r] = "running" /\ ~started[r]
         /\ Phase(r) = "answering" <=> status[r] = "running" /\ started[r]
<1>1. status[r] \in Status /\ started[r] \in BOOLEAN
  BY DEF TypeOK
<1>2. CASE ~Active(r)
  <2>1. Phase(r) = "finished"
    BY <1>1, <1>2 DEF Phase, Active
  <2>2. QED
    BY <1>2, <2>1 DEF Active
<1>3. CASE status[r] = "queued"
  <2>1. Phase(r) = "queued"
    BY <1>3 DEF Phase, Active
  <2>2. QED
    BY <1>3, <2>1
<1>4. CASE status[r] = "running" /\ ~started[r]
  <2>1. Phase(r) = "preparing"
    BY <1>4 DEF Phase, Active
  <2>2. QED
    BY <1>4, <2>1
<1>5. CASE status[r] = "running" /\ started[r]
  <2>1. Phase(r) = "answering"
    BY <1>5 DEF Phase, Active
  <2>2. QED
    BY <1>5, <2>1
<1>6. QED
  BY <1>1, <1>2, <1>3, <1>4, <1>5 DEF Active

(* A busy worker has a job of the model.                                   *)
LEMMA BusyWorker ==
  ASSUME TypeOK, NEW w \in Workers, wpc[w] # "idle"
  PROVE  /\ job[w] \in Jobs
         /\ job[w].run \in Runs /\ job[w].epoch \in Nat
         /\ job[w] = [run |-> job[w].run, epoch |-> job[w].epoch]
<1>1. job[w] \in Jobs
  BY DEF TypeOK
<1>2. QED
  BY <1>1 DEF Jobs

-----------------------------------------------------------------------------
(* The quota rows                                                          *)

(* The runs of S whose place of user u on day d is given back.             *)
Returned(S, u, d) ==
  {r \in S : status[r] = "queued" /\ UserOf(r) = u /\ usage_date[r] = d}

LEMMA ReturnedIsFinite ==
  ASSUME NEW S \in SUBSET Runs, NEW u, NEW d
  PROVE  IsFiniteSet(Returned(S, u, d)) /\ Cardinality(Returned(S, u, d)) \in Nat
<1>1. Returned(S, u, d) \subseteq Runs
  BY DEF Returned
<1>2. IsFiniteSet(Returned(S, u, d))
  BY <1>1, FS_Subset, AgentAssumption
<1>3. QED
  BY <1>2, FS_CardinalityType

(* A release subtracts, and never leaves the range of the counter.         *)
LEMMA ReleaseRange ==
  ASSUME TypeOK, NEW S \in SUBSET Runs, Release(S)
  PROVE  used' \in [Users -> [Days -> 0..DailyLimit]]
<1> DEFINE left(u, d) == IF used[u][d] >= Cardinality(Returned(S, u, d))
                         THEN used[u][d] - Cardinality(Returned(S, u, d)) ELSE used[u][d]
<1>1. used' = [u \in Users |-> [d \in Days |-> left(u, d)]]
  BY DEF Release, Returned
<1>2. ASSUME NEW u \in Users, NEW d \in Days
      PROVE  left(u, d) \in 0..DailyLimit
  <2>1. used[u][d] \in 0..DailyLimit
    BY DEF TypeOK
  <2>2. Cardinality(Returned(S, u, d)) \in Nat
    BY ReturnedIsFinite
  <2>3. QED
    BY <2>1, <2>2, AgentAssumption
<1> HIDE DEF left
<1>3. QED
  BY <1>1, <1>2

LEMMA FinishTypes ==
  ASSUME TypeOK, NEW S \in SUBSET Runs, NEW s \in Status, FinishAll(S, s)
  PROVE  /\ status' \in [Runs -> Status]
         /\ used' \in [Users -> [Days -> 0..DailyLimit]]
<1>1. used' \in [Users -> [Days -> 0..DailyLimit]]
  BY ReleaseRange DEF FinishAll
<1>2. QED
  BY <1>1 DEF FinishAll, TypeOK

LEMMA RefuseTypes ==
  ASSUME TypeOK, NEW r \in Runs, NEW admitted \in BOOLEAN, Refuse(r, admitted)
  PROVE  /\ status' \in [Runs -> Status]
         /\ used' \in [Users -> [Days -> 0..DailyLimit]]
<1>1. CASE admitted
  BY <1>1, FinishTypes DEF Refuse, Finish, Status, Terminal
<1>2. CASE ~admitted
  BY <1>2 DEF Refuse, NotFinished, TypeOK
<1>3. QED
  BY <1>1, <1>2

-----------------------------------------------------------------------------
(* While an admission holds the lock of its thread, the thread stays, and  *)
(* what it found stays so: there is no active run, and no other admission. *)
AdmissionInv ==
  \A r \in Runs : router[r] = "admitting" =>
    /\ status[r] = "absent" /\ thread[ThreadOf[r]] # "deleted"
    /\ ~HasActiveRun(ThreadOf[r])
    /\ \A q \in Runs : router[q] = "admitting" /\ ThreadOf[q] = ThreadOf[r] => q = r

-----------------------------------------------------------------------------
(* What a step does to the runs.  Whatever handler takes it, a step admits *)
(* a run, ends some active runs, starts an attempt, starts an answer,      *)
(* saves an answer, deletes a thread, or leaves the rows alone.            *)
Admits(r) ==
  LET t == ThreadOf[r] IN
  /\ status[r] = "absent" /\ thread[t] # "deleted"
  /\ ~HasActiveRun(t) /\ MayReserve(Owner[t])
  /\ thread' = [thread EXCEPT ![t] = "present"]
  /\ status' = [status EXCEPT ![r] = "queued"]
  /\ usage_date' = [usage_date EXCEPT ![r] = today]
  /\ used' = [used EXCEPT ![Owner[t]][today] = @ + 1]
  /\ UNCHANGED <<epoch, started, answers>>

Ends(S, s) ==
  /\ \A r \in S : Exists(r) /\ Active(r)
  /\ FinishAll(S, s)
  /\ UNCHANGED <<thread, epoch, started, usage_date, answers>>

Attempts(r) ==
  /\ Exists(r) /\ Active(r) /\ ~(status[r] = "running" /\ started[r])
  /\ status' = [status EXCEPT ![r] = "running"]
  /\ epoch' = [epoch EXCEPT ![r] = @ + 1]
  /\ UNCHANGED <<thread, started, usage_date, answers, used>>

Begins(r) ==
  /\ Exists(r) /\ status[r] = "running" /\ ~started[r]
  /\ started' = [started EXCEPT ![r] = TRUE]
  /\ UNCHANGED <<thread, status, epoch, usage_date, answers, used>>

Answers(r) ==
  /\ Exists(r) /\ status[r] = "running" /\ started[r]
  /\ Finish(r, "completed")
  /\ answers' = [answers EXCEPT ![r] = @ \cup {epoch[r]}]
  /\ UNCHANGED <<thread, epoch, started, usage_date>>

Deletes(t) ==
  /\ thread[t] = "present" /\ ThreadIsFree(t)
  /\ thread' = [thread EXCEPT ![t] = "deleted"]
  /\ UNCHANGED <<status, epoch, started, usage_date, answers, used>>

Quiet == UNCHANGED <<thread, status, epoch, started, usage_date, answers, used>>

Progress ==
  \/ \E r \in Runs : Attempts(r) \/ Begins(r) \/ Answers(r)
  \/ \E S \in SUBSET Runs, s \in {"failed", "deadline_exceeded"} : Ends(S, s)
  \/ \E t \in Threads : Deletes(t)
  \/ Quiet

Effect == Progress \/ \E r \in Runs : Admits(r)

(* An admitted refusal ends one active run, another one changes nothing.   *)
LEMMA RefusalEffect ==
  ASSUME NEW r \in Runs, NEW admitted \in BOOLEAN,
         admitted => Exists(r) /\ Active(r),
         Refuse(r, admitted),
         UNCHANGED <<thread, epoch, started, usage_date, answers>>
  PROVE  Progress
<1>1. CASE admitted
  <2>1. Ends({r}, "deadline_exceeded")
    BY <1>1 DEF Refuse, Finish, Ends
  <2>2. QED
    BY <2>1 DEF Progress
<1>2. CASE ~admitted
  BY <1>2 DEF Refuse, NotFinished, Progress, Quiet
<1>3. QED
  BY <1>1, <1>2

LEMMA FinishEffect ==
  ASSUME NEW r \in Runs, NEW s \in {"failed", "deadline_exceeded"},
         Exists(r), Active(r), Finish(r, s),
         UNCHANGED <<thread, epoch, started, usage_date, answers>>
  PROVE  Progress
<1>1. Ends({r}, s)
  BY DEF Finish, Ends
<1>2. QED
  BY <1>1 DEF Progress

LEMMA StopsShortEffect ==
  ASSUME TypeOK, NEW w \in Workers, wpc[w] # "idle", NEW phases, StopsShort(w, phases),
         UNCHANGED <<thread, epoch, started, usage_date, answers>>
  PROVE  Progress
<1> DEFINE r == job[w].run
           admitted == Owns(w) /\ Phase(r) \in phases
<1>1. r \in Runs
  BY BusyWorker
<1>2. Refuse(r, admitted)
  BY DEF StopsShort
<1>3. admitted => Exists(r) /\ Active(r)
  BY DEF Owns, Active
<1>4. admitted \in BOOLEAN
  BY DEF Owns
<1> HIDE DEF r, admitted
<1>5. QED
  BY <1>1, <1>2, <1>3, <1>4, RefusalEffect

(* Steps of the API and of the deadline checks.                            *)
LEMMA AdmissionEffect ==
  ASSUME AdmissionInv, NEW r \in Runs, CreateRun(r)
  PROVE  Admits(r)
  BY DEF AdmissionInv, CreateRun, Admits

LEMMA ApiEffect ==
  ASSUME TypeOK, NEW r \in Runs, ApiStep(r), ~CreateRun(r)
  PROVE  Progress
<1>1. CASE Admit(r) \/ Rollback(r)
  BY <1>1 DEF Admit, Rollback, rowVars, Progress, Quiet
<1>2. CASE Enqueue(r) \/ RouterGivesUp(r)
  BY <1>2 DEF Enqueue, RouterGivesUp, rowVars, Progress, Quiet
<1>3. CASE RecordEnqueueFailure(r)
  <2> DEFINE waiting == Exists(r) /\ Phase(r) = "queued"
  <2>1. waiting => Exists(r) /\ Active(r)
    BY PhaseIs DEF Active
  <2>2. waiting \in BOOLEAN
    BY DEF Exists
  <2>3. CASE waiting /\ RecoveryLeft(r) > 0
    BY <1>3, <2>1, <2>3, FinishEffect DEF RecordEnqueueFailure
  <2>4. CASE ~(waiting /\ RecoveryLeft(r) > 0)
    <3>1. Refuse(r, waiting) /\ UNCHANGED <<thread, epoch, started, usage_date, answers>>
      BY <1>3, <2>4 DEF RecordEnqueueFailure
    <3> HIDE DEF waiting
    <3>2. QED
      BY <2>1, <2>2, <3>1, RefusalEffect
  <2>5. QED
    BY <2>3, <2>4
<1>4. CASE CancelRun(r)
  <2>1. Exists(r) /\ Active(r)
    BY <1>4, PhaseIs DEF CancelRun, MayCancel, Active
  <2>2. QED
    BY <1>4, <2>1, FinishEffect DEF CancelRun
<1>5. QED
  BY <1>1, <1>2, <1>3, <1>4 DEF ApiStep

LEMMA RecoverEffect ==
  ASSUME NEW S \in SUBSET Overdue, Recover(S)
  PROVE  Progress
<1>1. S \in SUBSET Runs /\ Ends(S, "deadline_exceeded")
  BY DEF Recover, Overdue, Ends
<1>2. QED
  BY <1>1 DEF Progress

(* Steps of a worker.                                                      *)
LEMMA WorkerEffect ==
  ASSUME TypeOK, NEW w \in Workers, WorkerStep(w)
  PROVE  Progress
<1> DEFINE j == job[w].run
<1>1. ASSUME NEW r \in Runs, StartAttempt(w, r)
      PROVE  Progress
  <2>1. Startable(r) \in BOOLEAN /\ (Startable(r) => Exists(r) /\ Active(r))
    BY PhaseIs DEF Startable, Exists, Active
  <2>2. CASE Startable(r) /\ accept_left[r] > 0
    <3>1. ~(status[r] = "running" /\ started[r])
      BY <2>2, PhaseIs DEF Startable
    <3>2. Attempts(r)
      BY <1>1, <2>1, <2>2, <3>1 DEF StartAttempt, Attempts
    <3>3. QED
      BY <3>2 DEF Progress
  <2>3. CASE ~(Startable(r) /\ accept_left[r] > 0)
    BY <1>1, <2>1, <2>3, RefusalEffect DEF StartAttempt
  <2>4. QED
    BY <2>2, <2>3
<1>2. CASE EnsureCanContinue(w)
  <2>1. CASE StopsShort(w, {"preparing", "answering"})
    BY <1>2, <2>1, StopsShortEffect DEF EnsureCanContinue
  <2>2. CASE NotFinished
    BY <1>2, <2>2 DEF EnsureCanContinue, NotFinished, Progress, Quiet
  <2>3. QED
    BY <1>2, <2>1, <2>2 DEF EnsureCanContinue
<1>3. CASE StartAnswerGeneration(w)
  <2>1. CASE StopsShort(w, {"preparing"}) /\ UNCHANGED <<started, answer_left>>
    BY <1>3, <2>1, StopsShortEffect DEF StartAnswerGeneration
  <2>2. CASE Proceeds(w, {"preparing"}) /\ NotFinished
             /\ started' = [started EXCEPT ![j] = TRUE]
    <3>1. j \in Runs
      BY <1>3, BusyWorker DEF StartAnswerGeneration
    <3>2. Exists(j) /\ status[j] = "running" /\ ~started[j]
      BY <2>2, <3>1, PhaseIs DEF Proceeds, Owns
    <3>3. Begins(j)
      BY <1>3, <2>2, <3>2 DEF StartAnswerGeneration, NotFinished, Begins
    <3>4. QED
      BY <3>1, <3>3 DEF Progress
  <2>3. QED
    BY <1>3, <2>1, <2>2 DEF StartAnswerGeneration
<1>4. CASE AuthorizeRegeneration(w)
  BY <1>4, StopsShortEffect DEF AuthorizeRegeneration
<1>5. CASE Complete(w)
  <2> DEFINE admitted == Owns(w) /\ Phase(j) = "answering"
  <2>1. j \in Runs
    BY <1>5, BusyWorker DEF Complete
  <2>2. admitted => Exists(j) /\ status[j] = "running" /\ started[j]
    BY <2>1, PhaseIs DEF Owns
  <2>3. CASE admitted /\ RecoveryLeft(j) > 0
    <3>1. job[w].epoch = epoch[j]
      BY <2>3 DEF Owns
    <3>2. Answers(j)
      BY <1>5, <2>2, <2>3, <3>1 DEF Complete, Answers
    <3>3. QED
      BY <2>1, <3>2 DEF Progress
  <2>4. CASE ~(admitted /\ RecoveryLeft(j) > 0)
    <3>1. Refuse(j, admitted) /\ UNCHANGED <<thread, epoch, started, usage_date, answers>>
      BY <1>5, <2>4 DEF Complete
    <3>2. admitted \in BOOLEAN /\ (admitted => Exists(j) /\ Active(j))
      BY <2>2 DEF Active, Owns
    <3> HIDE DEF admitted, j
    <3>3. QED
      BY <2>1, <3>1, <3>2, RefusalEffect
  <2>5. QED
    BY <2>3, <2>4
<1>6. CASE MarkFailed(w)
  <2>1. j \in Runs
    BY <1>6, BusyWorker DEF MarkFailed
  <2>2. Owns(w) \in BOOLEAN /\ (Owns(w) => Exists(j) /\ Active(j))
    BY DEF Owns, Active
  <2>3. CASE Owns(w) /\ RecoveryLeft(j) > 0
    BY <1>6, <2>1, <2>2, <2>3, FinishEffect DEF MarkFailed
  <2>4. CASE ~(Owns(w) /\ RecoveryLeft(j) > 0)
    BY <1>6, <2>1, <2>2, <2>4, RefusalEffect DEF MarkFailed
  <2>5. QED
    BY <2>3, <2>4
<1>7. CASE WorkerDies(w)
  BY <1>7 DEF WorkerDies, rowVars, Progress, Quiet
<1>8. QED
  BY <1>1, <1>2, <1>3, <1>4, <1>5, <1>6, <1>7 DEF WorkerStep

LEMMA OtherEffect ==
  ASSUME TypeOK, [Next]_vars, ~ \E r \in Runs : CreateRun(r)
  PROVE  Progress
<1>1. ASSUME NEW r \in Runs, CheckDeadline(r)
      PROVE  Progress
  <2>1. {r} \in SUBSET Overdue
    BY <1>1 DEF CheckDeadline
  <2>2. QED
    BY <1>1, <2>1, RecoverEffect DEF CheckDeadline
<1>2. ASSUME NEW t \in Threads, DeleteThread(t)
      PROVE  Progress
  <2>1. Deletes(t)
    BY <1>2 DEF DeleteThread, Deletes, rowVars
  <2>2. QED
    BY <2>1 DEF Progress
<1>3. ASSUME NEW t \in Threads, OpenThread(t)
      PROVE  Progress
  <2>1. {r \in Overdue : ThreadOf[r] = t} \in SUBSET Overdue
    OBVIOUS
  <2>2. QED
    BY <1>3, <2>1, RecoverEffect DEF OpenThread
<1>4. CASE SweepAll
  BY <1>4, RecoverEffect DEF SweepAll
<1>5. CASE Tick \/ NextDay
  BY <1>5 DEF Tick, NextDay, rowVars, Progress, Quiet
<1>6. CASE UNCHANGED vars
  BY <1>6 DEF vars, rowVars, Progress, Quiet
<1>7. QED
  BY <1>1, <1>2, <1>3, <1>4, <1>5, <1>6, ApiEffect, WorkerEffect DEF Next

LEMMA StepEffect ==
  ASSUME TypeOK, AdmissionInv, [Next]_vars
  PROVE  Effect
  BY AdmissionEffect, OtherEffect DEF Effect

(* What every other step leaves to the admissions under way: no run comes  *)
(* into being, none becomes active again, and no locked thread goes.       *)
Unadmitted == \A r \in Runs : status[r] = "absent" => status'[r] = "absent"
Unresumed == \A r \in Runs : status'[r] \in {"queued", "running"} => Active(r)
LockedOut ==
  \A t \in Threads : thread'[t] = "deleted" => thread[t] = "deleted" \/ ThreadIsFree(t)

LEMMA AdmissionStep ==
  ASSUME TypeOK, AdmissionInv, [Next]_vars
  PROVE  AdmissionInv'
<1>1. ASSUME NEW r \in Runs, Admit(r)
      PROVE  AdmissionInv'
  BY <1>1 DEF Admit, rowVars, ThreadIsFree, HasActiveRun, Active, AdmissionInv, TypeOK
<1>2. ASSUME NEW r \in Runs, CreateRun(r)
      PROVE  AdmissionInv'
  <2>1. ASSUME NEW q \in Runs, router'[q] = "admitting"
        PROVE  /\ router[q] = "admitting" /\ ThreadOf[q] # ThreadOf[r]
               /\ status'[q] = "absent" /\ thread'[ThreadOf[q]] # "deleted"
    BY <1>2, <2>1 DEF CreateRun, AdmissionInv, TypeOK
  <2>2. \A s \in Runs : ThreadOf[s] # ThreadOf[r] => status'[s] = status[s]
    BY <1>2 DEF CreateRun, TypeOK
  <2>3. QED
    BY <2>1, <2>2 DEF AdmissionInv, HasActiveRun, Active
<1>3. CASE ~ \E r \in Runs : Admit(r) \/ CreateRun(r)
  <2>1. \A r \in Runs : router'[r] = "admitting" => router[r] = "admitting"
    BY <1>3
    DEF Next, vars, rowVars, ApiStep, Rollback, Enqueue, RecordEnqueueFailure, RouterGivesUp,
        CancelRun, CheckDeadline, DeleteThread, OpenThread, SweepAll, Recover, Tick, NextDay,
        WorkerStep, StartAttempt, EnsureCanContinue, StartAnswerGeneration,
        AuthorizeRegeneration, Complete, MarkFailed, WorkerDies, TypeOK
  <2>2. Progress
    BY <1>3, OtherEffect
  <2>3. Unadmitted /\ Unresumed /\ LockedOut
    <3>1. CASE \E r \in Runs : Attempts(r) \/ Begins(r)
      BY <3>1 DEF Attempts, Begins, Active, TypeOK, Unadmitted, Unresumed, LockedOut
    <3>2. CASE \E r \in Runs : Answers(r)
      BY <3>2 DEF Answers, Finish, FinishAll, Active, TypeOK, Unadmitted, Unresumed, LockedOut
    <3>3. CASE \E S \in SUBSET Runs, s \in {"failed", "deadline_exceeded"} : Ends(S, s)
      BY <3>3 DEF Ends, FinishAll, Active, TypeOK, Unadmitted, Unresumed, LockedOut
    <3>4. CASE \E t \in Threads : Deletes(t)
      BY <3>4 DEF Deletes, Active, TypeOK, Unadmitted, Unresumed, LockedOut
    <3>5. CASE Quiet
      BY <3>5 DEF Quiet, Active, Unadmitted, Unresumed, LockedOut
    <3>6. QED
      BY <2>2, <3>1, <3>2, <3>3, <3>4, <3>5 DEF Progress
  <2>4. ASSUME NEW r \in Runs, router'[r] = "admitting"
        PROVE  /\ status'[r] = "absent" /\ thread'[ThreadOf[r]] # "deleted"
               /\ ~HasActiveRun(ThreadOf[r])'
    <3>1. /\ router[r] = "admitting" /\ status[r] = "absent"
          /\ thread[ThreadOf[r]] # "deleted" /\ ThreadOf[r] \in Threads
      BY <2>1, <2>4, AgentAssumption DEF AdmissionInv
    <3>2. ~ThreadIsFree(ThreadOf[r])
      BY <3>1 DEF ThreadIsFree
    <3>3. \A q \in Runs : ThreadOf[q] = ThreadOf[r] => ~Active(q)
      BY <3>1 DEF AdmissionInv, HasActiveRun
    <3>4. \A q \in Runs : ThreadOf[q] = ThreadOf[r] => status'[q] \notin {"queued", "running"}
      BY <2>3, <3>3 DEF Unresumed
    <3>5. status'[r] = "absent"
      BY <2>3, <3>1 DEF Unadmitted
    <3>6. thread'[ThreadOf[r]] # "deleted"
      BY <2>3, <3>1, <3>2 DEF LockedOut
    <3>7. ~HasActiveRun(ThreadOf[r])'
      BY <3>4 DEF HasActiveRun, Active
    <3>8. QED
      BY <3>5, <3>6, <3>7
  <2>5. QED
    BY <2>1, <2>4 DEF AdmissionInv
<1>4. QED
  BY <1>1, <1>2, <1>3

-----------------------------------------------------------------------------
(* Types.  Those of the rows follow from what a step does to the runs,     *)
(* those of the control state from the actions.                            *)
RowTypes ==
  /\ thread \in [Threads -> {"absent", "present", "deleted"}]
  /\ status \in [Runs -> Status]
  /\ epoch \in [Runs -> Nat]
  /\ started \in [Runs -> BOOLEAN]
  /\ usage_date \in [Runs -> Days]
  /\ answers \in [Runs -> SUBSET Nat]
  /\ used \in [Users -> [Days -> 0..DailyLimit]]

WorkerTypes ==
  /\ wpc \in [Workers -> WorkerPc]
  /\ job \in [Workers -> Jobs \cup {NoJob}]
  /\ \A w \in Workers : wpc[w] = "idle" <=> job[w] = NoJob

ControlTypes ==
  /\ accept_left \in [Runs -> 0..AcceptWindow]
  /\ answer_left \in [Runs -> 0..RecoveryWindow]
  /\ today \in Days
  /\ router \in [Runs -> RouterPc]
  /\ deliveries \in [Runs -> 0..MaxCopies]

LEMMA TypeParts == TypeOK <=> RowTypes /\ WorkerTypes /\ ControlTypes
BY DEF TypeOK, RowTypes, WorkerTypes, ControlTypes

LEMMA TypePartsNext == TypeOK' <=> RowTypes' /\ WorkerTypes' /\ ControlTypes'
BY DEF TypeOK, RowTypes, WorkerTypes, ControlTypes

LEMMA RowTypesStep ==
  ASSUME TypeOK, Effect
  PROVE  RowTypes'
<1>1. RowTypes
  BY TypeParts
<1>2. ASSUME NEW r \in Runs, Admits(r)
      PROVE  RowTypes'
  <2>1. ThreadOf[r] \in Threads /\ Owner[ThreadOf[r]] \in Users /\ today \in Days
    BY AgentAssumption DEF TypeOK
  <2>2. used[Owner[ThreadOf[r]]][today] \in 0..DailyLimit
    BY <2>1 DEF TypeOK
  <2>3. used[Owner[ThreadOf[r]]][today] + 1 \in 0..DailyLimit
    BY <1>2, <2>2, AgentAssumption DEF Admits, MayReserve
  <2>4. used' \in [Users -> [Days -> 0..DailyLimit]]
    BY <1>1, <1>2, <2>1, <2>3 DEF Admits, RowTypes
  <2>5. usage_date' \in [Runs -> Days]
    BY <1>1, <1>2, <2>1 DEF Admits, RowTypes
  <2>6. QED
    BY <1>1, <1>2, <2>4, <2>5 DEF Admits, RowTypes, Status
<1>3. ASSUME NEW r \in Runs, Attempts(r)
      PROVE  RowTypes'
  BY <1>1, <1>3 DEF Attempts, RowTypes, Status
<1>4. ASSUME NEW r \in Runs, Begins(r)
      PROVE  RowTypes'
  BY <1>1, <1>4 DEF Begins, RowTypes
<1>5. ASSUME NEW r \in Runs, Answers(r)
      PROVE  RowTypes'
  <2>1. /\ status' \in [Runs -> Status]
        /\ used' \in [Users -> [Days -> 0..DailyLimit]]
    BY <1>5, FinishTypes DEF Answers, Finish, Status, Terminal
  <2>2. answers' \in [Runs -> SUBSET Nat]
    BY <1>1, <1>5 DEF Answers, RowTypes
  <2>3. QED
    BY <1>1, <1>5, <2>1, <2>2 DEF Answers, RowTypes
<1>6. ASSUME NEW S \in SUBSET Runs, NEW s \in {"failed", "deadline_exceeded"}, Ends(S, s)
      PROVE  RowTypes'
  <2>1. /\ status' \in [Runs -> Status]
        /\ used' \in [Users -> [Days -> 0..DailyLimit]]
    BY <1>6, FinishTypes DEF Ends, Status, Terminal
  <2>2. QED
    BY <1>1, <1>6, <2>1 DEF Ends, RowTypes
<1>7. ASSUME NEW t \in Threads, Deletes(t)
      PROVE  RowTypes'
  BY <1>1, <1>7 DEF Deletes, RowTypes
<1>8. CASE Quiet
  BY <1>1, <1>8 DEF Quiet, RowTypes
<1>9. QED
  BY <1>2, <1>3, <1>4, <1>5, <1>6, <1>7, <1>8 DEF Effect, Progress

(* What a worker does next keeps its types.                                *)
LEMMA WorkerMoves ==
  ASSUME TypeOK, NEW w \in Workers, wpc[w] # "idle",
         Stops(w) \/ \E next \in WorkerPc \ {"idle"} : Goes(w, next)
  PROVE  WorkerTypes'
<1>1. WorkerTypes
  BY TypeParts
<1>2. CASE Stops(w)
  BY <1>1, <1>2 DEF Stops, WorkerTypes, WorkerPc
<1>3. ASSUME NEW next \in WorkerPc \ {"idle"}, Goes(w, next)
      PROVE  WorkerTypes'
  <2>1. job[w] # NoJob
    BY <1>1 DEF WorkerTypes
  <2>2. QED
    BY <1>1, <1>3, <2>1 DEF Goes, WorkerTypes
<1>4. QED
  BY <1>2, <1>3

LEMMA WorkerTypesStep ==
  ASSUME TypeOK, NEW w \in Workers, WorkerStep(w)
  PROVE  WorkerTypes'
<1>1. WorkerTypes
  BY TypeParts
<1>2. ASSUME NEW r \in Runs, StartAttempt(w, r)
      PROVE  WorkerTypes'
  <2>1. CASE Startable(r) /\ accept_left[r] > 0
    <3> DEFINE new == [run |-> r, epoch |-> epoch[r] + 1]
    <3>1. epoch[r] \in Nat
      BY DEF TypeOK
    <3>2. new \in Jobs
      BY <3>1 DEF Jobs
    <3>3. new # NoJob
      BY <3>1 DEF NoJob
    <3>4. job' = [job EXCEPT ![w] = new] /\ wpc' = [wpc EXCEPT ![w] = "started"]
      BY <1>2, <2>1 DEF StartAttempt
    <3> HIDE DEF new
    <3>5. QED
      BY <1>1, <3>2, <3>3, <3>4 DEF WorkerTypes, WorkerPc
  <2>2. CASE ~(Startable(r) /\ accept_left[r] > 0)
    BY <1>1, <1>2, <2>2 DEF StartAttempt, WorkerTypes
  <2>3. QED
    BY <2>1, <2>2
<1>3. CASE EnsureCanContinue(w) \/ StartAnswerGeneration(w) \/ AuthorizeRegeneration(w)
           \/ Complete(w) \/ MarkFailed(w) \/ WorkerDies(w)
  <2>1. wpc[w] # "idle"
    BY <1>3 DEF EnsureCanContinue, StartAnswerGeneration, AuthorizeRegeneration, Complete,
                MarkFailed, WorkerDies
  <2>2. \/ Stops(w) \/ Goes(w, "preparing") \/ Goes(w, "answering") \/ Goes(w, "failing")
    BY <1>3 DEF EnsureCanContinue, StartAnswerGeneration, AuthorizeRegeneration, Complete,
                MarkFailed, WorkerDies, StopsShort
  <2>3. {"preparing", "answering", "failing"} \subseteq WorkerPc \ {"idle"}
    BY DEF WorkerPc
  <2>4. QED
    BY <2>1, <2>2, <2>3, WorkerMoves
<1>4. QED
  BY <1>2, <1>3 DEF WorkerStep

LEMMA ControlTypesStep ==
  ASSUME TypeOK, [Next]_vars
  PROVE  ControlTypes'
<1>1. ControlTypes
  BY TypeParts
<1>2. ASSUME NEW r \in Runs, ApiStep(r)
      PROVE  ControlTypes'
  BY <1>1, <1>2, AgentAssumption
  DEF ApiStep, Admit, CreateRun, Rollback, Enqueue, RecordEnqueueFailure, RouterGivesUp,
      CancelRun, rowVars, ControlTypes, RouterPc
<1>3. ASSUME NEW w \in Workers, NEW r \in Runs, StartAttempt(w, r)
      PROVE  ControlTypes'
  BY <1>1, <1>3, AgentAssumption DEF StartAttempt, ControlTypes
<1>4. ASSUME NEW w \in Workers, StartAnswerGeneration(w)
      PROVE  ControlTypes'
  BY <1>1, <1>4, AgentAssumption DEF StartAnswerGeneration, ControlTypes
<1>5. ASSUME NEW w \in Workers,
             EnsureCanContinue(w) \/ AuthorizeRegeneration(w) \/ Complete(w) \/ MarkFailed(w)
             \/ WorkerDies(w)
      PROVE  ControlTypes'
  BY <1>1, <1>5 DEF EnsureCanContinue, AuthorizeRegeneration, Complete, MarkFailed, WorkerDies,
                    rowVars, ControlTypes
<1>6. CASE \E S \in SUBSET Runs : Recover(S)
  BY <1>1, <1>6 DEF Recover, ControlTypes
<1>7. ASSUME NEW t \in Threads, DeleteThread(t)
      PROVE  ControlTypes'
  BY <1>1, <1>7 DEF DeleteThread, rowVars, ControlTypes
<1>8. CASE Tick
  BY <1>1, <1>8, AgentAssumption DEF Tick, Less1, ControlTypes
<1>9. CASE NextDay
  BY <1>1, <1>9 DEF NextDay, rowVars, ControlTypes
<1>10. CASE UNCHANGED vars
  BY <1>1, <1>10 DEF vars, rowVars, ControlTypes
<1>11. ASSUME NEW r \in Runs, CheckDeadline(r)
       PROVE  ControlTypes'
  <2>1. {r} \in SUBSET Runs
    OBVIOUS
  <2>2. QED
    BY <1>6, <1>11, <2>1 DEF CheckDeadline
<1>12. ASSUME NEW t \in Threads, OpenThread(t)
       PROVE  ControlTypes'
  <2>1. {r \in Overdue : ThreadOf[r] = t} \in SUBSET Runs
    BY DEF Overdue
  <2>2. QED
    BY <1>6, <1>12, <2>1 DEF OpenThread
<1>13. CASE SweepAll
  <2>1. Overdue \in SUBSET Runs
    BY DEF Overdue
  <2>2. QED
    BY <1>6, <1>13, <2>1 DEF SweepAll
<1>14. QED
  BY <1>2, <1>3, <1>4, <1>5, <1>7, <1>8, <1>9, <1>10, <1>11, <1>12, <1>13 DEF Next, WorkerStep

(* Only the workers' own steps move a worker.                              *)
LEMMA OthersKeepWorkers ==
  ASSUME [Next]_vars, ~ \E w \in Workers : WorkerStep(w)
  PROVE  UNCHANGED <<wpc, job>>
BY DEF Next, vars, ApiStep, Admit, CreateRun, Rollback, Enqueue, RecordEnqueueFailure,
       RouterGivesUp, CancelRun, CheckDeadline, DeleteThread, OpenThread, SweepAll, Recover,
       Tick, NextDay

LEMMA TypeStep == TypeOK /\ AdmissionInv /\ [Next]_vars => TypeOK'
<1> SUFFICES ASSUME TypeOK, AdmissionInv, [Next]_vars
             PROVE  TypeOK'
  OBVIOUS
<1>1. RowTypes' /\ ControlTypes'
  BY StepEffect, RowTypesStep, ControlTypesStep
<1>2. WorkerTypes'
  <2>1. CASE \E w \in Workers : WorkerStep(w)
    BY <2>1, WorkerTypesStep
  <2>2. CASE ~ \E w \in Workers : WorkerStep(w)
    <3>1. UNCHANGED <<wpc, job>> /\ WorkerTypes
      BY <2>2, OthersKeepWorkers, TypeParts
    <3>2. QED
      BY <3>1 DEF WorkerTypes
  <2>3. QED
    BY <2>1, <2>2
<1>3. QED
  BY <1>1, <1>2, TypePartsNext

LEMMA TypeInit == Init => TypeOK /\ AdmissionInv
BY AgentAssumption DEF Init, TypeOK, Status, RouterPc, WorkerPc, AdmissionInv

LEMMA AdmissionInvariant == Spec => [](TypeOK /\ AdmissionInv)
<1>1. TypeOK /\ AdmissionInv /\ [Next]_vars => AdmissionInv'
  BY AdmissionStep
<1>2. QED
  BY <1>1, TypeInit, TypeStep, PTL DEF Spec

(* Every variable keeps its type; in particular used_count never leaves    *)
(* 0..DAILY_REQUEST_LIMIT, so its check constraint never refuses a commit, *)
(* and a worker is idle exactly when it holds no attempt.                  *)
THEOREM TypeCorrect == Spec => []TypeOK
  BY AdmissionInvariant, PTL

-----------------------------------------------------------------------------
(* Runs and their answers                                                  *)

(* An attempt is counted before anything is recorded for it.               *)
StartedInv ==
  \A r \in Runs : /\ status[r] \in {"absent", "queued"} => ~started[r] /\ epoch[r] = 0
                  /\ status[r] = "running" => epoch[r] >= 1

LEMMA StartedStep ==
  ASSUME TypeOK, StartedInv, Effect
  PROVE  StartedInv'
<1>1. ASSUME NEW r \in Runs, Admits(r) \/ Attempts(r) \/ Begins(r) \/ Answers(r)
      PROVE  StartedInv'
  <2>1. CASE Admits(r)
    BY <2>1 DEF Admits, StartedInv, TypeOK
  <2>2. CASE Attempts(r)
    BY <2>2 DEF Attempts, Active, StartedInv, TypeOK
  <2>3. CASE Begins(r)
    BY <2>3 DEF Begins, StartedInv, TypeOK
  <2>4. CASE Answers(r)
    BY <2>4 DEF Answers, Finish, FinishAll, StartedInv, TypeOK
  <2>5. QED
    BY <1>1, <2>1, <2>2, <2>3, <2>4
<1>2. ASSUME NEW S \in SUBSET Runs, NEW s \in {"failed", "deadline_exceeded"}, Ends(S, s)
      PROVE  StartedInv'
  BY <1>2 DEF Ends, FinishAll, StartedInv, TypeOK
<1>3. CASE Quiet \/ \E t \in Threads : Deletes(t)
  BY <1>3 DEF Quiet, Deletes, StartedInv
<1>4. QED
  BY <1>1, <1>2, <1>3 DEF Effect, Progress

LEMMA OneActiveStep ==
  ASSUME TypeOK, OneActiveRun, Effect
  PROVE  OneActiveRun'
<1>1. ASSUME NEW r \in Runs, Admits(r)
      PROVE  OneActiveRun'
  <2>1. \A q \in Runs : ThreadOf[q] = ThreadOf[r] => ~Active(q)
    BY <1>1 DEF Admits, HasActiveRun
  <2>2. \A q \in Runs : q # r => Active(q)' = Active(q)
    BY <1>1 DEF Admits, Active, TypeOK
  <2>3. QED
    BY <2>1, <2>2 DEF OneActiveRun
<1>2. ASSUME \A q \in Runs : Active(q)' => Active(q)
      PROVE  OneActiveRun'
  BY <1>2 DEF OneActiveRun
<1>3. ASSUME NEW r \in Runs, Attempts(r)
      PROVE  OneActiveRun'
  BY <1>2, <1>3 DEF Attempts, Active, TypeOK
<1>4. ASSUME NEW r \in Runs, Answers(r)
      PROVE  OneActiveRun'
  BY <1>2, <1>4 DEF Answers, Finish, FinishAll, Active, TypeOK
<1>5. ASSUME NEW S \in SUBSET Runs, NEW s \in {"failed", "deadline_exceeded"}, Ends(S, s)
      PROVE  OneActiveRun'
  BY <1>2, <1>5 DEF Ends, FinishAll, Active, TypeOK
<1>6. CASE Quiet \/ (\E t \in Threads : Deletes(t)) \/ \E r \in Runs : Begins(r)
  BY <1>2, <1>6 DEF Quiet, Deletes, Begins, Active
<1>7. QED
  BY <1>1, <1>3, <1>4, <1>5, <1>6 DEF Effect, Progress

LEMMA AnswerStep ==
  ASSUME TypeOK, AnswerOfLastAttempt, Effect
  PROVE  AnswerOfLastAttempt'
<1>1. ASSUME NEW r \in Runs, Admits(r)
      PROVE  AnswerOfLastAttempt'
  BY <1>1 DEF Admits, AnswerOfLastAttempt, TypeOK
<1>2. ASSUME NEW r \in Runs, Attempts(r)
      PROVE  AnswerOfLastAttempt'
  BY <1>2 DEF Attempts, Active, AnswerOfLastAttempt, TypeOK
<1>3. ASSUME NEW r \in Runs, Begins(r)
      PROVE  AnswerOfLastAttempt'
  BY <1>3 DEF Begins, AnswerOfLastAttempt, TypeOK
<1>4. ASSUME NEW r \in Runs, Answers(r)
      PROVE  AnswerOfLastAttempt'
  <2>1. answers[r] = {}
    BY <1>4 DEF Answers, AnswerOfLastAttempt
  <2>2. answers' = [answers EXCEPT ![r] = {epoch[r]}]
    BY <1>4, <2>1 DEF Answers
  <2>3. status' = [status EXCEPT ![r] = "completed"]
    BY <1>4 DEF Answers, Finish, FinishAll, TypeOK
  <2>4. started' = started /\ epoch' = epoch /\ started[r]
    BY <1>4 DEF Answers
  <2>5. QED
    BY <2>2, <2>3, <2>4 DEF AnswerOfLastAttempt, TypeOK
<1>5. ASSUME NEW S \in SUBSET Runs, NEW s \in {"failed", "deadline_exceeded"}, Ends(S, s)
      PROVE  AnswerOfLastAttempt'
  <2>1. \A q \in Runs : status'[q] = "completed" <=> status[q] = "completed"
    BY <1>5 DEF Ends, FinishAll, Active, TypeOK
  <2>2. UNCHANGED <<epoch, started, answers>>
    BY <1>5 DEF Ends
  <2>3. QED
    BY <2>1, <2>2 DEF AnswerOfLastAttempt
<1>6. CASE Quiet \/ \E t \in Threads : Deletes(t)
  BY <1>6 DEF Quiet, Deletes, AnswerOfLastAttempt
<1>7. QED
  BY <1>1, <1>2, <1>3, <1>4, <1>5, <1>6 DEF Effect, Progress

(* What every reachable state satisfies about the runs.                    *)
RunInv == TypeOK /\ AdmissionInv /\ StartedInv /\ OneActiveRun /\ AnswerOfLastAttempt

LEMMA RunInvInit == Init => RunInv
<1> SUFFICES ASSUME Init
             PROVE  RunInv
  OBVIOUS
<1>1. TypeOK /\ AdmissionInv
  BY TypeInit
<1>2. StartedInv /\ OneActiveRun /\ AnswerOfLastAttempt
  BY DEF Init, StartedInv, OneActiveRun, AnswerOfLastAttempt, Active
<1>3. QED
  BY <1>1, <1>2 DEF RunInv

LEMMA RunInvStep == RunInv /\ [Next]_vars => RunInv'
BY TypeStep, AdmissionStep, StepEffect, StartedStep, OneActiveStep, AnswerStep DEF RunInv

LEMMA RunInvHolds == Spec => []RunInv
BY RunInvInit, RunInvStep, PTL DEF Spec

(* Two requests never leave a thread with two queued or running runs, nor  *)
(* does an attempt bring back a run that ended.                            *)
THEOREM RunsAreSerial == Spec => []OneActiveRun
<1>1. RunInv => OneActiveRun
  BY DEF RunInv
<1>2. QED
  BY <1>1, RunInvHolds, PTL

(* A completed run has exactly the answer of its last attempt, no other    *)
(* run has any: a stale or repeated attempt never saves a second one.      *)
THEOREM AnswersAreOwned == Spec => []AnswerOfLastAttempt
<1>1. RunInv => AnswerOfLastAttempt
  BY DEF RunInv
<1>2. QED
  BY <1>1, RunInvHolds, PTL

(* An ended run is not ended, restarted or answered again, by whatever     *)
(* message, request or sweep comes late.                                   *)
THEOREM OutcomesAreFinal == Spec => OutcomeIsFinal
<1> DEFINE kept(r) == /\ status'[r] = status[r] /\ epoch'[r] = epoch[r]
                      /\ answers'[r] = answers[r] /\ started'[r] = started[r]
<1>1. ASSUME TypeOK, Effect, NEW r \in Runs, status[r] \in Terminal
      PROVE  kept(r)
  <2>1. ASSUME NEW q \in Runs, Admits(q)
        PROVE  kept(r)
    BY <1>1, <2>1 DEF Admits, Terminal, TypeOK
  <2>2. ASSUME NEW q \in Runs, Attempts(q)
        PROVE  kept(r)
    BY <1>1, <2>2 DEF Attempts, Active, Terminal, TypeOK
  <2>3. ASSUME NEW q \in Runs, Begins(q)
        PROVE  kept(r)
    BY <1>1, <2>3 DEF Begins, Terminal, TypeOK
  <2>4. ASSUME NEW q \in Runs, Answers(q)
        PROVE  kept(r)
    BY <1>1, <2>4 DEF Answers, Finish, FinishAll, Terminal, TypeOK
  <2>5. ASSUME NEW S \in SUBSET Runs, NEW s \in {"failed", "deadline_exceeded"}, Ends(S, s)
        PROVE  kept(r)
    BY <1>1, <2>5 DEF Ends, FinishAll, Active, Terminal, TypeOK
  <2>6. CASE Quiet \/ \E t \in Threads : Deletes(t)
    BY <2>6 DEF Quiet, Deletes
  <2>7. QED
    BY <1>1, <2>1, <2>2, <2>3, <2>4, <2>5, <2>6 DEF Effect, Progress
<1>2. TypeOK /\ AdmissionInv /\ [Next]_vars =>
        [\A r \in Runs : status[r] \in Terminal => kept(r)]_vars
  BY <1>1, StepEffect
<1>3. QED
  BY <1>2, AdmissionInvariant, PTL DEF Spec, OutcomeIsFinal

-----------------------------------------------------------------------------
(* The quota                                                               *)

LEMMA ChargesAreFinite ==
  ASSUME NEW u, NEW d
  PROVE  IsFiniteSet(Charges(u, d)) /\ Cardinality(Charges(u, d)) \in Nat
<1>1. Charges(u, d) \subseteq Runs
  BY DEF Charges
<1>2. IsFiniteSet(Charges(u, d))
  BY <1>1, FS_Subset, AgentAssumption
<1>3. QED
  BY <1>2, FS_CardinalityType

(* Ending runs uncharges those that were queued, for they had no attempt;  *)
(* the others had one and stay charged.                                    *)
LEMMA FinishUncharges ==
  ASSUME TypeOK, StartedInv, NEW S \in SUBSET Runs, NEW s \in Terminal,
         \A r \in S : Active(r), FinishAll(S, s), UNCHANGED <<epoch, usage_date>>,
         NEW u \in Users, NEW d \in Days
  PROVE  /\ Returned(S, u, d) \subseteq Charges(u, d)
         /\ Charges(u, d)' = Charges(u, d) \ Returned(S, u, d)
<1>1. Returned(S, u, d) \subseteq Charges(u, d)
  BY DEF Returned, Charges, Terminal
<1>2. ASSUME NEW r \in Runs
      PROVE  r \in Charges(u, d)' <=> r \in Charges(u, d) \ Returned(S, u, d)
  <2>1. UserOf(r)' = UserOf(r) /\ usage_date'[r] = usage_date[r] /\ epoch'[r] = epoch[r]
    BY DEF UserOf
  <2>2. CASE r \notin S
    <3>1. status'[r] = status[r]
      BY <2>2 DEF FinishAll
    <3>2. QED
      BY <2>1, <2>2, <3>1 DEF Charges, Returned
  <2>3. CASE r \in S
    <3>1. status'[r] = s /\ s # "absent" /\ epoch[r] \in Nat
      BY <2>3 DEF FinishAll, Terminal, TypeOK
    <3>2. CASE status[r] = "queued"
      <4>1. epoch[r] = 0
        BY <3>2 DEF StartedInv
      <4>2. r \notin Charges(u, d)'
        BY <2>1, <3>1, <4>1 DEF Charges
      <4>3. r \in Charges(u, d) => r \in Returned(S, u, d)
        BY <2>3, <3>2 DEF Charges, Returned
      <4>4. QED
        BY <4>2, <4>3
    <3>3. CASE status[r] = "running"
      <4>1. epoch[r] # 0
        BY <3>1, <3>3 DEF StartedInv
      <4>2. r \notin Returned(S, u, d)
        BY <3>3 DEF Returned
      <4>3. r \in Charges(u, d)' <=> UserOf(r) = u /\ usage_date[r] = d
        BY <2>1, <3>1, <4>1 DEF Charges
      <4>4. r \in Charges(u, d) <=> UserOf(r) = u /\ usage_date[r] = d
        BY <3>3 DEF Charges, Terminal
      <4>5. QED
        BY <4>2, <4>3, <4>4
    <3>4. QED
      BY <2>3, <3>2, <3>3 DEF Active
  <2>4. QED
    BY <2>2, <2>3
<1>3. Charges(u, d)' \subseteq Runs /\ Charges(u, d) \subseteq Runs
  BY DEF Charges
<1>4. QED
  BY <1>1, <1>2, <1>3

(* The guarded subtraction of a release is exact.                          *)
LEMMA FinishKeepsQuota ==
  ASSUME TypeOK, StartedInv, QuotaIsExact, NEW S \in SUBSET Runs, NEW s \in Terminal,
         \A r \in S : Active(r), FinishAll(S, s), UNCHANGED <<epoch, usage_date>>
  PROVE  QuotaIsExact'
<1> SUFFICES ASSUME NEW u \in Users, NEW d \in Days
             PROVE  used'[u][d] = Cardinality(Charges(u, d)')
  BY DEF QuotaIsExact
<1> DEFINE C == Charges(u, d)
           R == Returned(S, u, d)
<1>1. R \subseteq C /\ C' = C \ R
  BY FinishUncharges
<1>2. IsFiniteSet(C) /\ Cardinality(C) \in Nat /\ Cardinality(R) \in Nat
  BY ChargesAreFinite, ReturnedIsFinite
<1>3. C \cap R = R /\ Cardinality(R) <= Cardinality(C)
  BY <1>1, <1>2, FS_Subset
<1>4. Cardinality(C \ R) = Cardinality(C) - Cardinality(R)
  BY <1>2, <1>3, FS_Difference
<1>5. used[u][d] = Cardinality(C)
  BY DEF QuotaIsExact
<1>6. used'[u][d] = IF used[u][d] >= Cardinality(R) THEN used[u][d] - Cardinality(R)
                                                    ELSE used[u][d]
  BY DEF FinishAll, Release, Returned
<1>7. C' = Charges(u, d)'
  OBVIOUS
<1> HIDE DEF C, R
<1>8. QED
  BY <1>1, <1>2, <1>3, <1>4, <1>5, <1>6, <1>7

(* Admission adds the run to the day it is reserved on.                    *)
LEMMA AdmitKeepsQuota ==
  ASSUME TypeOK, StartedInv, QuotaIsExact, NEW r \in Runs, Admits(r)
  PROVE  QuotaIsExact'
<1> SUFFICES ASSUME NEW u \in Users, NEW d \in Days
             PROVE  used'[u][d] = Cardinality(Charges(u, d)')
  BY DEF QuotaIsExact
<1> DEFINE new == IF u = UserOf(r) /\ d = today THEN {r} ELSE {}
<1>1. Charges(u, d)' = Charges(u, d) \cup new
  <2>1. \A q \in Runs : UserOf(q)' = UserOf(q)
    BY DEF UserOf
  <2>2. ASSUME NEW q \in Runs, q # r
        PROVE  q \in Charges(u, d)' <=> q \in Charges(u, d)
    <3>1. status'[q] = status[q] /\ usage_date'[q] = usage_date[q] /\ epoch'[q] = epoch[q]
      BY <2>2 DEF Admits, TypeOK
    <3>2. QED
      BY <2>1, <3>1 DEF Charges
  <2>3. r \in Charges(u, d)' <=> r \in new
    <3>1. status'[r] = "queued" /\ usage_date'[r] = today
      BY DEF Admits, TypeOK
    <3>2. QED
      BY <2>1, <3>1 DEF Charges, Terminal
  <2>4. r \notin Charges(u, d)
    BY DEF Admits, Charges
  <2>5. Charges(u, d)' \subseteq Runs /\ Charges(u, d) \subseteq Runs
    BY DEF Charges
  <2>6. QED
    BY <2>2, <2>3, <2>4, <2>5
<1>2. r \notin Charges(u, d)
  BY DEF Admits, Charges
<1>3. used[u][d] = Cardinality(Charges(u, d)) /\ used[u][d] \in Nat
  BY ChargesAreFinite DEF QuotaIsExact
<1>4. CASE u = UserOf(r) /\ d = today
  <2>1. Cardinality(Charges(u, d)') = Cardinality(Charges(u, d)) + 1
    BY <1>1, <1>2, <1>4, ChargesAreFinite, FS_AddElement
  <2>2. used'[u][d] = used[u][d] + 1
    BY <1>4 DEF Admits, UserOf, TypeOK
  <2>3. QED
    BY <1>3, <2>1, <2>2
<1>5. CASE ~(u = UserOf(r) /\ d = today)
  <2>1. Charges(u, d)' = Charges(u, d)
    BY <1>1, <1>5
  <2>2. used'[u][d] = used[u][d]
    BY <1>5 DEF Admits, UserOf, TypeOK
  <2>3. QED
    BY <1>3, <2>1, <2>2
<1>6. QED
  BY <1>4, <1>5

LEMMA QuotaStep ==
  ASSUME TypeOK, StartedInv, QuotaIsExact, Effect
  PROVE  QuotaIsExact'
<1>1. ASSUME \A q \in Runs : /\ status'[q] = "absent" <=> status[q] = "absent"
                             /\ (status'[q] \in Terminal /\ epoch'[q] = 0)
                                  <=> (status[q] \in Terminal /\ epoch[q] = 0),
             UNCHANGED <<usage_date, used>>
      PROVE  QuotaIsExact'
  <2>1. ASSUME NEW u \in Users, NEW d \in Days
        PROVE  Charges(u, d)' = Charges(u, d)
    BY <1>1 DEF Charges, UserOf
  <2>2. QED
    BY <1>1, <2>1 DEF QuotaIsExact
<1>2. ASSUME NEW r \in Runs, Attempts(r)
      PROVE  QuotaIsExact'
  BY <1>1, <1>2 DEF Attempts, Active, Terminal, TypeOK
<1>3. ASSUME NEW r \in Runs, Answers(r)
      PROVE  QuotaIsExact'
  <2>1. \A q \in {r} : Active(q)
    BY <1>3 DEF Answers, Active
  <2>2. FinishAll({r}, "completed") /\ UNCHANGED <<epoch, usage_date>>
    BY <1>3 DEF Answers, Finish
  <2>3. QED
    BY <2>1, <2>2, FinishKeepsQuota DEF Terminal
<1>4. ASSUME NEW S \in SUBSET Runs, NEW s \in {"failed", "deadline_exceeded"}, Ends(S, s)
      PROVE  QuotaIsExact'
  <2>1. s \in Terminal
    BY DEF Terminal
  <2>2. QED
    BY <1>4, <2>1, FinishKeepsQuota DEF Ends
<1>5. CASE Quiet \/ (\E t \in Threads : Deletes(t)) \/ \E r \in Runs : Begins(r)
  BY <1>1, <1>5 DEF Quiet, Deletes, Begins
<1>6. QED
  BY <1>2, <1>3, <1>4, <1>5, AdmitKeepsQuota DEF Effect, Progress

(* used_count always equals the number of runs it stands for: no           *)
(* interleaving of cancels, sweeps, failed enqueues and changes of the day *)
(* gives a place back twice, to another day, or for a run that started.    *)
THEOREM QuotaIsNeverWrong == Spec => []QuotaIsExact
<1>1. Init => QuotaIsExact
  <2> SUFFICES ASSUME Init, NEW u \in Users, NEW d \in Days
               PROVE  used[u][d] = Cardinality(Charges(u, d))
    BY DEF QuotaIsExact
  <2>1. Charges(u, d) = {}
    BY DEF Init, Charges
  <2>2. used[u][d] = 0
    BY DEF Init
  <2>3. QED
    BY <2>1, <2>2, FS_EmptySet
<1>2. RunInv /\ QuotaIsExact /\ [Next]_vars => QuotaIsExact'
  BY StepEffect, QuotaStep DEF RunInv
<1>3. QED
  BY <1>1, <1>2, RunInvHolds, PTL DEF Spec

-----------------------------------------------------------------------------
(* The time of an answer                                                   *)

(* Beginning the answer is the only step that gives it time.               *)
LEMMA AnswerTimeStep ==
  ASSUME TypeOK, [Next]_vars, NEW r \in Runs, started[r]
  PROVE  answer_left'[r] <= answer_left[r]
<1>1. answer_left[r] \in Nat
  BY DEF TypeOK
<1>2. ASSUME NEW w \in Workers, StartAnswerGeneration(w)
      PROVE  answer_left'[r] <= answer_left[r]
  <2>1. CASE Proceeds(w, {"preparing"})
             /\ answer_left' = [answer_left EXCEPT ![job[w].run] = RecoveryWindow]
    <3>1. job[w].run \in Runs
      BY <1>2, BusyWorker DEF StartAnswerGeneration
    <3>2. job[w].run # r
      BY <2>1, <3>1, PhaseIs DEF Proceeds
    <3>3. answer_left'[r] = answer_left[r]
      BY <2>1, <3>2 DEF TypeOK
    <3>4. QED
      BY <1>1, <3>3
  <2>2. CASE UNCHANGED answer_left
    BY <1>1, <2>2
  <2>3. QED
    BY <1>2, <2>1, <2>2 DEF StartAnswerGeneration
<1>3. CASE Tick
  BY <1>1, <1>3 DEF Tick, Less1
<1>4. CASE ~Tick /\ ~ \E w \in Workers : StartAnswerGeneration(w)
  <2>1. UNCHANGED answer_left
    BY <1>4
    DEF Next, vars, rowVars, ApiStep, Admit, CreateRun, Rollback, Enqueue, RecordEnqueueFailure,
        RouterGivesUp, CancelRun, CheckDeadline, DeleteThread, OpenThread, SweepAll, Recover,
        NextDay,
        WorkerStep, StartAttempt, EnsureCanContinue, AuthorizeRegeneration, Complete,
        MarkFailed, WorkerDies
  <2>2. QED
    BY <1>1, <2>1
<1>5. QED
  BY <1>2, <1>3, <1>4

(* Rows are not taken back: no step makes a run absent again.              *)
LEMMA EffectCreates ==
  ASSUME TypeOK, Effect, NEW r \in Runs, status'[r] = "absent"
  PROVE  status[r] = "absent"
<1>1. CASE \E q \in Runs : Admits(q) \/ Attempts(q) \/ Begins(q) \/ Answers(q)
  BY <1>1 DEF Admits, Attempts, Begins, Answers, Finish, FinishAll, TypeOK
<1>2. CASE \E S \in SUBSET Runs, s \in {"failed", "deadline_exceeded"} : Ends(S, s)
  BY <1>2 DEF Ends, FinishAll
<1>3. CASE Quiet \/ \E t \in Threads : Deletes(t)
  BY <1>3 DEF Quiet, Deletes
<1>4. QED
  BY <1>1, <1>2, <1>3 DEF Effect, Progress

(* What no step may do to an answer that has begun.                        *)
AnswerWindow ==
  \A r \in Runs : started[r] =>
    started'[r] /\ answer_left'[r] <= answer_left[r] /\ epoch'[r] = epoch[r]

LEMMA AnswerWindowStep == RunInv /\ [Next]_vars => AnswerWindow
<1>1. ASSUME TypeOK, StartedInv, Effect, NEW r \in Runs, started[r]
      PROVE  started'[r] /\ epoch'[r] = epoch[r]
  <2>1. ASSUME NEW q \in Runs, Attempts(q)
        PROVE  q # r
    BY <1>1, <2>1 DEF Attempts, Active, StartedInv
  <2>2. CASE \E q \in Runs : Attempts(q)
    BY <1>1, <2>1, <2>2 DEF Attempts, TypeOK
  <2>3. CASE \E q \in Runs : Admits(q) \/ Begins(q) \/ Answers(q)
    BY <1>1, <2>3 DEF Admits, Begins, Answers, TypeOK
  <2>4. CASE \E S \in SUBSET Runs, s \in {"failed", "deadline_exceeded"} : Ends(S, s)
    BY <1>1, <2>4 DEF Ends
  <2>5. CASE Quiet \/ \E t \in Threads : Deletes(t)
    BY <1>1, <2>5 DEF Quiet, Deletes
  <2>6. QED
    BY <1>1, <2>2, <2>3, <2>4, <2>5 DEF Effect, Progress
<1>2. QED
  BY <1>1, StepEffect, AnswerTimeStep DEF RunInv, AnswerWindow

(* An answer once begun is never given more time, begun anew, or handed to *)
(* another attempt.                                                        *)
THEOREM AnswerWindowsAreFixed == Spec => AnswerWindowIsFixed
<1>1. RunInv /\ [Next]_vars =>
        [\A r \in Runs : started[r] =>
           started'[r] /\ answer_left'[r] <= answer_left[r] /\ epoch'[r] = epoch[r]]_vars
  BY AnswerWindowStep DEF AnswerWindow
<1>2. QED
  BY <1>1, RunInvHolds, PTL DEF Spec, AnswerWindowIsFixed

-----------------------------------------------------------------------------
(* The workers' attempts                                                   *)

(* An attempt is held by one worker, is never ahead of its run, and, while *)
(* it is the current one, has not begun the answer before its worker has.  *)
AttemptInv ==
  /\ \A w \in Workers : wpc[w] # "idle" => job[w].epoch <= epoch[job[w].run]
  /\ \A v, w \in Workers : wpc[v] # "idle" /\ wpc[w] # "idle" /\ job[v] = job[w] => v = w
  /\ \A w \in Workers : wpc[w] \in {"started", "preparing"} /\ job[w].epoch = epoch[job[w].run]
                           => ~started[job[w].run]

(* Steps that start neither an attempt nor an answer, and leave every      *)
(* worker where it is, stop it, or let a worker go on.                     *)
LEMMA AttemptsKept ==
  ASSUME TypeOK, AttemptInv, UNCHANGED <<epoch, started>>,
         \A w \in Workers : wpc'[w] # "idle" =>
           /\ wpc[w] # "idle" /\ job'[w] = job[w]
           /\ wpc'[w] \in {"started", "preparing"} => wpc[w] \in {"started", "preparing"}
  PROVE  AttemptInv'
BY DEF AttemptInv

LEMMA AttemptStep ==
  ASSUME TypeOK, StartedInv, AttemptInv, [Next]_vars
  PROVE  AttemptInv'
<1>1. ASSUME NEW w \in Workers, NEW r \in Runs, StartAttempt(w, r)
      PROVE  AttemptInv'
  <2>1. CASE Startable(r) /\ accept_left[r] > 0
    <3> DEFINE new == [run |-> r, epoch |-> epoch[r] + 1]
    <3>1. /\ job' = [job EXCEPT ![w] = new] /\ wpc' = [wpc EXCEPT ![w] = "started"]
          /\ epoch' = [epoch EXCEPT ![r] = @ + 1] /\ UNCHANGED started
      BY <1>1, <2>1 DEF StartAttempt
    <3>2. epoch'[r] = epoch[r] + 1 /\ epoch[r] \in Nat
      BY <3>1 DEF TypeOK
    <3>3. ~started[r]
      BY <2>1, PhaseIs DEF Startable, StartedInv
    <3>4. job'[w] = new /\ wpc'[w] = "started"
      BY <3>1 DEF TypeOK
    <3>5. ASSUME NEW v \in Workers, v # w, wpc'[v] # "idle"
          PROVE  /\ wpc'[v] = wpc[v] /\ job'[v] = job[v] /\ job[v] # new
                 /\ job[v].run \in Runs /\ job[v].epoch \in Nat
                 /\ job[v].epoch <= epoch[job[v].run]
                 /\ epoch[job[v].run] <= epoch'[job[v].run]
                 /\ epoch[job[v].run] \in Nat /\ epoch'[job[v].run] \in Nat
                 /\ job[v].run = r => job[v].epoch # epoch'[r]
                 /\ job[v].run # r => epoch'[job[v].run] = epoch[job[v].run]
      <4>1. wpc'[v] = wpc[v] /\ job'[v] = job[v]
        BY <3>1, <3>5 DEF TypeOK
      <4>2. job[v].run \in Runs /\ job[v].epoch \in Nat
        BY <3>5, <4>1, BusyWorker
      <4>3. job[v].epoch <= epoch[job[v].run] /\ epoch[job[v].run] \in Nat
        BY <3>5, <4>1, <4>2 DEF AttemptInv, TypeOK
      <4>4. /\ job[v].run = r => epoch'[job[v].run] = epoch[r] + 1
            /\ job[v].run # r => epoch'[job[v].run] = epoch[job[v].run]
        BY <3>1, <3>2, <4>2 DEF TypeOK
      <4>5. job[v].run = r => job[v].epoch # epoch'[r]
        BY <3>2, <4>2, <4>3
      <4>6. job[v] # new
        BY <3>2, <4>5
      <4>7. epoch[job[v].run] <= epoch'[job[v].run] /\ epoch'[job[v].run] \in Nat
        BY <4>3, <4>4
      <4> HIDE DEF new
      <4>8. QED
        BY <4>1, <4>2, <4>3, <4>4, <4>5, <4>6, <4>7
    <3>6. \A v \in Workers : wpc'[v] # "idle" => job'[v].epoch <= epoch'[job'[v].run]
      <4> SUFFICES ASSUME NEW v \in Workers, wpc'[v] # "idle"
                   PROVE  job'[v].epoch <= epoch'[job'[v].run]
        OBVIOUS
      <4>1. CASE v = w
        BY <3>2, <3>4, <4>1
      <4>2. CASE v # w
        <5> HIDE DEF new
        <5>1. QED
          BY <3>5, <4>2
      <4>3. QED
        BY <4>1, <4>2
    <3>7. \A v, x \in Workers :
            wpc'[v] # "idle" /\ wpc'[x] # "idle" /\ job'[v] = job'[x] => v = x
      <4> HIDE DEF new
      <4>1. QED
        BY <3>4, <3>5 DEF AttemptInv
    <3>8. \A v \in Workers :
            wpc'[v] \in {"started", "preparing"} /\ job'[v].epoch = epoch'[job'[v].run]
              => ~started'[job'[v].run]
      <4> SUFFICES ASSUME NEW v \in Workers, wpc'[v] \in {"started", "preparing"},
                          job'[v].epoch = epoch'[job'[v].run]
                   PROVE  ~started'[job'[v].run]
        OBVIOUS
      <4>1. CASE v = w
        BY <3>1, <3>3, <3>4, <4>1
      <4>2. CASE v # w
        <5> HIDE DEF new
        <5>1. /\ wpc'[v] = wpc[v] /\ job'[v] = job[v]
              /\ job[v].run # r => epoch'[job[v].run] = epoch[job[v].run]
              /\ job[v].run = r => job[v].epoch # epoch'[r]
          BY <3>5, <4>2
        <5>2. QED
          BY <3>1, <5>1 DEF AttemptInv
      <4>3. QED
        BY <4>1, <4>2
    <3>9. QED
      BY <3>6, <3>7, <3>8 DEF AttemptInv
  <2>2. CASE ~(Startable(r) /\ accept_left[r] > 0)
    BY <1>1, <2>2, AttemptsKept DEF StartAttempt
  <2>3. QED
    BY <2>1, <2>2
<1>2. ASSUME NEW w \in Workers, StartAnswerGeneration(w)
      PROVE  AttemptInv'
  <2> DEFINE r == job[w].run
  <2>1. CASE StopsShort(w, {"preparing"}) /\ UNCHANGED <<started, answer_left>>
    BY <1>2, <2>1, AttemptsKept DEF StartAnswerGeneration, StopsShort, Stops, TypeOK
  <2>2. CASE Proceeds(w, {"preparing"}) /\ Goes(w, "answering")
             /\ started' = [started EXCEPT ![r] = TRUE]
    <3>1. r \in Runs /\ wpc[w] # "idle" /\ job[w] = [run |-> r, epoch |-> job[w].epoch]
      BY <1>2, BusyWorker DEF StartAnswerGeneration
    <3>2. job[w].epoch = epoch[r]
      BY <2>2 DEF Proceeds, Owns
    <3>3. UNCHANGED <<epoch, job>> /\ wpc' = [wpc EXCEPT ![w] = "answering"]
      BY <1>2, <2>2 DEF StartAnswerGeneration, Goes
    <3>4. \A v \in Workers : wpc'[v] # "idle" => wpc[v] # "idle"
      BY <3>1, <3>3 DEF TypeOK
    <3>5. ASSUME NEW v \in Workers, wpc'[v] \in {"started", "preparing"},
                 job[v].epoch = epoch[job[v].run]
          PROVE  ~started'[job[v].run]
      <4>1. v # w /\ wpc[v] \in {"started", "preparing"}
        BY <3>3, <3>5 DEF TypeOK
      <4>2. job[v].run \in Runs /\ job[v] = [run |-> job[v].run, epoch |-> job[v].epoch]
        BY <4>1, BusyWorker
      <4>3. job[v].run # r
        BY <3>1, <3>2, <3>5, <4>1, <4>2 DEF AttemptInv
      <4>4. ~started[job[v].run]
        BY <3>5, <4>1 DEF AttemptInv
      <4>5. started'[job[v].run] = started[job[v].run]
        BY <2>2, <4>2, <4>3 DEF TypeOK
      <4>6. QED
        BY <4>4, <4>5
    <3>6. QED
      BY <3>3, <3>4, <3>5 DEF AttemptInv
  <2>3. QED
    BY <1>2, <2>1, <2>2 DEF StartAnswerGeneration
<1>3. ASSUME NEW w \in Workers,
             EnsureCanContinue(w) \/ AuthorizeRegeneration(w) \/ Complete(w) \/ MarkFailed(w)
             \/ WorkerDies(w)
      PROVE  AttemptInv'
  <2>1. UNCHANGED <<epoch, started>> /\ wpc[w] # "idle"
    BY <1>3 DEF EnsureCanContinue, AuthorizeRegeneration, Complete, MarkFailed, WorkerDies, rowVars
  <2>2. \/ Stops(w)
        \/ wpc[w] = "started" /\ Goes(w, "preparing")
        \/ Goes(w, "failing")
    BY <1>3 DEF EnsureCanContinue, AuthorizeRegeneration, Complete, MarkFailed, WorkerDies,
                StopsShort
  <2>3. QED
    BY <2>1, <2>2, AttemptsKept DEF Stops, Goes, TypeOK
<1>4. CASE ~ \E w \in Workers : WorkerStep(w)
  <2>1. UNCHANGED <<wpc, job>>
    BY <1>4, OthersKeepWorkers
  <2>2. ASSUME NEW r \in Runs
        PROVE  started'[r] = started[r] /\ epoch'[r] = epoch[r]
    BY <1>4
    DEF Next, vars, rowVars, ApiStep, Admit, CreateRun, Rollback, Enqueue, RecordEnqueueFailure,
        RouterGivesUp, CancelRun, CheckDeadline, DeleteThread, OpenThread, SweepAll, Recover,
       Tick, NextDay
  <2>3. \A w \in Workers : wpc[w] # "idle" => job[w].run \in Runs
    BY BusyWorker
  <2>4. QED
    BY <2>1, <2>2, <2>3 DEF AttemptInv
<1>5. QED
  BY <1>1, <1>2, <1>3, <1>4 DEF WorkerStep

LEMMA AttemptInvHolds == Spec => []AttemptInv
<1>1. Init => AttemptInv
  BY DEF Init, AttemptInv
<1>2. RunInv /\ AttemptInv /\ [Next]_vars => AttemptInv'
  BY AttemptStep DEF RunInv
<1>3. QED
  BY <1>1, <1>2, RunInvHolds, PTL DEF Spec

-----------------------------------------------------------------------------
(* Expiry of an answer                                                     *)

(* An answering run with time left: no other step may expire it.           *)
InTime(r) == status[r] = "running" /\ started[r] /\ answer_left[r] > 0

LEMMA InTimeIs ==
  ASSUME TypeOK, NEW r \in Runs
  PROVE  Phase(r) = "answering" /\ answer_left[r] > 0 <=> InTime(r)
BY PhaseIs DEF InTime

(* Only the runs an operation is about change their status.                *)
LEMMA ExpiredIsIn ==
  ASSUME NEW S \in SUBSET Runs, NEW s, FinishAll(S, s), NEW r \in Runs,
         InTime(r), status'[r] = "deadline_exceeded"
  PROVE  r \in S /\ s = "deadline_exceeded"
BY DEF FinishAll, InTime

LEMMA RefusedIsIt ==
  ASSUME NEW q \in Runs, NEW admitted \in BOOLEAN, Refuse(q, admitted), NEW r \in Runs,
         InTime(r), status'[r] = "deadline_exceeded"
  PROVE  q = r /\ admitted
<1>1. CASE admitted
  BY <1>1, ExpiredIsIn DEF Refuse, Finish
<1>2. CASE ~admitted
  BY <1>2 DEF Refuse, NotFinished, InTime
<1>3. QED
  BY <1>1, <1>2

LEMMA ApiExpiresNone ==
  ASSUME TypeOK, NEW q \in Runs, ApiStep(q), NEW r \in Runs, InTime(r)
  PROVE  status'[r] # "deadline_exceeded"
<1> SUFFICES ASSUME status'[r] = "deadline_exceeded"
             PROVE  FALSE
  OBVIOUS
<1>1. CASE CreateRun(q)
  BY <1>1 DEF CreateRun, InTime, TypeOK
<1>2. CASE Admit(q) \/ Rollback(q) \/ Enqueue(q) \/ RouterGivesUp(q)
  BY <1>2 DEF Admit, Rollback, Enqueue, RouterGivesUp, rowVars, InTime
<1>3. CASE RecordEnqueueFailure(q)
  <2> DEFINE waiting == Exists(q) /\ Phase(q) = "queued"
  <2>1. waiting => status[q] = "queued"
    BY PhaseIs
  <2>2. CASE waiting /\ RecoveryLeft(q) > 0
    BY <1>3, <2>1, <2>2, ExpiredIsIn DEF RecordEnqueueFailure, Finish
  <2>3. CASE ~(waiting /\ RecoveryLeft(q) > 0)
    <3>1. Refuse(q, waiting)
      BY <1>3, <2>3 DEF RecordEnqueueFailure
    <3>2. waiting \in BOOLEAN
      BY DEF Exists
    <3> HIDE DEF waiting
    <3>3. QED
      BY <2>1, <3>1, <3>2, RefusedIsIt DEF InTime
  <2>4. QED
    BY <2>2, <2>3
<1>4. CASE CancelRun(q)
  <2>1. CASE RecoveryLeft(q) > 0
    BY <1>4, <2>1, ExpiredIsIn DEF CancelRun, Finish
  <2>2. CASE ~(RecoveryLeft(q) > 0)
    BY <1>4, <2>2, ExpiredIsIn DEF CancelRun, Finish, RecoveryLeft, InTime
  <2>3. QED
    BY <2>1, <2>2
<1>5. QED
  BY <1>1, <1>2, <1>3, <1>4 DEF ApiStep

LEMMA RecoveryExpiresNone ==
  ASSUME TypeOK, NEW S \in SUBSET Overdue, Recover(S), NEW r \in Runs, InTime(r)
  PROVE  status'[r] # "deadline_exceeded"
<1>1. S \in SUBSET Runs /\ \A q \in S : RecoveryLeft(q) = 0
  BY DEF Overdue
<1>2. RecoveryLeft(r) # 0
  BY DEF InTime, RecoveryLeft, TypeOK
<1>3. QED
  BY <1>1, <1>2, ExpiredIsIn DEF Recover

(* A worker that stops short of a phase of its current attempt.            *)
LEMMA StopsShortExpires ==
  ASSUME TypeOK, NEW w \in Workers, wpc[w] # "idle", NEW phases, StopsShort(w, phases),
         NEW r \in Runs, InTime(r), status'[r] = "deadline_exceeded"
  PROVE  /\ job[w] = [run |-> r, epoch |-> epoch[r]]
         /\ "answering" \in phases /\ accept_left[r] = 0 /\ wpc'[w] = "idle"
<1> DEFINE q == job[w].run
           admitted == Owns(w) /\ Phase(q) \in phases
<1>1. q \in Runs /\ job[w] = [run |-> q, epoch |-> job[w].epoch]
  BY BusyWorker
<1>2. q = r /\ admitted
  <2>1. Refuse(q, admitted) /\ admitted \in BOOLEAN
    BY DEF StopsShort, Owns
  <2> HIDE DEF q, admitted
  <2>2. QED
    BY <1>1, <2>1, RefusedIsIt
<1>3. job[w].epoch = epoch[r]
  BY <1>2 DEF Owns
<1>4. Phase(r) = "answering"
  BY InTimeIs
<1>5. accept_left[r] = 0
  BY <1>2 DEF StopsShort, Proceeds, TypeOK
<1>6. wpc'[w] = "idle"
  BY DEF StopsShort, Stops, TypeOK
<1>7. QED
  BY <1>1, <1>2, <1>3, <1>4, <1>5, <1>6

LEMMA WorkerExpires ==
  ASSUME TypeOK, AttemptInv, NEW w \in Workers, WorkerStep(w), NEW r \in Runs, InTime(r),
         status'[r] = "deadline_exceeded"
  PROVE  /\ accept_left[r] = 0
         /\ wpc[w] = "answering" /\ wpc'[w] = "idle"
         /\ job[w] = [run |-> r, epoch |-> epoch[r]]
<1> DEFINE q == job[w].run
<1>1. ASSUME NEW p \in Runs, StartAttempt(w, p)
      PROVE  FALSE
  <2>1. Startable(p) => ~(status[p] = "running" /\ started[p])
    BY PhaseIs DEF Startable
  <2>2. CASE Startable(p) /\ accept_left[p] > 0
    BY <1>1, <2>2 DEF StartAttempt, InTime, TypeOK
  <2>3. CASE ~(Startable(p) /\ accept_left[p] > 0)
    BY <1>1, <2>1, <2>3, RefusedIsIt DEF StartAttempt, Startable, InTime, Exists
  <2>4. QED
    BY <2>2, <2>3
<1>2. ASSUME EnsureCanContinue(w)
      PROVE  FALSE
  <2>1. CASE StopsShort(w, {"preparing", "answering"})
    <3>1. job[w] = [run |-> r, epoch |-> epoch[r]] /\ wpc[w] = "started"
      BY <1>2, <2>1, StopsShortExpires DEF EnsureCanContinue
    <3>2. QED
      BY <3>1 DEF AttemptInv, InTime
  <2>2. CASE NotFinished
    BY <2>2 DEF NotFinished, InTime
  <2>3. QED
    BY <1>2, <2>1, <2>2 DEF EnsureCanContinue
<1>3. ASSUME StartAnswerGeneration(w)
      PROVE  FALSE
  <2>1. CASE StopsShort(w, {"preparing"})
    <3>1. "answering" \in {"preparing"}
      BY <1>3, <2>1, StopsShortExpires DEF StartAnswerGeneration
    <3>2. QED
      BY <3>1
  <2>2. CASE NotFinished
    BY <2>2 DEF NotFinished, InTime
  <2>3. QED
    BY <1>3, <2>1, <2>2 DEF StartAnswerGeneration
<1>4. CASE AuthorizeRegeneration(w)
  BY <1>4, StopsShortExpires DEF AuthorizeRegeneration
<1>5. ASSUME Complete(w)
      PROVE  FALSE
  <2> DEFINE admitted == Owns(w) /\ Phase(q) = "answering"
  <2>1. q \in Runs /\ admitted \in BOOLEAN
    BY <1>5, BusyWorker DEF Complete, Owns
  <2>2. CASE admitted /\ RecoveryLeft(q) > 0
    BY <1>5, <2>1, <2>2, ExpiredIsIn DEF Complete, Finish
  <2>3. CASE ~(admitted /\ RecoveryLeft(q) > 0)
    <3>1. Refuse(q, admitted)
      BY <1>5, <2>3 DEF Complete
    <3>2. q = r /\ admitted
      <4> HIDE DEF q, admitted
      <4>1. QED
        BY <2>1, <3>1, RefusedIsIt
    <3>3. QED
      BY <2>3, <3>2 DEF RecoveryLeft, InTime
  <2>4. QED
    BY <2>2, <2>3
<1>6. ASSUME MarkFailed(w)
      PROVE  FALSE
  <2>1. q \in Runs /\ Owns(w) \in BOOLEAN
    BY <1>6, BusyWorker DEF MarkFailed, Owns
  <2>2. CASE Owns(w) /\ RecoveryLeft(q) > 0
    BY <1>6, <2>1, <2>2, ExpiredIsIn DEF MarkFailed, Finish
  <2>3. CASE ~(Owns(w) /\ RecoveryLeft(q) > 0)
    <3>1. Refuse(q, Owns(w))
      BY <1>6, <2>3 DEF MarkFailed
    <3>2. q = r /\ Owns(w)
      <4> HIDE DEF q
      <4>1. QED
        BY <2>1, <3>1, RefusedIsIt
    <3>3. QED
      BY <2>3, <3>2 DEF RecoveryLeft, InTime
  <2>4. QED
    BY <2>2, <2>3
<1>7. ASSUME WorkerDies(w)
      PROVE  FALSE
  BY <1>7 DEF WorkerDies, rowVars, InTime
<1>8. QED
  BY <1>1, <1>2, <1>3, <1>4, <1>5, <1>6, <1>7 DEF WorkerStep

(* Before its recovery deadline an answer expires only at the hands of the *)
(* worker that writes it, when that asks for another generation after the  *)
(* acceptance deadline; no sweep, cancel or other attempt cuts it short.   *)
THEOREM AnswersAreNotCutShort == Spec => AnswerNotCutShort
<1> DEFINE byItsWorker(r) ==
      /\ accept_left[r] = 0
      /\ \E w \in Workers : /\ wpc[w] = "answering" /\ wpc'[w] = "idle"
                            /\ job[w] = [run |-> r, epoch |-> epoch[r]]
<1>1. ASSUME TypeOK, AttemptInv, [Next]_vars, NEW r \in Runs, InTime(r),
             status'[r] = "deadline_exceeded"
      PROVE  byItsWorker(r)
  <2>1. CASE \E w \in Workers : WorkerStep(w)
    BY <1>1, <2>1, WorkerExpires
  <2>2. CASE \E q \in Runs : ApiStep(q)
    BY <1>1, <2>2, ApiExpiresNone
  <2>3. ASSUME NEW S \in SUBSET Overdue, Recover(S)
        PROVE  FALSE
    BY <1>1, <2>3, RecoveryExpiresNone
  <2>4. CASE SweepAll \/ (\E q \in Runs : CheckDeadline(q)) \/ \E t \in Threads : OpenThread(t)
    BY <2>3, <2>4 DEF SweepAll, CheckDeadline, OpenThread
  <2>5. CASE Tick \/ NextDay \/ UNCHANGED vars \/ \E t \in Threads : DeleteThread(t)
    BY <1>1, <2>5 DEF Tick, NextDay, DeleteThread, vars, rowVars, InTime
  <2>6. QED
    BY <1>1, <2>1, <2>2, <2>4, <2>5 DEF Next
<1>2. RunInv /\ AttemptInv /\ [Next]_vars =>
        [\A r \in Runs :
           Phase(r) = "answering" /\ answer_left[r] > 0 /\ status'[r] = "deadline_exceeded"
             => byItsWorker(r)]_vars
  BY <1>1, InTimeIs DEF RunInv
<1>3. QED
  BY <1>2, RunInvHolds, AttemptInvHolds, PTL DEF Spec, AnswerNotCutShort

-----------------------------------------------------------------------------
(* The lifecycle that the runs implement                                   *)

(* Runs only exist in threads that do, or did.                             *)
ThreadInv == \A r \in Runs : status[r] # "absent" => thread[ThreadOf[r]] # "absent"

LEMMA ThreadStep ==
  ASSUME TypeOK, ThreadInv, Effect
  PROVE  ThreadInv'
<1>1. \A r \in Runs : ThreadOf[r] \in Threads
  BY AgentAssumption
<1>2. ASSUME NEW r \in Runs, Admits(r) \/ Attempts(r) \/ Begins(r) \/ Answers(r)
      PROVE  ThreadInv'
  <2>1. CASE Admits(r)
    BY <1>1, <2>1 DEF Admits, ThreadInv, TypeOK
  <2>2. CASE Attempts(r) \/ Begins(r)
    BY <2>2 DEF Attempts, Begins, Active, ThreadInv, TypeOK
  <2>3. CASE Answers(r)
    BY <2>3 DEF Answers, Finish, FinishAll, ThreadInv
  <2>4. QED
    BY <1>2, <2>1, <2>2, <2>3
<1>3. CASE \E S \in SUBSET Runs, s \in {"failed", "deadline_exceeded"} : Ends(S, s)
  BY <1>3 DEF Ends, Active, FinishAll, ThreadInv
<1>4. CASE Quiet \/ \E t \in Threads : Deletes(t)
  BY <1>1, <1>4 DEF Quiet, Deletes, ThreadInv, TypeOK
<1>5. QED
  BY <1>2, <1>3, <1>4 DEF Effect, Progress

(* The phase of a run, one state of its row and thread at a time.          *)
PhaseFacts(r) ==
  LET gone == thread[ThreadOf[r]] = "deleted"
      p == LifecyclePhase[r] IN
  /\ status[r] = "absent" => p = "absent"
  /\ status[r] # "absent" /\ gone => p = "removed"
  /\ status[r] # "absent" /\ ~gone => Exists(r)
  /\ status[r] = "queued" /\ ~gone => p = "queued"
  /\ status[r] = "running" /\ ~gone => p = "started"
  /\ status[r] = "completed" /\ ~gone => p = "answered"
  /\ status[r] \in {"failed", "deadline_exceeded"} /\ ~gone => p = "closed"

LEMMA LifecyclePhaseIs == TypeOK /\ ThreadInv => \A r \in Runs : PhaseFacts(r)
<1> SUFFICES ASSUME TypeOK, ThreadInv, NEW r \in Runs
             PROVE  PhaseFacts(r)
  OBVIOUS
<1> DEFINE gone == thread[ThreadOf[r]] = "deleted"
<1>1. LifecyclePhase[r] = LifecyclePhaseOf(r)
  BY DEF LifecyclePhase
<1>2. status[r] \in Status
  BY DEF TypeOK
<1>3. status[r] # "absent" /\ ~gone => Exists(r)
  BY AgentAssumption DEF TypeOK, ThreadInv, Exists
<1>4. Exists(r) => status[r] # "absent" /\ ~gone
  BY DEF Exists
<1>5. CASE status[r] = "absent"
  BY <1>1, <1>4, <1>5 DEF LifecyclePhaseOf, PhaseFacts
<1>6. CASE status[r] # "absent" /\ gone
  BY <1>1, <1>4, <1>6 DEF LifecyclePhaseOf, PhaseFacts
<1>7. CASE status[r] # "absent" /\ ~gone
  BY <1>1, <1>2, <1>3, <1>7 DEF LifecyclePhaseOf, PhaseFacts, Status, Terminal
<1>8. QED
  BY <1>5, <1>6, <1>7

(* A run counts against one day, unless it ended before it was started.    *)
Counts(r) == status[r] # "absent" /\ ~(status[r] \in Terminal /\ epoch[r] = 0)

ChargedFacts(r) == LifecycleCharged[r] = IF Counts(r) THEN {usage_date[r]} ELSE {}

LEMMA LifecycleChargedIs == TypeOK => \A r \in Runs : ChargedFacts(r)
<1> SUFFICES ASSUME TypeOK, NEW r \in Runs
             PROVE  ChargedFacts(r)
  OBVIOUS
<1>1. usage_date[r] \in Days
  BY DEF TypeOK
<1>2. \A d \in Days : r \in Charges(UserOf(r), d) <=> Counts(r) /\ usage_date[r] = d
  BY DEF Charges, Counts
<1>3. LifecycleCharged[r] = {d \in Days : r \in Charges(UserOf(r), d)}
  BY DEF LifecycleCharged
<1>4. QED
  BY <1>1, <1>2, <1>3 DEF ChargedFacts

LEMMA FactsNext ==
  /\ TypeOK' /\ ThreadInv' => \A r \in Runs : PhaseFacts(r)'
  /\ TypeOK' => \A r \in Runs : ChargedFacts(r)'
<1>1. TypeOK' /\ ThreadInv' => (\A r \in Runs : PhaseFacts(r))'
  BY LifecyclePhaseIs, PTL
<1>2. TypeOK' => (\A r \in Runs : ChargedFacts(r))'
  BY LifecycleChargedIs, PTL
<1>3. QED
  BY <1>1, <1>2

(* A step that keeps a run's row and its thread keeps its phase and charge.*)
SameRun(r) ==
  /\ status'[r] = status[r] /\ usage_date'[r] = usage_date[r]
  /\ epoch'[r] = epoch[r] /\ thread'[ThreadOf[r]] = thread[ThreadOf[r]]

LEMMA SameRunIsSame ==
  ASSUME NEW r \in Runs, SameRun(r)
  PROVE  LifecyclePhase'[r] = LifecyclePhase[r] /\ LifecycleCharged'[r] = LifecycleCharged[r]
<1>1. LifecyclePhase'[r] = LifecyclePhase[r]
  <2>1. LifecyclePhaseOf(r)' = LifecyclePhaseOf(r)
    BY DEF SameRun, LifecyclePhaseOf, Exists
  <2>2. QED
    BY <2>1 DEF LifecyclePhase
<1>2. LifecycleCharged'[r] = LifecycleCharged[r]
  BY DEF SameRun, LifecycleCharged, Charges, UserOf
<1>3. QED
  BY <1>1, <1>2

LEMMA PhaseUpdate ==
  ASSUME NEW r \in Runs, NEW p, LifecyclePhase'[r] = p,
         \A q \in Runs \ {r} : LifecyclePhase'[q] = LifecyclePhase[q]
  PROVE  LifecyclePhase' = [LifecyclePhase EXCEPT ![r] = p]
BY DEF LifecyclePhase

LEMMA PhasesKept ==
  ASSUME \A q \in Runs : LifecyclePhase'[q] = LifecyclePhase[q]
  PROVE  LifecyclePhase' = LifecyclePhase
BY DEF LifecyclePhase

LEMMA ChargesKept ==
  ASSUME \A q \in Runs : LifecycleCharged'[q] = LifecycleCharged[q]
  PROVE  LifecycleCharged' = LifecycleCharged
BY DEF LifecycleCharged

(* The charges of the lifecycle are those of the quota rows.               *)
LEMMA LifecycleCharges ==
  ASSUME NEW u, NEW d \in Days
  PROVE  Lifecycle!Charges(u, d) = Charges(u, d)
<1>1. Charges(u, d) \subseteq Runs
  BY DEF Charges
<1>2. \A r \in Runs : d \in LifecycleCharged[r] <=> r \in Charges(UserOf(r), d)
  BY DEF LifecycleCharged
<1>3. \A r \in Runs : r \in Charges(u, d) => UserOf(r) = u
  BY DEF Charges
<1>4. Lifecycle!Charges(u, d) = {r \in Runs : UserOf(r) = u /\ d \in LifecycleCharged[r]}
  BY DEF Lifecycle!Charges
<1>5. QED
  BY <1>1, <1>2, <1>3, <1>4

LEMMA SameCardinality == \A S : Lifecycle!Cardinality(S) = Cardinality(S)
BY DEF Lifecycle!Cardinality, Cardinality

(* Each effect is a step of the lifecycle or none.                         *)
LEMMA AdmitSubmits ==
  ASSUME RunInv, QuotaIsExact, ThreadInv, TypeOK', ThreadInv', NEW r \in Runs, Admits(r)
  PROVE  Lifecycle!Submit(r, today)
<1> USE AgentAssumption DEF RunInv
<1>1. \A q \in Runs : PhaseFacts(q) /\ PhaseFacts(q)' /\ ChargedFacts(q) /\ ChargedFacts(q)'
  BY LifecyclePhaseIs, LifecycleChargedIs, FactsNext
<1>2. /\ status'[r] = "queued" /\ usage_date'[r] = today
      /\ thread'[ThreadOf[r]] = "present"
  BY DEF Admits, TypeOK
<1>3. ASSUME NEW q \in Runs, q # r
      PROVE  LifecyclePhase'[q] = LifecyclePhase[q] /\ LifecycleCharged'[q] = LifecycleCharged[q]
  <2>1. status'[q] = status[q] /\ usage_date'[q] = usage_date[q] /\ epoch'[q] = epoch[q]
    BY <1>3 DEF Admits, TypeOK
  <2>2. CASE ThreadOf[q] # ThreadOf[r] \/ thread[ThreadOf[r]] = "present"
    <3>1. thread'[ThreadOf[q]] = thread[ThreadOf[q]]
      BY <2>2 DEF Admits, TypeOK
    <3>2. QED
      BY <2>1, <3>1, SameRunIsSame DEF SameRun
  <2>3. CASE ThreadOf[q] = ThreadOf[r] /\ thread[ThreadOf[r]] # "present"
    <3>1. thread[ThreadOf[q]] = "absent"
      BY <2>3 DEF Admits, TypeOK
    <3>2. status[q] = "absent"
      BY <3>1 DEF ThreadInv
    <3>3. LifecyclePhase[q] = "absent" /\ LifecyclePhase'[q] = "absent"
      BY <1>1, <2>1, <3>2 DEF PhaseFacts
    <3>4. LifecycleCharged[q] = {} /\ LifecycleCharged'[q] = {}
      BY <1>1, <2>1, <3>2 DEF ChargedFacts, Counts
    <3>5. QED
      BY <3>3, <3>4
  <2>4. QED
    BY <2>2, <2>3, <1>2 DEF TypeOK
<1>4. LifecyclePhase' = [LifecyclePhase EXCEPT ![r] = "queued"]
  <2>1. LifecyclePhase'[r] = "queued"
    BY <1>1, <1>2 DEF PhaseFacts
  <2>2. QED
    BY <1>3, <2>1, PhaseUpdate
<1>5. LifecycleCharged' = [LifecycleCharged EXCEPT ![r] = {today}]
  <2>1. LifecycleCharged'[r] = {today}
    BY <1>1, <1>2 DEF ChargedFacts, Counts, Terminal
  <2>2. QED
    BY <1>3, <2>1 DEF LifecycleCharged
<1>6. LifecyclePhase[r] = "absent"
  BY <1>1 DEF Admits, PhaseFacts
<1>7. ASSUME NEW q \in Runs, ThreadOf[q] = ThreadOf[r]
      PROVE  LifecyclePhase[q] \notin {"queued", "started", "removed"}
  <2>1. ~Active(q) /\ thread[ThreadOf[q]] # "deleted"
    BY <1>7 DEF Admits, HasActiveRun
  <2>2. status[q] \in Status
    BY DEF TypeOK
  <2>3. QED
    BY <1>1, <2>1, <2>2 DEF PhaseFacts, Active, Status, Terminal
<1>8. Cardinality(Charges(UserOf(r), today)) < DailyLimit
  <2>1. UserOf(r) \in Users /\ today \in Days
    BY DEF UserOf, TypeOK
  <2>2. QED
    BY <2>1 DEF Admits, MayReserve, QuotaIsExact, UserOf
<1>9. Lifecycle!Cardinality(Lifecycle!Charges([q \in Runs |-> UserOf(q)][r], today)) < DailyLimit
  BY <1>8, LifecycleCharges, SameCardinality DEF TypeOK
<1>10. \A q \in Runs : ThreadOf[q] = ThreadOf[r] =>
          ~Lifecycle!Open(q) /\ LifecyclePhase[q] # "removed"
  BY <1>7 DEF Lifecycle!Open
<1>11. QED
  BY <1>4, <1>5, <1>6, <1>9, <1>10 DEF Lifecycle!Submit

LEMMA AttemptStarts ==
  ASSUME TypeOK, ThreadInv, TypeOK', ThreadInv', NEW r \in Runs, Attempts(r)
  PROVE  Lifecycle!Start(r) \/ UNCHANGED Lifecycle!vars
<1>1. \A q \in Runs : PhaseFacts(q) /\ PhaseFacts(q)' /\ ChargedFacts(q) /\ ChargedFacts(q)'
  BY LifecyclePhaseIs, LifecycleChargedIs, FactsNext
<1>2. status'[r] = "running" /\ thread'[ThreadOf[r]] # "deleted" /\ thread[ThreadOf[r]] # "deleted"
  BY DEF Attempts, Exists, TypeOK
<1>3. ASSUME NEW q \in Runs, q # r
      PROVE  LifecyclePhase'[q] = LifecyclePhase[q] /\ LifecycleCharged'[q] = LifecycleCharged[q]
  <2>1. SameRun(q)
    BY <1>3 DEF Attempts, SameRun, TypeOK
  <2>2. QED
    BY <2>1, SameRunIsSame
<1>4. LifecyclePhase'[r] = "started"
  BY <1>1, <1>2 DEF PhaseFacts
<1>5. UNCHANGED LifecycleCharged
  <2>1. Counts(r) /\ Counts(r)' /\ usage_date'[r] = usage_date[r]
    BY <1>2 DEF Attempts, Active, Counts, Terminal
  <2>2. LifecycleCharged'[r] = LifecycleCharged[r]
    BY <1>1, <2>1 DEF ChargedFacts
  <2>3. QED
    BY <1>3, <2>2, ChargesKept
<1>6. CASE status[r] = "queued"
  <2>1. LifecyclePhase[r] = "queued"
    BY <1>1, <1>2, <1>6 DEF PhaseFacts
  <2>2. LifecyclePhase' = [LifecyclePhase EXCEPT ![r] = "started"]
    BY <1>3, <1>4, PhaseUpdate
  <2>3. QED
    BY <1>5, <2>1, <2>2 DEF Lifecycle!Start
<1>7. CASE status[r] = "running"
  <2>1. LifecyclePhase[r] = "started"
    BY <1>1, <1>2, <1>7 DEF PhaseFacts
  <2>2. UNCHANGED LifecyclePhase
    BY <1>3, <1>4, <2>1, PhasesKept
  <2>3. QED
    BY <1>5, <2>2 DEF Lifecycle!vars
<1>8. QED
  BY <1>6, <1>7 DEF Attempts, Active

LEMMA AnswerAnswers ==
  ASSUME RunInv, ThreadInv, TypeOK', ThreadInv', NEW r \in Runs, Answers(r)
  PROVE  Lifecycle!Answer(r)
<1> USE DEF RunInv
<1>1. \A q \in Runs : PhaseFacts(q) /\ PhaseFacts(q)' /\ ChargedFacts(q) /\ ChargedFacts(q)'
  BY LifecyclePhaseIs, LifecycleChargedIs, FactsNext
<1>2. /\ status'[r] = "completed" /\ status[r] = "running" /\ thread' = thread
      /\ thread[ThreadOf[r]] # "deleted"
  BY DEF Answers, Finish, FinishAll, Exists
<1>3. ASSUME NEW q \in Runs, q # r
      PROVE  LifecyclePhase'[q] = LifecyclePhase[q] /\ LifecycleCharged'[q] = LifecycleCharged[q]
  <2>1. SameRun(q)
    BY <1>3 DEF Answers, Finish, FinishAll, SameRun
  <2>2. QED
    BY <2>1, SameRunIsSame
<1>4. LifecyclePhase[r] = "started" /\ LifecyclePhase'[r] = "answered"
  BY <1>1, <1>2 DEF PhaseFacts
<1>5. LifecyclePhase' = [LifecyclePhase EXCEPT ![r] = "answered"]
  BY <1>3, <1>4, PhaseUpdate
<1>6. UNCHANGED LifecycleCharged
  <2>1. epoch[r] # 0 /\ epoch'[r] = epoch[r] /\ usage_date'[r] = usage_date[r]
    BY <1>2 DEF Answers, StartedInv, TypeOK
  <2>2. Counts(r) /\ Counts(r)'
    BY <1>2, <2>1 DEF Counts, Terminal
  <2>3. LifecycleCharged'[r] = LifecycleCharged[r]
    BY <1>1, <2>1, <2>2 DEF ChargedFacts
  <2>4. QED
    BY <1>3, <2>3, ChargesKept
<1>7. QED
  BY <1>4, <1>5, <1>6 DEF Lifecycle!Answer

LEMMA EndCloses ==
  ASSUME RunInv, ThreadInv, TypeOK', ThreadInv', NEW S \in SUBSET Runs,
         NEW s \in {"failed", "deadline_exceeded"}, Ends(S, s)
  PROVE  Lifecycle!Close(S)
<1> USE DEF RunInv
<1>1. \A q \in Runs : PhaseFacts(q) /\ PhaseFacts(q)' /\ ChargedFacts(q) /\ ChargedFacts(q)'
  BY LifecyclePhaseIs, LifecycleChargedIs, FactsNext
<1>2. ASSUME NEW q \in Runs \ S
      PROVE  LifecyclePhase'[q] = LifecyclePhase[q] /\ LifecycleCharged'[q] = LifecycleCharged[q]
  <2>1. SameRun(q)
    BY <1>2 DEF Ends, FinishAll, SameRun
  <2>2. QED
    BY <2>1, SameRunIsSame
<1>3. ASSUME NEW q \in S
      PROVE  /\ LifecyclePhase[q] \in {"queued", "started"}
             /\ LifecyclePhase[q] = "queued" <=> status[q] = "queued"
             /\ LifecyclePhase'[q] = "closed"
             /\ LifecycleCharged'[q] = IF status[q] = "queued" THEN {} ELSE LifecycleCharged[q]
  <2>1. /\ status[q] \in {"queued", "running"} /\ status'[q] = s /\ thread' = thread
        /\ thread[ThreadOf[q]] # "deleted"
        /\ epoch'[q] = epoch[q] /\ usage_date'[q] = usage_date[q]
    BY DEF Ends, FinishAll, Exists, Active
  <2>2. status[q] = "queued" <=> epoch[q] = 0
    BY <2>1 DEF StartedInv, TypeOK
  <2>3. Counts(q) /\ (Counts(q)' <=> status[q] # "queued")
    BY <2>1, <2>2 DEF Counts, Terminal
  <2>4. LifecycleCharged'[q] = IF status[q] = "queued" THEN {} ELSE LifecycleCharged[q]
    BY <1>1, <2>1, <2>3 DEF ChargedFacts
  <2>5. QED
    BY <1>1, <2>1, <2>4 DEF PhaseFacts
<1>4. LifecyclePhase' = [q \in Runs |-> IF q \in S THEN "closed" ELSE LifecyclePhase[q]]
  <2>1. \A q \in Runs : LifecyclePhase'[q] = IF q \in S THEN "closed" ELSE LifecyclePhase[q]
    BY <1>2, <1>3
  <2>2. QED
    BY <2>1 DEF LifecyclePhase
<1>5. LifecycleCharged' = [q \in Runs |-> IF q \in S /\ LifecyclePhase[q] = "queued"
                                         THEN {} ELSE LifecycleCharged[q]]
  <2>1. \A q \in Runs : LifecycleCharged'[q] =
           IF q \in S /\ LifecyclePhase[q] = "queued" THEN {} ELSE LifecycleCharged[q]
    BY <1>2, <1>3
  <2>2. QED
    BY <2>1 DEF LifecycleCharged
<1>6. QED
  BY <1>3, <1>4, <1>5 DEF Lifecycle!Close, Lifecycle!Open

LEMMA DeleteRemoves ==
  ASSUME TypeOK, ThreadInv, TypeOK', ThreadInv', NEW t \in Threads, Deletes(t)
  PROVE  Lifecycle!Remove(t)
<1>1. \A q \in Runs : PhaseFacts(q) /\ PhaseFacts(q)'
  BY LifecyclePhaseIs, FactsNext
<1>2. \A q \in Runs : LifecycleCharged'[q] = LifecycleCharged[q]
  BY DEF Deletes, LifecycleCharged, Charges, UserOf
<1>3. ASSUME NEW q \in Runs
      PROVE  LifecyclePhase'[q] = IF ThreadOf[q] = t /\ LifecyclePhase[q] # "absent"
                                  THEN "removed" ELSE LifecyclePhase[q]
  <2>1. status'[q] = status[q] /\ status[q] \in Status
    BY DEF Deletes, TypeOK
  <2>2. CASE ThreadOf[q] = t
    <3>1. thread'[ThreadOf[q]] = "deleted" /\ thread[ThreadOf[q]] # "deleted"
      BY <2>2 DEF Deletes, TypeOK
    <3>2. LifecyclePhase[q] # "absent" <=> status[q] # "absent"
      BY <1>1, <2>1, <3>1 DEF PhaseFacts, Status, Terminal
    <3>3. QED
      BY <1>1, <2>1, <2>2, <3>1, <3>2 DEF PhaseFacts
  <2>3. CASE ThreadOf[q] # t
    <3>1. SameRun(q)
      BY <2>3, AgentAssumption DEF Deletes, SameRun, TypeOK
    <3>2. QED
      BY <2>3, <3>1, SameRunIsSame
  <2>4. QED
    BY <2>2, <2>3
<1>4. LifecyclePhase' = [q \in Runs |-> IF ThreadOf[q] = t /\ LifecyclePhase[q] # "absent"
                                       THEN "removed" ELSE LifecyclePhase[q]]
  BY <1>3 DEF LifecyclePhase
<1>5. QED
  BY <1>2, <1>4, ChargesKept DEF Lifecycle!Remove

LEMMA LifecycleStep ==
  ASSUME RunInv, QuotaIsExact, ThreadInv, Effect, TypeOK', ThreadInv'
  PROVE  [Lifecycle!Next]_(Lifecycle!vars)
<1>1. ASSUME NEW r \in Runs, Admits(r)
      PROVE  Lifecycle!Next
  <2>1. today \in Days
    BY DEF RunInv, TypeOK
  <2>2. QED
    BY <1>1, <2>1, AdmitSubmits DEF Lifecycle!Next
<1>2. ASSUME NEW r \in Runs, Attempts(r)
      PROVE  Lifecycle!Next \/ UNCHANGED Lifecycle!vars
  BY <1>2, AttemptStarts DEF Lifecycle!Next, RunInv
<1>3. ASSUME NEW r \in Runs, Answers(r)
      PROVE  Lifecycle!Next
  BY <1>3, AnswerAnswers DEF Lifecycle!Next
<1>4. ASSUME NEW S \in SUBSET Runs, NEW s \in {"failed", "deadline_exceeded"}, Ends(S, s)
      PROVE  Lifecycle!Next
  BY <1>4, EndCloses DEF Lifecycle!Next
<1>5. ASSUME NEW t \in Threads, Deletes(t)
      PROVE  Lifecycle!Next \/ UNCHANGED Lifecycle!vars
  <2>1. Lifecycle!Remove(t)
    BY <1>5, DeleteRemoves DEF RunInv
  <2>2. CASE t \in {ThreadOf[r] : r \in Runs}
    BY <2>1, <2>2 DEF Lifecycle!Next
  <2>3. CASE t \notin {ThreadOf[r] : r \in Runs}
    <3>1. \A q \in Runs : LifecyclePhase'[q] = LifecyclePhase[q]
      BY <2>1, <2>3 DEF Lifecycle!Remove
    <3>2. QED
      BY <2>1, <3>1, PhasesKept DEF Lifecycle!Remove, Lifecycle!vars
  <2>4. QED
    BY <2>2, <2>3
<1>6. CASE Quiet \/ \E r \in Runs : Begins(r)
  <2>1. \A q \in Runs : SameRun(q)
    BY <1>6 DEF Quiet, Begins, SameRun
  <2>2. QED
    BY <2>1, SameRunIsSame, PhasesKept, ChargesKept DEF Lifecycle!vars
<1>7. QED
  BY <1>1, <1>2, <1>3, <1>4, <1>5, <1>6 DEF Effect, Progress

LEMMA LifecycleInit == Init => ThreadInv /\ Lifecycle!Init
<1> SUFFICES ASSUME Init
             PROVE  ThreadInv /\ Lifecycle!Init
  OBVIOUS
<1>1. ThreadInv
  BY DEF Init, ThreadInv
<1>2. \A r \in Runs : PhaseFacts(r) /\ ChargedFacts(r)
  BY <1>1, TypeInit, LifecyclePhaseIs, LifecycleChargedIs
<1>3. \A r \in Runs : LifecyclePhase[r] = "absent" /\ LifecycleCharged[r] = {}
  BY <1>2 DEF Init, PhaseFacts, ChargedFacts, Counts
<1>4. /\ LifecyclePhase = [r \in Runs |-> "absent"]
      /\ LifecycleCharged = [r \in Runs |-> {}]
  BY <1>3 DEF LifecyclePhase, LifecycleCharged
<1>5. QED
  BY <1>1, <1>4 DEF Lifecycle!Init

(* With attempts, queues, deadlines and dying workers, the runs still are  *)
(* what their user is promised: one at a time in a thread, at most the     *)
(* limit counted against a day, one outcome, a place given back only when  *)
(* no worker started the run.                                              *)
THEOREM RunsImplementLifecycle == Spec => ImplementsLifecycle
<1>1. RunInv /\ QuotaIsExact /\ ThreadInv /\ [Next]_vars
        => ThreadInv' /\ (TypeOK' => [Lifecycle!Next]_(Lifecycle!vars))
  BY StepEffect, ThreadStep, LifecycleStep DEF RunInv
<1>2. QED
  BY <1>1, LifecycleInit, TypeCorrect, RunInvHolds, QuotaIsNeverWrong, PTL
  DEF Spec, ImplementsLifecycle, Lifecycle!Spec
-----------------------------------------------------------------------------
(* A run cannot go on for ever: nothing gives an active run more time than *)
(* it has, but the one start of its answer, and every attempt of a run     *)
(* takes one of the queue's deliveries.  It is the part of EventuallyEnds  *)
(* that needs no fairness.                                                 *)

(* Nothing that happens to an active run moves its acceptance deadline.    *)
LEMMA AcceptTimeStep ==
  ASSUME TypeOK, AdmissionInv, [Next]_vars, NEW r \in Runs, Active(r)
  PROVE  accept_left'[r] <= accept_left[r]
<1>1. accept_left[r] \in Nat
  BY DEF TypeOK
<1>2. ASSUME NEW q \in Runs, CreateRun(q)
      PROVE  accept_left'[r] = accept_left[r]
  <2>1. q # r
    BY <1>2 DEF CreateRun, AdmissionInv, Active
  <2>2. QED
    BY <1>2, <2>1 DEF CreateRun, TypeOK
<1>3. CASE Tick
  BY <1>1, <1>3 DEF Tick, Less1
<1>4. CASE ~Tick /\ ~ \E q \in Runs : CreateRun(q)
  <2>1. UNCHANGED accept_left
    BY <1>4
    DEF Next, vars, rowVars, ApiStep, Admit, Rollback, Enqueue, RecordEnqueueFailure,
        RouterGivesUp, CancelRun, CheckDeadline, DeleteThread, OpenThread, SweepAll, Recover,
        NextDay, WorkerStep, StartAttempt, EnsureCanContinue, StartAnswerGeneration,
        AuthorizeRegeneration, Complete, MarkFailed, WorkerDies
  <2>2. QED
    BY <1>1, <2>1
<1>5. QED
  BY <1>1, <1>2, <1>3, <1>4

(* Only a worker that owns the run, in time, marks its answer as started.  *)
LEMMA AnswerStartStep ==
  ASSUME TypeOK, [Next]_vars, NEW r \in Runs, ~started[r], started'[r]
  PROVE  accept_left[r] > 0
<1>1. ASSUME NEW w \in Workers, StartAnswerGeneration(w)
      PROVE  accept_left[r] > 0
  <2>1. job[w].run \in Runs
    BY <1>1, BusyWorker DEF StartAnswerGeneration
  <2>2. \/ Proceeds(w, {"preparing"}) /\ started' = [started EXCEPT ![job[w].run] = TRUE]
        \/ UNCHANGED started
    BY <1>1 DEF StartAnswerGeneration
  <2>3. Proceeds(w, {"preparing"}) /\ job[w].run = r
    BY <2>1, <2>2 DEF TypeOK
  <2>4. QED
    BY <2>3 DEF Proceeds
<1>2. CASE ~ \E w \in Workers : StartAnswerGeneration(w)
  <2>1. UNCHANGED started
    BY <1>2
    DEF Next, vars, rowVars, ApiStep, Admit, CreateRun, Rollback, Enqueue, RecordEnqueueFailure,
        RouterGivesUp, CancelRun, CheckDeadline, DeleteThread, OpenThread, SweepAll, Recover,
        Tick, NextDay,
        WorkerStep, StartAttempt, EnsureCanContinue, AuthorizeRegeneration, Complete,
        MarkFailed, WorkerDies
  <2>2. QED
    BY <2>1
<1>3. QED
  BY <1>1, <1>2

(* An active run's answer starts in time, or it has no more time than      *)
(* before; a tick takes some; and a sweep leaves no overdue run active.    *)
TimeRunsOut ==
  /\ \A r \in Runs : Active(r) /\ Active(r)' =>
       \/ ~started[r] /\ started'[r] /\ accept_left[r] > 0
       \/ started'[r] = started[r] /\ RecoveryLeft(r)' <= RecoveryLeft(r)
  /\ Tick => \A r \in Runs : RecoveryLeft(r) > 0 => RecoveryLeft(r)' < RecoveryLeft(r)
  /\ SweepAll => \A r \in Overdue : ~Active(r)'

RunsRunOut == [][TimeRunsOut]_vars

LEMMA TimeStep ==
  ASSUME TypeOK, TypeOK', AdmissionInv, [Next]_vars, NEW r \in Runs, Active(r),
         started[r] => started'[r]
  PROVE  \/ ~started[r] /\ started'[r] /\ accept_left[r] > 0
         \/ started'[r] = started[r] /\ RecoveryLeft(r)' <= RecoveryLeft(r)
<1>1. started[r] \in BOOLEAN /\ started'[r] \in BOOLEAN
  BY DEF TypeOK
<1>2. CASE started[r]
  <2>1. started'[r] = started[r]
    BY <1>1, <1>2
  <2>2. RecoveryLeft(r)' = answer_left'[r] /\ RecoveryLeft(r) = answer_left[r]
    BY <1>2, <2>1 DEF RecoveryLeft
  <2>3. answer_left'[r] <= answer_left[r]
    BY <1>2, AnswerTimeStep
  <2>4. QED
    BY <2>1, <2>2, <2>3
<1>3. CASE ~started[r] /\ started'[r]
  BY <1>3, AnswerStartStep
<1>4. CASE ~started[r] /\ ~started'[r]
  <2>1. started'[r] = started[r]
    BY <1>1, <1>4
  <2>2. RecoveryLeft(r)' = accept_left'[r] /\ RecoveryLeft(r) = accept_left[r]
    BY <1>4 DEF RecoveryLeft
  <2>3. accept_left'[r] <= accept_left[r]
    BY AcceptTimeStep
  <2>4. QED
    BY <2>1, <2>2, <2>3
<1>5. QED
  BY <1>1, <1>2, <1>3, <1>4

LEMMA TickTakesTime ==
  ASSUME TypeOK, Tick, NEW r \in Runs, RecoveryLeft(r) > 0
  PROVE  RecoveryLeft(r)' < RecoveryLeft(r)
<1>1. accept_left[r] \in Nat /\ answer_left[r] \in Nat /\ started' = started
  BY DEF TypeOK, Tick
<1>2. accept_left'[r] = Less1(accept_left[r]) /\ answer_left'[r] = Less1(answer_left[r])
  BY DEF Tick
<1>3. CASE started[r]
  BY <1>1, <1>2, <1>3 DEF RecoveryLeft, Less1
<1>4. CASE ~started[r]
  BY <1>1, <1>2, <1>4 DEF RecoveryLeft, Less1
<1>5. QED
  BY <1>3, <1>4

(* An active run's time only runs out: no redelivery, retry or             *)
(* regeneration prolongs it, and the sweep ends every run whose time is up.*)
THEOREM RunsAreBounded == Spec => RunsRunOut
<1>1. RunInv /\ RunInv' /\ AnswerWindow /\ [Next]_vars => [TimeRunsOut]_vars
  <2> SUFFICES ASSUME TypeOK, TypeOK', AdmissionInv, AnswerWindow, Next
               PROVE  TimeRunsOut
    BY DEF RunInv
  <2>1. ASSUME NEW r \in Runs, Active(r)
        PROVE  \/ ~started[r] /\ started'[r] /\ accept_left[r] > 0
               \/ started'[r] = started[r] /\ RecoveryLeft(r)' <= RecoveryLeft(r)
    BY <2>1, TimeStep DEF AnswerWindow
  <2>2. ASSUME Tick, NEW r \in Runs, RecoveryLeft(r) > 0
        PROVE  RecoveryLeft(r)' < RecoveryLeft(r)
    BY <2>2, TickTakesTime
  <2>3. ASSUME SweepAll, NEW r \in Overdue
        PROVE  ~Active(r)'
    <3>1. r \in Runs /\ status'[r] = "deadline_exceeded"
      BY <2>3 DEF SweepAll, Recover, FinishAll, Overdue
    <3>2. QED
      BY <3>1 DEF Active
  <2>4. QED
    BY <2>1, <2>2, <2>3 DEF TimeRunsOut
<1>2. RunInv /\ [Next]_vars => [AnswerWindow]_vars
  BY AnswerWindowStep
<1>3. QED
  BY <1>1, <1>2, RunInvHolds, PTL DEF Spec, RunsRunOut

(* A run has had at most one attempt for each delivery the queue has made, *)
(* and none before its message was handed to the queue.                    *)
DeliveriesCounted ==
  \A r \in Runs : /\ epoch[r] + deliveries[r] <= MaxCopies
                  /\ router[r] \in {"none", "admitting", "enqueue"} =>
                       epoch[r] = 0 /\ deliveries[r] = 0
                  /\ status[r] = "absent" => router[r] \in {"none", "admitting"}

LEMMA DeliveriesStep ==
  ASSUME TypeOK, AdmissionInv, DeliveriesCounted, [Next]_vars
  PROVE  DeliveriesCounted'
<1>1. ASSUME NEW r \in Runs, Admit(r) \/ CreateRun(r) \/ Rollback(r)
      PROVE  DeliveriesCounted'
  BY <1>1 DEF Admit, CreateRun, Rollback, rowVars, DeliveriesCounted, TypeOK
<1>2. ASSUME NEW r \in Runs, Enqueue(r)
      PROVE  DeliveriesCounted'
  <2>1. epoch[r] = 0 /\ status[r] # "absent"
    BY <1>2 DEF Enqueue, DeliveriesCounted
  <2>2. PICK n \in 0..MaxCopies : deliveries' = [deliveries EXCEPT ![r] = n]
    BY <1>2, AgentAssumption DEF Enqueue
  <2>3. PICK p \in {"done", "record_failure"} : router' = [router EXCEPT ![r] = p]
    BY <1>2 DEF Enqueue
  <2>4. UNCHANGED <<epoch, status>>
    BY <1>2 DEF Enqueue, rowVars
  <2>5. QED
    BY <2>1, <2>2, <2>3, <2>4, AgentAssumption DEF DeliveriesCounted, TypeOK
<1>3. ASSUME NEW w \in Workers, NEW r \in Runs, StartAttempt(w, r)
      PROVE  DeliveriesCounted'
  <2>1. deliveries[r] \in Nat /\ deliveries[r] > 0 /\ epoch[r] \in Nat
    BY <1>3 DEF StartAttempt, TypeOK
  <2>2. deliveries' = [deliveries EXCEPT ![r] = @ - 1] /\ UNCHANGED router
    BY <1>3 DEF StartAttempt
  <2>3. epoch' = [epoch EXCEPT ![r] = @ + 1] \/ epoch' = epoch
    BY <1>3 DEF StartAttempt
  <2>4. \A q \in Runs : status'[q] = "absent" => status[q] = "absent"
    BY <1>3 DEF StartAttempt, Refuse, Finish, FinishAll, NotFinished, TypeOK
  <2>5. router[r] \notin {"none", "admitting", "enqueue"}
    BY <2>1 DEF DeliveriesCounted
  <2>6. \A q \in Runs : q # r => deliveries'[q] = deliveries[q] /\ epoch'[q] = epoch[q]
    BY <2>2, <2>3 DEF TypeOK
  <2>7. epoch'[r] + deliveries'[r] <= epoch[r] + deliveries[r]
    BY <2>1, <2>2, <2>3 DEF TypeOK
  <2>8. deliveries'[r] \in Int /\ epoch'[r] \in Int /\ MaxCopies \in Int
    BY <2>1, <2>2, <2>3, AgentAssumption DEF TypeOK
  <2>9. epoch'[r] + deliveries'[r] <= MaxCopies
    BY <2>1, <2>7, <2>8 DEF DeliveriesCounted
  <2>10. QED
    BY <2>2, <2>4, <2>5, <2>6, <2>9 DEF DeliveriesCounted
<1>4. CASE /\ UNCHANGED <<epoch, deliveries>>
           /\ \A r \in Runs : /\ status'[r] = "absent" => status[r] = "absent"
                              /\ router'[r] # router[r] =>
                                   router'[r] = "done" /\ router[r] \notin {"none", "admitting"}
  BY <1>4 DEF DeliveriesCounted
<1>5. CASE ~ \E r \in Runs : \/ Admit(r) \/ CreateRun(r) \/ Rollback(r) \/ Enqueue(r)
                             \/ \E w \in Workers : StartAttempt(w, r)
  <2>1. UNCHANGED <<epoch, deliveries>>
    BY <1>5
    DEF Next, vars, rowVars, ApiStep, RecordEnqueueFailure, RouterGivesUp,
        CancelRun, CheckDeadline, DeleteThread, OpenThread, SweepAll, Recover, Tick, NextDay,
        WorkerStep, EnsureCanContinue, StartAnswerGeneration, AuthorizeRegeneration, Complete,
        MarkFailed, WorkerDies
  <2>2. \A r \in Runs : status'[r] = "absent" => status[r] = "absent"
    <3>1. Effect
      BY StepEffect
    <3>2. QED
      BY <3>1, EffectCreates
  <2>3. \/ UNCHANGED router
        \/ \E r \in Runs : /\ router[r] \in {"enqueue", "record_failure"}
                           /\ router' = [router EXCEPT ![r] = "done"]
    BY <1>5
    DEF Next, vars, rowVars, ApiStep, RecordEnqueueFailure, RouterGivesUp,
        CancelRun, CheckDeadline, DeleteThread, OpenThread, SweepAll, Recover, Tick, NextDay,
        WorkerStep, EnsureCanContinue, StartAnswerGeneration, AuthorizeRegeneration, Complete,
        MarkFailed, WorkerDies
  <2>4. \A r \in Runs : router'[r] # router[r] => /\ router'[r] = "done"
                                                /\ router[r] \notin {"none", "admitting"}
    BY <2>3 DEF TypeOK
  <2>5. QED
    BY <1>4, <2>1, <2>2, <2>4
<1>6. QED
  BY <1>1, <1>2, <1>3, <1>5

(* However often a message is redelivered, a run is attempted only as many *)
(* times as its message was handed to a worker.                            *)
THEOREM AttemptsAreDeliveries == Spec => []DeliveriesCounted
<1>1. Init => DeliveriesCounted
  BY AgentAssumption DEF Init, DeliveriesCounted
<1>2. TypeOK /\ AdmissionInv /\ DeliveriesCounted /\ [Next]_vars => DeliveriesCounted'
  BY DeliveriesStep
<1>3. QED
  BY <1>1, <1>2, AdmissionInvariant, PTL DEF Spec
=============================================================================
