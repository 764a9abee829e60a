---------------------------- MODULE MigrationTask ----------------------------
(***************************************************************************)
(* The ECS tasks that migrations run in, and the database.  A task takes   *)
(* the session advisory lock, compares what it finds with what was         *)
(* approved, and upgrades in one transaction.  When a task is stopped its  *)
(* session may live on for a while, with the lock, and a COMMIT that was   *)
(* under way may still take effect.                                        *)
(***************************************************************************)
EXTENDS SchemaLedger

VARIABLES
  db,      \* the revision of the database
  lock,    \* the task whose session has the advisory lock, or 0
  tasks    \* [Jobs -> the task of that attempt]

dbVars == <<db, lock, tasks>>

NoTask == [status |-> "none", step |-> "connect", mode |-> "verify", sha |-> 1,
           start |-> NoRevision, exit |-> 0]

(* EXIT_SUCCESS, against any other code, and none because the task was     *)
(* stopped from outside.                                                   *)
Success  == 0
Rejected == 1

TaskInit == db = HeadOf[1] /\ lock = 0 /\ tasks = [j \in Jobs |-> NoTask]

Active(j)   == tasks[j].status = "active"
ActiveTasks == {j \in Jobs : Active(j)}

RunTask(j, mode, c, start) ==
  tasks' = [tasks EXCEPT ![j] = [NoTask EXCEPT !.status = "active", !.mode = mode,
                                               !.sha = c, !.start = start]]

Exits(j, code) ==
  tasks' = [tasks EXCEPT ![j] = [NoTask EXCEPT !.status = "stopped", !.step = "closed",
                                               !.exit = code]]
Goes(j, step) == tasks' = [tasks EXCEPT ![j].step = step]

(* pg_try_advisory_lock does not wait.                                     *)
LockAlways(j) == TRUE   \* Faulty: a conflict is ignored
LockFree(j)   == lock = 0

Release(j) == lock' = IF lock = j THEN 0 ELSE lock

TakeLock(j) ==
  /\ Active(j) /\ tasks[j].step = "connect"
  /\ IF LockFree(j) THEN lock' = j /\ Goes(j, "locked")
     ELSE UNCHANGED lock /\ Exits(j, Rejected)
  /\ UNCHANGED db

(* What the session finds under its lock decides, not what was prepared.   *)
(* A change without anything pending ends with a code of its own.          *)
Verified(j) == tasks[j].mode = "verify" /\ db = HeadOf[tasks[j].sha]
Applies(j)  == /\ tasks[j].mode # "verify" /\ db < HeadOf[tasks[j].sha]
               /\ MayApply(tasks[j].mode, Pending(db, tasks[j].sha))

Compare(j) ==
  /\ Active(j) /\ tasks[j].step = "locked"
  /\ IF /\ tasks[j].start \in {NoRevision, db}
        /\ Verified(j) \/ Applies(j)
     THEN IF Verified(j) THEN Release(j) /\ Exits(j, Success)
          ELSE UNCHANGED lock /\ Goes(j, "upgrade")
     ELSE Release(j) /\ Exits(j, Rejected)
  /\ UNCHANGED db

Upgrade(j) ==
  /\ Active(j) /\ tasks[j].step = "upgrade"
  /\ db' = HeadOf[tasks[j].sha]
  /\ Goes(j, "unlock")
  /\ UNCHANGED lock

UpgradeFails(j) ==
  /\ Active(j) /\ tasks[j].step = "upgrade"
  /\ Release(j) /\ Exits(j, Rejected)
  /\ UNCHANGED db

Unlock(j) ==
  /\ Active(j) /\ tasks[j].step = "unlock"
  /\ Release(j) /\ Exits(j, Success)
  /\ UNCHANGED db

(* StopTask, the loss of the host, or a container that is out of memory.   *)
Kill(j) ==
  /\ Active(j)
  /\ IF tasks[j].step = "connect" THEN Exits(j, Rejected)
     ELSE tasks' = [tasks EXCEPT ![j].status = "stopped", ![j].exit = Rejected]
  /\ UNCHANGED <<db, lock>>

(* PostgreSQL sees that the client is gone.                                *)
SessionEnds(j) ==
  /\ ~Active(j) /\ tasks[j].step \in {"locked", "upgrade", "unlock"}
  /\ Release(j)
  /\ db' \in {db} \cup IF tasks[j].step = "upgrade" THEN {HeadOf[tasks[j].sha]} ELSE {}
  /\ Exits(j, Rejected)

RunnerStep(j) ==
  TakeLock(j) \/ Compare(j) \/ Upgrade(j) \/ UpgradeFails(j) \/ Unlock(j) \/ SessionEnds(j)
=============================================================================
