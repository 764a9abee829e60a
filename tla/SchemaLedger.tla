---------------------------- MODULE SchemaLedger ----------------------------
(***************************************************************************)
(* The record of what schema production has: one GitHub deployment per     *)
(* migration attempt, with in_progress and then success or failure as its  *)
(* statuses, and what a migration may be prepared for, given that record   *)
(* and the history of main.                                                *)
(*                                                                         *)
(* Commits of main and revisions of the schema are numbered in their       *)
(* order.  A revision file is not edited once it is on main, so the head   *)
(* of a commit stands for its migration tree, too.                         *)
(***************************************************************************)
EXTENDS Naturals, Sequences, SequencesExt

CONSTANTS
  HeadOf,      \* HeadOf[c]: the schema revision at the head of commit c
  KindOf,      \* KindOf[v]: what revision v declares and contains, expand or contract
  Runtime,   \* commits that change more than a contract may bring along
  MaxJobs    \* bound: dispatched workflow runs

Commits   == 1..Len(HeadOf)
Revisions == 1..Len(KindOf)
Jobs      == 1..MaxJobs
Modes     == {"expand", "contract", "verify"}

ASSUME LedgerAssumption ==
  /\ Len(HeadOf) > 0 /\ HeadOf \in Seq(Revisions) /\ KindOf \in Seq({"expand", "contract"})
  /\ \A c, d \in Commits : c <= d => HeadOf[c] <= HeadOf[d]
  /\ Runtime \subseteq Commits /\ MaxJobs \in Nat

VARIABLES
  main,      \* the newest commit of main
  ledger     \* the deployments of production, oldest first

Statuses    == {"none", "in_progress", "success", "failure"}
Deployments == [job : 0..MaxJobs, sha : Commits, status : Statuses]

(* No attempt recorded yet, or one that verified the first schema.         *)
Recorded(j, c) == [job |-> j, sha |-> c, status |-> "none"]
LedgerInit ==
  /\ main = 1
  /\ ledger \in {<<>>, <<[Recorded(0, 1) EXCEPT !.status = "success"]>>}

-----------------------------------------------------------------------------
(* Reading                                                                 *)

Latest    == Last(ledger)
Available == ledger # <<>> /\ Latest.status = "success"

(* The ids of the latest deployment and of its latest status; a status is  *)
(* written at most once.                                                   *)
Baseline  == IF ledger = <<>> THEN <<0, "none">> ELSE <<Len(ledger), Latest.status>>

NoRevision == 0
TargetRevision == IF Available THEN HeadOf[Latest.sha] ELSE NoRevision

AllowsRollout(c) == Available /\ TargetRevision = HeadOf[c]

-----------------------------------------------------------------------------
(* Writing.  Every POST may be lost, or take effect without an answer.     *)

Outcomes == {"confirmed", "unknown", "lost"}

Post(outcome, deployments) ==
  ledger' = IF outcome = "lost" THEN ledger ELSE deployments

CreateDeployment(j, c, outcome) == Post(outcome, Append(ledger, Recorded(j, c)))

(* An attempt writes to its own deployment, whichever is the latest.       *)
WriteStatus(j, status, outcome) ==
  Post(outcome, [i \in 1..Len(ledger) |->
    IF ledger[i].job = j THEN [ledger[i] EXCEPT !.status = status] ELSE ledger[i]])

(* begin refuses when anything was recorded since the preparation, or when *)
(* a change would not start from the recorded target.                      *)
MayBegin(baseline, mode, start) ==
  /\ Baseline = baseline
  /\ mode # "verify" => Available /\ start = TargetRevision

-----------------------------------------------------------------------------
(* Preparing                                                               *)

Pending(start, c) == IF start = NoRevision THEN {} ELSE start + 1 .. HeadOf[c]
KindsOf(revisions) == {KindOf[v] : v \in revisions}

(* An expand, or a contract, applies a range of its own kind only.  A      *)
(* contract comes alone, directly after the schema that is recorded.       *)
MayApply(mode, revisions) == KindsOf(revisions) = {mode}

ContractComesAlone(c) == c > 1 /\ c \notin Runtime /\ AllowsRollout(c - 1)

(* The preparation of a run that goes on to be approved; a range without   *)
(* changes and a refused one end here.                                     *)
MayPrepare(c, mode) ==
  LET start   == TargetRevision
      pending == Pending(start, c)
  IN /\ c <= main /\ start <= HeadOf[c]
     /\ mode = "verify" => pending = {}
     /\ mode # "verify" => Available /\ MayApply(mode, pending)
     /\ mode = "contract" => ContractComesAlone(c)
=============================================================================
