------------------------------ MODULE RunStream ------------------------------
(***************************************************************************)
(* The live stream of one research run: a Redis stream to which every      *)
(* attempt of the run, superseded ones included, appends what its reader   *)
(* may see, and to which whoever ended the run appends a terminal notice.  *)
(*                                                                         *)
(* The run's row is what AgentRun models in full; here it is its status    *)
(* and attempt_epoch.  Text is a numbered chunk of one answer generation   *)
(* of one attempt, stage and activity events are left out: to a reader     *)
(* they are attempt.started markers with a label.                          *)
(***************************************************************************)
EXTENDS Naturals, Sequences, FiniteSets

CONSTANTS
  MaxLen,      \* AGENT_RUN_LIVE_STREAM_MAXLEN
  MaxEpoch,    \* bound: attempts of the run
  MaxGen,      \* _MAX_ATTEMPTS: answer generations of an attempt
  MaxChunk,    \* bound: chunks of a generation
  MaxId,       \* bound: entries ever appended
  MaxLosses,   \* bound: failed publishes, losses of the key or the thread
  Endings      \* the ends of the run that are told apart

ASSUME RunStreamAssumption ==
  /\ MaxLen \in Nat \ {0} /\ MaxEpoch \in Nat \ {0} /\ MaxGen \in Nat \ {0}
  /\ MaxChunk \in Nat \ {0} /\ MaxId \in Nat /\ MaxLosses \in Nat
  /\ Endings \subseteq {"completed", "policy_blocked", "deadline_exceeded", "failed"}

VARIABLES
  run,       \* [status, epoch]: the row of the run
  worker,    \* [Epochs -> [on, confirmed, gen, n]]: the publisher of an attempt
  notice,    \* the terminal event still to be published, or NoNotice
  log,       \* every entry ever appended, an entry's id is its place
  gone,      \* how many of them Redis no longer holds
  losses     \* failed publishes, lost keys and threads so far

streamVars == <<run, worker, notice, log, gone, losses>>

Epochs    == 1..MaxEpoch
Finished  == {"completed", "policy_blocked", "deadline_exceeded", "failed"}
RunStatus == {"queued", "running", "deleted"} \cup Finished
Chunks    == [epoch : Epochs, gen : 1..MaxGen, n : 1..MaxChunk]
Idle      == [on |-> FALSE, confirmed |-> FALSE, gen |-> 1, n |-> 0]
NoNotice  == [epoch |-> 0, status |-> "queued", confirmed |-> FALSE]

Event(e, type, gen, n, status) ==
  [epoch |-> e, type |-> type, gen |-> gen, n |-> n, status |-> status]
Started(e)           == Event(e, "attempt.started", 0, 0, "running")
Delta(e, gen, n)     == Event(e, "answer.delta", gen, n, "running")
Reset(e, gen)        == Event(e, "answer.reset", gen, 0, "running")
TerminalEvent(e, st) == Event(e, "terminal", 0, 0, st)

EventTypes == {"attempt.started", "answer.delta", "answer.reset", "terminal"}
Entries    == [id : 1..MaxId, epoch : Epochs, type : EventTypes, gen : 0..MaxGen,
               n : 0..MaxChunk, status : RunStatus]

RunInit ==
  /\ run = [status |-> "queued", epoch |-> 0]
  /\ worker = [e \in Epochs |-> Idle]
  /\ notice = NoNotice
  /\ log = <<>>
  /\ gone = 0
  /\ losses = 0

-----------------------------------------------------------------------------
(* Publishing                                                              *)

(* The entries Redis holds; the key is there iff there are any.            *)
Held   == gone + 1 .. Len(log)
stream == {log[i] : i \in Held}

Entry(ev, i) == [id |-> Len(log) + i, epoch |-> ev.epoch, type |-> ev.type,
                 gen |-> ev.gen, n |-> ev.n, status |-> ev.status]

(* XADD MAXLEN = 4096, exact, in one MULTI with the marker: the oldest     *)
(* entries make room.                                                      *)
Overflow(len) == IF len - gone > MaxLen THEN len - MaxLen ELSE gone

AppendEvents(evs) ==
  /\ Len(log) + Len(evs) <= MaxId
  /\ log' = log \o [i \in 1..Len(evs) |-> Entry(evs[i], i)]
  /\ gone' = Overflow(Len(log) + Len(evs))

(* publish: the marker goes along until a publish of this publisher is     *)
(* confirmed.                                                              *)
WithMarker(confirmed, ev) == IF confirmed THEN <<ev>> ELSE <<Started(ev.epoch), ev>>

(* An append that times out may have been applied all the same.            *)
Outcomes == {"confirmed", "unknown", "lost"}
Publish(evs, outcome) ==
  /\ outcome # "confirmed" => losses < MaxLosses
  /\ losses' = IF outcome = "confirmed" THEN losses ELSE losses + 1
  /\ IF outcome = "lost" THEN UNCHANGED <<log, gone>> ELSE AppendEvents(evs)

Confirm(e, outcome) == worker[e].confirmed \/ outcome = "confirmed"

(* A start of the run, also one that supersedes an attempt whose worker is *)
(* still at work, and the marker of the new attempt.                       *)
BeginAttempt(outcome) ==
  /\ run.status \in {"queued", "running"} /\ run.epoch < MaxEpoch
  /\ LET e == run.epoch + 1 IN
       /\ run' = [status |-> "running", epoch |-> e]
       /\ Publish(<<Started(e)>>, outcome)
       /\ worker' = [worker EXCEPT ![e] = [Idle EXCEPT !.on = TRUE,
                                                       !.confirmed = (outcome = "confirmed")]]
  /\ UNCHANGED notice

(* An attempt that was superseded or whose run has ended goes on until it  *)
(* asks for the row; one that dies just stops publishing.                  *)
PublishDelta(e, outcome) ==
  /\ worker[e].on /\ worker[e].n < MaxChunk
  /\ LET n == worker[e].n + 1 IN
       /\ Publish(WithMarker(worker[e].confirmed, Delta(e, worker[e].gen, n)), outcome)
       /\ worker' = [worker EXCEPT ![e].n = n, ![e].confirmed = Confirm(e, outcome)]
  /\ UNCHANGED <<run, notice>>

(* authorize_answer_regeneration asks for the row first: a superseded      *)
(* attempt stops here.                                                     *)
MayRegenerate(e) == worker[e].on /\ run = [status |-> "running", epoch |-> e]

(* _start_revision of an evidence answer announces the next generation,    *)
(* the retry of a direct answer, after a blank one, does not.              *)
ResetAnswer(e, outcome) ==
  /\ MayRegenerate(e) /\ worker[e].gen < MaxGen
  /\ LET gen == worker[e].gen + 1 IN
       /\ Publish(WithMarker(worker[e].confirmed, Reset(e, gen)), outcome)
       /\ worker' = [worker EXCEPT ![e].gen = gen, ![e].n = 0,
                                   ![e].confirmed = Confirm(e, outcome)]
  /\ UNCHANGED <<run, notice>>

RetryDirectAnswer(e) ==
  /\ MayRegenerate(e) /\ worker[e].gen < MaxGen
  /\ worker' = [worker EXCEPT ![e].gen = @ + 1, ![e].n = 0]
  /\ UNCHANGED <<run, notice, log, gone, losses>>

(* The run ends: by the worker of its current attempt, whose publisher     *)
(* then sends the notice, or by a cancel, a late start, a deadline check   *)
(* or the opening of its thread, which use a publisher of their own.  A    *)
(* run that never started has no stream to be told.                        *)
EndsBeforeCommit(status, confirmed) ==   \* Faulty: a rejected write is announced too
  /\ run' = run
  /\ notice' = [epoch |-> run.epoch, status |-> status, confirmed |-> confirmed]

Ends(status, confirmed) ==
  /\ run' = [run EXCEPT !.status = status]
  /\ notice' = IF run.status = "running"
               THEN [epoch |-> run.epoch, status |-> status, confirmed |-> confirmed]
               ELSE NoNotice

FinishByWorker(status) ==
  /\ run.status = "running" /\ worker[run.epoch].on
  /\ Ends(status, worker[run.epoch].confirmed)
  /\ worker' = [worker EXCEPT ![run.epoch].on = FALSE]
  /\ UNCHANGED <<log, gone, losses>>

FinishElsewhere(status) ==
  /\ run.status \in {"queued", "running"}
  /\ Ends(status, FALSE)
  /\ UNCHANGED <<worker, log, gone, losses>>

(* The commit is done, the notice follows, unless the process dies.        *)
NotifyFinished(outcome) ==
  /\ notice # NoNotice
  /\ Publish(WithMarker(notice.confirmed, TerminalEvent(notice.epoch, notice.status)), outcome)
  /\ notice' = NoNotice
  /\ UNCHANGED <<run, worker>>

NoticeLost ==
  /\ notice # NoNotice /\ losses < MaxLosses
  /\ notice' = NoNotice /\ losses' = losses + 1
  /\ UNCHANGED <<run, worker, log, gone>>

(* The thread goes, and its runs with it; no one is told.                  *)
DeleteThread ==
  /\ run.status # "deleted" /\ losses < MaxLosses
  /\ run' = [run EXCEPT !.status = "deleted"] /\ losses' = losses + 1
  /\ UNCHANGED <<worker, notice, log, gone>>

(* The key expires, is evicted or goes with a restart of Redis.            *)
LoseStream ==
  /\ Held # {} /\ losses < MaxLosses
  /\ gone' = Len(log) /\ losses' = losses + 1
  /\ UNCHANGED <<run, worker, notice, log>>

Work(e, outcome) == PublishDelta(e, outcome) \/ ResetAnswer(e, outcome)

(* What happens to the row, and what only the readers of the stream see.   *)
RowNext ==
  \/ \E outcome \in Outcomes : BeginAttempt(outcome)
  \/ \E status \in Endings : FinishByWorker(status)
  \/ \E status \in Endings \ {"completed", "policy_blocked"} : FinishElsewhere(status)
  \/ DeleteThread
StreamNext ==
  \/ \E e \in Epochs, outcome \in Outcomes : Work(e, outcome)
  \/ \E e \in Epochs : RetryDirectAnswer(e)
  \/ \E outcome \in Outcomes : NotifyFinished(outcome)
  \/ NoticeLost \/ LoseStream

-----------------------------------------------------------------------------
(* Reading                                                                 *)

CONSTANT PageSize   \* AGENT_RUN_LIVE_STREAM_PAGE_SIZE
ASSUME PageAssumption == PageSize \in Nat \ {0}

NoCursor == 0
After(cursor) == {x \in stream : x.id > cursor}

(* Entries are read in the order of their ids.                             *)
First(entries)          == CHOOSE x \in entries : \A y \in entries : x.id <= y.id
Oldest(entries, n)      == {x \in entries : Cardinality({y \in entries : y.id < x.id}) < n}
LastId(entries, cursor) == IF entries = {} THEN cursor
                           ELSE CHOOSE i \in {x.id : x \in entries} :
                                  \A x \in entries : x.id <= i

Read(status, events, cursor, epoch) ==
  [status |-> status, events |-> events, cursor |-> cursor, epoch |-> epoch]
Unavailable   == Read("unavailable", {}, NoCursor, 0)
CursorTrimmed == Read("cursor_trimmed", {}, NoCursor, 0)
StreamMissing == Read("stream_missing", {}, NoCursor, 0)
Empty(cursor) == Read("empty", {}, cursor, 0)

(* _entries_result: entries of superseded attempts are passed over, an     *)
(* entry of a newer attempt is left unread, and a page ends when full.     *)
Newer(raw, e)    == {x \in raw : x.epoch > e}
Readable(raw, e) == {x \in raw : \A y \in Newer(raw, e) : x.id < y.id}
Events(raw, e)   == {x \in Readable(raw, e) : x.epoch = e}

(* Faulty: all the events that were fetched are returned.                  *)
EntriesResultUnpaged(raw, e, cursor) ==
  Read(IF Events(raw, e) # {} THEN "events" ELSE "attempt_absent",
       Events(raw, e), LastId(raw, cursor), 0)

(* Faulty: the entry that shows the newer attempt counts as consumed.      *)
EntriesResultPastBoundary(raw, e, cursor) ==
  IF Events(raw, e) # {}
  THEN Read("events", Oldest(Events(raw, e), 1), First(Events(raw, e)).id, 0)
  ELSE IF Newer(raw, e) # {}
       THEN Read("attempt_advanced", {}, First(Newer(raw, e)).id, First(Newer(raw, e)).epoch)
       ELSE Read("attempt_absent", {}, LastId(raw, cursor), 0)

EntriesResult(raw, e, cursor) ==
  LET events == Events(raw, e)
      page   == Oldest(events, PageSize)
  IN IF events # {}
     THEN Read("events", page,
               LastId(IF Cardinality(events) < PageSize THEN Readable(raw, e) ELSE page, cursor), 0)
     ELSE IF Newer(raw, e) # {}
          THEN Read("attempt_advanced", {}, LastId(Readable(raw, e), cursor),
                    First(Newer(raw, e)).epoch)
          ELSE Read("attempt_absent", {}, LastId(raw, cursor), 0)

(* Faulty: only a missing key counts.                                      *)
TrimmedAway(cursor) == stream = {}

(* The first command of a read with a cursor compares it with the oldest   *)
(* entry.                                                                  *)
Trimmed(cursor) == stream # {} /\ cursor < First(stream).id

(* The page: XRANGE of the whole stream, or XREAD of PageSize entries.     *)
PageAfter(cursor, e) ==
  LET raw == IF cursor = NoCursor THEN stream ELSE Oldest(After(cursor), PageSize)
  IN IF raw # {} THEN EntriesResult(raw, e, cursor)
     ELSE IF cursor = NoCursor THEN StreamMissing ELSE Empty(cursor)
=============================================================================
