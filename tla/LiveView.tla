------------------------------ MODULE LiveView ------------------------------
(***************************************************************************)
(* A page that watches a research run: the SSE endpoint that follows the   *)
(* run's stream for it, and the page's controller, which opens an          *)
(* EventSource, folds the events into what it shows, and falls back to     *)
(* polling the run's row when the browser gives the EventSource up.        *)
(*                                                                         *)
(* Clocks are left out.  A connection may reach its maximum age, and a     *)
(* grace period may end, at any step; the capacity limits are one more     *)
(* reason to refuse a request.  wire holds the frames that are sent and    *)
(* not yet dispatched; at most one page of them is under way.              *)
(***************************************************************************)
EXTENDS RunStream

CONSTANT MaxUpsets   \* bound: dropped connections, hidden pages, resubscriptions
ASSUME UpsetsAssumption == MaxUpsets \in Nat

VARIABLES
  conn,     \* [kind, epoch, cursor, oldest]: the connection's state at the server
  wire,     \* frames on their way to the page
  source,   \* the EventSource: none, connecting, open
  lastEventId,  \* what the EventSource sends as Last-Event-ID
  page,     \* [mode, hidden, poll]: the controller
  shown,    \* the ResearchLiveState of the controller
  upsets,
  excused   \* history: what a gap in the shown draft may come from

pageVars == <<conn, wire, source, lastEventId, page, shown, upsets, excused>>
vars     == <<streamVars, pageVars>>

NoConn      == [kind |-> "none", epoch |-> 0, cursor |-> 0, oldest |-> 0]
Kinds       == {"none", "queued", "preflight", "following"}
Modes       == {"connecting", "live", "reconnecting", "polling-only", "finalizing",
                "terminal", "stopped"}
NoAnswer    == [status |-> "none", epoch |-> 0]
Waiting     == [status |-> "waiting", epoch |-> 0]    \* the timer of the next poll
Asked       == [status |-> "asked", epoch |-> 0]      \* the request is under way
NothingShown == [epoch |-> 0, gen |-> 0, draft |-> <<>>, suppressed |-> FALSE,
                 last |-> 0, terminal |-> "none"]

Init ==
  /\ RunInit
  /\ conn = NoConn /\ wire = {}
  /\ source = "connecting" /\ lastEventId = NoCursor
  /\ page = [mode |-> "connecting", hidden |-> FALSE, poll |-> NoAnswer]
  /\ shown = NothingShown
  /\ upsets = 0
  /\ excused = {}

-----------------------------------------------------------------------------
(* What the page shows: the reducer                                        *)

ResetForAttempt(s, e) == [NothingShown EXCEPT !.epoch = e, !.last = s.last]
Suppress(s)           == [s EXCEPT !.draft = <<>>, !.suppressed = TRUE]

ApplyDelta(s, x) ==
  IF x.gen < s.gen THEN s
  ELSE IF s.suppressed THEN [s EXCEPT !.gen = x.gen]
  ELSE [s EXCEPT !.gen = x.gen,
                 !.draft = (IF x.gen = s.gen THEN s.draft ELSE <<>>) \o
                           <<[epoch |-> x.epoch, gen |-> x.gen, n |-> x.n]>>]

ApplyReset(s, x) == IF x.gen <= s.gen THEN s ELSE [s EXCEPT !.gen = x.gen, !.draft = <<>>]

AcceptTerminal(s, x) ==
  [(IF x.status = "completed" THEN s ELSE Suppress(s)) EXCEPT !.terminal = x.status]

JustProcessed(s, x)    == x.id = s.last   \* Faulty: only the newest is known again
AlreadyProcessed(s, x) == x.id <= s.last

Reduce(s, x) ==
  IF s.terminal # "none" \/ AlreadyProcessed(s, x) THEN s
  ELSE LET seen    == [s EXCEPT !.last = x.id]
           current == IF x.epoch > s.epoch THEN ResetForAttempt(seen, x.epoch) ELSE seen
       IN IF x.epoch < s.epoch THEN current
          ELSE CASE x.type = "attempt.started" -> current
                 [] x.type = "answer.delta"    -> ApplyDelta(current, x)
                 [] x.type = "answer.reset"    -> ApplyReset(current, x)
                 [] x.type = "terminal"        -> AcceptTerminal(current, x)

(* What a poll tells of an unfinished run: only its attempt.               *)
MergePoll(s, e) == IF e > s.epoch THEN ResetForAttempt(s, e) ELSE s

-----------------------------------------------------------------------------
(* The controller                                                          *)

Knows   == page.mode \in {"finalizing", "terminal"}
Settled == Knows \/ page.mode = "stopped"

CloseSource == source' = "none" /\ conn' = NoConn /\ wire' = {}

(* beginFinalization and beginNonAnswerTerminal                            *)
Concluded(s, status) ==
  /\ page' = [page EXCEPT !.mode = IF status \in {"policy_blocked", "deadline_exceeded"}
                                   THEN "terminal" ELSE "finalizing",
                          !.poll = NoAnswer]
  /\ shown' = [(IF status = "completed" THEN s ELSE Suppress(s)) EXCEPT !.terminal = status]

PollNow(p) == IF p.hidden THEN NoAnswer ELSE Asked

(* degradeToPollingOnly: the browser has given the EventSource up.         *)
Degrade ==
  /\ CloseSource
  /\ page' = [page EXCEPT !.mode = "polling-only", !.poll = PollNow(page)]
  /\ shown' = Suppress(shown)

(* A 204 or an error closes an EventSource for good.                       *)
RefuseAndRetry == CloseSource /\ UNCHANGED <<page, shown, lastEventId, upsets>>   \* Faulty: no polling
Refuse == Degrade /\ UNCHANGED <<lastEventId, upsets>>

(* Frames are dispatched in order; a terminal one that is accepted ends    *)
(* the watching.                                                           *)
Dispatch ==
  /\ source = "open" /\ wire # {}
  /\ LET s == Reduce(shown, First(wire)) IN
       IF s.terminal # shown.terminal
       THEN CloseSource /\ Concluded(s, s.terminal)
       ELSE /\ wire' = wire \ {First(wire)} /\ shown' = s
            /\ UNCHANGED <<conn, source, page>>
  /\ lastEventId' = First(wire).id
  /\ UNCHANGED <<streamVars, upsets, excused>>

(* The connection has ended: the EventSource will try again with the id of *)
(* the last frame it dispatched.                                           *)
SeeEnd ==
  /\ source = "open" /\ wire = {} /\ conn = NoConn
  /\ source' = "connecting"
  /\ page' = [page EXCEPT !.mode = "reconnecting"]
  /\ UNCHANGED <<streamVars, conn, wire, lastEventId, shown, upsets, excused>>

(* The network loses the connection, with the frames that were under way.  *)
Drop ==
  /\ source = "open" /\ upsets < MaxUpsets
  /\ conn' = NoConn /\ wire' = {} /\ upsets' = upsets + 1
  /\ UNCHANGED <<streamVars, source, lastEventId, page, shown, excused>>

(* The last subscriber of the store goes and another comes: a new          *)
(* EventSource, without a Last-Event-ID, over the same state.              *)
Resubscribe ==
  /\ ~Settled /\ upsets < MaxUpsets
  /\ upsets' = upsets + 1
  /\ excused' = excused \cup {"resubscribed"}
  /\ conn' = NoConn /\ wire' = {}
  /\ IF page.mode = "polling-only"
     THEN /\ page' = [page EXCEPT !.poll = PollNow(page)]
          /\ UNCHANGED <<source, lastEventId>>
     ELSE /\ source' = "connecting" /\ lastEventId' = NoCursor
          /\ UNCHANGED page
  /\ UNCHANGED <<streamVars, shown>>

(* Only polling is tied to the visibility of the page.                     *)
Hide ==
  /\ ~page.hidden /\ ~Settled /\ upsets < MaxUpsets
  /\ page' = [page EXCEPT !.hidden = TRUE, !.poll = NoAnswer]
  /\ upsets' = upsets + 1
  /\ UNCHANGED <<streamVars, conn, wire, source, lastEventId, shown, excused>>

Show ==
  /\ page.hidden
  /\ page' = [page EXCEPT !.hidden = FALSE,
                          !.poll = IF page.mode = "polling-only" THEN Asked ELSE NoAnswer]
  /\ UNCHANGED <<streamVars, conn, wire, source, lastEventId, shown, upsets, excused>>

PollTimer ==
  /\ page.poll = Waiting
  /\ page' = [page EXCEPT !.poll = Asked]
  /\ UNCHANGED <<streamVars, conn, wire, source, lastEventId, shown, upsets, excused>>

(* GET /runs/{run_id} reads the row; its answer arrives later.             *)
PollRead ==
  /\ page.poll = Asked
  /\ page' = [page EXCEPT !.poll = run]
  /\ UNCHANGED <<streamVars, conn, wire, source, lastEventId, shown, upsets, excused>>

PollFails ==
  /\ page.poll = Asked
  /\ page' = [page EXCEPT !.poll = Waiting]
  /\ UNCHANGED <<streamVars, conn, wire, source, lastEventId, shown, upsets, excused>>

PollAnswered ==
  /\ page.poll.status \in RunStatus
  /\ CASE page.poll.status \in Finished -> Concluded(shown, page.poll.status)
       [] page.poll.status = "deleted" ->
            /\ page' = [page EXCEPT !.mode = "stopped", !.poll = NoAnswer]
            /\ shown' = Suppress(shown)
       [] page.poll.status \in {"queued", "running"} ->
            /\ page' = [page EXCEPT !.poll = Waiting]
            /\ shown' = MergePoll(shown, page.poll.epoch)
  /\ UNCHANGED <<streamVars, conn, wire, source, lastEventId, upsets, excused>>

-----------------------------------------------------------------------------
(* The endpoint                                                            *)

Opened(c, frames) ==
  /\ conn' = c /\ wire' = frames /\ source' = "open"
  /\ page' = [page EXCEPT !.mode = "live"]
  /\ UNCHANGED <<lastEventId, shown, upsets>>

(* The request reads the row.  A finished run has no stream to follow.     *)
Connect ==
  /\ source = "connecting" /\ conn = NoConn
  /\ CASE run.status \in Finished \cup {"deleted"} -> Refuse
       [] run.status = "queued" -> Opened([NoConn EXCEPT !.kind = "queued",
                                                         !.cursor = lastEventId], {})
       [] run.status = "running" ->
            /\ conn' = [kind |-> "preflight", epoch |-> run.epoch, cursor |-> lastEventId,
                        oldest |-> 0]
            /\ UNCHANGED <<wire, source, lastEventId, page, shown, upsets>>
  /\ UNCHANGED <<streamVars, excused>>

(* A limit of open connections, or Redis or the database cannot be asked.  *)
TurnedAway ==
  /\ source = "connecting" /\ conn = NoConn
  /\ Refuse
  /\ UNCHANGED <<streamVars, excused>>

(* A queued connection looks at the row again, and ends with the run.      *)
Recheck ==
  /\ conn.kind = "queued"
  /\ CASE run.status = "queued" -> UNCHANGED conn
       [] run.status = "running" ->
            conn' = [conn EXCEPT !.kind = "following", !.epoch = run.epoch]
       [] run.status \in Finished \cup {"deleted"} -> conn' = NoConn
  /\ UNCHANGED <<streamVars, wire, source, lastEventId, page, shown, upsets, excused>>

UpToTerminal(events) ==
  {x \in events : \A y \in events : y.type = "terminal" => x.id <= y.id}

(* What the connection does with a page.  Only events and an empty page    *)
(* open a response that has not begun.                                     *)
Apply(r) ==
  LET opening == conn.kind = "preflight"
      at      == [conn EXCEPT !.cursor = r.cursor, !.oldest = 0]
      closed  == IF opening THEN Refuse
                 ELSE conn' = NoConn /\ UNCHANGED <<wire, source, lastEventId, page, shown, upsets>>
      go(c, frames) ==
        IF opening THEN Opened(IF c.kind = "none" THEN c ELSE [c EXCEPT !.kind = "following"], frames)
        ELSE /\ conn' = c /\ wire' = frames
             /\ UNCHANGED <<source, lastEventId, page, shown, upsets>>
  IN CASE r.status \in {"unavailable", "cursor_trimmed"} -> closed
       [] r.status = "stream_missing" ->
            \/ closed
            \/ /\ conn' = [conn EXCEPT !.oldest = 0]
               /\ UNCHANGED <<wire, source, lastEventId, page, shown, upsets>>
       [] r.status = "attempt_advanced" ->
            /\ conn' = [at EXCEPT !.epoch = r.epoch]
            /\ UNCHANGED <<wire, source, lastEventId, page, shown, upsets>>
       [] r.status \in {"empty", "attempt_absent"} -> go(at, {})
       [] r.status = "events" ->
            LET frames == UpToTerminal(r.events)
            IN go(IF \E x \in frames : x.type = "terminal" THEN NoConn ELSE at, frames)

MayRead == conn.kind \in {"preflight", "following"} /\ wire = {}

(* A read with a cursor is two commands, the comparison with the oldest    *)
(* entry and the page.                                                     *)
CheckCursor ==
  /\ MayRead /\ conn.cursor # NoCursor /\ conn.oldest = 0
  /\ IF stream = {} THEN Apply(StreamMissing)
     ELSE IF Trimmed(conn.cursor) THEN Apply(CursorTrimmed)
     ELSE /\ conn' = [conn EXCEPT !.oldest = First(stream).id]
          /\ UNCHANGED <<wire, source, lastEventId, page, shown, upsets>>
  /\ UNCHANGED <<streamVars, excused>>

ReadPage ==
  /\ MayRead /\ (conn.cursor = NoCursor \/ conn.oldest # 0)
  /\ Apply(PageAfter(conn.cursor, conn.epoch))
  /\ excused' = IF conn.oldest \in 1..conn.cursor /\ conn.cursor < gone
                THEN excused \cup {"overtaken"} ELSE excused
  /\ UNCHANGED streamVars

ReadFails ==
  /\ MayRead
  /\ Apply(Unavailable)
  /\ UNCHANGED <<streamVars, excused>>

(* connection_max_age, queued_wait_limit, the grace of a re-pinned attempt *)
MaxAge ==
  /\ conn.kind \in {"queued", "following"}
  /\ conn' = NoConn
  /\ UNCHANGED <<streamVars, wire, source, lastEventId, page, shown, upsets, excused>>

-----------------------------------------------------------------------------
Server == Connect \/ Recheck \/ CheckCursor \/ ReadPage
Page   == Dispatch \/ SeeEnd \/ Show \/ PollTimer \/ PollAnswered
Upset  == Drop \/ Resubscribe \/ Hide \/ PollFails \/ TurnedAway \/ ReadFails

(* The run is followed until the page has concluded, and its stream as     *)
(* long as the page has an EventSource.                                    *)
Next ==
  \/ ~Settled /\ RowNext /\ UNCHANGED pageVars
  \/ source # "none" /\ StreamNext /\ UNCHANGED pageVars
  \/ Server \/ MaxAge \/ Page \/ PollRead \/ Upset

Spec == Init /\ [][Next]_vars

(* The endpoint and the browser go on, a connection does reach its maximum *)
(* age, a page comes into view again, and one poll in the end is answered. *)
FairSpec ==
  /\ Spec
  /\ WF_vars(Server) /\ WF_vars(Page)
  /\ WF_vars(MaxAge) /\ SF_vars(PollRead)

-----------------------------------------------------------------------------
(* Properties                                                              *)

TypeOK ==
  /\ run \in [status : RunStatus, epoch : 0..MaxEpoch]
  /\ worker \in [Epochs -> [on : BOOLEAN, confirmed : BOOLEAN, gen : 1..MaxGen, n : 0..MaxChunk]]
  /\ notice \in [epoch : 0..MaxEpoch, status : RunStatus, confirmed : BOOLEAN]
  /\ log \in Seq(Entries) /\ gone \in 0..Len(log) /\ losses \in 0..MaxLosses
  /\ conn \in [kind : Kinds, epoch : 0..MaxEpoch, cursor : 0..MaxId, oldest : 0..MaxId]
  /\ wire \subseteq Entries /\ Cardinality(wire) <= PageSize
  /\ source \in {"none", "connecting", "open"} /\ lastEventId \in 0..MaxId
  /\ page.mode \in Modes /\ page.hidden \in BOOLEAN
  /\ page.poll.status \in RunStatus \cup {"none", "waiting", "asked"}
  /\ shown.draft \in Seq(Chunks) /\ shown.terminal \in Finished \cup {"none"}
  /\ upsets \in 0..MaxUpsets

(* The draft on the page is text of one answer generation of the attempt   *)
(* it shows, each chunk once and in order, whatever was sent again, cut    *)
(* off, replayed from the start or written by a superseded worker.         *)
DraftIsOneAnswer ==
  \A i \in 1..Len(shown.draft) :
    /\ shown.draft[i].epoch = shown.epoch /\ shown.draft[i].gen = shown.gen
    /\ i > 1 => shown.draft[i - 1].n < shown.draft[i].n

Missing(c, d) ==
  {x \in {log[i] : i \in 1..Len(log)} :
     /\ x.type = "answer.delta" /\ x.epoch = c.epoch /\ x.gen = c.gen
     /\ c.n < x.n /\ x.n < d.n}

DraftHasNoGap ==
  \A i \in 2..Len(shown.draft) : Missing(shown.draft[i - 1], shown.draft[i]) = {}

(* A page that comes back with the cursor of what it has seen never goes   *)
(* on with a draft from which stored text is missing: a cursor older than  *)
(* the oldest entry is turned into polling.                                *)
ResumedDraftIsWhole == excused = {} => DraftHasNoGap

(* The same, of every read: that a cursor which was trimmed does not       *)
(* continue an incomplete draft is what the transport's specification      *)
(* promises.                                                               *)
TrimmedCursorStopsDraft == "resubscribed" \notin excused => DraftHasNoGap

(* The end the page shows is the end the row records, although notices are *)
(* sent after the commit, by several processes, and polls answer late.     *)
TerminalIsTheRunsEnd ==
  shown.terminal # "none" => run.status \in {shown.terminal, "deleted"}

(* What the endpoint's cursor has passed and the page has not been sent is *)
(* of attempts older than the one the endpoint follows: a page, a new      *)
(* attempt or a cut never makes it skip an event it could have sent.       *)
NothingSkipped ==
  conn.kind = "following" =>
    \A i \in gone + 1 .. conn.cursor :
      log[i].epoch >= conn.epoch =>
        i <= shown.last \/ log[i] \in wire

(* Whatever becomes of the terminal notice, of the stream and of the       *)
(* connections, a page that stays open learns that the run has ended.      *)
EndIsLearnt == run.status \in Finished \cup {"deleted"} ~> Settled
=============================================================================
