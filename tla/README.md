# Vector: a verification development in TLA+

Vector collects news, completes and analyses articles, and answers research
questions about them. Everything below is translated from the Python code in
`backend/app` and `backend/scripts`, the page's TypeScript, the deployment
scripts and workflows, the migrations and the Terraform settings; comments and
specs of the repository are quoted only where they say something the code does
not do.

## 1. Inventory

| Part | State it keeps | Operations | What is hard |
| --- | --- | --- | --- |
| Outbox relay (`outbox/relay`) | `outbox_events`: attempts, lease token and expiry, next attempt, published / stopped | stop at limit, lease, build, send a batch, record each result | crash between send and record, unknown send outcome, a run that outlives its lease |
| Research runs (`agent/running`, `agent/run_execution.py`, `agent/router.py`) | `agent_runs`, threads, queue messages | create, enqueue, start attempt, check, start answer, complete, fail, cancel, delete, sweep | stale attempts, duplicate deliveries, cancel against complete, deadlines |
| Daily quota (`agent/running/daily_quota`) | `agent_user_daily_quotas.used_count` | reserve, release one, release a group | double release, release to another day |
| Article acquisition (`collection/article_acquisition`) | `analyzable_articles`, `incomplete_articles`, outbox | store a feed in one transaction | statement-level races with other transactions |
| Article completion (`collection/article_completion`, `lambda_handlers/completion`) | the same tables, SQS batches | load, check conflict, fetch, commit, close, answer the batch | close against commit, partial responses, commits of unknown outcome |
| Article analysis (`analysis/*`, revision z33) | curations, noises, analysed, out-of-scope articles, embeddings, outbox | load, ask the model, lock, check the opposite, insert, commit | opposite verdicts at once, duplicate events |
| Live updates (`agent/live_updates`, `agent/running/finish_notice.py`) | Redis stream of a run, one connection per page | publish with marker, terminal notice after the commit, read after a cursor, follow an attempt | superseded writers, trimming between two commands, lost notices |
| Live page (`frontend/src/features/research/live`) | the draft, the mode of the controller, an EventSource | reduce an event, reconnect, resubscribe, degrade to polling, finish | replayed and reordered events, an EventSource that has given up |
| Schema migrations (`.github/scripts/migration_*.py`, `backend/scripts/migration_*.py`) | GitHub deployments as a ledger, an ECS task, the session advisory lock, the database | prepare, begin, start a task, wait, record, clean up; lock, compare, upgrade | lost answers, interrupts, a COMMIT that outlives its task, approvals that wait |
| Application rollout (`check_app_release.py`, `verify_ecs_rollout.py`, `rollout_lambda_images.py`) | the commits services were told to run and run | check, update a stage, verify it | main or the schema moves on, a stage fails half-way |
| Source dispatch (`collection/article_acquisition/acquisition_dispatch.py`) | none but the queue | select, send, resend | partial send, double schedule |
| Redelivery waits (`lambda_handlers/completion/redelivery_wait.py`) | SQS visibility | change visibility before the deadline | running out of time |
| Task broker (`redis`, `queue`) | Redis consumer group | listen, reclaim, acknowledge, cron | reclaim of a live task |
| Evidence, planning, answering (`agent/*`) | none beyond an attempt | model and search calls | parallel failures |
| Insights, API, admin, watchlist, logging, infrastructure scripts | see `PROJECT.json` | | |

How they interact. Acquisition and completion write an article and its event in
one transaction; the relay carries events to SQS; each analysis stage takes one
message, writes its result with the event of the next stage, and so on down to
the embedding. The research agent is a second system: the API admits a run and
enqueues it after the commit, workers execute attempts, and a cron sweep ends
what nobody ended. What an attempt writes is shown to the reader through a Redis
stream and a connection that may each fail at any time; the row of the run is
the only authority. All hand-overs are at least once, so correctness rests on
the conditions of database updates; those conditions are what the modules are
about. A third system changes production itself: migrations and rollouts, run
by hand from workflows that share one concurrency group, meet in the ledger, the
advisory lock and the head of main.

Correctness, in one sentence per part. *Relay*: no event is lost, published
without a copy, or copied after it is settled. *Runs*: one outcome, one answer of
the last attempt, every run ends. *Quota*: the counter is the number of runs it
stands for. *Intake*: an article is stored and announced once and no row is left
without a message. *Analysis*: one verdict per stage, one announcement each.
*Live*: a page shows one answer in order and learns how the run ended.
*Migrations*: what the ledger says is so. *Rollouts*: services move forward only,
stage by stage, on a schema that is there.

The hazards, each with its source line and the properties that cover it, are in
`PROJECT.json`.

## 2. Modules

| Module | Models | Abstraction it implements |
| --- | --- | --- |
| `OutboxRelay` | one event type's rows and concurrent relay runs | `OutboxDelivery` |
| `AgentRun` | runs, threads, quota, router, queue, workers, deadlines | `ResearchRun` |
| `ArticleIntake` | acquisition transactions, completion batches and workers | |
| `ArticleAnalysis` | curation, assessment, embedding and their messages | `ArticleFunnel` |
| `RunStream` | the stream of one run: publishers, notice, reading | |
| `LiveView` | extends `RunStream` by the connection, the browser and the page | |
| `SchemaLedger` | the ledger, and what may be prepared, begun and rolled out | |
| `MigrationTask` | extends it by ECS tasks, the advisory lock, the database | |
| `ProductionChange` | extends that by the workflow runs, migrations and rollouts | |
| `MC...` | values of the constants for TLC, symmetry | |
| `...Proofs` | theorems checked by TLAPS | |

Operators marked *Faulty* are mutated forms of the definition that follows them;
no specification uses them. They show that each property can be broken by a
plausible slip in the code (the pairing is in `PROJECT.json`).

### OutboxRelay

Every transaction of `relay.py` is one action, so a run can end between any two
of them (`AbortRun`, or `Tick` when the Lambda timeout is reached). Clocks are
countdowns: `lease_left`, `wait_left` and `life` are the ticks to `leased_until`,
`next_attempt_at` and the Lambda timeout. A lease token is a random UUID that is
only compared with tokens of its row; the ordinal of the lease stands for it.
`SendBatch` separates what SQS took (`copies`) from what the run believes:
an unverifiable response, a timeout or a body mismatch says nothing about the
copy. `FOR UPDATE SKIP LOCKED` makes the two selecting transactions of
different runs work on disjoint rows, so they are serialised; a row skipped
because it is locked is one that another action selects first. A batch too big
for `OutgoingSqsMessageBatch` raises and is an `AbortRun`. Terraform sets a
concurrency of one; two relays are modelled because the code, not the
configuration, is supposed to be safe.

### AgentRun

Every method of `AgentRunStateRepository` locks its row and decides on
`RunState`, so each is an action; refusals past the deadline also finish the run
(`Refuse`), as `_stop_if_rejected` does. `accept_left` counts down to
`deadline_at` (60 s) and `answer_left` to the end of the recovery window of a
started answer (45 s). The queue is `deliveries`: how often a message will still
be handed out, chosen between 0 and `MaxCopies` when it is enqueued, 0 only if
enqueueing reported a failure. Losing a delivery is a delivery that never
happens, since nothing forces `StartAttempt`. Rows of a deleted thread keep
their last values and are guarded by `Exists`. A queued run that is deleted
with its thread keeps its quota place, which is what the cascade does.
An admission is not one action: `Admit` takes the lock of the thread's row and looks
for an active run, and `CreateRun` reserves the quota, inserts the run and commits;
cancels, sweeps, day changes, and admissions and deletions of other threads come in
between, and `Rollback` is any failure of the transaction. The quota's row stays locked
from its UPDATE to the commit, so the statements from there on are one action. Who needs
the thread's row waits for the lock (`ThreadIsFree`); without it `OneActiveRun` fails.

### ArticleIntake

An acquisition is one long READ COMMITTED transaction, so its statements are
separate actions, its inserts stay invisible until the commit, and an insert of
a key that another open transaction inserted waits. A completion worker's
transactions hold their row lock to the commit and are one action each. The
batch is explicit: what the partial response does not list is deleted; a crash
acknowledges nothing. Every commit may take effect and still be reported as
failed. Visibility waits are abstracted (they only move the time of a
redelivery), unreadable messages are always redelivered and touch no row, and
the legacy status `running` is created by no code.

### ArticleAnalysis

The three stages share one shape. The trigger of revision z33 locks the parent
row `FOR NO KEY UPDATE`, then looks into the opposite table; `ON CONFLICT DO
NOTHING` guards the table itself; the embedding locks its own row `FOR UPDATE`
and writes only a NULL column. These statements are separate actions, because
the race they exclude lies between them. A failure classified as final removes
the message without a result (`rejected` remembers which).

### RunStream and LiveView

The stream is kept as `log`, everything ever appended, and `gone`, how much of
it Redis no longer holds: an entry's id is its place in `log`, so properties can
speak of what was trimmed. A superseded attempt stays `on` and goes on
publishing until it next asks for the row; a publish may fail, or be applied and
reported as failed, and then its `attempt.started` marker is sent again. The
terminal notice is a step of its own, after the commit, and can be lost with its
process. The run's row is the small part of `AgentRun` that readers see.

At the server, `conn` is the connection (`queued` until an attempt starts,
`preflight` until the first page allows a response, `following` then), with its
cursor and the attempt it is pinned to; a read with a cursor is the two commands
of `stream.py`, `CheckCursor` and `ReadPage`. At the page, `Reduce` is the
reducer, `page.mode` the controller's mode, `source` the EventSource. Stage and
activity events behave as markers with a label and are left out; text is chunks
numbered within one generation. Fetched entries and frames under way are sets, since
their ids order them. `excused` is a history variable: it records that
the page was subscribed again over an existing draft, or that a trim overtook a
read, the two causes that a gap in the draft may have.

### SchemaLedger, MigrationTask and ProductionChange

Commits and revisions are numbers in their order; `HeadOf` gives the revision a
commit has, `KindOf` whether a revision expands or contracts. A deployment is
`[job, sha, status]`, and every POST is confirmed, applied without an answer, or
lost. `begin` compares the baseline and creates the deployment in two calls, and
`finish` confirms the `in_progress` and writes the outcome in two calls; so are the
steps (`Begin` and `Create`, `ConfirmAttempt` or `Conclude` and the write after it), and
a status goes to the attempt's own deployment even if it is no longer the latest one.
Nothing but the group keeps other runs out between them. `Compare` is the decision of the runner under its lock, from the revision
it finds there; `Kill` leaves the session, with its lock, behind, and `SessionEnds`
ends it, with a COMMIT that was under way taking effect or not. A job's state has
what the controller knows: `started` (in memory or saved to the attempt file),
`requested`, `state` (written to the state file, or known as well), `completing`. An
interrupt may come at any step of the controller, and then `failed`, `stop` and
`conclude` are its own clean-up; after it, or after a death, `cleanup` is the
workflow's second one, which has the two files and the list of tasks to go by. A
rollout checks the release before each stage, updates the stage's services one by
one, and verifies that they run it.

Taken for granted, because it lies outside these files: the controller of a job
that has ended or was lost is really dead; RunTask takes effect before the call
ends or never (the list of tasks may lag behind it only in the clean-up of the
same job); migrations are only applied by this workflow; one upgrade is one
transaction; a revision file is not edited once it is on main; ECS does not roll
a service back by itself; the concurrency group is exclusive. Evidence about images,
required checks, registering task definitions and other refusals and AWS failures are
the model's `Interrupt`, a refusal, or `RolloutFails`.

## 3. Runs

| Run | Question | Bounds and why they are enough |
| --- | --- | --- |
| `outbox_overrun` | What survives when a run outlives its lease? | 3 events (1 unsendable), 2 relays, 2 attempts, lease 1, timeout 2: a lease can pass to the other run while the first still records, batches have two members, and the last attempt is reached |
| `outbox_production` | What does lease >= timeout buy? Refinement and liveness | 2 events, 2 relays, 2 attempts, lease = timeout = 2; one row per reaper pass, so that a second pass is needed |
| `agent_attempts` | Races around one answer, and do they implement `ResearchRun`? | 2 successive runs of a thread, 2 workers, up to 2 deliveries each, windows of 2 ticks |
| `agent_quota` | Is the counter exact? | 3 runs, 2 threads, limit 2, 2 days, so the limit, the group release and the wrong day occur |
| `intake_races` | Do store, rows and messages agree? | 2 URLs, 2 ids, 2 acquisitions, 2 workers, batches of 2, 2 receives |
| `intake_progress` | Is every row settled or dead-lettered? | 1 row, 2 copies of its message, 2 acquisitions, 2 workers |
| `intake_pending_duplicate` | Does the documented cross-table guarantee hold? | violated with 1 URL, 1 acquisition |
| `analysis_races` | One verdict, announced once, and progress | 1 article, 2 workers, 3 receives of each message |
| `live_draft` | Is the draft one answer, in order, and whole? | a stream of 2 entries of at most 5, 2 attempts with 2 generations of up to 3 chunks, pages of 2, 1 lost publish, 1 upset of the connection or the page |
| `live_end` | Does the page learn the run's end, and only that? | 2 attempts, 4 entries, 2 losses (of a publish, the notice, the key or the thread), 1 upset, both an answered and an unanswered end |
| `live_cursor_race` | Is a trimmed cursor always noticed, as specified? | violated, with the bounds of `live_draft` |
| `production_change` | Do ledger, database and services agree? | 3 workflow runs, 3 commits of which the last is a contract, 3 stages (the first is empty), 1 fault among lost calls, interrupts and deaths |

Rows of different URLs and articles meet only in a batch or in an acquisition
transaction, hence one or two are enough; two actors are enough because every
guard compares one actor with one row, whose last writer is one other actor.
A stream of two entries is cut by the third one, between the two commands of a read
as well, and five entries are enough for two attempts or two generations with a marker or
a reset and the chunks on both sides of a cut. Three workflow runs are one that is at work, one that waits
behind it with an old preparation, and a third that meets what both left behind. With
one fault a task that is killed under its lock, or an answer that is lost, is followed
by two more runs; that more faults change nothing is proved (see below). The database
starts at revision 1, the expand, so what the run applies is the contract. An expand is
prepared under other conditions and then takes the same steps; a history in which an
expand is pending before the contract (commits `<<1, 1, 2, 3>>` with revisions expand,
expand, contract and `Runtime` `{1, 2, 3}`) was checked once without error, but takes too
long to be one of the runs. The theorems hold for every history.

Deadlock is checked except where the system does stop: in `analysis_races` all
messages are gone at the end, in the `live_...` runs the run has ended and the page
has closed, in `production_change` every workflow run is over.

Symmetry is used in `agent_quota` and `intake_races` only, which check
invariants and one step property, no liveness.

### Fairness

* `OutboxRelay`: time passes, the scheduler keeps invoking (weak), and the two
  selecting transactions are not aborted for ever (strong, because any single
  run may be). Nothing is assumed of sending or recording.
* `AgentRun`: time and the cron sweep of every minute. Workers, queue, router
  and the reserved deadline checks may all stop.
* `ArticleIntake`: a Lambda invocation goes on or ends (it is bounded by its
  timeout), a message that may be received is, an acquisition transaction ends.
* `ArticleAnalysis`: the same; waiting for a lock is not assumed to fail, so
  liveness depends on locks being released.
* `LiveView` (`live_end`): the endpoint and the page's timers and handlers go on
  (weak); a connection does reach its maximum age (weak: `connection_max_age` is
  a clock); a poll that is asked again and again is answered in the end (strong:
  each single one may fail). Nothing is assumed of publishers, of the notice or of Redis.

### Findings

`models/incomplete_article.py:55` calls the UNIQUE on `url` the physical
guarantee of deduplication across `analyzable_articles` and the pending rows. The
constraint covers one table, and `AnalyzableArticleRepository.save` does not
consult the other: a URL recorded as incomplete and later seen complete is in
both until the completion consumer deletes the pending row
(`intake_pending_duplicate`). `AnnouncedOnce` shows that nothing is announced twice.

`specs/agent-live-stream-transport-slice.md:193-194` says that a cursor older
than the oldest entry is `cursor_trimmed` and an incomplete draft is not
continued. `stream.py:305` makes the comparison in one command and reads the page in
the next; entries after the cursor that MAXLEN removes in between are passed over
and the draft goes on with a gap (`live_cursor_race`). `ResumedDraftIsWhole` in
`live_draft` shows that a page which kept its cursor has no other way to lose
stored text.

## 4. Proofs

Proved for every value of the constants, from the assumptions named in the
modules (`...Assumption`: finite sets, positive limits, ordered revisions, disjoint
stages; `PageAssumption`: a page has room for an entry; `UpsetsAssumption` is a bound of
the model).

*Relay* (`OutboxRelayProofs`, `OutboxDeliveryProofs`). Types, `NewestLeaseKept`,
`PublishedWasAccepted`, `SettledIsFinal` and `CopiesWithinAttempts` need no
assumption on time. None of them is inductive alone: `TokenInv` says that the
tokens runs remember for one row are distinct and never newer than the row's
attempt count, so the compare-and-set on the token succeeds for one lease only;
`AcceptedInv` ties what a run believes was accepted to a copy in the queue;
`AttemptInv` counts the copies and the sends still to come against the attempts
of the row. `WorkIsExclusive` and `RelayImplementsDelivery` assume that a run ends
before a lease taken in it does (`RunTimeout <= LeaseDuration`); with that,
`OutlastInv` says that the rows a live run holds are still leased to it, for at
least as long as it lives.
`outbox_overrun` checks what remains without that assumption.

*Runs* (`AgentRunProofs`). The argument has two layers. `StepEffect` shows that
whichever of the eighteen handlers takes a step, the rows see one of six effects:
a run is admitted, a set of active runs ends, an attempt or an answer begins, an
answer is saved, a thread is deleted, or nothing. The invariants are then proved
by effect instead of by handler. They are strengthened by `StartedInv` (a
run not yet running has epoch 0 and no answer begun; a running one has an epoch
of at least 1), which makes "ended while queued" and "ended with epoch 0" the same
thing: that is why releasing the queued runs of a group keeps `QuotaIsExact`,
and why the subtraction guarded by `used >= n` never goes without effect.
That a run is admitted only beside ended ones rests on `AdmissionInv`: while an admission
has the lock of its thread, the thread is there, no run of it is active and no other
admission is under way, because no other step makes a run active or deletes the thread.
`AnswersAreNotCutShort` also needs `AttemptInv`: no two workers hold the same
attempt, no attempt is ahead of its run, and the current attempt has not begun
its answer before its own worker has. `RunsImplementLifecycle` maps the six
effects to the actions of `ResearchRun`; with `ThreadInv` (a run's thread exists
or did) each is that action or a stutter.

*Intake* (`ArticleIntakeProofs`). The statements of an open transaction are
part of the invariant. `RowsInv`: live rows, those of open transactions included, have
different URLs, and a pending row belongs to one transaction and is not in the table
yet. `ArticlesInv`: the same of pending articles, which makes every commit
announce its articles once. `WorkersInv`: workers only hold messages of rows that
were committed. `AckedIsSettled`, `RemovedIsStored`, `AnnouncedOnce` and
`FirstDecisionWins` follow.

*Analysis* (`ArticleAnalysisProofs`). `WorkersInv` says what a worker may rely on
between its statements: while it has the row lock, what it found in the opposite
table still holds, because every other writer of the pair needs the lock first. That
is what revision z33 was written for, and `OneVerdict` fails without it. `Descent` says
that a later stage has an article only if the earlier ones kept it. With them every
commit is one step of `ArticleFunnel` and everything else a stutter
(`AnalysisImplementsFunnel`).

*Production changes* (`ProductionChangeProofs`). `ChangeInv` has four parts per job.
`TaskFacts`: a session between taking and releasing the lock is the lock's owner, and a
task that has upgraded left the database at its own revision. `ControlFacts`: what
the controller knows at each step, above all that from its preflight on it is alone
with its own task, and that exit code 0 means the lock is free and the database has
the schema. `LedgerFacts`: from `begin` on the latest record is its own and has no
outcome yet, nobody writes after the run that holds the group, and what was compared or
confirmed is still so (`StillSo`), hence a status always goes to the latest record
(`WrittenLast`). `RolloutFacts`: the earlier stages run the release, and no service was told
to run a newer commit. `SuccessIsTrue` is the reason nothing can disturb a rollout:
while the ledger says success, no task or session is left that could take a step. A
step is proved for the job that takes it and, by `OtherFacts` and `JobMoveOthers`,
for those that wait.

*Live view* (`RunStreamProofs`, `LiveViewProofs`), for any number of attempts,
generations, chunks and entries, any length of the stream and of a page, any number
of losses. `StreamInv` is about the run alone: text of one attempt stands in the log
in the order of its generations and chunks, whoever wrote it and however often a
publish was repeated, and what is or will be announced is how the run ended.
`PageIsWhole` says of one read what it may leave behind its cursor: only entries of
attempts older than the one that is followed after it. `WireInv` and `SkipInv` carry
this to the frames under way, which gives `NothingSkipped`. For
`ResumedDraftIsWhole`, `ResumeInv` adds that without an excuse the page and the cursor
agree on what has been seen: behind the first entry it was sent, no entry of the
attempt that it has not dispatched is missing from the frames. `ReadResumes` is the
heart of it: a trim can only hide entries from a read whose cursor was compared before
the trim, which is the excuse. `DraftInv` and `DraftWhole` say that the draft consists of
stored chunks, in their order, and of all of them from its first one on;
`ReduceEffect` and `DraftFolded` show that the reducer keeps this with every frame.
`TerminalIsTheRunsEnd` follows from `PageInv`: polls that have read an end, and ends that
are shown, are ends of the row, which has only one.

*Progress.* Liveness under fairness is outside the prover's reach, but the arguments for
it have a safety half, which is proved. It says that what ought to happen stays possible,
and that no step of the system, failures included, takes back what was gained; the runs
add the fairness.

| theorem | what is bounded, or never lost | needed by |
|---|---|---|
| `DeliveryIsBounded` | a row's attempts used, lease and wait form a rank that no step raises, that every tick lowers while a clock runs, and that leasing lowers; an unsettled row always waits for a clock, the reaper or a lease | `EventuallySettled` |
| `RunsAreBounded`, `AttemptsAreDeliveries` | the time to an active run's end (it is set anew once, when the answer starts in time); a run's attempts by its message's deliveries | `EventuallyEnds` |
| `CompletionIsBounded` | an open row's messages are in the queue or have used up their deliveries; a batch costs a delivery and only moves forward | `RowsEventuallySettled` |
| `NoArticleIsForgotten`, `WorkersDoNotDeadlock`, `InvocationsAreBounded` | an article that waits has its message queued, in work, rejected for good or dead-lettered; the parent locks form no cycle; an invocation costs a delivery and only moves forward | `EveryArticleEnds` |
| `PageAlwaysAsks`, `PageOnlyMovesForward` | until it knows the end, a page has an EventSource, or polls while it is visible; what it knows it keeps | `EndIsLearnt` |

`PageAlwaysAsks` needs `AskInv`, which speaks of the page's mode as well: a page falls back
to polling in the step in which its EventSource is given up, and only then.
What has been stored is never taken back either (`StoreGrows`, `StreamOnlyGrows`).

*Schema changes.* `OneSession` follows from `ChangeInv`. `ChangesAreAsApproved` says of
every change of the database who made it, from where and to what; it needs `PlanInv`,
which carries what was checked early to the step that relies on it. `Approved` is what the
preflight established of a job's mode, commit and start revision, and the task has the
same plan; a task that is about to upgrade has found its start to be the database's
revision, which then stays so because every other session needs the lock; and a job or
session that is under way has an entry in the ledger. The last part is where a killed task
matters: its session may outlive it, and its COMMIT still take effect, but the lock is its
own until then and the ledger cannot say success meanwhile.

Only model-checked: the liveness properties themselves (fairness and ENABLED are outside the
prover's reach), and `TrimmedCursorStopsDraft`, which the code does not have. The
definitions of this section's progress theorems are in the proof modules; they were
checked with TLC on the instances of the runs before they were proved, but no run lists them.

## 5. Not modelled, and why

Prompts, model output, feed parsing, HTTP policy and telemetry are data or pure
I/O. `record_policy_block` has no caller. Deadlocks between transactions are not
visible where a transaction is one action; PostgreSQL aborts one side, and the
modules allow every transaction to fail. The list-updated notification after an
assessment can be lost by a crash after the commit; it only refreshes a cache.

* Source dispatch keeps no state: a source that a partial send skips is selected
  again by the next schedule.
* Redelivery waits only decide *when* a message returns, and the modules let it return
  at any time.
* The broker's consumer group (reclaim of idle messages) is what allows duplicate
  deliveries; `AgentRun` assumes no more of it than "zero to `MaxCopies` times".
* Of the live endpoint, the leases that count open connections, heartbeats and the
  batching of deltas: a full lease table is one more refusal (`TurnedAway`), the others
  change no order.
* Terraform applies and database role workflows take part in the same concurrency group
  and change neither the ledger nor what services run. Smoke tests, seeds and local test
  support are tools, not the system.
* API routes, watchlist, admin and the other pages are request-scoped reads and single
  writes under unique constraints.

Most of the repository by lines is of these kinds (routes, domain values, prompts,
schemas, parsers, scripts of one run each), which is why the share of lines that the
map covers stays small. The other parts are listed in `PROJECT.json` with their reasons.

## 6. Plan

1. Done: outbox, research runs and quota, intake, analysis, live stream and page,
   migrations and rollouts; their abstract specifications; proofs of their invariants,
   step properties and refinements.
2. Done: the safety half of the liveness arguments, as step theorems. Left: the same
   for an endpoint's cursor, which only moves forward while it is connected.
3. The broker's consumer group (reclaim of idle messages against a slow worker),
   to replace `deliveries` by a refinement.
4. `Pipeline`: the composition of intake, relay and analysis through
   `OutboxDelivery`, instead of the assumption "published at least once".
5. `SourceDispatch` with the acquisition queue and visibility waits.

To check a module: `tlc -config <Run>.cfg <Module>.tla`; to prove one:
`tlapm <Module>Proofs.tla`.
