# A TLA+ model of SOAT's server

SOAT is a multi-tenant server for language-model agents: agents and their
generations, orchestrations (graphs of nodes), tasks and workflows, an approval
queue, triggers, evaluations, webhooks, quotas, and the resources around them.
`packages/server/src/lib` holds the logic, `packages/postgresdb` the tables.
Several server and worker processes share one Postgres database and nothing
else; every hard question about this code is a question of what two of them do to
one row between two `await`s, or of what is left in the rows when one dies.

The modules here model that: the rows as variables, one action per statement or
per stretch of code between two `await`s, everything a call has read as a part of
its own state, and a process that may stop at any of these points.

## Inventory

| component | state it keeps | operations | interacts with | what is hard | what makes it correct |
|---|---|---|---|---|---|
| approval queue (`approvals.ts`, `approvalScheduler.ts`, `agentToolApprovalContinuation.ts`) | `approval_items` | emit, approve, reject, expire | resume handlers of orchestrations, tool calls and task gates | read, check, then an unguarded save; sweep of every process; detached announcement | one pending item per proposal; nobody resumed with an approval given too late; every item leaves the queue; every resolution reaches its producer |
| run task queue (`orchestrationQueue.ts`, `orchestrationWorker.ts`, drivers) | `orchestration_run_tasks`, `inFlight` of a worker | enqueue, claim, ack, drain | engine, sweeps | row locks that are skipped, advisory locks, leases that expire under a driver, counters read before an await | a task has one valid lease; limits per project and per worker; delivery at least once |
| walk of a graph (`orchestrationGraph.ts`, `orchestrationBatchResults.ts`, `orchestrationRunLoop.ts`, `orchestrationIdempotency.ts`) | checkpoints, node execution records, memory of a drive | start, round, wait, resume, wake, re-drive | node executors, approvals | what a crash or a sleep forgets; joins and labels | exactly the nodes the graph calls for; a recorded side effect is not repeated; the run ends |
| life cycle of a run (`orchestrationEngine.ts`, `orchestrationScheduler.ts`, `orchestrationRunActions.ts`) | `orchestration_runs` | start, drive, cancel, resume, wake, reap | queue, approvals, events | stale instances written back; claims guarded on part of what they assume | a terminal run stays terminal; one driver per lease; no run is left behind |
| tasks and workflows (`tasks*.ts`, `workflows*.ts`) | `tasks`, automation attempts | transition, park, resume, dispatch, retry, reconcile | approvals, generations, orchestrations | gate claimed, filed and linked in three statements; chained automations; stale dispatches | one pending transition; a decided gate moves or clears; chains end |
| evaluations (`evaluation*.ts`) | `eval_runs`, item tasks, results | start, claim, score, cancel, settle, reap | generations | settle claimed before the aggregate; cancel against a running item | one verdict per run; every run settles |
| quotas (`quota*.ts`) | window counters, usage events | check, count, notify | middleware, generations | check before, spend after | bounded overshoot; one notification per window |
| webhooks (`webhookDispatcher.ts`, `scheduler.ts`) | `webhook_deliveries` | enqueue, redeliver, attempt, sweep | event bus | overlapping sweeps, rows read before they are claimed, an attempt slower than its lease | one attempt at a time; attempts bounded; outcomes stay; a delivery ends |
| triggers (`triggerScheduler.ts`, `triggerDispatch.ts`) | `next_fire_at`, firings | due claim, fire | orchestrations, agents | claim before record | an occurrence fires at most once; the clock advances |
| sessions (`session*.ts`, `conversationGeneration.ts`, `conversationMessages.ts`) | `generating_at`, messages by position; abort controllers and timers of a process | add message, generate, debounce, close, fork | generations, conversations | test and set on a snapshot; a map per process decides who is cancelled; answers inserted behind an old snapshot | one turn that goes on per process; answers stand where they were asked; no prompt is lost |
| generations, agents | `generations`, pending state | start, pause, submit outputs, recover | tools, approvals, sessions | hand-off of several outputs | outputs applied once |
| document ingestion (`documentIngestion*.ts`, `ingestionCallback.ts`) | `documents`, chunks, conversion attempt | ingest, re-ingest, callback, recover on read | converters | late and superseded callbacks; instances held over slow steps; nobody but a reader recovers | an attempt ends once; a ready document has one run's chunks; a document settles |
| formations | resources, formation row | plan, apply, tear down | all resources | partial failure | what exists is what is recorded |
| model routes | breaker in memory | attempt, fail over | providers | shared counter, own policy | a healthy target is tried |
| versions and promotion | version rows, assignment | archive, restore, promote | evaluations | gate read before write | served version exists |
| usage metering | events, components | record, notify | generations | once per threshold | sums equal events |
| guardrails and IAM | none | evaluate | middleware, tools | precedence | deny wins |
| retention, purge, audit | buffers, cursors | flush, purge | all | a bounded buffer | no entry flushed twice |

Single-statement resources (files, secrets, tools, users, projects, chats, traces)
and the clients (`app`, `cli`, `sdk`, `website`) are listed in `PROJECT.json`.

## Modules

### `Approvals`, `MCApprovals`, `ApprovalsProofs`

`item` is the table; `emit` and `req` hold the program counter and the snapshot of
each call of `emitApproval` and of `approveApproval` / `rejectApproval`; `sweep`
holds the batch of each process's sweeper; `notice` and `job` are the work a
process does after it resolved an item (`finalizeResolution`, then the detached
`runToolCallContinuation`). `resumed`, `executed` and `claims` are history.

- `EmitRead`, `EmitInsert`, `EmitConflict`, `EmitReread`: the dedup read, the
  insert under the partial unique index, the lookup of the winner.
- `ReqRead`, `ReqCheck`, `ReqSave`: `assertResolvable` and
  `assertNotExpiredOrExpire` on a snapshot, then `save()`, which writes the
  changed columns by primary key. `ReqExpire` is the guarded update of
  `expireApprovalIfDue`.
- `SweepFind`, `SweepClaim`: `createSweep` around the same update.
- `Refetch`, `Notify`, `RunTool`, `FireContinuation`: the decision is built from
  the row as it is when it is fetched again.

Left out: the validation of a fresh request, `previous_item_id` and audit columns,
the event of a resolution (part of `Notify`), a client-side tool, whose hand-off
counts as an execution, and the `inFlight` set of a sweep, which keeps a sweeper
off a batch it is still working through: here a sweeper finds nothing before its
batch is empty.

### `QueueContract`, `RunQueue`, `MCRunQueue`, `QueueAndWalkProofs`

`QueueContract` is what `types.ts` says of a queue driver: tasks that are absent,
queued, held under a lease or done, claims that never give a task to two holders
while the lease lasts, redelivery after it. `RunQueue` is the Postgres driver and
the worker around it. A claim is what its statements are: `DrainBegin` (the limit
from `inFlight`), `DrainSelect` (candidates, `FOR UPDATE SKIP LOCKED`),
`DrainLock` (one advisory lock per limited project, in ascending order),
`DrainOccupancy`, `DrainCommit`, `DrainReturn`; then `Drive`, `Release`, `Ack`.
Each transaction keeps the instant it read at its start. `RunQueue` implements
`QueueContract` under the mapping at its end.

Left out: `retryRunTask` and an `availableAt` in the future, which the worker never
uses, the attempts counter and the latency statistics, and the SQS driver. A
worker without a configured concurrency is one with a large `Concurrency`.

### `RunGraph`, `MCRunGraph`, `QueueAndWalkProofs`

One run and its graph, one driver at a time. `run` is the row, `ckpt` the artifacts
of the last checkpoint, `key` the keyed execution record of every node and attempt,
`drv` the memory of `executeRunLoop`. `Start`, `Wake`, `NapOver`, `Redrive`,
`Resume` and `Reenter` are the entries the engine builds; `Begin`, `Fire`, `Record`
and `NodeFails` are `executeAndRecordNode`; `Round` is `processNodeResultBatch`,
the checkpoint and the end of the round; `Sleep` and `Settle` write the row.

The verdict of a node (its label, a decision, a block) is fixed with the graph, so
`Reached` can say, from the documented semantics of edges, which nodes a run ought
to execute; the properties compare that with what the code executes. The results
of a round are walked in any order. Graphs are numbered along their edges, because
`assertNoCycle` refuses the others. `OnlyReached` excuses what the code forgets
(`RefusalsKept`): a rejection in a run that crashed, and a blocked tool in a run that
does not go in one go. After a wait, a node whose sources complete in two drives is
executed in both, and the second time the record of a blocked tool is replayed "exactly
as if the executor had just run" (`orchestrationIdempotency.ts:70`), as an artifact
whose unlabelled edges are followed.

Left out: polls (a retry with a counter of its own), children of loop and
sub-orchestration nodes, a tool that parks for approval, the state namespace and
mappings, the iteration limit, and what the siblings of a failed node still do. A
node error that is not retriable (`orchestrationNodeRecorder.ts:211`) ends the run
like a retriable one at the last attempt, and has no step of its own. Two drivers of
one run at once belong to `OrchestrationRun`.

### `OrchestrationRun`, `MCOrchestrationRun`, `OrchestrationRunProofs`

The other half of a run: one row, and everybody who writes it. `row` is the row of
`orchestration_runs` (status, artifacts, `active_nodes`, `wake_at`, `wakeContext`,
lease), `ckpt` the last checkpoint, `tasks` the queue, `items` the approval items
of its nodes. Each process has a driver (`drive`), a sweep (`sweep`) and a request
(`call`), with the row as each of them loaded it: Sequelize writes the columns that
differ from that snapshot, whatever the row holds by then (`Saved`, `Update`,
`Rest`).

- `StartQueued`, `StartEnqueue`, `StartWaiting`: a run that is queued, or driven by
  the request (`wait: true`).
- `Deliver` with `DriveQueued`, `Redrive`, `Wake`, `WakeWithoutContext`:
  `handleRunTask` and the engine's entries; `Round`, `RoundFails`, `NothingActive`,
  `NapOver`: the loop; `Park`, `Emit`, `Settle`, `Ack`: how a drive rests.
- `Answer`, `Decide`, `Decided`, `Resume`: human input, `resume` and a decided
  approval; `CancelRead`, `CancelWrite`.
- `WakeFind`, `WakeClaim`, `ReapFind`, `ReapClaim`, `SweepEnqueue`: the two sweeps,
  each a find, a guarded claim and an enqueue.

Nothing in the code keeps drives from overlapping once a lease lapses early or a
pause is answered twice, and overlapping drives overwrite each other's columns with
old instances. So the properties say what they depend on, and `seen` remembers it: it
is a history variable that no action reads, the set of signs a behaviour has shown:
two drives at once, two answers taken at one pause, a pause written over a wake.
`SoleDriver` and `SucceededIsWhole` hold while a behaviour is `Orderly` (no fault, no
two answers); `ContinuesWhereStopped` holds through crashes and redeliveries as long
as drives do not overlap; `SleepingHasWake` holds through overlaps, too, until a drive
pauses a run that another has put to sleep.

A plan is a chain of nodes, not a graph: what a drive executes is `RunGraph`'s
question, who drives is this module's. Left out: an orchestration deleted under its
run, the dispatch of an approved tool, the routing of a rejected or expired item (a
decided item is an approved one), nested runs, events, the webhook of a run.

### `TaskWorkflow`, `MCTaskWorkflow`, `TaskWorkflowProofs`

`task` is the row, `call` the `transitionTask` calls in progress (of requests, of the
automation of a visit, of the resolution of an item, of the reconciler), `auto` the
automation each visit launched, `run` the orchestration runs it started, `item` the
approval items of the gate, `rec` the reconciler. A visit is one entry into a state;
its number stands for `entered_state_at`, the token an automation is checked against.

- `Request`, `Load`, `Apply`, `Leave`: a transition, everything under the row lock in
  one step (`Apply`), the cancellation of the dispatch it leaves after it.
- `ParkClaim`, `EmitItem`, `EmitFails`, `Link`: the three statements of a gate;
  `Decide`, `ResumeApproved`, `ResumeRejected`: its release.
- `AutoLoad`, `AutoMark`, `AutoCreate`, `AutoNote`, `AutoSettled`, `AutoRetry`,
  `AutoCommit`: one attempt after another, written back under the lock if the visit is
  still current, then routed by the rules of the state.
- `RecFind`, `RecClaim`, `RecRoute`: a dispatch whose run settled and nobody awaits.

Left out: deletion, the stall sweep, dispatches to agents and tools (an orchestration
run stands for them), `tool_context`, definitions and versions of workflows.

### `EvalRun`, `MCEvalRun`, `EvalRunProofs`

One evaluation run, synchronous (`SyncItem`, `SyncFails`, `SyncFinalize`) or queued
(`Enqueue`; then `Claim`, `JobLoad`, `JobMark`, `JobExecute`, `JobAck` of a drain).
Who has emptied the queue settles the run (`SettleCount`, `SettleLook`,
`SettleClaim`, `SettleFinalize`); `CancelLoad`, `CancelDiscard`, `CancelUpdate` and
the reaper (`ReapFind`, `ReapClaim`, `ReapFinalize`, `ReapFail`) write the same row.
Only the settle claim on `finished_at` is a guarded update, and a synchronous run does
not take it. The reaper asks for nothing but an age and no tasks: `ReapFind` may find a
synchronous run while its request is still at it, and `overtaken` remembers that the
reaper's claim on such a run succeeded. A queued run whose start has not enqueued its
tasks by then counts as a fault. Left out: progress counters, what scorers compute,
baselines, datasets.

### `SessionTurn`, `MCSessionTurn`, `SessionTurnProofs`

`row` is the session, `log` its messages in the order of their positions, `ctrl` and
`timer` the maps of each process, `post` and `turn` the calls of `addSessionMessage`
and `generateSessionResponse` with the `generating_at` each has read. A stamp is
named by the turn that wrote it. `Check` is `checkConcurrency`; `Mark`, `Read`,
`Answer`, `Insert`, `End`, `Free`, `Drop` are the turn between its awaits;
`Insert` shifts what came after the snapshot. Left out: expiry by inactivity, forks,
idempotency keys, removal of messages, tool outputs, `max_context_messages`, reopening.

### `WebhookOutbox`, `MCWebhookOutbox`, `WebhookOutboxProofs`

One row of `webhook_deliveries` and the workers at it: a sweep (`Find`, `Claim`, with
one reading of the clock, the age of which the worker carries) that becomes an
attempt (`Send`, then `Succeed` or `Fail`, or `Abandon`), and the attempt of the
event itself (`Enqueue`). `WriteFails` is a statement that fails: the catch of
`attemptDelivery` records a success as a failed attempt, and an attempt whose last
write fails is lost like one in a crash (`losses`). Times are relative: what is left
until `next_attempt_at` and until the lease ends; `Tick` lets a unit pass while
everybody is within `MaxLag` and `Deadline`, `Stall` excuses one attempt from that.
Left out: matching of events and policies, signatures, the jitter of the back-off
(its shortest value stands for all), the order of a batch, skewed clocks, a write
that is committed although its statement fails.

### `DocumentIngestion`, `MCDocumentIngestion`, `DocumentIngestionProofs`

`doc` is the status and `conversion_attempt_id` of a document and whether its
`updated_at` is past the stall timeout; `chunks` says who wrote which half of
them. The chunks of a run are inserted by several workers (`runBounded`), and the first
insert that fails ends the run while the others go on: `late` are the runs that are over
in this way and still write (`LateChunk`, `LateEnds`), `strays` those that have added
chunks since, `outlived` says that somebody was late when the chunks were last deleted.
Pipelines, callbacks, the reader and the editor are actors with the instance
each holds;
`Update` is `instance.update`, which writes what differs from that instance, and
the claims of `completeIngestionCallback` and `failStaleConversion` are guarded
updates. `Enqueue`, `Reingest`, `Clean`, `Reset`, `Begin`, `Extract`, `Defer`,
`Stash` are the pipeline; `WritePart`, `WriteRest`, `Settle` the tail it shares
with `Claim` and `Parse` of a callback; `Read`, `RecoverConversion`,
`RecoverIngestion` what a reader does with a stale document. The editor is one
request that creates a document from text (`Create`) or updates it (`Edit`, then the
same `Clean` and writes of chunks if they are made anew, then `Touch`); `Delete`
removes the document with its chunks whoever is at work on it, after which no chunk
can be written (`Orphaned`). `Begin` loads and updates in one step, and whether a
request waits for its document is chosen where it matters, in `Defer`. Left out:
ingestion rules, chunk settings, progress counts, stored files, events.

## Runs

| run | instance | question |
|---|---|---|
| `approvals` | 2 items, 2 emitters, 1 request, 1 sweeper, 1 crash | dedup, decisions and expiry in every interleaving, and the inductive invariant of the proofs; every item is resolved, and every resolution of a process that lives reaches its producer |
| `queue_safety` | 2 workers, 4 tasks of 3 runs in 2 projects limited to 1 | leases, project limit, lock order; the inductive invariant of the proofs |
| `queue_liveness` | 2 workers, one crash or failure, a project limited to 1 | `inFlight`, refinement of the contract, every task is acknowledged |
| `graphs` | graphs of four nodes with a condition, joins, a failure, an approval or a guarded tool; chains of plain, keyed, delayed and human nodes; 2 attempts, a crash | exactly the reached nodes, joins wait, no repeated record, the run ends |
| `graph_branch` | violation | a wait forgets the branch beside it |
| `run_lifecycle` | 2 processes, chains of a delay, a human or an approval node and an effect; a crash or an early end of a lease, a cancel, an answer | one driver, no run asleep for good, no node skipped, no run left behind |
| `tasks` | 3 states, an automated one with 2 attempts, a gated transition, a failure edge; 2 requests, 2 items, one fault | gates own and fence a task, outcomes belong to their visit, gates and dispatches end |
| `evals` | 2 items, 2 drains, a cancel, the reaper, 2 faults | one verdict (two for a synchronous run the reaper overtook), over every item; the run settles |
| `sessions` | 2 messages, 2 turns, 2 processes, 3 modes, one fault | one turn per process, answers in place, no prompt lost |
| `webhooks` | 2 processes, 2 workers, 3 attempts, 2 faults | one attempt at a time, requests counted, outcomes kept, the delivery ends |
| `ingestion` | 2 pipelines, 2 callbacks, a reader, an editor, one fault, edit or deletion | attempts end once, chunks of one run or edit and where late workers write, the document settles |
| `ingestion_superseded` | violation | a re-ingest that overtakes the stash of an attempt |

**Bounds.** They stand in the guards and are constants. An approver and a sweeper
are the two kinds of writers of a row (the proofs have any number of each), two items
and two emitters a conflict of dedup keys; time runs to `MaxTime`, one instant past the expiry.
The queue's time is relative and unbounded: a lease is what is left of it, and
`MaxAge` bounds how long a claim transaction lasts. Two workers whose candidates
lie in both of two limited projects are what a circle of locks takes, and two
tasks of one run beside two runs with one each tell runs from tasks; a lease of two
ticks is enough for a redelivery under a live driver. Four graph nodes hold a
branch, a join of two of its sides and a successor; two attempts hold a retry and
its exhaustion. In `OrchestrationRun`, `MaxTasks` queued tasks are more than the
writers can produce before they are delivered; `MaxEvents` counts crashes, early
lease ends, redeliveries under a holder and cancels together, `MaxAnswers` the
answers of a human. In `TaskWorkflow` five visits hold the entry, two passages of
the automated state and the end; a chain limit of one shows a chain cut off. Two
evaluation items are the last two a queue is emptied of, two faults a crash during
the recovery from another; the reaper may take a synchronous run at any time, and a start
that it overtakes is one of the faults. Two workers on one delivery are two overlapping sweeps, or
a sweep and the attempt of the event; a lease of three units, with one for an attempt
and one for a sweep, is the least for which `LEASE_MS` is longer than both. Two turns
and two messages are enough for a turn that takes over from another, an answer
between two messages, and a message that finds a turn under way. In a document's
model a second ingestion supersedes the first, and two callbacks are a replay or one
of each attempt; `MaxFaults` counts faults, edits and deletions together, and the
creation of a document is free, so that a crash may hit one. Runs that end by design switch the deadlock check off; every
property of those runs is an invariant, an action property or liveness under
fairness.

**Fairness.** `createScheduler` fires each sweep at an interval for the life of the
process, so a sweep that stays enabled is taken (weak fairness); a call that runs
keeps running unless its process dies. In the queue, drains are weakly fair; a
handler is strongly fair, because its `DELETE` waits in line for a row lock that
others take again and again, and so is the clock, which only the bound `MaxAge`
stops. In `OrchestrationRun` weak fairness of the sweeps, the drivers, the started
calls and the clocks is enough. A human answers a paused run in the end (strong
fairness of `Resume` in `RunGraph`), which only `RunEnds` uses; `RunRests` counts a
run that waits for a human as at rest. In `TaskWorkflow`, `EvalRun` and
`SessionTurn` one weakly fair disjunction says that the server takes some step while
it has one; orchestration runs end, items that nobody decides expire, item leases run
out and debounce timers fire. Deliveries need more: time passes, sweeps start, and
each worker goes on. A document needs a reader: no timer recovers it, so
`IngestionSettles` assumes that somebody polls its status, as the documentation
has callers do. Nobody is obliged to call another operation, and no fault is owed.

## What the violations show

Two runs contradict a sentence of the repository, quoted in `PROJECT.json`:

- `SucceededIsComplete` (`graph_branch`): a round that ends in a wait forgets the
  successors of the branches that completed beside it.
- `SupersededRefused` (`ingestion_superseded`): `reingestDocument` resets a document
  through an instance older than the attempt that the first pipeline stashed;
  `update` writes only what differs from that instance, the attempt survives, and its
  callback is accepted.

The properties of the passing runs name what they excuse: `lost` in `TaskWorkflow`, a
fault or a cancellation in `EvalRun`, and there `overtaken`, which allows a second verdict,
`Excused` in `SessionTurn`, `stalls` in `WebhookOutbox`, `overlap` and `outlived` in
`DocumentIngestion`. Each excuse is one of the divergences below, and the models contain
the behaviour.

### Other divergences

Met while modelling; the modules contain the behaviour, no run asks for it.

Approvals, queue, graphs and runs:

- two resolutions of one approval are saves on snapshots, not guarded updates: both
  win, and the approved call is executed twice (`approvals.ts:703`;
  `approvals.yaml:244`);
- a slot is a claimed task with a valid lease: a drive that outlives its lease no
  longer counts, and another run of the project is driven beyond the limit
  (`orchestrationQueue.ts:183`; `orchestrations.md:289`);
- a re-drive follows the unlabelled edges of an executed approval node whatever the
  decision was (`orchestrationEngine.ts:994`; `orchestrations.md:472`);
- a drive settles with the instance it loaded, over a status that another request
  made `cancelled` (`orchestrationEngine.ts:246`; `orchestrations.yaml:1130`);
- an approver that passed the check in time overwrites `expired`
  (`approvals.ts:710`; `approvals.md:175` calls it terminal);
- a crash after the sweeper's claim loses the announcement (`approvalScheduler.ts:44`);
- overlapping drains compute their limit from the same `inFlight` and together
  exceed it (`orchestrationWorker.ts:167` and `:187`; `orchestrations.md:290`);
- a run with a claimed task counts as an occupant, so its next task waits for its
  own slot (`orchestrationQueue.ts:178`; the comment at `:64` excludes it);
- a blocked tool is replayed from its record without its label
  (`orchestrationIdempotency.ts:68`; `orchestrations.md:147`);
- a missing `activation_condition` behaves like `any` (`orchestrationGraph.ts:120`;
  `orchestrations.md:364`), and an any-join is activated again in a later drive;
- after a re-drive the attempts of a node start from one
  (`orchestrationEngine.ts:1006`; `orchestrations.md:283`);
- two sweeps may both claim one wake when the run is parked again in between
  (`scheduler.ts:43`), which brings the second delay forward;
- a crash between parking and the acknowledgement has the sleeping run driven again
  and its delay restarted;
- a wake task that is redelivered after its driver died activates the successors of
  the delay alone (`orchestrationEngine.ts:125`, `:678`); when the checkpoints of the
  first drive already hold those, nothing is active, and the run succeeds although the
  nodes behind them never ran. `SucceededIsWhole` excuses faults for this reason;
- `submitHumanInput` checks the status on the row it loaded
  (`orchestrationRunActions.ts:62`): two answers to one pause both drive the run, which
  is the excuse of `SoleDriver`;
- three overlapping faults may leave a sleeping run without a wake: two drives overlap,
  one pauses the run over the delay the other has parked at, and a drive that still
  holds the old instance clears the `wake_at` of the next one. No sweep finds the run
  again. `SleepingHasWake` excludes the pause over a wake;
- when drives overlap, artifacts, `wakeContext` and checkpoint of a row may be of
  different writers, and the next wake may skip a node;
- an approval decided between `emit` (`orchestrationEngine.ts:215`) and the write
  that parks the run (`:246`) resumes nothing;
- a crash between creating a queued run (`:480`) and its enqueue (`:537`) leaves it
  queued: no sweep looks at queued runs. For this reason `RunRests` starts at
  `running`.

Tasks:

- the reconciler takes a dispatch that waits out its retry back-off, because the row
  still shows the run of the failed attempt, and routes `on_failure` while attempts
  remain (`tasksReconciliation.ts:46`; the comment at `tasksAutomationRetry.ts:245`);
- an approval decided before its gate is linked, or a crash between the claim and the
  link, leaves the transition pending for good (`tasksApprovalGate.ts:182`);
- a crash between the commit of a transition and the launch of `on_enter` leaves a
  state without its automation (`tasksTransition.ts:483`);
- the completion of a dispatch does not look at the status the reconciler may have
  recorded (`tasksAutomation.ts:279`), and the reconciler routes on a row it reads
  again (`tasksReconciliation.ts:194`).

Evaluations:

- a crash between the settle claim and the aggregate loses the run: the reaper is
  refused the same claim (`evaluationRunExecution.ts:466`);
- a handler that marks a run running overwrites a cancellation
  (`evaluationWorker.ts:188`), and finalisation and cancellation overwrite each other;
- a cancelled run may be rolled up over the items done so far
  (`evaluationRuns.ts:373`);
- a synchronous run that takes longer than `EVAL_RUN_ABANDONED_AFTER_MS` is claimed by the
  reaper while its request executes items (`evaluationWorker.ts:299`; the comment at `:54`
  says the reaper must not misfire on it), and the request finalizes or fails it without
  the claim (`evaluationRuns.ts:289`, `:297`): two events are emitted, perhaps `failed` and
  then `completed`, where `evaluations.md:469` says "Exactly one event fires per terminal
  run". `VerdictOnce` allows two once a run is `overtaken`.

Sessions:

- the advisory lock of `conversations.md:122` does not exist: a turn that is taken
  over after its model answered still inserts, and the later answer lands in front of
  a message it has read (`conversationGeneration.ts:350`);
- a turn is refused because its copy of the session is older than the end of the turn
  before, and a second process refuses what one process would take over
  (`sessionOperations.ts:65`; `sessions.md:206`); the refusal of a delayed turn is
  swallowed (`sessionDelayHelpers.ts:45`);
- after a crash `generating_at` stays and messages start no turn, whatever its age
  (`sessionMessageHelpers.ts:84`).

Webhooks:

- an attempt slower than its lease writes its outcome over that of the attempt that
  followed it, and may take the count of attempts back (`webhookDispatcher.ts:158`);
- an accepted delivery whose outcome could not be written is recorded as a failed attempt
  and sent again (`webhookDispatcher.ts:331`).

Document ingestion:

- a crash between the two writes of a re-ingest leaves a `ready` document without
  chunks (`documentIngestion.ts:386`);
- a pending document that kept an attempt is never recovered, because
  `failStaleConversion` asks for `processing` (`ingestionCallback.ts:82`;
  `documents.md:140`);
- a callback that arrives before the stash is refused, and its result is lost
  (`documentIngestion.ts:187`);
- `INGESTION_TIMEOUT` is written unguarded and may overwrite `ready`
  (`ingestionCallback.ts:123`), and overlapping runs accumulate their chunks;
- an edit that makes the chunks anew asks for no status: while an ingestion waits for
  its turn or its converter, both sets of chunks stay (`documentContent.ts:76`);
- a creation or an edit that dies between chunks leaves a `ready` document with a
  part of them (`documents.ts:353`, `documentContent.ts:78`);
- one failed insert rejects `Promise.all` and the document is failed
  (`documentIngestion.ts:232`), but the other workers of `runBounded` go on taking and
  inserting chunks (`chunking.ts:95`). A re-ingest at that point deletes what there is and
  ends `ready` with chunks of both runs, against `documents.md:144` ("Existing chunks are
  discarded") and the comment at `documentIngestion.ts:385`. `outlived` marks such a
  deletion, and the last clause of `ReadyIsOneRun` and `LateInv` excuse what follows it.

## Proofs

The proofs about a component are in a module that extends it; those about the queue and
the walk of a graph share one, which is why `RunGraph` has names like `WalkSpec`. A
theorem holds for every value of the constants that its assumptions allow, where a run
checks one small instance. All have the same shape: an inductive invariant made of the
invariants in the table, so that the runs check it too, one lemma per action that the
action preserves it, and the property from the invariant. What many actions share is one
lemma: a step that claims nothing (`PassiveStep` of the queue), an entry into the run
loop (`EntryStep`), a result of a node (`ResultStep`), what a worker becomes.

| module | theorem | property |
|---|---|---|
| `ApprovalsProofs` | `Invariance`, `TypeCorrect` | `IndInv`, `TypeOK` |
| | `DedupSafe`, `ExpiryClaimedOnce` | `SinglePending`, `ExpiredOnce` |
| | `NoLateApproval`, `ResumedTerminally` | `ApprovedInTime`, `DecisionIsTerminal` |
| `QueueAndWalkProofs` | `TypeCorrect`, `ClaimsHold` | `TypeOK`, `ClaimInv` |
| | `LeasesExclusive`, `LimitKept` | `ExclusiveLease`, `SlotsWithinLimit` |
| | `WaitsEnd`, `InFlightCounts` | `NoCircularWait`, `InFlightExact` |
| | `Implements` | `ImplementsContract` |
| | `WalkCorrect`, `JoinsHold` | `WalkInv`, `JoinsWait` |
| | `CompletedStays` | `CompletedNotRepeated` |
| `OrchestrationRunProofs` | `RowCorrect`, `DriverIsSole` | `RowInv`, `SoleDriver` |
| `TaskWorkflowProofs` | `GateCorrect`, `DispatchBelongs`, `FenceHolds` | `GateInv`, `DispatchOfVisit`, `FencedByGate` |
| `EvalRunProofs` | `OneVerdict`, `VerdictComplete`, `ClaimSettles` | `VerdictInv`, `VerdictIsComplete`, `ClaimHasSettler` |
| `SessionTurnProofs` | `SessionCorrect`, `AnswersInPlace` | `SessionInv`, `AnswerInPlace` |
| `WebhookOutboxProofs` | `OutboxCorrect`, `RequestsCounted`, `OutcomeStays` | `OutboxInv`, `SendsCounted`, `OutcomeKept` |
| `DocumentIngestionProofs` | `IngestCorrect`, `ReadyHasOneRun` | `IngestInv`, `ReadyIsOneRun` |

**Approvals.** `ApprovedInTime` is not inductive: that a decision is backed by an
approver who passed the check in time must be known while the decision is still a
column of the row (`RowsInv`), an announcement or a job (`NoticesInv`), and before that
while the call has only checked (`CallsInv`: a call about to save checked before
`expiresAt`). `SinglePending` needs the pairwise form `IndexInv`. Assumptions:
`TTLAssumption`, `TimeAssumption`, `CrashAssumption`, `NullAssumption`.

**Queue.** `ClaimInv` is what a claim relies on between its statements. A locked row
stays due and belongs to one transaction (`RowLocksInv`), so a batch with a valid lease
never loses a row (`LeaseInv`): the clock of the claimer was read in the past, and `a`
ticks later the row it saw expired is still expired. For the limit, a transaction that
counted owns the locks of all its projects (`ProjectLocksInv`), so nobody adds an
occupant between its count and its commit (`OccupancyInv`). What is left is
`selectClaimableUnderLimit`: of any candidates at most `k` runs have fewer than `k` runs
before them (`RankBound`), because the number of runs before a run is an injection into
`0..k-1`; that two runs are never level takes the ranks of the rows (`RankInv`) and the
least element of a set of numbers (`LeastExists`).

A circle of waiting transactions is impossible because each waits for a lock greater
than all it holds (`LockOrderInv`): take the greatest lock anybody in the circle waits
for (`GreatestExists`); its owner is in the circle and waits for a greater one.
`InFlightExact` counts the pairs of a drain and a task it has in hand: a commit adds as
many as it claimed, a release takes away one. The refinement maps `enqueue` to
`Enqueue`, the commit of a claim to `Claim`, `ack` to `Ack`, and everything else to
`Lapse` or to no step; that a claim takes only tasks which the contract shows as held
by nobody is `LeaseInv` again, and that the holder of a task which is acknowledged is
the one the contract names needs the leases to be those of the batches. Assumptions:
`MapsAssumption`, `SizesAssumption`, and `FiniteAssumption`: tasks, runs and drains are
finitely many.

**Walk of a graph.** What a run ought to execute is a recursive function of its graph.
That such a function exists is proved from the least set closed under the edges
(`ReachedIsCalled`), and nothing but its equation is used afterwards. The invariant then
says what the memory of a driver is worth: a result is that of an active node and
agrees with its record (`ResultInv`), which gives `CompletedNotRepeated`, since only an
attempt whose record is `running` is dispatched, fired or failed; what is passed on as
done has been recorded, every node that is or will be active has its sources and is
called for (`RecordInv`); a row that is driven is running, and what it waits for is a
delay, a retry within the policy, or a human or an approver (`RestInv`). `OneGoInv` is there
for the blocked tools: a run without waits meets a node once, so it never replays one.
`EntryStep`, `ResultStep` and `RoundClose` carry these through the actions; `NextSound`
is the lemma about `resolveNextNodes`. Assumptions: `GraphsAssumption` (finitely many
nodes, edges upwards, verdicts that the kind of a node allows), `BoundsAssumption`.

**Life cycle of a run.** Four invariants over the same steps, one for each part of the
claim, and a history that is tied to the state (`SeenInv`: what a state shows is
remembered). `WakeInv` is what keeps a sleeper findable whoever writes: a drive taken at
a pause knows of no wake, so when it saves it leaves the wake of the row as it is.
`FrontierInv` is for drives that follow each other: artifacts and checkpoint are
prefixes of the plan, a pause and a wake stand at the end of one, and the instance of a
drive has the progress of the row; a run nobody has driven yet has none (`QueuedInv`),
which is what `driveQueuedRun` takes for granted. `OrderInv` is the argument for one
driver. Whoever is about to drive the run holds a token: a request that has committed
the row and not yet enqueued, a sweep that has claimed and not yet enqueued, a task
nobody holds, a drive. While a behaviour is orderly there is at most one token, none
while a wake is due or a lease has lapsed, and none after the end, so a claim, which
asks for exactly these, makes the only one (`MovedToken`, `NewToken`, `LostToken`).
`WholeInv` adds that the place where the run stopped is not lost on the way from the row
through claim and task to the next drive; it takes all the others. A cancellation fits
in because it writes no progress, and a wake claimed after it finds the place where the
run stopped. The statements of a drive are first reduced to what they write (`SavedRest`
and the lemmas named `Effect`), and the steps to three kinds: those that leave the row
alone, those that change its status, wake or lease, and moves of one drive. Assumption:
`ParametersAssumption`: plans are sequences of node kinds, the bounds are numbers.
Nothing is assumed of the set of processes, and plans may be of any length.

**Tasks.** That nothing but its gate moves a parked task needs to know who holds the
gate: at most one call is filing an item, an item on its way through `transitionTask` is
approved and is the one the row is linked to, and a call that is about to link
has an item which somebody may still resolve (`GateHeld`). That a dispatch belongs to
the visit it is shown for needs that a visit is launched once, by the call that entered
it, before which nothing of it exists (`LaunchInv`), and that an automation starts its
attempts in order and reports what became of the last (`AttemptInv`, `Started`).
Assumptions: `DefinitionAssumption`, `BoundsAssumption`.

**Evaluations.** Whoever won the settle claim, one drain or the reaper, is the one who may
announce a verdict, and so is the request of a synchronous run, which takes no claim: what
has been announced and what each of these still owes (`Owed`) is together one, or two once
the reaper has overtaken a synchronous run (`SettlerInv`). The verdict is over all
items because, unless the run is cancelled, each item has a task or a result and nobody
is about to settle while a result is missing; only a run that the reaper has claimed
before its tasks were queued loses them, and then nobody rolls it up (`WholeInv`,
`Dropped`). That the claim is in
somebody's hands without faults needs that a task is claimed exactly while one
handler holds it (`LeaseInv`). Assumption: `SizesAssumption`.

**Sessions.** What a turn has read stays in front of the place of its answer, and nothing
else does, until a turn answers that it has not read (`ReadInv`); that place is inside the
conversation, in which nothing is twice or before its insertion (`PlaceInv`).
`AnswerInPlace` is stated for each turn, so that two turns which overlap
(`Overlapping`) excuse only each other (`Apart`). Assumption: `NamesAssumption`.

**Webhooks.** One attempt at a time is a matter of arithmetic: while an attempt runs, its
lease has at least `Lease - MaxLag` left, less the age of the attempt (`HolderInv`),
which never exceeds `Deadline` (`BoundsInv`), and `TimesAssumption` says that
`MaxLag + Deadline < Lease`, as the constants of the code have it. Its copy of the count
is then that of the row, so that requests and counted attempts differ by the one in the
air and those lost in crashes or failed writes (`SendsInv`).

**Ingestion.** An attempt ends once because only its pipeline stashes it and whoever ends
it takes it off the row (`AttemptInv`). A run that is alone has the document to itself:
its instance is the row, and the chunks are those it has written, at each of its steps
(`RunInv`); a second one at work puts it in `overlap`. Workers that a failed run has left
behind write to a document which that run has failed, or to what is left of an edit, as
long as nobody deletes its chunks (`LateInv`): whatever begins anew deletes them first, so
a ready document has none of theirs unless they outlived that deletion. Assumption:
`NamesAssumption`.

**Model-checked only.** Liveness under fairness is beyond the prover (`PendingEnds`,
`ProducerResumed`, `EveryTaskAcked`, `RunEnds`, `RunRests`, `GateDischarged`,
`DispatchRecovered`, `RunSettles`, `PromptAnswered`, `DeliveryEnds`, `IngestionSettles`).
`SucceededIsComplete` cannot be proved because it is false of graphs in general
(`graph_branch`); `graphs` checks it where no wait stands beside a branch.
Every other invariant and action property of the passing runs has a theorem.

## Plan

1. `Approvals`, `RunQueue` with `QueueContract`, `RunGraph`, `OrchestrationRun`,
   `TaskWorkflow`, `EvalRun`, `SessionTurn`, `WebhookOutbox`, `DocumentIngestion`: done.
2. Proofs: `Approvals`, `RunQueue` with the step simulation behind
   `ImplementsContract`, `RunGraph`, `TaskWorkflow`, `EvalRun`, `SessionTurn`,
   `WebhookOutbox`, `DocumentIngestion`, `OrchestrationRun`: done. Next,
   `SucceededIsComplete` of `RunGraph` for runs that go in one go.
3. An abstract claim (one row, one winner) that the guarded updates of wake,
   webhook, ingestion and evaluation claims implement.

## Not modelled

- Triggers (`triggerScheduler.ts`: compare-and-set on `next_fire_at`, then the record
  of the firing, so a crash skips an occurrence) and quotas (`quotaEnforcement.ts`:
  budgets compared before a generation and spent after it, whatever runs at the same
  time) are small protocols the method suits; they are next when the model grows.
- Generations and agents: the hand-off of tool outputs and the recovery of pending
  state. Formations: topological apply that may stop half way. Model routes: failover
  and a breaker per process. Versions and promotion, usage metering, the audit
  buffer: bookkeeping with little concurrency.
- Guardrails and IAM are pure evaluation of documents; memories and knowledge are
  similarity search and language-model output; what one orchestration node does,
  tools, chats, files, identities and the HTTP surface are input and output or single
  statements. The clients and the site keep no state of the system. The SQS driver
  would have to implement `QueueContract` over a service outside this repository.
