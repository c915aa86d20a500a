--------------------------- MODULE OrchestrationRun ---------------------------
(***************************************************************************)
(* The row of one orchestration run and everybody who writes it: workers   *)
(* that drive it from a task, requests that start, resume or cancel it, the*)
(* wake sweep and the lease reaper of every process                        *)
(* (lib/orchestrationEngine.ts, orchestrationWorker.ts,                    *)
(* orchestrationScheduler.ts, orchestrationRunActions.ts).                 *)
(*                                                                         *)
(* Whoever loaded the row keeps an instance of it.  instance.update writes *)
(* the fields whose value differs from the instance's, by primary key and  *)
(* without a guard; only the sweeps claim with a conditional UPDATE.       *)
(*                                                                         *)
(* The graph is a chain, since RunGraph has the walk of a graph.  Clocks   *)
(* are what they are compared with: a wake_at is later or due, a lease is  *)
(* valid or lapsed.                                                        *)
(***************************************************************************)
EXTENDS Naturals, Sequences, FiniteSets

CONSTANTS Hosts,       \* processes; each has one driver, one sweep, one request
          Plans,       \* sequences of node kinds
          MaxTasks,    \* bound: tasks in the queue at once
          MaxEvents,   \* bound: crashes, leases that end too early, cancellations
          MaxAnswers   \* bound: submitted inputs and manual resumes

Kinds == {"effect", "delay", "human", "approval"}

Parameters ==
  /\ Plans \subseteq Seq(Kinds) /\ Plans # {}
  /\ MaxTasks \in Nat /\ MaxEvents \in Nat /\ MaxAnswers \in Nat

ASSUME ParametersAssumption == Parameters

VARIABLES plan,    \* the nodes of the run's graph, in order
          row,     \* orchestration_runs
          ckpt,    \* artifacts of the newest checkpoint
          tasks,   \* orchestration_run_tasks of the run: their kinds
          items,   \* pending approval items per node
          drive,   \* per host: a drive of the run
          sweep,   \* per host: the scheduler's work on the run
          call,    \* per host: a start or cancel request
          faults, answers, cancels,
          seen     \* history, which no action reads: the signs shown so far

bounds == <<faults, answers, cancels>>
system == <<plan, row, ckpt, tasks, items, drive, sweep, call, bounds>>
vars == <<system, seen>>

Nodes == DOMAIN plan
Start == {1} \cap Nodes
Signs == {"two drives", "two answers", "paused with a wake"}
Terminal == {"succeeded", "failed", "cancelled"}
Statuses == {"absent", "queued", "running", "sleeping", "awaiting_input"} \cup Terminal

Row == [status: Statuses, art: SUBSET Nodes, active: SUBSET Nodes, ctx: {0} \cup Nodes,
        wake: {"none", "later", "due"}, lease: {"none", "valid", "lapsed"}]

NoRow == [status |-> "absent", art |-> {}, active |-> {}, ctx |-> 0,
          wake |-> "none", lease |-> "none"]

Drive == [pc: {"idle", "prepare", "decided", "resume", "round", "nap", "park", "emit",
               "settle", "ack"},
          task: 0..MaxTasks, kind: {"none", "continue", "wake"}, inline: BOOLEAN,
          snap: Row, done: SUBSET Nodes, act: SUBSET Nodes,
          node: {0} \cup Nodes, end: Terminal \cup {"awaiting_input"}]

Idle == [pc |-> "idle", task |-> 0, kind |-> "none", inline |-> FALSE, snap |-> NoRow, done |-> {},
         act |-> {}, node |-> 0, end |-> "succeeded"]

TypeOK ==
  /\ plan \in Plans
  /\ row \in Row
  /\ ckpt \in SUBSET Nodes
  /\ tasks \in [1..MaxTasks -> {"none", "continue", "wake"}]
  /\ items \in [Nodes -> Nat]
  /\ drive \in [Hosts -> Drive]
  /\ sweep \in [Hosts -> {"idle", "wake", "reap", "enqueue wake", "enqueue continue"}]
  /\ call \in [Hosts -> {"idle", "starting", "cancelling"}]
  /\ faults \in 0..MaxEvents /\ answers \in 0..MaxAnswers /\ cancels \in 0..MaxEvents
  /\ seen \subseteq Signs

Init ==
  /\ plan \in Plans
  /\ row = NoRow
  /\ ckpt = {}
  /\ tasks = [i \in 1..MaxTasks |-> "none"]
  /\ items = [n \in Nodes |-> 0]
  /\ drive = [h \in Hosts |-> Idle]
  /\ sweep = [h \in Hosts |-> "idle"]
  /\ call = [h \in Hosts |-> "idle"]
  /\ faults = 0 /\ answers = 0 /\ cancels = 0
  /\ seen = {}

Eventful == faults + cancels < MaxEvents

Following(S) == {n + 1 : n \in S} \cap Nodes

\* instance.update(vals): a field is written when it differs from the instance's; a
\* date computed from the clock always does.
Fresh(vals, f) == f \in {"wake", "lease"} /\ vals[f] # "none"
Saved(vals, snap) ==
  [f \in DOMAIN row |->
     IF f \in DOMAIN vals /\ (Fresh(vals, f) \/ vals[f] # snap[f]) THEN vals[f] ELSE row[f]]
Kept(vals, snap) == [f \in DOMAIN snap |-> IF f \in DOMAIN vals THEN vals[f] ELSE snap[f]]

\* A drive that came to rest: a request returns, a task is acknowledged.
Rested(d) == IF d.task = 0 THEN Idle ELSE [Idle EXCEPT !.pc = "ack", !.task = d.task]

\* The driver of a host writes vals and goes on as next.
Update(h, vals, next) ==
  /\ row' = Saved(vals, drive[h].snap)
  /\ drive' = [drive EXCEPT ![h] = [next EXCEPT !.snap = Kept(vals, drive[h].snap)]]

\* It writes vals and is through with the run.
Rest(h, vals) ==
  /\ row' = Saved(vals, drive[h].snap)
  /\ drive' = [drive EXCEPT ![h] = Rested(@)]

Holds(h, i) == drive[h].task = i /\ drive[h].pc # "idle"

\* A new task takes an id nobody knows.
Enqueue(kind) ==
  \E i \in 1..MaxTasks :
    /\ tasks[i] = "none" /\ \A h \in Hosts : ~Holds(h, i)
    /\ \A j \in 1..(i - 1) : tasks[j] # "none" \/ \E h \in Hosts : Holds(h, j)
    /\ tasks' = [tasks EXCEPT ![i] = kind]

(***************************************************************************)
(* startOrchestrationRun                                                   *)
(***************************************************************************)
StartQueued(h) ==
  /\ row.status = "absent" /\ call[h] = "idle"
  /\ row' = [row EXCEPT !.status = "queued"]
  /\ call' = [call EXCEPT ![h] = "starting"]
  /\ UNCHANGED <<plan, ckpt, tasks, items, drive, sweep, bounds>>

\* The row is committed before its task is enqueued.
StartEnqueue(h) ==
  /\ call[h] = "starting"
  /\ Enqueue("continue")
  /\ call' = [call EXCEPT ![h] = "idle"]
  /\ UNCHANGED <<plan, row, ckpt, items, drive, sweep, bounds>>

\* wait: true.  The request drives the run itself.
StartWaiting(h) ==
  LET new == [row EXCEPT !.status = "running", !.lease = "valid"]
  IN /\ row.status = "absent" /\ drive[h].pc = "idle"
     /\ row' = new
     /\ drive' = [drive EXCEPT ![h] =
          [Idle EXCEPT !.pc = "round", !.inline = TRUE, !.snap = new, !.act = Start]]
     /\ UNCHANGED <<plan, ckpt, tasks, items, sweep, call, bounds>>

(***************************************************************************)
(* handleRunTask: claim a task, load the run, pick the engine's entry.     *)
(***************************************************************************)
\* A task somebody holds is redelivered when its lease ends first.
Deliver(h, i) ==
  LET held == \E g \in Hosts : Holds(g, i)
  IN /\ drive[h].pc = "idle"
     /\ tasks[i] # "none"
     /\ held => Eventful
     /\ faults' = IF held THEN faults + 1 ELSE faults
     /\ drive' = [drive EXCEPT ![h] =
          IF row.status \in Terminal THEN [Idle EXCEPT !.pc = "ack", !.task = i]
          ELSE [Idle EXCEPT !.pc = "prepare", !.task = i, !.kind = tasks[i], !.snap = row]]
     /\ UNCHANGED <<plan, row, ckpt, tasks, items, sweep, call, answers, cancels>>

Preparing(h, kind) == drive[h].pc = "prepare" /\ drive[h].kind = kind

\* driveQueuedRun: from the start node, without a checkpoint.
DriveQueued(h) ==
  LET d == drive[h]
  IN /\ Preparing(h, "continue") /\ d.snap.status = "queued"
     /\ Update(h, [status |-> "running", lease |-> "valid"],
               [d EXCEPT !.pc = "round", !.done = d.snap.art, !.act = Start])
     /\ UNCHANGED <<plan, ckpt, tasks, items, sweep, call, bounds>>

\* redriveRun: from the frontier of the last checkpoint, whatever the status is.
Redrive(h) ==
  LET d == drive[h]
      done == d.snap.art \cup ckpt
  IN /\ Preparing(h, "continue") /\ d.snap.status # "queued"
     /\ drive' = [drive EXCEPT ![h] =
          [d EXCEPT !.pc = "round", !.done = done,
                    !.act = (Following(done) \cup Start) \ done]]
     /\ UNCHANGED <<plan, row, ckpt, tasks, items, sweep, call, bounds>>

\* wakeRun: the wait of wakeContext is over, its successors are next.
Wake(h) ==
  LET d == drive[h]
      done == d.snap.art \cup ckpt \cup {d.snap.ctx}
  IN /\ Preparing(h, "wake") /\ d.snap.ctx # 0
     /\ drive' = [drive EXCEPT ![h] =
          [d EXCEPT !.pc = "round", !.done = done, !.act = Following({d.snap.ctx}) \ done]]
     /\ UNCHANGED <<plan, row, ckpt, tasks, items, sweep, call, bounds>>

WakeWithoutContext(h) ==
  /\ Preparing(h, "wake") /\ drive[h].snap.ctx = 0
  /\ drive' = [drive EXCEPT ![h] = Rested(@)]
  /\ UNCHANGED <<plan, row, ckpt, tasks, items, sweep, call, bounds>>

(***************************************************************************)
(* executeRunLoop and driveRunToRest                                       *)
(***************************************************************************)
\* What a drive does after a node that stops the loop.
StopAt(kind, inline) ==
  CASE kind = "delay" -> IF inline THEN "nap" ELSE "park"
    [] kind = "approval" -> "emit"
    [] kind = "human" -> "settle"

\* One round: the active node runs, the checkpoint is inserted, the lease refreshed.
Round(h) ==
  LET d == drive[h]
  IN \E n \in d.act :
       /\ d.pc = "round"
       /\ IF plan[n] = "effect"
          THEN LET done == d.done \cup {n}
               IN /\ ckpt' = done
                  /\ Update(h, [lease |-> "valid"],
                            [d EXCEPT !.done = done, !.act = Following({n}) \ done])
          ELSE /\ ckpt' = d.done
               /\ Update(h, [lease |-> "valid"],
                         [d EXCEPT !.pc = StopAt(plan[n], d.inline), !.act = {}, !.node = n,
                                   !.end = "awaiting_input"])
       /\ UNCHANGED <<plan, tasks, items, sweep, call, bounds>>

RoundFails(h) ==
  /\ drive[h].pc = "round"
  /\ \E n \in drive[h].act : plan[n] = "effect"
  /\ drive' = [drive EXCEPT ![h].pc = "settle", ![h].act = {}, ![h].end = "failed"]
  /\ UNCHANGED <<plan, row, ckpt, tasks, items, sweep, call, bounds>>

NothingActive(h) ==
  /\ drive[h].pc = "round" /\ drive[h].act = {}
  /\ drive' = [drive EXCEPT ![h].pc = "settle", ![h].end = "succeeded"]
  /\ UNCHANGED <<plan, row, ckpt, tasks, items, sweep, call, bounds>>

\* A drive that blocks its caller sleeps through the delay, holding the run.
NapOver(h) ==
  LET d == drive[h]
      done == d.done \cup {d.node}
  IN /\ d.pc = "nap"
     /\ drive' = [drive EXCEPT ![h] =
          [d EXCEPT !.pc = "round", !.done = done, !.act = Following({d.node}) \ done]]
     /\ UNCHANGED <<plan, row, ckpt, tasks, items, sweep, call, bounds>>

\* persistScheduledWait
Park(h) ==
  LET d == drive[h]
  IN /\ d.pc = "park"
     /\ Rest(h, [status |-> "sleeping", art |-> d.done, active |-> {d.node},
                 wake |-> "later", ctx |-> d.node, lease |-> "none"])
     /\ UNCHANGED <<plan, ckpt, tasks, items, sweep, call, bounds>>

\* settleRun files the approval item before it writes the row.
Emit(h) ==
  /\ drive[h].pc = "emit"
  /\ items' = [items EXCEPT ![drive[h].node] = @ + 1]
  /\ drive' = [drive EXCEPT ![h].pc = "settle"]
  /\ UNCHANGED <<plan, row, ckpt, tasks, sweep, call, bounds>>

\* updateRunRecord
Settled(d) ==
  [status |-> d.end, art |-> d.done,
   active |-> IF d.end = "awaiting_input" THEN {d.node} ELSE {},
   wake |-> "none", ctx |-> 0, lease |-> "none"]

Settle(h) ==
  /\ drive[h].pc = "settle"
  /\ Rest(h, Settled(drive[h]))
  /\ UNCHANGED <<plan, ckpt, tasks, items, sweep, call, bounds>>

Ack(h) ==
  /\ drive[h].pc = "ack"
  /\ tasks' = [tasks EXCEPT ![drive[h].task] = "none"]
  /\ drive' = [drive EXCEPT ![h] = Idle]
  /\ UNCHANGED <<plan, row, ckpt, items, sweep, call, bounds>>

(***************************************************************************)
(* Requests on a paused run.  Each loads the row, checks it, and resumes   *)
(* with that instance.                                                     *)
(***************************************************************************)
\* submitHumanInput for a node, or resumeOrchestrationRun for none.
Answer(h, n) ==
  /\ drive[h].pc = "idle" /\ answers < MaxAnswers
  /\ row.status = "awaiting_input"
  /\ n = 0 \/ n \in row.active
  /\ answers' = answers + 1
  /\ drive' = [drive EXCEPT ![h] = [Idle EXCEPT !.pc = "resume", !.node = n, !.snap = row]]
  /\ UNCHANGED <<plan, row, ckpt, tasks, items, sweep, call, faults, cancels>>

\* An item of the node is approved; the resolver notifies the engine.
Decide(h, n) ==
  /\ drive[h].pc = "idle" /\ items[n] > 0
  /\ items' = [items EXCEPT ![n] = @ - 1]
  /\ drive' = [drive EXCEPT ![h] = [Idle EXCEPT !.pc = "decided", !.node = n]]
  /\ UNCHANGED <<plan, row, ckpt, tasks, sweep, call, bounds>>

\* resumeRunForApproval: nothing happens unless the run awaits the node.
Decided(h) ==
  LET d == drive[h]
  IN /\ d.pc = "decided"
     /\ drive' = [drive EXCEPT ![h] =
          IF row.status = "awaiting_input" /\ d.node \in row.active
          THEN [d EXCEPT !.pc = "resume", !.snap = row] ELSE Idle]
     /\ UNCHANGED <<plan, row, ckpt, tasks, items, sweep, call, bounds>>

\* resumeOrchestrationRunExecution, which drives inline.
Resume(h) ==
  LET d == drive[h]
      answered == IF d.node = 0 THEN {} ELSE {d.node}
      done == d.snap.art \cup ckpt \cup answered
      start == IF d.node = 0 THEN d.snap.active ELSE Following(answered) \ done
  IN /\ d.pc = "resume"
     /\ Update(h, [status |-> "running", active |-> start, lease |-> "valid"],
               [d EXCEPT !.pc = "round", !.inline = TRUE, !.done = done, !.act = start \ done])
     /\ UNCHANGED <<plan, ckpt, tasks, items, sweep, call, bounds>>

\* cancelOrchestrationRun: the status is checked on the row as it was loaded.
CancelRead(h) ==
  /\ call[h] = "idle" /\ Eventful
  /\ row.status \notin Terminal \cup {"absent"}
  /\ cancels' = cancels + 1
  /\ call' = [call EXCEPT ![h] = "cancelling"]
  /\ UNCHANGED <<plan, row, ckpt, tasks, items, drive, sweep, faults, answers>>

CancelWrite(h) ==
  /\ call[h] = "cancelling"
  /\ row' = [row EXCEPT !.status = "cancelled"]
  /\ call' = [call EXCEPT ![h] = "idle"]
  /\ UNCHANGED <<plan, ckpt, tasks, items, drive, sweep, bounds>>

(***************************************************************************)
(* wakeDueRuns and reapOrphanedRuns: find, claim with a guarded UPDATE,    *)
(* enqueue.                                                                *)
(***************************************************************************)
SweepDone(h, next) == sweep' = [sweep EXCEPT ![h] = next]

WakeFind(h) ==
  /\ sweep[h] = "idle"
  /\ row.status = "sleeping" /\ row.wake = "due"
  /\ SweepDone(h, "wake")
  /\ UNCHANGED <<plan, row, ckpt, tasks, items, drive, call, bounds>>

\* Mutant: the claim has no guard.
WakeClaimAlways(h) ==
  /\ sweep[h] = "wake"
  /\ row' = [row EXCEPT !.status = "running", !.wake = "none", !.lease = "valid"]
  /\ SweepDone(h, "enqueue wake")
  /\ UNCHANGED <<plan, ckpt, tasks, items, drive, call, bounds>>

\* Mutant: the claim takes the wake but leaves the status to the driver.
WakeClaimOnly(h) ==
  /\ sweep[h] = "wake"
  /\ IF row.wake = "none"
     THEN SweepDone(h, "idle") /\ UNCHANGED row
     ELSE /\ row' = [row EXCEPT !.wake = "none", !.lease = "valid"]
          /\ SweepDone(h, "enqueue wake")
  /\ UNCHANGED <<plan, ckpt, tasks, items, drive, call, bounds>>

\* Mutant: a woken run gets no lease.
WakeClaimUnleased(h) ==
  /\ sweep[h] = "wake"
  /\ IF row.wake = "none"
     THEN SweepDone(h, "idle") /\ UNCHANGED row
     ELSE /\ row' = [row EXCEPT !.status = "running", !.wake = "none"]
          /\ SweepDone(h, "enqueue wake")
  /\ UNCHANGED <<plan, ckpt, tasks, items, drive, call, bounds>>

\* UPDATE ... WHERE wake_at IS NOT NULL; the status is not part of the guard.
WakeClaim(h) ==
  /\ sweep[h] = "wake"
  /\ IF row.wake = "none"
     THEN SweepDone(h, "idle") /\ UNCHANGED row
     ELSE /\ row' = [row EXCEPT !.status = "running", !.wake = "none", !.lease = "valid"]
          /\ SweepDone(h, "enqueue wake")
  /\ UNCHANGED <<plan, ckpt, tasks, items, drive, call, bounds>>

ReapFind(h) ==
  /\ sweep[h] = "idle"
  /\ row.status = "running" /\ row.lease = "lapsed"
  /\ SweepDone(h, "reap")
  /\ UNCHANGED <<plan, row, ckpt, tasks, items, drive, call, bounds>>

ReapClaim(h) ==
  /\ sweep[h] = "reap"
  /\ IF row.status = "running" /\ row.lease = "lapsed"
     THEN row' = [row EXCEPT !.lease = "valid"] /\ SweepDone(h, "enqueue continue")
     ELSE SweepDone(h, "idle") /\ UNCHANGED row
  /\ UNCHANGED <<plan, ckpt, tasks, items, drive, call, bounds>>

SweepEnqueue(h) ==
  /\ sweep[h] \in {"enqueue wake", "enqueue continue"}
  /\ Enqueue(IF sweep[h] = "enqueue wake" THEN "wake" ELSE "continue")
  /\ SweepDone(h, "idle")
  /\ UNCHANGED <<plan, row, ckpt, items, drive, call, bounds>>

(***************************************************************************)
(* The environment                                                         *)
(***************************************************************************)
Attended ==
  \/ \E h \in Hosts : drive[h].pc # "idle" \/ sweep[h] # "idle" \/ call[h] # "idle"
  \/ \E i \in 1..MaxTasks : tasks[i] # "none"

Elapse ==
  /\ row.wake = "later"
  /\ row' = [row EXCEPT !.wake = "due"]
  /\ UNCHANGED <<plan, ckpt, tasks, items, drive, sweep, call, bounds>>

\* The lease of a run outlasts a round and the wait for a worker: it ends when nobody
\* is about to drive the run, and within the bound while somebody is.
Lapse ==
  /\ row.lease = "valid"
  /\ row' = [row EXCEPT !.lease = "lapsed"]
  /\ Attended => Eventful
  /\ faults' = IF Attended THEN faults + 1 ELSE faults
  /\ UNCHANGED <<plan, ckpt, tasks, items, drive, sweep, call, answers, cancels>>

Crash(h) ==
  /\ Eventful
  /\ faults' = faults + 1
  /\ drive' = [drive EXCEPT ![h] = Idle]
  /\ SweepDone(h, "idle")
  /\ call' = [call EXCEPT ![h] = "idle"]
  /\ UNCHANGED <<plan, row, ckpt, tasks, items, answers, cancels>>

Delivered(h) == \E i \in 1..MaxTasks : Deliver(h, i)
DriveStep(h) ==
  \/ DriveQueued(h) \/ Redrive(h) \/ Wake(h) \/ WakeWithoutContext(h)
  \/ Round(h) \/ RoundFails(h) \/ NothingActive(h) \/ NapOver(h) \/ Park(h)
  \/ Emit(h) \/ Settle(h) \/ Ack(h) \/ Decided(h) \/ Resume(h)
CallStep(h) == StartEnqueue(h) \/ CancelWrite(h)
SweepStep(h) == WakeFind(h) \/ WakeClaim(h) \/ ReapFind(h) \/ ReapClaim(h) \/ SweepEnqueue(h)

\* Two hosts of which each is at one of the places.
Together(places) ==
  \E g, h \in Hosts : g # h /\ drive[g].pc \in places /\ drive[h].pc \in places

DrivePcs == {"prepare", "resume", "round", "nap", "park", "emit", "settle"}

Shows(sign) ==
  \/ sign = "two drives" /\ Together(DrivePcs)
  \/ sign = "two answers" /\ Together({"resume"})
  \/ sign = "paused with a wake" /\ row.status = "awaiting_input" /\ row.wake # "none"

Remember == seen' = seen \cup {sign \in Signs : Shows(sign)'}

Next ==
  \/ \E h \in Hosts :
       \/ StartQueued(h) /\ Remember
       \/ StartEnqueue(h) /\ Remember
       \/ StartWaiting(h) /\ Remember
       \/ Delivered(h) /\ Remember
       \/ DriveQueued(h) /\ Remember
       \/ Redrive(h) /\ Remember
       \/ Wake(h) /\ Remember
       \/ WakeWithoutContext(h) /\ Remember
       \/ Round(h) /\ Remember
       \/ RoundFails(h) /\ Remember
       \/ NothingActive(h) /\ Remember
       \/ NapOver(h) /\ Remember
       \/ Park(h) /\ Remember
       \/ Emit(h) /\ Remember
       \/ Settle(h) /\ Remember
       \/ Ack(h) /\ Remember
       \/ Decided(h) /\ Remember
       \/ Resume(h) /\ Remember
       \/ CancelRead(h) /\ Remember
       \/ CancelWrite(h) /\ Remember
       \/ WakeFind(h) /\ Remember
       \/ WakeClaim(h) /\ Remember
       \/ ReapFind(h) /\ Remember
       \/ ReapClaim(h) /\ Remember
       \/ SweepEnqueue(h) /\ Remember
       \/ Crash(h) /\ Remember
       \/ Answer(h, 0) /\ Remember
       \/ \E n \in Nodes : Answer(h, n) /\ Remember
       \/ \E n \in Nodes : Decide(h, n) /\ Remember
  \/ Elapse /\ Remember
  \/ Lapse /\ Remember

Spec == Init /\ [][Next]_vars

\* Timers keep firing, statements return and clocks advance; nobody has to start,
\* answer, decide or cancel.
Fairness ==
  /\ WF_system(Elapse) /\ WF_system(Lapse)
  /\ \A h \in Hosts : /\ WF_system(DriveStep(h)) /\ WF_system(CallStep(h))
                      /\ WF_system(SweepStep(h)) /\ WF_system(Delivered(h))

FairSpec == Spec /\ Fairness

(***************************************************************************)
(* Properties                                                              *)
(***************************************************************************)
Driving(h) == drive[h].pc \in DrivePcs

\* No process died, no lease ended early, no task was redelivered while it was held, and
\* no two answers were taken at the same pause.
Orderly == faults = 0 /\ "two answers" \notin seen

\* Overlapping sweeps of two processes, stale batches, kicks, human answers and a
\* cancellation never put two drives on one run, as long as leases hold and a pause is
\* answered once.
SoleDriver == Orderly => \A g, h \in Hosts : Driving(g) /\ Driving(h) => g = h

\* Whatever stale instances write, a sleeping run keeps a wake_at: without one no sweep
\* finds it again, and no lease has it reaped.  Any number of drives may overlap, but
\* once one of them pauses a run that another put to sleep nothing is promised.
SleepingHasWake ==
  "paused with a wake" \notin seen => (row.status = "sleeping" => row.wake # "none")

\* As long as drives follow each other, through crashes, wakes, redrives and answers, a
\* node becomes active when exactly the nodes before it are done: none is skipped and
\* none is executed again by the drive that completed it.
ContinuesWhereStopped ==
  "two drives" \notin seen =>
    \A h \in Hosts : \A n \in drive[h].act : drive[h].done = 1..(n - 1)

\* Without a crash a run succeeds when every node was executed, however often it slept,
\* was paused, cancelled and answered on the way.
SucceededIsWhole == Orderly => (row.status = "succeeded" => row.art = Nodes)

\* The row, the tasks and every drive are well formed, no sleeper is forgotten, a drive
\* goes on where the run stopped, and success means that all of it was done.
RowInv == TypeOK /\ SleepingHasWake /\ ContinuesWhereStopped /\ SucceededIsWhole

\* Every run that left the queue reaches a terminal state or waits for a human in the
\* end, although a drive dies or is overtaken at any statement, a wake is claimed and
\* never enqueued, or two drives overwrite each other.
RunRests ==
  row.status \in {"running", "sleeping"} ~> row.status \in Terminal \cup {"awaiting_input"}

=============================================================================
