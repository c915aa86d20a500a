------------------------------ MODULE EvalRun ------------------------------
(***************************************************************************)
(* One evaluation run: started in the request or queued item by item       *)
(* (lib/evaluationRuns.ts), its items claimed, executed and acknowledged   *)
(* by the drains of the workers (lib/evaluationQueue.ts,                   *)
(* evaluationWorker.ts), settled through the claim on finished_at          *)
(* (lib/evaluationRunExecution.ts), cancelled, and reaped when abandoned.  *)
(*                                                                         *)
(* An update of a run instance writes the row by primary key, whatever its *)
(* status has become; only claimRunFinalization is a guarded update.       *)
(***************************************************************************)
EXTENDS Naturals, FiniteSets

CONSTANTS Items, Drains,
          Batch,      \* EVAL_WORKER_BATCH
          MaxFaults   \* bound: crashes, leases that end early, failed handlers, slow starts

ASSUME SizesAssumption ==
  Items # {} /\ IsFiniteSet(Items) /\ Batch \in Nat \ {0} /\ MaxFaults \in Nat

VARIABLES run,      \* the row: status, finished_at and what is aggregated
          task,     \* the rows of eval_run_tasks
          results,  \* the items with a row in eval_results
          drain,    \* the drainEvalQueueOnce calls, and their handlers by item
          starter,  \* the request that starts the run
          cancel,   \* the request that cancels it
          reaper,
          verdicts, \* history: lifecycle events emitted
          overtaken,\* history: the reaper claimed a synchronous run still in progress
          faults

vars == <<run, task, results, drain, starter, cancel, reaper, verdicts, overtaken, faults>>

LiveStatus == {"queued", "running"}
FinalStatus == {"completed", "failed", "canceled"}

Run == [status: {"unborn"} \cup LiveStatus \cup FinalStatus, finished: BOOLEAN,
        rolled: BOOLEAN, aggregate: SUBSET Items]
Drain == [pc: {"idle", "handle", "count", "look", "claim", "finalize"},
          job: [Items -> {"none", "load", "mark", "execute", "ack", "acked", "failed"}]]

TypeOK ==
  /\ run \in Run
  /\ task \in [Items -> {"none", "queued", "claimed"}]
  /\ results \subseteq Items
  /\ drain \in [Drains -> Drain]
  /\ starter \in {"idle", "enqueue", "sync", "done"}
  /\ cancel \in {"idle", "discard", "update", "done"}
  /\ reaper \in {"idle", "finalize", "fail", "finalizing", "failing"}
  /\ verdicts \in Nat /\ overtaken \in BOOLEAN
  /\ faults \in 0..MaxFaults

NoDrain == [pc |-> "idle", job |-> [i \in Items |-> "none"]]

Init ==
  /\ run = [status |-> "unborn", finished |-> FALSE,
            rolled |-> FALSE, aggregate |-> {}]
  /\ task = [i \in Items |-> "none"]
  /\ results = {}
  /\ drain = [d \in Drains |-> NoDrain]
  /\ starter = "idle" /\ cancel = "idle" /\ reaper = "idle"
  /\ verdicts = 0 /\ overtaken = FALSE /\ faults = 0

Live == run.status \in LiveStatus
Pending == {i \in Items : task[i] # "none"}

Continue(d, pc) == drain' = [drain EXCEPT ![d].pc = pc]

\* What finalizeEvalRun writes: the roll-up of the results there are.
Completed == [status |-> "completed", finished |-> TRUE, rolled |-> TRUE, aggregate |-> results]
Failed == [run EXCEPT !.status = "failed", !.finished = TRUE]

Published ==
  /\ run' = Completed
  /\ verdicts' = verdicts + 1

(***************************************************************************)
(* startEvalRun, with or without wait.                                     *)
(***************************************************************************)
Start(wait) ==
  /\ starter = "idle"
  /\ run' = [run EXCEPT !.status = IF wait THEN "running" ELSE "queued"]
  /\ starter' = IF wait THEN "sync" ELSE "enqueue"
  /\ UNCHANGED <<task, results, drain, cancel, reaper, verdicts, overtaken, faults>>

Enqueue ==
  /\ starter = "enqueue"
  /\ task' = [i \in Items |-> "queued"]
  /\ starter' = "done"
  /\ UNCHANGED <<run, results, drain, cancel, reaper, verdicts, overtaken, faults>>

\* executeSyncRun: one item after the other.
SyncItem(i) ==
  /\ starter = "sync" /\ i \notin results
  /\ results' = results \cup {i}
  /\ UNCHANGED <<run, task, drain, starter, cancel, reaper, verdicts, overtaken, faults>>

\* The settle claim is not taken here.
SyncFinalize ==
  /\ starter = "sync" /\ results = Items
  /\ Published
  /\ starter' = "done"
  /\ UNCHANGED <<task, results, drain, cancel, reaper, overtaken, faults>>

\* An infrastructure failure: failEvalRun.
SyncFails ==
  /\ starter = "sync" /\ faults < MaxFaults
  /\ faults' = faults + 1
  /\ run' = Failed
  /\ verdicts' = verdicts + 1
  /\ starter' = "done"
  /\ UNCHANGED <<task, results, drain, cancel, reaper, overtaken>>

(***************************************************************************)
(* drainEvalQueueOnce.                                                     *)
(***************************************************************************)
\* claimEvalItemTasks: due rows, locked and marked in one transaction.
Claim(d) ==
  /\ drain[d].pc = "idle"
  /\ \E C \in (SUBSET {i \in Items : task[i] = "queued"}) \ {{}} :
       /\ Cardinality(C) <= Batch
       /\ task' = [i \in Items |-> IF i \in C THEN "claimed" ELSE task[i]]
       /\ drain' = [drain EXCEPT ![d] =
            [pc |-> "handle", job |-> [i \in Items |-> IF i \in C THEN "load" ELSE "none"]]]
  /\ UNCHANGED <<run, results, starter, cancel, reaper, verdicts, overtaken, faults>>

\* Handler of item i goes from pc to one of next.
Step(d, i, pc, next) ==
  /\ drain[d].job[i] = pc
  /\ drain' = [drain EXCEPT ![d].job[i] = next]

\* handleEvalItemTask loads the run: an item of a run that is over is dropped.
JobLoad(d, i) ==
  /\ Step(d, i, "load", IF ~Live THEN "ack"
                        ELSE IF run.status = "queued" THEN "mark" ELSE "execute")
  /\ UNCHANGED <<run, task, results, starter, cancel, reaper, verdicts, overtaken, faults>>

\* The first item marks the run running, on the row as it was loaded.
JobMark(d, i) ==
  /\ Step(d, i, "mark", "execute")
  /\ run' = [run EXCEPT !.status = "running"]
  /\ UNCHANGED <<task, results, starter, cancel, reaper, verdicts, overtaken, faults>>

\* executeAndRecordItem, idempotent on the item.
JobExecute(d, i) ==
  /\ Step(d, i, "execute", "ack")
  /\ results' = results \cup {i}
  /\ UNCHANGED <<run, task, starter, cancel, reaper, verdicts, overtaken, faults>>

\* The handler throws: its task stays claimed until the lease ends.
JobFails(d, i) ==
  /\ faults < MaxFaults
  /\ Step(d, i, "execute", "failed")
  /\ faults' = faults + 1
  /\ UNCHANGED <<run, task, results, starter, cancel, reaper, verdicts, overtaken>>

JobAck(d, i) ==
  /\ Step(d, i, "ack", "acked")
  /\ task' = [task EXCEPT ![i] = "none"]
  /\ UNCHANGED <<run, results, starter, cancel, reaper, verdicts, overtaken, faults>>

\* Promise.all: every handler has ended; a run that was touched may be settled.
Gathered(d) ==
  /\ drain[d].pc = "handle"
  /\ \A i \in Items : drain[d].job[i] \in {"none", "acked", "failed"}
  /\ drain' = [drain EXCEPT ![d] =
       IF \E i \in Items : drain[d].job[i] = "acked" THEN [NoDrain EXCEPT !.pc = "count"]
       ELSE NoDrain]
  /\ UNCHANGED <<run, task, results, starter, cancel, reaper, verdicts, overtaken, faults>>

\* Mutant: the queue need not be empty.
DrainedAlways == TRUE

\* countPendingEvalItemTasks.
Drained == Pending = {}

SettleCount(d) ==
  /\ drain[d].pc = "count"
  /\ Continue(d, IF Drained THEN "look" ELSE "idle")
  /\ UNCHANGED <<run, task, results, starter, cancel, reaper, verdicts, overtaken, faults>>

SettleLook(d) ==
  /\ drain[d].pc = "look"
  /\ Continue(d, IF Live THEN "claim" ELSE "idle")
  /\ UNCHANGED <<run, task, results, starter, cancel, reaper, verdicts, overtaken, faults>>

\* Mutants: everybody wins the claim; its answer is read the wrong way round.
UnclaimedAlways == TRUE
UnclaimedInverted == run.finished

\* claimRunFinalization: UPDATE ... WHERE finished_at IS NULL.
Unclaimed == ~run.finished

SettleClaim(d) ==
  /\ drain[d].pc = "claim"
  /\ run' = [run EXCEPT !.finished = TRUE]
  /\ Continue(d, IF Unclaimed THEN "finalize" ELSE "idle")
  /\ UNCHANGED <<task, results, starter, cancel, reaper, verdicts, overtaken, faults>>

SettleFinalize(d) ==
  /\ drain[d].pc = "finalize"
  /\ Published
  /\ Continue(d, "idle")
  /\ UNCHANGED <<task, results, starter, cancel, reaper, overtaken, faults>>

(***************************************************************************)
(* cancelEvalRun.                                                          *)
(***************************************************************************)
CancelLoad ==
  /\ cancel = "idle" /\ Live
  /\ cancel' = "discard"
  /\ UNCHANGED <<run, task, results, drain, starter, reaper, verdicts, overtaken, faults>>

CancelDiscard ==
  /\ cancel = "discard"
  /\ task' = [i \in Items |-> "none"]
  /\ cancel' = "update"
  /\ UNCHANGED <<run, results, drain, starter, reaper, verdicts, overtaken, faults>>

CancelUpdate ==
  /\ cancel = "update"
  /\ run' = [run EXCEPT !.status = "canceled", !.finished = TRUE]
  /\ cancel' = "done"
  /\ UNCHANGED <<task, results, drain, starter, reaper, verdicts, overtaken, faults>>

(***************************************************************************)
(* reapAbandonedEvalRuns.  Nothing bounds a synchronous run by the age it  *)
(* waits for, and neither holds tasks; a start that has not queued its     *)
(* tasks by then is a fault.                                               *)
(***************************************************************************)
Abandoned == Live /\ Pending = {}

ReapFind ==
  /\ reaper = "idle" /\ Abandoned /\ ~run.finished
  /\ starter = "enqueue" => faults < MaxFaults
  /\ faults' = IF starter = "enqueue" THEN faults + 1 ELSE faults
  /\ reaper' = IF results = Items THEN "finalize" ELSE "fail"
  /\ UNCHANGED <<run, task, results, drain, starter, cancel, verdicts, overtaken>>

ReapClaim ==
  /\ reaper \in {"finalize", "fail"}
  /\ run' = [run EXCEPT !.finished = TRUE]
  /\ reaper' = IF ~Unclaimed THEN "idle"
               ELSE IF reaper = "finalize" THEN "finalizing" ELSE "failing"
  /\ overtaken' = (overtaken \/ (Unclaimed /\ starter = "sync"))
  /\ UNCHANGED <<task, results, drain, starter, cancel, verdicts, faults>>

ReapFinalize ==
  /\ reaper = "finalizing"
  /\ Published
  /\ reaper' = "idle"
  /\ UNCHANGED <<task, results, drain, starter, cancel, overtaken, faults>>

ReapFail ==
  /\ reaper = "failing"
  /\ run' = Failed
  /\ verdicts' = verdicts + 1
  /\ reaper' = "idle"
  /\ UNCHANGED <<task, results, drain, starter, cancel, overtaken, faults>>

(***************************************************************************)
(* The environment.                                                        *)
(***************************************************************************)
Holds(d, i) == drain[d].job[i] \in {"load", "mark", "execute", "ack"}
Held(i) == \E d \in Drains : Holds(d, i)

\* A lease ends: after a crash or a failure, or, as a fault, while it is held.
Lapse(i) ==
  /\ task[i] = "claimed" /\ (Held(i) => faults < MaxFaults)
  /\ task' = [task EXCEPT ![i] = "queued"]
  /\ faults' = IF Held(i) THEN faults + 1 ELSE faults
  /\ UNCHANGED <<run, results, drain, starter, cancel, reaper, verdicts, overtaken>>

Crash ==
  /\ faults < MaxFaults
  /\ faults' = faults + 1
  /\ \/ \E d \in Drains : /\ drain[d].pc # "idle"
                          /\ drain' = [drain EXCEPT ![d] = NoDrain]
                          /\ UNCHANGED <<starter, reaper>>
     \/ /\ starter \in {"enqueue", "sync"} /\ starter' = "done"
        /\ UNCHANGED <<drain, reaper>>
     \/ /\ reaper # "idle" /\ reaper' = "idle"
        /\ UNCHANGED <<drain, starter>>
  /\ UNCHANGED <<run, task, results, cancel, verdicts, overtaken>>

Handle(d) ==
  \E i \in Items : JobLoad(d, i) \/ JobMark(d, i) \/ JobExecute(d, i) \/ JobAck(d, i)

Settle(d) ==
  Gathered(d) \/ SettleCount(d) \/ SettleLook(d) \/ SettleClaim(d) \/ SettleFinalize(d)

Request == Enqueue \/ (\E i \in Items : SyncItem(i)) \/ SyncFinalize

Reap == ReapFind \/ ReapClaim \/ ReapFinalize \/ ReapFail

Server ==
  \/ \E d \in Drains : Claim(d) \/ Handle(d) \/ Settle(d)
  \/ \E i \in Items : ~Held(i) /\ Lapse(i)
  \/ Request \/ Reap
  \/ CancelDiscard \/ CancelUpdate

Next ==
  \/ \E wait \in BOOLEAN : Start(wait)
  \/ \E d \in Drains : Claim(d) \/ Handle(d) \/ Settle(d)
  \/ \E d \in Drains, i \in Items : JobFails(d, i)
  \/ \E i \in Items : Lapse(i)
  \/ Request \/ SyncFails \/ Reap
  \/ CancelLoad \/ CancelDiscard \/ CancelUpdate
  \/ Crash

Spec == Init /\ [][Next]_vars
\* Workers poll and requests go on; no start, cancellation or fault is owed.
FairSpec == Spec /\ WF_vars(Server)

(***************************************************************************)
(* Properties.                                                             *)
(***************************************************************************)
Allowed == IF overtaken THEN 2 ELSE 1

\* However many drains empty the queue at once, and whatever is delivered again, a run
\* announces its verdict once.  Only a synchronous run which the reaper claims while its
\* request is still at it has two, because the request settles without a claim.
VerdictOnce == verdicts <= Allowed

\* No task of this run has been, or will be, handed out.
Untouched == (\A i \in Items : task[i] = "none") /\ \A d \in Drains : drain[d] = NoDrain

\* Who settles: one drain or the reaper, with the claim, or the request of a synchronous
\* run, without.  A verdict that somebody still owes has not been announced.
Settling(d) == drain[d].pc = "finalize"
ReaperSettles == reaper \in {"finalizing", "failing"}
Owed == (IF starter = "sync" THEN 1 ELSE 0) + (IF ReaperSettles THEN 1 ELSE 0)
          + (IF \E d \in Drains : Settling(d) THEN 1 ELSE 0)

SettlerInv ==
  /\ VerdictOnce /\ verdicts + Owed <= Allowed
  /\ verdicts > 0 \/ ReaperSettles \/ (\E d \in Drains : Settling(d)) => run.finished
  /\ \A d, e \in Drains : Settling(d) /\ Settling(e) => d = e
  /\ overtaken \/ run.rolled \/ run.status = "failed" => run.finished
  /\ starter # "done" => Untouched
  /\ starter = "idle" <=> run.status = "unborn"
  /\ starter = "idle" => ~run.finished /\ cancel = "idle" /\ reaper = "idle"
  /\ starter \in {"idle", "enqueue"} =>
       results = {} /\ ~run.rolled /\ reaper \notin {"finalize", "finalizing"}
  /\ \A d \in Drains : drain[d].pc # "handle" => drain[d].job = NoDrain.job

\* Unless a cancellation drops them, an item has a result or a task until it has one,
\* or the reaper has claimed the run before its tasks were queued and nobody rolls it up.
AboutToSettle(d) == drain[d].pc \in {"look", "claim", "finalize"}
Dropped == run.finished /\ ~run.rolled /\ reaper # "finalizing" /\ \A d \in Drains : ~Settling(d)

WholeInv == cancel = "idle" =>
  /\ run.status # "canceled"
  /\ run.rolled => run.aggregate = Items
  /\ \/ Dropped
     \/ /\ Untouched \/ \A i \in Items : i \in results \/ task[i] # "none"
        /\ \A d \in Drains, i \in Items : drain[d].job[i] = "ack" => i \in results
        /\ (\E d \in Drains : AboutToSettle(d)) \/ reaper \in {"finalize", "finalizing"}
             \/ run.status = "completed" => results = Items
        /\ reaper = "failing" \/ run.status = "failed" => Untouched

\* Without faults a task that is held is claimed, by one handler, and a run is settled
\* after the last of them.
LeaseInv == faults = 0 /\ cancel = "idle" =>
  /\ \A i \in Items : \A d, e \in Drains : Holds(d, i) /\ Holds(e, i) => d = e
  /\ \A i \in Items : task[i] = "claimed" <=> Held(i)
  /\ run.finished \/ reaper # "idle" \/ (\E d \in Drains : AboutToSettle(d)) =>
       Pending = {} /\ starter # "enqueue"
  /\ Live /\ run.finished => ReaperSettles \/ \E d \in Drains : Settling(d)

\* The run, its tasks and every handler are well formed, and no verdict comes twice: one
\* of them has the settle claim, and no item gets lost on the way to it.
VerdictInv == TypeOK /\ SettlerInv /\ WholeInv /\ LeaseInv

\* A roll-up is published over every item of the run, unless a cancellation has
\* begun to drop its tasks.
VerdictIsComplete ==
  run.rolled => (run.aggregate = Items \/ cancel # "idle")

\* A live run whose settle claim is taken has somebody about to settle it, unless
\* a process died with the claim or a handler put a cancelled run back to running.
ClaimHasSettler ==
  Live /\ run.finished =>
    \/ ReaperSettles \/ \E d \in Drains : Settling(d)
    \/ faults > 0 \/ cancel # "idle"

\* A run that was started comes to a verdict or is cancelled, whatever process
\* dies or task is delivered again, unless its settle claim was lost.
RunSettles ==
  Live ~> (run.status \in FinalStatus \/ (run.finished /\ (faults > 0 \/ cancel # "idle")))
=============================================================================
