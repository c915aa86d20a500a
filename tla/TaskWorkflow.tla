---------------------------- MODULE TaskWorkflow ----------------------------
(***************************************************************************)
(* A task on its workflow: transitionTask and its row lock                 *)
(* (lib/tasksTransition.ts), the approval gate of a requires_approval      *)
(* transition (lib/tasksApprovalGate.ts), the on_enter automation of a     *)
(* state with its retries (lib/tasksAutomation.ts, tasksAutomationRetry.ts,*)
(* tasksDispatch.ts) and the sweep that recovers a dispatch whose process  *)
(* died (lib/tasksReconciliation.ts).                                      *)
(*                                                                         *)
(* Every mover goes through the same transitionTask call: a request, the   *)
(* automation of a visit when it routes its outcome, the reconciler, and   *)
(* the resolution of an approval item.  A visit is one entry into a state; *)
(* its number stands for entered_state_at, the token of an automation.     *)
(***************************************************************************)
EXTENDS Naturals, FiniteSets

CONSTANTS States, Initial, Terminal,
          Automated,     \* states with an on_enter automation
          Transitions, From, To,
          Gated,         \* transitions with requires_approval
          Guarded,       \* transitions whose guard reads the payload
          OnComplete,    \* per automated state: transitions its rules may pick
          OnFailure,     \* per automated state: its on_failure, if any
          Requests, Items, Reconciler,
          NoTransition, NoItem,
          PayloadEdits,  \* what an update may make of the guards
          MaxVisits,     \* bound: entries into a state
          MaxAttempts,   \* retry.max_attempts
          ChainLimit,    \* TASK_AUTOMATION_CHAIN_LIMIT
          MaxFaults      \* bound: crashes and failures to file an approval

Visits == 1..MaxVisits
Callers == Requests \cup Items \cup Visits \cup {Reconciler}

ASSUME DefinitionAssumption ==
  /\ Initial \in States \ Terminal /\ Terminal \subseteq States
  /\ Automated \subseteq States \ Terminal
  /\ From \in [Transitions -> SUBSET States] /\ To \in [Transitions -> States]
  /\ Gated \subseteq Transitions /\ Guarded \subseteq Transitions
  /\ NoTransition \notin Transitions /\ NoItem \notin Items
  /\ OnComplete \in [Automated -> SUBSET (Transitions \cup {NoTransition})]
  /\ OnFailure \in [Automated -> Transitions \cup {NoTransition}]
ASSUME BoundsAssumption ==
  /\ MaxVisits \in Nat \ {0} /\ MaxAttempts \in Nat \ {0}
  /\ PayloadEdits \subseteq BOOLEAN
  /\ ChainLimit \in Nat /\ MaxFaults \in Nat
  /\ Requests \cap Items = {} /\ (Requests \cup Items) \cap (Nat \cup {Reconciler}) = {}
  /\ Reconciler \notin Nat

VARIABLES task,   \* the row; ok: its payload satisfies the guards
          call,   \* the transitionTask calls in progress
          auto,   \* the automation launched by each visit
          run,    \* the orchestration runs of each automation, by attempt
          item,   \* the approval items of the gate
          rec,    \* the reconciler's sweep
          faults,
          lost    \* history: a crash, or a decision before its gate was linked

vars == <<task, call, auto, run, item, rec, faults, lost>>

Tries == 0..MaxAttempts
Dispatch == [visit: 0..MaxVisits, try: Tries]  \* the run of an attempt of a visit
NoRun == [visit |-> 0, try |-> 0]

Task == [state: States, visit: Visits,
         auto: {"none", "running", "completed", "failed", "unrouted"},
         disp: Dispatch,
         dst: {"none", "running", "completed", "failed"},
         pending: Transitions \cup {NoTransition}, approval: Items \cup {NoItem},
         depth: 0..ChainLimit, ok: BOOLEAN]

Call == [pc: {"idle", "load", "apply", "claim", "emit", "link", "leave",
              "check", "clear", "rejected", "done"},
         tr: Transitions \cup {NoTransition}, from: States,
         item: Items \cup {NoItem}, prev: Dispatch,
         visit: 0..MaxVisits, routing: BOOLEAN]

Automation == [pc: {"idle", "start", "mark", "create", "note", "await",
                    "commit", "backoff"},
               state: States, token: 0..MaxVisits, was: BOOLEAN,
               try: Tries, ok: BOOLEAN]

Run == [st: {"none", "inflight", "succeeded", "failed"}, for: 0..MaxVisits]

Sweep == [pc: {"idle", "claim", "route"}, visit: 0..MaxVisits,
          disp: Dispatch, ok: BOOLEAN]

TypeOK ==
  /\ task \in Task
  /\ call \in [Callers -> Call]
  /\ auto \in [Visits -> Automation]
  /\ run \in [Visits -> [1..MaxAttempts -> Run]]
  /\ item \in [Items -> {"unborn", "pending", "approved", "rejected"}]
  /\ rec \in Sweep
  /\ faults \in 0..MaxFaults
  /\ lost \in BOOLEAN

NoCall == [pc |-> "idle", tr |-> NoTransition, from |-> Initial, item |-> NoItem,
           prev |-> NoRun, visit |-> 0, routing |-> FALSE]
NoAutomation == [pc |-> "idle", state |-> Initial, token |-> 0, was |-> FALSE,
                 try |-> 0, ok |-> FALSE]
NoSweep == [pc |-> "idle", visit |-> 0, disp |-> NoRun, ok |-> FALSE]

\* createTask, in a state without automation.
Init ==
  /\ task = [state |-> Initial, visit |-> 1, auto |-> "none", disp |-> NoRun,
             dst |-> "none", pending |-> NoTransition, approval |-> NoItem,
             depth |-> 0, ok |-> TRUE]
  /\ call = [w \in Callers |-> NoCall]
  /\ auto = [v \in Visits |-> NoAutomation]
  /\ run = [v \in Visits |-> [a \in 1..MaxAttempts |-> [st |-> "none", for |-> 0]]]
  /\ item = [i \in Items |-> "unborn"]
  /\ rec = NoSweep
  /\ faults = 0
  /\ lost = FALSE

Continue(w, c) == call' = [call EXCEPT ![w] = c]

\* A request is made once.
Finished(w) == IF w \in Requests THEN [NoCall EXCEPT !.pc = "done"] ELSE NoCall
Go(v, a) == auto' = [auto EXCEPT ![v] = a]

\* The call of w to transitionTask, and the same when no rule matched.
Calling(tr, routing) ==
  IF tr = NoTransition THEN NoCall
  ELSE [NoCall EXCEPT !.pc = "load", !.tr = tr, !.routing = routing]

Closed == task.state \in Terminal
Machine(w) == w \in Visits \cup {Reconciler}
Depth(w) == IF Machine(w) THEN task.depth + 1 ELSE 0

(***************************************************************************)
(* transitionTask.                                                         *)
(***************************************************************************)
Request(w, tr) ==
  /\ call[w].pc = "idle"
  /\ Continue(w, Calling(tr, FALSE))
  /\ UNCHANGED <<task, auto, run, item, rec, faults, lost>>

\* assertParkable, on the loaded row.
Parkable(tr) ==
  ~Closed /\ task.pending = NoTransition /\ task.state \in From[tr]

\* A requires_approval transition parks, unless it is the resolution of its item.
Load(w) ==
  LET c == call[w] IN
  /\ c.pc = "load"
  /\ Continue(w, [c EXCEPT !.from = task.state,
                           !.pc = IF c.tr \notin Gated \/ w \in Items THEN "apply"
                                  ELSE IF Parkable(c.tr) THEN "claim" ELSE "rejected"])
  /\ UNCHANGED <<task, auto, run, item, rec, faults, lost>>

\* Mutant: the fence of a pending gate is left out.
AdmissibleUnfenced(w, tr) ==
  /\ ~Closed /\ task.state \in From[tr]
  /\ (tr \in Guarded => task.ok)
  /\ Depth(w) <= ChainLimit

\* resolveLockedTransition and nextChainDepth, on the locked row.
Admissible(w, tr) ==
  /\ ~Closed
  /\ (task.pending # NoTransition => w \in Items)
  /\ task.state \in From[tr]
  /\ (tr \in Guarded => task.ok)
  /\ Depth(w) <= ChainLimit

\* performTransitionTxn.
Apply(w) ==
  LET c == call[w] IN
  /\ c.pc = "apply"
  /\ \/ /\ Admissible(w, c.tr)
        /\ task.visit < MaxVisits
        /\ task' = [task EXCEPT !.state = To[c.tr], !.visit = task.visit + 1,
                                !.auto = "none", !.disp = NoRun, !.dst = "none",
                                !.pending = NoTransition, !.approval = NoItem,
                                !.depth = Depth(w)]
        /\ Continue(w, [c EXCEPT !.pc = "leave", !.visit = task.visit + 1,
                                 !.prev = IF task.dst = "running" THEN task.disp ELSE NoRun])
     \/ /\ ~Admissible(w, c.tr)
        /\ Continue(w, [c EXCEPT !.pc = "rejected"])
        /\ UNCHANGED task
  /\ UNCHANGED <<auto, run, item, rec, faults, lost>>

Ended(r, st) == [r EXCEPT !.st = st]

\* The run is cancelled unless it has come to an end.
Cancelled(r) ==
  IF r.visit = 0 \/ run[r.visit][r.try].st # "inflight" THEN run
  ELSE [run EXCEPT ![r.visit][r.try] = Ended(run[r.visit][r.try], "failed")]

\* After the commit: cancelDispatchOnExit, then dispatchOnEnter.
Leave(w) ==
  LET c == call[w] s == To[call[w].tr] IN
  /\ c.pc = "leave"
  /\ run' = Cancelled(c.prev)
  /\ IF s \in Automated
     THEN Go(c.visit, [NoAutomation EXCEPT !.pc = "start", !.state = s])
     ELSE UNCHANGED auto
  /\ Continue(w, Finished(w))
  /\ UNCHANGED <<task, item, rec, faults, lost>>

\* Mutant: the gate is left as it is.
GateKept(i) == task

\* clearGate: only the gate of this item.
GateCleared(i) ==
  IF task.approval = i
  THEN [task EXCEPT !.pending = NoTransition, !.approval = NoItem] ELSE task

\* A refused move: the gate is cleared, or a routed outcome is flagged
\* (surfaceUnrouted); nothing is left of any other.
Refused(w) ==
  /\ call[w].pc = "rejected"
  /\ task' = IF w \in Items THEN GateCleared(w)
             ELSE IF call[w].routing /\ task.auto = "completed"
                  THEN [task EXCEPT !.auto = "unrouted"] ELSE task
  /\ Continue(w, Finished(w))
  /\ UNCHANGED <<auto, run, item, rec, faults, lost>>

(***************************************************************************)
(* The approval gate.                                                      *)
(***************************************************************************)
\* The guarded update that takes the gate.
Claimable(c) == ~Closed /\ task.state = c.from /\ task.pending = NoTransition

ParkClaim(w) ==
  LET c == call[w] IN
  /\ c.pc = "claim"
  /\ \/ /\ Claimable(c)
        /\ \E i \in Items : item[i] = "unborn"
        /\ task' = [task EXCEPT !.pending = c.tr]
        /\ Continue(w, [c EXCEPT !.pc = "emit"])
     \/ /\ ~Claimable(c)
        /\ Continue(w, [c EXCEPT !.pc = "rejected"])
        /\ UNCHANGED task
  /\ UNCHANGED <<auto, run, item, rec, faults, lost>>

EmitItem(w) ==
  /\ call[w].pc = "emit"
  /\ \E i \in Items :
       /\ item[i] = "unborn"
       /\ item' = [item EXCEPT ![i] = "pending"]
       /\ Continue(w, [call[w] EXCEPT !.pc = "link", !.item = i])
  /\ UNCHANGED <<task, auto, run, rec, faults, lost>>

\* Mutant: a failed filing leaves the claim behind.
RolledBackNever(tr) == task

\* emitGateApproval gives the claim back when no item could be filed.
RolledBack(tr) ==
  IF task.pending = tr /\ task.approval = NoItem
  THEN [task EXCEPT !.pending = NoTransition] ELSE task

\* An error of the database is no refusal: it goes up to the caller.
EmitFails(w) ==
  /\ call[w].pc = "emit"
  /\ faults < MaxFaults
  /\ faults' = faults + 1
  /\ task' = RolledBack(call[w].tr)
  /\ Continue(w, Finished(w))
  /\ UNCHANGED <<auto, run, item, rec, lost>>

Link(w) ==
  LET c == call[w] IN
  /\ c.pc = "link"
  /\ task' = IF task.pending = c.tr THEN [task EXCEPT !.approval = c.item] ELSE task
  /\ Continue(w, Finished(w))
  /\ UNCHANGED <<auto, run, item, rec, faults, lost>>

\* A decision, or the expiry sweep; then resumeTaskTransitionApproval.
Decide(i, d) ==
  /\ item[i] = "pending"
  /\ item' = [item EXCEPT ![i] = d]
  /\ Continue(i, [NoCall EXCEPT !.pc = IF d = "approved" THEN "check" ELSE "clear"])
  /\ UNCHANGED <<task, auto, run, rec, faults, lost>>

\* The item is the active gate of the task, as loaded.
Resolves(i) == task.approval = i

ResumeApproved(i) ==
  /\ call[i].pc = "check"
  /\ Continue(i, IF Resolves(i) THEN Calling(task.pending, FALSE) ELSE NoCall)
  /\ lost' = (lost \/ task.approval # i)
  /\ UNCHANGED <<task, auto, run, item, rec, faults>>

ResumeRejected(i) ==
  /\ call[i].pc = "clear"
  /\ task' = GateCleared(i)
  /\ Continue(i, NoCall)
  /\ lost' = (lost \/ task.approval # i)
  /\ UNCHANGED <<auto, run, item, rec, faults>>

\* updateTask of the payload the guards read.
UpdatePayload(b) ==
  /\ task.ok # b
  /\ task' = [task EXCEPT !.ok = b]
  /\ UNCHANGED <<call, auto, run, item, rec, faults, lost>>

(***************************************************************************)
(* The automation of a visit.                                              *)
(***************************************************************************)
\* loadTask: the token is that of the visit found.
AutoLoad(v) ==
  LET a == auto[v] IN
  /\ a.pc = "start"
  /\ Go(v, IF task.state # a.state THEN NoAutomation
           ELSE [a EXCEPT !.pc = "mark", !.token = task.visit,
                          !.was = (task.auto = "running")])
  /\ UNCHANGED <<task, call, run, item, rec, faults, lost>>

\* markDispatchRunning: an unlocked save of what differs from the loaded row.
AutoMark(v) ==
  LET a == auto[v] IN
  /\ a.pc = "mark"
  /\ task' = [task EXCEPT !.disp = NoRun, !.dst = "running",
                          !.auto = IF a.was THEN task.auto ELSE "running"]
  /\ Go(v, [a EXCEPT !.pc = "create", !.try = 1])
  /\ UNCHANGED <<call, run, item, rec, faults, lost>>

\* Mutant: the state is compared, not the visit.
CurrentByState(a) == task.state = a.state

\* stillInState, under the row lock.
Current(a) == task.state = a.state /\ task.visit = a.token

\* A write by the automation, discarded when the task has left its visit.
WriteLocked(a, r, st) ==
  task' = IF Current(a) THEN [task EXCEPT !.disp = r, !.dst = st] ELSE task

\* runOneAttempt: a retry clears the previous run before it starts its own.
AutoCreate(v) ==
  LET a == auto[v] IN
  /\ a.pc = "create"
  /\ IF a.try > 1 THEN WriteLocked(a, NoRun, "running") ELSE UNCHANGED task
  /\ run' = [run EXCEPT ![v][a.try] = [st |-> "inflight", for |-> a.token]]
  /\ Go(v, [a EXCEPT !.pc = "note"])
  /\ UNCHANGED <<call, item, rec, faults, lost>>

\* onDispatchStarted: the run is recorded before it is awaited.
AutoNote(v) ==
  LET a == auto[v] IN
  /\ a.pc = "note"
  /\ WriteLocked(a, [visit |-> v, try |-> a.try], "running")
  /\ Go(v, [a EXCEPT !.pc = "await"])
  /\ UNCHANGED <<call, run, item, rec, faults, lost>>

\* The run is durable: it comes to an end whatever became of its awaiter.
RunEnds(v, k, st) ==
  /\ run[v][k].st = "inflight"
  /\ ~(auto[v].pc = "note" /\ auto[v].try = k)
  /\ run' = [run EXCEPT ![v][k] = Ended(run[v][k], st)]
  /\ UNCHANGED <<task, call, auto, item, rec, faults, lost>>

MayRetry(a) == a.try < MaxAttempts

\* waitForOrchestrationRunSettlement returns; recordRetriedAttempt.
AutoSettled(v) ==
  LET a == auto[v] ended == run[v][auto[v].try].st IN
  /\ a.pc = "await" /\ ended # "inflight"
  /\ IF ended = "failed" /\ MayRetry(a)
     THEN /\ WriteLocked(a, [visit |-> v, try |-> a.try], "failed")
          /\ Go(v, [a EXCEPT !.pc = "backoff"])
     ELSE /\ Go(v, [a EXCEPT !.pc = "commit", !.ok = (ended = "succeeded")])
          /\ UNCHANGED task
  /\ UNCHANGED <<call, run, item, rec, faults, lost>>

\* waitForRetry.
AutoRetry(v) ==
  LET a == auto[v] IN
  /\ a.pc = "backoff"
  /\ Go(v, IF Current(a) THEN [a EXCEPT !.pc = "create", !.try = a.try + 1]
           ELSE NoAutomation)
  /\ UNCHANGED <<task, call, run, item, rec, faults, lost>>

\* The row with the outcome of run r.
Outcome(r, ok) ==
  [task EXCEPT !.auto = IF ok THEN "completed" ELSE "failed",
               !.disp = r, !.dst = IF ok THEN "completed" ELSE "failed"]

\* commitCompletion or handleFailure, then the routing of the outcome.
AutoCommit(v) ==
  LET a == auto[v] IN
  /\ a.pc = "commit"
  /\ IF Current(a)
     THEN /\ task' = Outcome([visit |-> v, try |-> a.try], a.ok)
          /\ \E tr \in IF a.ok THEN OnComplete[a.state] ELSE {OnFailure[a.state]} :
               Continue(v, Calling(tr, a.ok))
     ELSE UNCHANGED <<task, call>>
  /\ Go(v, NoAutomation)
  /\ UNCHANGED <<run, item, rec, faults, lost>>

(***************************************************************************)
(* reconcileOrphanedDispatches.                                            *)
(***************************************************************************)
\* Mutant: only a run that succeeded counts as settled.
OrphanOfSuccess(r) ==
  /\ ~Closed /\ task.auto = "running" /\ task.disp = r /\ r.visit # 0
  /\ run[r.visit][r.try].st = "succeeded"

\* findStaleDispatches and settledRun.
Orphan(r) ==
  /\ ~Closed /\ task.auto = "running" /\ task.disp = r /\ r.visit # 0
  /\ run[r.visit][r.try].st \in {"succeeded", "failed"}

RecFind ==
  /\ rec.pc = "idle" /\ call[Reconciler].pc = "idle"
  /\ task.state \in Automated
  /\ Orphan(task.disp)
  /\ rec' = [pc |-> "claim", visit |-> task.visit, disp |-> task.disp,
             ok |-> (run[task.disp.visit][task.disp.try].st = "succeeded")]
  /\ UNCHANGED <<task, call, auto, run, item, faults, lost>>

\* claimOrphanedDispatch, under the row lock.
StillOrphan == task.auto = "running" /\ task.visit = rec.visit /\ task.disp = rec.disp

RecClaim ==
  /\ rec.pc = "claim"
  /\ task' = IF StillOrphan THEN Outcome(rec.disp, rec.ok) ELSE task
  /\ rec' = IF StillOrphan THEN [rec EXCEPT !.pc = "route"] ELSE NoSweep
  /\ UNCHANGED <<call, auto, run, item, faults, lost>>

\* routeOrphanedDispatch reads the row again: whatever it has become is routed.
RecRoute ==
  LET ok == task.auto = "completed" IN
  /\ rec.pc = "route"
  /\ \/ /\ task.state \in Automated
        /\ \E tr \in IF ok THEN OnComplete[task.state] ELSE {OnFailure[task.state]} :
             Continue(Reconciler, IF task.disp = NoRun THEN NoCall ELSE Calling(tr, ok))
     \/ task.state \notin Automated /\ UNCHANGED call
  /\ rec' = NoSweep
  /\ UNCHANGED <<task, auto, run, item, faults, lost>>

\* The process dies with every call, automation and sweep of it.
Crash ==
  /\ faults < MaxFaults
  /\ \/ \E w \in Callers : call[w].pc \notin {"idle", "done"}
     \/ \E v \in Visits : auto[v].pc # "idle"
     \/ rec.pc # "idle"
  /\ faults' = faults + 1
  /\ call' = [w \in Callers |-> IF call[w].pc = "idle" THEN NoCall ELSE Finished(w)]
  /\ auto' = [v \in Visits |-> NoAutomation]
  /\ rec' = NoSweep
  /\ lost' = TRUE
  /\ UNCHANGED <<task, run, item>>

Transition(w) ==
  Load(w) \/ Apply(w) \/ Leave(w) \/ Refused(w) \/ ParkClaim(w) \/ EmitItem(w) \/ Link(w)

Resolution(i) == ResumeApproved(i) \/ ResumeRejected(i)

Automate(v) ==
  AutoLoad(v) \/ AutoMark(v) \/ AutoCreate(v) \/ AutoNote(v) \/ AutoSettled(v)
    \/ AutoRetry(v) \/ AutoCommit(v)

RunStops(v) == \E k \in 1..MaxAttempts, st \in {"succeeded", "failed"} : RunEnds(v, k, st)

Reconcile == RecFind \/ RecClaim \/ RecRoute

Next ==
  \/ \E w \in Requests, tr \in Transitions : Request(w, tr)
  \/ \E w \in Callers : Transition(w) \/ EmitFails(w)
  \/ \E i \in Items, d \in {"approved", "rejected"} : Decide(i, d)
  \/ \E i \in Items : Resolution(i)
  \/ \E b \in PayloadEdits : UpdatePayload(b)
  \/ \E v \in Visits : Automate(v) \/ RunStops(v)
  \/ Reconcile
  \/ Crash

(***************************************************************************)
(* The server goes on with what it has started, runs end, items expire and *)
(* the sweep comes round: one of these steps is taken as long as there is  *)
(* one.  No request is owed, no update of a payload, no fault.             *)
(***************************************************************************)
Server ==
  \/ \E w \in Callers : Transition(w)
  \/ \E i \in Items : Decide(i, "rejected") \/ Resolution(i)
  \/ \E v \in Visits : Automate(v) \/ RunStops(v)
  \/ Reconcile

Fairness == WF_vars(Server)

Spec == Init /\ [][Next]_vars
FairSpec == Spec /\ Fairness

(***************************************************************************)
(* Properties.                                                             *)
(***************************************************************************)
\* A gate that is taken always has somebody who will release it: the call that
\* is filing or linking its item, the item still to be decided, or the
\* resolution of that item on its way.  What breaks this is in "lost": a crash,
\* or a decision that found the gate not linked yet.
GateHasResolver ==
  task.pending # NoTransition =>
    \/ \E w \in Callers : call[w].pc \in {"emit", "link"} /\ call[w].tr = task.pending
    \/ task.approval # NoItem /\ (item[task.approval] = "pending" \/ call[task.approval].pc # "idle")
    \/ lost

Filing(w) == call[w].pc \in {"emit", "link"}
Resolving(i) == call[i].pc \in {"load", "apply", "rejected"}

\* One call at a time files an item, for the gate it holds; an approved item that is on
\* its way through transitionTask is the one the gate is linked to.
GateHeld ==
  /\ task.approval # NoItem => task.pending # NoTransition
  /\ \A w \in Callers : Filing(w) =>
       /\ w \notin Items /\ task.pending = call[w].tr /\ task.approval = NoItem
       /\ \A x \in Callers : Filing(x) => x = w
  /\ \A w \in Callers : call[w].pc = "link" =>
       LET i == call[w].item IN
       /\ i \in Items /\ item[i] # "unborn" /\ call[i].pc \in {"idle", "check", "clear"}
       /\ item[i] = "pending" \/ call[i].pc # "idle" \/ lost
  /\ \A i \in Items :
       /\ item[i] \in {"unborn", "pending"} => call[i].pc = "idle"
       /\ call[i].pc = "check" \/ Resolving(i) => item[i] = "approved"
       /\ Resolving(i) => task.approval = i /\ task.pending = call[i].tr
       /\ task.approval = i => item[i] # "unborn" /\ call[i].pc # "leave"
       /\ call[i].pc # "claim"

Started(r) == r # NoRun => r.visit # 0 /\ r.try # 0 /\ run[r.visit][r.try].st # "none"
Unlaunched(v) ==
  v > task.visit \/ \E w \in Callers : call[w].pc = "leave" /\ call[w].visit = v

\* A visit launches one automation, by the call that entered it; what the automation and
\* the sweep call is not called before.
LaunchInv ==
  /\ \A w \in Callers :
       /\ call[w].pc \notin {"idle", "check", "clear", "done"} => call[w].tr \in Transitions
       /\ call[w].pc = "leave" => /\ call[w].visit \in 1..task.visit /\ Started(call[w].prev)
                                  /\ \A x \in Callers : call[x].pc = "leave" =>
                                       (call[x].visit = call[w].visit => x = w)
  /\ \A v \in Visits :
       /\ Unlaunched(v) => /\ auto[v].pc = "idle" /\ call[v].pc = "idle"
                           /\ \A k \in 1..MaxAttempts : run[v][k].st = "none"
       /\ auto[v].pc # "idle" => auto[v].state \in Automated /\ call[v].pc = "idle"
  /\ rec.pc # "idle" => call[Reconciler].pc = "idle" /\ rec.disp # NoRun /\ Started(rec.disp)
  /\ rec.pc = "claim" /\ rec.ok => run[rec.disp.visit][rec.disp.try].st = "succeeded"

\* An automation starts each attempt once, for the visit of its token, and reports what
\* became of the last one.
AttemptInv == \A v \in Visits :
  LET a == auto[v] IN
  /\ a.pc \in {"start", "mark"} => \A k \in 1..MaxAttempts : run[v][k].st = "none"
  /\ a.pc \in {"create", "note", "await", "commit", "backoff"} =>
       /\ a.try # 0 /\ \A k \in 1..MaxAttempts : k > a.try => run[v][k].st = "none"
       /\ a.pc = "create" => run[v][a.try].st = "none"
       /\ a.pc # "create" => run[v][a.try].st # "none" /\ run[v][a.try].for = a.token
       /\ a.pc = "backoff" => a.try < MaxAttempts
       /\ a.pc = "commit" /\ a.ok => run[v][a.try].st = "succeeded"

\* The task, its dispatches and every call are well formed, no gate is orphaned, and each
\* visit is worked on by one automation.
GateInv ==
  TypeOK /\ GateHasResolver /\ GateHeld /\ LaunchInv /\ AttemptInv /\ Started(task.disp)

\* While a transition is parked nobody moves the task but the approval of the
\* very item that is its gate, and it moves where that transition goes.
FencedByGate ==
  [][task.pending # NoTransition /\ task'.visit # task.visit =>
       /\ task.approval # NoItem /\ item[task.approval] = "approved"
       /\ task'.state = To[task.pending]]_vars

\* The run a task shows was started for the visit the task is in, and one it
\* shows as completed has succeeded: no late outcome lands on another visit.
DispatchOfVisit ==
  task.disp # NoRun =>
    LET r == run[task.disp.visit][task.disp.try] IN
    /\ r.for = task.visit
    /\ task.dst = "completed" => r.st = "succeeded"

\* A gate is released in the end, unless it was lost: no transition stays pending.
GateDischarged == []<>(task.pending = NoTransition \/ lost)

\* A dispatch whose run is recorded does not read running for ever, whatever
\* happened to the process that awaited it.
DispatchRecovered == []<>(task.auto # "running" \/ task.disp = NoRun)
=============================================================================
