------------------------------ MODULE RunQueue ------------------------------
(***************************************************************************)
(* The orchestration run queue: claimRunTasks and ackRunTask of            *)
(* lib/orchestrationQueue.ts on PostgreSQL, and the workers of             *)
(* lib/orchestrationWorker.ts that drain it.                               *)
(*                                                                         *)
(* A Drain is one call of drainQueueOnce; a worker process runs several at *)
(* once (its timer does not wait, and kickWorker starts one more).  The    *)
(* claim is one transaction: lock the due rows (SKIP LOCKED), take the     *)
(* advisory lock of every limited project one by one, count their occupied *)
(* slots, update the chosen rows and commit.                               *)
(*                                                                         *)
(* Time is relative.  A lease is the number of ticks it has left, negative *)
(* once it expired; a transaction that read its clock a ticks ago sees a   *)
(* lease of left ticks as one of left + a.                                 *)
(***************************************************************************)
EXTENDS Integers, FiniteSets

CONSTANTS Tasks, Runs, Projects, Workers, Drains,
          RunOf,        \* the run of a task
          ProjectOf,    \* the project of a run
          WorkerOf,     \* the process of a drain
          MaxRuns,      \* max_concurrent_runs of a project, or NoLimit
          NoLimit,
          Batch,        \* ORCHESTRATION_WORKER_BATCH
          Concurrency,  \* ORCHESTRATION_WORKER_CONCURRENCY
          TTL,          \* ORCHESTRATION_TASK_LEASE_TTL_MS
          MaxAge,       \* bound: ticks a claim transaction lasts
          MaxFaults     \* bound: crashes and handler failures

ASSUME MapsAssumption ==
  /\ RunOf \in [Tasks -> Runs]
  /\ ProjectOf \in [Runs -> Projects]
  /\ WorkerOf \in [Drains -> Workers]
  /\ Projects \subseteq Nat  \* database ids, compared by the lock order
  /\ MaxRuns \in [Projects -> (Nat \ {0}) \cup {NoLimit}]
ASSUME SizesAssumption ==
  /\ Batch \in Nat \ {0} /\ Concurrency \in Nat \ {0}
  /\ MaxAge \in Nat /\ TTL \in Nat /\ TTL > MaxAge /\ MaxFaults \in Nat
ASSUME FiniteAssumption == IsFiniteSet(Tasks) /\ IsFiniteSet(Runs) /\ IsFiniteSet(Drains)

VARIABLES task,      \* the rows of orchestration_run_tasks
          drain,     \* the drainQueueOnce calls
          inFlight,  \* per process: the module variable inFlight
          faults

vars == <<task, drain, inFlight, faults>>

\* A lease past this is expired for every transaction, however old.
Floor == -(MaxAge + 1)

Row == [st: {"unborn", "queued", "claimed", "acked"}, at: Nat, left: Floor..TTL]

Call == [pc: {"idle", "select", "occupancy", "commit", "return", "drive"},
         limit: 0..Batch, age: 0..MaxAge, left: Floor..TTL,
         cands: SUBSET Tasks, locks: SUBSET Projects, occ: [Projects -> Nat],
         held: SUBSET Tasks, driven: SUBSET Tasks]

Idle == [pc |-> "idle", limit |-> 0, age |-> 0, left |-> Floor, cands |-> {},
         locks |-> {}, occ |-> [p \in Projects |-> 0], held |-> {}, driven |-> {}]

TypeOK ==
  /\ task \in [Tasks -> Row]
  /\ drain \in [Drains -> Call]
  /\ inFlight \in [Workers -> Int]
  /\ faults \in 0..MaxFaults

Init ==
  /\ task = [t \in Tasks |-> [st |-> "unborn", at |-> 0, left |-> Floor]]
  /\ drain = [d \in Drains |-> Idle]
  /\ inFlight = [w \in Workers |-> 0]
  /\ faults = 0

Present(t) == task[t].st \in {"queued", "claimed"}

\* The call d goes on as c.
Continue(d, c) == drain' = [drain EXCEPT ![d] = c]

\* enqueueRunTask.  at is the rank of available_at; no two rows share one.
Enqueue(t) ==
  /\ task[t].st = "unborn"
  /\ task' = [task EXCEPT ![t].st = "queued",
                          ![t].at = Cardinality({u \in Tasks : task[u].st # "unborn"})]
  /\ UNCHANGED <<drain, inFlight, faults>>

(***************************************************************************)
(* drainQueueOnce: the claim limit is computed from inFlight before the    *)
(* claim is awaited.                                                       *)
(***************************************************************************)
Minimum(a, b) == IF a <= b THEN a ELSE b

EffectiveClaimLimit(n) ==
  IF Concurrency - n <= 0 THEN 0 ELSE Minimum(Batch, Concurrency - n)

DrainBegin(d) ==
  /\ drain[d].pc = "idle"
  /\ Continue(d, [Idle EXCEPT !.pc = "select",
                              !.limit = EffectiveClaimLimit(inFlight[WorkerOf[d]])])
  /\ UNCHANGED <<task, inFlight, faults>>

\* Mutants: a lease counts as expired at its last instant; nothing is redelivered.
DueAtExpiry(t, a) ==
  task[t].st = "queued" \/ (task[t].st = "claimed" /\ task[t].left + a <= 0)
DueOnce(t, a) == task[t].st = "queued"

\* Rows a transaction of age a may claim: unclaimed, or redelivered.
DueFor(t, a) ==
  \/ task[t].st = "queued"
  \/ task[t].st = "claimed" /\ task[t].left + a < 0

InTransaction(d) == drain[d].pc \in {"occupancy", "commit"}

\* Mutant: the claim takes no row locks.
LockedNever(t) == FALSE

\* FOR UPDATE SKIP LOCKED.
Locked(t) == \E d \in Drains : InTransaction(d) /\ t \in drain[d].cands

Limited(p) == MaxRuns[p] # NoLimit

\* selectDueCandidates: the oldest due rows nobody else locks, at most limit.
DrainSelect(d) ==
  LET free == {t \in Tasks : DueFor(t, drain[d].age) /\ ~Locked(t)}
      rows == {t \in free :
                 Cardinality({u \in free : task[u].at < task[t].at}) < drain[d].limit}
  IN /\ drain[d].pc = "select"
     /\ Continue(d, IF rows = {} THEN Idle
                    ELSE [drain[d] EXCEPT !.cands = rows, !.pc = "occupancy"])
     /\ UNCHANGED <<task, inFlight, faults>>

\* The runs of a project that hold a slot: a claimed task whose lease is valid.
Occupants(p, a) ==
  {r \in Runs : ProjectOf[r] = p /\
     \E t \in Tasks : RunOf[t] = r /\ task[t].st = "claimed" /\ task[t].left + a > 0}

ProjectsOf(C) == {ProjectOf[RunOf[t]] : t \in C}

LimitedCandidates(d) == {p \in ProjectsOf(drain[d].cands) : Limited(p)}

Missing(d) == LimitedCandidates(d) \ drain[d].locks

\* Mutant: the locks are taken in the order of the candidates.
NextLockAsMet(d, p) ==
  /\ p \in Missing(d)
  /\ \E t \in drain[d].cands :
       /\ ProjectOf[RunOf[t]] = p
       /\ \A u \in drain[d].cands :
            ProjectOf[RunOf[u]] \in Missing(d) => task[t].at <= task[u].at

\* The lock a claim takes next: ascending project ids.
NextLock(d, p) == p \in Missing(d) /\ \A q \in Missing(d) : p <= q

\* Mutant: the lock of a project excludes nobody.
LockFreeAlways(d, p) == TRUE

\* pg_advisory_xact_lock.
LockFree(d, p) == \A e \in Drains \ {d} : InTransaction(e) => p \notin drain[e].locks

DrainLock(d) ==
  /\ drain[d].pc = "occupancy"
  /\ \E p \in Projects :
       /\ NextLock(d, p) /\ LockFree(d, p)
       /\ Continue(d, [drain[d] EXCEPT !.locks = @ \cup {p}])
  /\ UNCHANGED <<task, inFlight, faults>>

\* loadProjectOccupancy counts once it holds every lock.
DrainOccupancy(d) ==
  /\ drain[d].pc = "occupancy" /\ Missing(d) = {}
  /\ Continue(d, [drain[d] EXCEPT
       !.pc = "commit",
       !.occ = [p \in Projects |-> IF p \in drain[d].locks
                                   THEN Cardinality(Occupants(p, drain[d].age)) ELSE 0]])
  /\ UNCHANGED <<task, inFlight, faults>>

\* selectClaimableUnderLimit: walking the candidates oldest first, a run is
\* granted a slot when it is first met and occupancy + granted < limit; the
\* run's later candidates ride on its slot.
Before(C, q, r) ==
  \E t \in C : RunOf[t] = q /\ \A u \in C : RunOf[u] = r => task[t].at < task[u].at

Granted(C, occ, r) ==
  LET p == ProjectOf[r]
  IN \/ ~Limited(p)
     \/ occ[p] + Cardinality({q \in Runs : ProjectOf[q] = p /\ Before(C, q, r)}) < MaxRuns[p]

Chosen(C, occ) == {t \in C : Granted(C, occ, RunOf[t])}

\* The UPDATE of the chosen rows and the commit, which frees every lock.
DrainCommit(d) ==
  LET B == Chosen(drain[d].cands, drain[d].occ)
      lease == TTL - drain[d].age
  IN /\ drain[d].pc = "commit"
     /\ task' = [t \in Tasks |-> IF t \in B
                                 THEN [task[t] EXCEPT !.st = "claimed", !.left = lease]
                                 ELSE task[t]]
     /\ Continue(d, IF B = {} THEN Idle
                    ELSE [Idle EXCEPT !.pc = "return", !.left = lease, !.held = B])
     /\ UNCHANGED <<inFlight, faults>>

\* Mutant: the rows updated are counted, not the rows reloaded.
ReturnUpdated(d) ==
  LET B == {t \in drain[d].held : Present(t)}
  IN /\ drain[d].pc = "return"
     /\ Continue(d, IF B = {} THEN Idle
                    ELSE [drain[d] EXCEPT !.pc = "drive", !.held = B])
     /\ inFlight' = [inFlight EXCEPT ![WorkerOf[d]] = @ + Cardinality(drain[d].held)]
     /\ UNCHANGED <<task, faults>>

\* The claimed rows are reloaded, those deleted meanwhile are not found; only now
\* inFlight grows.
DrainReturn(d) ==
  LET B == {t \in drain[d].held : Present(t)}
  IN /\ drain[d].pc = "return"
     /\ Continue(d, IF B = {} THEN Idle
                    ELSE [drain[d] EXCEPT !.pc = "drive", !.held = B])
     /\ inFlight' = [inFlight EXCEPT ![WorkerOf[d]] = @ + Cardinality(B)]
     /\ UNCHANGED <<task, faults>>

(***************************************************************************)
(* The tasks of a batch are driven side by side; each is acknowledged when *)
(* handleRunTask returns, or left to its lease when it throws.             *)
(***************************************************************************)
Held(d, t) == drain[d].pc = "drive" /\ t \in drain[d].held

Drive(d, t) ==
  /\ Held(d, t)
  /\ t \notin drain[d].driven
  /\ Continue(d, [drain[d] EXCEPT !.driven = @ \cup {t}])
  /\ UNCHANGED <<task, inFlight, faults>>

\* One task leaves the batch; the call returns with the last.
Release(d, t) ==
  /\ Continue(d, IF drain[d].held = {t} THEN Idle
                 ELSE [drain[d] EXCEPT !.held = @ \ {t}, !.driven = @ \ {t}])
  /\ inFlight' = [inFlight EXCEPT ![WorkerOf[d]] = @ - 1]

\* ackRunTask deletes the row by id, whoever holds its lease by now; the DELETE
\* waits for a claim transaction that locks the row.
Ack(d, t) ==
  /\ Held(d, t)
  /\ t \in drain[d].driven
  /\ ~Locked(t)
  /\ task' = [task EXCEPT ![t].st = "acked", ![t].left = Floor]
  /\ Release(d, t)
  /\ UNCHANGED faults

\* handleRunTask or the DELETE throws.
Fail(d, t) ==
  /\ Held(d, t)
  /\ faults < MaxFaults
  /\ faults' = faults + 1
  /\ Release(d, t)
  /\ UNCHANGED task

(***************************************************************************)
(* The environment                                                         *)
(***************************************************************************)
Older(x) == IF x > Floor THEN x - 1 ELSE x

Tick ==
  /\ \A d \in Drains : drain[d].pc \in {"select", "occupancy", "commit"}
                         => drain[d].age < MaxAge
  /\ task' = [t \in Tasks |-> [task[t] EXCEPT !.left = Older(@)]]
  /\ drain' = [d \in Drains |->
       [drain[d] EXCEPT !.left = Older(@),
          !.age = IF drain[d].pc \in {"select", "occupancy", "commit"} THEN @ + 1 ELSE @]]
  /\ UNCHANGED <<inFlight, faults>>

\* A worker process dies: open transactions roll back, batches are forgotten.
Crash(w) ==
  /\ faults < MaxFaults
  /\ faults' = faults + 1
  /\ drain' = [d \in Drains |-> IF WorkerOf[d] = w THEN Idle ELSE drain[d]]
  /\ inFlight' = [inFlight EXCEPT ![w] = 0]
  /\ UNCHANGED task

DrainStep(d) ==
  DrainBegin(d) \/ DrainSelect(d) \/ DrainLock(d) \/ DrainOccupancy(d) \/ DrainCommit(d)
    \/ DrainReturn(d)
HandleStep(d) == \E t \in Tasks : Drive(d, t) \/ Ack(d, t)

Next ==
  \/ \E t \in Tasks : Enqueue(t)
  \/ \E d \in Drains : DrainStep(d) \/ HandleStep(d)
  \/ \E d \in Drains, t \in Tasks : Fail(d, t)
  \/ \E w \in Workers : Crash(w)
  \/ Tick

Spec == Init /\ [][Next]_vars

\* The worker timer keeps draining, a statement completes and a handler returns
\* sooner or later.  Strong fairness twice: time passes although some transaction is
\* always open (only the bound MaxAge disables Tick), and a DELETE queued on a row
\* lock gets it although others lock the row again and again.
Fairness ==
  /\ SF_vars(Tick)
  /\ \A d \in Drains : WF_vars(DrainStep(d)) /\ SF_vars(HandleStep(d))

FairSpec == Spec /\ Fairness

(***************************************************************************)
(* Properties                                                              *)
(***************************************************************************)
\* What the contract sees of the queue.
PresentTasks == {t \in Tasks : Present(t)}
DoneTasks == {t \in Tasks : task[t].st = "acked"}
LeasedTo(t) == {d \in Drains : t \in drain[d].held /\ drain[d].left >= 0}
DeliveredTo(t) == {d \in Drains : t \in drain[d].held}

\* The queue implements the contract of the driver interface.
Contract == INSTANCE QueueContract WITH
  Claimers <- Drains,
  present <- PresentTasks,
  done <- DoneTasks,
  leasedTo <- [t \in Tasks |-> LeasedTo(t)],
  delivered <- [t \in Tasks |-> DeliveredTo(t)]
ImplementsContract == Contract!Spec

\* Exclusive claim: two concurrent claimers never hold a valid lease on one task,
\* although their transactions read their clocks at different instants.
ExclusiveLease ==
  \A t \in Tasks, d, e \in Drains :
    /\ t \in drain[d].held /\ drain[d].left >= 0
    /\ t \in drain[e].held /\ drain[e].left >= 0
    => d = e

\* A project never has more runs on lease-valid claims than max_concurrent_runs,
\* however many workers claim at once.
SlotsWithinLimit ==
  \A p \in Projects : Limited(p) => Cardinality(Occupants(p, 0)) <= MaxRuns[p]

(***************************************************************************)
(* The inductive invariant behind ExclusiveLease and SlotsWithinLimit      *)
(***************************************************************************)
\* Every row has a rank of its own.
RankInv ==
  LET born == {t \in Tasks : task[t].st # "unborn"}
  IN /\ \A t \in born : task[t].at < Cardinality(born)
     /\ \A t, u \in born : task[t].at = task[u].at => t = u

\* A claim holds rows and locks while its transaction is open, and a batch after it.
PhaseInv ==
  \A d \in Drains :
    /\ drain[d].pc \notin {"return", "drive"} => drain[d].held = {}
    /\ ~InTransaction(d) => drain[d].cands = {} /\ drain[d].locks = {}

\* Locked rows stay due and belong to one transaction.
RowLocksInv ==
  \A d \in Drains : \A t \in drain[d].cands :
    /\ DueFor(t, drain[d].age)
    /\ \A e \in Drains : t \in drain[e].cands => d = e

\* A project lock belongs to one transaction, and none counts without its locks.
ProjectLocksInv ==
  \A d \in Drains :
    /\ \A p \in drain[d].locks :
         Limited(p) /\ \A e \in Drains : p \in drain[e].locks => d = e
    /\ drain[d].pc = "commit" => Missing(d) = {}

\* A valid lease of a batch is the lease in its row, unless somebody acknowledged the row.
LeaseInv ==
  \A d \in Drains : \A t \in drain[d].held :
    /\ task[t].st # "unborn"
    /\ drain[d].left >= 0 =>
         \/ task[t].st = "acked"
         \/ task[t].st = "claimed" /\ task[t].left = drain[d].left

\* Between the count and the commit nobody else takes a slot of the project.
OccupancyInv ==
  \A d \in Drains : \A p \in drain[d].locks :
    drain[d].pc = "commit" => Cardinality(Occupants(p, 0)) <= drain[d].occ[p]

\* A claim takes its locks in ascending order of the projects.
LockOrderInv ==
  \A d \in Drains : drain[d].pc = "occupancy" =>
    \A p \in drain[d].locks, q \in Missing(d) : p < q

\* Rows keep the ranks they were queued in; between its locks and its commit a claim owns
\* its rows and its projects, and its count of slots cannot go stale; a batch whose
\* lease is valid is the one its rows name; and locks are taken in ascending order.
ClaimInv ==
  RankInv /\ PhaseInv /\ RowLocksInv /\ ProjectLocksInv /\ LeaseInv /\ OccupancyInv
    /\ LockOrderInv

\* Claims never wait for each other's project locks in a circle, whatever projects
\* their candidates are of.
NoCircularWait ==
  LET Waits(d, e) == drain[d].pc = "occupancy" /\ \E p \in drain[e].locks : NextLock(d, p)
  IN \A D \in (SUBSET Drains) \ {{}} : \E d \in D : \A e \in D : ~Waits(d, e)

\* inFlight counts exactly the tasks the process claimed and has not let go.
InFlightExact ==
  \A w \in Workers :
    inFlight[w] = Cardinality({x \in Drains \X Tasks :
                                 WorkerOf[x[1]] = w /\ Held(x[1], x[2])})

\* Every task is acknowledged in the end, through crashes, failed handlers, full
\* projects and drives that outlive their lease.
EveryTaskAcked == \A t \in Tasks : Present(t) ~> ~Present(t)

=============================================================================
