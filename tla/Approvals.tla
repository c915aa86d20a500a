------------------------------ MODULE Approvals ------------------------------
(***************************************************************************)
(* The approval queue of lib/approvals.ts, the expiry sweeper of           *)
(* lib/approvalScheduler.ts (built by createSweep in lib/scheduler.ts) and *)
(* the tool-call continuation of lib/agentToolApprovalContinuation.ts.     *)
(*                                                                         *)
(* Several server processes share one approval_items table.  An            *)
(* Emitter is one call of emitApproval, a Request is one call of           *)
(* approveApproval or rejectApproval; each is a program whose steps are    *)
(* the stretches between two awaits.  What a call knows between two steps  *)
(* is its own record, so everything it read may be stale when it writes.   *)
(***************************************************************************)
EXTENDS Naturals, FiniteSets

CONSTANTS Items,       \* identities a row of approval_items can take
          Keys,        \* dedup keys of tool-call proposals
          Hosts,       \* server processes that run a sweeper
          Emitters,    \* calls of emitApproval
          Requests,    \* calls of approveApproval / rejectApproval
          TTL,         \* expiresInSeconds
          BatchLimit,  \* BATCH_LIMIT of a sweep
          MaxTime,     \* bound: last instant of the clock
          MaxCrashes,  \* bound: process crashes
          Null

ASSUME TTLAssumption == TTL \in Nat
ASSUME TimeAssumption == MaxTime \in Nat
ASSUME CrashAssumption == MaxCrashes \in Nat
ASSUME BatchAssumption == BatchLimit \in Nat \ {0}
ASSUME NullAssumption == Null \notin Items \cup Keys \cup Requests

VARIABLES now,       \* the database and wall clock
          item,      \* the rows of approval_items
          emit,      \* emitApproval calls
          req,       \* approve / reject calls
          sweep,     \* per host: the batch an expiry sweep is working through
          notice,    \* resolutions on their way to the producer
          job,       \* detached tool-call continuations
          resumed,   \* history: decisions handed to the producer, per item
          executed,  \* history: executions of the proposed action
          claims,    \* history: guarded expiry updates won, per item
          crashes

vars == <<now, item, emit, req, sweep, notice, job, resumed, executed,
          claims, crashes>>

(***************************************************************************)
(* Rows and calls                                                          *)
(***************************************************************************)
Resolutions == {"approved", "rejected", "expired"}
Statuses == {"pending"} \cup Resolutions

Row == [status: {"absent"} \cup Statuses, key: Keys \cup {Null},
        expiresAt: 0..MaxTime, edited: Requests \cup {Null}]

Decision == [outcome: Statuses, edited: Requests \cup {Null}]

\* Work a process does after it resolved an item.
Notice == [by: Requests \cup Hosts, item: Items, decision: Decision \cup {Null}]
Job == [by: Requests \cup Hosts, item: Items, decision: Decision,
        stage: {"run", "fire"}]

Verbs == {"approved", "rejected"}
EmitCall == [pc: {"idle", "read", "insert", "reread", "done"},
             key: Keys \cup {Null}, ret: Items \cup {Null}]
ReqCall == [pc: {"idle", "read", "check", "save", "expire", "saved", "done"},
            verb: Verbs, edits: BOOLEAN, item: Items \cup {Null}, at: 0..MaxTime]

Pending(i) == item[i].status = "pending"
\* Mutant: the sweep looks at keyed rows only.
DueKeyedOnly(i, t) == Pending(i) /\ item[i].key # Null /\ item[i].expiresAt <= t

Due(i, t) == Pending(i) /\ item[i].expiresAt <= t
PendingFor(k) == {i \in Items : Pending(i) /\ item[i].key = k}

TypeOK ==
  /\ now \in 0..MaxTime
  /\ item \in [Items -> Row]
  /\ emit \in [Emitters -> EmitCall]
  /\ req \in [Requests -> ReqCall]
  /\ sweep \in [Hosts -> [at: 0..MaxTime, due: SUBSET Items]]
  /\ notice \in SUBSET Notice
  /\ job \in SUBSET Job
  /\ resumed \in [Items -> SUBSET [by: Requests \cup Hosts, decision: Decision]]
  /\ executed \in [Items -> SUBSET [by: Requests \cup Hosts, decision: Decision]]
  /\ claims \in [Items -> Nat]
  /\ crashes \in 0..MaxCrashes

Init ==
  /\ now = 0
  /\ item = [i \in Items |-> [status |-> "absent", key |-> Null,
                              expiresAt |-> 0, edited |-> Null]]
  /\ emit = [e \in Emitters |-> [pc |-> "idle", key |-> Null, ret |-> Null]]
  /\ req = [r \in Requests |-> [pc |-> "idle", verb |-> "rejected", edits |-> FALSE,
                                item |-> Null, at |-> 0]]
  /\ sweep = [h \in Hosts |-> [at |-> 0, due |-> {}]]
  /\ notice = {}
  /\ job = {}
  /\ resumed = [i \in Items |-> {}]
  /\ executed = [i \in Items |-> {}]
  /\ claims = [i \in Items |-> 0]
  /\ crashes = 0

(***************************************************************************)
(* emitApproval: the dedup read, then the insert guarded by the partial    *)
(* unique index on dedup_key WHERE status = 'pending'.                     *)
(***************************************************************************)
EmitStart(e) ==
  /\ emit[e].pc = "idle"
  /\ \E k \in Keys \cup {Null} :
       emit' = [emit EXCEPT ![e] = [pc |-> IF k = Null THEN "insert" ELSE "read",
                                    key |-> k, ret |-> Null]]
  /\ UNCHANGED <<now, item, req, sweep, notice, job, resumed, executed, claims,
                 crashes>>

\* findPendingByDedupKey, the fast path.
EmitRead(e) ==
  /\ emit[e].pc = "read"
  /\ \/ /\ PendingFor(emit[e].key) = {}
        /\ emit' = [emit EXCEPT ![e].pc = "insert"]
     \/ \E i \in PendingFor(emit[e].key) :
          emit' = [emit EXCEPT ![e].pc = "done", ![e].ret = i]
  /\ UNCHANGED <<now, item, req, sweep, notice, job, resumed, executed, claims,
                 crashes>>

\* Mutant: the migration that creates the unique index is missing.
NoIndex(k) == TRUE

\* The partial unique index of the table; it says nothing of a null key.
IndexAdmits(k) == k = Null \/ PendingFor(k) = {}

EmitInsert(e) ==
  /\ emit[e].pc = "insert"
  /\ IndexAdmits(emit[e].key)
  /\ now + TTL <= MaxTime      \* bound: file only what the clock can expire
  /\ \E i \in Items :
       /\ item[i].status = "absent"
       /\ item' = [item EXCEPT ![i] = [status |-> "pending", key |-> emit[e].key,
                                       expiresAt |-> now + TTL, edited |-> Null]]
       /\ emit' = [emit EXCEPT ![e].pc = "done", ![e].ret = i]
  /\ UNCHANGED <<now, req, sweep, notice, job, resumed, executed, claims, crashes>>

\* The insert lost the index: look the winner up in a later statement.
EmitConflict(e) ==
  /\ emit[e].pc = "insert"
  /\ ~IndexAdmits(emit[e].key)
  /\ emit' = [emit EXCEPT ![e].pc = "reread"]
  /\ UNCHANGED <<now, item, req, sweep, notice, job, resumed, executed, claims,
                 crashes>>

\* No winner any more (it resolved meanwhile): the unique violation is rethrown.
EmitReread(e) ==
  /\ emit[e].pc = "reread"
  /\ \/ /\ PendingFor(emit[e].key) = {}
        /\ emit' = [emit EXCEPT ![e].pc = "done"]
     \/ \E i \in PendingFor(emit[e].key) :
          emit' = [emit EXCEPT ![e].pc = "done", ![e].ret = i]
  /\ UNCHANGED <<now, item, req, sweep, notice, job, resumed, executed, claims,
                 crashes>>

(***************************************************************************)
(* approveApproval and rejectApproval: read, assertResolvable, re-check    *)
(* the expiry, save.  save() writes the row by primary key only.           *)
(***************************************************************************)
ReqStart(r) ==
  /\ req[r].pc = "idle"
  /\ \E i \in Items, v \in Verbs, b \in BOOLEAN :
       /\ item[i].status # "absent"
       /\ b => v = "approved"
       /\ req' = [req EXCEPT ![r].pc = "read", ![r].item = i, ![r].verb = v,
                             ![r].edits = b]
  /\ UNCHANGED <<now, item, emit, sweep, notice, job, resumed, executed, claims,
                 crashes>>

\* findApprovalOrThrow and assertResolvable (APPROVAL_ALREADY_RESOLVED).
ReqRead(r) ==
  /\ req[r].pc = "read"
  /\ req' = [req EXCEPT ![r].pc = IF Pending(req[r].item) THEN "check" ELSE "done"]
  /\ UNCHANGED <<now, item, emit, sweep, notice, job, resumed, executed, claims,
                 crashes>>

\* Mutant: the expiry re-check is dropped.
ReqCheckNothing(r) ==
  /\ req[r].pc = "check"
  /\ req' = [req EXCEPT ![r].pc = "save", ![r].at = now]
  /\ UNCHANGED <<now, item, emit, sweep, notice, job, resumed, executed, claims,
                 crashes>>

\* assertNotExpiredOrExpire: the snapshot's expiresAt against the clock.
ReqCheck(r) ==
  /\ req[r].pc = "check"
  /\ req' = [req EXCEPT
       ![r].pc = IF item[req[r].item].expiresAt <= now THEN "expire" ELSE "save",
       ![r].at = now]
  /\ UNCHANGED <<now, item, emit, sweep, notice, job, resumed, executed, claims,
                 crashes>>

\* Mutant: the status is not set.
SavedWithoutStatus(row, r) == [row EXCEPT !.edited = IF req[r].edits THEN r ELSE @]

\* item.save(): the changed columns of the snapshot, WHERE id = ... alone.
Saved(row, r) ==
  [row EXCEPT !.status = req[r].verb,
              !.edited = IF req[r].edits THEN r ELSE @]

ReqSave(r) ==
  /\ req[r].pc = "save"
  /\ item' = [item EXCEPT ![req[r].item] = Saved(@, r)]
  /\ req' = [req EXCEPT ![r].pc = "saved"]
  /\ notice' = notice \cup {[by |-> r, item |-> req[r].item, decision |-> Null]}
  /\ UNCHANGED <<now, emit, sweep, job, resumed, executed, claims, crashes>>

(***************************************************************************)
(* The guarded UPDATE ... SET status = 'expired' WHERE status = 'pending'  *)
(* AND expires_at <= now, shared by the request path (expireApprovalIfDue) *)
(* and the sweeper; the winner announces.                                  *)
(***************************************************************************)
ExpireRow(i, t, who) ==
  IF Due(i, t)
  THEN /\ item' = [item EXCEPT ![i].status = "expired"]
       /\ claims' = [claims EXCEPT ![i] = @ + 1]
       /\ notice' = notice \cup {[by |-> who, item |-> i, decision |-> Null]}
  ELSE UNCHANGED <<item, claims, notice>>

ReqExpire(r) ==
  /\ req[r].pc = "expire"
  /\ ExpireRow(req[r].item, req[r].at, r)
  /\ req' = [req EXCEPT ![r].pc = "done"]
  /\ UNCHANGED <<now, emit, sweep, job, resumed, executed, crashes>>

\* The ids a sweep may read: due, oldest expiry first, at most BatchLimit.
Batches(t) ==
  {B \in SUBSET {i \in Items : Due(i, t)} :
     /\ Cardinality(B) <= BatchLimit
     /\ \A i \in B, j \in Items \ B :
          Due(j, t) => /\ item[i].expiresAt <= item[j].expiresAt
                       /\ Cardinality(B) = BatchLimit}

SweepFind(h) ==
  /\ sweep[h].due = {}
  /\ \E B \in Batches(now) :
       /\ B # {}
       /\ sweep' = [sweep EXCEPT ![h] = [at |-> now, due |-> B]]
  /\ UNCHANGED <<now, item, emit, req, notice, job, resumed, executed, claims,
                 crashes>>

\* Claim of one row of the batch, at the instant the sweep started with.
SweepClaim(h) ==
  \E i \in sweep[h].due :
    /\ \A j \in sweep[h].due : item[i].expiresAt <= item[j].expiresAt
    /\ sweep' = [sweep EXCEPT ![h].due = @ \ {i}]
    /\ ExpireRow(i, sweep[h].at, h)
    /\ UNCHANGED <<now, emit, req, job, resumed, executed, crashes>>

(***************************************************************************)
(* finalizeResolution / announceApprovalExpired: re-fetch the row, build   *)
(* the decision from what is there now, then notify the resume handlers.   *)
(***************************************************************************)
Refetch(n) ==
  /\ n \in notice
  /\ n.decision = Null
  /\ notice' = (notice \ {n}) \cup
       {[n EXCEPT !.decision = [outcome |-> item[n.item].status,
                                edited |-> item[n.item].edited]]}
  /\ UNCHANGED <<now, item, emit, req, sweep, job, resumed, executed, claims,
                 crashes>>

\* Mutant: the handlers are only called for a positive decision.
NotifyApproved(n) ==
  /\ n \in notice
  /\ n.decision # Null
  /\ notice' = notice \ {n}
  /\ resumed' = [resumed EXCEPT ![n.item] = IF n.decision.outcome = "approved"
       THEN @ \cup {[by |-> n.by, decision |-> n.decision]} ELSE @]
  /\ UNCHANGED <<now, item, emit, req, sweep, job, executed, claims, crashes>>

\* notifyResume: a keyed item came from a tool call, whose handler detaches
\* runToolCallContinuation; the other producers resume in place.
Notify(n) ==
  /\ n \in notice
  /\ n.decision # Null
  /\ notice' = notice \ {n}
  /\ resumed' = [resumed EXCEPT
       ![n.item] = @ \cup {[by |-> n.by, decision |-> n.decision]}]
  /\ job' = IF item[n.item].key = Null THEN job
            ELSE job \cup {[by |-> n.by, item |-> n.item, decision |-> n.decision,
                            stage |-> IF n.decision.outcome = "approved"
                                      THEN "run" ELSE "fire"]}
  /\ UNCHANGED <<now, item, emit, req, sweep, executed, claims, crashes>>

\* executeApprovedAction: callTool with the frozen or edited arguments.
RunTool(j) ==
  /\ j \in job
  /\ j.stage = "run"
  /\ executed' = [executed EXCEPT
       ![j.item] = @ \cup {[by |-> j.by, decision |-> j.decision]}]
  /\ job' = (job \ {j}) \cup {[j EXCEPT !.stage = "fire"]}
  /\ UNCHANGED <<now, item, emit, req, sweep, notice, resumed, claims, crashes>>

\* fireContinuation: the agent is told the decision; the job is over.
FireContinuation(j) ==
  /\ j \in job
  /\ j.stage = "fire"
  /\ job' = job \ {j}
  /\ UNCHANGED <<now, item, emit, req, sweep, notice, resumed, executed, claims,
                 crashes>>

(***************************************************************************)
(* The environment                                                         *)
(***************************************************************************)
Tick ==
  /\ now < MaxTime
  /\ now' = now + 1
  /\ UNCHANGED <<item, emit, req, sweep, notice, job, resumed, executed, claims,
                 crashes>>

\* The process of one call, or of one sweeper, dies with everything it had in
\* memory; the sweeper is restarted.  Processes that serve several calls and die
\* together are several of these steps.  A dead emitApproval call is one that
\* takes no further step.
Crash(p) ==
  /\ crashes < MaxCrashes
  /\ crashes' = crashes + 1
  /\ req' = [r \in Requests |-> IF r = p /\ req[r].pc # "saved"
                                THEN [req[r] EXCEPT !.pc = "done"] ELSE req[r]]
  /\ sweep' = [h \in Hosts |-> IF h = p THEN [sweep[h] EXCEPT !.due = {}] ELSE sweep[h]]
  /\ notice' = {n \in notice : n.by # p}
  /\ job' = {j \in job : j.by # p}
  /\ UNCHANGED <<now, item, emit, resumed, executed, claims>>

EmitStep(e) == EmitStart(e) \/ EmitRead(e) \/ EmitInsert(e) \/ EmitConflict(e)
                 \/ EmitReread(e)
ReqStep(r) == ReqRead(r) \/ ReqCheck(r) \/ ReqSave(r) \/ ReqExpire(r)

Next ==
  \/ \E e \in Emitters : EmitStep(e)
  \/ \E r \in Requests : ReqStart(r) \/ ReqStep(r)
  \/ \E h \in Hosts : SweepFind(h) \/ SweepClaim(h)
  \/ \E n \in notice : Refetch(n) \/ Notify(n)
  \/ \E j \in job : RunTool(j) \/ FireContinuation(j)
  \/ \E p \in Requests \cup Hosts : Crash(p)
  \/ Tick

Spec == Init /\ [][Next]_vars

\* The interval timer keeps sweeping, a call that started keeps running, and
\* time passes; nobody is obliged to call.
Fairness ==
  /\ WF_vars(Tick)
  /\ \A r \in Requests : WF_vars(ReqStep(r))
  /\ \A h \in Hosts : WF_vars(SweepFind(h) \/ SweepClaim(h))
  /\ WF_vars(\E n \in notice : Refetch(n) \/ Notify(n))
  /\ WF_vars(\E j \in job : RunTool(j) \/ FireContinuation(j))

FairSpec == Spec /\ Fairness

(***************************************************************************)
(* Properties                                                              *)
(***************************************************************************)

\* However emits, resolutions and crashes interleave, a proposal is in the
\* queue at most once: at most one pending item per dedup key (emitApproval).
SinglePending == \A k \in Keys : Cardinality(PendingFor(k)) <= 1

\* Nobody is ever resumed with decision 'pending': buildDecisionOutput casts
\* the re-fetched status to approved | rejected | expired, and the re-fetch is
\* a later statement than the write that resolved the item.
DecisionIsTerminal ==
  /\ \A n \in notice : n.decision # Null => n.decision.outcome \in Resolutions
  /\ \A i \in Items : \A d \in resumed[i] : d.decision.outcome \in Resolutions

\* r approved i after its expiry re-check passed.
ApprovedBefore(r, i) ==
  /\ req[r].pc = "saved"
  /\ req[r].item = i
  /\ req[r].verb = "approved"
  /\ req[r].at < item[i].expiresAt

\* Decision d about item i is backed by what its approvers did in time.
Backed(d, i) ==
  /\ d.outcome = "approved" => \E r \in Requests : ApprovedBefore(r, i)
  /\ d.edited # Null => ApprovedBefore(d.edited, i)

\* What is left of the hard expiry gate under races: a producer is resumed
\* with 'approved', and the proposed action runs, only if some approver passed
\* the re-check before expiresAt; edited arguments are those of such an approver.
ApprovedInTime ==
  \A i \in Items : \A d \in resumed[i] \cup executed[i] : Backed(d.decision, i)

\* The sweepers of all hosts and the resolution path together expire an item
\* at most once (the comment of expireApprovalIfDue).
ExpiredOnce == \A i \in Items : claims[i] <= 1

\* No item stays in the queue for ever: past expiresAt a sweep finds it even
\* when nobody decides and processes die between its steps, so again and again
\* the queue is empty.
PendingEnds == []<>(\A i \in Items : ~Pending(i))

\* Unless a process dies, every resolution reaches the producer, and an approved
\* tool call is executed: what is resolved ends up announced, for good.
ProducerResumed ==
  <>[](\A i \in Items :
         /\ item[i].status \in Resolutions => resumed[i] # {} \/ crashes > 0
         /\ (item[i].key # Null /\ \E d \in resumed[i] : d.decision.outcome = "approved")
              => executed[i] # {} \/ crashes > 0)

(***************************************************************************)
(* The inductive invariant behind the safety properties                    *)
(***************************************************************************)
Resolved(i) == item[i].status \in Resolutions

\* A call under way is about a row that exists, and one about to save
\* passed the re-check.
CallInv(r) ==
  /\ req[r].edits => req[r].verb = "approved"
  /\ req[r].pc \in {"read", "check", "save", "expire", "saved"} => req[r].item # Null
  /\ req[r].item # Null => item[req[r].item].status # "absent"
  /\ req[r].pc = "save" => req[r].at < item[req[r].item].expiresAt
CallsInv == \A r \in Requests : CallInv(r)

\* What a row says was decided is backed by its approvers.
RowInv(i) ==
  /\ item[i].status = "approved" => \E r \in Requests : ApprovedBefore(r, i)
  /\ item[i].edited # Null => ApprovedBefore(item[i].edited, i)
  /\ claims[i] = 0 \/ (claims[i] = 1 /\ Resolved(i))
RowsInv == \A i \in Items : RowInv(i)

\* What is announced is resolved, with a decision that is terminal and backed.
Sound(d, i) == d.outcome \in Resolutions /\ Backed(d, i)
NoticeInv(n) == Resolved(n.item) /\ (n.decision # Null => Sound(n.decision, n.item))
NoticesInv ==
  /\ \A n \in notice : NoticeInv(n)
  /\ \A j \in job : Sound(j.decision, j.item)
  /\ \A i \in Items : \A d \in resumed[i] \cup executed[i] : Sound(d.decision, i)

\* The pending rows of one key are one row.
IndexInv ==
  \A i, j \in Items :
    Pending(i) /\ Pending(j) /\ item[i].key = item[j].key /\ item[i].key # Null
      => i = j

IndInv == TypeOK /\ CallsInv /\ RowsInv /\ NoticesInv /\ IndexInv
=============================================================================
