----------------------- MODULE OrchestrationRunProofs -----------------------
(***************************************************************************)
(* For any number of processes, any plans and any bounds on tasks, faults, *)
(* cancellations and answers: the row keeps what a sleeper needs, drives go*)
(* on where the run stopped, one process drives at a time as long as       *)
(* nothing is lost or held twice, and success means that all was done.     *)
(***************************************************************************)
EXTENDS OrchestrationRun, Integers, TLAPS

\* The plan is a chain, so progress is a prefix of it: nothing, or the nodes up to k.
Prefix(S) == \E k \in {0} \cup Nodes : S = 1..k
Before(n) == 1..(n - 1)

\* What the history variable remembers.
SeenInv == \A sign \in Signs : Shows(sign) => sign \in seen

\* What a program counter says of its drive.
PcOK(d) ==
  /\ d.pc \in {"idle", "decided", "resume"} => d.task = 0
  /\ d.pc = "resume" => d.snap.status = "awaiting_input"
  /\ d.pc \in DrivePcs => d.snap.status \notin Terminal
  /\ d.act # {} => d.pc = "round"
  /\ d.pc \in {"nap", "park", "emit"} => d.node # 0
  /\ d.pc = "settle" /\ d.end = "awaiting_input" => d.node # 0

PcInv == \A h \in Hosts : PcOK(drive[h])

\* Nobody has driven a run whose row is absent or queued: it has no progress, no wake and
\* no checkpoint, and a drive that loaded it queued knows of none.  driveQueuedRun starts
\* over with that instance.
QueuedInv ==
  /\ row.status = "absent" =>
       /\ \A i \in 1..MaxTasks : tasks[i] = "none"
       /\ \A h \in Hosts : call[h] # "starting" /\ sweep[h] = "idle"
  /\ row.status \in {"absent", "queued"} =>
       /\ row.art = {} /\ row.ctx = 0 /\ row.wake = "none" /\ ckpt = {}
       /\ \A h \in Hosts :
            Driving(h) => /\ row.status = "queued"
                          /\ drive[h].pc = "prepare" /\ drive[h].snap.status = "queued"
  /\ \A h \in Hosts :
       drive[h].pc = "prepare" /\ drive[h].snap.status = "queued" =>
         drive[h].snap.art = {} /\ drive[h].snap.ctx = 0

\* An instance taken at a pause knows of no wake.
WakeOK(d) == d.pc \in DrivePcs /\ d.snap.status = "awaiting_input" => d.snap.wake = "none"

\* Unless a pause overwrote a wake: a sleeper has its wake, and no drive can erase it by
\* saving an instance that knows of one.
WakeInv ==
  "paused with a wake" \notin seen =>
    /\ row.status = "sleeping" => row.wake # "none"
    /\ \A h \in Hosts : WakeOK(drive[h])

\* Where a drive is in the plan.
Placed(d) ==
  /\ d.pc = "resume" =>
       /\ d.node = 0 \/ d.node \in d.snap.active
       /\ \A n \in d.snap.active : d.snap.art = Before(n)
  /\ d.pc \in {"round", "nap", "park", "emit", "settle"} => Prefix(d.done)
  /\ \A n \in d.act : d.done = Before(n)
  /\ (d.pc \in {"nap", "park", "emit"} \/ (d.pc = "settle" /\ d.end = "awaiting_input")) =>
       d.done = Before(d.node)

\* Its instance has the progress of the row.
InStep(d) ==
  d.pc \in DrivePcs =>
    d.snap.art = row.art /\ d.snap.ctx = row.ctx /\ d.snap.active = row.active

\* Where the run stopped, as the row says.
RowPlaced ==
  /\ Prefix(row.art) /\ Prefix(ckpt)
  /\ row.ctx # 0 => row.art = Before(row.ctx)
  /\ row.status = "awaiting_input" => \A n \in row.active : row.art = Before(n)

\* As long as drives follow each other the row, the checkpoint and every drive stand at a
\* prefix of the plan, and a drive's instance has the progress of the row.
FrontierInv ==
  "two drives" \notin seen =>
    RowPlaced /\ \A h \in Hosts : Placed(drive[h]) /\ InStep(drive[h])

\* Somebody is about to drive the run, or does.
Token(k, x) ==
  \/ k = "call" /\ x \in Hosts /\ call[x] = "starting"
  \/ k = "sweep" /\ x \in Hosts /\ sweep[x] \in {"enqueue wake", "enqueue continue"}
  \/ k = "task" /\ x \in 1..MaxTasks /\ tasks[x] # "none" /\ \A h \in Hosts : ~Holds(h, x)
  \/ k = "drive" /\ x \in Hosts /\ Driving(x)

Ts == {"call", "sweep", "task", "drive"}
Xs == Hosts \cup (1..MaxTasks)
\* How many of them there are: none, or at most one.
NoToken == \A k \in Ts, x \in Xs : ~Token(k, x)
OneToken == \A k, l \in Ts, x, y \in Xs : Token(k, x) /\ Token(l, y) => k = l /\ x = y

\* The run stopped at node n.
StoppedAt(n) == n \in Nodes /\ row.art = Before(n) /\ ckpt = Before(n)

\* A wake is on its way to a drive.
Waking ==
  \/ row.wake # "none"
  \/ \E h \in Hosts : sweep[h] = "enqueue wake"
  \/ \E i \in 1..MaxTasks : tasks[i] = "wake" /\ Token("task", i)
  \/ \E h \in Hosts : drive[h].pc = "prepare" /\ drive[h].kind = "wake"

\* The run is paused at one node, where its checkpoint is.
Paused == \E n \in row.active : row.active = {n} /\ StoppedAt(n)

\* What a drive that is through with the plan, or stops in it, has done.
Whole(d) ==
  /\ d.pc = "round" /\ d.act = {} => d.done = Nodes
  /\ d.pc = "settle" /\ d.end = "succeeded" => d.done = Nodes
  /\ d.pc = "emit" => d.end = "awaiting_input"
  /\ (d.pc \in {"park", "emit"} \/ (d.pc = "settle" /\ d.end = "awaiting_input")) => ckpt = d.done

\* Who may be about to drive the run, by its row.
RowOrder ==
  /\ row.status \in {"absent", "succeeded", "failed"} => NoToken
  /\ row.wake # "none" => NoToken /\ row.status \in {"sleeping", "cancelled"}
  /\ row.status = "running" /\ row.lease = "lapsed" => NoToken
  /\ row.status = "sleeping" => row.wake # "none"
  /\ row.status = "awaiting_input" =>
       \A k \in Ts, x \in Xs : Token(k, x) => k = "drive" /\ drive[x].pc = "resume"

\* Nobody drives with an instance that knows of a wake, or of a pause it did not end.
SnapOK(d) ==
  d.pc \in DrivePcs =>
    /\ d.snap.wake = "none"
    /\ d.pc # "resume" => d.snap.status \notin {"sleeping", "awaiting_input"}

\* While nothing is lost, held twice or answered twice, the run is handed from one holder
\* to the next: of the calls, claims, tasks and drives there is one at a time, and the
\* row says which there may be.
Ordered ==
  "two drives" \notin seen /\ OneToken /\ RowOrder /\ \A h \in Hosts : SnapOK(drive[h])

OrderInv == Orderly => Ordered

\* And progress is not lost on the way: a wake, an answer and a success find the row and
\* the checkpoint where the run stopped.
Complete ==
  /\ row.status = "succeeded" => row.art = Nodes
  /\ Waking => StoppedAt(row.ctx)
  /\ row.status = "awaiting_input" => Paused
  /\ \A h \in Hosts : Whole(drive[h]) /\ (drive[h].pc = "resume" => Paused)

WholeInv == Orderly => Complete

\* The inductive invariant.  WakeInv gives SleepingHasWake and FrontierInv gives
\* ContinuesWhereStopped, each under the history that SeenInv ties to the state; OrderInv
\* gives SoleDriver; WholeInv gives SucceededIsWhole, by OrderInv, which rules two drives
\* out, and FrontierInv, which says what is left of the plan then.
IndInv == SeenInv /\ PcInv /\ QueuedInv /\ WakeInv /\ FrontierInv /\ OrderInv /\ WholeInv


\* The nodes of a plan are numbered from one.
LEMMA NodesTyped ==
  ASSUME Parameters, TypeOK
  PROVE  /\ Len(plan) \in Nat /\ Nodes = 1..Len(plan)
         /\ \A n \in Nodes : plan[n] \in Kinds
<1>1. plan \in Seq(Kinds)
  BY DEF Parameters, TypeOK
<1> QED BY <1>1 DEF Nodes

\* Only the drive of h moves.
Moves(h) == drive' \in [Hosts -> Drive] /\ \A g \in Hosts \ {h} : drive'[g] = drive[g]

\* What the statements of a drive do to the row and to the instance.
LEMMA SavedLease ==
  ASSUME row \in Row, NEW snap \in Row
  PROVE  /\ Saved([lease |-> "valid"], snap) = [row EXCEPT !.lease = "valid"]
         /\ Kept([lease |-> "valid"], snap) = [snap EXCEPT !.lease = "valid"]
<1>1. DOMAIN row = {"status", "art", "active", "ctx", "wake", "lease"}
  BY DEF Row
<1>2. DOMAIN snap = {"status", "art", "active", "ctx", "wake", "lease"}
  BY DEF Row
<1>3. Saved([lease |-> "valid"], snap) = [row EXCEPT !.lease = "valid"]
  BY <1>1 DEF Saved, Fresh, Row
<1>4. Kept([lease |-> "valid"], snap) = [snap EXCEPT !.lease = "valid"]
  BY <1>2 DEF Kept, Row
<1> QED BY <1>3, <1>4

\* driveQueuedRun writes a status its instance does not have.
LEMMA SavedStart ==
  ASSUME row \in Row, NEW snap \in Row, snap.status # "running",
         NEW v, v = [status |-> "running", lease |-> "valid"]
  PROVE  /\ Saved(v, snap) = [row EXCEPT !.status = "running", !.lease = "valid"]
         /\ Kept(v, snap) = [snap EXCEPT !.status = "running", !.lease = "valid"]
<1> DEFINE F == {"status", "art", "active", "ctx", "wake", "lease"}
<1>1. DOMAIN row = F /\ DOMAIN snap = F
  BY DEF Row
<1>2. Saved(v, snap) = [f \in F |->
        IF f \in DOMAIN v /\ (Fresh(v, f) \/ v[f] # snap[f]) THEN v[f] ELSE row[f]]
  BY <1>1 DEF Saved
<1>3. Kept(v, snap) = [f \in F |-> IF f \in DOMAIN v THEN v[f] ELSE snap[f]]
  BY <1>1 DEF Kept
<1>4. Saved(v, snap) = [row EXCEPT !.status = "running", !.lease = "valid"]
  <2>1. DOMAIN v = {"status", "lease"} /\ v["status"] = "running" /\ v["lease"] = "valid"
    OBVIOUS
  <2> DEFINE S == Saved(v, snap)
  <2>2. DOMAIN S = F
    BY <1>2
  <2>3. S["status"] = "running" /\ S["lease"] = "valid"
    BY <2>1, <1>2 DEF Fresh
  <2>4. S["art"] = row["art"] /\ S["ctx"] = row["ctx"] /\ S["wake"] = row["wake"]
    BY <2>1, <1>2
  <2>5. S["active"] = row["active"]
    BY <2>1, <1>2 DEF Fresh
  <2>6. S = [f \in F |-> S[f]]
    BY <1>2
  <2> HIDE DEF S
  <2>7. S = [row EXCEPT !.status = "running", !.lease = "valid"]
    BY <1>1, <2>2, <2>3, <2>4, <2>5, <2>6 DEF Row
  <2> QED BY <2>7 DEF S
<1>5. Kept(v, snap) = [snap EXCEPT !.status = "running", !.lease = "valid"]
  BY <1>1, <1>3 DEF Row
<1> QED BY <1>4, <1>5

\* So does a resume, which writes the active nodes if its instance has others.
LEMMA SavedResume ==
  ASSUME row \in Row, NEW snap \in Row, snap.status # "running",
         NEW v, v.status = "running", v.lease = "valid",
         DOMAIN v = {"status", "active", "lease"}
  PROVE  /\ Saved(v, snap) =
              [row EXCEPT !.status = "running", !.lease = "valid",
                          !.active = IF v.active # snap.active THEN v.active ELSE row.active]
         /\ Kept(v, snap) = [snap EXCEPT !.status = "running", !.lease = "valid", !.active = v.active]
<1> DEFINE F == {"status", "art", "active", "ctx", "wake", "lease"}
<1>1. DOMAIN row = F /\ DOMAIN snap = F
  BY DEF Row
<1>2. Saved(v, snap) = [f \in F |->
        IF f \in DOMAIN v /\ (Fresh(v, f) \/ v[f] # snap[f]) THEN v[f] ELSE row[f]]
  BY <1>1 DEF Saved
<1>3. Kept(v, snap) = [f \in F |-> IF f \in DOMAIN v THEN v[f] ELSE snap[f]]
  BY <1>1 DEF Kept
<1>4. Saved(v, snap) = [row EXCEPT !.status = "running", !.lease = "valid",
                          !.active = IF v.active # snap.active THEN v.active ELSE row.active]
  <2>1. /\ DOMAIN v = {"status", "active", "lease"}
        /\ v["status"] = "running" /\ v["active"] = v.active /\ v["lease"] = "valid"
    OBVIOUS
  <2> DEFINE S == Saved(v, snap)
  <2>2. DOMAIN S = F
    BY <1>2
  <2>3. S["status"] = "running" /\ S["lease"] = "valid"
    BY <2>1, <1>2 DEF Fresh
  <2>4. S["art"] = row["art"] /\ S["ctx"] = row["ctx"] /\ S["wake"] = row["wake"]
    BY <2>1, <1>2
  <2>5. S["active"] = IF v["active"] # snap["active"] THEN v["active"] ELSE row["active"]
    BY <2>1, <1>2 DEF Fresh
  <2>6. S = [f \in F |-> S[f]]
    BY <1>2
  <2> HIDE DEF S
  <2>7. S = [row EXCEPT !.status = "running", !.lease = "valid",
                          !.active = IF v.active # snap.active THEN v.active ELSE row.active]
    BY <1>1, <2>2, <2>3, <2>4, <2>5, <2>6 DEF Row
  <2> QED BY <2>7 DEF S
<1>5. Kept(v, snap) = [snap EXCEPT !.status = "running", !.lease = "valid", !.active = v.active]
  BY <1>1, <1>3 DEF Row
<1> QED BY <1>4, <1>5

\* A drive that comes to rest writes every field its instance has otherwise.
LEMMA SavedRest ==
  ASSUME row \in Row, NEW snap \in Row,
         NEW v, v.lease = "none",
         DOMAIN v = {"status", "art", "active", "ctx", "wake", "lease"}
  PROVE  Saved(v, snap) =
     [status |-> IF v.status # snap.status THEN v.status ELSE row.status,
      art |-> IF v.art # snap.art THEN v.art ELSE row.art,
      active |-> IF v.active # snap.active THEN v.active ELSE row.active,
      ctx |-> IF v.ctx # snap.ctx THEN v.ctx ELSE row.ctx,
      wake |-> IF v.wake # "none" \/ v.wake # snap.wake THEN v.wake ELSE row.wake,
      lease |-> IF snap.lease # "none" THEN "none" ELSE row.lease]
<1>1. DOMAIN row = {"status", "art", "active", "ctx", "wake", "lease"}
  BY DEF Row
<1>2. Saved(v, snap) = [f \in {"status", "art", "active", "ctx", "wake", "lease"} |->
     IF f \in DOMAIN v /\ (Fresh(v, f) \/ v[f] # snap[f]) THEN v[f] ELSE row[f]]
  BY <1>1 DEF Saved
<1> QED BY <1>1, <1>2 DEF Fresh, Row

LEMMA RestedTyped ==
  ASSUME Parameters, TypeOK, NEW h \in Hosts
  PROVE  /\ Rested(drive[h]) \in Drive
         /\ Rested(drive[h]).act = {} /\ Rested(drive[h]).task = drive[h].task
         /\ Rested(drive[h]).pc = IF drive[h].task = 0 THEN "idle" ELSE "ack"
<1>1. drive[h] \in Drive
  BY DEF TypeOK
<1>2. NoRow \in Row
  BY DEF NoRow, Row, Statuses, Terminal
<1>3. Idle \in Drive
  BY <1>2 DEF Idle, Drive, Parameters, Terminal
<1>4. [Idle EXCEPT !.pc = "ack", !.task = drive[h].task] \in Drive
  BY <1>1, <1>3 DEF Drive
<1> QED BY <1>1, <1>3, <1>4 DEF Rested, Drive, Idle

\* What an EXCEPT says of the drives.
LEMMA MovesTo ==
  ASSUME TypeOK, NEW h \in Hosts, NEW e \in Drive, drive' = [drive EXCEPT ![h] = e]
  PROVE  Moves(h) /\ drive'[h] = e
BY DEF TypeOK, Moves

LEMMA IdleTyped ==
  ASSUME Parameters
  PROVE  NoRow \in Row /\ Idle \in Drive
<1>1. NoRow \in Row
  BY DEF NoRow, Row, Statuses, Terminal
<1> QED BY <1>1 DEF Idle, Drive, Parameters, Terminal

\* Whoever is idle drives nothing and holds no task.
LEMMA IdleRests ==
  ASSUME NEW d, d = Idle
  PROVE  d.pc = "idle" /\ d.pc \notin DrivePcs /\ d.act = {} /\ d.task = 0
BY DEF Idle, DrivePcs

(***************************************************************************)
(* The effect of each statement, field by field.                           *)
(***************************************************************************)
LEMMA StartWaitingEffect ==
  ASSUME Parameters, TypeOK, NEW h \in Hosts, StartWaiting(h)
  PROVE  /\ row.status = "absent" /\ drive[h].pc = "idle"
         /\ row' = [row EXCEPT !.status = "running", !.lease = "valid"]
         /\ Moves(h)
         /\ drive'[h].pc = "round" /\ drive'[h].task = 0 /\ drive'[h].kind = "none"
         /\ drive'[h].snap = row' /\ drive'[h].done = {} /\ drive'[h].act = Start
         /\ UNCHANGED <<plan, ckpt, tasks, items, sweep, call, bounds>>
<1> DEFINE new == [row EXCEPT !.status = "running", !.lease = "valid"]
           e == [Idle EXCEPT !.pc = "round", !.inline = TRUE, !.snap = new, !.act = Start]
<1>1. new \in Row
  BY DEF TypeOK, Row, Statuses
<1>2. e \in Drive
  BY <1>1, IdleTyped DEF Drive, Start
<1>3. drive' = [drive EXCEPT ![h] = e] /\ row' = new
  BY DEF StartWaiting
<1>4. Moves(h) /\ drive'[h] = e
  BY <1>2, <1>3, MovesTo
<1>5. e.pc = "round" /\ e.task = 0 /\ e.kind = "none" /\ e.snap = new /\ e.done = {} /\ e.act = Start
  BY DEF Idle
<1> QED BY <1>3, <1>4, <1>5 DEF StartWaiting

LEMMA DeliverEffect ==
  ASSUME Parameters, TypeOK, NEW h \in Hosts, NEW i \in 1..MaxTasks, Deliver(h, i)
  PROVE  /\ drive[h].pc = "idle" /\ tasks[i] # "none"
         /\ Moves(h) /\ drive'[h].task = i /\ drive'[h].act = {}
         /\ \/ row.status \in Terminal /\ drive'[h].pc = "ack"
            \/ /\ row.status \notin Terminal /\ drive'[h].pc = "prepare"
               /\ drive'[h].kind = tasks[i] /\ drive'[h].snap = row
         /\ IF \E g \in Hosts : Holds(g, i) THEN Eventful /\ faults' = faults + 1
            ELSE faults' = faults
         /\ UNCHANGED <<plan, row, ckpt, tasks, items, sweep, call, answers, cancels>>
<1> DEFINE e == [Idle EXCEPT !.pc = "ack", !.task = i]
           f == [Idle EXCEPT !.pc = "prepare", !.task = i, !.kind = tasks[i], !.snap = row]
<1>0. tasks[i] \in {"none", "continue", "wake"} /\ row \in Row
  BY DEF TypeOK
<1>1. i \in 0..MaxTasks /\ tasks[i] \in {"none", "continue", "wake"} /\ row \in Row
  BY <1>0 DEF Parameters
<1>2. e \in Drive /\ f \in Drive
  BY <1>1, IdleTyped DEF Drive
<1>3. drive' = [drive EXCEPT ![h] = IF row.status \in Terminal THEN e ELSE f]
  BY DEF Deliver
<1>4. /\ e.pc = "ack" /\ e.task = i /\ e.act = {}
      /\ f.pc = "prepare" /\ f.task = i /\ f.kind = tasks[i] /\ f.snap = row /\ f.act = {}
  BY DEF Idle
<1>5. Moves(h) /\ drive'[h] = IF row.status \in Terminal THEN e ELSE f
  BY <1>2, <1>3, MovesTo
<1> QED BY <1>4, <1>5 DEF Deliver

LEMMA DriveQueuedEffect ==
  ASSUME Parameters, TypeOK, NEW h \in Hosts, DriveQueued(h)
  PROVE  /\ drive[h].pc = "prepare" /\ drive[h].snap.status = "queued"
         /\ row' = [row EXCEPT !.status = "running", !.lease = "valid"]
         /\ Moves(h)
         /\ drive'[h].pc = "round" /\ drive'[h].task = drive[h].task
         /\ drive'[h].kind = drive[h].kind
         /\ drive'[h].snap = [drive[h].snap EXCEPT !.status = "running", !.lease = "valid"]
         /\ drive'[h].done = drive[h].snap.art /\ drive'[h].act = Start
         /\ UNCHANGED <<plan, ckpt, tasks, items, sweep, call, bounds>>
<1> DEFINE d == drive[h]
           kept == [d.snap EXCEPT !.status = "running", !.lease = "valid"]
           e == [d EXCEPT !.pc = "round", !.done = d.snap.art, !.act = Start, !.snap = kept]
<1>0. d.snap.status = "queued" /\ d.pc = "prepare"
  BY DEF DriveQueued, Preparing
<1>1. d \in Drive /\ row \in Row /\ d.snap \in Row
  BY DEF TypeOK, Drive
<1>2. /\ Saved([status |-> "running", lease |-> "valid"], d.snap)
           = [row EXCEPT !.status = "running", !.lease = "valid"]
      /\ Kept([status |-> "running", lease |-> "valid"], d.snap) = kept
  BY <1>0, <1>1, SavedStart
<1>3. kept \in Row /\ d.snap.art \in SUBSET Nodes
  BY <1>1 DEF Row, Statuses
<1>4. e \in Drive
  BY <1>1, <1>3 DEF Drive, Start
<1>5. drive' = [drive EXCEPT ![h] = e]
  BY <1>1, <1>2 DEF DriveQueued, Update, Drive
<1>6. Moves(h) /\ drive'[h] = e
  BY <1>4, <1>5, MovesTo
<1>7. /\ e.pc = "round" /\ e.task = d.task /\ e.kind = d.kind /\ e.snap = kept
      /\ e.done = d.snap.art /\ e.act = Start
  BY <1>1 DEF Drive
<1> QED BY <1>0, <1>2, <1>6, <1>7 DEF DriveQueued, Update

LEMMA RedriveEffect ==
  ASSUME Parameters, TypeOK, NEW h \in Hosts, Redrive(h)
  PROVE  /\ drive[h].pc = "prepare" /\ drive[h].snap.status # "queued"
         /\ Moves(h)
         /\ drive'[h].pc = "round" /\ drive'[h].task = drive[h].task
         /\ drive'[h].kind = drive[h].kind
         /\ drive'[h].snap = drive[h].snap
         /\ drive'[h].done = drive[h].snap.art \cup ckpt
         /\ drive'[h].act = (Following(drive'[h].done) \cup Start) \ drive'[h].done
         /\ UNCHANGED <<plan, row, ckpt, tasks, items, sweep, call, bounds>>
<1> DEFINE d == drive[h]
           done == d.snap.art \cup ckpt
           e == [d EXCEPT !.pc = "round", !.done = done,
                          !.act = (Following(done) \cup Start) \ done]
<1>1. d \in Drive /\ d.snap \in Row /\ done \in SUBSET Nodes
  BY DEF TypeOK, Drive, Row
<1>2. e \in Drive
  BY <1>1 DEF Drive, Start, Following
<1>3. Moves(h) /\ drive'[h] = e
  BY <1>2, MovesTo DEF Redrive
<1>4. /\ e.pc = "round" /\ e.task = d.task /\ e.kind = d.kind /\ e.snap = d.snap
      /\ e.done = done /\ e.act = (Following(done) \cup Start) \ done
  BY <1>1 DEF Drive
<1> QED BY <1>3, <1>4 DEF Redrive, Preparing

LEMMA WakeEffect ==
  ASSUME Parameters, TypeOK, NEW h \in Hosts, Wake(h)
  PROVE  /\ drive[h].pc = "prepare" /\ drive[h].kind = "wake"
         /\ drive[h].snap.ctx \in Nodes /\ drive[h].snap.ctx # 0
         /\ Moves(h)
         /\ drive'[h].pc = "round" /\ drive'[h].task = drive[h].task
         /\ drive'[h].kind = drive[h].kind
         /\ drive'[h].snap = drive[h].snap
         /\ drive'[h].done = drive[h].snap.art \cup ckpt \cup {drive[h].snap.ctx}
         /\ drive'[h].act = Following({drive[h].snap.ctx}) \ drive'[h].done
         /\ UNCHANGED <<plan, row, ckpt, tasks, items, sweep, call, bounds>>
<1> DEFINE d == drive[h]
           done == d.snap.art \cup ckpt \cup {d.snap.ctx}
           e == [d EXCEPT !.pc = "round", !.done = done, !.act = Following({d.snap.ctx}) \ done]
<1>1. d \in Drive /\ d.snap \in Row /\ d.snap.ctx \in Nodes
  BY DEF TypeOK, Drive, Row, Wake
<1>2. done \in SUBSET Nodes
  BY <1>1 DEF TypeOK, Row
<1>3. e \in Drive
  BY <1>1, <1>2 DEF Drive, Following
<1>4. Moves(h) /\ drive'[h] = e
  BY <1>3, MovesTo DEF Wake
<1>5. /\ e.pc = "round" /\ e.task = d.task /\ e.kind = d.kind /\ e.snap = d.snap
      /\ e.done = done /\ e.act = Following({d.snap.ctx}) \ done
  BY <1>1 DEF Drive
<1> QED BY <1>1, <1>4, <1>5 DEF Wake, Preparing

LEMMA WakeWithoutContextEffect ==
  ASSUME Parameters, TypeOK, NEW h \in Hosts, WakeWithoutContext(h)
  PROVE  /\ drive[h].pc = "prepare" /\ drive[h].kind = "wake" /\ drive[h].snap.ctx = 0
         /\ Moves(h)
         /\ drive'[h].pc = (IF drive[h].task = 0 THEN "idle" ELSE "ack")
         /\ drive'[h].task = drive[h].task /\ drive'[h].act = {}
         /\ UNCHANGED <<plan, row, ckpt, tasks, items, sweep, call, bounds>>
<1>1. Rested(drive[h]) \in Drive
  BY RestedTyped
<1>2. Moves(h) /\ drive'[h] = Rested(drive[h])
  BY <1>1, MovesTo DEF WakeWithoutContext, TypeOK
<1> QED BY <1>2, RestedTyped DEF WakeWithoutContext, Preparing

LEMMA RoundEffect ==
  ASSUME Parameters, TypeOK, NEW h \in Hosts, Round(h)
  PROVE  \E n \in drive[h].act :
         /\ drive[h].pc = "round"
         /\ row' = [row EXCEPT !.lease = "valid"]
         /\ Moves(h)
         /\ drive'[h].task = drive[h].task /\ drive'[h].kind = drive[h].kind
         /\ drive'[h].snap = [drive[h].snap EXCEPT !.lease = "valid"]
         /\ \/ /\ drive'[h].pc = "round" /\ ckpt' = drive[h].done \cup {n}
               /\ drive'[h].done = drive[h].done \cup {n}
               /\ drive'[h].act = Following({n}) \ drive'[h].done
            \/ /\ drive'[h].pc \in {"nap", "park", "emit", "settle"} /\ ckpt' = drive[h].done
               /\ drive'[h].done = drive[h].done
               /\ drive'[h].act = {} /\ drive'[h].node = n
               /\ drive'[h].end = "awaiting_input"
         /\ UNCHANGED <<plan, tasks, items, sweep, call, bounds>>
<1> DEFINE d == drive[h]
           kept == [d.snap EXCEPT !.lease = "valid"]
           e(n) == [d EXCEPT !.done = d.done \cup {n}, !.act = Following({n}) \ (d.done \cup {n}),
                             !.snap = kept]
           f(n) == [d EXCEPT !.pc = StopAt(plan[n], d.inline), !.act = {}, !.node = n,
                             !.end = "awaiting_input", !.snap = kept]
<1>1. d \in Drive /\ row \in Row /\ d.snap \in Row
  BY DEF TypeOK, Drive
<1>2. /\ Saved([lease |-> "valid"], d.snap) = [row EXCEPT !.lease = "valid"]
      /\ Kept([lease |-> "valid"], d.snap) = kept
  BY <1>1, SavedLease
<1>3. PICK n \in d.act :
        /\ d.pc = "round"
        /\ IF plan[n] = "effect"
           THEN /\ ckpt' = d.done \cup {n}
                /\ Update(h, [lease |-> "valid"],
                          [d EXCEPT !.done = d.done \cup {n},
                                    !.act = Following({n}) \ (d.done \cup {n})])
           ELSE /\ ckpt' = d.done
                /\ Update(h, [lease |-> "valid"],
                         [d EXCEPT !.pc = StopAt(plan[n], d.inline), !.act = {}, !.node = n,
                                   !.end = "awaiting_input"])
        /\ UNCHANGED <<plan, tasks, items, sweep, call, bounds>>
  BY DEF Round
<1>4. n \in Nodes /\ plan[n] \in Kinds
  BY <1>1, NodesTyped DEF Drive
<1>5. kept \in Row
  BY <1>1 DEF Row
<1>6. CASE plan[n] = "effect"
  <2>1. row' = [row EXCEPT !.lease = "valid"] /\ drive' = [drive EXCEPT ![h] = e(n)]
    BY <1>1, <1>2, <1>3, <1>6 DEF Update, Drive
  <2>2. e(n) \in Drive
    BY <1>1, <1>4, <1>5 DEF Drive, Following
  <2>3. Moves(h) /\ drive'[h] = e(n)
    BY <2>1, <2>2, MovesTo
  <2>4. /\ e(n).pc = d.pc /\ e(n).task = d.task /\ e(n).kind = d.kind /\ e(n).snap = kept
        /\ e(n).done = d.done \cup {n} /\ e(n).act = Following({n}) \ (d.done \cup {n})
    BY <1>1 DEF Drive
  <2> QED BY <1>3, <1>6, <2>1, <2>3, <2>4
<1>7. CASE plan[n] # "effect"
  <2>1. row' = [row EXCEPT !.lease = "valid"] /\ drive' = [drive EXCEPT ![h] = f(n)]
    BY <1>1, <1>2, <1>3, <1>7 DEF Update, Drive
  <2>2. StopAt(plan[n], d.inline) \in {"nap", "park", "emit", "settle"}
    BY <1>4, <1>7 DEF StopAt, Kinds
  <2>3. f(n) \in Drive
    BY <1>1, <1>4, <1>5, <2>2 DEF Drive
  <2>4. Moves(h) /\ drive'[h] = f(n)
    BY <2>1, <2>3, MovesTo
  <2>5. /\ f(n).pc = StopAt(plan[n], d.inline) /\ f(n).task = d.task /\ f(n).kind = d.kind
        /\ f(n).snap = kept /\ f(n).done = d.done /\ f(n).act = {} /\ f(n).node = n
        /\ f(n).end = "awaiting_input"
    BY <1>1 DEF Drive
  <2> QED BY <1>3, <1>7, <2>1, <2>2, <2>4, <2>5
<1> QED BY <1>6, <1>7

LEMMA RoundFailsEffect ==
  ASSUME Parameters, TypeOK, NEW h \in Hosts, RoundFails(h)
  PROVE  /\ drive[h].pc = "round" /\ drive'[h].pc = "settle"
         /\ Moves(h)
         /\ drive'[h].task = drive[h].task /\ drive'[h].kind = drive[h].kind
         /\ drive'[h].snap = drive[h].snap /\ drive'[h].done = drive[h].done
         /\ drive'[h].act = {} /\ drive'[h].end = "failed"
         /\ UNCHANGED <<plan, row, ckpt, tasks, items, sweep, call, bounds>>
<1> DEFINE d == drive[h]
           e == [d EXCEPT !.pc = "settle", !.act = {}, !.end = "failed"]
<1>1. d \in Drive
  BY DEF TypeOK
<1>2. e \in Drive
  BY <1>1 DEF Drive, Terminal
<1>t. drive \in [Hosts -> Drive]
  BY DEF TypeOK
<1>3. drive' = [drive EXCEPT ![h] = e]
  BY <1>t, <1>1 DEF RoundFails, Drive
<1>4. Moves(h) /\ drive'[h] = e
  BY <1>2, <1>3, MovesTo
<1>5. /\ e.pc = "settle" /\ e.task = d.task /\ e.kind = d.kind /\ e.snap = d.snap
      /\ e.done = d.done /\ e.act = {} /\ e.end = "failed"
  BY <1>1 DEF Drive
<1> QED BY <1>4, <1>5 DEF RoundFails

LEMMA NothingActiveEffect ==
  ASSUME Parameters, TypeOK, NEW h \in Hosts, NothingActive(h)
  PROVE  /\ drive[h].pc = "round" /\ drive[h].act = {} /\ drive'[h].pc = "settle"
         /\ Moves(h)
         /\ drive'[h].task = drive[h].task /\ drive'[h].kind = drive[h].kind
         /\ drive'[h].snap = drive[h].snap /\ drive'[h].done = drive[h].done
         /\ drive'[h].act = {} /\ drive'[h].end = "succeeded"
         /\ UNCHANGED <<plan, row, ckpt, tasks, items, sweep, call, bounds>>
<1> DEFINE d == drive[h]
           e == [d EXCEPT !.pc = "settle", !.end = "succeeded"]
<1>1. d \in Drive
  BY DEF TypeOK
<1>2. e \in Drive
  BY <1>1 DEF Drive, Terminal
<1>3. drive' = [drive EXCEPT ![h] = e]
  BY <1>1 DEF NothingActive, TypeOK, Drive
<1>4. Moves(h) /\ drive'[h] = e
  BY <1>2, <1>3, MovesTo
<1>5. /\ e.pc = "settle" /\ e.task = d.task /\ e.kind = d.kind /\ e.snap = d.snap
      /\ e.done = d.done /\ e.act = d.act /\ e.end = "succeeded"
  BY <1>1 DEF Drive
<1> QED BY <1>4, <1>5 DEF NothingActive


LEMMA NapOverEffect ==
  ASSUME Parameters, TypeOK, PcInv, NEW h \in Hosts, NapOver(h)
  PROVE  /\ drive[h].pc = "nap" /\ drive'[h].pc = "round" /\ drive[h].node \in Nodes
         /\ Moves(h)
         /\ drive'[h].task = drive[h].task /\ drive'[h].kind = drive[h].kind
         /\ drive'[h].snap = drive[h].snap
         /\ drive'[h].done = drive[h].done \cup {drive[h].node}
         /\ drive'[h].act = Following({drive[h].node}) \ drive'[h].done
         /\ UNCHANGED <<plan, row, ckpt, tasks, items, sweep, call, bounds>>
<1> DEFINE d == drive[h]
           done == d.done \cup {d.node}
           e == [d EXCEPT !.pc = "round", !.done = done, !.act = Following({d.node}) \ done]
<1>1. d \in Drive /\ d.pc = "nap"
  BY DEF TypeOK, NapOver
<1>2. d.node \in Nodes
  BY <1>1 DEF PcInv, PcOK, Drive
<1>3. e \in Drive
  BY <1>1, <1>2 DEF Drive, Following
<1>4. Moves(h) /\ drive'[h] = e
  BY <1>3, MovesTo DEF NapOver
<1>5. /\ e.pc = "round" /\ e.task = d.task /\ e.kind = d.kind /\ e.snap = d.snap
      /\ e.done = done /\ e.act = Following({d.node}) \ done
  BY <1>1 DEF Drive
<1> QED BY <1>1, <1>2, <1>4, <1>5 DEF NapOver

\* Whoever comes to rest has let go of the run, and still holds its task.
LetsGo(h) ==
  /\ Moves(h)
  /\ drive'[h].pc = (IF drive[h].task = 0 THEN "idle" ELSE "ack")
  /\ drive'[h].task = drive[h].task /\ drive'[h].act = {}

LEMMA ParkEffect ==
  ASSUME Parameters, TypeOK, PcInv, NEW h \in Hosts, Park(h)
  PROVE  LET d == drive[h]
         IN /\ d.pc = "park" /\ d.node \in Nodes
            /\ row' \in Row
            /\ row'.status = IF d.snap.status # "sleeping" THEN "sleeping" ELSE row.status
            /\ row'.art = IF d.done # d.snap.art THEN d.done ELSE row.art
            /\ row'.active = IF {d.node} # d.snap.active THEN {d.node} ELSE row.active
            /\ row'.ctx = IF d.node # d.snap.ctx THEN d.node ELSE row.ctx
            /\ row'.wake = "later"
            /\ LetsGo(h)
            /\ UNCHANGED <<plan, ckpt, tasks, items, sweep, call, bounds>>
<1> DEFINE d == drive[h]
           v == [status |-> "sleeping", art |-> d.done, active |-> {d.node},
                 wake |-> "later", ctx |-> d.node, lease |-> "none"]
<1>1. d \in Drive /\ d.pc = "park" /\ row \in Row /\ d.snap \in Row
  BY DEF TypeOK, Park, Drive
<1>2. d.node \in Nodes
  BY <1>1 DEF PcInv, PcOK, Drive
<1>3. row' = Saved(v, d.snap) /\ drive' = [drive EXCEPT ![h] = Rested(d)]
  BY DEF Park, Rest, TypeOK
<1>4a. /\ DOMAIN v = {"status", "art", "active", "ctx", "wake", "lease"}
       /\ v.lease = "none" /\ v.status = "sleeping" /\ v.art = d.done /\ v.active = {d.node}
       /\ v.wake = "later" /\ v.ctx = d.node
  OBVIOUS
<1> HIDE DEF v
<1>4b. Saved(v, d.snap) =
     [status |-> IF v.status # d.snap.status THEN v.status ELSE row.status,
      art |-> IF v.art # d.snap.art THEN v.art ELSE row.art,
      active |-> IF v.active # d.snap.active THEN v.active ELSE row.active,
      ctx |-> IF v.ctx # d.snap.ctx THEN v.ctx ELSE row.ctx,
      wake |-> IF v.wake # "none" \/ v.wake # d.snap.wake THEN v.wake ELSE row.wake,
      lease |-> IF d.snap.lease # "none" THEN "none" ELSE row.lease]
  BY <1>1, <1>4a, SavedRest
<1>4. row' = [status |-> IF "sleeping" # d.snap.status THEN "sleeping" ELSE row.status,
              art |-> IF d.done # d.snap.art THEN d.done ELSE row.art,
              active |-> IF {d.node} # d.snap.active THEN {d.node} ELSE row.active,
              ctx |-> IF d.node # d.snap.ctx THEN d.node ELSE row.ctx,
              wake |-> IF "later" # "none" \/ "later" # d.snap.wake THEN "later" ELSE row.wake,
              lease |-> IF d.snap.lease # "none" THEN "none" ELSE row.lease]
  BY <1>3, <1>4a, <1>4b
<1>5. row' \in Row
  BY <1>1, <1>2, <1>4 DEF Row, Drive, Statuses
<1>6. Moves(h) /\ drive'[h] = Rested(d)
  BY <1>3, RestedTyped, MovesTo
<1>7. LetsGo(h)
  BY <1>6, RestedTyped DEF LetsGo
<1>8. /\ row'.status = IF d.snap.status # "sleeping" THEN "sleeping" ELSE row.status
      /\ row'.art = IF d.done # d.snap.art THEN d.done ELSE row.art
      /\ row'.active = IF {d.node} # d.snap.active THEN {d.node} ELSE row.active
      /\ row'.ctx = IF d.node # d.snap.ctx THEN d.node ELSE row.ctx
      /\ row'.wake = "later"
  BY <1>4
<1> QED BY <1>1, <1>2, <1>5, <1>7, <1>8 DEF Park

LEMMA SettleEffect ==
  ASSUME Parameters, TypeOK, PcInv, NEW h \in Hosts, Settle(h)
  PROVE  LET d == drive[h]
             left == IF d.end = "awaiting_input" THEN {d.node} ELSE {}
         IN /\ d.pc = "settle" /\ (d.end = "awaiting_input" => d.node \in Nodes)
            /\ row' \in Row
            /\ row'.status = IF d.snap.status # d.end THEN d.end ELSE row.status
            /\ row'.art = IF d.done # d.snap.art THEN d.done ELSE row.art
            /\ row'.active = IF left # d.snap.active THEN left ELSE row.active
            /\ row'.ctx = IF d.snap.ctx # 0 THEN 0 ELSE row.ctx
            /\ row'.wake = IF d.snap.wake # "none" THEN "none" ELSE row.wake
            /\ LetsGo(h)
            /\ UNCHANGED <<plan, ckpt, tasks, items, sweep, call, bounds>>
<1> DEFINE d == drive[h]
           left == IF d.end = "awaiting_input" THEN {d.node} ELSE {}
           v == [status |-> d.end, art |-> d.done, active |-> left,
                 wake |-> "none", ctx |-> 0, lease |-> "none"]
<1>1. d \in Drive /\ d.pc = "settle" /\ row \in Row /\ d.snap \in Row
  BY DEF TypeOK, Settle, Drive
<1>2. d.end = "awaiting_input" => d.node \in Nodes
  BY <1>1 DEF PcInv, PcOK, Drive
<1>3. row' = Saved(v, d.snap) /\ drive' = [drive EXCEPT ![h] = Rested(d)]
  BY DEF Settle, Settled, Rest, TypeOK
<1>4a. /\ DOMAIN v = {"status", "art", "active", "ctx", "wake", "lease"}
       /\ v.lease = "none" /\ v.status = d.end /\ v.art = d.done /\ v.active = left
       /\ v.wake = "none" /\ v.ctx = 0
  OBVIOUS
<1> HIDE DEF v
<1>4b. Saved(v, d.snap) =
     [status |-> IF v.status # d.snap.status THEN v.status ELSE row.status,
      art |-> IF v.art # d.snap.art THEN v.art ELSE row.art,
      active |-> IF v.active # d.snap.active THEN v.active ELSE row.active,
      ctx |-> IF v.ctx # d.snap.ctx THEN v.ctx ELSE row.ctx,
      wake |-> IF v.wake # "none" \/ v.wake # d.snap.wake THEN v.wake ELSE row.wake,
      lease |-> IF d.snap.lease # "none" THEN "none" ELSE row.lease]
  BY <1>1, <1>4a, SavedRest
<1>4. row' = [status |-> IF d.end # d.snap.status THEN d.end ELSE row.status,
              art |-> IF d.done # d.snap.art THEN d.done ELSE row.art,
              active |-> IF left # d.snap.active THEN left ELSE row.active,
              ctx |-> IF 0 # d.snap.ctx THEN 0 ELSE row.ctx,
              wake |-> IF "none" # "none" \/ "none" # d.snap.wake THEN "none" ELSE row.wake,
              lease |-> IF d.snap.lease # "none" THEN "none" ELSE row.lease]
  BY <1>3, <1>4a, <1>4b
<1>5. row' \in Row
  BY <1>1, <1>2, <1>4 DEF Row, Drive, Statuses, Terminal
<1>6. Moves(h) /\ drive'[h] = Rested(d)
  BY <1>3, RestedTyped, MovesTo
<1>7. LetsGo(h)
  BY <1>6, RestedTyped DEF LetsGo
<1>8. /\ row'.status = IF d.snap.status # d.end THEN d.end ELSE row.status
      /\ row'.art = IF d.done # d.snap.art THEN d.done ELSE row.art
      /\ row'.active = IF left # d.snap.active THEN left ELSE row.active
      /\ row'.ctx = IF d.snap.ctx # 0 THEN 0 ELSE row.ctx
      /\ row'.wake = IF d.snap.wake # "none" THEN "none" ELSE row.wake
  BY <1>4
<1> QED BY <1>1, <1>2, <1>5, <1>7, <1>8 DEF Settle

LEMMA EmitEffect ==
  ASSUME Parameters, TypeOK, NEW h \in Hosts, Emit(h)
  PROVE  /\ drive[h].pc = "emit" /\ drive'[h].pc = "settle"
         /\ Moves(h)
         /\ drive'[h].task = drive[h].task /\ drive'[h].kind = drive[h].kind
         /\ drive'[h].snap = drive[h].snap /\ drive'[h].done = drive[h].done
         /\ drive'[h].act = drive[h].act /\ drive'[h].node = drive[h].node
         /\ drive'[h].end = drive[h].end
         /\ items' \in [Nodes -> Nat]
         /\ UNCHANGED <<plan, row, ckpt, tasks, sweep, call, bounds>>
<1> DEFINE d == drive[h]
           e == [d EXCEPT !.pc = "settle"]
<1>1. d \in Drive /\ items \in [Nodes -> Nat]
  BY DEF TypeOK
<1>2. e \in Drive
  BY <1>1 DEF Drive
<1>3. drive' = [drive EXCEPT ![h] = e] /\ items' = [items EXCEPT ![d.node] = @ + 1]
  BY <1>1 DEF Emit, TypeOK, Drive
<1>4. Moves(h) /\ drive'[h] = e
  BY <1>2, <1>3, MovesTo
<1>5. /\ e.pc = "settle" /\ e.task = d.task /\ e.kind = d.kind /\ e.snap = d.snap
      /\ e.done = d.done /\ e.act = d.act /\ e.node = d.node /\ e.end = d.end
  BY <1>1 DEF Drive
<1>6. items' \in [Nodes -> Nat]
  <2>1. \A n \in Nodes : items[n] \in Nat /\ items[n] + 1 \in Nat
    BY <1>1
  <2> HIDE DEF d
  <2> QED BY <1>1, <1>3, <2>1
<1> QED BY <1>4, <1>5, <1>6 DEF Emit

LEMMA AckEffect ==
  ASSUME Parameters, TypeOK, NEW h \in Hosts, Ack(h)
  PROVE  /\ drive[h].pc = "ack" /\ drive'[h] = Idle
         /\ Moves(h)
         /\ tasks' = [tasks EXCEPT ![drive[h].task] = "none"]
         /\ UNCHANGED <<plan, row, ckpt, items, sweep, call, bounds>>
<1>1. Moves(h) /\ drive'[h] = Idle
  BY IdleTyped, MovesTo DEF Ack
<1> QED BY <1>1 DEF Ack

LEMMA AnswerEffect ==
  ASSUME Parameters, TypeOK, NEW h \in Hosts, NEW n \in {0} \cup Nodes, Answer(h, n)
  PROVE  /\ drive[h].pc = "idle" /\ row.status = "awaiting_input"
         /\ n = 0 \/ n \in row.active
         /\ Moves(h)
         /\ drive'[h].pc = "resume" /\ drive'[h].task = 0 /\ drive'[h].act = {}
         /\ drive'[h].node = n /\ drive'[h].snap = row
         /\ answers < MaxAnswers /\ answers' = answers + 1
         /\ UNCHANGED <<plan, row, ckpt, tasks, items, sweep, call, faults, cancels>>
<1> DEFINE e == [Idle EXCEPT !.pc = "resume", !.node = n, !.snap = row]
<1>1. e \in Drive
  BY IdleTyped DEF Drive, TypeOK
<1>2. Moves(h) /\ drive'[h] = e
  BY <1>1, MovesTo DEF Answer
<1>3. e.pc = "resume" /\ e.task = 0 /\ e.act = {} /\ e.node = n /\ e.snap = row
  BY DEF Idle
<1> QED BY <1>2, <1>3 DEF Answer

LEMMA DecideEffect ==
  ASSUME Parameters, TypeOK, NEW h \in Hosts, NEW n \in Nodes, Decide(h, n)
  PROVE  /\ drive[h].pc = "idle"
         /\ Moves(h)
         /\ drive'[h].pc = "decided" /\ drive'[h].task = 0 /\ drive'[h].act = {}
         /\ items' \in [Nodes -> Nat]
         /\ UNCHANGED <<plan, row, ckpt, tasks, sweep, call, bounds>>
<1> DEFINE e == [Idle EXCEPT !.pc = "decided", !.node = n]
<1>1. e \in Drive
  BY IdleTyped DEF Drive
<1>2. Moves(h) /\ drive'[h] = e
  BY <1>1, MovesTo DEF Decide
<1>3. e.pc = "decided" /\ e.task = 0 /\ e.act = {}
  BY DEF Idle
<1>4. items \in [Nodes -> Nat]
  BY DEF TypeOK
<1>5. items' = [items EXCEPT ![n] = @ - 1] /\ items[n] > 0
  BY DEF Decide
<1>6. items' \in [Nodes -> Nat]
  BY <1>4, <1>5
<1> QED BY <1>2, <1>3, <1>6 DEF Decide

LEMMA DecidedEffect ==
  ASSUME Parameters, TypeOK, PcInv, NEW h \in Hosts, Decided(h)
  PROVE  /\ drive[h].pc = "decided" /\ drive[h].task = 0
         /\ Moves(h)
         /\ drive'[h].task = 0 /\ drive'[h].act = {}
         /\ \/ drive'[h].pc = "idle"
            \/ /\ drive'[h].pc = "resume" /\ row.status = "awaiting_input"
               /\ drive'[h].node \in row.active /\ drive'[h].snap = row
         /\ UNCHANGED <<plan, row, ckpt, tasks, items, sweep, call, bounds>>
<1> DEFINE d == drive[h]
           e == [d EXCEPT !.pc = "resume", !.snap = row]
           c == row.status = "awaiting_input" /\ d.node \in row.active
<1>1. d \in Drive /\ row \in Row /\ d.pc = "decided" /\ d.task = 0 /\ d.act = {}
  BY DEF TypeOK, Decided, PcInv, PcOK
<1>2. e \in Drive
  BY <1>1 DEF Drive
<1>3. drive' = [drive EXCEPT ![h] = IF c THEN e ELSE Idle]
  BY DEF Decided
<1>4. (IF c THEN e ELSE Idle) \in Drive
  BY <1>2, IdleTyped
<1>5. Moves(h) /\ drive'[h] = IF c THEN e ELSE Idle
  BY <1>3, <1>4, MovesTo
<1>6. e.pc = "resume" /\ e.snap = row /\ e.task = 0 /\ e.act = {} /\ e.node = d.node
  BY <1>1 DEF Drive
<1>7. Idle.pc = "idle" /\ Idle.task = 0 /\ Idle.act = {}
  BY DEF Idle
<1> QED BY <1>1, <1>5, <1>6, <1>7 DEF Decided

LEMMA ResumeEffect ==
  ASSUME Parameters, TypeOK, PcInv, NEW h \in Hosts, Resume(h)
  PROVE  \E answered, start \in SUBSET Nodes :
         /\ drive[h].pc = "resume" /\ drive[h].snap.status = "awaiting_input"
         /\ answered = IF drive[h].node = 0 THEN {} ELSE {drive[h].node}
         /\ drive'[h].done = drive[h].snap.art \cup ckpt \cup answered
         /\ start = IF drive[h].node = 0 THEN drive[h].snap.active
                    ELSE Following(answered) \ drive'[h].done
         /\ drive'[h].act = start \ drive'[h].done
         /\ row' = [row EXCEPT !.status = "running", !.lease = "valid",
                               !.active = IF start # drive[h].snap.active THEN start ELSE row.active]
         /\ Moves(h)
         /\ drive'[h].pc = "round"
         /\ drive'[h].task = drive[h].task /\ drive'[h].kind = drive[h].kind
         /\ drive'[h].snap = [drive[h].snap EXCEPT !.status = "running", !.lease = "valid",
                                                   !.active = start]
         /\ UNCHANGED <<plan, ckpt, tasks, items, sweep, call, bounds>>
<1> DEFINE d == drive[h]
           answered == IF d.node = 0 THEN {} ELSE {d.node}
           done == d.snap.art \cup ckpt \cup answered
           start == IF d.node = 0 THEN d.snap.active ELSE Following(answered) \ done
           v == [status |-> "running", active |-> start, lease |-> "valid"]
           kept == [d.snap EXCEPT !.status = "running", !.lease = "valid", !.active = start]
           e == [d EXCEPT !.pc = "round", !.inline = TRUE, !.done = done,
                          !.act = start \ done, !.snap = kept]
<1>1. d \in Drive /\ row \in Row /\ d.snap \in Row /\ d.pc = "resume"
  BY DEF TypeOK, Resume, Drive
<1>2. d.snap.status = "awaiting_input"
  BY <1>1 DEF PcInv, PcOK
<1>3. answered \in SUBSET Nodes
  BY <1>1 DEF Drive
<1>4. done \in SUBSET Nodes
  BY <1>1, <1>3 DEF Row, TypeOK
<1>5. start \in SUBSET Nodes
  BY <1>1 DEF Row, Following
<1>6a. /\ DOMAIN v = {"status", "active", "lease"}
       /\ v.status = "running" /\ v.active = start /\ v.lease = "valid"
  OBVIOUS
<1> HIDE DEF answered, done, start, v
<1>6b. /\ Saved(v, d.snap) =
           [row EXCEPT !.status = "running", !.lease = "valid",
                       !.active = IF v.active # d.snap.active THEN v.active ELSE row.active]
      /\ Kept(v, d.snap) = [d.snap EXCEPT !.status = "running", !.lease = "valid", !.active = v.active]
  BY <1>1, <1>2, <1>6a, SavedResume
<1>6. /\ Saved(v, d.snap) =
           [row EXCEPT !.status = "running", !.lease = "valid",
                       !.active = IF start # d.snap.active THEN start ELSE row.active]
      /\ Kept(v, d.snap) = kept
  BY <1>6a, <1>6b
<1>7. kept \in Row
  BY <1>1, <1>5 DEF Row, Statuses
<1> HIDE DEF kept
<1>8. e \in Drive
  BY <1>1, <1>4, <1>5, <1>7 DEF Drive
<1>9. Update(h, v, [d EXCEPT !.pc = "round", !.inline = TRUE, !.done = done, !.act = start \ done])
  BY DEF Resume, answered, done, start, v
<1>10. drive' = [drive EXCEPT ![h] = e]
  BY <1>1, <1>6, <1>9 DEF Update, Drive
<1>11. Moves(h) /\ drive'[h] = e
  BY <1>8, <1>10, MovesTo
<1>12. /\ e.pc = "round" /\ e.task = d.task /\ e.kind = d.kind /\ e.snap = kept
       /\ e.done = done /\ e.act = start \ done
  BY <1>1 DEF Drive
<1>13. row' = [row EXCEPT !.status = "running", !.lease = "valid",
                          !.active = IF start # d.snap.active THEN start ELSE row.active]
  BY <1>6, <1>9 DEF Update
<1>14. UNCHANGED <<plan, ckpt, tasks, items, sweep, call, bounds>>
  BY DEF Resume
<1>15. answered = (IF d.node = 0 THEN {} ELSE {d.node})
  BY DEF answered
<1>16. done = d.snap.art \cup ckpt \cup answered
  BY DEF done
<1>17. start = (IF d.node = 0 THEN d.snap.active ELSE Following(answered) \ done)
  BY DEF start
<1>18. kept = [d.snap EXCEPT !.status = "running", !.lease = "valid", !.active = start]
  BY DEF kept
<1> QED
  <2> WITNESS answered \in SUBSET Nodes, start \in SUBSET Nodes
  <2> QED BY <1>1, <1>2, <1>11, <1>12, <1>13, <1>14, <1>15, <1>16, <1>17, <1>18

LEMMA CrashEffect ==
  ASSUME Parameters, TypeOK, NEW h \in Hosts, Crash(h)
  PROVE  /\ drive'[h] = Idle /\ Moves(h) /\ faults' = faults + 1 /\ Eventful
         /\ sweep' = [sweep EXCEPT ![h] = "idle"] /\ call' = [call EXCEPT ![h] = "idle"]
         /\ UNCHANGED <<plan, row, ckpt, tasks, items, answers, cancels>>
<1>1. Moves(h) /\ drive'[h] = Idle
  BY IdleTyped, MovesTo DEF Crash
<1> QED BY <1>1 DEF Crash, SweepDone

(***************************************************************************)
(* Types and program counters                                              *)
(***************************************************************************)
\* What a claim or the start of a drive writes.
LEMMA RowWritten ==
  ASSUME NEW x \in Row
  PROVE  /\ [x EXCEPT !.status = "running", !.lease = "valid"] \in Row
         /\ [x EXCEPT !.status = "running", !.wake = "none", !.lease = "valid"] \in Row
<1>1. "running" \in Statuses
  BY DEF Statuses
<1> QED BY <1>1 DEF Row

\* What most steps need to know of a resume.
LEMMA ResumeRow ==
  ASSUME Parameters, TypeOK, PcInv, NEW h \in Hosts, Resume(h)
  PROVE  /\ row' \in Row /\ row'.status = "running"
         /\ drive'[h].pc = "round" /\ Moves(h)
         /\ UNCHANGED <<plan, ckpt, tasks, items, sweep, call, bounds>>
<1>1. row \in Row
  BY DEF TypeOK
<1>2. PICK answered, start \in SUBSET Nodes :
        /\ row' = [row EXCEPT !.status = "running", !.lease = "valid",
                              !.active = IF start # drive[h].snap.active THEN start ELSE row.active]
        /\ Moves(h)
        /\ drive'[h].pc = "round"
        /\ UNCHANGED <<plan, ckpt, tasks, items, sweep, call, bounds>>
  BY ResumeEffect, ZenonT(30)
<1>3. "running" \in Statuses
  BY DEF Statuses
<1>4. row' \in Row /\ row'.status = "running"
  BY <1>1, <1>2, <1>3 DEF Row
<1> QED BY <1>2, <1>4

\* What TypeOK asks of the next state.
LEMMA TypeKept ==
  ASSUME TypeOK, plan' = plan, row' \in Row, ckpt' \in SUBSET Nodes,
         tasks' \in [1..MaxTasks -> {"none", "continue", "wake"}], items' \in [Nodes -> Nat],
         drive' \in [Hosts -> Drive],
         sweep' \in [Hosts -> {"idle", "wake", "reap", "enqueue wake", "enqueue continue"}],
         call' \in [Hosts -> {"idle", "starting", "cancelling"}],
         faults' \in 0..MaxEvents, answers' \in 0..MaxAnswers, cancels' \in 0..MaxEvents,
         seen' \subseteq Signs
  PROVE  TypeOK'
<1>1. Nodes' = Nodes
  BY DEF Nodes
<1>2. Row' = Row
  BY <1>1 DEF Row
<1>3. Drive' = Drive
  BY <1>1, <1>2 DEF Drive
<1>4. plan' \in Plans
  BY DEF TypeOK
<1> QED BY <1>1, <1>2, <1>3, <1>4 DEF TypeOK

\* The tasks after Enqueue.
LEMMA EnqueueEffect ==
  ASSUME TypeOK, NEW kind \in {"continue", "wake"}, Enqueue(kind)
  PROVE  \E i \in 1..MaxTasks :
           /\ tasks[i] = "none" /\ \A h \in Hosts : ~Holds(h, i)
           /\ tasks' = [tasks EXCEPT ![i] = kind]
           /\ tasks' \in [1..MaxTasks -> {"none", "continue", "wake"}]
<1>1. PICK i \in 1..MaxTasks : /\ tasks[i] = "none" /\ \A h \in Hosts : ~Holds(h, i)
                               /\ tasks' = [tasks EXCEPT ![i] = kind]
  BY DEF Enqueue
<1>2. tasks \in [1..MaxTasks -> {"none", "continue", "wake"}]
  BY DEF TypeOK
<1>3. tasks' \in [1..MaxTasks -> {"none", "continue", "wake"}]
  BY <1>1, <1>2
<1> QED BY <1>1, <1>3

\* Faults and cancellations stay within their bound.
LEMMA EventTyped ==
  ASSUME Parameters, TypeOK, Eventful
  PROVE  faults + 1 \in 0..MaxEvents /\ cancels + 1 \in 0..MaxEvents
<1>1. faults \in 0..MaxEvents /\ cancels \in 0..MaxEvents
  BY DEF TypeOK
<1>2. faults + cancels < MaxEvents /\ MaxEvents \in Nat
  BY DEF Eventful, Parameters
<1> QED BY <1>1, <1>2

\* The parts of TypeOK that a step may disturb, and the parts that most steps keep.
LEMMA Typed ==
  ASSUME TypeOK
  PROVE  /\ row \in Row /\ ckpt \in SUBSET Nodes /\ items \in [Nodes -> Nat]
         /\ tasks \in [1..MaxTasks -> {"none", "continue", "wake"}]
         /\ drive \in [Hosts -> Drive]
         /\ sweep \in [Hosts -> {"idle", "wake", "reap", "enqueue wake", "enqueue continue"}]
         /\ call \in [Hosts -> {"idle", "starting", "cancelling"}]
         /\ faults \in 0..MaxEvents /\ answers \in 0..MaxAnswers /\ cancels \in 0..MaxEvents
         /\ seen \subseteq Signs
BY DEF TypeOK

\* The steps that leave the row, the checkpoint and the drives alone.
Quiet(h) == StartEnqueue(h) \/ CancelRead(h) \/ WakeFind(h) \/ ReapFind(h) \/ SweepEnqueue(h)

\* Of what has a type such a step changes tasks, calls, sweeps and cancellations.
LEMMA QuietEffect ==
  ASSUME Parameters, TypeOK, NEW h \in Hosts, Quiet(h)
  PROVE  /\ UNCHANGED <<plan, row, ckpt, items, drive, faults, answers>>
         /\ tasks' \in [1..MaxTasks -> {"none", "continue", "wake"}]
         /\ sweep' \in [Hosts -> {"idle", "wake", "reap", "enqueue wake", "enqueue continue"}]
         /\ call' \in [Hosts -> {"idle", "starting", "cancelling"}]
         /\ cancels' \in 0..MaxEvents
<1> USE Typed
<1>1. CASE StartEnqueue(h)
  <2>1. tasks' \in [1..MaxTasks -> {"none", "continue", "wake"}]
    BY <1>1, EnqueueEffect DEF StartEnqueue
  <2>2. call' \in [Hosts -> {"idle", "starting", "cancelling"}]
    BY <1>1 DEF StartEnqueue
  <2> QED BY <1>1, <2>1, <2>2 DEF StartEnqueue, bounds
<1>2. CASE CancelRead(h)
  <2>1. cancels' \in 0..MaxEvents
    BY <1>2, EventTyped DEF CancelRead
  <2>2. call' \in [Hosts -> {"idle", "starting", "cancelling"}]
    BY <1>2 DEF CancelRead
  <2> QED BY <1>2, <2>1, <2>2 DEF CancelRead
<1>3. CASE WakeFind(h)
  <2>1. sweep' \in [Hosts -> {"idle", "wake", "reap", "enqueue wake", "enqueue continue"}]
    BY <1>3 DEF WakeFind, SweepDone
  <2> QED BY <1>3, <2>1 DEF WakeFind, bounds
<1>4. CASE ReapFind(h)
  <2>1. sweep' \in [Hosts -> {"idle", "wake", "reap", "enqueue wake", "enqueue continue"}]
    BY <1>4 DEF ReapFind, SweepDone
  <2> QED BY <1>4, <2>1 DEF ReapFind, bounds
<1>5. CASE SweepEnqueue(h)
  <2>1. PICK kind \in {"continue", "wake"} : Enqueue(kind)
    BY <1>5 DEF SweepEnqueue
  <2>2. tasks' \in [1..MaxTasks -> {"none", "continue", "wake"}]
    BY <2>1, EnqueueEffect
  <2>3. sweep' \in [Hosts -> {"idle", "wake", "reap", "enqueue wake", "enqueue continue"}]
    BY <1>5 DEF SweepEnqueue, SweepDone
  <2> QED BY <1>5, <2>2, <2>3 DEF SweepEnqueue, bounds
<1> QED BY <1>1, <1>2, <1>3, <1>4, <1>5 DEF Quiet

\* The steps that change no more of the row than its status, its wake and its lease, and
\* no drive: what becomes of them, and of the sweep.
RowStep ==
  \/ Elapse \/ Lapse
  \/ \E h \in Hosts : StartQueued(h) \/ CancelWrite(h) \/ WakeClaim(h) \/ ReapClaim(h)

\* What such a step may do to the row and to the sweep.
LEMMA RowStepEffect ==
  ASSUME Parameters, TypeOK, RowStep
  PROVE  /\ UNCHANGED <<plan, ckpt, tasks, items, drive, answers, cancels>>
         /\ row' \in Row
         /\ row'.art = row.art /\ row'.active = row.active /\ row'.ctx = row.ctx
         /\ \/ row'.status = row.status
            \/ row.status = "absent" /\ row'.status = "queued" /\ row'.wake = row.wake
            \/ (\E h \in Hosts : call[h] = "cancelling") /\ row'.status = "cancelled" /\ row'.wake = row.wake
            \/ row.wake # "none" /\ row'.status = "running" /\ row'.wake = "none"
         /\ \/ row'.wake = row.wake
            \/ row.wake = "later" /\ row'.wake = "due"
            \/ row.wake # "none" /\ row'.status = "running" /\ row'.wake = "none"
         /\ sweep' \in [Hosts -> {"idle", "wake", "reap", "enqueue wake", "enqueue continue"}]
         /\ call' \in [Hosts -> {"idle", "starting", "cancelling"}]
         /\ faults' \in 0..MaxEvents /\ faults' >= faults
<1>t. /\ row \in Row
      /\ sweep \in [Hosts -> {"idle", "wake", "reap", "enqueue wake", "enqueue continue"}]
      /\ call \in [Hosts -> {"idle", "starting", "cancelling"}]
  BY Typed
<1>f. faults \in 0..MaxEvents
  BY Typed
<1>0. faults \in 0..MaxEvents /\ faults \in Nat /\ faults >= faults
  BY <1>f DEF Parameters
<1>1. CASE Elapse
  <2>1. row' \in Row
    BY <1>t, <1>1 DEF Elapse, Row
  <2> QED BY <1>t, <1>0, <1>1, <2>1 DEF Elapse, bounds, Row
<1>2. CASE Lapse
  <2>1. row' \in Row
    BY <1>t, <1>2 DEF Lapse, Row
  <2>2. faults' \in 0..MaxEvents /\ faults' >= faults
    <3>1. CASE Attended
      <4>1. Eventful /\ faults' = faults + 1
        BY <1>2, <3>1 DEF Lapse
      <4>2. faults + 1 \in 0..MaxEvents
        BY <4>1, EventTyped
      <4> QED BY <1>0, <4>1, <4>2
    <3>2. CASE ~Attended
      BY <1>0, <1>2, <3>2 DEF Lapse
    <3> QED BY <3>1, <3>2
  <2> QED BY <1>t, <1>2, <2>1, <2>2 DEF Lapse, Row
<1>3. CASE \E h \in Hosts : StartQueued(h)
  <2>1. PICK h \in Hosts : StartQueued(h)
    BY <1>3
  <2>2. row' \in Row
    BY <1>t, <2>1 DEF StartQueued, Row, Statuses
  <2>3. call' \in [Hosts -> {"idle", "starting", "cancelling"}]
    BY <1>t, <2>1 DEF StartQueued
  <2> QED BY <1>t, <1>0, <2>1, <2>2, <2>3 DEF StartQueued, bounds, Row
<1>4. CASE \E h \in Hosts : CancelWrite(h)
  <2>1. PICK h \in Hosts : CancelWrite(h)
    BY <1>4
  <2>2. row' \in Row
    BY <1>t, <2>1 DEF CancelWrite, Row, Statuses, Terminal
  <2>3. call' \in [Hosts -> {"idle", "starting", "cancelling"}]
    BY <1>t, <2>1 DEF CancelWrite
  <2> QED BY <1>t, <1>0, <2>1, <2>2, <2>3 DEF CancelWrite, bounds, Row
<1>5. CASE \E h \in Hosts : WakeClaim(h)
  <2>1. PICK h \in Hosts : WakeClaim(h)
    BY <1>5
  <2>2. row' \in Row
    BY <1>t, <2>1, RowWritten DEF WakeClaim
  <2>3. sweep' \in [Hosts -> {"idle", "wake", "reap", "enqueue wake", "enqueue continue"}]
    BY <1>t, <2>1 DEF WakeClaim, SweepDone
  <2> QED BY <1>t, <1>0, <2>1, <2>2, <2>3 DEF WakeClaim, bounds, Row
<1>6. CASE \E h \in Hosts : ReapClaim(h)
  <2>1. PICK h \in Hosts : ReapClaim(h)
    BY <1>6
  <2>2. row' \in Row
    BY <1>t, <2>1 DEF ReapClaim, Row
  <2>3. sweep' \in [Hosts -> {"idle", "wake", "reap", "enqueue wake", "enqueue continue"}]
    BY <1>t, <2>1 DEF ReapClaim, SweepDone
  <2> QED BY <1>t, <1>0, <2>1, <2>2, <2>3 DEF ReapClaim, bounds, Row
<1> QED BY <1>1, <1>2, <1>3, <1>4, <1>5, <1>6 DEF RowStep

\* The steps of a drive: everything else.
DriveMove(h) ==
  \/ StartWaiting(h) \/ Crash(h) \/ Delivered(h) \/ DriveStep(h)
  \/ \E n \in {0} \cup Nodes : Answer(h, n)
  \/ \E n \in Nodes : Decide(h, n)

\* Every step is of one of the three kinds.
LEMMA StepCases ==
  ASSUME Next
  PROVE  \/ \E h \in Hosts : Quiet(h)
         \/ RowStep
         \/ \E h \in Hosts : DriveMove(h)
BY DEF Next, Quiet, RowStep, DriveMove, DriveStep

\* Every step is remembered.
LEMMA NextRemembers ==
  ASSUME Next
  PROVE  Remember
BY DEF Next

\* The drive of one host moves and its new state is well formed.
LEMMA DriveMoveTyped ==
  ASSUME Parameters, TypeOK, PcInv, NEW h \in Hosts, DriveMove(h)
  PROVE  /\ plan' = plan /\ row' \in Row /\ ckpt' \in SUBSET Nodes
         /\ tasks' \in [1..MaxTasks -> {"none", "continue", "wake"}]
         /\ items' \in [Nodes -> Nat] /\ Moves(h)
         /\ sweep' \in [Hosts -> {"idle", "wake", "reap", "enqueue wake", "enqueue continue"}]
         /\ call' \in [Hosts -> {"idle", "starting", "cancelling"}]
         /\ faults' \in 0..MaxEvents /\ answers' \in 0..MaxAnswers /\ cancels' \in 0..MaxEvents
         /\ faults' >= faults
<1>t. /\ row \in Row /\ ckpt \in SUBSET Nodes
      /\ tasks \in [1..MaxTasks -> {"none", "continue", "wake"}]
      /\ items \in [Nodes -> Nat] /\ drive[h] \in Drive
      /\ sweep \in [Hosts -> {"idle", "wake", "reap", "enqueue wake", "enqueue continue"}]
      /\ call \in [Hosts -> {"idle", "starting", "cancelling"}]
  BY DEF TypeOK
<1>b. faults \in 0..MaxEvents /\ answers \in 0..MaxAnswers /\ cancels \in 0..MaxEvents
  BY DEF TypeOK
<1>n. MaxEvents \in Nat /\ MaxAnswers \in Nat
  BY DEF Parameters
<1>m. faults >= faults
  BY <1>b, <1>n
<1>a. CASE StartWaiting(h)
  <2>1. /\ row' = [row EXCEPT !.status = "running", !.lease = "valid"] /\ Moves(h)
        /\ UNCHANGED <<plan, ckpt, tasks, items, sweep, call, bounds>>
    BY <1>a, StartWaitingEffect
  <2>2. row' \in Row
    BY <1>t, <2>1, RowWritten
  <2> QED BY <1>t, <1>b, <1>m, <2>1, <2>2 DEF bounds
<1>c. CASE Crash(h)
  <2>1. faults' \in 0..MaxEvents /\ faults' >= faults
    BY <1>b, <1>n, <1>c, CrashEffect, EventTyped
  <2>2. /\ sweep' \in [Hosts -> {"idle", "wake", "reap", "enqueue wake", "enqueue continue"}]
        /\ call' \in [Hosts -> {"idle", "starting", "cancelling"}]
    BY <1>t, <1>c, CrashEffect
  <2> QED BY <1>t, <1>b, <1>c, <2>1, <2>2, CrashEffect
<1>d. CASE Delivered(h)
  <2>1. PICK i \in 1..MaxTasks : Deliver(h, i)
    BY <1>d DEF Delivered
  <2>2. faults' \in 0..MaxEvents /\ faults' >= faults
    BY <1>b, <1>n, <2>1, DeliverEffect, EventTyped
  <2>3. Moves(h) /\ UNCHANGED <<plan, row, ckpt, tasks, items, sweep, call, answers, cancels>>
    BY <2>1, DeliverEffect
  <2> QED BY <1>t, <1>b, <2>2, <2>3
<1>e. CASE DriveQueued(h)
  <2>1. /\ row' = [row EXCEPT !.status = "running", !.lease = "valid"] /\ Moves(h)
        /\ UNCHANGED <<plan, ckpt, tasks, items, sweep, call, bounds>>
    BY <1>e, DriveQueuedEffect
  <2>2. row' \in Row
    BY <1>t, <2>1, RowWritten
  <2> QED BY <1>t, <1>b, <1>m, <2>1, <2>2 DEF bounds
<1>f. CASE Redrive(h)
  <2>1. Moves(h) /\ UNCHANGED <<plan, row, ckpt, tasks, items, sweep, call, bounds>>
    BY <1>f, RedriveEffect
  <2> QED BY <1>t, <1>b, <1>m, <2>1 DEF bounds
<1>g. CASE Wake(h)
  <2>1. Moves(h) /\ UNCHANGED <<plan, row, ckpt, tasks, items, sweep, call, bounds>>
    BY <1>g, WakeEffect
  <2> QED BY <1>t, <1>b, <1>m, <2>1 DEF bounds
<1>h. CASE WakeWithoutContext(h)
  <2>1. Moves(h) /\ UNCHANGED <<plan, row, ckpt, tasks, items, sweep, call, bounds>>
    BY <1>h, WakeWithoutContextEffect
  <2> QED BY <1>t, <1>b, <1>m, <2>1 DEF bounds
<1>i. CASE Round(h)
  <2>1. row' = [row EXCEPT !.lease = "valid"]
    BY <1>i, RoundEffect
  <2>2. row' \in Row
    BY <1>t, <2>1 DEF Row
  <2>3. \A n \in drive[h].act : n \in Nodes
    BY <1>t DEF Drive
  <2>4. drive[h].done \in SUBSET Nodes
    BY <1>t DEF Drive
  <2>5. ckpt' \in SUBSET Nodes
    <3>1. PICK n \in drive[h].act : ckpt' = drive[h].done \cup {n} \/ ckpt' = drive[h].done
      BY <1>i, RoundEffect
    <3> QED BY <2>3, <2>4, <3>1
  <2>6. Moves(h) /\ UNCHANGED <<plan, tasks, items, sweep, call, bounds>>
    BY <1>i, RoundEffect
  <2> QED BY <1>t, <1>b, <1>m, <2>2, <2>5, <2>6 DEF bounds
<1>j. CASE RoundFails(h)
  <2>1. Moves(h) /\ UNCHANGED <<plan, row, ckpt, tasks, items, sweep, call, bounds>>
    BY <1>j, RoundFailsEffect
  <2> QED BY <1>t, <1>b, <1>m, <2>1 DEF bounds
<1>k. CASE NothingActive(h)
  <2>1. Moves(h) /\ UNCHANGED <<plan, row, ckpt, tasks, items, sweep, call, bounds>>
    BY <1>k, NothingActiveEffect
  <2> QED BY <1>t, <1>b, <1>m, <2>1 DEF bounds
<1>l. CASE NapOver(h)
  <2>1. Moves(h) /\ UNCHANGED <<plan, row, ckpt, tasks, items, sweep, call, bounds>>
    BY <1>l, NapOverEffect
  <2> QED BY <1>t, <1>b, <1>m, <2>1 DEF bounds
<1>o. CASE Park(h)
  <2>1. row' \in Row /\ LetsGo(h) /\ UNCHANGED <<plan, ckpt, tasks, items, sweep, call, bounds>>
    BY <1>o, ParkEffect
  <2> QED BY <1>t, <1>b, <1>m, <2>1 DEF bounds, LetsGo
<1>p. CASE Emit(h)
  <2>1. /\ Moves(h) /\ items' \in [Nodes -> Nat]
        /\ UNCHANGED <<plan, row, ckpt, tasks, sweep, call, bounds>>
    BY <1>p, EmitEffect
  <2> QED BY <1>t, <1>b, <1>m, <2>1 DEF bounds
<1>q. CASE Settle(h)
  <2>1. row' \in Row /\ LetsGo(h) /\ UNCHANGED <<plan, ckpt, tasks, items, sweep, call, bounds>>
    BY <1>q, SettleEffect
  <2> QED BY <1>t, <1>b, <1>m, <2>1 DEF bounds, LetsGo
<1>r. CASE Ack(h)
  <2>1. tasks' \in [1..MaxTasks -> {"none", "continue", "wake"}]
    BY <1>t, <1>r, AckEffect
  <2> QED BY <1>t, <1>b, <1>m, <1>r, <2>1, AckEffect DEF bounds
<1>s. CASE Decided(h)
  <2>1. Moves(h) /\ UNCHANGED <<plan, row, ckpt, tasks, items, sweep, call, bounds>>
    BY <1>s, DecidedEffect
  <2> QED BY <1>t, <1>b, <1>m, <2>1 DEF bounds
<1>u. CASE Resume(h)
  <2>2. row' \in Row
    BY <1>u, ResumeRow
  <2>3. Moves(h) /\ UNCHANGED <<plan, ckpt, tasks, items, sweep, call, bounds>>
    BY <1>u, ResumeRow
  <2> QED BY <1>t, <1>b, <1>m, <2>2, <2>3 DEF bounds
<1>v. CASE \E n \in {0} \cup Nodes : Answer(h, n)
  <2>1. PICK n \in {0} \cup Nodes : Answer(h, n)
    BY <1>v
  <2>2. answers' \in 0..MaxAnswers
    BY <1>b, <1>n, <2>1, AnswerEffect
  <2> QED BY <1>t, <1>b, <1>m, <2>1, <2>2, AnswerEffect
<1>w. CASE \E n \in Nodes : Decide(h, n)
  BY <1>t, <1>b, <1>m, <1>w, DecideEffect DEF bounds
<1> QED
  BY <1>a, <1>c, <1>d, <1>e, <1>f, <1>g, <1>h, <1>i, <1>j, <1>k, <1>l, <1>o, <1>p, <1>q, <1>r,
     <1>s, <1>u, <1>v, <1>w DEF DriveMove, DriveStep

\* Every step preserves the types.
LEMMA TypeStep ==
  ASSUME Parameters, TypeOK, PcInv, Next
  PROVE  TypeOK'
<1>t. /\ row \in Row /\ ckpt \in SUBSET Nodes
      /\ tasks \in [1..MaxTasks -> {"none", "continue", "wake"}]
      /\ items \in [Nodes -> Nat] /\ drive \in [Hosts -> Drive]
      /\ sweep \in [Hosts -> {"idle", "wake", "reap", "enqueue wake", "enqueue continue"}]
      /\ call \in [Hosts -> {"idle", "starting", "cancelling"}]
      /\ faults \in 0..MaxEvents /\ answers \in 0..MaxAnswers /\ cancels \in 0..MaxEvents
  BY DEF TypeOK
<1>s. seen' \subseteq Signs
  BY NextRemembers DEF TypeOK, Remember
<1>1. CASE \E h \in Hosts : Quiet(h)
  BY <1>t, <1>s, <1>1, QuietEffect, TypeKept
<1>2. CASE RowStep
  <2>1. /\ UNCHANGED <<plan, ckpt, tasks, items, drive, answers, cancels>> /\ row' \in Row
        /\ sweep' \in [Hosts -> {"idle", "wake", "reap", "enqueue wake", "enqueue continue"}]
        /\ call' \in [Hosts -> {"idle", "starting", "cancelling"}] /\ faults' \in 0..MaxEvents
    BY <1>2, RowStepEffect
  <2> QED BY <1>t, <1>s, <2>1, TypeKept
<1>3. CASE \E h \in Hosts : DriveMove(h)
  BY <1>t, <1>s, <1>3, DriveMoveTyped, TypeKept DEF Moves
<1> QED BY <1>1, <1>2, <1>3, StepCases, NextRemembers

\* Every step preserves PcInv.
LEMMA PcStep ==
  ASSUME Parameters, TypeOK, PcInv, Next
  PROVE  PcInv'
<1>1. CASE \E h \in Hosts : Quiet(h)
  BY <1>1, QuietEffect DEF PcInv, PcOK
<1>2. CASE RowStep
  <2>1. drive' = drive
    BY <1>2, RowStepEffect
  <2> QED BY <2>1 DEF PcInv, PcOK
<1>3. CASE \E h \in Hosts : DriveMove(h)
  <2> PICK h \in Hosts : DriveMove(h)
    BY <1>3
  <2>0. Moves(h)
    BY DriveMoveTyped
  <2>d. PcOK(drive[h]) /\ drive[h] \in Drive /\ row \in Row
    BY DEF PcInv, TypeOK
  <2> SUFFICES PcOK(drive'[h])
    BY <2>0 DEF PcInv, Moves
  <2>a. CASE StartWaiting(h)
    <3>0. row' = [row EXCEPT !.status = "running", !.lease = "valid"] /\ drive'[h].snap = row'
      BY <2>a, StartWaitingEffect
    <3>1. drive'[h].snap.status = "running"
      BY <2>d, <3>0 DEF Row
    <3> QED BY <2>a, <3>1, StartWaitingEffect DEF PcOK, Terminal
  <2>c. CASE Crash(h)
    BY <2>c, CrashEffect DEF PcOK, Idle, DrivePcs
  <2>e. CASE Delivered(h)
    <3>1. PICK i \in 1..MaxTasks : Deliver(h, i)
      BY <2>e DEF Delivered
    <3> QED BY <3>1, DeliverEffect DEF PcOK, DrivePcs
  <2>f. CASE DriveQueued(h)
    <3>1. drive'[h].snap.status = "running"
      BY <2>d, <2>f, DriveQueuedEffect DEF Drive, Row
    <3> QED BY <2>f, <3>1, DriveQueuedEffect DEF PcOK, Terminal
  <2>g. CASE Redrive(h)
    BY <2>d, <2>g, RedriveEffect DEF PcOK, DrivePcs
  <2>h. CASE Wake(h)
    BY <2>d, <2>h, WakeEffect DEF PcOK, DrivePcs
  <2>i. CASE WakeWithoutContext(h)
    BY <2>d, <2>i, WakeWithoutContextEffect DEF PcOK, DrivePcs
  <2>j. CASE Round(h)
    <3>1. PICK n \in drive[h].act :
         /\ drive[h].pc = "round"
         /\ drive'[h].snap = [drive[h].snap EXCEPT !.lease = "valid"]
         /\ \/ drive'[h].pc = "round"
            \/ /\ drive'[h].pc \in {"nap", "park", "emit", "settle"}
               /\ drive'[h].act = {} /\ drive'[h].node = n
      BY <2>j, RoundEffect
    <3>2. n # 0
      BY <2>d, NodesTyped DEF Drive
    <3>3. drive'[h].snap.status = drive[h].snap.status
      BY <2>d, <3>1 DEF Drive, Row
    <3> QED BY <2>d, <3>1, <3>2, <3>3 DEF PcOK, DrivePcs
  <2>k. CASE RoundFails(h)
    BY <2>d, <2>k, RoundFailsEffect DEF PcOK, DrivePcs
  <2>l. CASE NothingActive(h)
    BY <2>d, <2>l, NothingActiveEffect DEF PcOK, DrivePcs
  <2>m. CASE NapOver(h)
    BY <2>d, <2>m, NapOverEffect DEF PcOK, DrivePcs
  <2>n. CASE Park(h)
    BY <2>d, <2>n, ParkEffect DEF PcOK, DrivePcs, LetsGo
  <2>o. CASE Emit(h)
    BY <2>d, <2>o, EmitEffect DEF PcOK, DrivePcs
  <2>p. CASE Settle(h)
    BY <2>d, <2>p, SettleEffect DEF PcOK, DrivePcs, LetsGo
  <2>q. CASE Ack(h)
    BY <2>q, AckEffect DEF PcOK, DrivePcs, Idle
  <2>r. CASE Decided(h)
    BY <2>d, <2>r, DecidedEffect DEF PcOK, DrivePcs, Terminal
  <2>s. CASE Resume(h)
    <3>1. PICK answered, start \in SUBSET Nodes :
            drive'[h].snap = [drive[h].snap EXCEPT !.status = "running", !.lease = "valid",
                                                   !.active = start]
      BY <2>s, ResumeEffect
    <3>2. drive'[h].pc = "round"
      BY <2>s, ResumeEffect
    <3>3. drive'[h].snap.status = "running"
      BY <2>d, <3>1 DEF Drive, Row
    <3> QED BY <3>2, <3>3 DEF PcOK, Terminal
  <2>t. CASE \E n \in {0} \cup Nodes : Answer(h, n)
    BY <2>t, AnswerEffect DEF PcOK, Terminal
  <2>u. CASE \E n \in Nodes : Decide(h, n)
    BY <2>u, DecideEffect DEF PcOK, DrivePcs
  <2> QED
    BY <2>a, <2>c, <2>e, <2>f, <2>g, <2>h, <2>i, <2>j, <2>k, <2>l, <2>m, <2>n, <2>o, <2>p, <2>q,
       <2>r, <2>s, <2>t, <2>u DEF DriveMove, DriveStep
<1> QED BY <1>1, <1>2, <1>3, StepCases, NextRemembers

(***************************************************************************)
(* History                                                                 *)
(***************************************************************************)
LEMMA SeenStep ==
  ASSUME Remember
  PROVE  SeenInv' /\ seen \subseteq seen'
BY DEF Remember, SeenInv

\* Two drives at once are remembered as such.
LEMMA SoleWhenSeen ==
  ASSUME SeenInv, "two drives" \notin seen, NEW g \in Hosts, NEW h \in Hosts,
         drive[g].pc \in DrivePcs, drive[h].pc \in DrivePcs
  PROVE  g = h
BY DEF SeenInv, Signs, Shows, Together

LEMMA SoleWhenSeenNext ==
  ASSUME Remember, "two drives" \notin seen', NEW g \in Hosts, NEW h \in Hosts,
         drive'[g].pc \in DrivePcs, drive'[h].pc \in DrivePcs
  PROVE  g = h
BY DEF Remember, Signs, Shows, Together

\* When drives follow each other, whoever is not h has no drive while h moves one.
LEMMA OthersRest ==
  ASSUME SeenInv, Remember, "two drives" \notin seen', NEW h \in Hosts, Moves(h),
         drive[h].pc \in DrivePcs \/ drive'[h].pc \in DrivePcs
  PROVE  \A g \in Hosts \ {h} : drive[g].pc \notin DrivePcs /\ drive'[g] = drive[g]
<1>1. "two drives" \notin seen
  BY SeenStep
<1>2. ASSUME NEW g \in Hosts \ {h}, drive[g].pc \in DrivePcs
      PROVE  FALSE
  <2>1. drive'[g] = drive[g]
    BY DEF Moves
  <2>2. CASE drive[h].pc \in DrivePcs
    BY <1>1, <1>2, <2>2, SoleWhenSeen
  <2>3. CASE drive'[h].pc \in DrivePcs
    BY <1>2, <2>1, <2>3, SoleWhenSeenNext
  <2> QED BY <2>2, <2>3
<1> QED BY <1>2 DEF Moves

(***************************************************************************)
(* Runs that nobody has driven yet                                         *)
(***************************************************************************)
LEMMA QueuedOver ==
  ASSUME QueuedInv, NEW h \in Hosts, Moves(h), row'.status \notin {"absent", "queued"},
         drive'[h].pc # "prepare"
  PROVE  QueuedInv'
BY DEF QueuedInv, Moves

\* The row and the checkpoint stay and h does not drive: QueuedInv is kept.
LEMMA QueuedLeft ==
  ASSUME QueuedInv, NEW h \in Hosts, Moves(h), drive'[h].pc \notin DrivePcs,
         row' = row, ckpt' = ckpt,
         row.status = "absent" =>
           /\ \A i \in 1..MaxTasks : tasks'[i] = "none"
           /\ \A g \in Hosts : call'[g] # "starting" /\ sweep'[g] = "idle"
  PROVE  QueuedInv'
BY DEF QueuedInv, Moves, Driving, DrivePcs

\* Once a drive is past its preparation the run is not queued any more.
LEMMA DrivenIsNotQueued ==
  ASSUME QueuedInv, NEW h \in Hosts, drive[h].pc \in DrivePcs,
         drive[h].pc # "prepare" \/ drive[h].snap.status # "queued"
  PROVE  row.status \notin {"absent", "queued"}
BY DEF QueuedInv, Driving

\* Every step preserves QueuedInv.
LEMMA QueuedStep ==
  ASSUME Parameters, TypeOK, PcInv, QueuedInv, Next
  PROVE  QueuedInv'
<1>t. /\ row \in Row /\ tasks \in [1..MaxTasks -> {"none", "continue", "wake"}]
      /\ sweep \in [Hosts -> {"idle", "wake", "reap", "enqueue wake", "enqueue continue"}]
      /\ call \in [Hosts -> {"idle", "starting", "cancelling"}]
  BY DEF TypeOK
<1>1. CASE \E h \in Hosts : Quiet(h)
  <2>1. PICK h \in Hosts : Quiet(h)
    BY <1>1
  <2>2. UNCHANGED <<row, ckpt, drive>>
    BY <2>1, QuietEffect
  <2>3. ASSUME row.status = "absent"
        PROVE  UNCHANGED <<tasks, call, sweep>>
    BY <2>1, <2>3 DEF QueuedInv, Quiet, StartEnqueue, CancelRead, WakeFind, ReapFind, SweepEnqueue
  <2> QED BY <2>2, <2>3 DEF QueuedInv, Driving
<1>2. CASE RowStep
  <2>1. /\ UNCHANGED <<plan, ckpt, tasks, items, drive, answers, cancels>>
        /\ row'.art = row.art /\ row'.active = row.active /\ row'.ctx = row.ctx
    BY <1>2, RowStepEffect
  <2>2. CASE \E h \in Hosts : StartQueued(h)
    <3>1. row.status = "absent" /\ row'.status = "queued" /\ row'.wake = row.wake
      BY <1>t, <2>2 DEF StartQueued, Row
    <3> QED BY <2>1, <3>1 DEF QueuedInv, Driving
  <2>3. CASE row'.status \notin {"absent", "queued"}
    BY <2>1, <2>3 DEF QueuedInv
  <2>4. CASE /\ row'.status = row.status /\ row'.wake = row.wake
             /\ row.status = "absent" => UNCHANGED <<call, sweep>>
    BY <2>1, <2>4 DEF QueuedInv, Driving
  <2>5. CASE Elapse
    <3>1. row.wake = "later" /\ row'.status = row.status
      BY <1>t, <2>5 DEF Elapse, Row
    <3> QED BY <2>3, <3>1 DEF QueuedInv
  <2>6. CASE Lapse
    <3>1. row'.status = row.status /\ row'.wake = row.wake /\ UNCHANGED <<call, sweep>>
      BY <1>t, <2>6 DEF Lapse, Row
    <3> QED BY <2>4, <3>1
  <2>7. CASE \E h \in Hosts : CancelWrite(h)
    <3>1. row'.status = "cancelled"
      BY <1>t, <2>7 DEF CancelWrite, Row
    <3> QED BY <2>3, <3>1
  <2>8. CASE \E h \in Hosts : WakeClaim(h)
    <3>1. PICK h \in Hosts : WakeClaim(h)
      BY <2>8
    <3>2. sweep[h] = "wake" /\ (row' = row \/ row'.status = "running")
      BY <1>t, <3>1 DEF WakeClaim, Row
    <3>3. row.status # "absent"
      BY <3>2 DEF QueuedInv
    <3> QED BY <2>3, <2>4, <3>2, <3>3
  <2>9. CASE \E h \in Hosts : ReapClaim(h)
    <3>1. PICK h \in Hosts : ReapClaim(h)
      BY <2>9
    <3>2. sweep[h] = "reap" /\ (row' = row \/ row'.status = "running")
      BY <1>t, <3>1 DEF ReapClaim, Row
    <3>3. row.status # "absent"
      BY <3>2 DEF QueuedInv
    <3> QED BY <2>3, <2>4, <3>2, <3>3
  <2> QED BY <1>2, <2>2, <2>5, <2>6, <2>7, <2>8, <2>9 DEF RowStep
<1>3. CASE \E h \in Hosts : DriveMove(h)
  <2> PICK h \in Hosts : DriveMove(h)
    BY <1>3
  <2>0. Moves(h)
    BY DriveMoveTyped
  <2>d. PcOK(drive[h]) /\ drive[h] \in Drive
    BY DEF PcInv, TypeOK
  <2>a. CASE StartWaiting(h)
    <3>1. row' = [row EXCEPT !.status = "running", !.lease = "valid"]
      BY <2>a, StartWaitingEffect
    <3>2. row'.status = "running"
      BY <1>t, <3>1 DEF Row
    <3> QED BY <2>0, <2>a, <3>2, StartWaitingEffect, QueuedOver
  <2>c. CASE Crash(h)
    <3>1. drive'[h].pc \notin DrivePcs
      BY <2>c, CrashEffect DEF Idle, DrivePcs
    <3>2. row' = row /\ ckpt' = ckpt /\ tasks' = tasks
      BY <2>c, CrashEffect
    <3>3. row.status = "absent" =>
            \A g \in Hosts : call'[g] # "starting" /\ sweep'[g] = "idle"
      <4>1. sweep' = [sweep EXCEPT ![h] = "idle"] /\ call' = [call EXCEPT ![h] = "idle"]
        BY <2>c, CrashEffect
      <4>2. row.status = "absent" => \A g \in Hosts : call[g] # "starting" /\ sweep[g] = "idle"
        BY DEF QueuedInv
      <4> QED BY <1>t, <4>1, <4>2
    <3>4. row.status = "absent" => \A i \in 1..MaxTasks : tasks'[i] = "none"
      BY <3>2 DEF QueuedInv
    <3> QED BY <2>0, <3>1, <3>2, <3>3, <3>4, QueuedLeft
  <2>e. CASE Delivered(h)
    <3>1. PICK i \in 1..MaxTasks : Deliver(h, i)
      BY <2>e DEF Delivered
    <3>2. /\ tasks[i] # "none" /\ drive'[h].pc \in {"ack", "prepare"}
          /\ drive'[h].pc = "prepare" => drive'[h].snap = row
          /\ UNCHANGED <<plan, row, ckpt, tasks, items, sweep, call>>
      BY <3>1, DeliverEffect
    <3> QED BY <2>0, <3>2 DEF QueuedInv, Moves, Driving, DrivePcs
  <2>f. CASE DriveQueued(h)
    <3>1. row' = [row EXCEPT !.status = "running", !.lease = "valid"]
      BY <2>f, DriveQueuedEffect
    <3>2. row'.status = "running"
      BY <1>t, <3>1 DEF Row
    <3> QED BY <2>0, <2>f, <3>2, DriveQueuedEffect, QueuedOver
  <2>g. CASE Redrive(h)
    BY <2>0, <2>g, RedriveEffect, DrivenIsNotQueued, QueuedOver DEF DrivePcs
  <2>h. CASE Wake(h)
    <3>1. drive[h].pc = "prepare" /\ drive[h].snap.ctx # 0 /\ row' = row /\ drive'[h].pc = "round"
      BY <2>h, WakeEffect
    <3>2. drive[h].snap.status # "queued"
      BY <3>1 DEF QueuedInv
    <3> QED BY <2>0, <3>1, <3>2, DrivenIsNotQueued, QueuedOver DEF DrivePcs
  <2>i. CASE WakeWithoutContext(h)
    <3>1. /\ drive'[h].pc \notin DrivePcs
          /\ UNCHANGED <<plan, row, ckpt, tasks, items, sweep, call, bounds>>
      BY <2>i, WakeWithoutContextEffect DEF DrivePcs
    <3> QED BY <2>0, <3>1, QueuedLeft DEF QueuedInv
  <2>j. CASE Round(h)
    <3>1. /\ drive[h].pc = "round" /\ row' = [row EXCEPT !.lease = "valid"]
          /\ drive'[h].pc # "prepare"
      BY <2>j, RoundEffect
    <3>2. row.status \notin {"absent", "queued"} /\ row'.status = row.status
      BY <1>t, <3>1, DrivenIsNotQueued DEF DrivePcs, Row
    <3> QED BY <2>0, <3>1, <3>2, QueuedOver
  <2>k. CASE RoundFails(h)
    BY <2>0, <2>k, RoundFailsEffect, DrivenIsNotQueued, QueuedOver DEF DrivePcs
  <2>l. CASE NothingActive(h)
    BY <2>0, <2>l, NothingActiveEffect, DrivenIsNotQueued, QueuedOver DEF DrivePcs
  <2>m. CASE NapOver(h)
    BY <2>0, <2>m, NapOverEffect, DrivenIsNotQueued, QueuedOver DEF DrivePcs
  <2>n. CASE Park(h)
    <3>1. /\ drive[h].pc = "park" /\ row'.status \in {"sleeping", row.status}
          /\ LetsGo(h)
      BY <2>n, ParkEffect
    <3>2. row.status \notin {"absent", "queued"}
      BY <3>1, DrivenIsNotQueued DEF DrivePcs
    <3> QED BY <2>0, <3>1, <3>2, QueuedOver DEF LetsGo
  <2>o. CASE Emit(h)
    BY <2>0, <2>o, EmitEffect, DrivenIsNotQueued, QueuedOver DEF DrivePcs
  <2>p. CASE Settle(h)
    <3>1. /\ drive[h].pc = "settle" /\ row'.status \in {drive[h].end, row.status}
          /\ LetsGo(h)
      BY <2>p, SettleEffect
    <3>2. row.status \notin {"absent", "queued"}
      BY <3>1, DrivenIsNotQueued DEF DrivePcs
    <3>3. drive[h].end \in Terminal \cup {"awaiting_input"}
      BY <2>d DEF Drive
    <3> QED BY <2>0, <3>1, <3>2, <3>3, QueuedOver DEF LetsGo, Terminal
  <2>q. CASE Ack(h)
    <3>1. /\ drive'[h].pc \notin DrivePcs
          /\ tasks' = [tasks EXCEPT ![drive[h].task] = "none"]
          /\ UNCHANGED <<plan, row, ckpt, items, sweep, call, bounds>>
      BY <2>q, AckEffect DEF DrivePcs, Idle
    <3>2. \A i \in 1..MaxTasks : tasks'[i] \in {tasks[i], "none"}
      BY <1>t, <3>1
    <3> QED BY <2>0, <3>1, <3>2, QueuedLeft DEF QueuedInv
  <2>r. CASE Decided(h)
    <3>1. /\ UNCHANGED <<plan, row, ckpt, tasks, items, sweep, call, bounds>>
          /\ \/ drive'[h].pc = "idle"
             \/ drive'[h].pc = "resume" /\ row.status = "awaiting_input"
      BY <2>r, DecidedEffect
    <3>2. CASE drive'[h].pc = "idle"
      BY <2>0, <3>1, <3>2, QueuedLeft DEF QueuedInv, DrivePcs
    <3>3. CASE drive'[h].pc = "resume" /\ row.status = "awaiting_input"
      BY <2>0, <3>1, <3>3, QueuedOver
    <3> QED BY <3>1, <3>2, <3>3
  <2>s. CASE Resume(h)
    <3>1. drive'[h].pc = "round" /\ row'.status = "running"
      BY <2>s, ResumeRow
    <3> QED BY <2>0, <3>1, QueuedOver
  <2>t. CASE \E n \in {0} \cup Nodes : Answer(h, n)
    BY <2>0, <2>t, AnswerEffect, QueuedOver
  <2>u. CASE \E n \in Nodes : Decide(h, n)
    <3>1. drive'[h].pc \notin DrivePcs /\ UNCHANGED <<plan, row, ckpt, tasks, sweep, call, bounds>>
      BY <2>u, DecideEffect DEF DrivePcs
    <3> QED BY <2>0, <3>1, QueuedLeft DEF QueuedInv
  <2> QED
    BY <2>a, <2>c, <2>e, <2>f, <2>g, <2>h, <2>i, <2>j, <2>k, <2>l, <2>m, <2>n, <2>o, <2>p, <2>q,
       <2>r, <2>s, <2>t, <2>u DEF DriveMove, DriveStep
<1> QED BY <1>1, <1>2, <1>3, StepCases, NextRemembers

(***************************************************************************)
(* Sleepers                                                                *)
(***************************************************************************)
LEMMA WakeKept ==
  ASSUME TypeOK, WakeInv, Remember, "paused with a wake" \notin seen', NEW h \in Hosts, Moves(h),
         WakeOK(drive'[h]), row'.status = "sleeping" => row'.wake # "none"
  PROVE  WakeInv'
<1>1. "paused with a wake" \notin seen
  BY SeenStep
<1>2. \A g \in Hosts : WakeOK(drive'[g])
  BY <1>1 DEF WakeInv, Moves
<1> QED BY <1>2 DEF WakeInv

\* Every step preserves WakeInv.
LEMMA WakeStep ==
  ASSUME Parameters, TypeOK, PcInv, SeenInv, WakeInv, Next
  PROVE  WakeInv'
<1> SUFFICES ASSUME "paused with a wake" \notin seen'
             PROVE  WakeInv'
  BY DEF WakeInv
<1>r. Remember
  BY NextRemembers
<1>s. "paused with a wake" \notin seen
  BY <1>r, SeenStep
<1>t. row \in Row
  BY DEF TypeOK
<1>w. row.status = "awaiting_input" => row.wake = "none"
  BY <1>s DEF SeenInv, Signs, Shows
<1>z. row.status = "sleeping" => row.wake # "none"
  BY <1>s DEF WakeInv
<1>1. CASE \E h \in Hosts : Quiet(h)
  BY <1>s, <1>1, QuietEffect DEF WakeInv
<1>2. CASE RowStep
  <2>1. drive' = drive
    BY <1>2, RowStepEffect
  <2>2. row'.status = "sleeping" => row.status = "sleeping"
    BY <1>2, RowStepEffect
  <2>3. row'.status = "sleeping" => row'.wake # "none"
    BY <1>2, <1>z, <2>2, RowStepEffect
  <2> QED BY <1>s, <2>1, <2>3 DEF WakeInv
<1>3. CASE \E h \in Hosts : DriveMove(h)
  <2> PICK h \in Hosts : DriveMove(h)
    BY <1>3
  <2>0. Moves(h)
    BY DriveMoveTyped
  <2>d. PcOK(drive[h]) /\ drive[h] \in Drive /\ drive[h].snap \in Row /\ WakeOK(drive[h])
    BY <1>s DEF PcInv, TypeOK, WakeInv, Drive
  <2>1. ASSUME WakeOK(drive'[h]), row'.status = "sleeping" => row'.wake # "none"
        PROVE  WakeInv'
    BY <1>r, <2>0, <2>1, WakeKept
  \* The row is left alone and the instance is kept, or the run let go.
  <2>2. ASSUME row' = row,
               drive'[h].pc \notin DrivePcs
                 \/ (drive[h].pc \in DrivePcs /\ drive'[h].snap = drive[h].snap)
        PROVE  WakeInv'
    BY <1>z, <2>d, <2>1, <2>2 DEF WakeOK
  \* The row is loaded.
  <2>3. ASSUME row' = row, drive'[h].snap = row
        PROVE  WakeInv'
    BY <1>w, <1>z, <2>1, <2>3 DEF WakeOK
  \* The run is set running.
  <2>4. ASSUME row'.status = "running", drive'[h].snap.status = "running"
        PROVE  WakeInv'
    BY <2>1, <2>4 DEF WakeOK
  <2>a. CASE StartWaiting(h)
    <3>1. row' = [row EXCEPT !.status = "running", !.lease = "valid"] /\ drive'[h].snap = row'
      BY <2>a, StartWaitingEffect
    <3>2. row'.status = "running"
      BY <1>t, <3>1 DEF Row
    <3> QED BY <2>4, <3>1, <3>2
  <2>c. CASE Crash(h)
    <3>1. row' = row /\ drive'[h] = Idle
      BY <2>c, CrashEffect
    <3>2. drive'[h].pc \notin DrivePcs
      BY <3>1, IdleRests
    <3> QED BY <2>2, <3>1, <3>2
  <2>e. CASE Delivered(h)
    <3>1. PICK i \in 1..MaxTasks : Deliver(h, i)
      BY <2>e DEF Delivered
    <3>2. row' = row /\ (drive'[h].pc = "ack" \/ drive'[h].snap = row)
      BY <3>1, DeliverEffect
    <3> QED BY <2>2, <2>3, <3>2 DEF DrivePcs
  <2>f. CASE DriveQueued(h)
    <3>1. /\ row' = [row EXCEPT !.status = "running", !.lease = "valid"]
          /\ drive'[h].snap = [drive[h].snap EXCEPT !.status = "running", !.lease = "valid"]
      BY <2>f, DriveQueuedEffect
    <3>2. row'.status = "running" /\ drive'[h].snap.status = "running"
      BY <1>t, <2>d, <3>1 DEF Row
    <3> QED BY <2>4, <3>2
  <2>g. CASE Redrive(h)
    BY <2>2, <2>g, RedriveEffect DEF DrivePcs
  <2>h. CASE Wake(h)
    BY <2>2, <2>h, WakeEffect DEF DrivePcs
  <2>i. CASE WakeWithoutContext(h)
    BY <2>2, <2>i, WakeWithoutContextEffect DEF DrivePcs
  <2>j. CASE Round(h)
    <3>1. /\ drive[h].pc = "round" /\ row' = [row EXCEPT !.lease = "valid"]
          /\ drive'[h].snap = [drive[h].snap EXCEPT !.lease = "valid"]
      BY <2>j, RoundEffect
    <3>2. row'.status = row.status /\ row'.wake = row.wake
      BY <1>t, <3>1 DEF Row
    <3>3. /\ drive'[h].snap.status = drive[h].snap.status
          /\ drive'[h].snap.wake = drive[h].snap.wake
      BY <2>d, <3>1 DEF Row
    <3> QED BY <1>z, <2>d, <2>1, <3>1, <3>2, <3>3 DEF WakeOK, DrivePcs
  <2>k. CASE RoundFails(h)
    BY <2>2, <2>k, RoundFailsEffect DEF DrivePcs
  <2>l. CASE NothingActive(h)
    BY <2>2, <2>l, NothingActiveEffect DEF DrivePcs
  <2>m. CASE NapOver(h)
    BY <2>2, <2>m, NapOverEffect DEF DrivePcs
  <2>n. CASE Park(h)
    <3>1. row'.wake = "later" /\ LetsGo(h)
      BY <2>n, ParkEffect
    <3> QED BY <2>1, <3>1 DEF LetsGo, WakeOK, DrivePcs
  <2>o. CASE Emit(h)
    BY <2>2, <2>o, EmitEffect DEF DrivePcs
  <2>p. CASE Settle(h)
    <3>1. /\ drive[h].pc = "settle" /\ LetsGo(h)
          /\ row'.status = IF drive[h].snap.status # drive[h].end THEN drive[h].end ELSE row.status
          /\ row'.wake = IF drive[h].snap.wake # "none" THEN "none" ELSE row.wake
      BY <2>p, SettleEffect
    <3>2. drive[h].end \in Terminal \cup {"awaiting_input"}
      BY <2>d DEF Drive
    <3>3. row'.status = "sleeping" => row'.wake # "none"
      <4> SUFFICES ASSUME row'.status = "sleeping"
                   PROVE  row'.wake # "none"
        OBVIOUS
      <4>1. drive[h].snap.status = drive[h].end /\ row.status = "sleeping"
        BY <3>1, <3>2 DEF Terminal
      <4>2. drive[h].snap.status \notin Terminal
        BY <2>d, <3>1 DEF PcOK, DrivePcs
      <4>3. drive[h].snap.wake = "none"
        BY <2>d, <3>1, <3>2, <4>1, <4>2 DEF WakeOK, DrivePcs
      <4> QED BY <1>z, <3>1, <4>1, <4>3
    <3> QED BY <2>1, <3>1, <3>3 DEF LetsGo, WakeOK, DrivePcs
  <2>q. CASE Ack(h)
    <3>1. row' = row /\ drive'[h] = Idle
      BY <2>q, AckEffect
    <3>2. drive'[h].pc \notin DrivePcs
      BY <3>1, IdleRests
    <3> QED BY <2>2, <3>1, <3>2
  <2>r. CASE Decided(h)
    <3>1. row' = row /\ (drive'[h].pc = "idle" \/ drive'[h].snap = row)
      BY <2>r, DecidedEffect
    <3> QED BY <2>2, <2>3, <3>1 DEF DrivePcs
  <2>s. CASE Resume(h)
    <3>1. PICK answered, start \in SUBSET Nodes :
            /\ row' = [row EXCEPT !.status = "running", !.lease = "valid",
                    !.active = IF start # drive[h].snap.active THEN start ELSE row.active]
            /\ drive'[h].snap = [drive[h].snap EXCEPT !.status = "running", !.lease = "valid",
                                                   !.active = start]
      BY <2>s, ResumeEffect
    <3>2. row'.status = "running" /\ drive'[h].snap.status = "running"
      BY <1>t, <2>d, <3>1 DEF Row
    <3> QED BY <2>4, <3>2
  <2>t. CASE \E n \in {0} \cup Nodes : Answer(h, n)
    BY <2>3, <2>t, AnswerEffect
  <2>u. CASE \E n \in Nodes : Decide(h, n)
    BY <2>2, <2>u, DecideEffect DEF DrivePcs
  <2> QED
    BY <2>a, <2>c, <2>e, <2>f, <2>g, <2>h, <2>i, <2>j, <2>k, <2>l, <2>m, <2>n, <2>o, <2>p, <2>q,
       <2>r, <2>s, <2>t, <2>u DEF DriveMove, DriveStep
<1> QED BY <1>1, <1>2, <1>3, StepCases, NextRemembers

(***************************************************************************)
(* Prefixes of the plan                                                    *)
(***************************************************************************)
LEMMA NothingDone ==
  Prefix({}) /\ \A n \in Start : {} = Before(n)
<1>1. {} = 1..0
  OBVIOUS
<1>2. Prefix({})
  BY <1>1 DEF Prefix
<1>3. ASSUME NEW n \in Start
      PROVE  {} = Before(n)
  <2>1. n = 1
    BY DEF Start
  <2> QED BY <1>1, <2>1 DEF Before
<1> QED BY <1>2, <1>3

\* Of two prefixes one contains the other, so their union is a prefix.
LEMMA PrefixUnion ==
  ASSUME Parameters, TypeOK, NEW S, NEW T, Prefix(S), Prefix(T)
  PROVE  Prefix(S \cup T)
<1>1. PICK j \in {0} \cup Nodes : S = 1..j
  BY DEF Prefix
<1>2. PICK k \in {0} \cup Nodes : T = 1..k
  BY DEF Prefix
<1>3. j \in Nat /\ k \in Nat
  BY NodesTyped
<1>4. CASE j <= k
  <2>1. S \cup T = 1..k
    BY <1>1, <1>2, <1>3, <1>4
  <2> QED BY <2>1 DEF Prefix
<1>5. CASE k <= j
  <2>1. S \cup T = 1..j
    BY <1>1, <1>2, <1>3, <1>5
  <2> QED BY <2>1 DEF Prefix
<1> QED BY <1>3, <1>4, <1>5

\* A prefix with every node before m, but without m, ends before m.
LEMMA PrefixGap ==
  ASSUME Parameters, TypeOK, NEW S, Prefix(S), NEW m \in Nodes, Before(m) \subseteq S, m \notin S
  PROVE  S = Before(m)
<1>1. PICK k \in {0} \cup Nodes : S = 1..k
  BY DEF Prefix
<1>2. m \in Nat /\ m >= 1 /\ k \in Nat
  BY NodesTyped
<1>3. k < m
  BY <1>1, <1>2
<1>4. m - 1 <= k
  <2>1. CASE m = 1
    BY <1>2, <2>1
  <2>2. CASE m # 1
    <3>1. m - 1 \in Before(m)
      BY <1>2, <2>2 DEF Before
    <3> QED BY <1>1, <1>2, <3>1
  <2> QED BY <2>1, <2>2
<1>5. k = m - 1
  BY <1>2, <1>3, <1>4
<1> QED BY <1>1, <1>5 DEF Before

\* What follows a prefix: the next node and no other, or nothing at the end.
LEMMA PrefixNext ==
  ASSUME Parameters, TypeOK, NEW S, Prefix(S)
  PROVE  /\ S \subseteq Nodes
         /\ \A n \in (Following(S) \cup Start) \ S : S = Before(n)
         /\ (Following(S) \cup Start) \ S = {} => S = Nodes
<1>1. PICK k \in {0} \cup Nodes : S = 1..k
  BY DEF Prefix
<1>2. Len(plan) \in Nat /\ Nodes = 1..Len(plan)
  BY NodesTyped
<1>3. k \in Nat /\ k <= Len(plan)
  BY <1>2
<1>4. S \subseteq Nodes
  BY <1>1, <1>2, <1>3
<1>5. ASSUME NEW n \in (Following(S) \cup Start) \ S
      PROVE  n = k + 1
  <2>1. CASE n \in Following(S)
    <3>1. PICK m \in S : n = m + 1
      BY <2>1 DEF Following
    <3> QED BY <1>1, <1>3, <1>5, <3>1
  <2>2. CASE n \in Start
    BY <1>1, <1>3, <1>5, <2>2 DEF Start
  <2> QED BY <1>5, <2>1, <2>2
<1>6. ASSUME NEW n \in (Following(S) \cup Start) \ S
      PROVE  S = Before(n)
  BY <1>1, <1>3, <1>5, <1>6 DEF Before
<1>7. ASSUME S # Nodes
      PROVE  k + 1 \in (Following(S) \cup Start) \ S
  <2>1. k < Len(plan)
    BY <1>1, <1>2, <1>3, <1>7
  <2>2. k + 1 \in Nodes /\ k + 1 \notin S
    BY <1>1, <1>2, <1>3, <2>1
  <2>3. CASE k = 0
    BY <2>2, <2>3 DEF Start
  <2>4. CASE k # 0
    <3>1. k \in S
      BY <1>1, <1>3, <2>4
    <3> QED BY <2>2, <3>1 DEF Following
  <2> QED BY <2>3, <2>4
<1> QED BY <1>4, <1>6, <1>7

\* A node and those before it.
LEMMA BeforeNext ==
  ASSUME Parameters, TypeOK, NEW n \in Nodes
  PROVE  /\ Prefix(Before(n)) /\ Prefix(Before(n) \cup {n})
         /\ n \notin Before(n)
         /\ \A m \in Following({n}) : Before(n) \cup {n} = Before(m)
         /\ Following({n}) = {} => Before(n) \cup {n} = Nodes
         /\ Following({n}) \cap (Before(n) \cup {n}) = {}
<1>1. Len(plan) \in Nat /\ Nodes = 1..Len(plan)
  BY NodesTyped
<1>2. Before(n) \cup {n} = 1..n
  BY <1>1 DEF Before
<1>3. n - 1 \in {0} \cup Nodes
  BY <1>1
<1>4. Prefix(Before(n)) /\ Prefix(Before(n) \cup {n})
  BY <1>2, <1>3 DEF Prefix, Before
<1>5. \A m \in Following({n}) : m = n + 1
  BY DEF Following
<1>6. \A m \in Following({n}) : 1..n = Before(m)
  BY <1>1, <1>5 DEF Before
<1>7. Following({n}) = {} => 1..n = Nodes
  BY <1>1 DEF Following
<1>8. n \notin Before(n)
  BY <1>1 DEF Before
<1>9. \A m \in Following({n}) : m \notin 1..n
  BY <1>1, <1>5
<1> QED BY <1>2, <1>4, <1>6, <1>7, <1>8, <1>9

(***************************************************************************)
(* Drives that follow each other                                           *)
(***************************************************************************)
SameProgress == row'.art = row.art /\ row'.ctx = row.ctx /\ row'.active = row.active

\* Only h moves, and stands where the row says: the frontier is kept.
LEMMA FrontierKept ==
  ASSUME TypeOK, SeenInv, FrontierInv, Remember, "two drives" \notin seen', NEW h \in Hosts,
         plan' = plan, Moves(h), SameProgress \/ drive[h].pc \in DrivePcs,
         Prefix(row'.art), Prefix(ckpt'),
         row'.ctx # 0 => row'.art = Before(row'.ctx),
         row'.status = "awaiting_input" => \A n \in row'.active : row'.art = Before(n),
         Placed(drive'[h]),
         drive'[h].pc \in DrivePcs =>
           /\ drive'[h].snap.art = row'.art /\ drive'[h].snap.ctx = row'.ctx
           /\ drive'[h].snap.active = row'.active
  PROVE  FrontierInv'
<1>1. "two drives" \notin seen
  BY SeenStep
<1>2. \A g \in Hosts : Placed(drive[g]) /\ InStep(drive[g])
  BY <1>1 DEF FrontierInv
<1>3. Nodes' = Nodes
  BY DEF Nodes
<1>4. \A g \in Hosts : Placed(drive'[g])
  BY <1>2 DEF Moves
<1>5. ASSUME NEW g \in Hosts
      PROVE  InStep(drive[g])'
  <2>1. CASE g = h
    BY <2>1 DEF InStep
  <2>2. CASE g # h /\ SameProgress
    BY <1>2, <2>2 DEF InStep, SameProgress, Moves
  <2>3. CASE g # h /\ drive[h].pc \in DrivePcs
    BY <2>3, OthersRest DEF InStep
  <2> QED BY <2>1, <2>2, <2>3
<1>6. ASSUME NEW g \in Hosts
      PROVE  Placed(drive[g])'
  BY <1>3, <1>4 DEF Placed, Prefix
<1>7. RowPlaced'
  BY <1>3 DEF RowPlaced, Prefix
<1> QED BY <1>5, <1>6, <1>7 DEF FrontierInv

\* The row's progress and the pause are as they were.
LEMMA FrontierDrive ==
  ASSUME TypeOK, SeenInv, FrontierInv, Remember, "two drives" \notin seen', NEW h \in Hosts,
         plan' = plan, Moves(h), SameProgress, Prefix(ckpt'),
         row'.status = "awaiting_input" => row.status = "awaiting_input",
         Placed(drive'[h]),
         drive'[h].pc \in DrivePcs =>
           /\ drive'[h].snap.art = row.art /\ drive'[h].snap.ctx = row.ctx
           /\ drive'[h].snap.active = row.active
  PROVE  FrontierInv'
<1>1. "two drives" \notin seen
  BY SeenStep
<1>2. RowPlaced
  BY <1>1 DEF FrontierInv
<1> QED BY <1>2, FrontierKept DEF SameProgress, RowPlaced

\* Every step preserves FrontierInv.
LEMMA FrontierStep ==
  ASSUME Parameters, TypeOK, PcInv, SeenInv, QueuedInv, FrontierInv, Next
  PROVE  FrontierInv'
<1> SUFFICES ASSUME "two drives" \notin seen'
             PROVE  FrontierInv'
  BY DEF FrontierInv
<1>r. Remember
  BY NextRemembers
<1>s. "two drives" \notin seen
  BY <1>r, SeenStep
<1>t. row \in Row
  BY DEF TypeOK
<1>p. RowPlaced
  BY <1>s DEF FrontierInv
<1>1. CASE \E h \in Hosts : Quiet(h)
  <2>1. UNCHANGED <<plan, row, ckpt, drive>>
    BY <1>1, QuietEffect
  <2>2. RowPlaced' /\ \A h \in Hosts : Placed(drive[h]) /\ InStep(drive[h])
    BY <1>s, <1>p, <2>1 DEF FrontierInv, RowPlaced, Prefix, Nodes
  <2> QED BY <2>1, <2>2 DEF FrontierInv, Placed, InStep, Prefix, Nodes
<1>2. CASE RowStep
  <2>1. UNCHANGED <<plan, ckpt, drive>> /\ SameProgress
    BY <1>2, RowStepEffect DEF SameProgress
  <2>2. row'.status = "awaiting_input" => row.status = "awaiting_input"
    BY <1>2, RowStepEffect
  <2>3. RowPlaced'
    BY <1>p, <2>1, <2>2 DEF RowPlaced, SameProgress, Prefix, Nodes
  <2>4. \A h \in Hosts : Placed(drive[h])' /\ InStep(drive[h])'
    BY <1>s, <2>1 DEF FrontierInv, Placed, InStep, SameProgress, Prefix, Nodes
  <2> QED BY <2>3, <2>4 DEF FrontierInv
<1>3. CASE \E h \in Hosts : DriveMove(h)
  <2> PICK h \in Hosts : DriveMove(h)
    BY <1>3
  <2>0. Moves(h) /\ plan' = plan
    BY DriveMoveTyped
  <2>d. PcOK(drive[h]) /\ drive[h] \in Drive /\ drive[h].snap \in Row
    BY DEF PcInv, TypeOK, Drive
  <2>p. Placed(drive[h]) /\ InStep(drive[h])
    BY <1>s DEF FrontierInv
  <2>q. Prefix(row.art) /\ Prefix(ckpt)
    BY <1>p DEF RowPlaced
  \* The drive moves within the run.
  <2>1. ASSUME drive[h].pc \in DrivePcs, SameProgress, row'.status = row.status, Prefix(ckpt'),
               drive'[h].snap.art = drive[h].snap.art, drive'[h].snap.ctx = drive[h].snap.ctx,
               drive'[h].snap.active = drive[h].snap.active, Placed(drive'[h])
        PROVE  FrontierInv'
    <3>1. /\ drive'[h].snap.art = row.art /\ drive'[h].snap.ctx = row.ctx
          /\ drive'[h].snap.active = row.active
      BY <2>p, <2>1 DEF InStep
    <3> QED BY <1>r, <2>0, <2>1, <3>1, FrontierDrive
  \* It has nothing to do with the run any more, or not yet.
  <2>2. ASSUME row' = row, ckpt' = ckpt, drive'[h].pc \notin DrivePcs, drive'[h].act = {}
        PROVE  FrontierInv'
    <3>1. Placed(drive'[h])
      BY <2>2 DEF Placed, DrivePcs
    <3> QED BY <1>r, <2>0, <2>2, <2>q, <3>1, FrontierDrive DEF SameProgress
  \* It has loaded the row.
  <2>3. ASSUME row' = row, ckpt' = ckpt, drive'[h].snap = row, Placed(drive'[h])
        PROVE  FrontierInv'
    BY <1>r, <2>0, <2>3, <2>q, FrontierDrive DEF SameProgress
  <2>4. ASSUME drive'[h].pc = "round", Prefix(drive'[h].done),
               \A n \in drive'[h].act : drive'[h].done = Before(n)
        PROVE  Placed(drive'[h])
    BY <2>4 DEF Placed
  <2>a. CASE StartWaiting(h)
    <3>1. /\ row' = [row EXCEPT !.status = "running", !.lease = "valid"]
          /\ drive'[h].snap = row' /\ drive'[h].done = {} /\ drive'[h].act = Start
          /\ drive'[h].pc = "round" /\ ckpt' = ckpt
      BY <2>a, StartWaitingEffect
    <3>2. SameProgress /\ row'.status = "running"
      BY <1>t, <3>1 DEF Row, SameProgress
    <3>3. Prefix({}) /\ \A n \in Start : {} = Before(n)
      BY NothingDone
    <3>4. Placed(drive'[h])
      BY <2>4, <3>1, <3>3
    <3> QED BY <1>r, <2>0, <2>q, <3>1, <3>2, <3>4, FrontierDrive DEF SameProgress
  <2>c. CASE Crash(h)
    <3>1. row' = row /\ ckpt' = ckpt /\ drive'[h] = Idle
      BY <2>c, CrashEffect
    <3>2. drive'[h].pc \notin DrivePcs /\ drive'[h].act = {}
      BY <3>1, IdleRests
    <3> QED BY <2>2, <3>1, <3>2
  <2>e. CASE Delivered(h)
    <3>1. PICK i \in 1..MaxTasks : Deliver(h, i)
      BY <2>e DEF Delivered
    <3>2. /\ row' = row /\ ckpt' = ckpt /\ drive'[h].act = {}
          /\ drive'[h].pc = "ack" \/ (drive'[h].pc = "prepare" /\ drive'[h].snap = row)
      BY <3>1, DeliverEffect
    <3> QED BY <2>2, <2>3, <3>2 DEF DrivePcs, Placed
  <2>f. CASE DriveQueued(h)
    <3>1. /\ drive[h].pc = "prepare" /\ drive[h].snap.status = "queued"
          /\ row' = [row EXCEPT !.status = "running", !.lease = "valid"]
          /\ drive'[h].snap = [drive[h].snap EXCEPT !.status = "running", !.lease = "valid"]
          /\ drive'[h].done = drive[h].snap.art /\ drive'[h].act = Start
          /\ drive'[h].pc = "round" /\ ckpt' = ckpt
      BY <2>f, DriveQueuedEffect
    <3>2. SameProgress /\ row'.status = "running"
      BY <1>t, <3>1 DEF Row, SameProgress
    <3>3. Prefix({}) /\ \A n \in Start : {} = Before(n)
      BY NothingDone
    <3>4. drive[h].snap.art = {}
      BY <3>1 DEF QueuedInv
    <3>5. Placed(drive'[h])
      BY <2>4, <3>1, <3>3, <3>4
    <3>6. /\ drive'[h].snap.art = drive[h].snap.art /\ drive'[h].snap.ctx = drive[h].snap.ctx
          /\ drive'[h].snap.active = drive[h].snap.active
      BY <2>d, <3>1 DEF Row
    <3>7. drive[h].pc \in DrivePcs
      BY <3>1 DEF DrivePcs
    <3>8. /\ drive'[h].snap.art = row.art /\ drive'[h].snap.ctx = row.ctx
          /\ drive'[h].snap.active = row.active
      BY <2>p, <3>6, <3>7 DEF InStep
    <3> QED BY <1>r, <2>0, <2>q, <3>1, <3>2, <3>5, <3>8, FrontierDrive
  <2>g. CASE Redrive(h)
    <3>1. /\ drive[h].pc = "prepare" /\ drive'[h].pc = "round" /\ drive'[h].snap = drive[h].snap
          /\ drive'[h].done = drive[h].snap.art \cup ckpt
          /\ drive'[h].act = (Following(drive'[h].done) \cup Start) \ drive'[h].done
          /\ row' = row /\ ckpt' = ckpt
      BY <2>g, RedriveEffect
    <3>2. drive[h].pc \in DrivePcs
      BY <3>1 DEF DrivePcs
    <3>5. drive[h].snap.art = row.art
      BY <2>p, <3>2 DEF InStep
    <3>6. drive'[h].done = row.art \cup ckpt
      BY <3>1, <3>5
    <3>7. Prefix(row.art \cup ckpt)
      BY <2>q, PrefixUnion
    <3>3. Prefix(drive'[h].done)
      BY <3>6, <3>7
    <3>4. Placed(drive'[h])
      BY <2>4, <3>1, <3>3, PrefixNext
    <3> QED BY <2>1, <2>q, <3>1, <3>2, <3>4 DEF SameProgress
  <2>h. CASE Wake(h)
    <3>1. /\ drive[h].pc = "prepare" /\ drive'[h].pc = "round" /\ drive'[h].snap = drive[h].snap
          /\ drive'[h].done = drive[h].snap.art \cup ckpt \cup {drive[h].snap.ctx}
          /\ drive'[h].act = Following({drive[h].snap.ctx}) \ drive'[h].done
          /\ drive[h].snap.ctx \in Nodes /\ drive[h].snap.ctx # 0
          /\ row' = row /\ ckpt' = ckpt
      BY <2>h, WakeEffect
    <3> DEFINE c == drive[h].snap.ctx
    <3>2. drive[h].pc \in DrivePcs
      BY <3>1 DEF DrivePcs
    <3>3. drive[h].snap.art = Before(c)
      BY <1>p, <2>p, <3>1, <3>2 DEF InStep, RowPlaced
    <3>4. drive'[h].done = (Before(c) \cup {c}) \cup ckpt
      BY <3>1, <3>3
    <3>5. Prefix(Before(c) \cup {c}) /\ \A m \in Following({c}) : Before(c) \cup {c} = Before(m)
      BY <3>1, BeforeNext
    <3>6. Prefix(drive'[h].done)
      <4> DEFINE B == Before(c) \cup {c}
      <4>1. Prefix(B) /\ drive'[h].done = B \cup ckpt
        BY <3>4, <3>5
      <4> HIDE DEF B
      <4>2. Prefix(B \cup ckpt)
        BY <2>q, <4>1, PrefixUnion
      <4> QED BY <4>1, <4>2
    <3>7. c \in drive'[h].done /\ drive'[h].act = Following({c}) \ drive'[h].done
      BY <3>1
    <3> HIDE DEF c
    <3>8. ASSUME NEW m \in drive'[h].act
          PROVE  drive'[h].done = Before(m)
      <4>1. m \in Following(drive'[h].done) \ drive'[h].done
        BY <3>7, <3>8 DEF Following
      <4> QED BY <3>6, <4>1, PrefixNext
    <3>9. Placed(drive'[h])
      BY <2>4, <3>1, <3>6, <3>8
    <3> QED BY <2>1, <2>q, <3>1, <3>2, <3>9 DEF SameProgress
  <2>i. CASE WakeWithoutContext(h)
    BY <2>2, <2>i, WakeWithoutContextEffect DEF DrivePcs
  <2>j. CASE Round(h)
    <3>1. PICK n \in drive[h].act :
         /\ drive[h].pc = "round"
         /\ row' = [row EXCEPT !.lease = "valid"]
         /\ drive'[h].snap = [drive[h].snap EXCEPT !.lease = "valid"]
         /\ \/ /\ drive'[h].pc = "round" /\ ckpt' = drive[h].done \cup {n}
               /\ drive'[h].done = drive[h].done \cup {n}
               /\ drive'[h].act = Following({n}) \ drive'[h].done
            \/ /\ drive'[h].pc \in {"nap", "park", "emit", "settle"} /\ ckpt' = drive[h].done
               /\ drive'[h].done = drive[h].done
               /\ drive'[h].act = {} /\ drive'[h].node = n
      BY <2>j, RoundEffect
    <3>2. n \in Nodes /\ drive[h].done = Before(n) /\ Prefix(drive[h].done)
      BY <2>d, <2>p, <3>1 DEF Drive, Placed
    <3>3. SameProgress /\ row'.status = row.status
      BY <1>t, <3>1 DEF Row, SameProgress
    <3>4. /\ drive'[h].snap.art = drive[h].snap.art /\ drive'[h].snap.ctx = drive[h].snap.ctx
          /\ drive'[h].snap.active = drive[h].snap.active
      BY <2>d, <3>1 DEF Row
    <3>n. /\ Prefix(Before(n)) /\ Prefix(Before(n) \cup {n})
          /\ \A m \in Following({n}) : Before(n) \cup {n} = Before(m)
      BY <3>2, BeforeNext
    <3>5. Prefix(ckpt') /\ Prefix(drive'[h].done)
      BY <3>1, <3>2, <3>n
    <3>6. Placed(drive'[h])
      <4>1. CASE drive'[h].pc = "round"
        <5>1. \A m \in drive'[h].act : drive'[h].done = Before(m)
          BY <3>1, <3>2, <3>n, <4>1
        <5> QED BY <2>4, <3>5, <4>1, <5>1
      <4>2. CASE drive'[h].pc # "round"
        <5>1. /\ drive'[h].pc \in {"nap", "park", "emit", "settle"}
              /\ drive'[h].done = drive[h].done /\ drive'[h].act = {} /\ drive'[h].node = n
          BY <3>1, <4>2
        <5> QED BY <3>2, <3>5, <5>1 DEF Placed
      <4> QED BY <4>1, <4>2
    <3> QED BY <2>1, <3>1, <3>3, <3>4, <3>5, <3>6 DEF DrivePcs
  <2>k. CASE RoundFails(h)
    <3>1. /\ drive[h].pc = "round" /\ drive'[h].pc = "settle" /\ drive'[h].snap = drive[h].snap
          /\ drive'[h].done = drive[h].done /\ drive'[h].act = {} /\ drive'[h].end = "failed"
          /\ row' = row /\ ckpt' = ckpt
      BY <2>k, RoundFailsEffect
    <3>2. Placed(drive'[h])
      BY <2>p, <3>1 DEF Placed
    <3> QED BY <2>1, <2>q, <3>1, <3>2 DEF SameProgress, DrivePcs
  <2>l. CASE NothingActive(h)
    <3>1. /\ drive[h].pc = "round" /\ drive'[h].pc = "settle" /\ drive'[h].snap = drive[h].snap
          /\ drive'[h].done = drive[h].done /\ drive'[h].act = {} /\ drive'[h].end = "succeeded"
          /\ row' = row /\ ckpt' = ckpt
      BY <2>l, NothingActiveEffect
    <3>2. Placed(drive'[h])
      BY <2>p, <3>1 DEF Placed
    <3> QED BY <2>1, <2>q, <3>1, <3>2 DEF SameProgress, DrivePcs
  <2>m. CASE NapOver(h)
    <3>1. /\ drive[h].pc = "nap" /\ drive'[h].pc = "round" /\ drive[h].node \in Nodes
          /\ drive'[h].snap = drive[h].snap
          /\ drive'[h].done = drive[h].done \cup {drive[h].node}
          /\ drive'[h].act = Following({drive[h].node}) \ drive'[h].done
          /\ row' = row /\ ckpt' = ckpt
      BY <2>m, NapOverEffect
    <3>2. drive[h].done = Before(drive[h].node)
      BY <2>p, <3>1 DEF Placed
    <3> DEFINE n == drive[h].node
    <3>5. /\ Prefix(Before(n) \cup {n})
          /\ \A m \in Following({n}) : Before(n) \cup {n} = Before(m)
      BY <3>1, BeforeNext
    <3>6. drive'[h].done = Before(n) \cup {n} /\ drive'[h].act \subseteq Following({n})
      BY <3>1, <3>2
    <3> HIDE DEF n
    <3>3. Prefix(drive'[h].done) /\ \A m \in drive'[h].act : drive'[h].done = Before(m)
      BY <3>5, <3>6
    <3>4. Placed(drive'[h])
      BY <2>4, <3>1, <3>3
    <3> QED BY <2>1, <2>q, <3>1, <3>4 DEF SameProgress, DrivePcs
  <2>n. CASE Park(h)
    <3>1. /\ drive[h].pc = "park" /\ LetsGo(h) /\ ckpt' = ckpt
          /\ row'.status = IF drive[h].snap.status # "sleeping" THEN "sleeping" ELSE row.status
          /\ row'.art = IF drive[h].done # drive[h].snap.art THEN drive[h].done ELSE row.art
          /\ row'.active = IF {drive[h].node} # drive[h].snap.active THEN {drive[h].node} ELSE row.active
          /\ row'.ctx = IF drive[h].node # drive[h].snap.ctx THEN drive[h].node ELSE row.ctx
      BY <2>n, ParkEffect
    <3>2. drive[h].pc \in DrivePcs
      BY <3>1 DEF DrivePcs
    <3>3. /\ row'.art = drive[h].done /\ row'.active = {drive[h].node}
          /\ row'.ctx = drive[h].node
      BY <2>p, <3>1, <3>2 DEF InStep
    <3>4. drive[h].done = Before(drive[h].node) /\ Prefix(drive[h].done)
      BY <2>p, <3>1 DEF Placed
    <3>5. drive'[h].pc \notin DrivePcs /\ Placed(drive'[h])
      BY <3>1 DEF LetsGo, Placed, DrivePcs
    <3>6. row'.ctx # 0 => row'.art = Before(row'.ctx)
      BY <3>3, <3>4
    <3>7. \A n \in row'.active : row'.art = Before(n)
      BY <3>3, <3>4
    <3>8. Prefix(row'.art) /\ Prefix(ckpt')
      BY <2>q, <3>1, <3>3, <3>4
    <3> QED BY <1>r, <2>0, <3>2, <3>5, <3>6, <3>7, <3>8, FrontierKept
  <2>o. CASE Emit(h)
    <3>1. /\ drive[h].pc = "emit" /\ drive'[h].pc = "settle" /\ drive'[h].snap = drive[h].snap
          /\ drive'[h].done = drive[h].done /\ drive'[h].act = drive[h].act
          /\ drive'[h].node = drive[h].node /\ drive'[h].end = drive[h].end
          /\ row' = row /\ ckpt' = ckpt
      BY <2>o, EmitEffect
    <3>2. Placed(drive'[h])
      BY <2>p, <3>1 DEF Placed
    <3> QED BY <2>1, <2>q, <3>1, <3>2 DEF SameProgress, DrivePcs
  <2>u. CASE Settle(h)
    <3> DEFINE left == IF drive[h].end = "awaiting_input" THEN {drive[h].node} ELSE {}
    <3>1. /\ drive[h].pc = "settle" /\ LetsGo(h) /\ ckpt' = ckpt
          /\ row'.status = IF drive[h].snap.status # drive[h].end THEN drive[h].end ELSE row.status
          /\ row'.art = IF drive[h].done # drive[h].snap.art THEN drive[h].done ELSE row.art
          /\ row'.active = IF left # drive[h].snap.active THEN left ELSE row.active
          /\ row'.ctx = IF drive[h].snap.ctx # 0 THEN 0 ELSE row.ctx
      BY <2>u, SettleEffect
    <3>2. drive[h].pc \in DrivePcs
      BY <3>1 DEF DrivePcs
    <3>3. row'.art = drive[h].done /\ row'.active = left /\ row'.ctx = 0
      BY <2>p, <3>1, <3>2 DEF InStep
    <3>4. Prefix(drive[h].done)
      BY <2>p, <3>1 DEF Placed
    <3>5. drive'[h].pc \notin DrivePcs /\ Placed(drive'[h])
      BY <3>1 DEF LetsGo, Placed, DrivePcs
    <3>6. \A n \in row'.active : row'.art = Before(n)
      BY <2>p, <3>1, <3>3 DEF Placed
    <3>7. Prefix(row'.art) /\ Prefix(ckpt')
      BY <2>q, <3>1, <3>3, <3>4
    <3> QED BY <1>r, <2>0, <3>2, <3>3, <3>5, <3>6, <3>7, FrontierKept
  <2>v. CASE Ack(h)
    <3>1. row' = row /\ ckpt' = ckpt /\ drive'[h] = Idle
      BY <2>v, AckEffect
    <3>2. drive'[h].pc \notin DrivePcs /\ drive'[h].act = {}
      BY <3>1, IdleRests
    <3> QED BY <2>2, <3>1, <3>2
  <2>w. CASE Decided(h)
    <3>1. /\ row' = row /\ ckpt' = ckpt /\ drive'[h].act = {}
          /\ \/ drive'[h].pc = "idle"
             \/ /\ drive'[h].pc = "resume" /\ row.status = "awaiting_input"
                /\ drive'[h].node \in row.active /\ drive'[h].snap = row
      BY <2>w, DecidedEffect
    <3>2. CASE drive'[h].pc = "idle"
      BY <2>2, <3>1, <3>2 DEF DrivePcs
    <3>3. CASE drive'[h].pc = "resume"
      <4>1. Placed(drive'[h])
        BY <1>p, <3>1, <3>3 DEF Placed, RowPlaced
      <4> QED BY <2>3, <3>1, <3>3, <4>1
    <3> QED BY <3>1, <3>2, <3>3
  <2>x. CASE Resume(h)
    <3>1. PICK answered, start \in SUBSET Nodes :
         /\ drive[h].pc = "resume" /\ drive[h].snap.status = "awaiting_input"
         /\ answered = IF drive[h].node = 0 THEN {} ELSE {drive[h].node}
         /\ drive'[h].done = drive[h].snap.art \cup ckpt \cup answered
         /\ start = IF drive[h].node = 0 THEN drive[h].snap.active
                    ELSE Following(answered) \ drive'[h].done
         /\ drive'[h].act = start \ drive'[h].done
         /\ row' = [row EXCEPT !.status = "running", !.lease = "valid",
                               !.active = IF start # drive[h].snap.active THEN start ELSE row.active]
         /\ Moves(h)
         /\ drive'[h].pc = "round"
         /\ drive'[h].task = drive[h].task /\ drive'[h].kind = drive[h].kind
         /\ drive'[h].snap = [drive[h].snap EXCEPT !.status = "running", !.lease = "valid",
                                                   !.active = start]
         /\ UNCHANGED <<plan, ckpt, tasks, items, sweep, call, bounds>>
      BY <2>x, ResumeEffect
    <3>2. drive[h].pc = "resume" /\ drive'[h].pc = "round" /\ ckpt' = ckpt
      BY <3>1
    <3>3. /\ drive[h].node = 0 \/ drive[h].node \in drive[h].snap.active
          /\ \A n \in drive[h].snap.active : n \in Nodes /\ drive[h].snap.art = Before(n)
      BY <2>d, <2>p, <3>2 DEF Placed, Row
    <3>4. drive[h].pc \in DrivePcs
      BY <3>2 DEF DrivePcs
    <3>5. /\ row'.status = "running" /\ row'.art = row.art /\ row'.ctx = row.ctx
          /\ row'.active = IF start # drive[h].snap.active THEN start ELSE row.active
      BY <1>t, <3>1 DEF Row
    <3>6. /\ drive'[h].snap.art = drive[h].snap.art /\ drive'[h].snap.ctx = drive[h].snap.ctx
          /\ drive'[h].snap.active = start
      BY <2>d, <3>1 DEF Row
    <3>7. /\ drive[h].snap.art = row.art /\ drive[h].snap.ctx = row.ctx
          /\ drive[h].snap.active = row.active
      BY <2>p, <3>4 DEF InStep
    <3>8. Prefix(drive'[h].done) /\ \A m \in drive'[h].act : drive'[h].done = Before(m)
      <4>1. CASE drive[h].node = 0
        <5>1. drive'[h].done = drive[h].snap.art \cup ckpt
          BY <3>1, <4>1
        <5>2. Prefix(drive'[h].done)
          BY <2>q, <3>7, <5>1, PrefixUnion
        <5>3. ASSUME NEW m \in drive'[h].act
              PROVE  drive'[h].done = Before(m)
          <6>1. m \in Nodes /\ drive[h].snap.art = Before(m) /\ m \notin drive'[h].done
            BY <3>1, <3>3, <4>1, <5>3
          <6>2. Before(m) \subseteq drive'[h].done
            BY <5>1, <6>1
          <6> QED BY <5>2, <6>1, <6>2, PrefixGap
        <5> QED BY <5>2, <5>3
      <4>2. CASE drive[h].node # 0
        <5> DEFINE c == drive[h].node
        <5>1. c \in Nodes /\ drive[h].snap.art = Before(c) /\ answered = {c}
          BY <3>1, <3>3, <4>2
        <5>2. drive'[h].done = (Before(c) \cup {c}) \cup ckpt
          BY <3>1, <5>1
        <5>3. Prefix(Before(c) \cup {c})
          BY <5>1, BeforeNext
        <5>4. Prefix(drive'[h].done)
          BY <2>q, <5>2, <5>3, PrefixUnion
        <5>5. c \in drive'[h].done /\ drive'[h].act \subseteq Following({c}) \ drive'[h].done
          BY <3>1, <4>2, <5>1
        <5> HIDE DEF c
        <5>6. ASSUME NEW m \in drive'[h].act
              PROVE  drive'[h].done = Before(m)
          <6>1. m \in Following(drive'[h].done) \ drive'[h].done
            BY <5>5, <5>6 DEF Following
          <6> QED BY <5>4, <6>1, PrefixNext
        <5> QED BY <5>4, <5>6
      <4> QED BY <4>1, <4>2
    <3>9. Placed(drive'[h])
      BY <2>4, <3>2, <3>8
    <3>10. /\ drive'[h].snap.art = row'.art /\ drive'[h].snap.ctx = row'.ctx
           /\ drive'[h].snap.active = row'.active
      BY <3>5, <3>6, <3>7
    <3>11. row'.ctx # 0 => row'.art = Before(row'.ctx)
      BY <1>p, <3>5 DEF RowPlaced
    <3>12. Prefix(row'.art) /\ Prefix(ckpt')
      BY <2>q, <3>2, <3>5
    <3> QED BY <1>r, <2>0, <3>4, <3>5, <3>9, <3>10, <3>11, <3>12, FrontierKept
  <2>y. CASE \E n \in {0} \cup Nodes : Answer(h, n)
    <3>1. PICK n \in {0} \cup Nodes : Answer(h, n)
      BY <2>y
    <3>2. /\ row' = row /\ ckpt' = ckpt /\ drive'[h].act = {} /\ row.status = "awaiting_input"
          /\ n = 0 \/ n \in row.active
          /\ drive'[h].pc = "resume" /\ drive'[h].node = n /\ drive'[h].snap = row
      BY <3>1, AnswerEffect
    <3>3. Placed(drive'[h])
      BY <1>p, <3>2 DEF Placed, RowPlaced
    <3> QED BY <2>3, <3>2, <3>3
  <2>z. CASE \E n \in Nodes : Decide(h, n)
    BY <2>2, <2>z, DecideEffect DEF DrivePcs
  <2> QED
    BY <2>a, <2>c, <2>e, <2>f, <2>g, <2>h, <2>i, <2>j, <2>k, <2>l, <2>m, <2>n, <2>o, <2>u, <2>v,
       <2>w, <2>x, <2>y, <2>z DEF DriveMove, DriveStep
<1> QED BY <1>1, <1>2, <1>3, StepCases, NextRemembers

(***************************************************************************)
(* Tokens                                                                  *)
(***************************************************************************)
\* Nobody but y holds the run; no holder is new; none but y is.
Only(l, y) == \A k \in Ts, x \in Xs : Token(k, x) => k = l /\ x = y
Fewer == \A k \in Ts, x \in Xs : Token(k, x)' => Token(k, x)
Adds(l, y) == \A k \in Ts, x \in Xs : Token(k, x)' => Token(k, x) \/ (k = l /\ x = y)

\* A task that waits in the queue, and a claim whose task is not there yet.
Free(i) == tasks[i] # "none" /\ \A h \in Hosts : ~Holds(h, i)
Enqueuing(h) == sweep[h] \in {"enqueue wake", "enqueue continue"}

\* A holder is new only where a call, a claim, a task or a drive is new.
LEMMA TokensAdd ==
  ASSUME NEW l, NEW y,
         \A g \in Hosts : call'[g] = "starting" =>
             call[g] = "starting" \/ (l = "call" /\ y = g),
         \A g \in Hosts : Enqueuing(g)' => Enqueuing(g) \/ (l = "sweep" /\ y = g),
         \A i \in 1..MaxTasks : Free(i)' => Free(i) \/ (l = "task" /\ y = i),
         \A g \in Hosts : Driving(g)' => Driving(g) \/ (l = "drive" /\ y = g)
  PROVE  Adds(l, y)
<1> SUFFICES ASSUME NEW k \in Ts, NEW x \in Xs, Token(k, x)'
             PROVE  Token(k, x) \/ (k = l /\ x = y)
  BY DEF Adds
<1>1. CASE k = "call"
  BY <1>1 DEF Token
<1>2. CASE k = "sweep"
  BY <1>2 DEF Token, Enqueuing
<1>3. CASE k = "task"
  <2>1. x \in 1..MaxTasks /\ Free(x)'
    BY <1>3 DEF Token, Free
  <2>2. Free(x) \/ (l = "task" /\ y = x)
    BY <2>1
  <2> QED BY <1>3, <2>1, <2>2 DEF Token, Free
<1>4. CASE k = "drive"
  BY <1>4 DEF Token
<1> QED BY <1>1, <1>2, <1>3, <1>4 DEF Ts

LEMMA TokensFewer ==
  ASSUME \A g \in Hosts : call'[g] = "starting" => call[g] = "starting",
         \A g \in Hosts : Enqueuing(g)' => Enqueuing(g),
         \A i \in 1..MaxTasks : Free(i)' => Free(i),
         \A g \in Hosts : Driving(g)' => Driving(g)
  PROVE  Fewer
<1>1. Adds("nobody", 0)
  BY TokensAdd
<1> QED BY <1>1 DEF Adds, Fewer, Ts

\* A drive moves; what it holds it keeps holding.
LEMMA HeldTasks ==
  ASSUME NEW h \in Hosts, Moves(h), tasks' = tasks,
         \/ drive[h].pc = "idle"
         \/ /\ drive'[h].task = drive[h].task
            /\ drive'[h].task = 0 \/ drive'[h].pc # "idle"
  PROVE  \A i \in 1..MaxTasks : Free(i)' => Free(i)
<1> SUFFICES ASSUME NEW i \in 1..MaxTasks, Free(i)'
             PROVE  Free(i)
  OBVIOUS
<1>1. i # 0
  OBVIOUS
<1>2. ASSUME NEW g \in Hosts
      PROVE  ~Holds(g, i)
  <2>1. ~Holds(g, i)'
    BY DEF Free
  <2>2. CASE g = h
    BY <1>1, <2>1, <2>2 DEF Holds
  <2>3. CASE g # h
    BY <2>1, <2>3 DEF Holds, Moves
  <2> QED BY <2>2, <2>3
<1> QED BY <1>2 DEF Free

LEMMA DriveFewer ==
  ASSUME NEW h \in Hosts, Moves(h), UNCHANGED <<tasks, sweep, call>>,
         \/ drive[h].pc = "idle"
         \/ /\ drive'[h].task = drive[h].task
            /\ drive'[h].task = 0 \/ drive'[h].pc # "idle",
         drive'[h].pc \in DrivePcs => drive[h].pc \in DrivePcs
  PROVE  Fewer
<1>1. \A i \in 1..MaxTasks : Free(i)' => Free(i)
  BY HeldTasks
<1>2. \A g \in Hosts : Driving(g)' => Driving(g)
  BY DEF Driving, Moves
<1> QED BY <1>1, <1>2, TokensFewer DEF Enqueuing

LEMMA DriveAdds ==
  ASSUME NEW h \in Hosts, Moves(h), UNCHANGED <<tasks, sweep, call>>, drive[h].pc = "idle" \/
            (drive'[h].task = drive[h].task /\ drive'[h].pc # "idle")
  PROVE  Adds("drive", h)
<1>1. \A i \in 1..MaxTasks : Free(i)' => Free(i)
  BY HeldTasks
<1>2. \A g \in Hosts : Driving(g)' => Driving(g) \/ g = h
  BY DEF Driving, Moves
<1> QED BY <1>1, <1>2, TokensAdd DEF Enqueuing

\* One holder is left if there was none besides.
LEMMA OneIfOnly ==
  ASSUME NEW l, NEW y, Only(l, y)'
  PROVE  OneToken'
BY DEF Only, OneToken, Ts, Xs

\* The only holder: a new one, the one it was handed to, or nobody.
LEMMA NewToken ==
  ASSUME NoToken, NEW l, NEW y, Adds(l, y)
  PROVE  Only(l, y)'
BY DEF NoToken, Adds, Only, Ts, Xs

LEMMA MovedToken ==
  ASSUME OneToken, NEW k \in Ts, NEW x \in Xs, Token(k, x), ~Token(k, x)', NEW l, NEW y, Adds(l, y)
  PROVE  Only(l, y)'
<1> SUFFICES ASSUME NEW m \in Ts, NEW z \in Xs, Token(m, z)', ~(m = l /\ z = y)
             PROVE  FALSE
  BY DEF Only, Ts, Xs
<1>1. Token(m, z)
  BY DEF Adds
<1>2. m = k /\ z = x
  BY <1>1 DEF OneToken
<1> QED BY <1>2

LEMMA LostToken ==
  ASSUME OneToken, NEW k \in Ts, NEW x \in Xs, Token(k, x), ~Token(k, x)', Fewer
  PROVE  NoToken'
<1> SUFFICES ASSUME NEW m \in Ts, NEW z \in Xs, Token(m, z)'
             PROVE  FALSE
  BY DEF NoToken, Ts, Xs
<1>1. Token(m, z)
  BY DEF Fewer
<1>2. m = k /\ z = x
  BY <1>1 DEF OneToken
<1> QED BY <1>2

LEMMA FewerTokens ==
  ASSUME Fewer
  PROVE  (OneToken => OneToken') /\ (NoToken => NoToken')
BY DEF Fewer, OneToken, NoToken, Ts, Xs

\* A drive is a token.
LEMMA DriveToken ==
  ASSUME NEW h \in Hosts, drive[h].pc \in DrivePcs
  PROVE  "drive" \in Ts /\ h \in Xs /\ Token("drive", h)
BY DEF Ts, Xs, Token, Driving

\* While somebody drives the run, or is about to, it neither sleeps nor has it ended.
LEMMA Attending ==
  ASSUME Ordered, NEW k \in Ts, NEW x \in Xs, Token(k, x), k # "drive" \/ drive[x].pc # "resume"
  PROVE  /\ row.status \notin {"absent", "succeeded", "failed", "sleeping", "awaiting_input"}
         /\ row.wake = "none"
         /\ ~(row.status = "running" /\ row.lease = "lapsed")
BY DEF Ordered, RowOrder, NoToken

\* One holder excludes two drives at once.
LEMMA OrderedNext ==
  ASSUME Remember, "two drives" \notin seen, OneToken', RowOrder',
         \A h \in Hosts : SnapOK(drive'[h])
  PROVE  Ordered'
<1>1. ~Together(DrivePcs)'
  <2> SUFFICES ASSUME NEW g \in Hosts, NEW h \in Hosts, g # h,
                      drive'[g].pc \in DrivePcs, drive'[h].pc \in DrivePcs
               PROVE  FALSE
    BY DEF Together
  <2>1. "drive" \in Ts /\ g \in Xs /\ h \in Xs /\ Token("drive", g)' /\ Token("drive", h)'
    BY DEF Ts, Xs, Token, Driving
  <2> QED BY <2>1 DEF OneToken
<1>2. "two drives" \notin seen'
  BY <1>1 DEF Remember, Shows
<1>3. \A h \in Hosts : SnapOK(drive[h])'
  BY DEF SnapOK
<1> QED BY <1>2, <1>3 DEF Ordered

\* The row's status is kept, its wake and its lease neither appear nor lapse.
LEMMA RowOrderKept ==
  ASSUME RowOrder, Fewer, row'.status = row.status,
         row'.wake # "none" <=> row.wake # "none",
         row'.lease = "lapsed" => row.lease = "lapsed",
         row.status = "awaiting_input" =>
           \A g \in Hosts : drive[g].pc = "resume" =>
               drive'[g].pc \notin DrivePcs \/ drive'[g].pc = "resume"
  PROVE  RowOrder'
<1>1. NoToken => NoToken'
  BY FewerTokens
<1>2. ASSUME row'.status = "awaiting_input", NEW k \in Ts, NEW x \in Xs, Token(k, x)'
      PROVE  k = "drive" /\ drive'[x].pc = "resume"
  <2>1. k = "drive" /\ drive[x].pc = "resume"
    BY <1>2 DEF Fewer, RowOrder
  <2>2. x \in Hosts /\ drive'[x].pc \in DrivePcs
    BY <1>2, <2>1 DEF Token, Driving
  <2> QED BY <1>2, <2>1, <2>2
<1> QED BY <1>1, <1>2 DEF RowOrder, Ts, Xs

\* Somebody else takes over, or the one who drives goes on.
LEMMA RowOrderAttended ==
  ASSUME row'.status \notin {"absent", "succeeded", "failed", "sleeping", "awaiting_input"},
         row'.wake = "none", ~(row'.status = "running" /\ row'.lease = "lapsed")
  PROVE  RowOrder'
BY DEF RowOrder

(***************************************************************************)
(* One driver                                                              *)
(***************************************************************************)
LEMMA FaultsTyped ==
  ASSUME Parameters, TypeOK
  PROVE  faults \in Nat
<1>1. faults \in 0..MaxEvents
  BY DEF TypeOK
<1>2. MaxEvents \in Nat
  BY DEF Parameters
<1> QED BY <1>1, <1>2

\* What has been orderly so far was orderly a step before.
LEMMA OrderlyBefore ==
  ASSUME Parameters, TypeOK, Remember, faults' >= faults, Orderly'
  PROVE  Orderly
<1>1. faults \in Nat
  BY FaultsTyped
<1>2. "two answers" \notin seen
  BY DEF Remember, Orderly
<1>3. faults' = 0
  BY DEF Orderly
<1>4. faults = 0
  BY <1>1, <1>3
<1> QED BY <1>2, <1>4 DEF Orderly

LEMMA QuietOrder ==
  ASSUME Parameters, TypeOK, Remember, Ordered, NEW h \in Hosts, Quiet(h)
  PROVE  Ordered'
<1>e. UNCHANGED <<row, drive>>
  BY QuietEffect
<1>o. "two drives" \notin seen /\ OneToken /\ RowOrder /\ \A g \in Hosts : SnapOK(drive[g])
  BY DEF Ordered
<1>d. \A g \in Hosts : SnapOK(drive'[g])
  BY <1>e, <1>o
<1>h. \A i \in 1..MaxTasks, g \in Hosts : Holds(g, i)' = Holds(g, i)
  BY <1>e DEF Holds
<1>t. /\ sweep \in [Hosts -> {"idle", "wake", "reap", "enqueue wake", "enqueue continue"}]
      /\ call \in [Hosts -> {"idle", "starting", "cancelling"}]
      /\ tasks \in [1..MaxTasks -> {"none", "continue", "wake"}]
  BY DEF TypeOK
<1>x. h \in Xs /\ "call" \in Ts /\ "sweep" \in Ts
  BY DEF Xs, Ts
<1>1. ASSUME Fewer
      PROVE  Ordered'
  <2>1. RowOrder'
    BY <1>e, <1>o, <1>1, RowOrderKept
  <2>2. OneToken'
    BY <1>o, <1>1, FewerTokens
  <2> QED BY <1>d, <1>o, <2>1, <2>2, OrderedNext
<1>2. ASSUME NEW k \in Ts, k # "drive", Token(k, h), ~Token(k, h)', NEW i, Adds("task", i)
      PROVE  Ordered'
  <2>1. OneToken'
    BY <1>o, <1>x, <1>2, MovedToken, OneIfOnly
  <2>2. RowOrder'
    BY <1>e, <1>x, <1>2, Attending, RowOrderAttended
  <2> QED BY <1>d, <1>o, <2>1, <2>2, OrderedNext
\* A task is enqueued.
<1>3. ASSUME NEW kind \in {"continue", "wake"}, Enqueue(kind)
      PROVE  \E i \in 1..MaxTasks : \A j \in 1..MaxTasks : Free(j)' => Free(j) \/ i = j
  <2>1. PICK i \in 1..MaxTasks : tasks' = [tasks EXCEPT ![i] = kind]
    BY <1>3, EnqueueEffect
  <2>2. \A j \in 1..MaxTasks : j # i => tasks'[j] = tasks[j]
    BY <1>t, <2>1
  <2> QED BY <1>h, <2>2 DEF Free
<1>4. CASE StartEnqueue(h)
  <2>1. call[h] = "starting" /\ call' = [call EXCEPT ![h] = "idle"] /\ sweep' = sweep
    BY <1>4 DEF StartEnqueue
  <2>2. PICK i \in 1..MaxTasks : \A j \in 1..MaxTasks : Free(j)' => Free(j) \/ i = j
    BY <1>3, <1>4 DEF StartEnqueue
  <2>3. \A g \in Hosts : call'[g] = "starting" => call[g] = "starting"
    BY <1>t, <2>1
  <2>4. Adds("task", i)
    BY <1>e, <2>1, <2>2, <2>3, TokensAdd DEF Enqueuing, Driving
  <2>5. call'[h] # "starting"
    BY <1>t, <2>1
  <2>6. Token("call", h) /\ ~Token("call", h)'
    BY <2>1, <2>5 DEF Token
  <2> QED BY <1>2, <1>x, <2>4, <2>6
<1>5. CASE SweepEnqueue(h)
  <2>1. Enqueuing(h) /\ sweep' = [sweep EXCEPT ![h] = "idle"] /\ call' = call
    BY <1>5 DEF SweepEnqueue, SweepDone, Enqueuing
  <2>2. PICK i \in 1..MaxTasks : \A j \in 1..MaxTasks : Free(j)' => Free(j) \/ i = j
    BY <1>3, <1>5 DEF SweepEnqueue
  <2>3. \A g \in Hosts : Enqueuing(g)' => Enqueuing(g)
    BY <1>t, <2>1 DEF Enqueuing
  <2>4. Adds("task", i)
    BY <1>e, <2>1, <2>2, <2>3, TokensAdd DEF Driving
  <2>5. sweep'[h] = "idle"
    BY <1>t, <2>1
  <2>6. Token("sweep", h) /\ ~Token("sweep", h)'
    BY <2>1, <2>5 DEF Token, Enqueuing
  <2> QED BY <1>2, <1>x, <2>4, <2>6
<1>6. CASE CancelRead(h) \/ WakeFind(h) \/ ReapFind(h)
  <2>1. tasks' = tasks
    BY <1>6 DEF CancelRead, WakeFind, ReapFind
  <2>2. \A i \in 1..MaxTasks : Free(i)' => Free(i)
    BY <1>h, <2>1 DEF Free
  <2>3. \A g \in Hosts : Driving(g)' => Driving(g)
    BY <1>e DEF Driving
  <2>4. \A g \in Hosts : call'[g] = "starting" => call[g] = "starting"
    BY <1>t, <1>6 DEF CancelRead, WakeFind, ReapFind
  <2>5. \A g \in Hosts : Enqueuing(g)' => Enqueuing(g)
    <3>1. sweep' = sweep \/ sweep' = [sweep EXCEPT ![h] = "wake"] \/ sweep' = [sweep EXCEPT ![h] = "reap"]
      BY <1>6 DEF CancelRead, WakeFind, ReapFind, SweepDone
    <3> QED BY <1>t, <3>1 DEF Enqueuing
  <2>6. Fewer
    BY <2>2, <2>3, <2>4, <2>5, TokensFewer
  <2> QED BY <1>1, <2>6
<1> QED BY <1>4, <1>5, <1>6 DEF Quiet

LEMMA RowStepOrder ==
  ASSUME Parameters, TypeOK, QueuedInv, Remember, Ordered, faults' = faults, RowStep
  PROVE  Ordered'
<1>e. UNCHANGED <<tasks, drive>>
  BY RowStepEffect
<1>o. "two drives" \notin seen /\ OneToken /\ RowOrder /\ \A g \in Hosts : SnapOK(drive[g])
  BY DEF Ordered
<1>d. \A g \in Hosts : SnapOK(drive'[g])
  BY <1>e, <1>o
<1>h. \A i \in 1..MaxTasks : Free(i)' => Free(i)
  BY <1>e DEF Holds, Free
<1>g. \A g \in Hosts : Driving(g)' => Driving(g)
  BY <1>e DEF Driving
<1>t. /\ sweep \in [Hosts -> {"idle", "wake", "reap", "enqueue wake", "enqueue continue"}]
      /\ call \in [Hosts -> {"idle", "starting", "cancelling"}]
      /\ row \in Row
  BY DEF TypeOK
<1>1. ASSUME Fewer, row'.status = row.status, row'.wake # "none" <=> row.wake # "none",
             row'.lease = "lapsed" => row.lease = "lapsed"
      PROVE  Ordered'
  <2>1. RowOrder'
    BY <1>e, <1>o, <1>1, RowOrderKept
  <2>2. OneToken'
    BY <1>o, <1>1, FewerTokens
  <2> QED BY <1>d, <1>o, <2>1, <2>2, OrderedNext
<1>2. ASSUME NoToken, NEW l, NEW y, Adds(l, y), row'.status \in {"queued", "running"},
             row'.wake = "none", row'.status = "running" => row'.lease = "valid"
      PROVE  Ordered'
  <2>1. OneToken'
    BY <1>2, NewToken, OneIfOnly
  <2>2. RowOrder'
    BY <1>2, RowOrderAttended
  <2> QED BY <1>d, <1>o, <2>1, <2>2, OrderedNext
<1>3. ASSUME UNCHANGED <<call, sweep>>
      PROVE  Fewer
  BY <1>3, <1>h, <1>g, TokensFewer DEF Enqueuing
<1>4. CASE Elapse
  <2>1. /\ row'.status = row.status /\ row'.wake # "none" /\ row.wake # "none"
        /\ row'.lease = row.lease
    BY <1>t, <1>4 DEF Elapse, Row
  <2>2. Fewer
    BY <1>3, <1>4 DEF Elapse
  <2> QED BY <1>1, <2>1, <2>2
<1>5. CASE Lapse
  <2>1. row'.status = row.status /\ row'.wake = row.wake
    BY <1>t, <1>5 DEF Lapse, Row
  <2>2. Fewer
    BY <1>3, <1>5 DEF Lapse
  <2>3. ~Attended
    <3>1. faults' = IF Attended THEN faults + 1 ELSE faults
      BY <1>5 DEF Lapse
    <3>2. faults \in Nat
      BY FaultsTyped
    <3> QED BY <3>1, <3>2
  <2>4. NoToken
    BY <2>3 DEF NoToken, Token, Attended, Driving, DrivePcs, Ts
  <2>5. OneToken' /\ NoToken'
    BY <1>o, <2>2, <2>4, FewerTokens
  <2>6. RowOrder'
    BY <1>o, <2>1, <2>5 DEF RowOrder, NoToken, Ts, Xs
  <2> QED BY <1>d, <1>o, <2>5, <2>6, OrderedNext
<1>6. CASE \E h \in Hosts : StartQueued(h)
  <2>1. PICK h \in Hosts : StartQueued(h)
    BY <1>6
  <2>2. row.status = "absent" /\ row'.status = "queued" /\ row'.wake = row.wake
    BY <1>t, <2>1 DEF StartQueued, Row
  <2>3. row.wake = "none" /\ NoToken
    BY <1>o, <2>2 DEF QueuedInv, RowOrder
  <2>4. sweep' = sweep /\ \A g \in Hosts : call'[g] = "starting" =>
            call[g] = "starting" \/ h = g
    BY <1>t, <2>1 DEF StartQueued
  <2>5. Adds("call", h)
    BY <1>h, <1>g, <2>4, TokensAdd DEF Enqueuing
  <2> QED BY <1>2, <2>2, <2>3, <2>5
<1>7. CASE \E h \in Hosts : CancelWrite(h)
  <2>1. PICK h \in Hosts : CancelWrite(h)
    BY <1>7
  <2>2. row'.status = "cancelled" /\ row'.wake = row.wake
    BY <1>t, <2>1 DEF CancelWrite, Row
  <2>3. sweep' = sweep /\ \A g \in Hosts : call'[g] = "starting" => call[g] = "starting"
    BY <1>t, <2>1 DEF CancelWrite
  <2>4. Fewer
    BY <1>h, <1>g, <2>3, TokensFewer DEF Enqueuing
  <2>5. OneToken' /\ (NoToken => NoToken')
    BY <1>o, <2>4, FewerTokens
  <2>6. RowOrder'
    BY <1>o, <2>2, <2>5 DEF RowOrder
  <2> QED BY <1>d, <1>o, <2>5, <2>6, OrderedNext
<1>8. CASE \E h \in Hosts : WakeClaim(h)
  <2>1. PICK h \in Hosts : WakeClaim(h)
    BY <1>8
  <2>2. call' = call
    BY <2>1 DEF WakeClaim
  <2>3. CASE row.wake = "none"
    <3>1. row' = row /\ sweep' = [sweep EXCEPT ![h] = "idle"]
      BY <2>1, <2>3 DEF WakeClaim, SweepDone
    <3>2. \A g \in Hosts : Enqueuing(g)' => Enqueuing(g)
      BY <1>t, <3>1 DEF Enqueuing
    <3>3. Fewer
      BY <1>h, <1>g, <2>2, <3>2, TokensFewer
    <3> QED BY <1>1, <3>1, <3>3
  <2>4. CASE row.wake # "none"
    <3>1. /\ row' = [row EXCEPT !.status = "running", !.wake = "none", !.lease = "valid"]
          /\ sweep' = [sweep EXCEPT ![h] = "enqueue wake"]
      BY <2>1, <2>4 DEF WakeClaim, SweepDone
    <3>2. \A g \in Hosts : Enqueuing(g)' => Enqueuing(g) \/ h = g
      BY <1>t, <3>1 DEF Enqueuing
    <3>3. Adds("sweep", h)
      BY <1>h, <1>g, <2>2, <3>2, TokensAdd
    <3>4. row'.status = "running" /\ row'.wake = "none" /\ row'.lease = "valid"
      BY <1>t, <3>1 DEF Row
    <3>5. NoToken
      BY <1>o, <2>4 DEF RowOrder
    <3> QED BY <1>2, <3>3, <3>4, <3>5
  <2> QED BY <2>3, <2>4
<1>9. CASE \E h \in Hosts : ReapClaim(h)
  <2>1. PICK h \in Hosts : ReapClaim(h)
    BY <1>9
  <2>2. call' = call
    BY <2>1 DEF ReapClaim
  <2>3. CASE ~(row.status = "running" /\ row.lease = "lapsed")
    <3>1. row' = row /\ sweep' = [sweep EXCEPT ![h] = "idle"]
      BY <2>1, <2>3 DEF ReapClaim, SweepDone
    <3>2. \A g \in Hosts : Enqueuing(g)' => Enqueuing(g)
      BY <1>t, <3>1 DEF Enqueuing
    <3>3. Fewer
      BY <1>h, <1>g, <2>2, <3>2, TokensFewer
    <3> QED BY <1>1, <3>1, <3>3
  <2>4. CASE row.status = "running" /\ row.lease = "lapsed"
    <3>1. /\ row' = [row EXCEPT !.lease = "valid"]
          /\ sweep' = [sweep EXCEPT ![h] = "enqueue continue"]
      BY <2>1, <2>4 DEF ReapClaim, SweepDone
    <3>2. \A g \in Hosts : Enqueuing(g)' => Enqueuing(g) \/ h = g
      BY <1>t, <3>1 DEF Enqueuing
    <3>3. Adds("sweep", h)
      BY <1>h, <1>g, <2>2, <3>2, TokensAdd
    <3>4. row'.status = "running" /\ row'.wake = row.wake /\ row'.lease = "valid"
      BY <1>t, <2>4, <3>1 DEF Row
    <3>5. NoToken /\ row.wake = "none"
      BY <1>o, <2>4 DEF RowOrder
    <3> QED BY <1>2, <3>3, <3>4, <3>5
  <2> QED BY <2>3, <2>4
<1> QED BY <1>4, <1>5, <1>6, <1>7, <1>8, <1>9 DEF RowStep

\* Two drives resume at once only if two answers were taken.
LEMMA OneResume ==
  ASSUME Remember, "two answers" \notin seen', NEW g \in Hosts, NEW h \in Hosts,
         drive'[g].pc = "resume", drive'[h].pc = "resume"
  PROVE  g = h
BY DEF Remember, Signs, Shows, Together

LEMMA DriveOrder ==
  ASSUME Parameters, TypeOK, PcInv, QueuedInv, Remember, Ordered, Orderly, Orderly',
         NEW h \in Hosts, DriveMove(h)
  PROVE  Ordered'
<1>0. Moves(h)
  BY DriveMoveTyped
<1>o. "two drives" \notin seen /\ OneToken /\ RowOrder /\ \A g \in Hosts : SnapOK(drive[g])
  BY DEF Ordered
<1>t. row \in Row
  BY DEF TypeOK
<1>d. PcOK(drive[h]) /\ drive[h] \in Drive /\ drive[h].snap \in Row
  BY DEF PcInv, TypeOK, Drive
<1>f. faults = 0 /\ faults' = 0 /\ "two answers" \notin seen'
  BY DEF Orderly
<1>y. faults \in Nat /\ faults' = faults
  BY <1>f, FaultsTyped
\* One step is left to show for each kind of step: about the tokens, and about the row.
<1>1. ASSUME OneToken', RowOrder', SnapOK(drive'[h])
      PROVE  Ordered'
  <2>1. \A g \in Hosts : SnapOK(drive'[g])
    BY <1>0, <1>1, <1>o DEF Moves
  <2> QED BY <1>1, <1>o, <2>1, OrderedNext
\* A drive that holds on to its task and drives no more than before.
<1>k. ASSUME UNCHANGED <<tasks, sweep, call>>,
             \/ drive[h].pc = "idle"
             \/ /\ drive'[h].task = drive[h].task
                /\ drive'[h].task = 0 \/ drive'[h].pc # "idle",
             drive'[h].pc \in DrivePcs => drive[h].pc \in DrivePcs
      PROVE  Fewer
  BY <1>0, <1>k, DriveFewer
\* It has nothing to do with the run, and writes nothing.
<1>2. ASSUME row' = row, Fewer, drive'[h].pc \notin DrivePcs
      PROVE  Ordered'
  <2>1. \A g \in Hosts : drive[g].pc = "resume" =>
          drive'[g].pc \notin DrivePcs \/ drive'[g].pc = "resume"
    BY <1>0, <1>2 DEF Moves
  <2>2. RowOrder'
    BY <1>o, <1>2, <2>1, RowOrderKept
  <2>3. OneToken'
    BY <1>o, <1>2, FewerTokens
  <2> QED BY <1>1, <1>2, <2>2, <2>3 DEF SnapOK
\* It drives the run and goes on driving it.
<1>3. ASSUME drive[h].pc \in DrivePcs, drive[h].pc # "resume", Fewer,
             row'.status \in {row.status, "running"}, row'.wake = row.wake,
             row'.lease \in {row.lease, "valid"},
             row.status # row'.status => row'.lease = "valid",
             drive'[h].pc # "resume",
             drive'[h].snap.wake = drive[h].snap.wake,
             drive'[h].snap.status \in {drive[h].snap.status, "running"}
      PROVE  Ordered'
  <2>1. /\ row.status \notin {"absent", "succeeded", "failed", "sleeping", "awaiting_input"}
        /\ row.wake = "none" /\ ~(row.status = "running" /\ row.lease = "lapsed")
    BY <1>3, DriveToken, Attending
  <2>2. RowOrder'
    BY <1>3, <2>1, RowOrderAttended
  <2>3. OneToken'
    BY <1>o, <1>3, FewerTokens
  <2>4. SnapOK(drive[h])
    BY <1>o
  <2>5. SnapOK(drive'[h])
    BY <1>3, <2>4 DEF SnapOK
  <2> QED BY <1>1, <2>2, <2>3, <2>5
<1>4. ASSUME row' = row, drive[h].pc \in DrivePcs, drive[h].pc # "resume",
             drive'[h].pc # "resume", drive'[h].pc \in DrivePcs,
             drive'[h].snap = drive[h].snap, drive'[h].task = drive[h].task,
             UNCHANGED <<tasks, sweep, call>>
      PROVE  Ordered'
  <2>1. Fewer
    BY <1>k, <1>4 DEF DrivePcs
  <2> QED BY <1>3, <1>4, <2>1
\* It takes the run.
<1>5. ASSUME OneToken', row'.status \in {"queued", "running", "cancelled"}, row'.wake = "none",
             ~(row'.status = "running" /\ row'.lease = "lapsed"), drive'[h].snap = row'
      PROVE  Ordered'
  BY <1>1, <1>5, RowOrderAttended DEF SnapOK
\* It takes an answer.
<1>6. ASSUME row' = row, UNCHANGED <<tasks, sweep, call>>, row.status = "awaiting_input",
             drive[h].pc \in {"idle", "decided"},
             drive[h].pc = "idle" \/ drive'[h].task = drive[h].task,
             drive'[h].pc = "resume", drive'[h].snap = row
      PROVE  Ordered'
  <2>1. NoToken
    <3> SUFFICES ASSUME NEW k \in Ts, NEW x \in Xs, Token(k, x)
                 PROVE  FALSE
      BY DEF NoToken, Ts, Xs
    <3>1. k = "drive" /\ drive[x].pc = "resume" /\ x \in Hosts
      BY <1>6, <1>o DEF RowOrder, Token
    <3>2. x # h
      BY <1>6, <3>1
    <3>3. drive'[x].pc = "resume"
      BY <1>0, <3>1, <3>2 DEF Moves
    <3> QED BY <1>6, <1>f, <3>1, <3>2, <3>3, OneResume
  <2>2. Adds("drive", h)
    BY <1>0, <1>6, DriveAdds
  <2>3. Only("drive", h)'
    BY <2>1, <2>2, NewToken
  <2>4. OneToken'
    BY <2>3, OneIfOnly
  <2>5. row.wake = "none"
    BY <1>o, <1>6 DEF RowOrder
  <2>6. RowOrder'
    BY <1>6, <2>3, <2>5 DEF RowOrder, Only
  <2>7. SnapOK(drive'[h])
    BY <1>6, <2>5 DEF SnapOK
  <2> QED BY <1>1, <2>4, <2>6, <2>7
\* It lets go of the run.
<1>7. ASSUME drive[h].pc \in DrivePcs, LetsGo(h), UNCHANGED <<tasks, sweep, call>>
      PROVE  NoToken' /\ OneToken' /\ SnapOK(drive'[h])
  <2>1. drive'[h].pc \in {"idle", "ack"} /\ drive'[h].pc \notin DrivePcs
    BY <1>7 DEF LetsGo, DrivePcs
  <2>2. Fewer
    BY <1>k, <1>7, <2>1 DEF LetsGo
  <2>3. "drive" \in Ts /\ h \in Xs /\ Token("drive", h) /\ ~Token("drive", h)'
    BY <1>7, <2>1, DriveToken DEF Token, Driving
  <2>4. NoToken'
    BY <1>o, <2>2, <2>3, LostToken
  <2>5. OneToken'
    BY <1>o, <2>2, FewerTokens
  <2> QED BY <2>1, <2>4, <2>5 DEF SnapOK
<1>a. CASE StartWaiting(h)
  <2>1. /\ row.status = "absent" /\ drive[h].pc = "idle"
        /\ row' = [row EXCEPT !.status = "running", !.lease = "valid"]
        /\ drive'[h].pc = "round" /\ drive'[h].snap = row'
        /\ UNCHANGED <<tasks, sweep, call>>
    BY <1>a, StartWaitingEffect
  <2>2. row'.status = "running" /\ row'.lease = "valid" /\ row'.wake = row.wake
    BY <1>t, <2>1 DEF Row
  <2>3. row.wake = "none" /\ NoToken
    BY <1>o, <2>1 DEF QueuedInv, RowOrder
  <2>4. Adds("drive", h)
    BY <1>0, <2>1, DriveAdds
  <2>5. OneToken'
    BY <2>3, <2>4, NewToken, OneIfOnly
  <2> QED BY <1>5, <2>1, <2>2, <2>3, <2>5
<1>b. CASE Crash(h)
  <2>1. faults' = faults + 1
    BY <1>b, CrashEffect
  <2> QED BY <1>y, <2>1
<1>c. CASE Delivered(h)
  <2>1. PICK i \in 1..MaxTasks : Deliver(h, i)
    BY <1>c DEF Delivered
  <2>2. /\ drive[h].pc = "idle" /\ tasks[i] # "none" /\ drive'[h].task = i
        /\ \/ row.status \in Terminal /\ drive'[h].pc = "ack"
           \/ row.status \notin Terminal /\ drive'[h].pc = "prepare" /\ drive'[h].snap = row
        /\ UNCHANGED <<row, tasks, sweep, call>>
    BY <2>1, DeliverEffect
  <2>3. ~\E g \in Hosts : Holds(g, i)
    <3>1. IF \E g \in Hosts : Holds(g, i) THEN Eventful /\ faults' = faults + 1
          ELSE faults' = faults
      BY <2>1, DeliverEffect
    <3> QED BY <1>y, <3>1
  <2>4. Token("task", i) /\ "task" \in Ts /\ i \in Xs
    BY <2>2, <2>3 DEF Token, Ts, Xs
  <2>5. CASE drive'[h].pc = "ack"
    <3>1. Fewer
      BY <1>k, <2>2, <2>5 DEF DrivePcs
    <3> QED BY <1>2, <2>2, <2>5, <3>1 DEF DrivePcs
  <2>6. CASE drive'[h].pc = "prepare"
    <3>1. Adds("drive", h)
      BY <1>0, <2>2, DriveAdds
    <3>2. Holds(h, i)'
      BY <2>2, <2>6 DEF Holds
    <3>3. ~Token("task", i)'
      BY <3>2 DEF Token
    <3>4. OneToken'
      BY <1>o, <2>4, <3>1, <3>3, MovedToken, OneIfOnly
    <3>5. /\ row.status \notin {"absent", "succeeded", "failed", "sleeping", "awaiting_input"}
          /\ row.wake = "none" /\ ~(row.status = "running" /\ row.lease = "lapsed")
      BY <2>4, Attending
    <3>6. row.status \in {"queued", "running", "cancelled"}
      BY <1>t, <3>5 DEF Row, Statuses, Terminal
    <3> QED BY <1>5, <2>2, <2>6, <3>4, <3>5, <3>6
  <2> QED BY <2>2, <2>5, <2>6
<1>e. CASE DriveQueued(h)
  <2>1. /\ drive[h].pc = "prepare" /\ drive'[h].pc = "round" /\ drive'[h].task = drive[h].task
        /\ row' = [row EXCEPT !.status = "running", !.lease = "valid"]
        /\ drive'[h].snap = [drive[h].snap EXCEPT !.status = "running", !.lease = "valid"]
        /\ UNCHANGED <<tasks, sweep, call>>
    BY <1>e, DriveQueuedEffect
  <2>2. row'.status = "running" /\ row'.wake = row.wake /\ row'.lease = "valid"
    BY <1>t, <2>1 DEF Row
  <2>3. drive'[h].snap.status = "running" /\ drive'[h].snap.wake = drive[h].snap.wake
    BY <1>d, <2>1 DEF Row
  <2>4. Fewer
    BY <1>k, <2>1 DEF DrivePcs
  <2>5. drive[h].pc \in DrivePcs
    BY <2>1 DEF DrivePcs
  <2> QED BY <1>3, <2>1, <2>2, <2>3, <2>4, <2>5
<1>g. CASE Redrive(h)
  BY <1>4, <1>g, RedriveEffect DEF DrivePcs
<1>h. CASE Wake(h)
  BY <1>4, <1>h, WakeEffect DEF DrivePcs
<1>i. CASE WakeWithoutContext(h)
  <2>1. /\ drive[h].pc = "prepare"
        /\ drive'[h].pc = (IF drive[h].task = 0 THEN "idle" ELSE "ack")
        /\ drive'[h].task = drive[h].task
        /\ UNCHANGED <<row, tasks, sweep, call>>
    BY <1>i, WakeWithoutContextEffect
  <2>2. drive'[h].pc \notin DrivePcs
    BY <2>1 DEF DrivePcs
  <2>3. Fewer
    BY <1>k, <2>1, <2>2
  <2> QED BY <1>2, <2>1, <2>2, <2>3
<1>j. CASE Round(h)
  <2>1. /\ drive[h].pc = "round" /\ drive'[h].pc \in {"round", "nap", "park", "emit", "settle"}
        /\ drive'[h].task = drive[h].task
        /\ row' = [row EXCEPT !.lease = "valid"]
        /\ drive'[h].snap = [drive[h].snap EXCEPT !.lease = "valid"]
        /\ UNCHANGED <<tasks, sweep, call>>
    BY <1>j, RoundEffect
  <2>2. row'.status = row.status /\ row'.wake = row.wake /\ row'.lease = "valid"
    BY <1>t, <2>1 DEF Row
  <2>3. /\ drive'[h].snap.status = drive[h].snap.status
        /\ drive'[h].snap.wake = drive[h].snap.wake
    BY <1>d, <2>1 DEF Row
  <2>4. Fewer
    BY <1>k, <2>1 DEF DrivePcs
  <2>5. drive[h].pc \in DrivePcs /\ drive[h].pc # "resume" /\ drive'[h].pc # "resume"
    BY <2>1 DEF DrivePcs
  <2> QED BY <1>3, <2>2, <2>3, <2>4, <2>5
<1>l. CASE RoundFails(h)
  BY <1>4, <1>l, RoundFailsEffect DEF DrivePcs
<1>m. CASE NothingActive(h)
  BY <1>4, <1>m, NothingActiveEffect DEF DrivePcs
<1>n. CASE NapOver(h)
  BY <1>4, <1>n, NapOverEffect DEF DrivePcs
<1>p. CASE Park(h)
  <2>1. /\ drive[h].pc = "park" /\ LetsGo(h) /\ UNCHANGED <<tasks, sweep, call>>
        /\ row'.status = IF drive[h].snap.status # "sleeping" THEN "sleeping" ELSE row.status
        /\ row'.wake = "later"
    BY <1>p, ParkEffect
  <2>2. drive[h].pc \in DrivePcs
    BY <2>1 DEF DrivePcs
  <2>3. row'.status = "sleeping"
    BY <1>o, <2>1, <2>2 DEF SnapOK
  <2>4. NoToken' /\ OneToken' /\ SnapOK(drive'[h])
    BY <1>7, <2>1, <2>2
  <2>5. RowOrder'
    BY <2>1, <2>3, <2>4 DEF RowOrder
  <2> QED BY <1>1, <2>4, <2>5
<1>q. CASE Emit(h)
  BY <1>4, <1>q, EmitEffect DEF DrivePcs
<1>r. CASE Settle(h)
  <2>1. /\ drive[h].pc = "settle" /\ LetsGo(h) /\ UNCHANGED <<tasks, sweep, call>>
        /\ row'.status = IF drive[h].snap.status # drive[h].end THEN drive[h].end ELSE row.status
        /\ row'.wake = IF drive[h].snap.wake # "none" THEN "none" ELSE row.wake
    BY <1>r, SettleEffect
  <2>2. drive[h].pc \in DrivePcs
    BY <2>1 DEF DrivePcs
  <2>3. drive[h].end \in Terminal \cup {"awaiting_input"}
    BY <1>d DEF Drive
  <2>4. drive[h].snap.status \notin Terminal \cup {"awaiting_input"}
    BY <1>o, <1>d, <2>1, <2>2 DEF SnapOK, PcOK
  <2>5. row'.status \in Terminal \cup {"awaiting_input"}
    BY <2>1, <2>3, <2>4
  <2>6. row.wake = "none"
    BY <2>1, <2>2, DriveToken, Attending
  <2>7. NoToken' /\ OneToken' /\ SnapOK(drive'[h])
    BY <1>7, <2>1, <2>2
  <2>8. RowOrder'
    BY <2>1, <2>5, <2>6, <2>7 DEF RowOrder, Terminal, NoToken, Ts, Xs
  <2> QED BY <1>1, <2>7, <2>8
<1>s. CASE Ack(h)
  <2>1. /\ drive[h].pc = "ack" /\ drive'[h] = Idle
        /\ tasks' = [tasks EXCEPT ![drive[h].task] = "none"]
        /\ UNCHANGED <<row, sweep, call>>
    BY <1>s, AckEffect
  <2>2. drive'[h].pc \notin DrivePcs
    BY <2>1, IdleRests
  <2>3. ASSUME NEW i \in 1..MaxTasks, Free(i)'
        PROVE  Free(i)
    <3>1. tasks \in [1..MaxTasks -> {"none", "continue", "wake"}]
      BY DEF TypeOK
    <3>2. i # drive[h].task /\ tasks[i] # "none"
      BY <2>1, <2>3, <3>1 DEF Free
    <3>3. \A g \in Hosts : ~Holds(g, i)
      BY <1>0, <2>3, <3>2 DEF Free, Holds, Moves
    <3> QED BY <3>2, <3>3 DEF Free
  <2>4. \A g \in Hosts : Driving(g)' => Driving(g)
    BY <1>0, <2>2 DEF Driving, Moves
  <2>5. Fewer
    BY <2>1, <2>3, <2>4, TokensFewer DEF Enqueuing
  <2> QED BY <1>2, <2>1, <2>2, <2>5
<1>u. CASE Decided(h)
  <2>1. /\ drive[h].pc = "decided" /\ drive[h].task = 0 /\ drive'[h].task = 0
        /\ \/ drive'[h].pc = "idle"
           \/ /\ drive'[h].pc = "resume" /\ row.status = "awaiting_input"
              /\ drive'[h].snap = row
        /\ UNCHANGED <<row, tasks, sweep, call>>
    BY <1>u, DecidedEffect
  <2>2. CASE drive'[h].pc = "idle"
    <3>1. Fewer
      BY <1>k, <2>1, <2>2 DEF DrivePcs
    <3> QED BY <1>2, <2>1, <2>2, <3>1 DEF DrivePcs
  <2>3. CASE drive'[h].pc = "resume"
    BY <1>6, <2>1, <2>3
  <2> QED BY <2>1, <2>2, <2>3
<1>v. CASE Resume(h)
  <2>1. PICK answered, start \in SUBSET Nodes :
         /\ drive[h].pc = "resume" /\ drive[h].snap.status = "awaiting_input"
         /\ answered = IF drive[h].node = 0 THEN {} ELSE {drive[h].node}
         /\ drive'[h].done = drive[h].snap.art \cup ckpt \cup answered
         /\ start = IF drive[h].node = 0 THEN drive[h].snap.active
                    ELSE Following(answered) \ drive'[h].done
         /\ drive'[h].act = start \ drive'[h].done
         /\ row' = [row EXCEPT !.status = "running", !.lease = "valid",
                               !.active = IF start # drive[h].snap.active THEN start ELSE row.active]
         /\ Moves(h)
         /\ drive'[h].pc = "round"
         /\ drive'[h].task = drive[h].task /\ drive'[h].kind = drive[h].kind
         /\ drive'[h].snap = [drive[h].snap EXCEPT !.status = "running", !.lease = "valid",
                                                   !.active = start]
         /\ UNCHANGED <<plan, ckpt, tasks, items, sweep, call, bounds>>
    BY <1>v, ResumeEffect
  <2>2. row'.status = "running" /\ row'.wake = row.wake /\ row'.lease = "valid"
    BY <1>t, <2>1 DEF Row
  <2>3. drive'[h].snap.status = "running" /\ drive'[h].snap.wake = drive[h].snap.wake
    BY <1>d, <2>1 DEF Row
  <2>4. drive[h].pc = "resume" /\ drive'[h].pc = "round" /\ drive'[h].task = drive[h].task
    BY <2>1
  <2>5. UNCHANGED <<tasks, sweep, call>>
    BY <2>1
  <2>6. Fewer
    BY <1>k, <2>4, <2>5 DEF DrivePcs
  <2>7. drive[h].pc \in DrivePcs
    BY <2>4 DEF DrivePcs
  <2>8. drive[h].snap.wake = "none"
    BY <1>o, <2>7 DEF SnapOK
  <2>9. row.wake = "none"
    BY <1>o, <2>7, DriveToken DEF RowOrder, NoToken
  <2>10. OneToken'
    BY <1>o, <2>6, FewerTokens
  <2>11. RowOrder'
    BY <2>2, <2>9, RowOrderAttended
  <2>12. SnapOK(drive'[h])
    BY <2>3, <2>8 DEF SnapOK
  <2> QED BY <1>1, <2>10, <2>11, <2>12
<1>w. CASE \E n \in {0} \cup Nodes : Answer(h, n)
  <2>1. PICK n \in {0} \cup Nodes : Answer(h, n)
    BY <1>w
  <2>2. /\ drive[h].pc = "idle" /\ row.status = "awaiting_input"
        /\ drive'[h].pc = "resume" /\ drive'[h].snap = row
        /\ UNCHANGED <<row, tasks, sweep, call>>
    BY <2>1, AnswerEffect
  <2> QED BY <1>6, <2>2
<1>x. CASE \E n \in Nodes : Decide(h, n)
  <2>1. PICK n \in Nodes : Decide(h, n)
    BY <1>x
  <2>2. /\ drive[h].pc = "idle" /\ drive'[h].pc = "decided"
        /\ UNCHANGED <<row, tasks, sweep, call>>
    BY <2>1, DecideEffect
  <2>3. Fewer
    BY <1>k, <2>2 DEF DrivePcs
  <2> QED BY <1>2, <2>2, <2>3 DEF DrivePcs
<1> QED
  BY <1>a, <1>b, <1>c, <1>e, <1>g, <1>h, <1>i, <1>j, <1>l, <1>m, <1>n, <1>p, <1>q, <1>r, <1>s,
     <1>u, <1>v, <1>w, <1>x DEF DriveMove, DriveStep

\* Every step preserves OrderInv.
LEMMA OrderStep ==
  ASSUME Parameters, TypeOK, PcInv, QueuedInv, OrderInv, Next
  PROVE  OrderInv'
<1> SUFFICES ASSUME Orderly'
             PROVE  Ordered'
  BY DEF OrderInv
<1>r. Remember
  BY NextRemembers
<1>f. faults \in Nat
  BY FaultsTyped
<1>1. ASSUME faults' >= faults
      PROVE  Orderly /\ Ordered /\ faults' = faults
  <2>1. Orderly
    BY <1>1, <1>r, OrderlyBefore
  <2> QED BY <2>1 DEF OrderInv, Orderly
<1>2. CASE \E h \in Hosts : Quiet(h)
  <2>1. faults' = faults
    BY <1>2, QuietEffect
  <2> QED BY <1>f, <1>r, <1>1, <1>2, <2>1, QuietOrder
<1>3. CASE RowStep
  BY <1>r, <1>1, <1>3, RowStepEffect, RowStepOrder
<1>4. CASE \E h \in Hosts : DriveMove(h)
  BY <1>r, <1>1, <1>4, DriveMoveTyped, DriveOrder
<1> QED BY <1>2, <1>3, <1>4, StepCases, NextRemembers

(***************************************************************************)
(* All of it                                                               *)
(***************************************************************************)
\* Nobody's place in the plan changes.
SamePlace == plan' = plan /\ SameProgress /\ ckpt' = ckpt

LEMMA PlaceKept ==
  ASSUME SamePlace
  PROVE  /\ Nodes' = Nodes
         /\ (Paused => Paused')
         /\ (StoppedAt(row.ctx) => StoppedAt(row.ctx)')
<1>1. Nodes' = Nodes
  BY DEF SamePlace, Nodes
<1>2. ASSUME NEW n, StoppedAt(n)
      PROVE  StoppedAt(n)'
  BY <1>1, <1>2 DEF StoppedAt, SamePlace, SameProgress
<1>3. Paused => Paused'
  BY <1>2 DEF Paused, SamePlace, SameProgress
<1>4. StoppedAt(row.ctx) => StoppedAt(row.ctx)'
  BY <1>1 DEF StoppedAt, SamePlace, SameProgress
<1> QED BY <1>1, <1>3, <1>4

\* Whoever is past its preparation has no wake to wait for.
LEMMA NoWaking ==
  ASSUME Ordered, NEW h \in Hosts, drive[h].pc \in DrivePcs \ {"prepare"}
  PROVE  ~Waking
<1>o. OneToken /\ RowOrder
  BY DEF Ordered
<1>1. "drive" \in Ts /\ h \in Xs /\ Token("drive", h)
  BY DriveToken
<1>2. row.wake = "none"
  BY <1>o, <1>1 DEF RowOrder, NoToken
<1>3. ASSUME NEW g \in Hosts, sweep[g] = "enqueue wake"
      PROVE  FALSE
  <2>1. "sweep" \in Ts /\ g \in Xs /\ Token("sweep", g)
    BY <1>3 DEF Ts, Xs, Token
  <2>2. "sweep" = "drive"
    BY <1>o, <1>1, <2>1 DEF OneToken
  <2> QED BY <2>2
<1>4. ASSUME NEW i \in 1..MaxTasks, Token("task", i)
      PROVE  FALSE
  <2>1. "task" \in Ts /\ i \in Xs
    BY DEF Ts, Xs
  <2>2. "task" = "drive"
    BY <1>o, <1>1, <1>4, <2>1 DEF OneToken
  <2> QED BY <2>2
<1>5. ASSUME NEW g \in Hosts, drive[g].pc = "prepare"
      PROVE  FALSE
  <2>1. g \in Xs /\ Token("drive", g)
    BY <1>5 DEF Xs, Token, Driving, DrivePcs
  <2>2. g = h
    BY <1>o, <1>1, <2>1 DEF OneToken
  <2> QED BY <1>5, <2>2
<1> QED BY <1>2, <1>3, <1>4, <1>5 DEF Waking

\* A step of a drive that lets no wake appear.
LEMMA WakingFewer ==
  ASSUME TypeOK, NEW h \in Hosts, Moves(h), UNCHANGED <<tasks, sweep>>,
         row'.wake # "none" => row.wake # "none",
         \A i \in 1..MaxTasks : Free(i)' => Free(i),
         drive'[h].pc = "prepare" /\ drive'[h].kind = "wake" => Waking
  PROVE  Waking' => Waking
<1> SUFFICES ASSUME Waking'
             PROVE  Waking
  OBVIOUS
<1>1. CASE row'.wake # "none"
  BY <1>1 DEF Waking
<1>2. CASE \E g \in Hosts : sweep'[g] = "enqueue wake"
  BY <1>2 DEF Waking
<1>3. CASE \E i \in 1..MaxTasks : tasks'[i] = "wake" /\ Token("task", i)'
  <2>1. PICK i \in 1..MaxTasks : tasks'[i] = "wake" /\ Token("task", i)'
    BY <1>3
  <2>2. Free(i)
    BY <2>1 DEF Token, Free
  <2>3. tasks[i] = "wake" /\ Token("task", i)
    BY <2>1, <2>2 DEF Token, Free
  <2> QED BY <2>3 DEF Waking
<1>4. CASE \E g \in Hosts : drive'[g].pc = "prepare" /\ drive'[g].kind = "wake"
  <2>1. PICK g \in Hosts : drive'[g].pc = "prepare" /\ drive'[g].kind = "wake"
    BY <1>4
  <2>2. CASE g = h
    BY <2>1, <2>2
  <2>3. CASE g # h
    BY <2>1, <2>3 DEF Moves, Waking
  <2> QED BY <2>2, <2>3
<1> QED BY <1>1, <1>2, <1>3, <1>4 DEF Waking

\* Nobody's place changes: what is left to show of such a step.
LEMMA CompleteKept ==
  ASSUME TypeOK, Complete, SamePlace, NEW h \in Hosts, Moves(h), Waking' => Waking,
         row'.status \in {"succeeded", "awaiting_input"} => row.status = row'.status,
         Whole(drive'[h]), drive'[h].pc = "resume" => Paused
  PROVE  Complete'
<1>1. /\ Nodes' = Nodes /\ (Paused => Paused')
      /\ (StoppedAt(row.ctx) => StoppedAt(row.ctx)')
  BY PlaceKept
<1>2. row'.art = row.art /\ ckpt' = ckpt
  BY DEF SamePlace, SameProgress
<1>3. \A g \in Hosts : Whole(drive'[g]) /\ (drive'[g].pc = "resume" => Paused)
  BY DEF Complete, Moves
<1>4. \A g \in Hosts : Whole(drive[g])'
  BY <1>1, <1>2, <1>3 DEF Whole
<1>5. row'.status = "succeeded" => row'.art = Nodes'
  BY <1>1, <1>2 DEF Complete
<1>6. row'.status = "awaiting_input" => Paused'
  BY <1>1 DEF Complete
<1>7. Waking' => StoppedAt(row.ctx)'
  BY <1>1 DEF Complete
<1> QED BY <1>1, <1>3, <1>4, <1>5, <1>6, <1>7 DEF Complete

LEMMA QuietWhole ==
  ASSUME Parameters, TypeOK, Ordered, Complete, NEW h \in Hosts, Quiet(h)
  PROVE  Complete'
<1>e. UNCHANGED <<plan, row, ckpt, drive>>
  BY QuietEffect
<1>t. /\ sweep \in [Hosts -> {"idle", "wake", "reap", "enqueue wake", "enqueue continue"}]
      /\ tasks \in [1..MaxTasks -> {"none", "continue", "wake"}]
  BY DEF TypeOK
<1>h. \A i \in 1..MaxTasks, g \in Hosts : Holds(g, i)' = Holds(g, i)
  BY <1>e DEF Holds
<1>1. ASSUME NEW i \in 1..MaxTasks, tasks'[i] = "wake", Token("task", i)'
      PROVE  Waking
  <2>1. \A g \in Hosts : ~Holds(g, i)
    BY <1>1, <1>h DEF Token
  <2>2. CASE tasks[i] = "wake"
    BY <1>1, <2>1, <2>2 DEF Waking, Token
  <2>3. CASE tasks[i] # "wake"
    <3>1. CASE StartEnqueue(h)
      <4>1. Enqueue("continue")
        BY <3>1 DEF StartEnqueue
      <4>2. PICK j \in 1..MaxTasks : tasks' = [tasks EXCEPT ![j] = "continue"]
        BY <4>1, EnqueueEffect
      <4> QED BY <1>1, <1>t, <2>3, <4>2
    <3>2. CASE SweepEnqueue(h)
      <4>1. CASE sweep[h] = "enqueue wake"
        BY <4>1 DEF Waking
      <4>2. CASE sweep[h] # "enqueue wake"
        <5>1. Enqueue("continue")
          BY <3>2, <4>2 DEF SweepEnqueue
        <5>2. PICK j \in 1..MaxTasks : tasks' = [tasks EXCEPT ![j] = "continue"]
          BY <5>1, EnqueueEffect
        <5> QED BY <1>1, <1>t, <2>3, <5>2
      <4> QED BY <4>1, <4>2
    <3>3. CASE CancelRead(h) \/ WakeFind(h) \/ ReapFind(h)
      <4>1. tasks' = tasks
        BY <3>3 DEF CancelRead, WakeFind, ReapFind
      <4> QED BY <1>1, <2>3, <4>1
    <3> QED BY <3>1, <3>2, <3>3 DEF Quiet
  <2> QED BY <2>2, <2>3
<1>2. ASSUME NEW g \in Hosts, sweep'[g] = "enqueue wake"
      PROVE  Waking
  <2>1. \/ sweep' = sweep \/ sweep' = [sweep EXCEPT ![h] = "wake"]
        \/ sweep' = [sweep EXCEPT ![h] = "reap"] \/ sweep' = [sweep EXCEPT ![h] = "idle"]
    BY DEF Quiet, StartEnqueue, CancelRead, WakeFind, ReapFind, SweepEnqueue, SweepDone
  <2>2. sweep[g] = "enqueue wake"
    BY <1>2, <1>t, <2>1
  <2> QED BY <2>2 DEF Waking
<1>3. Waking' => Waking
  BY <1>e, <1>1, <1>2 DEF Waking
<1>4. SamePlace /\ Moves(h)
  BY <1>e DEF SamePlace, SameProgress, Moves, TypeOK
<1>5. Whole(drive'[h]) /\ (drive'[h].pc = "resume" => Paused)
  BY <1>e DEF Complete
<1> QED BY <1>e, <1>3, <1>4, <1>5, CompleteKept

LEMMA RowStepWhole ==
  ASSUME Parameters, TypeOK, Complete, RowStep
  PROVE  Complete'
<1>e. UNCHANGED <<plan, ckpt, tasks, drive>>
  BY RowStepEffect
<1>t. /\ sweep \in [Hosts -> {"idle", "wake", "reap", "enqueue wake", "enqueue continue"}]
      /\ row \in Row /\ drive \in [Hosts -> Drive]
  BY DEF TypeOK
<1>1. SamePlace
  BY <1>e, RowStepEffect DEF SamePlace, SameProgress
<1>2. row'.wake # "none" => row.wake # "none"
  BY RowStepEffect
<1>3. row'.status \in {"succeeded", "awaiting_input"} => row.status = row'.status
  BY RowStepEffect
<1>4. ASSUME NEW g \in Hosts, sweep'[g] = "enqueue wake"
      PROVE  Waking
  <2>1. CASE sweep[g] = "enqueue wake"
    BY <2>1 DEF Waking
  <2>2. CASE sweep[g] # "enqueue wake"
    <3>1. CASE \E h \in Hosts : WakeClaim(h)
      <4>1. PICK h \in Hosts : WakeClaim(h)
        BY <3>1
      <4>2. CASE row.wake = "none"
        <5>1. sweep' = [sweep EXCEPT ![h] = "idle"]
          BY <4>1, <4>2 DEF WakeClaim, SweepDone
        <5> QED BY <1>t, <1>4, <2>2, <5>1
      <4>3. CASE row.wake # "none"
        BY <4>3 DEF Waking
      <4> QED BY <4>2, <4>3
    <3>2. CASE \E h \in Hosts : ReapClaim(h)
      <4>1. PICK h \in Hosts : ReapClaim(h)
        BY <3>2
      <4>2. sweep' = [sweep EXCEPT ![h] = "idle"] \/ sweep' = [sweep EXCEPT ![h] = "enqueue continue"]
        BY <4>1 DEF ReapClaim, SweepDone
      <4> QED BY <1>t, <1>4, <2>2, <4>2
    <3>3. CASE Elapse \/ Lapse \/ \E h \in Hosts : StartQueued(h) \/ CancelWrite(h)
      <4>1. sweep' = sweep
        BY <3>3 DEF Elapse, Lapse, StartQueued, CancelWrite
      <4> QED BY <1>4, <2>2, <4>1
    <3> QED BY <3>1, <3>2, <3>3 DEF RowStep
  <2> QED BY <2>1, <2>2
<1>5. \A i \in 1..MaxTasks : Token("task", i)' => Token("task", i)
  BY <1>e DEF Token, Holds
<1>6. Waking' => Waking
  BY <1>e, <1>2, <1>4, <1>5 DEF Waking
<1>7. /\ Nodes' = Nodes /\ (Paused => Paused')
      /\ (StoppedAt(row.ctx) => StoppedAt(row.ctx)')
  BY <1>1, PlaceKept
<1>8. row'.art = row.art /\ ckpt' = ckpt
  BY <1>1 DEF SamePlace, SameProgress
<1>9. \A g \in Hosts : Whole(drive[g])' /\ (drive'[g].pc = "resume" => Paused')
  BY <1>e, <1>7, <1>8 DEF Complete, Whole
<1>10. row'.status = "succeeded" => row'.art = Nodes'
  BY <1>3, <1>7, <1>8 DEF Complete
<1>11. row'.status = "awaiting_input" => Paused'
  BY <1>3, <1>7 DEF Complete
<1>12. Waking' => StoppedAt(row.ctx)'
  BY <1>6, <1>7 DEF Complete
<1> QED BY <1>9, <1>10, <1>11, <1>12 DEF Complete

LEMMA DriveWhole ==
  ASSUME Parameters, TypeOK, PcInv, SeenInv, QueuedInv, FrontierInv, Remember,
         Orderly, Orderly', Ordered, Ordered', Complete, NEW h \in Hosts, DriveMove(h)
  PROVE  Complete'
<1>0. Moves(h) /\ plan' = plan
  BY DriveMoveTyped
<1>n. Nodes' = Nodes
  BY <1>0 DEF Nodes
<1>s. "two drives" \notin seen /\ "two drives" \notin seen'
  BY DEF Ordered
<1>r. RowPlaced /\ Placed(drive[h]) /\ InStep(drive[h])
  BY <1>s DEF FrontierInv
<1>f. faults \in Nat /\ faults' = faults
  BY FaultsTyped DEF Orderly
<1>t. row \in Row
  BY DEF TypeOK
<1>d. PcOK(drive[h]) /\ drive[h] \in Drive /\ drive[h].snap \in Row
  BY DEF PcInv, TypeOK, Drive
<1>w. Whole(drive[h]) /\ (drive[h].pc = "resume" => Paused)
  BY DEF Complete
<1>o. OneToken /\ RowOrder
  BY DEF Ordered
\* It stays where it is, or goes on, and writes neither progress nor status.
<1>1. ASSUME SamePlace, row'.status = row.status, row'.wake = row.wake,
             UNCHANGED <<tasks, sweep>>,
             \/ drive[h].pc = "idle"
             \/ /\ drive'[h].task = drive[h].task
                /\ drive'[h].task = 0 \/ drive'[h].pc # "idle",
             drive'[h].pc = "prepare" => drive[h].pc = "idle",
             drive'[h].pc = "prepare" /\ drive'[h].kind = "wake" => Waking,
             Whole(drive'[h]), drive'[h].pc = "resume" => Paused
      PROVE  Complete'
  <2>1. \A i \in 1..MaxTasks : Free(i)' => Free(i)
    BY <1>0, <1>1, HeldTasks
  <2>2. Waking' => Waking
    BY <1>0, <1>1, <2>1, WakingFewer
  <2> QED BY <1>0, <1>1, <2>2, CompleteKept
\* It has nothing to do with the run, or not yet.
<1>2. ASSUME UNCHANGED <<row, ckpt, tasks, sweep>>,
             \/ drive[h].pc = "idle"
             \/ /\ drive'[h].task = drive[h].task
                /\ drive'[h].task = 0 \/ drive'[h].pc # "idle",
             drive'[h].pc \in {"idle", "ack", "decided"}
      PROVE  Complete'
  <2>1. Whole(drive'[h])
    BY <1>2 DEF Whole
  <2>2. SamePlace
    BY <1>0, <1>2 DEF SamePlace, SameProgress
  <2> QED BY <1>1, <1>2, <2>1, <2>2
\* It drives the run.
<1>3. ASSUME drive[h].pc \in DrivePcs, drive'[h].pc # "prepare", drive'[h].pc # "resume",
             SamePlace, row'.status = row.status, row'.wake = row.wake,
             UNCHANGED <<tasks, sweep>>,
             drive'[h].task = drive[h].task, drive'[h].pc # "idle", Whole(drive'[h])
      PROVE  Complete'
  BY <1>1, <1>3
\* It starts, or ends a pause: the run is running.
<1>4. ASSUME SamePlace, row'.status = "running", row'.wake = row.wake,
             UNCHANGED <<tasks, sweep>>,
             \/ drive[h].pc = "idle"
             \/ drive'[h].task = drive[h].task /\ drive'[h].pc # "idle",
             drive'[h].pc = "round", Whole(drive'[h])
      PROVE  Complete'
  <2>1. \A i \in 1..MaxTasks : Free(i)' => Free(i)
    BY <1>0, <1>4, HeldTasks
  <2>2. Waking' => Waking
    BY <1>0, <1>4, <2>1, WakingFewer
  <2> QED BY <1>0, <1>4, <2>2, CompleteKept
\* It writes the run's place: it alone is concerned.
<1>5. ASSUME drive[h].pc \in DrivePcs, Whole(drive[h])', drive'[h].pc # "resume",
             row'.status = "succeeded" => row'.art = Nodes,
             Waking' => StoppedAt(row.ctx)',
             row'.status = "awaiting_input" => Paused'
      PROVE  Complete'
  <2>1. ASSUME NEW g \in Hosts, g # h
        PROVE  drive[g].pc \notin DrivePcs /\ drive'[g] = drive[g]
    BY <1>0, <1>5, <1>s, <2>1, OthersRest
  <2>2. ASSUME NEW g \in Hosts
        PROVE  Whole(drive[g])' /\ (drive'[g].pc = "resume" => Paused')
    <3>1. CASE g = h
      BY <1>5, <3>1
    <3>2. CASE g # h
      <4>1. drive'[g].pc \notin DrivePcs
        BY <2>1, <3>2
      <4> QED BY <4>1 DEF Whole, DrivePcs
    <3> QED BY <3>1, <3>2
  <2> QED BY <1>5, <1>n, <2>2 DEF Complete
\* It lets go, and no wake is left.
<1>6. ASSUME drive[h].pc \in DrivePcs, LetsGo(h)
      PROVE  Whole(drive[h])' /\ drive'[h].pc # "resume"
  BY <1>6 DEF LetsGo, Whole
<1>a. CASE StartWaiting(h)
  <2>1. /\ row.status = "absent" /\ drive[h].pc = "idle"
        /\ row' = [row EXCEPT !.status = "running", !.lease = "valid"]
        /\ drive'[h].pc = "round" /\ drive'[h].done = {} /\ drive'[h].act = Start
        /\ UNCHANGED <<ckpt, tasks, sweep>>
    BY <1>a, StartWaitingEffect
  <2>2. SamePlace /\ row'.status = "running" /\ row'.wake = row.wake
    BY <1>0, <1>t, <2>1 DEF Row, SamePlace, SameProgress
  <2>3. Start = {} => {} = Nodes
    <3>1. Following({}) = {}
      BY DEF Following
    <3>2. (Following({}) \cup Start) \ {} = {} => {} = Nodes
      BY NothingDone, PrefixNext
    <3> QED BY <3>1, <3>2
  <2>4. Whole(drive'[h])
    BY <2>1, <2>3 DEF Whole
  <2> QED BY <1>4, <2>1, <2>2, <2>4
<1>b. CASE Crash(h)
  <2>1. faults' = faults + 1
    BY <1>b, CrashEffect
  <2> QED BY <1>f, <2>1
<1>c. CASE Delivered(h)
  <2>1. PICK i \in 1..MaxTasks : Deliver(h, i)
    BY <1>c DEF Delivered
  <2>2. /\ drive[h].pc = "idle" /\ tasks[i] # "none" /\ drive'[h].task = i
        /\ \/ drive'[h].pc = "ack"
           \/ drive'[h].pc = "prepare" /\ drive'[h].kind = tasks[i] /\ drive'[h].snap = row
        /\ UNCHANGED <<row, ckpt, tasks, sweep>>
    BY <2>1, DeliverEffect
  <2>3. CASE drive'[h].pc = "ack"
    BY <1>2, <2>2, <2>3
  <2>4. CASE drive'[h].pc = "prepare"
    <3>1. ASSUME tasks[i] = "wake"
          PROVE  Waking
      <4>1. IF \E g \in Hosts : Holds(g, i) THEN Eventful /\ faults' = faults + 1
            ELSE faults' = faults
        BY <2>1, DeliverEffect
      <4>2. ~\E g \in Hosts : Holds(g, i)
        BY <1>f, <4>1
      <4> QED BY <3>1, <4>2 DEF Waking, Token
    <3>2. SamePlace
      BY <1>0, <2>2 DEF SamePlace, SameProgress
    <3>3. Whole(drive'[h])
      BY <2>4 DEF Whole
    <3> QED BY <1>1, <2>2, <2>4, <3>1, <3>2, <3>3
  <2> QED BY <2>2, <2>3, <2>4
<1>e. CASE DriveQueued(h)
  <2>1. /\ drive[h].pc = "prepare" /\ drive[h].snap.status = "queued"
        /\ row' = [row EXCEPT !.status = "running", !.lease = "valid"]
        /\ drive'[h].done = drive[h].snap.art /\ drive'[h].act = Start
        /\ drive'[h].pc = "round" /\ drive'[h].task = drive[h].task
        /\ UNCHANGED <<ckpt, tasks, sweep>>
    BY <1>e, DriveQueuedEffect
  <2>2. SamePlace /\ row'.status = "running" /\ row'.wake = row.wake
    BY <1>0, <1>t, <2>1 DEF Row, SamePlace, SameProgress
  <2>3. Start = {} => {} = Nodes
    <3>1. Following({}) = {}
      BY DEF Following
    <3>2. (Following({}) \cup Start) \ {} = {} => {} = Nodes
      BY NothingDone, PrefixNext
    <3> QED BY <3>1, <3>2
  <2>4. drive[h].snap.art = {}
    BY <2>1 DEF QueuedInv
  <2>5. Whole(drive'[h])
    BY <2>1, <2>3, <2>4 DEF Whole
  <2> QED BY <1>4, <2>1, <2>2, <2>5
<1>g. CASE Redrive(h)
  <2>1. /\ drive[h].pc = "prepare" /\ drive'[h].pc = "round"
        /\ drive'[h].task = drive[h].task
        /\ drive'[h].done = drive[h].snap.art \cup ckpt
        /\ drive'[h].act = (Following(drive'[h].done) \cup Start) \ drive'[h].done
        /\ UNCHANGED <<row, ckpt, tasks, sweep>>
    BY <1>g, RedriveEffect
  <2>2. drive[h].pc \in DrivePcs
    BY <2>1 DEF DrivePcs
  <2>3. drive'[h].done = row.art \cup ckpt
    BY <1>r, <2>1, <2>2 DEF InStep
  <2>4. Prefix(row.art \cup ckpt)
    BY <1>r, PrefixUnion DEF RowPlaced
  <2>5. drive'[h].act = {} => drive'[h].done = Nodes
    BY <2>1, <2>3, <2>4, PrefixNext
  <2>6. Whole(drive'[h])
    BY <2>1, <2>5 DEF Whole
  <2>7. SamePlace
    BY <1>0, <2>1 DEF SamePlace, SameProgress
  <2> QED BY <1>3, <2>1, <2>2, <2>6, <2>7
<1>h. CASE Wake(h)
  <2>1. /\ drive[h].pc = "prepare" /\ drive[h].kind = "wake" /\ drive'[h].pc = "round"
        /\ drive[h].snap.ctx \in Nodes
        /\ drive'[h].task = drive[h].task
        /\ drive'[h].done = drive[h].snap.art \cup ckpt \cup {drive[h].snap.ctx}
        /\ drive'[h].act = Following({drive[h].snap.ctx}) \ drive'[h].done
        /\ UNCHANGED <<row, ckpt, tasks, sweep>>
    BY <1>h, WakeEffect
  <2> DEFINE c == drive[h].snap.ctx
  <2>2. drive[h].pc \in DrivePcs
    BY <2>1 DEF DrivePcs
  <2>3. drive[h].snap.art = row.art /\ c = row.ctx
    BY <1>r, <2>2 DEF InStep
  <2>4. Waking
    BY <2>1 DEF Waking
  <2>5. row.art = Before(c) /\ ckpt = Before(c)
    BY <2>3, <2>4 DEF Complete, StoppedAt
  <2>6. drive'[h].done = Before(c) \cup {c}
    BY <2>1, <2>3, <2>5
  <2>7. drive'[h].act = Following({c}) \ (Before(c) \cup {c})
    BY <2>1, <2>6
  <2>8. c \in Nodes
    BY <2>1
  <2> HIDE DEF c
  <2>9. /\ Following({c}) = {} => Before(c) \cup {c} = Nodes
        /\ Following({c}) \cap (Before(c) \cup {c}) = {}
    BY <2>8, BeforeNext
  <2>10. drive'[h].act = {} => drive'[h].done = Nodes
    BY <2>6, <2>7, <2>9
  <2>11. Whole(drive'[h])
    BY <2>1, <2>10 DEF Whole
  <2>12. SamePlace
    BY <1>0, <2>1 DEF SamePlace, SameProgress
  <2> QED BY <1>3, <2>1, <2>2, <2>11, <2>12
<1>i. CASE WakeWithoutContext(h)
  <2>1. /\ drive'[h].pc = (IF drive[h].task = 0 THEN "idle" ELSE "ack")
        /\ drive'[h].task = drive[h].task
        /\ UNCHANGED <<row, ckpt, tasks, sweep>>
    BY <1>i, WakeWithoutContextEffect
  <2> QED BY <1>2, <2>1
<1>j. CASE Round(h)
  <2>1. PICK n \in drive[h].act :
         /\ drive[h].pc = "round"
         /\ row' = [row EXCEPT !.lease = "valid"]
         /\ \/ /\ drive'[h].pc = "round" /\ ckpt' = drive[h].done \cup {n}
               /\ drive'[h].done = drive[h].done \cup {n}
               /\ drive'[h].act = Following({n}) \ drive'[h].done
            \/ /\ drive'[h].pc \in {"nap", "park", "emit", "settle"} /\ ckpt' = drive[h].done
               /\ drive'[h].done = drive[h].done
               /\ drive'[h].act = {} /\ drive'[h].node = n
               /\ drive'[h].end = "awaiting_input"
         /\ UNCHANGED <<plan, tasks, items, sweep, call, bounds>>
    BY <1>j, RoundEffect
  <2>a. drive[h].pc = "round" /\ row' = [row EXCEPT !.lease = "valid"] /\ UNCHANGED <<tasks, sweep>>
    BY <2>1
  <2>b. drive'[h].task = drive[h].task
    BY <1>j, RoundEffect
  <2>2. n \in Nodes /\ drive[h].done = Before(n)
    BY <1>d, <1>r DEF Drive, Placed
  <2>3. /\ Following({n}) = {} => Before(n) \cup {n} = Nodes
        /\ Following({n}) \cap (Before(n) \cup {n}) = {}
    BY <2>2, BeforeNext
  <2>4. drive'[h].pc = "round" /\ drive'[h].act = {} => drive'[h].done = Nodes
    BY <2>1, <2>2, <2>3
  <2>5. Whole(drive[h])'
    <3>1. CASE drive'[h].pc = "round"
      BY <1>n, <2>4, <3>1 DEF Whole
    <3>2. CASE drive'[h].pc # "round"
      <4>1. drive'[h].end = "awaiting_input" /\ ckpt' = drive'[h].done
        BY <2>1, <3>2
      <4> QED BY <3>2, <4>1 DEF Whole
    <3> QED BY <3>1, <3>2
  <2>6. row'.status = row.status /\ row'.wake = row.wake
    BY <1>t, <2>a DEF Row
  <2>7. drive[h].pc \in DrivePcs /\ drive[h].pc \in DrivePcs \ {"prepare"} /\ drive[h].pc # "resume"
    BY <2>a DEF DrivePcs
  <2>8. drive'[h].pc # "prepare" /\ drive'[h].pc # "resume" /\ drive'[h].pc # "idle"
    BY <2>1
  <2>9. ~Waking
    BY <2>7, NoWaking
  <2>10. \A i \in 1..MaxTasks : Free(i)' => Free(i)
    BY <1>0, <2>a, <2>b, <2>8, HeldTasks
  <2>11. ~Waking'
    BY <1>0, <2>a, <2>6, <2>8, <2>9, <2>10, WakingFewer
  <2>12. row'.status # "succeeded" /\ row'.status # "awaiting_input"
    BY <2>6, <2>7, DriveToken, Attending
  <2> QED BY <1>5, <2>5, <2>7, <2>8, <2>11, <2>12
<1>k. CASE RoundFails(h)
  <2>1. /\ drive[h].pc = "round" /\ drive'[h].pc = "settle" /\ drive'[h].end = "failed"
        /\ drive'[h].task = drive[h].task /\ UNCHANGED <<row, ckpt, tasks, sweep>>
    BY <1>k, RoundFailsEffect
  <2>2. Whole(drive'[h])
    BY <2>1 DEF Whole
  <2>3. SamePlace /\ drive[h].pc \in DrivePcs
    BY <1>0, <2>1 DEF SamePlace, SameProgress, DrivePcs
  <2> QED BY <1>3, <2>1, <2>2, <2>3
<1>l. CASE NothingActive(h)
  <2>1. /\ drive[h].pc = "round" /\ drive'[h].pc = "settle" /\ drive'[h].end = "succeeded"
        /\ drive[h].act = {} /\ drive'[h].done = drive[h].done
        /\ drive'[h].task = drive[h].task /\ UNCHANGED <<row, ckpt, tasks, sweep>>
    BY <1>l, NothingActiveEffect
  <2>2. Whole(drive'[h])
    BY <1>w, <2>1 DEF Whole
  <2>3. SamePlace /\ drive[h].pc \in DrivePcs
    BY <1>0, <2>1 DEF SamePlace, SameProgress, DrivePcs
  <2> QED BY <1>3, <2>1, <2>2, <2>3
<1>m. CASE NapOver(h)
  <2>1. /\ drive[h].pc = "nap" /\ drive'[h].pc = "round" /\ drive[h].node \in Nodes
        /\ drive'[h].task = drive[h].task
        /\ drive'[h].done = drive[h].done \cup {drive[h].node}
        /\ drive'[h].act = Following({drive[h].node}) \ drive'[h].done
        /\ UNCHANGED <<row, ckpt, tasks, sweep>>
    BY <1>m, NapOverEffect
  <2> DEFINE c == drive[h].node
  <2>2. drive[h].done = Before(c) /\ c \in Nodes
    BY <1>r, <2>1 DEF Placed
  <2>3. /\ drive'[h].done = Before(c) \cup {c}
        /\ drive'[h].act = Following({c}) \ (Before(c) \cup {c})
    BY <2>1, <2>2
  <2> HIDE DEF c
  <2>4. /\ Following({c}) = {} => Before(c) \cup {c} = Nodes
        /\ Following({c}) \cap (Before(c) \cup {c}) = {}
    BY <2>2, BeforeNext
  <2>5. drive'[h].act = {} => drive'[h].done = Nodes
    BY <2>3, <2>4
  <2>6. Whole(drive'[h])
    BY <2>1, <2>5 DEF Whole
  <2>7. SamePlace /\ drive[h].pc \in DrivePcs
    BY <1>0, <2>1 DEF SamePlace, SameProgress, DrivePcs
  <2> QED BY <1>3, <2>1, <2>6, <2>7
<1>p. CASE Park(h)
  <2>1. /\ drive[h].pc = "park" /\ drive[h].node \in Nodes /\ LetsGo(h) /\ ckpt' = ckpt
        /\ row'.status = IF drive[h].snap.status # "sleeping" THEN "sleeping" ELSE row.status
        /\ row'.art = IF drive[h].done # drive[h].snap.art THEN drive[h].done ELSE row.art
        /\ row'.ctx = IF drive[h].node # drive[h].snap.ctx THEN drive[h].node ELSE row.ctx
    BY <1>p, ParkEffect
  <2>2. drive[h].pc \in DrivePcs /\ drive[h].pc # "resume"
    BY <2>1 DEF DrivePcs
  <2>3. row'.art = drive[h].done /\ row'.ctx = drive[h].node
    BY <1>r, <2>1, <2>2 DEF InStep
  <2>4. drive[h].done = Before(drive[h].node)
    BY <1>r, <2>1 DEF Placed
  <2>5. ckpt = drive[h].done
    BY <1>w, <2>1 DEF Whole
  <2>6. StoppedAt(row.ctx)'
    BY <1>n, <2>1, <2>3, <2>4, <2>5 DEF StoppedAt
  <2>7. row'.status = "sleeping"
    <3>1. SnapOK(drive[h])
      BY DEF Ordered
    <3> QED BY <2>1, <2>2, <3>1 DEF SnapOK
  <2> QED BY <1>5, <1>6, <2>1, <2>2, <2>6, <2>7
<1>q. CASE Emit(h)
  <2>1. /\ drive[h].pc = "emit" /\ drive'[h].pc = "settle" /\ drive'[h].end = drive[h].end
        /\ drive'[h].done = drive[h].done
        /\ drive'[h].task = drive[h].task /\ UNCHANGED <<row, ckpt, tasks, sweep>>
    BY <1>q, EmitEffect
  <2>2. Whole(drive'[h])
    BY <1>w, <2>1 DEF Whole
  <2>3. SamePlace /\ drive[h].pc \in DrivePcs
    BY <1>0, <2>1 DEF SamePlace, SameProgress, DrivePcs
  <2> QED BY <1>3, <2>1, <2>2, <2>3
<1>u. CASE Settle(h)
  <2> DEFINE left == IF drive[h].end = "awaiting_input" THEN {drive[h].node} ELSE {}
  <2>1. /\ drive[h].pc = "settle" /\ (drive[h].end = "awaiting_input" => drive[h].node \in Nodes)
        /\ LetsGo(h) /\ UNCHANGED <<ckpt, tasks, sweep>>
        /\ row'.status = IF drive[h].snap.status # drive[h].end THEN drive[h].end ELSE row.status
        /\ row'.art = IF drive[h].done # drive[h].snap.art THEN drive[h].done ELSE row.art
        /\ row'.active = IF left # drive[h].snap.active THEN left ELSE row.active
        /\ row'.wake = IF drive[h].snap.wake # "none" THEN "none" ELSE row.wake
    BY <1>u, SettleEffect
  <2>2. drive[h].pc \in DrivePcs /\ drive[h].pc # "resume" /\ drive[h].pc \in DrivePcs \ {"prepare"}
    BY <2>1 DEF DrivePcs
  <2>3. row'.art = drive[h].done /\ row'.active = left
    BY <1>r, <2>1, <2>2 DEF InStep
  <2>4. row'.status = drive[h].end
    <3>1. SnapOK(drive[h])
      BY DEF Ordered
    <3>2. drive[h].end \in Terminal \cup {"awaiting_input"}
      BY <1>d DEF Drive
    <3> QED BY <1>d, <2>1, <2>2, <3>1, <3>2 DEF SnapOK, PcOK
  <2>5. row'.status = "succeeded" => row'.art = Nodes
    BY <1>w, <2>1, <2>3, <2>4 DEF Whole
  <2>6. row'.status = "awaiting_input" => Paused'
    <3> SUFFICES ASSUME drive[h].end = "awaiting_input"
                 PROVE  Paused'
      BY <2>4
    <3>a. drive[h].node \in Nodes
      BY <2>1
    <3> PICK n \in Nodes : n = drive[h].node
      BY <3>a
    <3>1. row'.active = {n} /\ n \in Nodes
      BY <2>3
    <3>2. drive[h].done = Before(n)
      BY <1>r, <2>1 DEF Placed
    <3>3. ckpt = drive[h].done
      BY <1>w, <2>1 DEF Whole
    <3>4. row'.art = Before(n) /\ ckpt' = Before(n)
      BY <2>1, <2>3, <3>2, <3>3
    <3>5. StoppedAt(n)'
      BY <1>n, <3>1, <3>4 DEF StoppedAt
    <3> QED BY <3>1, <3>5 DEF Paused
  <2>7. row'.wake = "none"
    BY <2>1, <2>2, DriveToken, Attending
  <2>8. drive'[h].pc # "prepare" /\ drive'[h].task = drive[h].task
        /\ (drive'[h].task = 0 \/ drive'[h].pc # "idle")
    BY <2>1 DEF LetsGo
  <2>9. \A i \in 1..MaxTasks : Free(i)' => Free(i)
    BY <1>0, <2>1, <2>8, HeldTasks
  <2>10. ~Waking'
    BY <1>0, <2>1, <2>2, <2>7, <2>8, <2>9, NoWaking, WakingFewer
  <2> QED BY <1>5, <1>6, <2>1, <2>2, <2>5, <2>6, <2>10
<1>v. CASE Ack(h)
  <2>1. /\ drive[h].pc = "ack" /\ drive'[h] = Idle
        /\ tasks' = [tasks EXCEPT ![drive[h].task] = "none"]
        /\ UNCHANGED <<row, ckpt, sweep>>
    BY <1>v, AckEffect
  <2>2. drive'[h].pc = "idle"
    BY <2>1, IdleRests
  <2>3. ASSUME NEW i \in 1..MaxTasks, tasks'[i] # "none", Token("task", i)'
        PROVE  tasks'[i] = tasks[i] /\ Token("task", i)
    <3>1. tasks \in [1..MaxTasks -> {"none", "continue", "wake"}]
      BY DEF TypeOK
    <3>2. i # drive[h].task /\ tasks'[i] = tasks[i]
      BY <2>1, <2>3, <3>1
    <3>3. \A g \in Hosts : ~Holds(g, i)
      BY <1>0, <2>3, <3>2 DEF Token, Holds, Moves
    <3> QED BY <2>3, <3>2, <3>3 DEF Token
  <2>4. Waking' => Waking
    BY <1>0, <2>1, <2>2, <2>3 DEF Waking, Moves
  <2>5. SamePlace
    BY <1>0, <2>1 DEF SamePlace, SameProgress
  <2>6. Whole(drive'[h])
    BY <2>2 DEF Whole
  <2> QED BY <1>0, <2>1, <2>2, <2>4, <2>5, <2>6, CompleteKept
<1>w1. CASE Decided(h)
  <2>1. /\ drive[h].pc = "decided" /\ drive[h].task = 0 /\ drive'[h].task = 0
        /\ drive'[h].pc = "idle" \/ (drive'[h].pc = "resume" /\ row.status = "awaiting_input")
        /\ UNCHANGED <<row, ckpt, tasks, sweep>>
    BY <1>w1, DecidedEffect
  <2>2. Whole(drive'[h])
    BY <2>1 DEF Whole
  <2>3. SamePlace
    BY <1>0, <2>1 DEF SamePlace, SameProgress
  <2>4. drive'[h].pc = "resume" => Paused
    BY <2>1 DEF Complete
  <2> QED BY <1>1, <2>1, <2>2, <2>3, <2>4
<1>x. CASE Resume(h)
  <2>1. PICK answered, start \in SUBSET Nodes :
         /\ drive[h].pc = "resume" /\ drive[h].snap.status = "awaiting_input"
         /\ answered = IF drive[h].node = 0 THEN {} ELSE {drive[h].node}
         /\ drive'[h].done = drive[h].snap.art \cup ckpt \cup answered
         /\ start = IF drive[h].node = 0 THEN drive[h].snap.active
                    ELSE Following(answered) \ drive'[h].done
         /\ drive'[h].act = start \ drive'[h].done
         /\ row' = [row EXCEPT !.status = "running", !.lease = "valid",
                               !.active = IF start # drive[h].snap.active THEN start ELSE row.active]
         /\ Moves(h)
         /\ drive'[h].pc = "round"
         /\ drive'[h].task = drive[h].task /\ drive'[h].kind = drive[h].kind
         /\ drive'[h].snap = [drive[h].snap EXCEPT !.status = "running", !.lease = "valid",
                                                   !.active = start]
         /\ UNCHANGED <<plan, ckpt, tasks, items, sweep, call, bounds>>
    BY <1>x, ResumeEffect
  <2>a. /\ drive[h].pc = "resume" /\ drive'[h].pc = "round" /\ drive'[h].task = drive[h].task
        /\ UNCHANGED <<ckpt, tasks, sweep>>
    BY <2>1
  <2>b. /\ answered = (IF drive[h].node = 0 THEN {} ELSE {drive[h].node})
        /\ drive'[h].done = drive[h].snap.art \cup ckpt \cup answered
        /\ start = (IF drive[h].node = 0 THEN drive[h].snap.active
                    ELSE Following(answered) \ drive'[h].done)
        /\ drive'[h].act = start \ drive'[h].done
    BY <2>1
  <2>2. row'.status = "running" /\ row'.wake = row.wake /\ row'.art = row.art /\ row'.ctx = row.ctx
    BY <1>t, <2>1 DEF Row
  <2>3. drive[h].pc \in DrivePcs /\ drive[h].pc \in DrivePcs \ {"prepare"}
    BY <2>a DEF DrivePcs
  <2>4. drive[h].snap.art = row.art /\ drive[h].snap.active = row.active
    BY <1>r, <2>3 DEF InStep
  <2>5. PICK n \in row.active : row.active = {n} /\ StoppedAt(n)
    BY <1>w, <2>a DEF Paused
  <2>6. n \in Nodes /\ row.art = Before(n) /\ ckpt = Before(n)
    BY <2>5 DEF StoppedAt
  <2>7. drive[h].node = 0 \/ drive[h].node = n
    BY <1>r, <2>4, <2>5, <2>a DEF Placed
  <2>8. /\ n \notin Before(n)
        /\ Following({n}) = {} => Before(n) \cup {n} = Nodes
        /\ Following({n}) \cap (Before(n) \cup {n}) = {}
    BY <2>6, BeforeNext
  <2>9. drive'[h].act = {} => drive'[h].done = Nodes
    <3>1. CASE drive[h].node = 0
      <4>1. drive'[h].done = Before(n) /\ drive'[h].act = {n} \ Before(n)
        BY <2>b, <2>4, <2>5, <2>6, <3>1
      <4> QED BY <2>8, <4>1
    <3>2. CASE drive[h].node # 0
      <4>1. answered = {n}
        BY <2>b, <2>7, <3>2
      <4>2. drive'[h].done = Before(n) \cup {n}
        BY <2>b, <2>4, <2>6, <4>1
      <4>3. drive'[h].act = (Following({n}) \ (Before(n) \cup {n})) \ (Before(n) \cup {n})
        BY <2>b, <3>2, <4>1, <4>2
      <4> QED BY <2>8, <4>2, <4>3
    <3> QED BY <3>1, <3>2
  <2>10. Whole(drive[h])'
    BY <1>n, <2>a, <2>9 DEF Whole
  <2>11. \A i \in 1..MaxTasks : Free(i)' => Free(i)
    BY <1>0, <2>a, HeldTasks
  <2>12. ~Waking
    BY <2>3, NoWaking
  <2>13. ~Waking'
    BY <1>0, <2>a, <2>2, <2>11, <2>12, WakingFewer
  <2> QED BY <1>5, <2>a, <2>2, <2>3, <2>10, <2>13
<1>y. CASE \E n \in {0} \cup Nodes : Answer(h, n)
  <2>1. PICK n \in {0} \cup Nodes : Answer(h, n)
    BY <1>y
  <2>2. /\ drive[h].pc = "idle" /\ row.status = "awaiting_input" /\ drive'[h].pc = "resume"
        /\ UNCHANGED <<row, ckpt, tasks, sweep>>
    BY <2>1, AnswerEffect
  <2>3. Paused
    BY <2>2 DEF Complete
  <2>4. Whole(drive'[h])
    BY <2>2 DEF Whole
  <2>5. SamePlace
    BY <1>0, <2>2 DEF SamePlace, SameProgress
  <2> QED BY <1>1, <2>2, <2>3, <2>4, <2>5
<1>z. CASE \E n \in Nodes : Decide(h, n)
  <2>1. PICK n \in Nodes : Decide(h, n)
    BY <1>z
  <2>2. /\ drive[h].pc = "idle" /\ drive'[h].pc = "decided"
        /\ UNCHANGED <<row, ckpt, tasks, sweep>>
    BY <2>1, DecideEffect
  <2> QED BY <1>2, <2>2
<1> QED
  BY <1>a, <1>b, <1>c, <1>e, <1>g, <1>h, <1>i, <1>j, <1>k, <1>l, <1>m, <1>p, <1>q, <1>u, <1>v, <1>w1,
     <1>x, <1>y, <1>z DEF DriveMove, DriveStep

\* Every step preserves WholeInv.
LEMMA WholeStep ==
  ASSUME Parameters, TypeOK, PcInv, SeenInv, QueuedInv, FrontierInv, OrderInv, OrderInv', WholeInv,
         Next
  PROVE  WholeInv'
<1> SUFFICES ASSUME Orderly'
             PROVE  Complete'
  BY DEF WholeInv
<1>r. Remember /\ Ordered'
  BY NextRemembers DEF OrderInv
<1>f. faults \in Nat
  BY FaultsTyped
<1>1. ASSUME faults' >= faults
      PROVE  Orderly /\ Ordered /\ Complete
  <2>1. Orderly
    BY <1>1, <1>r, OrderlyBefore
  <2> QED BY <2>1 DEF OrderInv, WholeInv
<1>2. CASE \E h \in Hosts : Quiet(h)
  <2>1. faults' = faults
    BY <1>2, QuietEffect
  <2>2. faults' >= faults
    BY <1>f, <2>1
  <2> QED BY <1>1, <1>2, <2>2, QuietWhole
<1>3. CASE RowStep
  BY <1>1, <1>3, RowStepEffect, RowStepWhole
<1>4. CASE \E h \in Hosts : DriveMove(h)
  BY <1>r, <1>1, <1>4, DriveMoveTyped, DriveWhole
<1> QED BY <1>2, <1>3, <1>4, StepCases, NextRemembers

(***************************************************************************)
(* The initial states, stuttering, and the theorems                        *)
(***************************************************************************)
LEMMA InitTyped ==
  ASSUME Parameters, Init
  PROVE  TypeOK
<1>1. NoRow \in Row /\ Idle \in Drive
  BY IdleTyped
<1>2. 0 \in 0..MaxEvents /\ 0 \in 0..MaxAnswers
  BY DEF Parameters
<1> QED BY <1>1, <1>2 DEF Init, TypeOK

\* The initial states, field by field.
LEMMA InitRow ==
  ASSUME Init
  PROVE  /\ row.status = "absent" /\ row.art = {} /\ row.active = {} /\ row.ctx = 0
         /\ row.wake = "none" /\ row.lease = "none" /\ ckpt = {}
         /\ \A h \in Hosts : /\ drive[h] = Idle /\ drive[h].pc = "idle" /\ drive[h].act = {}
                             /\ drive[h].task = 0 /\ drive[h].pc \notin DrivePcs
                             /\ sweep[h] = "idle" /\ call[h] = "idle"
         /\ \A i \in 1..MaxTasks : tasks[i] = "none"
         /\ seen = {}
<1>1. \A h \in Hosts : drive[h] = Idle
  BY DEF Init
<1>2. row = NoRow
  BY DEF Init
<1>3. /\ row.status = "absent" /\ row.art = {} /\ row.active = {} /\ row.ctx = 0
      /\ row.wake = "none" /\ row.lease = "none"
  BY <1>2 DEF NoRow
<1> QED BY <1>1, <1>3, IdleRests DEF Init

\* The invariant holds initially.
LEMMA InitInv ==
  ASSUME Parameters, Init
  PROVE  IndInv
<1>1. SeenInv
  BY InitRow DEF SeenInv, Shows, Together, DrivePcs
<1>2. PcInv
  BY InitRow DEF PcInv, PcOK
<1>3. QueuedInv
  BY InitRow DEF QueuedInv, Driving
<1>4. WakeInv
  BY InitRow DEF WakeInv, WakeOK
<1>5. FrontierInv
  <2>1. RowPlaced
    BY InitRow, NothingDone DEF RowPlaced
  <2>2. \A h \in Hosts : Placed(drive[h]) /\ InStep(drive[h])
    BY InitRow DEF Placed, InStep
  <2> QED BY <2>1, <2>2 DEF FrontierInv
<1>6. NoToken
  BY InitRow DEF NoToken, Token, Driving
<1>7. OrderInv
  <2>1. OneToken
    BY <1>6 DEF NoToken, OneToken
  <2>2. RowOrder
    BY <1>6, InitRow DEF RowOrder
  <2>3. \A h \in Hosts : SnapOK(drive[h])
    BY InitRow DEF SnapOK
  <2> QED BY <2>1, <2>2, <2>3, InitRow DEF OrderInv, Ordered
<1>8. WholeInv
  <2>1. ~Waking
    BY InitRow DEF Waking
  <2>2. \A h \in Hosts : Whole(drive[h])
    BY InitRow DEF Whole
  <2> QED BY <2>1, <2>2, InitRow DEF WholeInv, Complete
<1> QED BY <1>1, <1>2, <1>3, <1>4, <1>5, <1>7, <1>8 DEF IndInv

\* A step that changes nothing preserves the invariant.
LEMMA Stutter ==
  ASSUME TypeOK, IndInv, UNCHANGED vars
  PROVE  TypeOK' /\ IndInv'
<1>1. /\ UNCHANGED <<plan, row, ckpt, tasks, items, drive, sweep, call>>
      /\ UNCHANGED <<faults, answers, cancels, seen>>
  BY DEF vars, system, bounds
<1>2. TypeOK'
  BY <1>1 DEF TypeOK, Nodes, Row, Drive
<1>3. (SeenInv /\ PcInv /\ QueuedInv)'
  BY <1>1 DEF IndInv, SeenInv, Shows, Together, PcInv, QueuedInv, Driving
<1>4. WakeInv' /\ FrontierInv'
  <2>1. WakeInv'
    BY <1>1 DEF IndInv, WakeInv
  <2>2. RowPlaced' = RowPlaced
    BY <1>1 DEF RowPlaced, Prefix, Nodes
  <2>3. FrontierInv'
    BY <1>1, <2>2 DEF IndInv, FrontierInv, Placed, InStep, Prefix, Nodes
  <2> QED BY <2>1, <2>3
<1>a. \A k, x : Token(k, x)' = Token(k, x)
  BY <1>1 DEF Token, Holds, Driving
<1>b. Orderly' = Orderly /\ Nodes' = Nodes
  BY <1>1 DEF Orderly, Nodes
<1>c. NoToken' = NoToken /\ OneToken' = OneToken
  BY <1>a DEF NoToken, OneToken
<1>d. RowOrder' = RowOrder
  BY <1>1, <1>a, <1>c DEF RowOrder
<1>5. OrderInv'
  BY <1>1, <1>b, <1>c, <1>d DEF IndInv, OrderInv, Ordered, SnapOK
<1>6. WholeInv'
  <2>1. Waking' = Waking
    BY <1>1, <1>a DEF Waking
  <2>2. Paused' = Paused /\ StoppedAt(row.ctx)' = StoppedAt(row.ctx)
    BY <1>1, <1>b DEF Paused, StoppedAt
  <2> QED BY <1>1, <1>b, <2>1, <2>2 DEF IndInv, WholeInv, Complete, Whole
<1> QED BY <1>2, <1>3, <1>4, <1>5, <1>6 DEF IndInv

\* Every step preserves the invariant.
LEMMA StepInv ==
  ASSUME Parameters, TypeOK, IndInv, [Next]_vars
  PROVE  TypeOK' /\ IndInv'
<1>1. CASE Next
  <2>1. TypeOK' /\ PcInv' /\ QueuedInv' /\ WakeInv' /\ FrontierInv' /\ OrderInv'
    BY <1>1, TypeStep, PcStep, QueuedStep, WakeStep, FrontierStep, OrderStep DEF IndInv
  <2>2. SeenInv'
    BY <1>1, SeenStep, NextRemembers
  <2>3. WholeInv'
    BY <1>1, <2>1, WholeStep DEF IndInv
  <2> QED BY <2>1, <2>2, <2>3 DEF IndInv
<1>2. CASE UNCHANGED vars
  BY <1>2, Stutter
<1> QED BY <1>1, <1>2

\* In every behaviour the row, the tasks, the drives and the history are well formed and
\* satisfy the inductive invariant, for any number of processes, any set of plans and any
\* bounds on tasks, faults, cancellations and answers.
THEOREM Invariance == Spec => [](TypeOK /\ IndInv)
<1>1. Init => TypeOK /\ IndInv
  BY InitTyped, InitInv, ParametersAssumption
<1>2. TypeOK /\ IndInv /\ [Next]_vars => (TypeOK /\ IndInv)'
  BY StepInv, ParametersAssumption
<1> QED BY <1>1, <1>2, PTL DEF Spec

\* One holder means one driver.
LEMMA InvSole ==
  ASSUME IndInv
  PROVE  SoleDriver
<1> SUFFICES ASSUME Orderly, NEW g \in Hosts, NEW h \in Hosts, Driving(g), Driving(h)
             PROVE  g = h
  BY DEF SoleDriver
<1>1. OneToken
  BY DEF IndInv, OrderInv, Ordered
<1>2. "drive" \in Ts /\ g \in Xs /\ h \in Xs /\ Token("drive", g) /\ Token("drive", h)
  BY DEF Ts, Xs, Token
<1> QED BY <1>1, <1>2 DEF OneToken

\* The properties of the row follow.
LEMMA InvRow ==
  ASSUME TypeOK, IndInv
  PROVE  RowInv
<1>1. SleepingHasWake
  BY DEF IndInv, WakeInv, SleepingHasWake
<1>2. ContinuesWhereStopped
  BY DEF IndInv, FrontierInv, Placed, Before, ContinuesWhereStopped
<1>3. SucceededIsWhole
  BY DEF IndInv, WholeInv, Complete, SucceededIsWhole
<1> QED BY <1>1, <1>2, <1>3 DEF RowInv

\* Whatever order requests, workers, sweeps and the reaper write the row in, with whatever
\* stale instances: no sleeper is forgotten unless a pause overwrote its wake, drives that
\* follow each other go on where the run stopped, and while leases hold a run that
\* succeeded has executed all of its plan.
THEOREM RowCorrect == Spec => []RowInv
<1>1. TypeOK /\ IndInv => RowInv
  BY InvRow
<1> QED BY <1>1, Invariance, PTL

\* The conditional UPDATEs of wakeDueRuns and reapOrphanedRuns, with the queue, let one
\* process drive the run at a time as long as leases hold and a pause is answered once.
THEOREM DriverIsSole == Spec => []SoleDriver
<1>1. IndInv => SoleDriver
  BY InvSole
<1> QED BY <1>1, Invariance, PTL
=============================================================================
