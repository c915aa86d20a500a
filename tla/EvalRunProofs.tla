---------------------------- MODULE EvalRunProofs ----------------------------
(***************************************************************************)
(* For any set of items and of drains, any batch and any number of faults: *)
(* a run announces one verdict, over every item, and its settle claim is   *)
(* in somebody's hands unless a process died with it.  Two verdicts has    *)
(* only a synchronous run that the reaper claimed under its request.       *)
(***************************************************************************)
EXTENDS EvalRun, TLAPS

PCs == {"idle", "handle", "count", "look", "claim", "finalize"}
Jobs == {"none", "load", "mark", "execute", "ack", "acked", "failed"}

LEMMA Sizes == MaxFaults \in Nat /\ Items # {}
BY SizesAssumption

LEMMA RunFields ==
  ASSUME run \in Run
  PROVE  /\ run.status \in {"unborn"} \cup LiveStatus \cup FinalStatus
         /\ run.finished \in BOOLEAN /\ run.rolled \in BOOLEAN
         /\ run.aggregate \subseteq Items
BY DEF Run

LEMMA DrainFields ==
  ASSUME drain \in [Drains -> Drain], NEW d \in Drains
  PROVE  drain[d] \in Drain /\ drain[d].pc \in PCs /\ drain[d].job \in [Items -> Jobs]
BY DEF Drain, PCs, Jobs

LEMMA NoDrainTyped ==
  /\ NoDrain \in Drain /\ NoDrain.pc = "idle" /\ NoDrain.job = [i \in Items |-> "none"]
  /\ \A i \in Items : NoDrain.job[i] = "none"
BY DEF NoDrain, Drain

\* Announcing what was owed leaves the sum within its bound.
LEMMA Within ==
  ASSUME NEW v \in Nat, NEW o \in Nat, NEW a \in Nat, v + o <= a
  PROVE  v <= a
OBVIOUS

LEMMA Fewer ==
  ASSUME NEW v \in Nat, NEW o \in Nat, NEW a \in Nat, v + o <= a, NEW p \in Nat, p <= o
  PROVE  v + p <= a
OBVIOUS

LEMMA Announce ==
  ASSUME NEW v \in Nat, NEW o \in Nat, NEW a \in Nat, v + o <= a, NEW p \in Nat, p + 1 = o
  PROVE  v + 1 \in Nat /\ (v + 1) + p <= a
OBVIOUS

\* A run no task of which has been handed out has idle drains.
LEMMA Idle ==
  ASSUME Untouched, NEW d \in Drains
  PROVE  drain[d].pc = "idle" /\ \A i \in Items : drain[d].job[i] = "none" /\ task[i] = "none"
BY NoDrainTyped DEF Untouched

(***************************************************************************)
(* What a step does to the row and to a drain, field by field.             *)
(***************************************************************************)
LEMMA ContinueStep ==
  ASSUME drain \in [Drains -> Drain], NEW d \in Drains, NEW pc \in PCs, Continue(d, pc)
  PROVE  /\ drain' \in [Drains -> Drain] /\ \A e \in Drains \ {d} : drain'[e] = drain[e]
         /\ drain'[d].pc = pc /\ drain'[d].job = drain[d].job
<1> DEFINE s == [drain[d] EXCEPT !.pc = pc]
<1>1. s \in Drain /\ s.pc = pc /\ s.job = drain[d].job
  BY DEF Drain, PCs, Jobs
<1>2. drain' = [drain EXCEPT ![d] = s]
  BY DEF Continue
<1> HIDE DEF s
<1> QED BY <1>1, <1>2

LEMMA JobStep ==
  ASSUME drain \in [Drains -> Drain], NEW d \in Drains, NEW i \in Items, NEW pc,
         NEW next \in Jobs, Step(d, i, pc, next)
  PROVE  /\ drain' \in [Drains -> Drain] /\ \A e \in Drains \ {d} : drain'[e] = drain[e]
         /\ drain'[d].pc = drain[d].pc
         /\ drain[d].job[i] = pc /\ drain'[d].job[i] = next
         /\ \A j \in Items \ {i} : drain'[d].job[j] = drain[d].job[j]
<1> DEFINE job == [drain[d].job EXCEPT ![i] = next]
           s == [drain[d] EXCEPT !.job = job]
<1>0. drain' = [drain EXCEPT ![d] = s] /\ drain[d].job[i] = pc
  BY DEF Step
<1>1. drain[d] \in Drain /\ drain[d].job \in [Items -> Jobs]
  BY DrainFields
<1>2. job \in [Items -> Jobs] /\ job[i] = next
      /\ \A j \in Items \ {i} : job[j] = drain[d].job[j]
  BY <1>1
<1> HIDE DEF job
<1>3. s \in Drain /\ s.pc = drain[d].pc /\ s.job = job
  BY <1>1, <1>2 DEF Drain, Jobs
<1> HIDE DEF s
<1> QED BY <1>0, <1>2, <1>3

\* A drain ends, or loses its process.
LEMMA DropStep ==
  ASSUME drain \in [Drains -> Drain], NEW d \in Drains,
         \/ drain' = [drain EXCEPT ![d] = NoDrain]
         \/ drain' = [drain EXCEPT ![d] = [NoDrain EXCEPT !.pc = "count"]]
  PROVE  /\ drain' \in [Drains -> Drain] /\ \A e \in Drains \ {d} : drain'[e] = drain[e]
         /\ drain'[d].pc \in {"idle", "count"} /\ drain'[d].job = NoDrain.job
         /\ \A i \in Items : drain'[d].job[i] = "none"
<1> DEFINE s == [NoDrain EXCEPT !.pc = "count"]
<1>1. s \in Drain /\ s.pc = "count" /\ s.job = NoDrain.job
  BY NoDrainTyped DEF Drain
<1> HIDE DEF s
<1>2. drain' = [drain EXCEPT ![d] = NoDrain] \/ drain' = [drain EXCEPT ![d] = s]
  BY DEF s
<1>3. PICK t \in {NoDrain, s} : drain' = [drain EXCEPT ![d] = t]
  BY <1>2
<1>4. t \in Drain /\ t.pc \in {"idle", "count"} /\ t.job = NoDrain.job
  BY <1>1, <1>3, NoDrainTyped
<1> QED BY <1>3, <1>4, NoDrainTyped

LEMMA ClaimStep ==
  ASSUME TypeOK, NEW d \in Drains, Claim(d)
  PROVE  /\ drain[d].pc = "idle" /\ drain' \in [Drains -> Drain]
         /\ \A e \in Drains \ {d} : drain'[e] = drain[e]
         /\ drain'[d].pc = "handle" /\ task' \in [Items -> {"none", "queued", "claimed"}]
         /\ \A i \in Items :
              \/ /\ task[i] = "queued" /\ task'[i] = "claimed" /\ drain'[d].job[i] = "load"
              \/ task'[i] = task[i] /\ drain'[d].job[i] = "none"
         /\ \E i \in Items : task[i] = "queued"
<1>0. drain \in [Drains -> Drain] /\ task \in [Items -> {"none", "queued", "claimed"}]
  BY DEF TypeOK
<1>1. PICK C \in (SUBSET {i \in Items : task[i] = "queued"}) \ {{}} :
        /\ task' = [i \in Items |-> IF i \in C THEN "claimed" ELSE task[i]]
        /\ drain' = [drain EXCEPT ![d] =
             [pc |-> "handle", job |-> [i \in Items |-> IF i \in C THEN "load" ELSE "none"]]]
  BY DEF Claim
<1> DEFINE job == [i \in Items |-> IF i \in C THEN "load" ELSE "none"]
           s == [pc |-> "handle", job |-> job]
<1>2. job \in [Items -> Jobs] /\ \A i \in Items : job[i] = IF i \in C THEN "load" ELSE "none"
  BY DEF Jobs
<1>3. drain' = [drain EXCEPT ![d] = [pc |-> "handle", job |-> job]]
  BY <1>1
<1> HIDE DEF job
<1>4. s \in Drain /\ s.pc = "handle" /\ s.job = job
  BY <1>2 DEF Drain, PCs, Jobs
<1>5. drain' = [drain EXCEPT ![d] = s]
  BY <1>3
<1> HIDE DEF s
<1>6. /\ drain' \in [Drains -> Drain] /\ \A e \in Drains \ {d} : drain'[e] = drain[e]
      /\ drain'[d] = s
  BY <1>0, <1>4, <1>5
<1>7. \A i \in C : task[i] = "queued"
  BY <1>1
<1>8. \E i \in Items : task[i] = "queued"
  BY <1>1
<1>9. task' \in [Items -> {"none", "queued", "claimed"}]
      /\ \A i \in Items : task'[i] = IF i \in C THEN "claimed" ELSE task[i]
  BY <1>0, <1>1
<1>10. drain[d].pc = "idle"
  BY DEF Claim
<1>11. \A i \in Items : drain'[d].job[i] = IF i \in C THEN "load" ELSE "none"
  BY <1>2, <1>4, <1>6
<1> QED BY <1>4, <1>6, <1>7, <1>8, <1>9, <1>10, <1>11

\* What a step does to the row.
LEMMA RunStep ==
  ASSUME run \in Run, results \subseteq Items
  PROVE  /\ \A st \in {"unborn"} \cup LiveStatus \cup FinalStatus :
              run' = [run EXCEPT !.status = st] =>
                /\ run' \in Run /\ run'.status = st /\ run'.finished = run.finished
                /\ run'.rolled = run.rolled /\ run'.aggregate = run.aggregate
         /\ run' = [run EXCEPT !.finished = TRUE] =>
              /\ run' \in Run /\ run'.status = run.status /\ run'.finished
              /\ run'.rolled = run.rolled /\ run'.aggregate = run.aggregate
         /\ \A st \in {"failed", "canceled"} :
              run' = [run EXCEPT !.status = st, !.finished = TRUE] =>
                /\ run' \in Run /\ run'.status = st /\ run'.finished
                /\ run'.rolled = run.rolled /\ run'.aggregate = run.aggregate
         /\ run' = Completed =>
              /\ run' \in Run /\ run'.status = "completed" /\ run'.finished
              /\ run'.rolled /\ run'.aggregate = results
<1>1. ASSUME NEW st \in {"unborn"} \cup LiveStatus \cup FinalStatus,
             run' = [run EXCEPT !.status = st]
      PROVE  /\ run' \in Run /\ run'.status = st /\ run'.finished = run.finished
             /\ run'.rolled = run.rolled /\ run'.aggregate = run.aggregate
  BY <1>1 DEF Run
<1>2. ASSUME run' = [run EXCEPT !.finished = TRUE]
      PROVE  /\ run' \in Run /\ run'.status = run.status /\ run'.finished
             /\ run'.rolled = run.rolled /\ run'.aggregate = run.aggregate
  BY <1>2 DEF Run
<1>3. ASSUME NEW st \in {"failed", "canceled"},
             run' = [run EXCEPT !.status = st, !.finished = TRUE]
      PROVE  /\ run' \in Run /\ run'.status = st /\ run'.finished
             /\ run'.rolled = run.rolled /\ run'.aggregate = run.aggregate
  BY <1>3 DEF Run, FinalStatus
<1>4. ASSUME run' = Completed
      PROVE  /\ run' \in Run /\ run'.status = "completed" /\ run'.finished
             /\ run'.rolled /\ run'.aggregate = results
  BY <1>4 DEF Run, FinalStatus, Completed
<1> QED BY <1>1, <1>2, <1>3, <1>4

(***************************************************************************)
(* Type correctness.                                                       *)
(***************************************************************************)
LEMMA TypeStep ==
  ASSUME TypeOK, [Next]_vars
  PROVE  TypeOK'
<1> USE Sizes
<1>0. /\ run \in Run /\ task \in [Items -> {"none", "queued", "claimed"}]
      /\ results \subseteq Items /\ drain \in [Drains -> Drain] /\ faults \in 0..MaxFaults
      /\ verdicts \in Nat
  BY DEF TypeOK
<1>1. ASSUME NEW wait \in BOOLEAN, Start(wait) PROVE TypeOK'
  <2>1. run' \in Run
    BY <1>0, <1>1, RunStep DEF Start, LiveStatus
  <2>2. starter' \in {"enqueue", "sync"} /\ UNCHANGED <<task, results, drain, cancel, reaper, verdicts, overtaken, faults>>
    BY <1>1 DEF Start
  <2> QED BY <2>1, <2>2 DEF TypeOK
<1>2. CASE Request
  <2>1. CASE Enqueue
    BY <2>1 DEF Enqueue, TypeOK
  <2>2. CASE \E i \in Items : SyncItem(i)
    BY <2>2 DEF SyncItem, TypeOK
  <2>3. CASE SyncFinalize
    <3>1. run' \in Run /\ verdicts' \in Nat
      BY <1>0, <2>3, RunStep DEF SyncFinalize, Published
    <3>2. starter' = "done" /\ UNCHANGED <<task, results, drain, cancel, reaper, overtaken, faults>>
      BY <2>3 DEF SyncFinalize
    <3> QED BY <3>1, <3>2 DEF TypeOK
  <2> QED BY <1>2, <2>1, <2>2, <2>3 DEF Request
<1>3. CASE SyncFails
  <2>1. run' \in Run
    BY <1>0, <1>3, RunStep DEF SyncFails, Failed
  <2>3. verdicts' \in Nat /\ faults' \in 0..MaxFaults
    BY <1>0, <1>3 DEF SyncFails
  <2>2. starter' = "done" /\ UNCHANGED <<task, results, drain, cancel, reaper, overtaken>>
    BY <1>3 DEF SyncFails
  <2> QED BY <2>1, <2>2, <2>3 DEF TypeOK
<1>4. ASSUME NEW d \in Drains, Claim(d) PROVE TypeOK'
  <2>1. UNCHANGED <<run, results, starter, cancel, reaper, verdicts, overtaken, faults>>
    BY <1>4 DEF Claim
  <2> QED BY <1>4, <2>1, ClaimStep DEF TypeOK
<1>5. ASSUME NEW d \in Drains, NEW i \in Items,
             JobLoad(d, i) \/ JobMark(d, i) \/ JobExecute(d, i) \/ JobFails(d, i) \/ JobAck(d, i)
      PROVE  TypeOK'
  <2>1. PICK pc \in Jobs, next \in Jobs : Step(d, i, pc, next)
    BY <1>5 DEF Jobs, JobLoad, JobMark, JobExecute, JobFails, JobAck
  <2>2. drain' \in [Drains -> Drain]
    BY <1>0, <2>1, JobStep
  <2>3. CASE JobLoad(d, i)
    BY <2>2, <2>3 DEF JobLoad, TypeOK
  <2>4. CASE JobMark(d, i)
    <3>1. run' \in Run
      BY <1>0, <2>4, RunStep DEF JobMark, LiveStatus
    <3> QED BY <2>2, <2>4, <3>1 DEF JobMark, TypeOK
  <2>5. CASE JobExecute(d, i)
    BY <2>2, <2>5 DEF JobExecute, TypeOK
  <2>6. CASE JobFails(d, i)
    BY <1>0, <2>2, <2>6 DEF JobFails, TypeOK
  <2>7. CASE JobAck(d, i)
    BY <2>2, <2>7 DEF JobAck, TypeOK
  <2> QED BY <1>5, <2>3, <2>4, <2>5, <2>6, <2>7
<1>6. ASSUME NEW d \in Drains, Settle(d) PROVE TypeOK'
  <2>1. CASE Gathered(d)
    BY <1>0, <2>1, DropStep DEF Gathered, TypeOK
  <2>2. CASE SettleCount(d)
    BY <1>0, <2>2, ContinueStep DEF SettleCount, TypeOK, PCs
  <2>3. CASE SettleLook(d)
    BY <1>0, <2>3, ContinueStep DEF SettleLook, TypeOK, PCs
  <2>4. CASE SettleClaim(d)
    <3>1. run' \in Run
      BY <1>0, <2>4, RunStep DEF SettleClaim
    <3>2. drain' \in [Drains -> Drain]
      BY <1>0, <2>4, ContinueStep DEF SettleClaim, PCs
    <3> QED BY <2>4, <3>1, <3>2 DEF SettleClaim, TypeOK
  <2>5. CASE SettleFinalize(d)
    <3>1. run' \in Run /\ verdicts' \in Nat
      BY <1>0, <2>5, RunStep DEF SettleFinalize, Published
    <3>2. drain' \in [Drains -> Drain]
      BY <1>0, <2>5, ContinueStep DEF SettleFinalize, PCs
    <3> QED BY <2>5, <3>1, <3>2 DEF SettleFinalize, TypeOK
  <2> QED BY <1>6, <2>1, <2>2, <2>3, <2>4, <2>5 DEF Settle
<1>7. CASE CancelLoad
  BY <1>7 DEF CancelLoad, TypeOK
<1>8. CASE CancelDiscard
  BY <1>8 DEF CancelDiscard, TypeOK
<1>9. CASE CancelUpdate
  <2>1. run' \in Run
    BY <1>0, <1>9, RunStep DEF CancelUpdate
  <2> QED BY <1>9, <2>1 DEF CancelUpdate, TypeOK
<1>10. CASE Reap
  <2>1. CASE ReapFind
    BY <1>0, <2>1 DEF ReapFind, TypeOK
  <2>2. CASE ReapClaim
    <3>1. run' \in Run
      BY <1>0, <2>2, RunStep DEF ReapClaim
    <3> QED BY <2>2, <3>1 DEF ReapClaim, TypeOK
  <2>3. CASE ReapFinalize
    <3>1. run' \in Run /\ verdicts' \in Nat
      BY <1>0, <2>3, RunStep DEF ReapFinalize, Published
    <3> QED BY <2>3, <3>1 DEF ReapFinalize, TypeOK
  <2>4. CASE ReapFail
    <3>1. run' \in Run
      BY <1>0, <2>4, RunStep DEF ReapFail, Failed
    <3>2. verdicts' \in Nat
      BY <1>0, <2>4 DEF ReapFail
    <3> QED BY <2>4, <3>1, <3>2 DEF ReapFail, TypeOK
  <2> QED BY <1>10, <2>1, <2>2, <2>3, <2>4 DEF Reap
<1>11. ASSUME NEW i \in Items, Lapse(i) PROVE TypeOK'
  BY <1>0, <1>11 DEF Lapse, TypeOK
<1>12. CASE Crash
  <2>1. faults' \in 0..MaxFaults /\ UNCHANGED <<run, task, results, cancel, verdicts, overtaken>>
    BY <1>0, <1>12 DEF Crash
  <2>2. drain' \in [Drains -> Drain]
    BY <1>0, <1>12, NoDrainTyped DEF Crash
  <2>3. starter' \in {starter, "done"} /\ reaper' \in {reaper, "idle"}
    BY <1>12 DEF Crash
  <2> QED BY <2>1, <2>2, <2>3 DEF TypeOK
<1>13. CASE UNCHANGED vars
  BY <1>13 DEF vars, TypeOK
<1> QED
  BY <1>1, <1>2, <1>3, <1>4, <1>5, <1>6, <1>7, <1>8, <1>9, <1>10, <1>11, <1>12, <1>13
  DEF Next, Handle

(***************************************************************************)
(* Who settles.                                                            *)
(***************************************************************************)
LEMMA SettlerStep ==
  ASSUME TypeOK, SettlerInv, [Next]_vars
  PROVE  SettlerInv'
<1>0. /\ run \in Run /\ run.finished \in BOOLEAN /\ run.rolled \in BOOLEAN /\ results \subseteq Items
      /\ drain \in [Drains -> Drain] /\ verdicts \in Nat /\ overtaken \in BOOLEAN
      /\ run.status \in {"unborn"} \cup LiveStatus \cup FinalStatus
      /\ starter \in {"idle", "enqueue", "sync", "done"}
  BY RunFields DEF TypeOK
<1>n. Owed \in Nat /\ Owed' \in Nat /\ Allowed \in Nat /\ Allowed' \in Nat
      /\ verdicts + Owed <= Allowed
  BY DEF Owed, Allowed, SettlerInv
<1>a. Allowed' \in {1, 2} /\ (overtaken' => Allowed' = 2) /\ (overtaken' = overtaken => Allowed' = Allowed)
  BY DEF Allowed
\* What a step leaves announced and owed.
<1>w. ASSUME verdicts' \in Nat, verdicts' + Owed' <= Allowed' PROVE VerdictOnce'
  <2>1. verdicts' <= Allowed'
    BY <1>n, <1>w, Within
  <2> QED BY <2>1 DEF VerdictOnce
<1>l. ASSUME UNCHANGED <<verdicts, overtaken>>, Owed' <= Owed
      PROVE  verdicts' \in Nat /\ verdicts' + Owed' <= Allowed'
  <2>1. verdicts + Owed' <= Allowed
    BY <1>0, <1>n, <1>l, Fewer
  <2>2. verdicts' = verdicts /\ Allowed' = Allowed
    BY <1>a, <1>l
  <2> QED BY <1>0, <2>1, <2>2
<1>v. ASSUME verdicts' = verdicts + 1, overtaken' = overtaken, Owed' + 1 = Owed
      PROVE  verdicts' \in Nat /\ verdicts' + Owed' <= Allowed'
  <2>1. verdicts + 1 \in Nat /\ (verdicts + 1) + Owed' <= Allowed
    BY <1>0, <1>n, <1>v, Announce
  <2>2. Allowed' = Allowed
    BY <1>a, <1>v
  <2> QED BY <1>v, <2>1, <2>2
<1>z. ASSUME verdicts' = 0, Owed' = 0 \/ Owed' = 1 \/ (overtaken' /\ Owed' = 2)
      PROVE  verdicts' \in Nat /\ verdicts' + Owed' <= Allowed'
  <2>1. Owed' = 0 \/ Owed' = 1 \/ (Owed' = 2 /\ Allowed' = 2)
    BY <1>a, <1>z
  <2>2. verdicts' = 0 /\ Allowed' \in {1, 2}
    BY <1>a, <1>z
  <2> QED BY <2>1, <2>2
<1>t. ASSUME NEW d \in Drains, drain[d].pc # "idle" \/ \E i \in Items : drain[d].job[i] # "none"
      PROVE  starter = "done" /\ run.status # "unborn"
  BY <1>t, Idle DEF SettlerInv
<1>q. ASSUME starter # "done"
      PROVE  Untouched /\ \A d \in Drains : ~Settling(d)
  BY <1>q, Idle DEF SettlerInv, Settling
\* Nobody has settled, or is about to, before the run is claimed or over.
<1>f. ASSUME ~run.finished
      PROVE  verdicts = 0 /\ ~overtaken /\ ~ReaperSettles /\ \A d \in Drains : ~Settling(d)
  BY <1>0, <1>f DEF SettlerInv
\* A step of a drain that neither settles nor begins to.
<1>d. ASSUME NEW d \in Drains, starter = "done", \A e \in Drains \ {d} : drain'[e] = drain[e],
             drain'[d].pc # "handle" => drain'[d].job = NoDrain.job,
             Settling(d)' => Settling(d), UNCHANGED <<starter, reaper, verdicts, overtaken>>,
             run'.status # "unborn", run'.finished = run.finished, run'.rolled = run.rolled,
             run'.status = "failed" => run.status = "failed"
      PROVE  SettlerInv'
  <2>1. \A e \in Drains : Settling(e)' => Settling(e)
    BY <1>d DEF Settling
  <2>2. \A e \in Drains : drain'[e].pc # "handle" => drain'[e].job = NoDrain.job
    BY <1>d DEF SettlerInv
  <2>3. ReaperSettles' <=> ReaperSettles
    BY <1>d DEF ReaperSettles
  <2>4. Owed' <= Owed
    BY <1>d, <2>1, <2>3 DEF Owed
  <2>5. VerdictOnce' /\ verdicts' + Owed' <= Allowed'
    BY <1>d, <1>l, <1>w, <2>4
  <2> QED BY <1>d, <2>1, <2>2, <2>3, <2>5 DEF SettlerInv
\* A step beside the drains, by what is announced and owed after it.
<1>b. ASSUME drain' = drain, verdicts' \in Nat,
             verdicts' + Owed' <= Allowed',
             run.finished \/ verdicts' > 0 \/ ReaperSettles' \/ overtaken' \/ run'.rolled
               \/ run'.status = "failed" => run'.finished,
             starter' # "done" => starter # "done" /\ \A i \in Items : task'[i] = "none",
             starter' = "idle" <=> run'.status = "unborn",
             starter' = "idle" => ~run'.finished /\ cancel' = "idle" /\ reaper' = "idle",
             starter' \in {"idle", "enqueue"} =>
               results' = {} /\ ~run'.rolled /\ reaper' \notin {"finalize", "finalizing"}
      PROVE  SettlerInv'
  <2>1. \A e \in Drains : Settling(e)' <=> Settling(e)
    BY <1>b DEF Settling
  <2>2. starter' # "done" => Untouched'
    BY <1>b DEF SettlerInv, Untouched
  <2>3. VerdictOnce'
    BY <1>b, <1>w
  <2>4. \A d \in Drains : drain'[d].pc # "handle" => drain'[d].job = NoDrain.job
    BY <1>b DEF SettlerInv
  <2>5. \A d, e \in Drains : Settling(d)' /\ Settling(e)' => d = e
    BY <2>1 DEF SettlerInv
  <2>6. verdicts' > 0 \/ ReaperSettles' \/ (\E d \in Drains : Settling(d)') => run'.finished
    BY <1>b, <2>1 DEF SettlerInv
  <2> QED BY <1>b, <2>2, <2>3, <2>4, <2>5, <2>6 DEF SettlerInv
\* Who still owes a verdict after it.
<1>e. ASSUME UNCHANGED <<drain, reaper>>
      PROVE  /\ ReaperSettles' <=> ReaperSettles
             /\ starter' = starter => Owed' = Owed
             /\ starter' # "sync" => Owed' <= Owed
             /\ starter = "sync" /\ starter' # "sync" => Owed' + 1 = Owed
  <2>1. (ReaperSettles' <=> ReaperSettles) /\ \A e \in Drains : Settling(e)' <=> Settling(e)
    BY <1>e DEF ReaperSettles, Settling
  <2> QED BY <2>1 DEF Owed
\* A step that leaves the settlers alone.
<1>s. ASSUME UNCHANGED <<drain, verdicts, starter, reaper, overtaken>>, starter # "idle",
             starter # "done" => \A i \in Items : task'[i] = "none",
             starter = "enqueue" => results' = results,
             run'.status # "unborn", run.finished => run'.finished, run'.rolled = run.rolled,
             run'.status = "failed" => run.status = "failed"
      PROVE  SettlerInv'
  <2>1. Owed' = Owed /\ (ReaperSettles' <=> ReaperSettles)
    BY <1>e, <1>s
  <2>2. verdicts' + Owed' <= Allowed'
    BY <1>l, <1>n, <1>s, <2>1
  <2> QED BY <1>0, <1>b, <1>s, <2>1, <2>2 DEF SettlerInv
<1>1. ASSUME NEW wait \in BOOLEAN, Start(wait) PROVE SettlerInv'
  <2>1. /\ run'.status \in LiveStatus /\ run'.finished = run.finished /\ run'.rolled = run.rolled
    BY <1>0, <1>1, RunStep DEF Start, LiveStatus
  <2>2. /\ starter' \in {"enqueue", "sync"} /\ starter = "idle"
        /\ UNCHANGED <<task, results, drain, cancel, reaper, verdicts, overtaken>>
    BY <1>1 DEF Start
  <2>3. ~run.finished /\ reaper = "idle" /\ ~run.rolled /\ results = {}
    BY <2>2 DEF SettlerInv
  <2>4. verdicts = 0 /\ ~overtaken /\ ~ReaperSettles' /\ \A d \in Drains : ~Settling(d)'
    BY <1>f, <2>2, <2>3 DEF ReaperSettles, Settling
  <2>5. Owed' = 0 \/ Owed' = 1
    BY <2>4 DEF Owed
  <2>6. \A i \in Items : task'[i] = "none"
    BY <1>q, <2>2 DEF Untouched
  <2>7. verdicts' \in Nat /\ verdicts' + Owed' <= Allowed'
    BY <1>z, <2>2, <2>4, <2>5
  <2> QED BY <1>b, <2>1, <2>2, <2>3, <2>4, <2>6, <2>7 DEF LiveStatus
<1>2. CASE Enqueue
  <2>1. starter' = "done" /\ starter = "enqueue"
        /\ UNCHANGED <<run, results, drain, cancel, reaper, verdicts, overtaken>>
    BY <1>2 DEF Enqueue
  <2>2. Owed' <= Owed /\ (ReaperSettles' <=> ReaperSettles)
    BY <1>e, <2>1
  <2>3. verdicts' + Owed' <= Allowed'
    BY <1>l, <2>1, <2>2
  <2> QED BY <1>0, <1>b, <2>1, <2>2, <2>3 DEF SettlerInv
<1>3. ASSUME NEW i \in Items, SyncItem(i) PROVE SettlerInv'
  <2>1. UNCHANGED <<run, task, drain, starter, cancel, reaper, verdicts, overtaken>> /\ starter = "sync"
    BY <1>3 DEF SyncItem
  <2>2. run.status # "unborn" /\ \A j \in Items : task[j] = "none"
    BY <1>q, <2>1 DEF SettlerInv, Untouched
  <2> QED BY <1>s, <2>1, <2>2
\* The request announces what it owes.
<1>4. CASE SyncFinalize \/ SyncFails
  <2>1. run'.finished /\ run'.status # "unborn"
    BY <1>0, <1>4, RunStep DEF SyncFinalize, SyncFails, Published, Failed
  <2>2. /\ starter = "sync" /\ starter' = "done" /\ verdicts' = verdicts + 1
        /\ UNCHANGED <<drain, reaper, overtaken>>
    BY <1>4 DEF SyncFinalize, SyncFails, Published
  <2>3. Owed' + 1 = Owed
    BY <1>e, <2>2
  <2>4. verdicts' \in Nat /\ verdicts' + Owed' <= Allowed'
    BY <1>v, <2>2, <2>3
  <2> QED BY <1>b, <2>1, <2>2, <2>4
<1>5. ASSUME NEW d \in Drains, Claim(d) PROVE SettlerInv'
  <2>1. UNCHANGED <<run, starter, cancel, reaper, verdicts, overtaken>>
    BY <1>5 DEF Claim
  <2>2. /\ \A e \in Drains \ {d} : drain'[e] = drain[e]
        /\ drain'[d].pc = "handle" /\ \E i \in Items : task[i] = "queued"
    BY <1>5, ClaimStep
  <2>3. starter = "done" /\ run.status # "unborn"
    BY <1>q, <2>2 DEF Untouched, SettlerInv
  <2> QED BY <1>d, <2>1, <2>2, <2>3 DEF Settling
<1>6. ASSUME NEW d \in Drains, NEW i \in Items,
             JobLoad(d, i) \/ JobMark(d, i) \/ JobExecute(d, i) \/ JobFails(d, i) \/ JobAck(d, i)
      PROVE  SettlerInv'
  <2>1. PICK pc \in Jobs \ {"none"}, next \in Jobs : Step(d, i, pc, next)
    BY <1>6 DEF Jobs, JobLoad, JobMark, JobExecute, JobFails, JobAck
  <2>2. /\ \A e \in Drains \ {d} : drain'[e] = drain[e]
        /\ drain'[d].pc = drain[d].pc /\ drain[d].job[i] # "none"
    BY <1>0, <2>1, JobStep
  <2>3. drain[d].pc = "handle"
    BY <2>2, NoDrainTyped DEF SettlerInv
  <2>4. /\ run'.finished = run.finished /\ run'.status # "unborn" /\ run'.rolled = run.rolled
        /\ run'.status = "failed" => run.status = "failed"
    <3>1. CASE JobMark(d, i)
      BY <1>0, <3>1, RunStep DEF JobMark, LiveStatus
    <3>2. CASE ~JobMark(d, i)
      BY <1>6, <1>t, <2>2, <3>2 DEF JobLoad, JobExecute, JobFails, JobAck
    <3> QED BY <3>1, <3>2
  <2>5. UNCHANGED <<starter, reaper, verdicts, overtaken>>
    BY <1>6 DEF JobLoad, JobMark, JobExecute, JobFails, JobAck
  <2> QED BY <1>d, <1>t, <2>2, <2>3, <2>4, <2>5 DEF Settling
<1>7. ASSUME NEW d \in Drains, Gathered(d) PROVE SettlerInv'
  <2>1. /\ \A e \in Drains \ {d} : drain'[e] = drain[e]
        /\ drain'[d].pc \in {"idle", "count"} /\ drain'[d].job = NoDrain.job
    BY <1>0, <1>7, DropStep DEF Gathered
  <2>2. /\ starter = "done" /\ run.status # "unborn"
        /\ UNCHANGED <<run, starter, reaper, verdicts, overtaken>>
    BY <1>7, <1>t DEF Gathered
  <2> QED BY <1>d, <2>1, <2>2 DEF Settling
<1>8. ASSUME NEW d \in Drains, SettleCount(d) \/ SettleLook(d) PROVE SettlerInv'
  <2>1. PICK pc \in PCs \ {"handle", "finalize"} : Continue(d, pc)
    BY <1>8 DEF SettleCount, SettleLook, PCs
  <2>2. /\ \A e \in Drains \ {d} : drain'[e] = drain[e]
        /\ drain'[d].pc = pc /\ drain'[d].job = drain[d].job
    BY <1>0, <2>1, ContinueStep
  <2>3. /\ starter = "done" /\ run.status # "unborn"
        /\ UNCHANGED <<run, starter, reaper, verdicts, overtaken>>
    BY <1>8, <1>t DEF SettleCount, SettleLook
  <2>4. drain[d].job = NoDrain.job
    BY <1>8 DEF SettleCount, SettleLook, SettlerInv
  <2> QED BY <1>d, <2>1, <2>2, <2>3, <2>4 DEF Settling
<1>9. ASSUME NEW d \in Drains, SettleClaim(d) PROVE SettlerInv'
  <2>1. run'.finished /\ run'.status = run.status /\ run'.rolled = run.rolled
    BY <1>0, <1>9, RunStep DEF SettleClaim
  <2>2. /\ \A e \in Drains \ {d} : drain'[e] = drain[e]
        /\ drain'[d].pc = (IF Unclaimed THEN "finalize" ELSE "idle")
        /\ drain'[d].job = drain[d].job
    BY <1>0, <1>9, ContinueStep DEF SettleClaim, PCs
  <2>3. /\ starter = "done" /\ run.status # "unborn"
        /\ UNCHANGED <<starter, reaper, verdicts, overtaken>>
    BY <1>9, <1>t DEF SettleClaim
  <2>4. drain[d].job = NoDrain.job
    BY <1>9 DEF SettleClaim, SettlerInv
  <2>5. CASE Unclaimed
    <3>1. ~ReaperSettles /\ (\A e \in Drains : ~Settling(e)) /\ verdicts = 0
      BY <1>f, <2>5 DEF Unclaimed
    <3>2. ~ReaperSettles' /\ \A e \in Drains : Settling(e)' => e = d
      BY <2>2, <2>3, <3>1 DEF ReaperSettles, Settling
    <3>3. \A e \in Drains : drain'[e].pc # "handle" => drain'[e].job = NoDrain.job
      BY <2>2, <2>4 DEF SettlerInv
    <3>4. Owed' = 0 \/ Owed' = 1
      BY <2>3, <3>2 DEF Owed
    <3>5. VerdictOnce' /\ verdicts' + Owed' <= Allowed'
      BY <1>w, <1>z, <2>3, <3>1, <3>4
    <3> QED BY <2>1, <2>3, <3>1, <3>2, <3>3, <3>5 DEF SettlerInv
  <2>6. CASE ~Unclaimed
    <3>1. run'.finished = run.finished
      BY <1>0, <2>1, <2>6 DEF Unclaimed
    <3> QED BY <1>d, <2>1, <2>2, <2>3, <2>4, <2>6, <3>1 DEF Settling
  <2> QED BY <2>5, <2>6
<1>10. ASSUME NEW d \in Drains, SettleFinalize(d) PROVE SettlerInv'
  <2>1. run'.finished /\ run'.status = "completed"
    BY <1>0, <1>10, RunStep DEF SettleFinalize, Published
  <2>2. /\ \A e \in Drains \ {d} : drain'[e] = drain[e]
        /\ drain'[d].pc = "idle" /\ drain'[d].job = drain[d].job
    BY <1>0, <1>10, ContinueStep DEF SettleFinalize, PCs
  <2>3. /\ starter = "done" /\ UNCHANGED <<starter, reaper, overtaken>> /\ verdicts' = verdicts + 1
    BY <1>10, <1>t DEF SettleFinalize, Published
  <2>4. Settling(d) /\ drain[d].job = NoDrain.job
    BY <1>10 DEF SettleFinalize, Settling, SettlerInv
  <2>5. \A e \in Drains : Settling(e) => e = d
    BY <2>4 DEF SettlerInv
  <2>6. (ReaperSettles' <=> ReaperSettles) /\ \A e \in Drains : ~Settling(e)'
    BY <2>2, <2>3, <2>5 DEF ReaperSettles, Settling
  <2>7. \A e \in Drains : drain'[e].pc # "handle" => drain'[e].job = NoDrain.job
    BY <2>2, <2>4 DEF SettlerInv
  <2>8. Owed' + 1 = Owed
    BY <2>3, <2>4, <2>6 DEF Owed
  <2>9. VerdictOnce' /\ verdicts' + Owed' <= Allowed'
    BY <1>v, <1>w, <2>3, <2>8
  <2> QED BY <2>1, <2>3, <2>6, <2>7, <2>9 DEF SettlerInv
<1>11. CASE CancelLoad \/ CancelDiscard
  <2>1. /\ UNCHANGED <<run, results, drain, starter, reaper, verdicts, overtaken>>
        /\ \A i \in Items : task'[i] = task[i] \/ task'[i] = "none"
    BY <1>11 DEF CancelLoad, CancelDiscard
  <2>2. starter # "idle" /\ run.status # "unborn"
    BY <1>11 DEF CancelLoad, CancelDiscard, SettlerInv, Live, LiveStatus
  <2> QED BY <1>q, <1>s, <2>1, <2>2 DEF Untouched
<1>12. CASE CancelUpdate
  <2>1. run'.finished /\ run'.status = "canceled" /\ run'.rolled = run.rolled
    BY <1>0, <1>12, RunStep DEF CancelUpdate
  <2>2. UNCHANGED <<task, results, drain, starter, reaper, verdicts, overtaken>> /\ starter # "idle"
    BY <1>12 DEF CancelUpdate, SettlerInv
  <2> QED BY <1>q, <1>s, <2>1, <2>2 DEF Untouched
<1>13. CASE ReapFind
  <2>1. /\ UNCHANGED <<run, task, results, drain, starter, cancel, verdicts, overtaken>>
        /\ reaper' \in {"finalize", "fail"} /\ (reaper' = "finalize" => results = Items)
        /\ ~ReaperSettles /\ ~ReaperSettles'
    BY <1>13 DEF ReapFind, ReaperSettles
  <2>2. starter # "idle" /\ run.status # "unborn"
    BY <1>13 DEF ReapFind, Abandoned, Live, LiveStatus, SettlerInv
  <2>3. \A e \in Drains : Settling(e)' <=> Settling(e)
    BY <2>1 DEF Settling
  <2>4. Owed' = Owed
    BY <2>1, <2>3 DEF Owed
  <2>5. verdicts' \in Nat /\ verdicts' + Owed' <= Allowed'
    BY <1>l, <1>n, <2>1, <2>4
  <2>6. starter # "done" => \A i \in Items : task'[i] = "none"
    BY <1>q, <2>1 DEF Untouched
  <2>7. starter = "enqueue" => results = {} /\ ~run.rolled /\ reaper' # "finalize"
    BY <2>1, Sizes DEF SettlerInv
  <2>8. run.finished \/ verdicts' > 0 \/ overtaken' \/ run'.rolled \/ run'.status = "failed"
          => run'.finished
    BY <2>1 DEF SettlerInv
  <2> QED BY <1>b, <2>1, <2>2, <2>5, <2>6, <2>7, <2>8
<1>14. CASE ReapClaim
  <2>1. run'.finished /\ run'.status = run.status /\ run'.rolled = run.rolled
    BY <1>0, <1>14, RunStep DEF ReapClaim
  <2>2. /\ UNCHANGED <<task, results, drain, starter, cancel, verdicts>> /\ ~ReaperSettles
        /\ reaper' \in {"idle", "failing", "finalizing"}
        /\ reaper' = "finalizing" => reaper = "finalize"
    BY <1>14 DEF ReapClaim, ReaperSettles
  <2>3. starter # "idle" /\ run.status # "unborn"
    BY <1>14 DEF ReapClaim, SettlerInv
  <2>4. starter # "done" => \A i \in Items : task'[i] = "none"
    BY <1>q, <2>2 DEF Untouched
  <2>5. \A e \in Drains : Settling(e)' <=> Settling(e)
    BY <2>2 DEF Settling
  <2>6. starter = "enqueue" => results' = {} /\ ~run'.rolled /\ reaper' # "finalizing"
    BY <2>1, <2>2 DEF SettlerInv
  <2>7. verdicts' + Owed' <= Allowed'
    <3>1. CASE Unclaimed
      <4>1. verdicts' = 0 /\ (overtaken' <=> starter' = "sync") /\ \A e \in Drains : ~Settling(e)'
        BY <1>f, <1>14, <2>2, <2>5, <3>1 DEF ReapClaim, Unclaimed
      <4>2. Owed' = 0 \/ Owed' = 1 \/ (overtaken' /\ Owed' = 2)
        BY <4>1 DEF Owed
      <4> QED BY <1>z, <4>1, <4>2
    <3>2. CASE ~Unclaimed
      <4>1. ~ReaperSettles' /\ overtaken' = overtaken
        BY <1>0, <1>14, <3>2 DEF ReapClaim, ReaperSettles
      <4>2. Owed' = Owed
        BY <2>2, <2>5, <4>1 DEF Owed
      <4> QED BY <1>l, <1>n, <2>2, <4>1, <4>2
    <3> QED BY <3>1, <3>2
  <2> QED BY <1>0, <1>b, <2>1, <2>2, <2>3, <2>4, <2>6, <2>7
<1>15. CASE ReapFinalize \/ ReapFail
  <2>1. run'.finished /\ run'.status # "unborn" /\ (ReapFail => run'.rolled = run.rolled)
    BY <1>0, <1>15, RunStep DEF ReapFinalize, ReapFail, Published, Failed
  <2>2. /\ UNCHANGED <<task, results, drain, starter, cancel, overtaken>> /\ reaper' = "idle"
        /\ verdicts' = verdicts + 1 /\ ReaperSettles /\ ~ReaperSettles'
        /\ ReapFinalize => reaper = "finalizing"
    BY <1>15 DEF ReapFinalize, ReapFail, Published, ReaperSettles
  <2>3. starter # "idle" /\ (starter = "enqueue" => results = {} /\ ~run.rolled /\ ~ReapFinalize)
    BY <2>2 DEF SettlerInv, ReaperSettles
  <2>4. \A e \in Drains : Settling(e)' <=> Settling(e)
    BY <2>2 DEF Settling
  <2>5. Owed' + 1 = Owed
    BY <2>2, <2>4 DEF Owed
  <2>6. verdicts' \in Nat /\ verdicts' + Owed' <= Allowed'
    BY <1>v, <2>2, <2>5
  <2>7. starter # "done" => \A i \in Items : task'[i] = "none"
    BY <1>q, <2>2 DEF Untouched
  <2> QED BY <1>15, <1>b, <2>1, <2>2, <2>3, <2>6, <2>7
<1>16. ASSUME NEW i \in Items, Lapse(i) PROVE SettlerInv'
  <2>1. UNCHANGED <<run, results, drain, starter, reaper, verdicts, overtaken>> /\ task[i] = "claimed"
    BY <1>16 DEF Lapse
  <2>2. starter = "done" /\ run.status # "unborn"
    BY <1>q, <2>1 DEF Untouched, SettlerInv
  <2> QED BY <1>s, <2>1, <2>2
<1>17. CASE Crash
  <2>0. UNCHANGED <<run, task, results, cancel, verdicts, overtaken>>
    BY <1>17 DEF Crash
  <2>1. ASSUME NEW d \in Drains, drain[d].pc # "idle", drain' = [drain EXCEPT ![d] = NoDrain],
               UNCHANGED <<starter, reaper>>
        PROVE  SettlerInv'
    <3>1. /\ \A e \in Drains \ {d} : drain'[e] = drain[e]
          /\ drain'[d].pc # "finalize" /\ drain'[d].job = NoDrain.job
      BY <1>0, <2>1, DropStep
    <3> QED BY <1>d, <1>t, <2>0, <2>1, <3>1 DEF Settling
  <2>2. CASE starter \in {"enqueue", "sync"} /\ starter' = "done" /\ UNCHANGED <<drain, reaper>>
    <3>1. Owed' <= Owed /\ (ReaperSettles' <=> ReaperSettles)
      BY <1>e, <2>2
    <3>2. verdicts' + Owed' <= Allowed'
      BY <1>l, <2>0, <3>1
    <3> QED BY <1>0, <1>b, <2>0, <2>2, <3>1, <3>2 DEF SettlerInv
  <2>3. CASE reaper # "idle" /\ reaper' = "idle" /\ UNCHANGED <<drain, starter>>
    <3>1. ~ReaperSettles' /\ \A e \in Drains : Settling(e)' <=> Settling(e)
      BY <2>3 DEF ReaperSettles, Settling
    <3>2. Owed' <= Owed
      BY <2>3, <3>1 DEF Owed
    <3>3. verdicts' + Owed' <= Allowed'
      BY <1>l, <2>0, <3>2
    <3>4. starter # "done" => \A i \in Items : task'[i] = "none"
      BY <1>q, <2>0 DEF Untouched
    <3> QED BY <1>0, <1>b, <2>0, <2>3, <3>1, <3>3, <3>4 DEF SettlerInv
  <2> QED BY <1>17, <2>1, <2>2, <2>3 DEF Crash
<1>18. CASE UNCHANGED vars
  <2>1. UNCHANGED <<run, results, drain, task, starter, cancel, reaper, verdicts, overtaken>>
    BY <1>18 DEF vars
  <2>2. Owed' = Owed /\ (ReaperSettles' <=> ReaperSettles)
    BY <1>e, <2>1
  <2>3. verdicts' + Owed' <= Allowed'
    BY <1>l, <1>n, <2>1, <2>2
  <2>4. starter # "done" => \A i \in Items : task'[i] = "none"
    BY <1>q, <2>1 DEF Untouched
  <2> QED BY <1>0, <1>b, <2>1, <2>2, <2>3, <2>4 DEF SettlerInv
<1> QED
  BY <1>1, <1>2, <1>3, <1>4, <1>5, <1>6, <1>7, <1>8, <1>9, <1>10, <1>11, <1>12, <1>13, <1>14,
     <1>15, <1>16, <1>17, <1>18
  DEF Next, Handle, Settle, Request, Reap

(***************************************************************************)
(* No item gets lost.                                                      *)
(***************************************************************************)
LEMMA WholeStep ==
  ASSUME TypeOK, SettlerInv, WholeInv, [Next]_vars
  PROVE  WholeInv'
<1> SUFFICES ASSUME cancel' = "idle" PROVE WholeInv'
  BY DEF WholeInv
<1>0. /\ run \in Run /\ results \subseteq Items /\ drain \in [Drains -> Drain]
      /\ task \in [Items -> {"none", "queued", "claimed"}]
      /\ run.status \in {"unborn"} \cup LiveStatus \cup FinalStatus
      /\ starter \in {"idle", "enqueue", "sync", "done"}
  BY RunFields DEF TypeOK
<1>c. cancel = "idle"
  <2>1. ~CancelDiscard /\ ~CancelUpdate /\ ~CancelLoad
    BY DEF CancelLoad, CancelDiscard, CancelUpdate
  <2>2. CASE \E d \in Drains : Claim(d) \/ Settle(d)
    BY <2>2 DEF Claim, Settle, Gathered, SettleCount, SettleLook, SettleClaim, SettleFinalize
  <2>3. CASE \E d \in Drains, i \in Items : JobLoad(d, i) \/ JobMark(d, i) \/ JobExecute(d, i)
                                              \/ JobAck(d, i) \/ JobFails(d, i)
    BY <2>3 DEF JobLoad, JobMark, JobExecute, JobAck, JobFails
  <2>4. CASE Request \/ SyncFails \/ \E wait \in BOOLEAN : Start(wait)
    BY <2>4 DEF Request, Enqueue, SyncItem, SyncFinalize, SyncFails, Start
  <2>5. CASE Reap
    BY <2>5 DEF Reap, ReapFind, ReapClaim, ReapFinalize, ReapFail
  <2>6. CASE Crash \/ (\E i \in Items : Lapse(i)) \/ UNCHANGED vars
    BY <2>6 DEF Crash, Lapse, vars
  <2> QED BY <2>1, <2>2, <2>3, <2>4, <2>5, <2>6 DEF Next, Handle
<1>t. ASSUME NEW d \in Drains, drain[d].pc # "idle" \/ \E i \in Items : drain[d].job[i] # "none"
      PROVE  ~Untouched
  BY <1>t, Idle
\* A dropped run stays dropped until the request rolls it up.
<1>k. ASSUME Dropped, run.finished => run'.finished, run'.rolled = run.rolled,
             reaper' # "finalizing", \A d \in Drains : Settling(d)' => Settling(d),
             run'.status # "canceled"
      PROVE  WholeInv'
  BY <1>k DEF Dropped, WholeInv
<1>x. CASE Dropped
  <2>0. run.finished /\ ~run.rolled /\ reaper # "finalizing" /\ \A d \in Drains : ~Settling(d)
    BY <1>x DEF Dropped
  <2>1. run.status # "canceled" /\ starter # "idle"
    BY <1>c, <2>0 DEF WholeInv, SettlerInv
  <2>2. CASE Start(TRUE) \/ Start(FALSE) \/ ReapFind \/ ReapFinalize
    BY <2>0, <2>1, <2>2 DEF Start, ReapFind, ReapFinalize
  <2>3. CASE Enqueue \/ \E i \in Items : SyncItem(i) \/ Lapse(i)
    <3>1. UNCHANGED <<run, drain, reaper>>
      BY <2>3 DEF Enqueue, SyncItem, Lapse
    <3> QED BY <1>k, <1>x, <2>0, <2>1, <3>1 DEF Settling
  <2>4. CASE SyncFinalize
    <3>1. run'.status = "completed" /\ run'.aggregate = results
      BY <1>0, <2>4, RunStep DEF SyncFinalize, Published
    <3>2. starter = "sync" /\ results = Items /\ UNCHANGED <<task, results, drain, reaper>>
      BY <2>4 DEF SyncFinalize
    <3>3. Untouched /\ Untouched'
      BY <3>2 DEF SettlerInv, Untouched
    <3>4. \A d \in Drains, i \in Items : drain'[d].job[i] # "ack"
      BY <3>2, <3>3, Idle
    <3> QED BY <3>1, <3>2, <3>3, <3>4 DEF WholeInv
  <2>5. CASE SyncFails \/ ReapFail
    <3>1. run'.status = "failed" /\ run'.finished /\ run'.rolled = run.rolled
      BY <1>0, <2>5, RunStep DEF SyncFails, ReapFail, Failed
    <3>2. reaper' # "finalizing" /\ UNCHANGED drain
      BY <2>0, <2>5 DEF SyncFails, ReapFail
    <3> QED BY <1>k, <1>x, <3>1, <3>2 DEF Settling
  <2>6. ASSUME NEW d \in Drains, Claim(d) PROVE WholeInv'
    <3>1. /\ \A e \in Drains \ {d} : drain'[e] = drain[e]
          /\ drain'[d].pc = "handle" /\ UNCHANGED <<run, reaper>>
      BY <2>6, ClaimStep DEF Claim
    <3>2. \A e \in Drains : Settling(e)' => Settling(e)
      BY <3>1 DEF Settling
    <3> QED BY <1>k, <1>x, <2>0, <2>1, <3>1, <3>2
  <2>7. ASSUME NEW d \in Drains, NEW i \in Items,
               JobLoad(d, i) \/ JobMark(d, i) \/ JobExecute(d, i) \/ JobFails(d, i) \/ JobAck(d, i)
        PROVE  WholeInv'
    <3>1. PICK pc \in Jobs, next \in Jobs : Step(d, i, pc, next)
      BY <2>7 DEF Jobs, JobLoad, JobMark, JobExecute, JobFails, JobAck
    <3>2. /\ \A e \in Drains \ {d} : drain'[e] = drain[e]
          /\ drain'[d].pc = drain[d].pc
      BY <1>0, <3>1, JobStep
    <3>3. run'.finished = run.finished /\ run'.rolled = run.rolled /\ run'.status # "canceled"
      <4>1. CASE JobMark(d, i)
        BY <1>0, <4>1, RunStep DEF JobMark, LiveStatus
      <4>2. CASE ~JobMark(d, i)
        BY <2>1, <2>7, <4>2 DEF JobLoad, JobExecute, JobFails, JobAck
      <4> QED BY <4>1, <4>2
    <3>4. reaper' = reaper
      BY <2>7 DEF JobLoad, JobMark, JobExecute, JobFails, JobAck
    <3>5. \A e \in Drains : Settling(e)' => Settling(e)
      BY <3>2 DEF Settling
    <3> QED BY <1>k, <1>x, <2>0, <3>3, <3>4, <3>5
  <2>8. ASSUME NEW d \in Drains, Gathered(d) PROVE WholeInv'
    <3>1. /\ \A e \in Drains \ {d} : drain'[e] = drain[e]
          /\ drain'[d].pc \in {"idle", "count"} /\ UNCHANGED <<run, reaper>>
      BY <1>0, <2>8, DropStep DEF Gathered
    <3>2. \A e \in Drains : Settling(e)' => Settling(e)
      BY <3>1 DEF Settling
    <3> QED BY <1>k, <1>x, <2>0, <2>1, <3>1, <3>2
  <2>9. ASSUME NEW d \in Drains, SettleCount(d) \/ SettleLook(d) \/ SettleClaim(d) PROVE WholeInv'
    <3>1. PICK pc \in PCs \ {"finalize"} : Continue(d, pc)
      BY <2>0, <2>9 DEF SettleCount, SettleLook, SettleClaim, PCs, Unclaimed
    <3>2. /\ \A e \in Drains \ {d} : drain'[e] = drain[e]
          /\ drain'[d].pc = pc
      BY <1>0, <3>1, ContinueStep
    <3>3. run'.finished /\ run'.rolled = run.rolled /\ run'.status = run.status /\ reaper' = reaper
      BY <1>0, <2>0, <2>9, RunStep DEF SettleCount, SettleLook, SettleClaim
    <3>4. \A e \in Drains : Settling(e)' => Settling(e)
      BY <3>1, <3>2 DEF Settling
    <3> QED BY <1>k, <1>x, <2>0, <2>1, <3>3, <3>4
  <2>10. ASSUME NEW d \in Drains, SettleFinalize(d) PROVE WholeInv'
    BY <2>0, <2>10 DEF SettleFinalize, Settling
  <2>11. CASE ReapClaim
    <3>1. run'.finished /\ run'.status = run.status /\ run'.rolled = run.rolled
      BY <1>0, <2>11, RunStep DEF ReapClaim
    <3>2. reaper' = "idle" /\ UNCHANGED drain
      BY <2>0, <2>11 DEF ReapClaim, Unclaimed
    <3> QED BY <1>k, <1>x, <2>1, <3>1, <3>2 DEF Settling
  <2>12. CASE Crash
    <3>0. run' = run /\ reaper' \in {reaper, "idle"}
      BY <2>12 DEF Crash
    <3>1. ASSUME NEW d \in Drains, drain' = [drain EXCEPT ![d] = NoDrain] PROVE WholeInv'
      <4>1. \A e \in Drains : Settling(e)' => Settling(e)
        BY <1>0, <3>1, DropStep DEF Settling
      <4> QED BY <1>k, <1>x, <2>0, <2>1, <3>0, <4>1
    <3>2. CASE drain' = drain
      BY <1>k, <1>x, <2>0, <2>1, <3>0, <3>2 DEF Settling
    <3> QED BY <2>12, <3>1, <3>2 DEF Crash
  <2>13. CASE UNCHANGED vars
    <3>1. UNCHANGED <<run, drain, reaper>>
      BY <2>13 DEF vars
    <3> QED BY <1>k, <1>x, <2>0, <2>1, <3>1 DEF Settling
  <2>14. ~CancelDiscard /\ ~CancelUpdate /\ ~CancelLoad
    BY DEF CancelLoad, CancelDiscard, CancelUpdate
  <2> QED
    BY <2>2, <2>3, <2>4, <2>5, <2>6, <2>7, <2>8, <2>9, <2>10, <2>11, <2>12, <2>13, <2>14
    DEF Next, Handle, Settle, Request, Reap
<1> SUFFICES ASSUME ~Dropped PROVE WholeInv'
  BY <1>x
<1>w. /\ run.status # "canceled"
      /\ run.rolled => run.aggregate = Items
      /\ Untouched \/ \A i \in Items : i \in results \/ task[i] # "none"
      /\ \A d \in Drains, i \in Items : drain[d].job[i] = "ack" => i \in results
      /\ (\E d \in Drains : AboutToSettle(d)) \/ reaper \in {"finalize", "finalizing"}
           \/ run.status = "completed" => results = Items
      /\ reaper = "failing" \/ run.status = "failed" => Untouched
  BY <1>c DEF WholeInv
<1>u. ASSUME ~Untouched
      PROVE  /\ starter = "done" /\ run.status \in LiveStatus \cup {"completed"}
             /\ reaper # "failing"
             /\ \A i \in Items : i \in results \/ task[i] # "none"
  BY <1>0, <1>u, <1>w DEF SettlerInv, FinalStatus
<1>q. ASSUME Untouched, NEW d \in Drains
      PROVE  ~AboutToSettle(d) /\ \A i \in Items : drain[d].job[i] = "none"
  BY <1>q, Idle DEF AboutToSettle
\* A step of a drain that leaves the row alone, or makes the run live.
<1>d. ASSUME NEW d \in Drains, ~Untouched, \A e \in Drains \ {d} : drain'[e] = drain[e],
             UNCHANGED <<starter, reaper>>, results \subseteq results', results' \subseteq Items,
             AboutToSettle(d)' => AboutToSettle(d) \/ results' = Items,
             \A i \in Items : drain'[d].job[i] = "ack" => drain[d].job[i] = "ack" \/ i \in results',
             \A i \in Items : task'[i] = "none" => task[i] = "none" \/ i \in results,
             run'.status = run.status \/ run'.status \in LiveStatus,
             run'.rolled = run.rolled, run'.aggregate = run.aggregate
      PROVE  WholeInv'
  <2>1. \A i \in Items : i \in results' \/ task'[i] # "none"
    BY <1>d, <1>u
  <2>2. \A e \in Drains, i \in Items : drain'[e].job[i] = "ack" => i \in results'
    BY <1>w, <1>d DEF WholeInv
  <2>3. run'.status \in LiveStatus \cup {"completed"} /\ starter' = "done"
        /\ reaper' # "failing"
    BY <1>d, <1>u
  <2>4. (\E e \in Drains : AboutToSettle(e)') => results' = Items
    BY <1>w, <1>d DEF AboutToSettle, WholeInv
  <2>5. reaper' \in {"finalize", "finalizing"} \/ run'.status = "completed" => results' = Items
    BY <1>w, <1>d DEF WholeInv, LiveStatus
  <2>6. run'.rolled => run'.aggregate = Items
    BY <1>w, <1>d DEF WholeInv
  <2> QED BY <2>1, <2>2, <2>3, <2>4, <2>5, <2>6 DEF WholeInv, LiveStatus
\* A step beside the drains that leaves the tasks alone.
<1>b. ASSUME UNCHANGED <<drain, task>>, results \subseteq results', results' \subseteq Items,
             reaper' \in {"finalize", "finalizing"} \/ run'.status = "completed" => results' = Items,
             reaper' = "failing" \/ run'.status = "failed" => Untouched,
             run'.status # "canceled", run'.rolled => run'.aggregate = Items
      PROVE  WholeInv'
  <2>1. Untouched' <=> Untouched
    BY <1>b DEF Untouched
  <2>2. \A d \in Drains : AboutToSettle(d)' <=> AboutToSettle(d)
    BY <1>b DEF AboutToSettle
  <2> QED BY <1>b, <1>w, <2>1, <2>2 DEF WholeInv
<1>1. ASSUME NEW wait \in BOOLEAN, Start(wait) PROVE WholeInv'
  <2>1. run'.status \in LiveStatus /\ run'.finished = run.finished /\ run'.rolled = run.rolled
    BY <1>0, <1>1, RunStep DEF Start, LiveStatus
  <2>2. UNCHANGED <<task, results, drain, reaper>> /\ starter = "idle"
    BY <1>1 DEF Start
  <2>3. reaper = "idle" /\ ~run.finished /\ ~run.rolled
    BY <2>2 DEF SettlerInv
  <2> QED BY <1>0, <1>b, <2>1, <2>2, <2>3 DEF LiveStatus
<1>2. CASE Enqueue
  <2>1. UNCHANGED <<run, drain, results, reaper>> /\ starter = "enqueue" /\ starter' = "done"
        /\ \A i \in Items : task'[i] = "queued"
    BY <1>2 DEF Enqueue
  <2>2. Untouched /\ reaper \notin {"finalize", "finalizing"}
    BY <2>1 DEF SettlerInv
  <2>3. run.status # "failed" /\ reaper # "failing"
    <3>1. ~run.finished
      BY <1>q, <2>1, <2>2 DEF Dropped, SettlerInv, AboutToSettle, Settling
    <3> QED BY <3>1 DEF SettlerInv, ReaperSettles
  <2>4. \A d \in Drains : ~AboutToSettle(d)' /\ \A i \in Items : drain'[d].job[i] # "ack"
    BY <1>q, <2>1, <2>2 DEF AboutToSettle
  <2> QED BY <1>w, <2>1, <2>2, <2>3, <2>4 DEF WholeInv
<1>3. ASSUME NEW i \in Items, SyncItem(i) PROVE WholeInv'
  <2>1. UNCHANGED <<run, task, drain, starter, reaper>> /\ results' = results \cup {i}
    BY <1>3 DEF SyncItem
  <2>2. results \subseteq results' /\ results' \subseteq Items /\ (results = Items => results' = Items)
    BY <1>0, <2>1
  <2> QED BY <1>b, <1>w, <2>1, <2>2 DEF WholeInv
<1>4. CASE SyncFinalize
  <2>1. run'.status = "completed" /\ run'.aggregate = results
    BY <1>0, <1>4, RunStep DEF SyncFinalize, Published
  <2>2. UNCHANGED <<task, results, drain, reaper>> /\ results = Items /\ starter = "sync"
    BY <1>4 DEF SyncFinalize
  <2>3. Untouched
    BY <2>2 DEF SettlerInv
  <2> QED BY <1>0, <1>b, <2>1, <2>2, <2>3
<1>5. CASE SyncFails
  <2>1. run'.status = "failed" /\ run'.aggregate = run.aggregate /\ run'.rolled = run.rolled
    BY <1>0, <1>5, RunStep DEF SyncFails, Failed
  <2>2. UNCHANGED <<task, results, drain, reaper>> /\ starter = "sync"
    BY <1>5 DEF SyncFails
  <2>3. Untouched
    BY <2>2 DEF SettlerInv
  <2> QED BY <1>0, <1>b, <1>w, <2>1, <2>2, <2>3
<1>6. ASSUME NEW d \in Drains, Claim(d) PROVE WholeInv'
  <2>1. UNCHANGED <<run, results, starter, reaper>>
    BY <1>6 DEF Claim
  <2>2. /\ \A e \in Drains \ {d} : drain'[e] = drain[e]
        /\ drain'[d].pc = "handle" /\ \E i \in Items : task[i] = "queued"
        /\ \A i \in Items : drain'[d].job[i] # "ack" /\ (task'[i] = "none" => task[i] = "none")
    BY <1>6, ClaimStep
  <2>3. ~Untouched /\ ~AboutToSettle(d)'
    BY <2>2 DEF Untouched, AboutToSettle
  <2> QED BY <1>0, <1>d, <2>1, <2>2, <2>3
<1>7. ASSUME NEW d \in Drains, NEW i \in Items,
             JobLoad(d, i) \/ JobMark(d, i) \/ JobExecute(d, i) \/ JobFails(d, i) \/ JobAck(d, i)
      PROVE  WholeInv'
  <2>1. \E pc \in Jobs \ {"none"}, next \in Jobs :
          /\ Step(d, i, pc, next)
          /\ next = "ack" => ~Live \/ i \in results'
          /\ run' = run \/ run' = [run EXCEPT !.status = "running"]
          /\ task' = task \/ (pc = "ack" /\ task' = [task EXCEPT ![i] = "none"])
          /\ results' = results \/ results' = results \cup {i}
    <3>1. CASE JobLoad(d, i)
      BY <3>1 DEF Jobs, JobLoad
    <3>2. CASE JobMark(d, i)
      BY <3>2 DEF Jobs, JobMark
    <3>3. CASE JobExecute(d, i)
      BY <3>3 DEF Jobs, JobExecute
    <3>4. CASE JobFails(d, i)
      BY <3>4 DEF Jobs, JobFails
    <3>5. CASE JobAck(d, i)
      BY <3>5 DEF Jobs, JobAck
    <3> QED BY <1>7, <3>1, <3>2, <3>3, <3>4, <3>5
  <2>b. PICK pc \in Jobs \ {"none"}, next \in Jobs :
          /\ Step(d, i, pc, next)
          /\ next = "ack" => ~Live \/ i \in results'
          /\ run' = run \/ run' = [run EXCEPT !.status = "running"]
          /\ task' = task \/ (pc = "ack" /\ task' = [task EXCEPT ![i] = "none"])
          /\ results' = results \/ results' = results \cup {i}
    BY <2>1
  <2>2. /\ \A e \in Drains \ {d} : drain'[e] = drain[e]
        /\ drain'[d].pc = drain[d].pc /\ drain[d].job[i] = pc /\ drain'[d].job[i] = next
        /\ \A j \in Items \ {i} : drain'[d].job[j] = drain[d].job[j]
    BY <1>0, <2>b, JobStep
  <2>3. UNCHANGED <<starter, reaper>>
    BY <1>7 DEF JobLoad, JobMark, JobExecute, JobFails, JobAck
  <2>4. ~Untouched
    BY <1>t, <2>2
  <2>5. next = "ack" => i \in results'
    <3>1. ~Live => results = Items
      BY <1>w, <1>u, <2>4 DEF Live, WholeInv
    <3> QED BY <1>0, <2>b, <3>1
  <2>6. \A j \in Items : task'[j] = "none" => task[j] = "none" \/ j \in results
    BY <1>0, <1>w, <2>b, <2>2 DEF WholeInv
  <2>7. run' = run \/ (run'.status \in LiveStatus /\ run'.rolled = run.rolled /\ run'.aggregate = run.aggregate)
    BY <1>0, <2>b, RunStep DEF LiveStatus
  <2>8. results \subseteq results' /\ results' \subseteq Items
    BY <1>0, <2>b
  <2>9. AboutToSettle(d)' => AboutToSettle(d)
    BY <2>2 DEF AboutToSettle
  <2>10. \A j \in Items : drain'[d].job[j] = "ack" => drain[d].job[j] = "ack" \/ j \in results'
    BY <2>2, <2>5
  <2> QED BY <1>d, <2>2, <2>3, <2>4, <2>6, <2>7, <2>8, <2>9, <2>10
<1>8. ASSUME NEW d \in Drains, Gathered(d) PROVE WholeInv'
  <2>1. /\ \A e \in Drains \ {d} : drain'[e] = drain[e]
        /\ drain'[d].pc \in {"idle", "count"} /\ \A i \in Items : drain'[d].job[i] = "none"
    BY <1>0, <1>8, DropStep DEF Gathered
  <2>2. ~Untouched /\ UNCHANGED <<run, task, results, starter, reaper>> /\ ~AboutToSettle(d)'
    BY <1>8, <1>t, <2>1 DEF Gathered, AboutToSettle
  <2> QED BY <1>0, <1>d, <2>1, <2>2
<1>9. ASSUME NEW d \in Drains, SettleCount(d) \/ SettleLook(d) \/ SettleClaim(d) PROVE WholeInv'
  <2>1. PICK pc \in PCs : Continue(d, pc)
    BY <1>9 DEF SettleCount, SettleLook, SettleClaim, PCs
  <2>2. /\ \A e \in Drains \ {d} : drain'[e] = drain[e]
        /\ drain'[d].pc = pc /\ drain'[d].job = drain[d].job
    BY <1>0, <2>1, ContinueStep
  <2>3. UNCHANGED <<task, results, starter, reaper>> /\ ~Untouched
    BY <1>9, <1>t DEF SettleCount, SettleLook, SettleClaim
  <2>4. run'.status = run.status /\ run'.rolled = run.rolled /\ run'.aggregate = run.aggregate
    BY <1>0, <1>9, RunStep DEF SettleCount, SettleLook, SettleClaim
  <2>5. AboutToSettle(d)' => AboutToSettle(d) \/ results' = Items
    <3>1. CASE SettleCount(d)
      <4>1. CASE Drained
        <5>1. \A i \in Items : task[i] = "none"
          BY <4>1 DEF Drained, Pending
        <5> QED BY <1>0, <1>u, <2>3, <5>1
      <4>2. CASE ~Drained
        <5>1. drain'[d].pc = "idle"
          BY <1>0, <3>1, <4>2, ContinueStep DEF SettleCount, PCs
        <5> QED BY <5>1 DEF AboutToSettle
      <4> QED BY <4>1, <4>2
    <3>2. CASE SettleLook(d) \/ SettleClaim(d)
      BY <3>2 DEF SettleLook, SettleClaim, AboutToSettle
    <3> QED BY <1>9, <3>1, <3>2
  <2> QED BY <1>0, <1>d, <2>2, <2>3, <2>4, <2>5
<1>10. ASSUME NEW d \in Drains, SettleFinalize(d) PROVE WholeInv'
  <2>1. run'.status = "completed" /\ run'.aggregate = results
    BY <1>0, <1>10, RunStep DEF SettleFinalize, Published
  <2>2. /\ \A e \in Drains \ {d} : drain'[e] = drain[e]
        /\ drain'[d].pc = "idle" /\ drain'[d].job = drain[d].job
    BY <1>0, <1>10, ContinueStep DEF SettleFinalize, PCs
  <2>3. UNCHANGED <<task, results, starter, reaper>> /\ ~Untouched /\ results = Items
    BY <1>10, <1>w, <1>t DEF SettleFinalize, WholeInv, AboutToSettle
  <2>4. starter = "done" /\ reaper # "failing"
    BY <1>u, <2>3
  <2> QED BY <2>1, <2>2, <2>3, <2>4 DEF WholeInv
<1>11. CASE ReapFind
  <2>1. /\ UNCHANGED <<run, task, results, drain, starter>>
        /\ reaper' = "fail" \/ (results = Items /\ reaper' = "finalize")
    BY <1>11 DEF ReapFind
  <2> QED BY <1>0, <1>b, <1>w, <2>1
\* The reaper drops what has been started meanwhile.
<1>12. CASE ReapClaim
  <2>1. run'.finished /\ run'.status = run.status /\ run'.rolled = run.rolled
        /\ run'.aggregate = run.aggregate
    BY <1>0, <1>12, RunStep DEF ReapClaim
  <2>2. UNCHANGED <<task, results, drain>>
        /\ \/ reaper' = "idle"
           \/ reaper = "finalize" /\ reaper' = "finalizing"
           \/ Unclaimed /\ reaper' = "failing"
    BY <1>12 DEF ReapClaim
  <2>3. CASE reaper' # "failing"
    BY <1>0, <1>b, <1>w, <2>1, <2>2, <2>3
  <2>4. CASE Unclaimed /\ reaper' = "failing"
    <3>1. ~run.rolled /\ \A d \in Drains : ~Settling(d)
      BY <2>4 DEF SettlerInv, Unclaimed
    <3>2. Dropped'
      BY <2>1, <2>2, <2>4, <3>1 DEF Dropped, Settling
    <3> QED BY <1>w, <2>1, <3>1, <3>2 DEF WholeInv
  <2> QED BY <2>2, <2>3, <2>4
<1>13. CASE ReapFinalize
  <2>1. run'.status = "completed" /\ run'.aggregate = results
    BY <1>0, <1>13, RunStep DEF ReapFinalize, Published
  <2>2. UNCHANGED <<task, results, drain>> /\ results = Items /\ reaper' = "idle"
    BY <1>13, <1>w DEF ReapFinalize
  <2> QED BY <1>0, <1>b, <2>1, <2>2
<1>14. CASE ReapFail
  <2>1. run'.status = "failed" /\ run'.aggregate = run.aggregate /\ run'.rolled = run.rolled
    BY <1>0, <1>14, RunStep DEF ReapFail, Failed
  <2>2. UNCHANGED <<task, results, drain>> /\ Untouched /\ reaper' = "idle"
    BY <1>14, <1>w DEF ReapFail
  <2> QED BY <1>0, <1>b, <1>w, <2>1, <2>2
<1>15. ASSUME NEW i \in Items, Lapse(i) PROVE WholeInv'
  <2>1. UNCHANGED <<run, results, drain, starter, reaper>> /\ task[i] = "claimed"
        /\ task' = [task EXCEPT ![i] = "queued"]
    BY <1>15 DEF Lapse
  <2>2. ~Untouched
    BY <2>1 DEF Untouched
  <2>3. \A j \in Items : task'[j] # "none" <=> task[j] # "none"
    BY <1>0, <2>1
  <2>4. \A d \in Drains : AboutToSettle(d)' <=> AboutToSettle(d)
    BY <2>1 DEF AboutToSettle
  <2> QED BY <1>w, <1>u, <2>1, <2>2, <2>3, <2>4 DEF WholeInv
<1>16. CASE Crash
  <2>0. UNCHANGED <<run, task, results>>
    BY <1>16 DEF Crash
  <2>1. ASSUME NEW d \in Drains, drain[d].pc # "idle", drain' = [drain EXCEPT ![d] = NoDrain],
               UNCHANGED <<starter, reaper>>
        PROVE  WholeInv'
    <3>1. /\ \A e \in Drains \ {d} : drain'[e] = drain[e]
          /\ \A i \in Items : drain'[d].job[i] = "none"
      BY <1>0, <2>1, DropStep
    <3>2. ~AboutToSettle(d)'
      BY <1>0, <2>1, NoDrainTyped DEF AboutToSettle
    <3> QED BY <1>0, <1>d, <1>t, <2>0, <2>1, <3>1, <3>2
  <2>2. CASE starter' \in {starter, "done"} /\ reaper' \in {reaper, "idle"} /\ UNCHANGED drain
    BY <1>0, <1>b, <1>w, <2>0, <2>2 DEF WholeInv
  <2> QED BY <1>16, <2>1, <2>2 DEF Crash
<1>17. CASE UNCHANGED vars
  <2>1. UNCHANGED <<run, drain, task, results, starter, reaper>>
    BY <1>17 DEF vars
  <2> QED BY <1>0, <1>b, <1>w, <2>1 DEF WholeInv
<1>18. ~CancelDiscard /\ ~CancelUpdate /\ ~CancelLoad
  BY DEF CancelLoad, CancelDiscard, CancelUpdate
<1> QED
  BY <1>1, <1>2, <1>3, <1>4, <1>5, <1>6, <1>7, <1>8, <1>9, <1>10, <1>11, <1>12, <1>13, <1>14,
     <1>15, <1>16, <1>17, <1>18
  DEF Next, Handle, Settle, Request, Reap

(***************************************************************************)
(* Who holds a task, and what follows the last of them.                    *)
(***************************************************************************)
LEMMA LeaseStep ==
  ASSUME TypeOK, SettlerInv, WholeInv, LeaseInv, [Next]_vars
  PROVE  LeaseInv'
<1> SUFFICES ASSUME faults' = 0, cancel' = "idle" PROVE LeaseInv'
  BY DEF LeaseInv
<1>0. /\ run \in Run /\ run.finished \in BOOLEAN /\ results \subseteq Items
      /\ drain \in [Drains -> Drain] /\ task \in [Items -> {"none", "queued", "claimed"}]
      /\ faults \in Nat
  BY Sizes, RunFields DEF TypeOK
<1>f. faults = 0 /\ cancel = "idle"
  <2>1. ~CancelDiscard /\ ~CancelUpdate /\ ~CancelLoad
    BY DEF CancelLoad, CancelDiscard, CancelUpdate
  <2>2. CASE \E d \in Drains : Claim(d) \/ Settle(d)
    BY <2>2 DEF Claim, Settle, Gathered, SettleCount, SettleLook, SettleClaim, SettleFinalize
  <2>3. CASE \E d \in Drains, i \in Items : JobLoad(d, i) \/ JobMark(d, i) \/ JobExecute(d, i)
                                              \/ JobAck(d, i) \/ JobFails(d, i)
    BY <1>0, <2>3 DEF JobLoad, JobMark, JobExecute, JobAck, JobFails
  <2>4. CASE Request \/ SyncFails \/ \E wait \in BOOLEAN : Start(wait)
    BY <1>0, <2>4 DEF Request, Enqueue, SyncItem, SyncFinalize, SyncFails, Start
  <2>5. CASE Reap
    BY <1>0, <2>5 DEF Reap, ReapFind, ReapClaim, ReapFinalize, ReapFail
  <2>6. CASE Crash \/ (\E i \in Items : Lapse(i)) \/ UNCHANGED vars
    BY <1>0, <2>6 DEF Crash, Lapse, vars
  <2> QED BY <2>1, <2>2, <2>3, <2>4, <2>5, <2>6 DEF Next, Handle
<1>p. (Pending = {} <=> \A i \in Items : task[i] = "none")
      /\ (Pending' = {} <=> \A i \in Items : task'[i] = "none")
  BY DEF Pending
<1>u. ASSUME Untouched
      PROVE  /\ Pending = {} /\ \A d \in Drains : ~AboutToSettle(d) /\ ~Settling(d)
             /\ \A i \in Items, d \in Drains : ~Holds(d, i)
  <2>1. Pending = {}
    BY <1>p, <1>u DEF Untouched
  <2>2. \A d \in Drains : ~AboutToSettle(d) /\ ~Settling(d)
    BY <1>u, Idle DEF AboutToSettle, Settling
  <2>3. \A i \in Items, d \in Drains : ~Holds(d, i)
    BY <1>u, Idle DEF Holds
  <2> QED BY <2>1, <2>2, <2>3
<1>q. starter # "done" => Untouched
  BY DEF SettlerInv
\* Who holds what stays as it is.
<1>h. ASSUME \A d \in Drains, i \in Items : Holds(d, i)' <=> Holds(d, i), UNCHANGED task,
             run'.finished \/ reaper' # "idle" \/ (\E d \in Drains : AboutToSettle(d)') =>
               Pending = {} /\ starter' # "enqueue",
             Live' /\ run'.finished => ReaperSettles' \/ \E d \in Drains : Settling(d)'
      PROVE  LeaseInv'
  <2>1. \A i \in Items : Held(i)' <=> Held(i)
    BY <1>h DEF Held
  <2>2. \A i \in Items : \A d, e \in Drains : Holds(d, i)' /\ Holds(e, i)' => d = e
    BY <1>f, <1>h DEF LeaseInv
  <2>3. \A i \in Items : task'[i] = "claimed" <=> Held(i)'
    BY <1>f, <1>h, <2>1 DEF LeaseInv
  <2> QED BY <1>h, <1>p, <2>2, <2>3 DEF LeaseInv
\* A step beside the drains and the tasks.
<1>b. ASSUME UNCHANGED <<drain, task>>,
             run'.finished \/ reaper' # "idle" \/ (\E d \in Drains : AboutToSettle(d)) =>
               Pending = {} /\ starter' # "enqueue",
             Live' /\ run'.finished => ReaperSettles' \/ \E d \in Drains : Settling(d)
      PROVE  LeaseInv'
  <2>1. \A d \in Drains : /\ AboutToSettle(d)' <=> AboutToSettle(d)
                          /\ Settling(d)' <=> Settling(d)
                          /\ \A i \in Items : Holds(d, i)' <=> Holds(d, i)
    BY <1>b DEF AboutToSettle, Settling, Holds
  <2> QED BY <1>b, <1>h, <2>1
<1>1. ASSUME NEW wait \in BOOLEAN, Start(wait) PROVE LeaseInv'
  <2>1. run'.finished = run.finished
    BY <1>0, <1>1, RunStep DEF Start, LiveStatus
  <2>2. UNCHANGED <<task, drain, reaper>> /\ starter = "idle"
    BY <1>1 DEF Start
  <2>3. ~run.finished /\ reaper = "idle" /\ Untouched
    BY <2>2 DEF SettlerInv
  <2> QED BY <1>b, <1>u, <2>1, <2>2, <2>3
<1>2. CASE Enqueue
  <2>1. UNCHANGED <<run, drain, reaper>> /\ starter = "enqueue" /\ \A i \in Items : task'[i] = "queued"
    BY <1>2 DEF Enqueue
  <2>2. Untouched /\ reaper = "idle" /\ ~run.finished
    BY <1>f, <2>1 DEF SettlerInv, LeaseInv
  <2>3. \A d \in Drains : ~AboutToSettle(d)' /\ \A i \in Items : ~Holds(d, i)'
    BY <1>u, <2>1, <2>2 DEF AboutToSettle, Holds
  <2> QED BY <2>1, <2>2, <2>3 DEF LeaseInv, Held
<1>3. ASSUME NEW i \in Items, SyncItem(i) PROVE LeaseInv'
  <2>1. UNCHANGED <<run, task, drain, starter, reaper>>
    BY <1>3 DEF SyncItem
  <2> QED BY <1>b, <1>f, <2>1 DEF LeaseInv, Live, ReaperSettles
<1>4. CASE SyncFinalize
  <2>1. run'.status = "completed"
    BY <1>0, <1>4, RunStep DEF SyncFinalize, Published
  <2>2. UNCHANGED <<task, drain, reaper>> /\ starter' = "done" /\ Untouched
    BY <1>4, <1>q DEF SyncFinalize
  <2> QED BY <1>b, <1>u, <2>1, <2>2 DEF Live, LiveStatus
<1>5. ~SyncFails
  BY <1>0 DEF SyncFails
<1>6. ASSUME NEW d \in Drains, Claim(d) PROVE LeaseInv'
  <2>1. UNCHANGED <<run, starter, reaper>>
    BY <1>6 DEF Claim
  <2>2. /\ drain[d].pc = "idle" /\ \A e \in Drains \ {d} : drain'[e] = drain[e]
        /\ drain'[d].pc = "handle" /\ \E i \in Items : task[i] = "queued"
        /\ \A i \in Items :
              \/ /\ task[i] = "queued" /\ task'[i] = "claimed" /\ drain'[d].job[i] = "load"
              \/ task'[i] = task[i] /\ drain'[d].job[i] = "none"
    BY <1>6, ClaimStep
  <2>3. ~run.finished /\ reaper = "idle" /\ \A e \in Drains : ~AboutToSettle(e)
    BY <1>f, <1>p, <2>2 DEF LeaseInv
  <2>4. \A e \in Drains : ~AboutToSettle(e)'
    BY <2>2, <2>3 DEF AboutToSettle
  <2>5. \A i \in Items : ~Holds(d, i)
    BY <2>2, NoDrainTyped DEF SettlerInv, Holds
  <2>6. \A i \in Items : /\ Holds(d, i)' <=> task[i] = "queued" /\ task'[i] = "claimed"
                         /\ \A e \in Drains \ {d} : Holds(e, i)' <=> Holds(e, i)
    BY <2>2 DEF Holds
  <2>7. \A i \in Items : task[i] = "claimed" <=> Held(i)
    BY <1>f DEF LeaseInv
  <2>8. \A i \in Items : \A e, g \in Drains : Holds(e, i)' /\ Holds(g, i)' => e = g
    BY <1>f, <2>6, <2>7 DEF LeaseInv, Held
  <2>9. \A i \in Items : task'[i] = "claimed" <=> Held(i)'
    <3> TAKE i \in Items
    <3>1. CASE task[i] = "queued" /\ task'[i] = "claimed"
      BY <2>6, <3>1 DEF Held
    <3>2. CASE ~(task[i] = "queued" /\ task'[i] = "claimed")
      <4>1. task'[i] = task[i] /\ ~Holds(d, i)' /\ ~Holds(d, i)
        BY <2>2, <2>5, <2>6, <3>2
      <4>2. Held(i)' <=> Held(i)
        BY <2>6, <4>1 DEF Held
      <4> QED BY <2>7, <4>1, <4>2
    <3> QED BY <3>1, <3>2
  <2> QED BY <2>1, <2>3, <2>4, <2>8, <2>9 DEF LeaseInv
<1>7. ASSUME NEW d \in Drains, NEW i \in Items, JobLoad(d, i) \/ JobMark(d, i) \/ JobExecute(d, i)
      PROVE  LeaseInv'
  <2>1. PICK pc \in {"load", "mark", "execute"}, next \in {"mark", "execute", "ack"} :
          Step(d, i, pc, next)
    BY <1>7 DEF JobLoad, JobMark, JobExecute
  <2>2. /\ \A e \in Drains \ {d} : drain'[e] = drain[e]
        /\ drain'[d].pc = drain[d].pc /\ drain[d].job[i] = pc /\ drain'[d].job[i] = next
        /\ \A j \in Items \ {i} : drain'[d].job[j] = drain[d].job[j]
    BY <1>0, <2>1, JobStep DEF Jobs
  <2>3. UNCHANGED <<task, starter, reaper>>
    BY <1>7 DEF JobLoad, JobMark, JobExecute
  <2>4. run'.finished = run.finished
    BY <1>0, <1>7, RunStep DEF JobLoad, JobMark, JobExecute, LiveStatus
  <2>5. task[i] = "claimed"
    BY <1>f, <2>2 DEF LeaseInv, Held, Holds
  <2>6. ~run.finished /\ reaper = "idle" /\ \A e \in Drains : ~AboutToSettle(e)
    BY <1>f, <1>p, <2>5 DEF LeaseInv
  <2>7. \A e \in Drains : /\ ~AboutToSettle(e)'
                          /\ \A j \in Items : Holds(e, j)' <=> Holds(e, j)
    BY <2>2, <2>6 DEF AboutToSettle, Holds
  <2> QED BY <1>h, <2>3, <2>4, <2>6, <2>7
<1>8. ASSUME NEW d \in Drains, NEW i \in Items, JobAck(d, i) PROVE LeaseInv'
  <2>1. Step(d, i, "ack", "acked") /\ UNCHANGED <<run, starter, reaper>>
        /\ task' = [task EXCEPT ![i] = "none"]
    BY <1>8 DEF JobAck
  <2>2. /\ \A e \in Drains \ {d} : drain'[e] = drain[e]
        /\ drain'[d].pc = drain[d].pc /\ drain[d].job[i] = "ack" /\ drain'[d].job[i] = "acked"
        /\ \A j \in Items \ {i} : drain'[d].job[j] = drain[d].job[j]
    BY <1>0, <2>1, JobStep DEF Jobs
  <2>3. task'[i] = "none" /\ \A j \in Items \ {i} : task'[j] = task[j]
    BY <1>0, <2>1
  <2>4. Holds(d, i) /\ ~Holds(d, i)'
    BY <2>2 DEF Holds
  <2>5. \A e \in Drains, j \in Items : Holds(e, j)' <=> Holds(e, j) /\ ~(e = d /\ j = i)
    BY <2>2 DEF Holds
  <2>6. task[i] = "claimed" /\ \A e \in Drains : Holds(e, i) => e = d
    BY <1>f, <2>4 DEF LeaseInv, Held
  <2>7. ~run.finished /\ reaper = "idle" /\ \A e \in Drains : ~AboutToSettle(e)
    BY <1>f, <1>p, <2>6 DEF LeaseInv
  <2>8. \A e \in Drains : ~AboutToSettle(e)'
    BY <2>2, <2>7 DEF AboutToSettle
  <2>9. ~Held(i)' /\ \A j \in Items \ {i} : Held(j)' <=> Held(j)
    BY <2>5, <2>6 DEF Held
  <2>10. \A j \in Items : task'[j] = "claimed" <=> Held(j)'
    BY <1>f, <2>3, <2>9 DEF LeaseInv
  <2>11. \A j \in Items : \A e, g \in Drains : Holds(e, j)' /\ Holds(g, j)' => e = g
    BY <1>f, <2>5 DEF LeaseInv
  <2> QED BY <2>1, <2>7, <2>8, <2>10, <2>11 DEF LeaseInv
<1>9. ASSUME NEW d \in Drains, NEW i \in Items, JobFails(d, i) PROVE LeaseInv'
  BY <1>0, <1>9 DEF JobFails
<1>10. ASSUME NEW d \in Drains, Gathered(d) PROVE LeaseInv'
  <2>1. /\ \A e \in Drains \ {d} : drain'[e] = drain[e]
        /\ drain'[d].pc \in {"idle", "count"} /\ \A i \in Items : drain'[d].job[i] = "none"
    BY <1>0, <1>10, DropStep DEF Gathered
  <2>2. UNCHANGED <<run, task, starter, reaper>> /\ drain[d].pc = "handle"
        /\ \A i \in Items : drain[d].job[i] \in {"none", "acked", "failed"}
    BY <1>10 DEF Gathered
  <2>3. \A e \in Drains, i \in Items : Holds(e, i)' <=> Holds(e, i)
    BY <2>1, <2>2 DEF Holds
  <2>4. \A e \in Drains : (AboutToSettle(e)' => AboutToSettle(e)) /\ (Settling(e)' <=> Settling(e))
    BY <2>1, <2>2 DEF AboutToSettle, Settling
  <2> QED BY <1>f, <1>h, <2>2, <2>3, <2>4 DEF LeaseInv, Live, ReaperSettles
<1>11. ASSUME NEW d \in Drains, Settle(d), ~Gathered(d) PROVE LeaseInv'
  <2>1. PICK pc \in PCs \ {"handle"} : Continue(d, pc)
    BY <1>11 DEF Settle, SettleCount, SettleLook, SettleClaim, SettleFinalize, PCs
  <2>2. /\ \A e \in Drains \ {d} : drain'[e] = drain[e]
        /\ drain'[d].pc = pc /\ drain'[d].job = drain[d].job
    BY <1>0, <2>1, ContinueStep
  <2>3. UNCHANGED <<task, starter, reaper>> /\ drain[d].pc \in {"count", "look", "claim", "finalize"}
    BY <1>11 DEF Settle, SettleCount, SettleLook, SettleClaim, SettleFinalize
  <2>4. starter = "done"
    BY <1>q, <2>3, Idle
  <2>5. \A e \in Drains, i \in Items : Holds(e, i)' <=> Holds(e, i)
    BY <2>2 DEF Holds
  <2>6. \A e \in Drains \ {d} : (AboutToSettle(e)' <=> AboutToSettle(e)) /\ (Settling(e)' <=> Settling(e))
    BY <2>2 DEF AboutToSettle, Settling
  <2>7. CASE SettleCount(d)
    <3>1. run' = run /\ ~Settling(d) /\ (Pending # {} => pc = "idle")
      BY <2>2, <2>3, <2>7, <1>0, ContinueStep DEF SettleCount, Settling, Drained, PCs
    <3>2. AboutToSettle(d)' => Pending = {}
      BY <2>2, <3>1 DEF AboutToSettle
    <3> QED BY <1>f, <1>h, <2>3, <2>4, <2>5, <2>6, <3>1, <3>2 DEF LeaseInv, Live, ReaperSettles
  <2>8. CASE SettleLook(d)
    <3>1. run' = run /\ ~Settling(d) /\ Pending = {}
      BY <1>f, <2>8 DEF SettleLook, Settling, LeaseInv, AboutToSettle
    <3> QED BY <1>f, <1>h, <2>3, <2>4, <2>5, <2>6, <3>1 DEF LeaseInv, Live, ReaperSettles
  <2>9. CASE SettleClaim(d)
    <3>1. Pending = {} /\ ~Settling(d)
      BY <1>f, <2>9 DEF SettleClaim, Settling, LeaseInv, AboutToSettle
    <3>2. run'.status = run.status /\ (Unclaimed => Settling(d)')
      BY <1>0, <2>9, ContinueStep, RunStep DEF SettleClaim, PCs, Settling
    <3>3. ~Unclaimed => run.finished
      BY DEF Unclaimed
    <3> QED BY <1>f, <1>h, <2>3, <2>4, <2>5, <2>6, <3>1, <3>2, <3>3 DEF LeaseInv, Live, ReaperSettles
  <2>10. CASE SettleFinalize(d)
    <3>1. Pending = {}
      BY <1>f, <2>10 DEF SettleFinalize, LeaseInv, AboutToSettle
    <3>2. run'.status = "completed"
      BY <1>0, <2>10, RunStep DEF SettleFinalize, Published
    <3> QED BY <1>h, <2>3, <2>4, <2>5, <3>1, <3>2 DEF Live, LiveStatus
  <2> QED BY <1>11, <2>7, <2>8, <2>9, <2>10 DEF Settle
<1>12. CASE ReapFind
  <2>1. UNCHANGED <<run, task, drain, starter>> /\ Pending = {} /\ ~run.finished
        /\ starter # "enqueue"
    BY <1>0, <1>12 DEF ReapFind, Abandoned
  <2> QED BY <1>b, <2>1
<1>13. CASE ReapClaim
  <2>1. run'.status = run.status /\ UNCHANGED <<task, drain, starter>> /\ ~ReaperSettles
    BY <1>0, <1>13, RunStep DEF ReapClaim, ReaperSettles
  <2>2. Pending = {} /\ starter # "enqueue"
    BY <1>13, <1>f DEF ReapClaim, LeaseInv
  <2>3. (Unclaimed => ReaperSettles') /\ (~Unclaimed => run.finished)
    BY <1>13 DEF ReapClaim, ReaperSettles, Unclaimed
  <2> QED BY <1>b, <1>f, <2>1, <2>2, <2>3 DEF LeaseInv, Live
<1>14. CASE ReapFinalize \/ ReapFail
  <2>1. run'.status \in {"completed", "failed"}
    BY <1>0, <1>14, RunStep DEF ReapFinalize, ReapFail, Published, Failed
  <2>2. UNCHANGED <<task, drain, starter>> /\ reaper # "idle"
    BY <1>14 DEF ReapFinalize, ReapFail
  <2>3. Pending = {} /\ starter # "enqueue"
    BY <1>f, <2>2 DEF LeaseInv
  <2> QED BY <1>b, <2>1, <2>2, <2>3 DEF Live, LiveStatus
<1>15. ASSUME NEW i \in Items, Lapse(i) PROVE LeaseInv'
  <2>1. task[i] = "claimed" /\ (Held(i) => faults' = faults + 1)
    BY <1>15 DEF Lapse
  <2> QED BY <1>0, <1>f, <2>1 DEF LeaseInv
<1>16. ~Crash
  BY <1>0 DEF Crash
<1>17. CASE UNCHANGED vars
  <2>1. UNCHANGED <<run, drain, task, starter, reaper>>
    BY <1>17 DEF vars
  <2> QED BY <1>b, <1>f, <2>1 DEF LeaseInv, Live, ReaperSettles
<1>18. ~CancelDiscard /\ ~CancelUpdate /\ ~CancelLoad
  BY DEF CancelLoad, CancelDiscard, CancelUpdate
<1> QED
  BY <1>1, <1>2, <1>3, <1>4, <1>5, <1>6, <1>7, <1>8, <1>9, <1>10, <1>11, <1>12, <1>13, <1>14,
     <1>15, <1>16, <1>17, <1>18
  DEF Next, Handle, Request, Reap

LEMMA VerdictInit == Init => VerdictInv
<1> SUFFICES ASSUME Init PROVE VerdictInv
  OBVIOUS
<1>1. run = [status |-> "unborn", finished |-> FALSE, rolled |-> FALSE, aggregate |-> {}]
      /\ task = [i \in Items |-> "none"] /\ results = {} /\ drain = [d \in Drains |-> NoDrain]
      /\ starter = "idle" /\ cancel = "idle" /\ reaper = "idle" /\ verdicts = 0 /\ faults = 0
      /\ overtaken = FALSE
  BY DEF Init
<1>2. run \in Run /\ run.status = "unborn" /\ ~run.finished /\ ~run.rolled
  BY <1>1 DEF Run
<1>3. Untouched /\ TypeOK
  <2>1. overtaken \in BOOLEAN
    BY <1>1
  <2>2. drain \in [Drains -> Drain] /\ faults \in 0..MaxFaults /\ verdicts \in Nat
    BY <1>1, NoDrainTyped, Sizes
  <2>3. Untouched
    BY <1>1, NoDrainTyped DEF Untouched
  <2> QED BY <1>1, <1>2, <2>1, <2>2, <2>3 DEF TypeOK
<1>4. \A d \in Drains : /\ ~Settling(d) /\ ~AboutToSettle(d) /\ drain[d].job = NoDrain.job
                        /\ \A i \in Items : drain[d].job[i] = "none" /\ ~Holds(d, i)
  BY <1>1, NoDrainTyped DEF Settling, AboutToSettle, Holds
<1>5. SettlerInv
  <2>1. ~ReaperSettles /\ Owed = 0 /\ Allowed = 1
    BY <1>1, <1>4 DEF ReaperSettles, Owed, Allowed
  <2> QED BY <1>1, <1>2, <1>3, <1>4, <2>1 DEF SettlerInv, VerdictOnce
<1>6. WholeInv
  BY <1>1, <1>2, <1>3, <1>4 DEF WholeInv
<1>7. LeaseInv
  BY <1>1, <1>2, <1>4 DEF LeaseInv, Held, Live, LiveStatus
<1> QED BY <1>3, <1>5, <1>6, <1>7 DEF VerdictInv

LEMMA VerdictStep == VerdictInv /\ [Next]_vars => VerdictInv'
BY TypeStep, SettlerStep, WholeStep, LeaseStep DEF VerdictInv

\* However many drains empty the queue at once, whatever is delivered again and whoever
\* reaps or dies, the run announces one verdict; a synchronous run which the reaper claims
\* while its request is still at it announces at most two, one of each.
THEOREM OneVerdict == Spec => []VerdictInv
BY VerdictInit, VerdictStep, PTL DEF Spec

\* What is published is a roll-up of every item, unless a cancellation dropped tasks.
THEOREM VerdictComplete == Spec => []VerdictIsComplete
<1>1. VerdictInv => VerdictIsComplete
  BY DEF VerdictInv, WholeInv, VerdictIsComplete
<1> QED BY <1>1, OneVerdict, PTL

\* Only a crash, a failed handler, an early lease or a cancellation can leave the settle
\* claim of a live run with nobody.
THEOREM ClaimSettles == Spec => []ClaimHasSettler
<1>1. VerdictInv => ClaimHasSettler
  BY Sizes DEF VerdictInv, LeaseInv, ClaimHasSettler, TypeOK
<1> QED BY <1>1, OneVerdict, PTL
=============================================================================
