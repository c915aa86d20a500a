------------------------- MODULE WebhookOutboxProofs -------------------------
(***************************************************************************)
(* For any number of processes and of overlapping sweeps, any limit of     *)
(* attempts, back-off and deadline, and any lease longer than an attempt   *)
(* and a sweep together: one attempt at a time, every request counted, and *)
(* an outcome that is kept.                                                *)
(***************************************************************************)
EXTENDS WebhookOutbox, TLAPS

PCs == {"idle", "found", "claimed", "ok", "bad"}
Statuses == {"none", "pending", "success", "failed", "deleted"}

\* What is known of the times.
LEMMA Times ==
  /\ MaxAttempts \in Nat /\ MaxAttempts >= 1 /\ Backoff \in Nat /\ Backoff >= 1
  /\ Deadline \in Nat /\ Deadline >= 1 /\ Lease \in Nat /\ MaxLag \in Nat /\ MaxLag >= 1
  /\ MaxLag + Deadline < Lease /\ MaxFaults \in Nat /\ None \notin Hosts
  /\ Past \in Int /\ Past = -MaxLag - 1 /\ MaxSends \in Nat
  /\ MaxSends = MaxAttempts + MaxFaults + 1
<1>1. {MaxAttempts, Backoff, Deadline, Lease, MaxLag} \subseteq Nat \ {0}
  BY TimesAssumption
<1>2. /\ MaxAttempts \in Nat /\ MaxAttempts >= 1 /\ Backoff \in Nat /\ Backoff >= 1
      /\ Deadline \in Nat /\ Deadline >= 1 /\ Lease \in Nat /\ MaxLag \in Nat /\ MaxLag >= 1
  BY <1>1
<1> QED BY <1>2, TimesAssumption DEF Past, MaxSends

LEMMA Ranges ==
  /\ {0, Past, Backoff} \subseteq Past..Backoff /\ {0, Past, Lease} \subseteq Past..Lease
  /\ 0 \in 0..Lease /\ 0 \in 0..MaxAttempts
BY Times

\* The fields of a row, and of a worker.
LEMMA RowFields ==
  ASSUME row \in Row
  PROVE  /\ row.status \in Statuses /\ row.attempts \in 0..MaxAttempts
         /\ row.next \in Past..Backoff /\ row.lease \in Past..Lease /\ row.abandoned \in BOOLEAN
BY DEF Row, Statuses

LEMMA WorkerFields ==
  ASSUME worker \in [Workers -> Worker], NEW w \in Workers
  PROVE  /\ worker[w] \in Worker
         /\ worker[w].pc \in PCs /\ worker[w].attempts \in 0..MaxAttempts
         /\ worker[w].age \in 0..Lease /\ worker[w].late \in BOOLEAN
BY DEF Worker, PCs

LEMMA IdleTyped == Idle \in Worker /\ Idle.pc = "idle" /\ Idle.attempts = 0 /\ Idle.age = 0
                   /\ Idle.late = FALSE
BY Times DEF Idle, Worker

\* A step of one worker leaves the others alone.
LEMMA GoLemma ==
  ASSUME worker \in [Workers -> Worker], NEW w \in Workers, NEW s \in Worker, Go(w, s)
  PROVE  /\ worker' \in [Workers -> Worker] /\ worker'[w] = s
         /\ \A v \in Workers \ {w} : worker'[v] = worker[v]
BY DEF Go

\* What a step does to the row and to a worker, field by field, and that both stay typed.
LEMMA EnqueueStep ==
  ASSUME TypeOK, NEW w \in Workers, NEW h \in Hosts, Enqueue(w, h)
  PROVE  /\ row' \in Row /\ row'.status = "pending" /\ row'.next = 0 /\ row'.lease = Lease
         /\ row'.attempts = row.attempts /\ row'.abandoned = row.abandoned
         /\ worker' \in [Workers -> Worker] /\ \A v \in Workers \ {w} : worker'[v] = worker[v]
         /\ worker'[w].pc = "claimed" /\ worker'[w].attempts = 0 /\ worker'[w].age = 0
         /\ worker'[w].late = FALSE
<1>1. row \in Row /\ worker \in [Workers -> Worker]
  BY DEF TypeOK
<1> DEFINE s == [Idle EXCEPT !.pc = "claimed", !.host = h]
<1>2. s \in Worker /\ s.pc = "claimed" /\ s.attempts = 0 /\ s.age = 0 /\ s.late = FALSE
  BY IdleTyped DEF Worker
<1>3. Go(w, s) /\ row' = [row EXCEPT !.status = "pending", !.next = 0, !.lease = Lease]
  BY DEF Enqueue
<1> HIDE DEF s
<1>4. worker' \in [Workers -> Worker] /\ worker'[w] = s
      /\ \A v \in Workers \ {w} : worker'[v] = worker[v]
  BY <1>1, <1>2, <1>3, GoLemma
<1>5. /\ row' \in Row /\ row'.status = "pending" /\ row'.next = 0 /\ row'.lease = Lease
      /\ row'.attempts = row.attempts /\ row'.abandoned = row.abandoned
  BY <1>1, <1>3, Ranges DEF Row
<1> QED BY <1>2, <1>4, <1>5

LEMMA FindStep ==
  ASSUME TypeOK, NEW w \in Workers, NEW h \in Hosts, Find(w, h)
  PROVE  /\ worker' \in [Workers -> Worker] /\ \A v \in Workers \ {w} : worker'[v] = worker[v]
         /\ worker'[w].pc = "found" /\ worker'[w].attempts = row.attempts
         /\ worker'[w].age = 0 /\ worker'[w].late = FALSE
<1>1. row \in Row /\ worker \in [Workers -> Worker]
  BY DEF TypeOK
<1> DEFINE s == [Idle EXCEPT !.pc = "found", !.host = h, !.swept = TRUE,
                             !.attempts = row.attempts]
<1>2. s \in Worker /\ s.pc = "found" /\ s.attempts = row.attempts /\ s.age = 0 /\ s.late = FALSE
  BY <1>1, IdleTyped, RowFields DEF Worker
<1>3. Go(w, s)
  BY DEF Find
<1> HIDE DEF s
<1> QED BY <1>1, <1>2, <1>3, GoLemma

LEMMA ClaimStep ==
  ASSUME TypeOK, BoundsInv, NEW w \in Workers, Claim(w), Claimable(w)
  PROVE  /\ row' \in Row /\ row'.status = row.status /\ row'.next = row.next
         /\ row'.lease = Lease - worker[w].age
         /\ row'.attempts = row.attempts /\ row'.abandoned = row.abandoned
         /\ worker' \in [Workers -> Worker] /\ \A v \in Workers \ {w} : worker'[v] = worker[v]
         /\ worker'[w].pc = "claimed" /\ worker'[w].attempts = worker[w].attempts
         /\ worker'[w].age = 0 /\ worker'[w].late = worker[w].late
<1>1. row \in Row /\ worker \in [Workers -> Worker] /\ worker[w] \in Worker
  BY DEF TypeOK
<1>0. worker[w].age \in 0..MaxLag
  BY <1>1, WorkerFields, Times DEF Claim, BoundsInv
<1> DEFINE s == [worker[w] EXCEPT !.pc = "claimed", !.age = 0]
<1>2. s \in Worker /\ s.pc = "claimed" /\ s.attempts = worker[w].attempts /\ s.age = 0
      /\ s.late = worker[w].late
  BY <1>1, Ranges DEF Worker
<1>3. Go(w, s) /\ row' = [row EXCEPT !.lease = Lease - worker[w].age]
  BY DEF Claim
<1> HIDE DEF s
<1>4. worker' \in [Workers -> Worker] /\ worker'[w] = s
      /\ \A v \in Workers \ {w} : worker'[v] = worker[v]
  BY <1>1, <1>2, <1>3, GoLemma
<1>5. Lease - worker[w].age \in Past..Lease
  BY <1>0, Times
<1>6. /\ row' \in Row /\ row'.status = row.status /\ row'.next = row.next
      /\ row'.lease = Lease - worker[w].age
      /\ row'.attempts = row.attempts /\ row'.abandoned = row.abandoned
  BY <1>1, <1>3, <1>5 DEF Row
<1> QED BY <1>2, <1>4, <1>6

LEMMA OverStep ==
  ASSUME TypeOK, NEW w \in Workers, Go(w, Idle)
  PROVE  /\ worker' \in [Workers -> Worker] /\ \A v \in Workers \ {w} : worker'[v] = worker[v]
         /\ worker'[w].pc = "idle" /\ worker'[w].attempts = 0 /\ worker'[w].age = 0
         /\ worker'[w].late = FALSE
BY IdleTyped, GoLemma DEF TypeOK

LEMMA SendStep ==
  ASSUME TypeOK, NEW w \in Workers, Send(w)
  PROVE  /\ worker' \in [Workers -> Worker] /\ \A v \in Workers \ {w} : worker'[v] = worker[v]
         /\ worker'[w].pc \in {"ok", "bad"} /\ worker'[w].attempts = worker[w].attempts
         /\ worker'[w].age = worker[w].age /\ worker'[w].late = worker[w].late
<1>1. worker \in [Workers -> Worker] /\ worker[w] \in Worker
  BY DEF TypeOK
<1>2. PICK answer \in {"ok", "bad"} : Go(w, [worker[w] EXCEPT !.pc = answer])
  BY DEF Send
<1> DEFINE s == [worker[w] EXCEPT !.pc = answer]
<1>3. s \in Worker /\ s.pc = answer /\ s.attempts = worker[w].attempts
      /\ s.age = worker[w].age /\ s.late = worker[w].late
  BY <1>1 DEF Worker
<1>4. Go(w, s)
  BY <1>2
<1> HIDE DEF s
<1> QED BY <1>1, <1>3, <1>4, GoLemma

LEMMA StallStep ==
  ASSUME TypeOK, NEW w \in Workers, Stall(w)
  PROVE  /\ worker' \in [Workers -> Worker] /\ \A v \in Workers \ {w} : worker'[v] = worker[v]
         /\ worker'[w].pc = worker[w].pc /\ worker'[w].attempts = worker[w].attempts
         /\ worker'[w].age = worker[w].age
<1>1. worker \in [Workers -> Worker] /\ worker[w] \in Worker
  BY DEF TypeOK
<1> DEFINE s == [worker[w] EXCEPT !.late = TRUE]
<1>2. s \in Worker /\ s.pc = worker[w].pc /\ s.attempts = worker[w].attempts
      /\ s.age = worker[w].age
  BY <1>1 DEF Worker
<1>3. Go(w, s)
  BY DEF Stall
<1> HIDE DEF s
<1> QED BY <1>1, <1>2, <1>3, GoLemma

\* The last write of an attempt, unless the row is deleted.
LEMMA OutcomeStep ==
  ASSUME TypeOK, BoundsInv, NEW w \in Workers, Abandon(w) \/ Succeed(w) \/ Fail(w)
  PROVE  /\ Go(w, Idle) /\ row' \in Row
         /\ row.status = "deleted" => row' = row
         /\ row.status # "deleted" =>
              /\ Abandon(w) => /\ row'.status = "failed" /\ row'.attempts = row.attempts
                               /\ row'.abandoned = TRUE
              /\ Succeed(w) => /\ row'.status = "success" /\ row'.abandoned = row.abandoned
                               /\ row'.attempts = worker[w].attempts + 1
              /\ Fail(w) => /\ row'.attempts = worker[w].attempts + 1
                            /\ row'.abandoned = row.abandoned
                            /\ \/ row'.status = "failed" /\ row'.attempts = MaxAttempts
                               \/ /\ row'.status = "pending" /\ row'.attempts < MaxAttempts
                                  /\ row'.next = Backoff
<1>1. row \in Row /\ worker[w].attempts + 1 \in 0..MaxAttempts
  BY Times, WorkerFields DEF TypeOK, BoundsInv
<1>2. Go(w, Idle)
  BY DEF Abandon, Succeed, Fail
<1>3. CASE row.status = "deleted"
  BY <1>1, <1>2, <1>3 DEF Abandon, Succeed, Fail, Write
<1>4. CASE row.status # "deleted"
  <2>1. CASE Abandon(w)
    <3>1. row' = [row EXCEPT !.status = "failed", !.next = Past, !.lease = Past,
                             !.abandoned = TRUE]
      BY <1>4, <2>1 DEF Abandon, Write
    <3>2. /\ row' \in Row /\ row'.status = "failed" /\ row'.attempts = row.attempts
          /\ row'.abandoned = TRUE
      BY <1>1, <3>1, Ranges DEF Row
    <3>3. ~Succeed(w) /\ ~Fail(w)
      BY <2>1 DEF Abandon, Succeed, Fail
    <3> QED BY <1>2, <1>4, <3>2, <3>3
  <2>2. CASE Succeed(w)
    <3>1. row' = [row EXCEPT !.status = "success", !.attempts = worker[w].attempts + 1,
                             !.next = Past, !.lease = Past]
      BY <1>4, <2>2 DEF Succeed, Write
    <3>2. /\ row' \in Row /\ row'.status = "success" /\ row'.abandoned = row.abandoned
          /\ row'.attempts = worker[w].attempts + 1
      BY <1>1, <3>1, Ranges DEF Row
    <3>3. ~Abandon(w) /\ ~Fail(w)
      BY <2>2 DEF Abandon, Succeed, Fail
    <3> QED BY <1>2, <1>4, <3>2, <3>3
  <2>3. CASE Fail(w)
    <3> DEFINE n == worker[w].attempts + 1
    <3>0. ~Abandon(w) /\ ~Succeed(w)
      BY <2>3 DEF Abandon, Succeed, Fail
    <3>1. CASE Exhausted(n)
      <4>1. row' = [row EXCEPT !.status = "failed", !.attempts = n, !.next = Past,
                               !.lease = Past]
        BY <1>4, <2>3, <3>1 DEF Fail, Write
      <4>2. n = MaxAttempts
        BY <1>1, <3>1, Times DEF Exhausted
      <4>3. /\ row' \in Row /\ row'.status = "failed" /\ row'.abandoned = row.abandoned
            /\ row'.attempts = n
        BY <1>1, <4>1, Ranges DEF Row
      <4> QED BY <1>2, <1>4, <3>0, <4>2, <4>3
    <3>2. CASE ~Exhausted(n)
      <4>1. row' = [row EXCEPT !.status = "pending", !.attempts = n, !.next = Backoff,
                               !.lease = Past]
        BY <1>4, <2>3, <3>2 DEF Fail, Write
      <4>2. n < MaxAttempts
        BY <1>1, <3>2, Times DEF Exhausted
      <4>3. /\ row' \in Row /\ row'.status = "pending" /\ row'.abandoned = row.abandoned
            /\ row'.attempts = n /\ row'.next = Backoff
        BY <1>1, <4>1, Ranges DEF Row
      <4> QED BY <1>2, <1>4, <3>0, <4>2, <4>3
    <3> QED BY <3>1, <3>2
  <2> QED BY <2>1, <2>2, <2>3
<1> QED BY <1>3, <1>4

\* The passing of time: what is on the row comes nearer, who is under way grows older.
LEMMA TickStep ==
  ASSUME TypeOK, BoundsInv, Tick
  PROVE  /\ row' \in Row /\ row'.status = row.status /\ row'.attempts = row.attempts
         /\ row'.abandoned = row.abandoned
         /\ row'.next = Sooner(row.next) /\ row'.lease = Sooner(row.lease)
         /\ worker' \in [Workers -> Worker]
         /\ \A w \in Workers :
              /\ worker'[w].pc = worker[w].pc /\ worker'[w].attempts = worker[w].attempts
              /\ worker'[w].late = worker[w].late
              /\ worker[w].pc = "idle" \/ worker[w].late => worker'[w].age = worker[w].age
              /\ worker[w].pc # "idle" /\ ~worker[w].late =>
                   /\ worker'[w].age = worker[w].age + 1
                   /\ worker[w].pc = "found" => worker[w].age < MaxLag
                   /\ Attempting(w) => worker[w].age < Deadline
<1>1. row \in Row /\ worker \in [Workers -> Worker]
  BY DEF TypeOK
<1>2. row' = [row EXCEPT !.next = Sooner(row.next), !.lease = Sooner(row.lease)]
  BY DEF Tick
<1>3. Sooner(row.next) \in Past..Backoff /\ Sooner(row.lease) \in Past..Lease
  BY <1>1, RowFields, Times DEF Sooner
<1>4. /\ row' \in Row /\ row'.status = row.status /\ row'.attempts = row.attempts
      /\ row'.abandoned = row.abandoned
      /\ row'.next = Sooner(row.next) /\ row'.lease = Sooner(row.lease)
  BY <1>1, <1>2, <1>3 DEF Row
<1>5. ASSUME NEW w \in Workers
      PROVE  /\ worker'[w] \in Worker
             /\ worker'[w].pc = worker[w].pc /\ worker'[w].attempts = worker[w].attempts
             /\ worker'[w].late = worker[w].late
             /\ worker[w].pc = "idle" \/ worker[w].late => worker'[w].age = worker[w].age
             /\ worker[w].pc # "idle" /\ ~worker[w].late =>
                  /\ worker'[w].age = worker[w].age + 1
                  /\ worker[w].pc = "found" => worker[w].age < MaxLag
                  /\ Attempting(w) => worker[w].age < Deadline
  <2>1. worker[w] \in Worker
    BY <1>1
  <2>2. CASE worker[w].pc = "idle" \/ worker[w].late
    <3>1. worker'[w] = worker[w]
      BY <2>2 DEF Tick
    <3> QED BY <2>1, <2>2, <3>1
  <2>3. CASE ~(worker[w].pc = "idle" \/ worker[w].late)
    <3>1. worker'[w] = [worker[w] EXCEPT !.age = worker[w].age + 1]
      BY <2>3 DEF Tick
    <3>2. /\ worker[w].pc = "found" => worker[w].age < MaxLag
          /\ Attempting(w) => worker[w].age < Deadline
      BY <2>3 DEF Tick, Patient, Attempting
    <3>3. worker[w].pc = "found" \/ Attempting(w)
      BY <1>1, <2>3, WorkerFields DEF PCs, Attempting
    <3>4. worker[w].age + 1 \in 0..Lease
      BY <1>1, <3>2, <3>3, WorkerFields, Times
    <3>5. /\ worker'[w] \in Worker /\ worker'[w].pc = worker[w].pc
          /\ worker'[w].attempts = worker[w].attempts /\ worker'[w].late = worker[w].late
          /\ worker'[w].age = worker[w].age + 1
      BY <2>1, <3>1, <3>4 DEF Worker
    <3> QED BY <2>3, <3>2, <3>5
  <2> QED BY <2>2, <2>3
<1>6. worker' \in [Workers -> Worker]
  <2>1. DOMAIN worker' = Workers /\ worker' = [w \in Workers |-> worker'[w]]
    BY DEF Tick
  <2> QED BY <1>5, <2>1
<1> QED BY <1>4, <1>5, <1>6

LEMMA CrashStep ==
  ASSUME TypeOK, NEW h \in Hosts, Crash(h)
  PROVE  /\ worker' \in [Workers -> Worker]
         /\ \A w \in Workers :
              \/ worker'[w] = worker[w]
              \/ /\ worker'[w].pc = "idle" /\ worker'[w].attempts = 0 /\ worker'[w].age = 0
                 /\ worker'[w].late = FALSE
BY IdleTyped DEF TypeOK, Crash

\* A write that fails: a success becomes a failed attempt, whose worker goes without it.
LEMMA WriteFailsStep ==
  ASSUME TypeOK, NEW w \in Workers, WriteFails(w)
  PROVE  /\ worker' \in [Workers -> Worker] /\ \A v \in Workers \ {w} : worker'[v] = worker[v]
         /\ faults < MaxFaults /\ faults' = faults + 1 /\ UNCHANGED <<row, secret, sends, stalls>>
         /\ \/ /\ worker[w].pc = "ok" /\ worker'[w].pc = "bad" /\ losses' = losses
               /\ worker'[w].attempts = worker[w].attempts
               /\ worker'[w].age = worker[w].age /\ worker'[w].late = worker[w].late
            \/ /\ worker[w].pc \in {"claimed", "bad"} /\ worker'[w].pc = "idle"
               /\ losses' = losses + 1
               /\ worker'[w].attempts = 0 /\ worker'[w].age = 0 /\ worker'[w].late = FALSE
<1>1. worker \in [Workers -> Worker] /\ worker[w] \in Worker
  BY DEF TypeOK
<1>2. faults < MaxFaults /\ faults' = faults + 1 /\ UNCHANGED <<row, secret, sends, stalls>>
  BY DEF WriteFails, Fault
<1>3. CASE worker[w].pc = "ok"
  <2> DEFINE s == [worker[w] EXCEPT !.pc = "bad"]
  <2>1. s \in Worker /\ s.pc = "bad" /\ s.attempts = worker[w].attempts
        /\ s.age = worker[w].age /\ s.late = worker[w].late
    BY <1>1 DEF Worker
  <2>2. Go(w, s) /\ losses' = losses
    BY <1>3 DEF WriteFails
  <2> HIDE DEF s
  <2> QED BY <1>1, <1>2, <1>3, <2>1, <2>2, GoLemma
<1>4. CASE worker[w].pc # "ok"
  <2>1. Go(w, Idle) /\ losses' = losses + 1 /\ worker[w].pc \in {"claimed", "bad"}
    BY <1>4 DEF WriteFails
  <2> QED BY <1>2, <2>1, OverStep
<1> QED BY <1>3, <1>4

(***************************************************************************)
(* The inductive invariant.                                                *)
(***************************************************************************)
\* A sweep that may claim finds nobody at an attempt: its reading of the clock is no
\* older than MaxLag, and so was that of the holder, whose lease is still valid then.
LEMMA ClaimAlone ==
  ASSUME TypeOK, BoundsInv, stalls = 0 => HolderInv, NEW w \in Workers, Claim(w), Claimable(w)
  PROVE  row.status = "pending" /\ (stalls = 0 => \A v \in Workers : ~Attempting(v))
<1>1. row.status = "pending" /\ row.lease < -worker[w].age
  BY DEF Claimable, Due
<1>2. ASSUME stalls = 0, NEW v \in Workers, Attempting(v) PROVE FALSE
  <2>1. row.lease >= Lease - MaxLag - worker[v].age
    BY <1>1, <1>2 DEF HolderInv
  <2>2. worker[v].age <= Deadline
    BY <1>2 DEF BoundsInv
  <2>3. worker[v].age \in Nat /\ worker[w].age \in Nat /\ row.lease \in Int
    BY WorkerFields, RowFields, Times DEF TypeOK
  <2> QED BY <1>1, <2>1, <2>2, <2>3, Times
<1> QED BY <1>1, <1>2

\* What may be claimed at a reading of the clock could be claimed at it before.
LEMMA DueTick ==
  ASSUME row \in Row, NEW age \in 0..MaxLag, age < MaxLag, row'.status = row.status,
         row'.next = Sooner(row.next), row'.lease = Sooner(row.lease),
         row'.status = "pending", row'.next <= -(age + 1), row'.lease < -(age + 1)
  PROVE  Due(age)
BY RowFields, Times DEF Due, Sooner

\* Types and bounds.
LEMMA BoundsStep == TypeOK /\ BoundsInv /\ [Next]_vars => TypeOK' /\ BoundsInv'
<1> SUFFICES ASSUME TypeOK, BoundsInv, [Next]_vars PROVE TypeOK' /\ BoundsInv'
  OBVIOUS
<1> USE Times
<1>0. /\ row \in Row /\ worker \in [Workers -> Worker] /\ secret \in BOOLEAN
      /\ sends \in 0..MaxSends
      /\ losses \in 0..MaxFaults /\ stalls \in 0..MaxFaults /\ faults \in 0..MaxFaults
  BY DEF TypeOK
\* A step of one worker that leaves the counts of faults alone.
<1>1. ASSUME NEW w \in Workers, worker' \in [Workers -> Worker],
             \A v \in Workers \ {w} : worker'[v] = worker[v],
             worker'[w].attempts < MaxAttempts, worker'[w].late => worker[w].late,
             worker'[w].pc = "found" => worker'[w].age <= MaxLag,
             Attempting(w)' => worker'[w].age <= Deadline,
             row' \in Row, row'.status # "none",
             row'.status = "pending" => row'.attempts < MaxAttempts,
             sends' \in 0..MaxSends, secret' = secret, UNCHANGED <<losses, stalls, faults>>
      PROVE  TypeOK' /\ BoundsInv'
  <2>1. \A v \in Workers : Attempting(v)' => worker'[v].age <= Deadline
    BY <1>1 DEF BoundsInv, Attempting
  <2> QED BY <1>0, <1>1, <2>1 DEF TypeOK, BoundsInv
<1>14. ASSUME NEW w \in Workers, Go(w, Idle), row' \in Row, row'.status # "none",
              row'.status = "pending" => row'.attempts < MaxAttempts,
              UNCHANGED <<secret, sends, losses, stalls, faults>>
       PROVE  TypeOK' /\ BoundsInv'
  <2>1. /\ worker' \in [Workers -> Worker] /\ \A v \in Workers \ {w} : worker'[v] = worker[v]
        /\ worker'[w].pc = "idle" /\ worker'[w].attempts = 0 /\ worker'[w].age = 0
        /\ worker'[w].late = FALSE
    BY <1>14, OverStep
  <2>2. ~Attempting(w)'
    BY <2>1 DEF Attempting
  <2> QED BY <1>0, <1>1, <1>14, <2>1, <2>2
<1>2. ASSUME NEW w \in Workers, NEW h \in Hosts, Enqueue(w, h) PROVE TypeOK' /\ BoundsInv'
  <2>1. row'.status = "pending" /\ row'.attempts < MaxAttempts
    BY <1>2, EnqueueStep DEF BoundsInv, Enqueue
  <2>2. /\ row' \in Row /\ worker' \in [Workers -> Worker]
        /\ \A v \in Workers \ {w} : worker'[v] = worker[v]
        /\ worker'[w].pc = "claimed" /\ worker'[w].attempts = 0 /\ worker'[w].age = 0
        /\ worker'[w].late = FALSE
    BY <1>2, EnqueueStep
  <2>3. UNCHANGED <<secret, sends, losses, stalls, faults>>
    BY <1>2 DEF Enqueue
  <2> QED BY <1>0, <1>1, <2>1, <2>2, <2>3
<1>3. CASE Redeliver
  <2>1. row' = [row EXCEPT !.status = "pending", !.next = 0]
    BY <1>3 DEF Redeliver
  <2>2. row' \in Row /\ row'.status = "pending" /\ row'.attempts = row.attempts
    BY <1>0, <2>1, Ranges DEF Row
  <2> QED BY <1>0, <1>3, <2>2 DEF Redeliver, TypeOK, BoundsInv, Attempting
<1>4. ASSUME NEW w \in Workers, NEW h \in Hosts, Find(w, h) PROVE TypeOK' /\ BoundsInv'
  <2>1. row.status = "pending" /\ row.attempts < MaxAttempts
    BY <1>4 DEF Find, Due, BoundsInv
  <2>2. /\ worker' \in [Workers -> Worker] /\ \A v \in Workers \ {w} : worker'[v] = worker[v]
        /\ worker'[w].pc = "found" /\ worker'[w].attempts = row.attempts
        /\ worker'[w].age = 0 /\ worker'[w].late = FALSE
    BY <1>4, FindStep
  <2>3. ~Attempting(w)'
    BY <2>2 DEF Attempting
  <2> QED BY <1>0, <1>1, <1>4, <2>1, <2>2, <2>3 DEF Find
<1>5. ASSUME NEW w \in Workers, Claim(w) PROVE TypeOK' /\ BoundsInv'
  <2>1. CASE Claimable(w)
    <3>1. row.status = "pending" /\ row.attempts < MaxAttempts /\ worker[w].attempts < MaxAttempts
      BY <2>1 DEF Claimable, Due, BoundsInv
    <3>2. /\ row' \in Row /\ row'.status = row.status /\ row'.attempts = row.attempts
          /\ worker' \in [Workers -> Worker] /\ \A v \in Workers \ {w} : worker'[v] = worker[v]
          /\ worker'[w].pc = "claimed" /\ worker'[w].attempts = worker[w].attempts
          /\ worker'[w].age = 0 /\ worker'[w].late = worker[w].late
      BY <1>5, <2>1, ClaimStep
    <3>3. UNCHANGED <<secret, sends, losses, stalls, faults>>
      BY <1>5 DEF Claim
    <3> QED BY <1>0, <1>1, <3>1, <3>2, <3>3
  <2>2. CASE ~Claimable(w)
    <3>1. Go(w, Idle) /\ UNCHANGED row
      BY <1>5, <2>2 DEF Claim
    <3>2. row.status # "none"
      BY <1>5 DEF Claim, BoundsInv
    <3>3. UNCHANGED <<secret, sends, losses, stalls, faults>>
      BY <1>5 DEF Claim
    <3> QED BY <1>0, <1>14, <3>1, <3>2, <3>3 DEF BoundsInv
  <2> QED BY <2>1, <2>2
<1>6. ASSUME NEW w \in Workers, Abandon(w) \/ Succeed(w) \/ Fail(w) PROVE TypeOK' /\ BoundsInv'
  <2>1. Go(w, Idle) /\ row' \in Row /\ UNCHANGED <<secret, sends, losses, stalls, faults>>
    BY <1>6, OutcomeStep DEF Abandon, Succeed, Fail
  <2>2. row.status # "none"
    BY <1>6 DEF Abandon, Succeed, Fail, BoundsInv
  <2>3. row'.status # "none" /\ (row'.status = "pending" => row'.attempts < MaxAttempts)
    BY <1>6, <2>2, OutcomeStep
  <2> QED BY <1>0, <1>14, <2>1, <2>3
<1>7. ASSUME NEW w \in Workers, Send(w) PROVE TypeOK' /\ BoundsInv'
  <2>1. row.status # "none" /\ Attempting(w)
    BY <1>7 DEF Send, BoundsInv, Attempting
  <2>2. sends' \in 0..MaxSends
    BY <1>0, <1>7 DEF Send
  <2> QED BY <1>0, <1>1, <1>7, <2>1, <2>2, SendStep DEF Send, BoundsInv
<1>8. CASE Tick
  <2>1. \A w \in Workers : Attempting(w)' => Attempting(w)
    BY <1>8, TickStep DEF Attempting
  <2>2. ASSUME NEW w \in Workers
        PROVE  /\ worker'[w].attempts < MaxAttempts /\ (worker'[w].late => stalls > 0)
               /\ worker'[w].pc = "found" => worker'[w].age <= MaxLag
               /\ Attempting(w)' => worker'[w].age <= Deadline
    <3>1. worker[w].age \in Nat
      BY <1>0, WorkerFields
    <3>2. /\ worker[w].attempts < MaxAttempts /\ (worker[w].late => stalls > 0)
          /\ worker[w].pc = "found" => worker[w].age <= MaxLag
          /\ Attempting(w) => worker[w].age <= Deadline
      BY DEF BoundsInv
    <3> QED BY <1>8, <2>1, <3>1, <3>2, TickStep DEF Attempting
  <2>3. row'.status = row.status /\ row'.attempts = row.attempts /\ row' \in Row
        /\ worker' \in [Workers -> Worker] /\ \A w \in Workers : worker'[w].pc = worker[w].pc
    BY <1>8, TickStep
  <2>4. UNCHANGED <<secret, sends, losses, stalls, faults>>
    BY <1>8 DEF Tick
  <2> QED BY <1>0, <2>2, <2>3, <2>4 DEF TypeOK, BoundsInv
<1>9. ASSUME NEW w \in Workers, Stall(w) PROVE TypeOK' /\ BoundsInv'
  <2>1. /\ worker' \in [Workers -> Worker] /\ \A v \in Workers \ {w} : worker'[v] = worker[v]
        /\ worker'[w].pc = worker[w].pc /\ worker'[w].attempts = worker[w].attempts
        /\ worker'[w].age = worker[w].age
    BY <1>9, StallStep
  <2>2. stalls' = stalls + 1 /\ faults' = faults + 1 /\ faults < MaxFaults
        /\ UNCHANGED <<row, secret, sends, losses>>
    BY <1>9 DEF Stall, Fault
  <2>3. stalls' \in 0..MaxFaults /\ faults' \in 0..MaxFaults /\ stalls' <= faults'
        /\ losses' <= faults'
    BY <1>0, <2>2 DEF BoundsInv
  <2>4. \A v \in Workers : Attempting(v)' => Attempting(v)
    BY <2>1 DEF Attempting
  <2>5. \A v \in Workers : worker'[v].pc = worker[v].pc /\ worker'[v].age = worker[v].age
    BY <2>1
  <2> QED BY <1>0, <2>1, <2>2, <2>3, <2>4, <2>5 DEF TypeOK, BoundsInv
<1>10. ASSUME NEW h \in Hosts, Crash(h) PROVE TypeOK' /\ BoundsInv'
  <2>1. worker' \in [Workers -> Worker]
        /\ \A w \in Workers :
             \/ worker'[w] = worker[w]
             \/ /\ worker'[w].pc = "idle" /\ worker'[w].attempts = 0 /\ worker'[w].age = 0
                /\ worker'[w].late = FALSE
    BY <1>10, CrashStep
  <2>2. losses' = losses + 1 /\ faults' = faults + 1 /\ faults < MaxFaults
        /\ UNCHANGED <<row, secret, sends, stalls>>
    BY <1>10 DEF Crash, Fault
  <2>3. losses' \in 0..MaxFaults /\ faults' \in 0..MaxFaults /\ stalls' <= faults'
        /\ losses' <= faults'
    BY <1>0, <2>2 DEF BoundsInv
  <2>4. \A v \in Workers : Attempting(v)' => worker'[v].age <= Deadline
    BY <2>1 DEF Attempting, BoundsInv
  <2> QED BY <1>0, <2>1, <2>2, <2>3, <2>4 DEF TypeOK, BoundsInv
<1>11. CASE LoseSecret
  <2>1. faults' = faults + 1 /\ faults < MaxFaults /\ secret' = FALSE
        /\ UNCHANGED <<row, worker, sends, losses, stalls>>
    BY <1>11 DEF LoseSecret, Fault
  <2>2. faults' \in 0..MaxFaults /\ stalls' <= faults' /\ losses' <= faults'
    BY <1>0, <2>1 DEF BoundsInv
  <2>5. secret' \in BOOLEAN
    BY <2>1
  <2>3. \A w \in Workers : Attempting(w)' <=> Attempting(w)
    BY <2>1 DEF Attempting
  <2>4. BoundsInv'
    BY <2>1, <2>2, <2>3 DEF BoundsInv
  <2> QED BY <1>0, <2>1, <2>2, <2>4, <2>5 DEF TypeOK
<1>12. CASE Delete
  <2>1. faults' = faults + 1 /\ faults < MaxFaults /\ UNCHANGED <<worker, secret, sends, losses, stalls>>
        /\ row' = [row EXCEPT !.status = "deleted"]
    BY <1>12 DEF Delete, Fault
  <2>2. row' \in Row /\ row'.status = "deleted"
    BY <1>0, <2>1 DEF Row
  <2> QED BY <1>0, <2>1, <2>2 DEF TypeOK, BoundsInv, Attempting
<1>13. CASE UNCHANGED vars
  BY <1>13 DEF vars, TypeOK, BoundsInv, Attempting
<1>15. ASSUME NEW w \in Workers, WriteFails(w) PROVE TypeOK' /\ BoundsInv'
  <2>1. /\ worker' \in [Workers -> Worker] /\ \A v \in Workers \ {w} : worker'[v] = worker[v]
        /\ worker'[w].attempts < MaxAttempts /\ (worker'[w].late => worker[w].late)
        /\ worker[w].pc # "idle" /\ worker'[w].pc # "found"
        /\ Attempting(w)' => Attempting(w) /\ worker'[w].age = worker[w].age
    <3>1. worker[w].attempts < MaxAttempts
      BY DEF BoundsInv
    <3>2. CASE worker[w].pc = "ok"
      BY <1>15, <3>1, <3>2, WriteFailsStep DEF Attempting
    <3>3. CASE worker[w].pc # "ok"
      <4>1. /\ worker' \in [Workers -> Worker]
            /\ \A v \in Workers \ {w} : worker'[v] = worker[v]
            /\ worker[w].pc \in {"claimed", "bad"} /\ worker'[w].pc = "idle"
            /\ worker'[w].attempts = 0 /\ worker'[w].late = FALSE
        BY <1>15, <3>3, WriteFailsStep
      <4>2. worker'[w].late => worker[w].late
        BY <4>1
      <4>3. ~Attempting(w)' /\ worker'[w].attempts < MaxAttempts
        BY <4>1 DEF Attempting
      <4> QED BY <4>1, <4>2, <4>3
    <3> QED BY <3>2, <3>3
  <2>2. faults' = faults + 1 /\ faults < MaxFaults /\ UNCHANGED <<row, secret, sends, stalls>>
        /\ (losses' = losses \/ losses' = losses + 1)
    BY <1>15, WriteFailsStep
  <2>3. losses' \in 0..MaxFaults /\ faults' \in 0..MaxFaults /\ stalls' <= faults'
        /\ losses' <= faults'
    BY <1>0, <2>2 DEF BoundsInv
  <2>4. \A v \in Workers : Attempting(v)' => worker'[v].age <= Deadline
    BY <2>1 DEF Attempting, BoundsInv
  <2>5. row.status # "none"
    BY <2>1 DEF BoundsInv
  <2> QED BY <1>0, <2>1, <2>2, <2>3, <2>4, <2>5 DEF TypeOK, BoundsInv
<1> QED
  BY <1>15, <1>2, <1>3, <1>4, <1>5, <1>6, <1>7, <1>8, <1>9, <1>10, <1>11, <1>12, <1>13
  DEF Next, Work, Sweep

\* Nobody is late until somebody has stalled.
LEMMA StallsGrow ==
  ASSUME TypeOK, [Next]_vars, stalls' = 0
  PROVE  stalls = 0
<1>1. stalls' = stalls \/ stalls' = stalls + 1
  <2>1. CASE \E w \in Workers : Stall(w)
    BY <2>1 DEF Stall
  <2>2. CASE \E w \in Workers : Claim(w) \/ Abandon(w) \/ Send(w)
    BY <2>2 DEF Claim, Abandon, Send
  <2>3. CASE \E w \in Workers : Succeed(w) \/ Fail(w)
    BY <2>3 DEF Succeed, Fail
  <2>4. CASE \E w \in Workers, h \in Hosts : Enqueue(w, h) \/ Find(w, h)
    BY <2>4 DEF Enqueue, Find
  <2>5. CASE (\E h \in Hosts : Crash(h)) \/ \E w \in Workers : WriteFails(w)
    BY <2>5 DEF Crash, WriteFails
  <2>6. CASE Redeliver \/ Tick \/ LoseSecret \/ Delete \/ UNCHANGED vars
    BY <2>6 DEF Redeliver, Tick, LoseSecret, Delete, vars
  <2> QED BY <2>1, <2>2, <2>3, <2>4, <2>5, <2>6 DEF Next, Work, Sweep
<1> QED BY <1>1 DEF TypeOK

\* Without stalls, one worker at a time holds the delivery, under a valid lease.
HeldInv == HolderInv /\ \A v, w \in Workers : Attempting(v) /\ Attempting(w) => v = w

LEMMA HeldStep ==
  ASSUME TypeOK, BoundsInv, HeldInv, stalls = 0, stalls' = 0, [Next]_vars
  PROVE  HeldInv'
<1> USE Times
<1>0. row \in Row /\ worker \in [Workers -> Worker]
      /\ \A w \in Workers : worker[w].age \in Nat /\ worker[w].late = FALSE
  BY WorkerFields DEF TypeOK, BoundsInv
\* A step of a worker that does not begin an attempt, and leaves a row that is pending
\* out of the reach of sweeps unless it is as it was.
<1>1. ASSUME NEW w \in Workers, \A v \in Workers \ {w} : worker'[v] = worker[v],
             Attempting(w)' => /\ Attempting(w) /\ worker'[w].age = worker[w].age
                               /\ worker'[w].attempts = worker[w].attempts,
             worker'[w].pc = "found" => worker'[w].attempts = row.attempts,
             row' = row
      PROVE  HeldInv'
  BY <1>1 DEF HeldInv, HolderInv, Attempting, Due
<1>2. ASSUME NEW w \in Workers, \A v \in Workers \ {w} : worker'[v] = worker[v],
             ~Attempting(w)', worker'[w].pc # "found", Attempting(w), row' \in Row,
             IF row.status = "deleted" THEN row' = row
             ELSE row'.status = "pending" => row'.next = Backoff
      PROVE  HeldInv'
  <2>1. \A v \in Workers : ~Attempting(v)'
    BY <1>2 DEF HeldInv, Attempting
  <2>2. row'.status = "pending" => row'.next = Backoff
    BY <1>2
  <2>3. ASSUME NEW v \in Workers, worker'[v].pc = "found"
        PROVE  ~(row'.status = "pending" /\ row'.next <= -worker'[v].age)
    <3>1. worker'[v] = worker[v] /\ worker[v].age \in Nat
      BY <1>0, <1>2, <2>3
    <3> QED BY <2>2, <3>1
  <2> QED BY <2>1, <2>3 DEF HeldInv, HolderInv, Due
<1>3. ASSUME NEW w \in Workers, NEW h \in Hosts, Enqueue(w, h) PROVE HeldInv'
  <2>1. /\ row'.status = "pending" /\ row'.lease = Lease /\ row'.attempts = row.attempts
        /\ \A v \in Workers \ {w} : worker'[v] = worker[v]
        /\ worker'[w].pc = "claimed" /\ worker'[w].attempts = 0 /\ worker'[w].age = 0
    BY <1>3, EnqueueStep
  <2>2. row.attempts = 0 /\ \A v \in Workers : worker[v].pc = "idle"
    BY <1>3 DEF Enqueue, BoundsInv
  <2>3. \A v \in Workers \ {w} : worker'[v].pc = "idle"
    BY <2>1, <2>2
  <2> QED BY <2>1, <2>2, <2>3 DEF HeldInv, HolderInv, Attempting
<1>4. CASE Redeliver
  <2>1. \A v \in Workers : worker'[v].pc = "idle"
    BY <1>4 DEF Redeliver, BoundsInv
  <2> QED BY <2>1 DEF HeldInv, HolderInv, Attempting
<1>5. ASSUME NEW w \in Workers, NEW h \in Hosts, Find(w, h) PROVE HeldInv'
  <2>1. /\ \A v \in Workers \ {w} : worker'[v] = worker[v]
        /\ worker'[w].pc = "found" /\ worker'[w].attempts = row.attempts
    BY <1>5, FindStep
  <2> QED BY <1>1, <1>5, <2>1 DEF Find, Attempting
<1>6. ASSUME NEW w \in Workers, Claim(w) PROVE HeldInv'
  <2>1. CASE Claimable(w)
    <3>1. row.status = "pending" /\ \A v \in Workers : ~Attempting(v)
      BY <1>6, <2>1, ClaimAlone DEF HeldInv
    <3>2. /\ row'.status = row.status /\ row'.lease = Lease - worker[w].age
          /\ row'.attempts = row.attempts /\ \A v \in Workers \ {w} : worker'[v] = worker[v]
          /\ worker'[w].pc = "claimed" /\ worker'[w].attempts = worker[w].attempts
          /\ worker'[w].age = 0
      BY <1>6, <2>1, ClaimStep
    <3>3. row.attempts = worker[w].attempts /\ worker[w].age <= MaxLag /\ worker[w].age \in Nat
      BY <1>0, <1>6, <2>1 DEF Claim, Claimable, HeldInv, HolderInv, BoundsInv
    <3>4. \A v \in Workers : Attempting(v)' => v = w
      BY <3>1, <3>2 DEF Attempting
    <3>5. row'.lease >= Lease - MaxLag - worker'[w].age /\ row'.lease >= 0
      BY <3>2, <3>3
    <3>6. \A v \in Workers : worker'[v].pc = "found" => ~(row'.lease < -worker'[v].age)
      BY <1>0, <3>2, <3>5
    <3> QED BY <3>1, <3>2, <3>3, <3>4, <3>5, <3>6 DEF HeldInv, HolderInv, Due
  <2>2. CASE ~Claimable(w)
    <3>1. Go(w, Idle) /\ row' = row
      BY <1>6, <2>2 DEF Claim
    <3>2. \A v \in Workers \ {w} : worker'[v] = worker[v]
      BY <3>1, OverStep
    <3>3. worker'[w].pc = "idle"
      BY <3>1, OverStep
    <3> QED BY <1>1, <3>1, <3>2, <3>3 DEF Attempting
  <2> QED BY <2>1, <2>2
<1>7. ASSUME NEW w \in Workers, Abandon(w) \/ Succeed(w) \/ Fail(w) PROVE HeldInv'
  <2>1. Go(w, Idle) /\ Attempting(w)
    BY <1>7, OutcomeStep DEF Abandon, Succeed, Fail, Attempting
  <2>2. worker'[w].pc = "idle" /\ \A v \in Workers \ {w} : worker'[v] = worker[v]
    BY <2>1, OverStep
  <2>3. row' \in Row /\ IF row.status = "deleted" THEN row' = row
                       ELSE row'.status = "pending" => row'.next = Backoff
    BY <1>7, OutcomeStep
  <2> QED BY <1>2, <2>1, <2>2, <2>3 DEF Attempting
<1>8. ASSUME NEW w \in Workers, Send(w) PROVE HeldInv'
  <2>1. /\ \A v \in Workers \ {w} : worker'[v] = worker[v]
        /\ worker'[w].pc \in {"ok", "bad"} /\ worker'[w].attempts = worker[w].attempts
        /\ worker'[w].age = worker[w].age
    BY <1>8, SendStep
  <2> QED BY <1>1, <1>8, <2>1 DEF Send, Attempting
<1>9. CASE Tick
  <2>1. /\ row' \in Row /\ row'.status = row.status /\ row'.attempts = row.attempts
        /\ row'.next = Sooner(row.next) /\ row'.lease = Sooner(row.lease)
    BY <1>9, TickStep
  <2>2. \A w \in Workers : /\ worker'[w].pc = worker[w].pc
                           /\ worker'[w].attempts = worker[w].attempts
                           /\ Attempting(w)' <=> Attempting(w)
    BY <1>9, TickStep DEF Attempting
  <2>3. ASSUME NEW w \in Workers, Attempting(w), row.status = "pending"
        PROVE  row'.lease >= Lease - MaxLag - worker'[w].age /\ row'.attempts = worker'[w].attempts
    <3>1. worker'[w].age = worker[w].age + 1 /\ worker[w].age < Deadline
      BY <1>0, <1>9, <2>3, TickStep DEF Attempting
    <3>2. row.lease >= Lease - MaxLag - worker[w].age /\ row.attempts = worker[w].attempts
      BY <2>3 DEF HeldInv, HolderInv
    <3>3. row.lease \in Int /\ row.lease > Past
      BY <1>0, <3>1, <3>2, RowFields
    <3> QED BY <1>0, <2>1, <2>2, <3>1, <3>2, <3>3 DEF Sooner
  <2>4. ASSUME NEW w \in Workers, worker[w].pc = "found", Due(worker[w].age)'
        PROVE  row'.attempts = worker'[w].attempts
    <3>1. worker'[w].age = worker[w].age + 1 /\ worker[w].age < MaxLag
      BY <1>0, <1>9, <2>4, TickStep
    <3>2. row'.status = "pending" /\ row'.next <= -(worker[w].age + 1)
          /\ row'.lease < -(worker[w].age + 1)
      BY <2>4, <3>1 DEF Due
    <3>3. Due(worker[w].age)
      <4>1. worker[w].age \in 0..MaxLag
        BY <1>0, <3>1
      <4> QED BY <1>0, <2>1, <3>1, <3>2, <4>1, DueTick
    <3> QED BY <2>1, <2>2, <2>4, <3>3 DEF HeldInv, HolderInv
  <2> QED BY <2>1, <2>2, <2>3, <2>4 DEF HeldInv, HolderInv
<1>10. ASSUME NEW w \in Workers, Stall(w) PROVE HeldInv'
  BY <1>10 DEF Stall, TypeOK
<1>11. ASSUME NEW h \in Hosts, Crash(h) PROVE HeldInv'
  <2>1. row' = row /\ \A w \in Workers : worker'[w] = worker[w] \/ worker'[w].pc = "idle"
    BY <1>11, CrashStep DEF Crash
  <2> QED BY <2>1 DEF HeldInv, HolderInv, Attempting, Due
<1>12. CASE LoseSecret \/ UNCHANGED vars
  <2>1. row' = row /\ worker' = worker
    BY <1>12 DEF LoseSecret, vars
  <2> QED BY <2>1 DEF HeldInv, HolderInv, Attempting, Due
<1>13. CASE Delete
  <2>1. row'.status = "deleted" /\ worker' = worker
    BY <1>0, <1>13 DEF Delete, Row
  <2> QED BY <2>1 DEF HeldInv, HolderInv, Attempting, Due
<1>14. ASSUME NEW w \in Workers, WriteFails(w) PROVE HeldInv'
  BY <1>1, <1>14, WriteFailsStep DEF Attempting
<1> QED
  BY <1>14, <1>3, <1>4, <1>5, <1>6, <1>7, <1>8, <1>9, <1>10, <1>11, <1>12, <1>13
  DEF Next, Work, Sweep

\* Without stalls, what happens to the requests keeps the accounts.
LEMMA SendsStep ==
  ASSUME TypeOK, BoundsInv, HeldInv, SendsInv, stalls = 0, stalls' = 0, [Next]_vars
  PROVE  SendsInv'
<1> USE Times
<1>0. /\ row \in Row /\ row.attempts \in 0..MaxAttempts /\ sends \in 0..MaxSends
      /\ losses \in 0..MaxFaults
  BY RowFields DEF TypeOK
\* Nothing is sent, answered or lost.
<1>1. ASSUME row'.status = row.status, row'.attempts = row.attempts,
             row'.abandoned = row.abandoned, sends' = sends, losses' = losses,
             \A w \in Workers : worker'[w].pc \in {"ok", "bad"} <=> worker[w].pc \in {"ok", "bad"}
      PROVE  SendsInv'
  <2>1. InAir' <=> InAir
    BY <1>1 DEF InAir
  <2> QED BY <1>1, <2>1 DEF SendsInv
\* Nobody is at an attempt.
<1>2. ASSUME NEW w \in Workers, worker[w].pc = "claimed"
      PROVE  ~InAir
  BY <1>2 DEF HeldInv, Attempting, InAir
<1>3. ASSUME NEW w \in Workers, NEW h \in Hosts, Enqueue(w, h) PROVE SendsInv'
  <2>1. \A v \in Workers : worker'[v].pc \notin {"ok", "bad"}
    BY <1>3, EnqueueStep DEF Enqueue, BoundsInv
  <2>2. row'.status = "pending" /\ row'.attempts = 0 /\ sends' = 0 /\ losses' = losses
    BY <1>3, EnqueueStep DEF Enqueue, BoundsInv
  <2> QED BY <1>0, <2>1, <2>2 DEF SendsInv, InAir
<1>4. CASE Redeliver
  <2>1. \A v \in Workers : worker'[v].pc \notin {"ok", "bad"}
    BY <1>4 DEF Redeliver, BoundsInv
  <2>2. row'.status = "pending" /\ row'.attempts = row.attempts
    BY <1>0, <1>4 DEF Redeliver, Row
  <2>3. row.attempts = 0 /\ sends' = 0 /\ losses' = losses
    BY <1>4 DEF Redeliver, BoundsInv
  <2> QED BY <1>0, <2>1, <2>2, <2>3 DEF SendsInv, InAir
<1>5. ASSUME NEW w \in Workers, NEW h \in Hosts, Find(w, h) PROVE SendsInv'
  <2>1. \A v \in Workers \ {w} : worker'[v] = worker[v]
    BY <1>5, FindStep
  <2>2. worker'[w].pc = "found" /\ worker[w].pc = "idle"
    BY <1>5, FindStep DEF Find
  <2> QED BY <1>1, <1>5, <2>1, <2>2 DEF Find
<1>6. ASSUME NEW w \in Workers, Claim(w) PROVE SendsInv'
  <2>1. \A v \in Workers \ {w} : worker'[v] = worker[v]
    BY <1>6, ClaimStep, OverStep DEF Claim
  <2>2. worker'[w].pc \in {"claimed", "idle"} /\ worker[w].pc = "found"
    BY <1>6, ClaimStep, OverStep DEF Claim
  <2>3. /\ row'.status = row.status /\ row'.attempts = row.attempts
        /\ row'.abandoned = row.abandoned
    BY <1>6, ClaimStep DEF Claim
  <2>4. sends' = sends /\ losses' = losses
    BY <1>6 DEF Claim
  <2> QED BY <1>1, <2>1, <2>2, <2>3, <2>4
<1>7. ASSUME NEW w \in Workers, Abandon(w) \/ Succeed(w) \/ Fail(w) PROVE SendsInv'
  <2>1. Go(w, Idle) /\ Attempting(w) /\ sends' = sends /\ losses' = losses
    BY <1>7, OutcomeStep DEF Abandon, Succeed, Fail, Attempting
  <2>2. worker'[w].pc = "idle" /\ \A v \in Workers \ {w} : worker'[v] = worker[v]
    BY <2>1, OverStep
  <2>3. ~InAir'
    BY <2>1, <2>2 DEF HeldInv, Attempting, InAir
  <2>4. CASE row.status = "deleted"
    <3>1. row' = row
      BY <1>7, <2>4, OutcomeStep
    <3> QED BY <2>1, <2>4, <3>1 DEF SendsInv
  <2>5. CASE row.status # "deleted" /\ Abandon(w)
    <3>1. ~InAir
      BY <1>2, <2>5 DEF Abandon
    <3>2. row'.status = "failed" /\ row'.attempts = row.attempts /\ row'.abandoned
      BY <1>7, <2>5, OutcomeStep
    <3> QED BY <2>1, <2>3, <2>5, <3>1, <3>2 DEF SendsInv
  <2>6. CASE row.status # "deleted" /\ ~Abandon(w)
    <3>1. Succeed(w) \/ Fail(w)
      BY <1>7, <2>6
    <3>2. InAir
      BY <3>1 DEF Succeed, Fail, InAir
    <3>3. row.attempts = worker[w].attempts
      BY <2>1, <2>6 DEF HeldInv, HolderInv
    <3>4. /\ row'.attempts = row.attempts + 1
          /\ row'.status = "failed" => row'.attempts = MaxAttempts
      BY <1>7, <2>6, <3>1, <3>3, OutcomeStep
    <3> QED BY <1>0, <2>1, <2>3, <2>6, <3>2, <3>4 DEF SendsInv
  <2> QED BY <2>4, <2>5, <2>6
<1>8. ASSUME NEW w \in Workers, Send(w) PROVE SendsInv'
  <2>1. ~InAir /\ Attempting(w) /\ row' = row /\ losses' = losses
    BY <1>2, <1>8 DEF Send, Attempting
  <2>2. InAir'
    BY <1>8, SendStep DEF InAir
  <2>3. row.status = "pending" /\ row.attempts < MaxAttempts
    BY <1>8, <2>1 DEF Send, HeldInv, HolderInv, BoundsInv
  <2>4. sends <= row.attempts + losses /\ sends >= row.attempts
    BY <1>0, <2>1, <2>3 DEF SendsInv
  <2>5. sends' = sends + 1
    BY <1>0, <1>8, <2>3, <2>4 DEF Send
  <2> QED BY <1>0, <2>1, <2>2, <2>3, <2>4, <2>5 DEF SendsInv
<1>9. CASE Tick
  <2>1. /\ row'.status = row.status /\ row'.attempts = row.attempts
        /\ row'.abandoned = row.abandoned /\ \A w \in Workers : worker'[w].pc = worker[w].pc
    BY <1>9, TickStep
  <2>2. sends' = sends /\ losses' = losses
    BY <1>9 DEF Tick
  <2> QED BY <1>1, <2>1, <2>2
<1>10. ASSUME NEW w \in Workers, Stall(w) PROVE SendsInv'
  BY <1>10 DEF Stall, TypeOK
<1>11. ASSUME NEW h \in Hosts, Crash(h) PROVE SendsInv'
  <2>1. InAir' => InAir
    BY <1>11, CrashStep DEF InAir
  <2>2. row' = row /\ sends' = sends /\ losses' = losses + 1
    BY <1>11 DEF Crash
  <2> QED BY <1>0, <2>1, <2>2 DEF SendsInv
<1>12. CASE LoseSecret \/ UNCHANGED vars
  <2>1. row' = row /\ worker' = worker /\ sends' = sends /\ losses' = losses
    BY <1>12 DEF LoseSecret, vars
  <2> QED BY <1>1, <2>1
<1>13. CASE Delete
  <2>1. row'.status = "deleted" /\ sends' = sends /\ losses' = losses
    BY <1>0, <1>13 DEF Delete, Row
  <2> QED BY <2>1 DEF SendsInv
<1>14. ASSUME NEW w \in Workers, WriteFails(w) PROVE SendsInv'
  <2>1. row' = row /\ sends' = sends /\ \A v \in Workers \ {w} : worker'[v] = worker[v]
    BY <1>14, WriteFailsStep
  <2>2. CASE worker[w].pc = "ok"
    <3>1. worker'[w].pc = "bad" /\ losses' = losses
      BY <1>14, <2>2, WriteFailsStep
    <3> QED BY <1>1, <2>1, <2>2, <3>1
  <2>3. CASE worker[w].pc # "ok"
    <3>1. losses' = losses + 1 /\ worker'[w].pc = "idle"
      BY <1>14, <2>3, WriteFailsStep
    <3>2. InAir' => InAir
      BY <2>1, <3>1 DEF InAir
    <3> QED BY <1>0, <2>1, <3>1, <3>2 DEF SendsInv
  <2> QED BY <2>2, <2>3
<1> QED
  BY <1>14, <1>3, <1>4, <1>5, <1>6, <1>7, <1>8, <1>9, <1>10, <1>11, <1>12, <1>13
  DEF Next, Work, Sweep

LEMMA OutboxInit == Init => OutboxInv
<1> SUFFICES ASSUME Init PROVE OutboxInv
  OBVIOUS
<1> USE Times
<1>1. /\ row.status = "none" /\ row.attempts = 0 /\ sends = 0 /\ stalls = 0 /\ losses = 0
      /\ faults = 0 /\ secret = TRUE
      /\ \A w \in Workers : worker[w] = Idle
  BY DEF Init
<1>2. row \in Row
  BY Ranges DEF Init, Row
<1>3. worker \in [Workers -> Worker]
  BY IdleTyped DEF Init
<1>4. TypeOK
  BY <1>1, <1>2, <1>3 DEF TypeOK
<1>5. \A w \in Workers : ~Attempting(w) /\ worker[w].pc = "idle"
  BY <1>1, IdleTyped DEF Attempting
<1>6. BoundsInv
  BY <1>1, <1>5, IdleTyped DEF BoundsInv
<1>7. HolderInv /\ OneAttempt
  BY <1>5 DEF HolderInv, OneAttempt
<1>8. SendsInv
  BY <1>1, <1>5 DEF SendsInv, InAir
<1> QED BY <1>4, <1>6, <1>7, <1>8 DEF OutboxInv

LEMMA OutboxStep == OutboxInv /\ [Next]_vars => OutboxInv'
<1> SUFFICES ASSUME OutboxInv, [Next]_vars PROVE OutboxInv'
  OBVIOUS
<1>1. TypeOK' /\ BoundsInv'
  BY BoundsStep DEF OutboxInv
<1>2. CASE stalls' = 0
  <2>1. stalls = 0 /\ HeldInv /\ SendsInv
    BY <1>2, StallsGrow DEF OutboxInv, OneAttempt, HeldInv
  <2>2. HeldInv' /\ SendsInv'
    BY <1>2, <2>1, HeldStep, SendsStep DEF OutboxInv
  <2> QED BY <1>1, <1>2, <2>2 DEF OutboxInv, OneAttempt, HeldInv
<1>3. CASE stalls' # 0
  BY <1>1, <1>3 DEF OutboxInv, OneAttempt
<1> QED BY <1>2, <1>3

\* The delivery and those who work at it are well formed; as long as attempts end within
\* their lease, one is made at a time, however many processes sweep.
THEOREM OutboxCorrect == Spec => []OutboxInv
<1> QED BY OutboxInit, OutboxStep, PTL DEF Spec

\* Whatever crashes and whichever sweeps overlap, the endpoint is called at most once for
\* each attempt the limit allows and once more for each crash or failed write; and no fewer
\* times than the limit before a delivery is given up.
THEOREM RequestsCounted == Spec => []SendsCounted
<1>1. OutboxInv => SendsCounted
  <2> SUFFICES ASSUME OutboxInv, stalls = 0 PROVE SendsInv => SendsCounted
    BY DEF OutboxInv, SendsCounted
  <2>1. row.attempts \in Nat /\ sends \in Nat
    BY Times, RowFields DEF OutboxInv, TypeOK
  <2> QED BY <2>1, Times DEF SendsInv, SendsCounted
<1> QED BY <1>1, OutboxCorrect, PTL

\* An outcome is never replaced by a late attempt, and counted attempts stay counted.
THEOREM OutcomeStays == Spec => OutcomeKept
<1> DEFINE Kept == \/ stalls > 0
                   \/ /\ row.status \in {"success", "failed"} =>
                           row'.status \in {row.status, "deleted"}
                      /\ row'.attempts >= row.attempts
<1>1. OutboxInv /\ [Next]_vars => [Kept]_vars
  <2> SUFFICES ASSUME OutboxInv, Next, stalls = 0 PROVE Kept
    BY DEF OutboxInv, TypeOK
  <2> USE Times
  <2>0. TypeOK /\ BoundsInv /\ HolderInv /\ row \in Row /\ row.attempts \in Nat
    BY RowFields DEF OutboxInv, TypeOK
  <2>1. ASSUME row'.status = row.status, row'.attempts = row.attempts PROVE Kept
    BY <2>0, <2>1
  <2>2. ASSUME NEW w \in Workers, NEW h \in Hosts, Enqueue(w, h) PROVE Kept
    <3>1. row.status = "none"
      BY <2>2 DEF Enqueue
    <3>2. row'.attempts = row.attempts
      BY <2>0, <2>2, EnqueueStep
    <3> QED BY <2>0, <3>1, <3>2
  <2>3. CASE Redeliver
    BY <2>0, <2>3 DEF Redeliver, Row
  <2>4. ASSUME NEW w \in Workers, Claim(w) PROVE Kept
    BY <2>0, <2>1, <2>4, ClaimStep DEF Claim
  <2>5. ASSUME NEW w \in Workers, Abandon(w) \/ Succeed(w) \/ Fail(w) PROVE Kept
    <3>1. row.status \in {"pending", "deleted"}
          /\ (row.status = "pending" => row.attempts = worker[w].attempts)
      BY <2>0, <2>5 DEF Abandon, Succeed, Fail, HolderInv, Attempting
    <3>2. CASE row.status = "deleted"
      BY <2>0, <2>1, <2>5, <3>2, OutcomeStep
    <3>3. CASE row.status = "pending"
      <4>1. row'.attempts = row.attempts \/ row'.attempts = row.attempts + 1
        BY <2>0, <2>5, <3>1, <3>3, OutcomeStep
      <4> QED BY <2>0, <3>3, <4>1
    <3> QED BY <3>1, <3>2, <3>3
  <2>6. CASE Tick
    BY <2>0, <2>1, <2>6, TickStep
  <2>7. CASE Delete
    BY <2>0, <2>7 DEF Delete, Row
  <2>8. ASSUME row' = row PROVE Kept
    BY <2>1, <2>8
  <2>9. ASSUME NEW w \in Workers, Send(w) \/ Stall(w) PROVE Kept
    BY <2>8, <2>9 DEF Send, Stall
  <2>10. ASSUME NEW w \in Workers, NEW h \in Hosts, Find(w, h) PROVE Kept
    BY <2>8, <2>10 DEF Find
  <2>11. ASSUME (\E h \in Hosts : Crash(h)) \/ \E w \in Workers : WriteFails(w) PROVE Kept
    BY <2>8, <2>11 DEF Crash, WriteFails
  <2>12. CASE LoseSecret
    BY <2>8, <2>12 DEF LoseSecret
  <2> QED
    BY <2>2, <2>3, <2>4, <2>5, <2>6, <2>7, <2>9, <2>10, <2>11, <2>12 DEF Next, Work, Sweep
<1>2. [][Next]_vars /\ []OutboxInv => [][Kept]_vars
  BY <1>1, PTL
<1> QED BY <1>2, OutboxCorrect, PTL DEF Spec, OutcomeKept
=============================================================================
