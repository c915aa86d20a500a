--------------------------- MODULE WebhookOutbox ---------------------------
(***************************************************************************)
(* One delivery of the webhook outbox (lib/webhookDispatcher.ts): the row  *)
(* written before the first attempt or by redeliverWebhookDelivery         *)
(* (lib/webhooks.ts), the sweeps that every process starts on a timer and  *)
(* that may overlap (createSweep of lib/scheduler.ts), and the attempts.   *)
(*                                                                         *)
(* Times are kept relative to the present: Tick lets a unit pass.  A sweep *)
(* reads the clock once, and finds and claims with that reading.           *)
(***************************************************************************)
EXTENDS Integers, FiniteSets

CONSTANTS Hosts, Workers,  \* bound: sweeps and attempts under way at one time
          None,
          MaxAttempts,     \* MAX_ATTEMPTS
          Backoff,         \* the shortest backoff
          Deadline,        \* how long an attempt lasts: DELIVERY_TIMEOUT_MS and its writes
          Lease,           \* LEASE_MS
          MaxLag,          \* how long a sweep takes from its reading to its last claim
          MaxFaults        \* bound: crashes, stalls, failed writes, deletions, lost keys

ASSUME TimesAssumption ==
  /\ {MaxAttempts, Backoff, Deadline, Lease, MaxLag} \subseteq Nat \ {0}
  /\ MaxLag + Deadline < Lease /\ MaxFaults \in Nat /\ None \notin Hosts

VARIABLES row,     \* the delivery
          worker,  \* a sweep, then the attempt it has claimed; or the first attempt
          secret,  \* the secret of the webhook can be decrypted
          sends,   \* history: requests made to the endpoint, counted to MaxSends
          losses,  \* history: crashes and attempts that ended without an outcome
          stalls, faults

vars == <<row, worker, secret, sends, losses, stalls, faults>>

Past == -(MaxLag + 1)  \* long enough ago for every sweep; also a null
MaxSends == MaxAttempts + MaxFaults + 1
Sooner(x) == IF x > Past THEN x - 1 ELSE Past

\* next and lease: the time until next_attempt_at and until lease_expires_at.
Row == [status: {"none", "pending", "success", "failed", "deleted"},
        attempts: 0..MaxAttempts, next: Past..Backoff, lease: Past..Lease,
        abandoned: BOOLEAN]

Worker == [pc: {"idle", "found", "claimed", "ok", "bad"}, host: Hosts \cup {None},
           swept: BOOLEAN,      \* started by a sweep, which keeps it in inFlight
           attempts: 0..MaxAttempts,  \* as the row said when it was read
           age: 0..Lease, late: BOOLEAN]

Idle == [pc |-> "idle", host |-> None, swept |-> FALSE, attempts |-> 0, age |-> 0,
         late |-> FALSE]

TypeOK ==
  /\ row \in Row /\ worker \in [Workers -> Worker] /\ secret \in BOOLEAN
  /\ sends \in 0..MaxSends
  /\ losses \in 0..MaxFaults /\ stalls \in 0..MaxFaults /\ faults \in 0..MaxFaults

Init ==
  /\ row = [status |-> "none", attempts |-> 0, next |-> Past, lease |-> Past,
            abandoned |-> FALSE]
  /\ worker = [w \in Workers |-> Idle]
  /\ secret = TRUE /\ sends = 0 /\ losses = 0 /\ stalls = 0 /\ faults = 0

Go(w, s) == worker' = [worker EXCEPT ![w] = s]
Attempting(w) == worker[w].pc \in {"claimed", "ok", "bad"}
InFlight(h) == \E w \in Workers : Attempting(w) /\ worker[w].swept /\ worker[w].host = h
Fault == faults < MaxFaults /\ faults' = faults + 1

(***************************************************************************)
(* The row.                                                                *)
(***************************************************************************)
\* handleEvent: the row is leased at insertion, and attempted at once.
Enqueue(w, h) ==
  /\ row.status = "none" /\ worker[w].pc = "idle"
  /\ row' = [row EXCEPT !.status = "pending", !.next = 0, !.lease = Lease]
  /\ Go(w, [Idle EXCEPT !.pc = "claimed", !.host = h])
  /\ UNCHANGED <<secret, sends, losses, stalls, faults>>

\* redeliverWebhookDelivery leaves its new row to the sweeps.
Redeliver ==
  /\ row.status = "none"
  /\ row' = [row EXCEPT !.status = "pending", !.next = 0]
  /\ UNCHANGED <<worker, secret, sends, losses, stalls, faults>>

\* duePredicate at a time that is age units ago.
Due(age) == row.status = "pending" /\ row.next <= -age /\ row.lease < -age

(***************************************************************************)
(* A sweep.                                                                *)
(***************************************************************************)
Find(w, h) ==
  /\ worker[w].pc = "idle" /\ Due(0)
  /\ Go(w, [Idle EXCEPT !.pc = "found", !.host = h, !.swept = TRUE, !.attempts = row.attempts])
  /\ UNCHANGED <<row, secret, sends, losses, stalls, faults>>

\* Mutant: the claim does not look at the lease.
ClaimableLeased(w) == row.status = "pending" /\ row.next <= -worker[w].age

\* Mutant: the claim reads the clock again.
ClaimableNow(w) == ~InFlight(worker[w].host) /\ Due(0)

Claimable(w) == ~InFlight(worker[w].host) /\ Due(worker[w].age)

Claim(w) ==
  /\ worker[w].pc = "found"
  /\ IF Claimable(w)
     THEN /\ row' = [row EXCEPT !.lease = Lease - worker[w].age]
          /\ Go(w, [worker[w] EXCEPT !.pc = "claimed", !.age = 0])
     ELSE Go(w, Idle) /\ UNCHANGED row
  /\ UNCHANGED <<secret, sends, losses, stalls, faults>>

(***************************************************************************)
(* An attempt.                                                             *)
(***************************************************************************)
\* writeOutcome addresses the row by its key alone.
Write(r) == row' = IF row.status = "deleted" THEN row ELSE r

\* Mutant: the error of a secret that cannot be decrypted is thrown, not recorded.
AbandonThrown(w) ==
  /\ worker[w].pc = "claimed" /\ (~secret \/ row.status = "deleted")
  /\ Go(w, Idle)
  /\ UNCHANGED <<row, secret, sends, losses, stalls, faults>>

\* prepareAttempt: no webhook any more, or a secret that cannot be decrypted.
Abandon(w) ==
  /\ worker[w].pc = "claimed" /\ (~secret \/ row.status = "deleted")
  /\ Write([row EXCEPT !.status = "failed", !.next = Past, !.lease = Past, !.abandoned = TRUE])
  /\ Go(w, Idle)
  /\ UNCHANGED <<secret, sends, losses, stalls, faults>>

\* The endpoint accepts the request, or refuses it, or nothing comes back in time.
Send(w) ==
  /\ worker[w].pc = "claimed" /\ secret /\ row.status # "deleted"
  /\ sends' = IF sends < MaxSends THEN sends + 1 ELSE sends
  /\ \E answer \in {"ok", "bad"} : Go(w, [worker[w] EXCEPT !.pc = answer])
  /\ UNCHANGED <<row, secret, losses, stalls, faults>>

Succeed(w) ==
  /\ worker[w].pc = "ok"
  /\ Write([row EXCEPT !.status = "success", !.attempts = worker[w].attempts + 1,
                       !.next = Past, !.lease = Past])
  /\ Go(w, Idle)
  /\ UNCHANGED <<secret, sends, losses, stalls, faults>>

Exhausted(n) == n >= MaxAttempts

\* recordFailedAttempt.
Fail(w) ==
  LET n == worker[w].attempts + 1 IN
  /\ worker[w].pc = "bad"
  /\ Write(IF Exhausted(n)
           THEN [row EXCEPT !.status = "failed", !.attempts = n, !.next = Past, !.lease = Past]
           ELSE [row EXCEPT !.status = "pending", !.attempts = n, !.next = Backoff, !.lease = Past])
  /\ Go(w, Idle)
  /\ UNCHANGED <<secret, sends, losses, stalls, faults>>

\* The row cannot be read, or the outcome not written: what was a success is recorded as
\* a failed attempt, and a failed attempt not at all; the lease runs out.
WriteFails(w) ==
  /\ Fault
  /\ \/ worker[w].pc = "ok" /\ Go(w, [worker[w] EXCEPT !.pc = "bad"]) /\ UNCHANGED losses
     \/ worker[w].pc \in {"claimed", "bad"} /\ Go(w, Idle) /\ losses' = losses + 1
  /\ UNCHANGED <<row, secret, sends, stalls>>

(***************************************************************************)
(* The environment.                                                        *)
(***************************************************************************)
\* Nobody stays longer at a sweep than MaxLag, at an attempt than Deadline.
Patient(w) ==
  \/ worker[w].pc = "idle" \/ worker[w].late
  \/ worker[w].pc = "found" /\ worker[w].age < MaxLag
  \/ Attempting(w) /\ worker[w].age < Deadline

Tick ==
  /\ \A w \in Workers : Patient(w)
  /\ row' = [row EXCEPT !.next = Sooner(@), !.lease = Sooner(@)]
  /\ worker' = [w \in Workers |->
       IF worker[w].pc = "idle" \/ worker[w].late THEN worker[w]
       ELSE [worker[w] EXCEPT !.age = @ + 1]]
  /\ UNCHANGED <<secret, sends, losses, stalls, faults>>

\* An attempt takes longer than its deadline: its writes are held up.
Stall(w) ==
  /\ Attempting(w) /\ ~worker[w].late /\ Fault
  /\ Go(w, [worker[w] EXCEPT !.late = TRUE]) /\ stalls' = stalls + 1
  /\ UNCHANGED <<row, secret, sends, losses>>

Crash(h) ==
  /\ \E w \in Workers : worker[w].host = h
  /\ Fault /\ losses' = losses + 1
  /\ worker' = [w \in Workers |-> IF worker[w].host = h THEN Idle ELSE worker[w]]
  /\ UNCHANGED <<row, secret, sends, stalls>>

\* The key of secrets changes.
LoseSecret ==
  /\ secret /\ Fault
  /\ secret' = FALSE
  /\ UNCHANGED <<row, worker, sends, losses, stalls>>

\* The webhook is deleted, and its deliveries with it.
Delete ==
  /\ row.status \in {"pending", "success", "failed"} /\ Fault
  /\ row' = [row EXCEPT !.status = "deleted"]
  /\ UNCHANGED <<worker, secret, sends, losses, stalls>>

Work(w) == Claim(w) \/ Abandon(w) \/ Send(w) \/ Succeed(w) \/ Fail(w)
Sweep == \E w \in Workers, h \in Hosts : Find(w, h)

Next ==
  \/ Redeliver \/ Sweep \/ Tick \/ LoseSecret \/ Delete
  \/ \E w \in Workers, h \in Hosts : Enqueue(w, h)
  \/ \E w \in Workers : Work(w) \/ WriteFails(w) \/ Stall(w)
  \/ \E h \in Hosts : Crash(h)

Spec == Init /\ [][Next]_vars
\* Time passes, timers start sweeps, and what is under way goes on.
FairSpec ==
  Spec /\ WF_vars(Tick) /\ WF_vars(Sweep) /\ \A w \in Workers : WF_vars(Work(w))

(***************************************************************************)
(* Properties.                                                             *)
(***************************************************************************)
\* Overlapping sweeps and several processes make one attempt at a time, as long as
\* attempts end within their lease.
OneAttempt ==
  stalls = 0 => \A v, w \in Workers : Attempting(v) /\ Attempting(w) => v = w

\* What bounds the ages and the counts, whoever is late.
BoundsInv ==
  /\ losses <= faults /\ stalls <= faults
  /\ row.status = "none" => \A w \in Workers : worker[w].pc = "idle"
  /\ row.status \in {"none", "pending"} => row.attempts < MaxAttempts
  /\ row.status = "none" => row.attempts = 0 /\ sends = 0
  /\ \A w \in Workers :
       /\ worker[w].attempts < MaxAttempts
       /\ worker[w].pc = "found" => worker[w].age <= MaxLag
       /\ Attempting(w) => worker[w].age <= Deadline
       /\ worker[w].late => stalls > 0

\* An attempt holds the row until its lease ends, which was counted from a reading of
\* the clock that is no older than MaxLag; its copy of the count is that of the row.
HolderInv == \A w \in Workers :
  /\ Attempting(w) => row.status \in {"pending", "deleted"}
  /\ Attempting(w) /\ row.status = "pending" =>
       row.lease >= Lease - MaxLag - worker[w].age /\ row.attempts = worker[w].attempts
  /\ worker[w].pc = "found" /\ Due(worker[w].age) => row.attempts = worker[w].attempts

\* Every request made is counted on the row, on its way there, or lost with its attempt.
InAir == \E w \in Workers : worker[w].pc \in {"ok", "bad"}

SendsInv ==
  /\ sends <= MaxAttempts + losses
  /\ row.status # "deleted" =>
       /\ sends <= row.attempts + losses + (IF InAir THEN 1 ELSE 0)
       /\ sends >= row.attempts + (IF InAir THEN 1 ELSE 0)
  /\ row.status = "failed" /\ ~row.abandoned => row.attempts = MaxAttempts

\* The delivery and those who work at it are well formed, one of them at an attempt, and
\* every request is accounted for.
OutboxInv == TypeOK /\ OneAttempt /\ BoundsInv /\ (stalls = 0 => HolderInv /\ SendsInv)

\* The count of attempts is never taken from an old copy of the row: the endpoint is
\* called three times and once more for each crash or failed write, and no fewer before
\* giving up.
SendsCounted ==
  stalls = 0 =>
    /\ sends <= MaxAttempts + losses
    /\ row.status = "failed" /\ ~row.abandoned => sends >= MaxAttempts

\* A delivery that has an outcome keeps it, and attempts that were counted stay counted.
OutcomeKept ==
  [][\/ stalls > 0
     \/ /\ row.status \in {"success", "failed"} => row'.status \in {row.status, "deleted"}
        /\ row'.attempts >= row.attempts]_vars

\* Whatever crashes, a delivery is not lost: it succeeds, fails or is deleted.
DeliveryEnds == []<>(row.status # "pending")
=============================================================================
