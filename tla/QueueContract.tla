---------------------------- MODULE QueueContract ----------------------------
(***************************************************************************)
(* What the durable runtime is promised by a queue driver, the contract of *)
(* orchestration-queue-drivers/types.ts: at-least-once delivery under      *)
(* leases.  A task is leased to one claimer at a time; it may be claimed   *)
(* again once no claimer holds a valid lease on it; only a claimer it was  *)
(* delivered to acknowledges it, and then it is never delivered again.     *)
(* Nothing is said of how the next task is chosen.                         *)
(***************************************************************************)
CONSTANTS Tasks, Claimers

VARIABLES present,   \* enqueued and not acknowledged
          done,      \* acknowledged
          leasedTo,  \* per task: the claimers whose lease on it is valid
          delivered  \* per task: the claimers that may still acknowledge it

vars == <<present, done, leasedTo, delivered>>

Init ==
  /\ present = {}
  /\ done = {}
  /\ leasedTo = [t \in Tasks |-> {}]
  /\ delivered = [t \in Tasks |-> {}]

Enqueue ==
  /\ \E t \in Tasks \ (present \cup done) : present' = present \cup {t}
  /\ UNCHANGED <<done, leasedTo, delivered>>

\* One claim leases a batch of tasks on which nobody holds a valid lease.
Claim(c) ==
  \E B \in SUBSET present :
    /\ \A t \in B : leasedTo[t] = {}
    /\ leasedTo' = [t \in Tasks |-> IF t \in B THEN {c} ELSE leasedTo[t]]
    /\ delivered' = [t \in Tasks |-> IF t \in B THEN delivered[t] \cup {c}
                                     ELSE delivered[t]]
    /\ UNCHANGED <<present, done>>

Ack(c, t) ==
  /\ c \in delivered[t]
  /\ present' = present \ {t}
  /\ done' = done \cup {t}
  /\ delivered' = [delivered EXCEPT ![t] = @ \ {c}]
  /\ leasedTo' = [leasedTo EXCEPT ![t] = @ \ {c}]

\* Leases run out and claimers give up, any number of them at once.
Lapse ==
  /\ \A t \in Tasks : leasedTo'[t] \subseteq leasedTo[t]
  /\ \A t \in Tasks : delivered'[t] \subseteq delivered[t]
  /\ UNCHANGED <<present, done>>

Next ==
  \/ Enqueue
  \/ \E c \in Claimers : Claim(c)
  \/ \E c \in Claimers, t \in Tasks : Ack(c, t)
  \/ Lapse

Spec == Init /\ [][Next]_vars
=============================================================================
