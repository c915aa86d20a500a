------------------------------ MODULE RunGraph ------------------------------
(***************************************************************************)
(* How one orchestration run walks its graph: orchestrationGraph.ts (which *)
(* nodes a completed node activates), orchestrationBatchResults.ts and     *)
(* orchestrationRunLoop.ts (a round of nodes and its checkpoint),          *)
(* orchestrationIdempotency.ts (the keyed record of a side effect) and the *)
(* entries orchestrationEngine.ts builds to start, wake, resume and        *)
(* re-drive the run.                                                       *)
(*                                                                         *)
(* One driver at a time drives the run; it may die at any point, after     *)
(* which only the rows are left.  Nodes are numbered along the edges, for  *)
(* cyclic graphs are refused before they are stored.  What a node will     *)
(* decide (its verdict) is fixed with the graph, so that the nodes a run   *)
(* ought to execute are known: Reached.                                    *)
(*                                                                         *)
(* The proofs extend this module together with RunQueue, so the names the  *)
(* two would share are those of the walk here.                             *)
(***************************************************************************)
EXTENDS Integers, FiniteSets

CONSTANTS Nodes,        \* 1..n
          Graphs,       \* the graphs to run: kind, verdict, edges, tries
          MaxAttempts,  \* bound on the retry.maxAttempts of a graph
          MaxCrashes    \* bound

\* "effect" and "tool" nodes are keyed; a tool may be blocked by a guardrail.
Kinds == {"plain", "effect", "tool", "condition", "delay", "human", "approval"}
Verdicts == {"run", "x", "y", "approved", "rejected", "blocked"}

\* A condition yields a label of its own, an approval its decision, a tool goes through or not.
MayDecide(kind) ==
  CASE kind = "condition" -> {"x", "y"}
    [] kind = "approval" -> {"approved", "rejected"}
    [] kind = "tool" -> {"run", "blocked"}
    [] OTHER -> {"run"}

\* An edge follows a label (cond) or is unlabelled; join is its activation_condition
\* within the one group of its target, "none" when it has no group.
Edges == [from: Nodes, to: Nodes, cond: Verdicts \cup {"any label"},
          join: {"none", "any", "all"}]

\* tries is retry.maxAttempts, one policy for all nodes of a graph.
Graph == [kind: [Nodes -> Kinds], verdict: [Nodes -> Verdicts], edges: SUBSET Edges,
          tries: 1..MaxAttempts]

ASSUME GraphsAssumption ==
  /\ Nodes \subseteq Nat \ {0} /\ IsFiniteSet(Nodes)
  /\ \A h \in Graphs :
       /\ h \in Graph /\ \A e \in h.edges : e.from < e.to
       /\ \A n \in Nodes : h.verdict[n] \in MayDecide(h.kind[n])
ASSUME BoundsAssumption == MaxAttempts \in Nat \ {0} /\ MaxCrashes \in Nat

VARIABLES g,        \* the pinned graph of the run
          run,      \* its row: status, active nodes, artifacts, wake context
          ckpt,     \* artifacts of its latest checkpoint
          key,      \* per node and attempt: status of the keyed execution record
          fired,    \* per node and attempt: times its side effect happened
          finished, \* nodes with a completed execution record
          drv,      \* the memory of the driver
          crashes

walkVars == <<g, run, ckpt, key, fired, finished, drv, crashes>>

Attempts == 1..MaxAttempts
NoWait == [node |-> 0, attempt |-> 0]

\* What a node of the round has come to.
Results == {"none", "dispatched", "fired", "artifact", "label", "blocked",
            "delay", "retry", "requires_action", "failed"}

RunRow == [status: {"queued", "running", "sleeping", "awaiting_input", "succeeded", "failed"},
           active: SUBSET Nodes, arts: SUBSET Nodes,
           wait: [node: Nodes \cup {0}, attempt: 0..MaxAttempts]]

Driver == [pc: {"none", "round", "settle", "nap"}, inline: BOOLEAN,
           done: SUBSET Nodes, arts: SUBSET Nodes, activated: SUBSET Nodes,
           active: SUBSET Nodes, labels: [Nodes -> Verdicts \cup {"none"}],
           attempt: [Nodes -> Attempts], result: [Nodes -> Results],
           outcome: {"none", "succeeded", "failed", "awaiting_input", "sleeping"},
           wait: [node: Nodes \cup {0}, attempt: 0..MaxAttempts]]

Nobody == [pc |-> "none", inline |-> FALSE, done |-> {}, arts |-> {}, activated |-> {},
           active |-> {}, labels |-> [n \in Nodes |-> "none"],
           attempt |-> [n \in Nodes |-> 1], result |-> [n \in Nodes |-> "none"],
           outcome |-> "none", wait |-> NoWait]

WalkTypeOK ==
  /\ g \in Graph
  /\ run \in RunRow
  /\ ckpt \subseteq Nodes
  /\ key \in [Nodes -> [Attempts -> {"none", "running", "failed", "completed"}]]
  /\ fired \in [Nodes -> [Attempts -> Nat]]
  /\ finished \subseteq Nodes
  /\ drv \in Driver
  /\ crashes \in 0..MaxCrashes

WalkInit ==
  /\ g \in Graphs
  /\ run = [status |-> "queued", active |-> {}, arts |-> {}, wait |-> NoWait]
  /\ ckpt = {}
  /\ key = [n \in Nodes |-> [a \in Attempts |-> "none"]]
  /\ fired = [n \in Nodes |-> [a \in Attempts |-> 0]]
  /\ finished = {}
  /\ drv = Nobody
  /\ crashes = 0

(***************************************************************************)
(* orchestrationGraph.ts                                                   *)
(***************************************************************************)
StartNodes == {n \in Nodes : \A e \in g.edges : e.to # n}

\* edgeConditionMet.
EdgeMet(e, label, decision) ==
  IF e.cond # "any label" THEN label = e.cond ELSE decision => label = "approved"

Group(e) == {f \in g.edges : f.to = e.to /\ f.join # "none"}

\* Mutant: one completed source opens a join.
GroupOpened(e, done) == \E f \in Group(e) \cup {e} : f.from \in done

\* activationGroupSatisfied.
GroupSatisfied(e, done) == e.join = "all" => \A f \in Group(e) : f.from \in done

\* resolveNextNodes.
NextNodes(n, done, labels, decisions) ==
  {e.to : e \in {f \in g.edges :
     /\ f.from = n
     /\ EdgeMet(f, labels[n], n \in decisions)
     /\ GroupSatisfied(f, done)}}

NoLabels == [n \in Nodes |-> "none"]

(***************************************************************************)
(* Loop entries: a driver enters executeRunLoop with some nodes activated. *)
(***************************************************************************)
Entry(active, done, arts, labels, inline) ==
  [Nobody EXCEPT !.pc = "round", !.inline = inline, !.done = done, !.arts = arts,
                 !.activated = active, !.active = active \ done, !.labels = labels]

\* driveQueuedRun, or start-orchestration-run with wait.
Start ==
  /\ run.status = "queued"
  /\ run' = [run EXCEPT !.status = "running"]
  /\ \E inline \in BOOLEAN : drv' = Entry(StartNodes, {}, {}, NoLabels, inline)
  /\ UNCHANGED <<g, ckpt, key, fired, finished, crashes>>

\* Mutant: a delay that elapsed is executed again.
DelayAgain(w, arts, inline) ==
  LET entry == Entry({w.node}, arts, arts, NoLabels, inline)
  IN IF w.attempt = 0 THEN entry ELSE [entry EXCEPT !.attempt[w.node] = w.attempt]

\* buildResumeEntry: a delay is complete, a retry executes the node again.
AfterWait(w, arts, inline) ==
  IF w.attempt = 0
  THEN LET done == arts \cup {w.node}
       IN Entry(NextNodes(w.node, done, NoLabels, {}), done, done, NoLabels, inline)
  ELSE [Entry({w.node}, arts, arts, NoLabels, inline) EXCEPT !.attempt[w.node] = w.attempt]

FinishWait(w) == finished' = IF w.attempt = 0 THEN finished \cup {w.node} ELSE finished

\* The scheduler claims the sleeping run and a worker calls wakeRun.
Wake ==
  /\ run.status = "sleeping"
  /\ run' = [run EXCEPT !.status = "running"]
  /\ drv' = AfterWait(run.wait, run.arts \cup ckpt, FALSE)
  /\ FinishWait(run.wait)
  /\ UNCHANGED <<g, ckpt, key, fired, crashes>>

\* A synchronous drive sleeps in its process and goes on.
NapOver ==
  /\ drv.pc = "nap"
  /\ drv' = AfterWait(drv.wait, drv.arts, TRUE)
  /\ FinishWait(drv.wait)
  /\ UNCHANGED <<g, run, ckpt, key, fired, crashes>>

\* buildRedriveEntry.
RedriveFrontier(arts) ==
  StartNodes \cup UNION {NextNodes(n, arts, NoLabels, {}) : n \in arts}

\* The reaper finds the running run without a driver and a worker calls redriveRun.
Redrive ==
  /\ run.status = "running"
  /\ drv.pc = "none"
  /\ LET arts == run.arts \cup ckpt
     IN drv' = Entry(RedriveFrontier(arts) \ arts, arts, arts, NoLabels, FALSE)
  /\ UNCHANGED <<g, run, ckpt, key, fired, finished, crashes>>

\* Mutants: an approval routes like any other node; its decision is forgotten.
NoDecisionNodes == {}
NoDecision(n) == NoLabels

\* buildResumeDecisionNodeIds.
ApprovalNodes == {n \in Nodes : g.kind[n] = "approval"}

ResumeLabels(n) ==
  IF g.kind[n] = "approval" THEN [NoLabels EXCEPT ![n] = g.verdict[n]] ELSE NoLabels

\* submitHumanInput and resumeRunForApproval: the payload or decision becomes the
\* node's artifact, in memory, and the run goes on from its successors.
Resume(n) ==
  LET arts == run.arts \cup ckpt \cup {n}
      labels == ResumeLabels(n)
      next == NextNodes(n, arts, labels, ApprovalNodes)
  IN /\ run.status = "awaiting_input"
     /\ n \in run.active
     /\ run' = [run EXCEPT !.status = "running", !.active = next]
     /\ drv' = Entry(next, arts, arts, labels, TRUE)
     /\ finished' = finished \cup {n}
     /\ UNCHANGED <<g, ckpt, key, fired, crashes>>

\* resumeOrchestrationRun carries no payload: the parked node executes again.
Reenter ==
  /\ run.status = "awaiting_input"
  /\ run' = [run EXCEPT !.status = "running"]
  /\ LET arts == run.arts \cup ckpt
     IN drv' = Entry(run.active, arts, arts, NoLabels, TRUE)
  /\ UNCHANGED <<g, ckpt, key, fired, finished, crashes>>

(***************************************************************************)
(* A round: executeAndRecordNode for every active node, side by side.      *)
(***************************************************************************)
Keyed(n) == g.kind[n] \in {"effect", "tool"}
Put(n, r) == drv' = [drv EXCEPT !.result[n] = r]
SetKey(n, s) == key' = [key EXCEPT ![n][drv.attempt[n]] = s]

\* Mutant: the record is reserved without looking for a completed one.
ReplayNever(n) == FALSE

\* The key is completed: its stored output is replayed as an artifact.
Replays(n) == key[n][drv.attempt[n]] = "completed"

\* A node that is not keyed yields its result at once; a keyed one reserves its
\* record, or replays it.
Begin(n) ==
  /\ drv.pc = "round" /\ n \in drv.active /\ drv.result[n] = "none"
  /\ \/ /\ Keyed(n) /\ Replays(n)
        /\ Put(n, "artifact")
        /\ UNCHANGED <<key, finished>>
     \/ /\ Keyed(n) /\ ~Replays(n)
        /\ Put(n, "dispatched")
        /\ SetKey(n, "running")
        /\ UNCHANGED finished
     \/ /\ g.kind[n] \in {"plain", "condition"}
        /\ Put(n, IF g.kind[n] = "plain" THEN "artifact" ELSE "label")
        /\ finished' = finished \cup {n}
        /\ UNCHANGED key
     \/ /\ g.kind[n] \in {"delay", "human", "approval"}
        /\ Put(n, IF g.kind[n] = "delay" THEN "delay" ELSE "requires_action")
        /\ UNCHANGED <<key, finished>>
  /\ UNCHANGED <<g, run, ckpt, fired, crashes>>

\* The side effect happens; a blocked tool has none.
Fire(n) ==
  /\ drv.pc = "round" /\ drv.result[n] = "dispatched" /\ g.verdict[n] # "blocked"
  /\ Put(n, "fired")
  /\ fired' = [fired EXCEPT ![n][drv.attempt[n]] = @ + 1]
  /\ UNCHANGED <<g, run, ckpt, key, finished, crashes>>

\* recordNodeSuccess.
Record(n) ==
  /\ drv.pc = "round"
  /\ \/ drv.result[n] = "fired" /\ Put(n, "artifact")
     \/ drv.result[n] = "dispatched" /\ g.verdict[n] = "blocked" /\ Put(n, "blocked")
  /\ SetKey(n, "completed")
  /\ finished' = finished \cup {n}
  /\ UNCHANGED <<g, run, ckpt, fired, crashes>>

MayRetry(a) == a < g.tries

\* handleNodeFailure: a transient error, before or after the effect happened, is
\* retried later while attempts remain.
NodeFails(n) ==
  /\ drv.pc = "round"
  /\ \/ drv.result[n] \in {"dispatched", "fired"} /\ SetKey(n, "failed")
     \/ /\ g.kind[n] = "plain" /\ n \in drv.active /\ drv.result[n] = "none"
        /\ UNCHANGED key
  /\ Put(n, IF MayRetry(drv.attempt[n]) THEN "retry" ELSE "failed")
  /\ UNCHANGED <<g, run, ckpt, fired, finished, crashes>>

Of(kinds) == {n \in drv.active : drv.result[n] \in kinds}

\* Promise.all rejects as soon as one node throws; what its siblings still do is not
\* followed.
RoundFails ==
  /\ drv.pc = "round" /\ Of({"failed"}) # {}
  /\ drv' = [drv EXCEPT !.pc = "settle", !.outcome = "failed"]
  /\ UNCHANGED <<g, run, ckpt, key, fired, finished, crashes>>

WaitOf(n) == [node |-> n,
              attempt |-> IF drv.result[n] = "delay" THEN 0 ELSE drv.attempt[n] + 1]

\* processNodeResultBatch, the checkpoint and the end of the round.  A wait or a
\* pause drops the successors of its siblings; a wait drops the pauses too.
\*
\* The results are walked in the order of the active nodes, any order here: a source
\* of a join opens it only when the others came before.
Orders(S) == {r \in [S -> 1..Cardinality(S)] : \A m, n \in S : r[m] = r[n] => m = n}

Round == \E order \in Orders(Of({"artifact", "label", "blocked"})) :
  LET settled == Of({"artifact", "label", "blocked"})
      waits == Of({"delay", "retry"})
      pauses == Of({"requires_action"})
      labels == [n \in Nodes |-> IF n \in Of({"label", "blocked"}) THEN g.verdict[n]
                                 ELSE drv.labels[n]]
      arts == drv.arts \cup Of({"artifact", "blocked"})
      upTo(n) == drv.done \cup {m \in settled : order[m] <= order[n]}
      next == (UNION {NextNodes(n, upTo(n), labels, Of({"blocked"})) : n \in settled})
                \ drv.activated
      step == [drv EXCEPT !.done = @ \cup settled, !.arts = arts, !.labels = labels,
                          !.result = [n \in Nodes |-> "none"], !.active = {}]
  IN /\ drv.pc = "round"
     /\ \A n \in drv.active : drv.result[n] \notin {"none", "dispatched", "fired", "failed"}
     /\ ckpt' = IF drv.active = {} THEN ckpt ELSE arts
     /\ \/ \E w \in waits : drv' = [step EXCEPT !.pc = "settle", !.outcome = "sleeping",
                                                !.wait = WaitOf(w)]
        \/ /\ waits = {}
           /\ \E p \in pauses : drv' = [step EXCEPT !.pc = "settle",
                                          !.outcome = "awaiting_input", !.active = {p}]
        \/ /\ waits = {} /\ pauses = {} /\ next = {}
           /\ drv' = [step EXCEPT !.pc = "settle", !.outcome = "succeeded"]
        \/ /\ waits = {} /\ pauses = {} /\ next # {}
           /\ drv' = [step EXCEPT !.active = next, !.activated = @ \cup next]
     /\ UNCHANGED <<g, run, key, fired, finished, crashes>>

\* persistScheduledWait, or a nap of a synchronous drive.
Sleep ==
  /\ drv.pc = "settle" /\ drv.outcome = "sleeping"
  /\ IF drv.inline
     THEN drv' = [drv EXCEPT !.pc = "nap"] /\ UNCHANGED run
     ELSE /\ drv' = Nobody
          /\ run' = [status |-> "sleeping", active |-> {drv.wait.node},
                     arts |-> drv.arts, wait |-> drv.wait]
  /\ UNCHANGED <<g, ckpt, key, fired, finished, crashes>>

\* settleRun.
Settle ==
  /\ drv.pc = "settle" /\ drv.outcome # "sleeping"
  /\ run' = [status |-> drv.outcome, arts |-> drv.arts, wait |-> NoWait,
             active |-> IF drv.outcome = "awaiting_input" THEN drv.active ELSE {}]
  /\ drv' = Nobody
  /\ UNCHANGED <<g, ckpt, key, fired, finished, crashes>>

DriverDies ==
  /\ drv.pc # "none" /\ crashes < MaxCrashes
  /\ crashes' = crashes + 1
  /\ drv' = Nobody
  /\ UNCHANGED <<g, run, ckpt, key, fired, finished>>

DriverStep ==
  \/ \E n \in Nodes : Begin(n) \/ Fire(n) \/ Record(n)
  \/ RoundFails \/ Round \/ Sleep \/ Settle \/ NapOver

WalkNext ==
  \/ Start \/ Wake \/ Redrive \/ Reenter
  \/ \E n \in Nodes : Resume(n) \/ NodeFails(n)
  \/ DriverStep
  \/ DriverDies

WalkSpec == WalkInit /\ [][WalkNext]_walkVars

\* A live driver goes on; scheduler, reaper and workers run again and again; a human
\* answers in the end.
FairWalkSpec ==
  /\ WalkSpec
  /\ WF_walkVars(DriverStep) /\ WF_walkVars(Start) /\ WF_walkVars(Wake) /\ WF_walkVars(Redrive)
  /\ SF_walkVars(\E n \in Nodes : Resume(n))

(***************************************************************************)
(* Properties                                                              *)
(***************************************************************************)
\* The verdict of its source has the run follow an edge.
Followed(e) ==
  IF e.cond = "any label" THEN g.verdict[e.from] \notin {"rejected", "blocked"}
                          ELSE g.verdict[e.from] = e.cond

\* The nodes the documented edge semantics call for, given every verdict: a start
\* node, or the target of a followed edge from a node called for; a group waits for
\* all its sources unless it says any.
Reached[n \in Nodes] ==
  \/ n \in StartNodes
  \/ \E e \in g.edges : /\ e.to = n /\ Reached[e.from] /\ Followed(e)
                        /\ e.join = "all" => \A f \in Group(e) : Reached[f.from]

\* A re-drive knows no decision of an approval or a guarded tool any more.
DecisionsKnown == crashes = 0 \/ \A n \in Nodes : g.kind[n] \notin {"approval", "tool"}

\* A run without waits and pauses is walked by one drive; after one, a node whose sources
\* complete in two drives is executed in both.
InOneGo ==
  crashes = 0 /\ g.tries = 1 /\ \A n \in Nodes : g.kind[n] \notin {"delay", "human", "approval"}

\* What a node refused stays refused: no rejection is lost in a crash, and no blocked tool
\* is met again, when its record is replayed as if it had gone through.
RefusalsKept ==
  \A n \in Nodes : /\ g.verdict[n] = "rejected" => crashes = 0
                   /\ g.verdict[n] = "blocked" => InOneGo

Strayed == \E n \in Nodes : ~Reached[n] /\ (drv.result[n] # "none" \/ n \in finished)

\* Only nodes the graph calls for are ever executed, through waits, pauses, crashes
\* and re-drives.
OnlyReached == RefusalsKept => ~Strayed

\* What the result of a node says of it and of its records.
ResultInv == \A n \in Nodes :
  LET r == drv.result[n] IN
  /\ r # "none" => n \in drv.active /\ drv.pc # "none"
  /\ r \in {"dispatched", "fired"} => Keyed(n) /\ key[n][drv.attempt[n]] = "running"
  /\ r = "fired" => g.verdict[n] # "blocked"
  /\ r = "artifact" => g.kind[n] \in {"plain", "effect", "tool"}
  /\ r = "label" => g.kind[n] = "condition"
  /\ r = "blocked" => g.kind[n] = "tool" /\ g.verdict[n] = "blocked"
  /\ r \in {"artifact", "label", "blocked"} => n \in finished
  /\ r = "delay" => g.kind[n] = "delay"
  /\ r = "requires_action" => g.kind[n] \in {"human", "approval"}
  /\ r = "retry" => MayRetry(drv.attempt[n])

\* The row is running while somebody drives it; what it waits for, or who, can end.
Waitable(w) == w.node \in Nodes /\ (w.attempt = 0 => g.kind[w.node] = "delay")
Parked(S) == \A n \in S : g.kind[n] \in {"human", "approval"}

RestInv ==
  /\ drv.pc # "none" => run.status = "running"
  /\ drv.pc = "none" => drv = Nobody
  /\ run.status = "running" => drv.pc # "none" \/ crashes > 0
  /\ drv.outcome = "none" <=> drv.pc \in {"none", "round"}
  /\ drv.pc = "nap" => drv.outcome = "sleeping"
  /\ drv.outcome = "sleeping" => Waitable(drv.wait)
  /\ drv.outcome = "awaiting_input" => Parked(drv.active)
  /\ run.status = "sleeping" => Waitable(run.wait)
  /\ run.status = "awaiting_input" => Parked(run.active)

\* What is passed on as done has been recorded, and what is, or will be, active has its
\* sources.
Pending == drv.active \cup run.active \cup ({drv.wait.node, run.wait.node} \ {0})

Joined(n) ==
  \/ \E e \in g.edges : e.to = n /\ e.join \in {"none", "any"}
  \/ \A e \in g.edges : e.to = n => e.from \in finished

RecordInv ==
  /\ drv.done \cup drv.arts \cup run.arts \cup ckpt \subseteq finished
  /\ \A n \in Nodes, a \in Attempts : key[n][a] = "completed" => n \in finished
  /\ \A n \in Nodes : drv.labels[n] \in {"none", g.verdict[n]}
  /\ \A n \in Pending : Joined(n)
  /\ RefusalsKept => \A n \in Pending \cup finished : Reached[n]

\* One drive meets a node once.
OneGoInv == InOneGo =>
  /\ run.status \notin {"sleeping", "awaiting_input"}
  /\ drv.outcome \notin {"sleeping", "awaiting_input"}
  /\ drv.active \subseteq drv.activated
  /\ \A n \in Nodes : drv.result[n] = "artifact" => g.verdict[n] # "blocked"
  /\ \A n \in Nodes, a \in Attempts : key[n][a] # "none" =>
       /\ run.status # "queued"
       /\ drv.pc # "none" => n \in drv.activated
       /\ n \in drv.active => drv.result[n] # "none"

\* The row, its checkpoint, the keyed records and the memory of the driver are well
\* formed and agree, attempts are within the policy, and only nodes that are called for
\* are executed.
WalkInv == WalkTypeOK /\ OnlyReached /\ ResultInv /\ RestInv /\ RecordInv /\ OneGoInv

\* A run that succeeded executed every node the graph calls for: no branch is lost.
SucceededIsComplete ==
  DecisionsKnown /\ run.status = "succeeded" =>
    \A n \in Nodes : Reached[n] => n \in finished

\* A redelivered attempt whose record is completed reuses it: the record is never taken
\* over and the side effect never happens again.
CompletedNotRepeated ==
  [][\A n \in Nodes, a \in Attempts :
       key[n][a] = "completed" =>
         key'[n][a] = "completed" /\ fired'[n][a] = fired[n][a]]_walkVars

\* A node entered by a group executes only after every source of the group completed.
JoinsWait == \A n \in Nodes : drv.result[n] # "none" => Joined(n)

\* Every run comes to its end, through crashes, waits, retries and pauses.
RunEnds == <>(run.status \in {"succeeded", "failed"})
=============================================================================
