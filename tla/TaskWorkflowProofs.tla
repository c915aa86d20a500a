-------------------------- MODULE TaskWorkflowProofs --------------------------
(***************************************************************************)
(* For any workflow, any number of callers, visits, attempts and faults:   *)
(* no gate is orphaned, nobody but the approval of its item moves a parked *)
(* task, and the dispatch a task shows belongs to the visit it is in.      *)
(***************************************************************************)
EXTENDS TaskWorkflow, TLAPS

Gate == GateHasResolver /\ GateHeld
Disp == Started(task.disp) /\ DispatchOfVisit
Ind == TypeOK /\ Gate /\ LaunchInv /\ AttemptInv /\ Disp

LEMMA Names ==
  /\ MaxVisits \in Nat \ {0} /\ MaxAttempts \in Nat \ {0} /\ ChainLimit \in Nat /\ MaxFaults \in Nat
  /\ Visits \subseteq Nat /\ 0 \notin Visits /\ 1 \in Visits
  /\ Items \subseteq Callers /\ Requests \subseteq Callers /\ Visits \subseteq Callers
  /\ Reconciler \in Callers /\ Reconciler \notin Items /\ Reconciler \notin Visits
  /\ Reconciler \notin Requests
  /\ Items \cap Requests = {} /\ Items \cap Visits = {} /\ Requests \cap Visits = {}
  /\ NoTransition \notin Transitions /\ NoItem \notin Items /\ Initial \in States
  /\ To \in [Transitions -> States] /\ Automated \subseteq States
  /\ OnComplete \in [Automated -> SUBSET (Transitions \cup {NoTransition})]
  /\ OnFailure \in [Automated -> Transitions \cup {NoTransition}]
<1>1. /\ MaxVisits \in Nat \ {0} /\ MaxAttempts \in Nat \ {0} /\ ChainLimit \in Nat /\ MaxFaults \in Nat
      /\ Requests \cap Items = {} /\ (Requests \cup Items) \cap (Nat \cup {Reconciler}) = {}
      /\ Reconciler \notin Nat
  BY BoundsAssumption
<1>2. Visits \subseteq Nat /\ 0 \notin Visits /\ 1 \in Visits
  BY <1>1 DEF Visits
<1>3. /\ NoTransition \notin Transitions /\ NoItem \notin Items /\ Initial \in States
      /\ To \in [Transitions -> States] /\ Automated \subseteq States
      /\ OnComplete \in [Automated -> SUBSET (Transitions \cup {NoTransition})]
      /\ OnFailure \in [Automated -> Transitions \cup {NoTransition}]
  BY DefinitionAssumption
<1>4. /\ Items \subseteq Callers /\ Requests \subseteq Callers /\ Visits \subseteq Callers
      /\ Reconciler \in Callers
  BY DEF Callers
<1> QED BY <1>1, <1>2, <1>3, <1>4

CallPCs == {"idle", "load", "apply", "claim", "emit", "link", "leave", "check", "clear",
            "rejected", "done"}

LEMMA TaskFields ==
  ASSUME TypeOK
  PROVE  /\ task \in Task /\ task.state \in States /\ task.visit \in Visits
         /\ task.disp \in Dispatch /\ task.pending \in Transitions \cup {NoTransition}
         /\ task.approval \in Items \cup {NoItem} /\ task.depth \in 0..ChainLimit
BY DEF TypeOK, Task

LEMMA CallFields ==
  ASSUME TypeOK, NEW w \in Callers
  PROVE  /\ call[w] \in Call /\ call[w].pc \in CallPCs
         /\ call[w].tr \in Transitions \cup {NoTransition} /\ call[w].item \in Items \cup {NoItem}
         /\ call[w].prev \in Dispatch /\ call[w].visit \in 0..MaxVisits
BY DEF TypeOK, Call, CallPCs

LEMMA AutoFields ==
  ASSUME TypeOK, NEW v \in Visits
  PROVE  /\ auto[v] \in Automation /\ auto[v].state \in States /\ auto[v].token \in 0..MaxVisits
         /\ auto[v].try \in Tries /\ auto[v].ok \in BOOLEAN
BY DEF TypeOK, Automation

LEMMA RunFields ==
  ASSUME TypeOK, NEW v \in Visits, NEW k \in 1..MaxAttempts
  PROVE  /\ run[v] \in [1..MaxAttempts -> Run] /\ run[v][k] \in Run
         /\ run[v][k].st \in {"none", "inflight", "succeeded", "failed"}
         /\ run[v][k].for \in 0..MaxVisits
<1>1. run[v] \in [1..MaxAttempts -> Run]
  BY DEF TypeOK
<1>2. run[v][k] \in Run
  BY <1>1
<1> QED BY <1>1, <1>2 DEF Run

LEMMA NoneTyped ==
  /\ NoRun \in Dispatch /\ NoCall \in Call /\ NoAutomation \in Automation /\ NoSweep \in Sweep
  /\ \A w : Finished(w) \in Call /\ Finished(w).pc \in {"idle", "done"}
  /\ \A w : w \notin Requests => Finished(w).pc = "idle"
  /\ \A tr \in Transitions \cup {NoTransition}, r \in BOOLEAN :
       /\ Calling(tr, r) \in Call
       /\ \/ Calling(tr, r).pc = "idle"
          \/ Calling(tr, r).pc = "load" /\ Calling(tr, r).tr = tr /\ tr \in Transitions
       /\ tr # NoTransition => Calling(tr, r).pc = "load"
<1>1. NoRun \in Dispatch /\ NoRun \in [visit: 0..MaxVisits, try: Tries]
  BY Names DEF NoRun, Dispatch, Tries
<1>2. NoCall \in Call /\ NoAutomation \in Automation /\ NoSweep \in Sweep
      /\ NoCall.pc = "idle"
  BY <1>1, Names DEF NoCall, Call, NoAutomation, Automation, NoSweep, Sweep, Tries
<1>3. ASSUME NEW w
      PROVE  /\ Finished(w) \in Call /\ Finished(w).pc \in {"idle", "done"}
             /\ w \notin Requests => Finished(w).pc = "idle"
  <2>1. CASE w \in Requests
    BY <1>2, <2>1 DEF Finished, Call
  <2>2. CASE w \notin Requests
    BY <1>2, <2>2 DEF Finished
  <2> QED BY <2>1, <2>2
<1>4. ASSUME NEW tr \in Transitions \cup {NoTransition}, NEW r \in BOOLEAN
      PROVE  /\ Calling(tr, r) \in Call
             /\ \/ Calling(tr, r).pc = "idle"
                \/ Calling(tr, r).pc = "load" /\ Calling(tr, r).tr = tr /\ tr \in Transitions
             /\ tr # NoTransition => Calling(tr, r).pc = "load"
  <2>1. CASE tr = NoTransition
    BY <1>2, <2>1 DEF Calling
  <2>2. CASE tr # NoTransition
    <3> DEFINE c == [NoCall EXCEPT !.pc = "load", !.tr = tr, !.routing = r]
    <3>1. c \in Call /\ c.pc = "load" /\ c.tr = tr
      BY <1>2 DEF Call
    <3>2. Calling(tr, r) = c
      BY <2>2 DEF Calling
    <3> HIDE DEF c
    <3> QED BY <2>2, <3>1, <3>2
  <2> QED BY <2>1, <2>2
<1> QED BY <1>1, <1>2, <1>3, <1>4

\* A dispatch that is one points to an attempt.
LEMMA DispatchPlaces ==
  ASSUME NEW r \in Dispatch, Started(r), r # NoRun
  PROVE  r.visit \in Visits /\ r.try \in 1..MaxAttempts /\ run[r.visit][r.try].st # "none"
BY Names DEF Dispatch, Started, Visits, Tries

LEMMA DispatchOfAttempt ==
  ASSUME NEW v \in Visits, NEW k \in 1..MaxAttempts
  PROVE  LET r == [visit |-> v, try |-> k] IN
         r \in Dispatch /\ r.visit = v /\ r.try = k /\ r # NoRun
<1> DEFINE r == [visit |-> v, try |-> k]
<1>1. r.visit = v /\ r.try = k /\ NoRun.visit = 0
  BY DEF NoRun
<1>2. v \in 0..MaxVisits /\ k \in Tries /\ v # 0
  BY Names DEF Visits, Tries
<1>3. r \in Dispatch
  BY <1>2 DEF Dispatch
<1> QED BY <1>1, <1>2, <1>3

(***************************************************************************)
(* The gate, when nobody files, links or decides.                          *)
(***************************************************************************)
GateSame == task'.pending = task.pending /\ task'.approval = task.approval

CallQuiet(w) ==
  /\ Filing(w) \/ Filing(w)' => call'[w] = call[w]
  /\ w \in Items => \/ call'[w] = call[w]
                    \/ Resolving(w) /\ Resolving(w)' /\ call'[w].tr = call[w].tr
                    \/ call[w].pc = "leave" /\ call'[w].pc = "idle"

LEMMA GateQuiet ==
  ASSUME TypeOK, Gate, GateSame, item' = item, lost' = lost, \A w \in Callers : CallQuiet(w)
  PROVE  Gate'
<1>1. /\ \A w \in Callers : Filing(w)' <=> Filing(w)
      /\ \A w \in Callers : Filing(w) => call'[w] = call[w]
  BY DEF CallQuiet, Filing
<1>2. \A w \in Callers : call[w].pc = "link" \/ call'[w].pc = "link" => call'[w] = call[w]
  BY DEF CallQuiet, Filing
<1>3. GateHasResolver'
  <2> SUFFICES ASSUME task.pending # NoTransition, ~lost
               PROVE  \/ \E w \in Callers : Filing(w)' /\ call'[w].tr = task.pending
                      \/ /\ task.approval # NoItem
                         /\ item[task.approval] = "pending" \/ call'[task.approval].pc # "idle"
    BY DEF GateHasResolver, GateSame, Filing
  <2>1. CASE \E w \in Callers : Filing(w) /\ call[w].tr = task.pending
    BY <1>1, <2>1
  <2>2. CASE /\ task.approval # NoItem
             /\ item[task.approval] = "pending" \/ call[task.approval].pc # "idle"
    <3>1. task.approval \in Items /\ task.approval \in Callers
      BY <2>2, TaskFields, Names
    <3>2. call[task.approval].pc # "leave"
      BY <3>1 DEF Gate, GateHeld
    <3> QED BY <2>2, <3>1, <3>2 DEF CallQuiet, Resolving
  <2> QED BY <2>1, <2>2 DEF Gate, GateHasResolver, Filing
<1>4. GateHeld'
  <2>1. task'.approval # NoItem => task'.pending # NoTransition
    BY DEF Gate, GateHeld, GateSame
  <2>2. \A w \in Callers : Filing(w)' =>
          /\ w \notin Items /\ task'.pending = call'[w].tr /\ task'.approval = NoItem
          /\ \A x \in Callers : Filing(x)' => x = w
    BY <1>1 DEF Gate, GateHeld, GateSame
  <2>3. ASSUME NEW w \in Callers, call'[w].pc = "link"
        PROVE  LET i == call'[w].item IN
               /\ i \in Items /\ item'[i] # "unborn" /\ call'[i].pc \in {"idle", "check", "clear"}
               /\ item'[i] = "pending" \/ call'[i].pc # "idle" \/ lost'
    <3>1. call'[w] = call[w]
      BY <1>2, <2>3
    <3> DEFINE i == call[w].item
    <3>2. /\ i \in Items /\ item[i] # "unborn" /\ call[i].pc \in {"idle", "check", "clear"}
          /\ item[i] = "pending" \/ call[i].pc # "idle" \/ lost
      BY <2>3, <3>1 DEF Gate, GateHeld
    <3>3. call'[i] = call[i]
      BY <3>2, Names DEF CallQuiet, Resolving
    <3> QED BY <3>1, <3>2, <3>3
  <2>4. ASSUME NEW i \in Items
        PROVE  /\ item'[i] \in {"unborn", "pending"} => call'[i].pc = "idle"
               /\ call'[i].pc = "check" \/ Resolving(i)' => item'[i] = "approved"
               /\ Resolving(i)' => task'.approval = i /\ task'.pending = call'[i].tr
               /\ task'.approval = i => item'[i] # "unborn" /\ call'[i].pc # "leave"
               /\ call'[i].pc # "claim"
    <3>1. i \in Callers
      BY Names
    <3> QED BY <3>1 DEF Gate, GateHeld, GateSame, CallQuiet, Resolving
  <2> QED BY <2>1, <2>2, <2>3, <2>4 DEF GateHeld
<1> QED BY <1>3, <1>4 DEF Gate

(***************************************************************************)
(* The automations, when they and their runs go on.                        *)
(***************************************************************************)
\* A run that has been started stays, for its visit, and a success is final.
RunsGrow == \A v \in Visits, k \in 1..MaxAttempts : run[v][k].st # "none" =>
  /\ run'[v][k].st # "none" /\ run'[v][k].for = run[v][k].for
  /\ run[v][k].st = "succeeded" => run'[v][k].st = "succeeded"
\* None is started.
NoneStarts == \A v \in Visits, k \in 1..MaxAttempts : run[v][k].st = "none" => run'[v][k].st = "none"

LEMMA StartedGrows ==
  ASSUME RunsGrow, NEW r \in Dispatch, Started(r)
  PROVE  /\ Started(r)'
         /\ r # NoRun => /\ run'[r.visit][r.try].for = run[r.visit][r.try].for
                         /\ run[r.visit][r.try].st = "succeeded" =>
                              run'[r.visit][r.try].st = "succeeded"
<1>1. CASE r = NoRun
  BY <1>1 DEF Started
<1>2. CASE r # NoRun
  <2>1. r.visit \in Visits /\ r.try \in 1..MaxAttempts /\ run[r.visit][r.try].st # "none"
    BY <1>2, DispatchPlaces
  <2>2. /\ run'[r.visit][r.try].st # "none"
        /\ run'[r.visit][r.try].for = run[r.visit][r.try].for
        /\ run[r.visit][r.try].st = "succeeded" => run'[r.visit][r.try].st = "succeeded"
    BY <2>1 DEF RunsGrow
  <2>3. Started(r)'
    BY <2>1, <2>2, Names DEF Started
  <2> QED BY <2>2, <2>3
<1> QED BY <1>1, <1>2

LEMMA DispSame ==
  ASSUME TypeOK, Disp, RunsGrow,
         task'.visit = task.visit, task'.disp = task.disp, task'.dst = task.dst
  PROVE  Disp'
<1>1. task.disp \in Dispatch /\ Started(task.disp)
  BY TaskFields DEF Disp
<1> DEFINE r == task.disp
<1>2. Started(r)'
  BY <1>1, StartedGrows
<1>3. r # NoRun => /\ run'[r.visit][r.try].for = task.visit
                   /\ task.dst = "completed" => run'[r.visit][r.try].st = "succeeded"
  <2>1. r # NoRun => /\ run[r.visit][r.try].for = task.visit
                     /\ task.dst = "completed" => run[r.visit][r.try].st = "succeeded"
    BY DEF Disp, DispatchOfVisit
  <2> QED BY <1>1, <2>1, StartedGrows
<1> QED BY <1>2, <1>3 DEF Disp, DispatchOfVisit, Started

\* The row shows another dispatch.
LEMMA DispNew ==
  ASSUME NEW r, Started(r)', task'.disp = r,
         r # NoRun => /\ run'[r.visit][r.try].for = task'.visit
                      /\ task'.dst = "completed" => run'[r.visit][r.try].st = "succeeded"
  PROVE  Disp'
BY DEF Disp, DispatchOfVisit, Started

LEMMA DispNone ==
  ASSUME task'.disp = NoRun
  PROVE  Disp'
BY DEF Disp, DispatchOfVisit, Started

\* What AttemptInv says of one automation.
Attempts(v) ==
  LET a == auto[v] IN
  /\ a.pc \in {"start", "mark"} => \A k \in 1..MaxAttempts : run[v][k].st = "none"
  /\ a.pc \in {"create", "note", "await", "commit", "backoff"} =>
       /\ a.try # 0 /\ \A k \in 1..MaxAttempts : k > a.try => run[v][k].st = "none"
       /\ a.pc = "create" => run[v][a.try].st = "none"
       /\ a.pc # "create" => run[v][a.try].st # "none" /\ run[v][a.try].for = a.token
       /\ a.pc = "backoff" => a.try < MaxAttempts
       /\ a.pc = "commit" /\ a.ok => run[v][a.try].st = "succeeded"

LEMMA AttemptParts == AttemptInv <=> \A v \in Visits : Attempts(v)
BY DEF AttemptInv, Attempts

LEMMA TryPlace ==
  ASSUME TypeOK, NEW v \in Visits, auto[v].try # 0
  PROVE  auto[v].try \in 1..MaxAttempts
BY AutoFields, Names DEF Tries

\* An automation that does nothing, while no run of it starts.
LEMMA AttemptsSame ==
  ASSUME TypeOK, NEW v \in Visits, Attempts(v), auto'[v] = auto[v], RunsGrow,
         \A k \in 1..MaxAttempts : run[v][k].st = "none" => run'[v][k].st = "none"
  PROVE  Attempts(v)'
<1> DEFINE a == auto[v]
<1>1. a.pc \in {"start", "mark"} => \A k \in 1..MaxAttempts : run'[v][k].st = "none"
  BY DEF Attempts
<1>2. ASSUME a.pc \in {"create", "note", "await", "commit", "backoff"}
      PROVE  /\ a.try # 0 /\ \A k \in 1..MaxAttempts : k > a.try => run'[v][k].st = "none"
             /\ a.pc = "create" => run'[v][a.try].st = "none"
             /\ a.pc # "create" => run'[v][a.try].st # "none" /\ run'[v][a.try].for = a.token
             /\ a.pc = "backoff" => a.try < MaxAttempts
             /\ a.pc = "commit" /\ a.ok => run'[v][a.try].st = "succeeded"
  <2>1. a.try \in 1..MaxAttempts
    BY <1>2, TryPlace DEF Attempts
  <2> QED BY <1>2, <2>1 DEF Attempts, RunsGrow
<1> QED BY <1>1, <1>2 DEF Attempts

LEMMA AttemptsSteady ==
  ASSUME TypeOK, AttemptInv, auto' = auto, RunsGrow, NoneStarts
  PROVE  AttemptInv'
<1>1. \A v \in Visits : Attempts(v)'
  BY AttemptParts, AttemptsSame DEF NoneStarts
<1> QED BY <1>1 DEF AttemptInv, Attempts

(***************************************************************************)
(* The launching of automations.                                           *)
(***************************************************************************)
Unbound == {"idle", "check", "clear", "done"}

LaunchCalls == \A w \in Callers :
  /\ call[w].pc \notin Unbound => call[w].tr \in Transitions
  /\ call[w].pc = "leave" => /\ call[w].visit \in 1..task.visit /\ Started(call[w].prev)
                             /\ \A x \in Callers : call[x].pc = "leave" =>
                                  (call[x].visit = call[w].visit => x = w)
LaunchVisits == \A v \in Visits :
  /\ Unlaunched(v) => /\ auto[v].pc = "idle" /\ call[v].pc = "idle"
                      /\ \A k \in 1..MaxAttempts : run[v][k].st = "none"
  /\ auto[v].pc # "idle" => auto[v].state \in Automated /\ call[v].pc = "idle"
SweepInv ==
  /\ rec.pc # "idle" => call[Reconciler].pc = "idle" /\ rec.disp # NoRun /\ Started(rec.disp)
  /\ rec.pc = "claim" /\ rec.ok => run[rec.disp.visit][rec.disp.try].st = "succeeded"

LEMMA LaunchParts == LaunchInv <=> LaunchCalls /\ LaunchVisits /\ SweepInv
BY DEF LaunchInv, LaunchCalls, LaunchVisits, SweepInv, Unbound

\* A call that enters no visit.
CallSteady(w) ==
  /\ call'[w].pc \notin Unbound => call'[w].tr \in Transitions
  /\ call'[w].pc = "leave" => call'[w] = call[w]

LEMMA LaunchCallsSteady ==
  ASSUME TypeOK, LaunchCalls, RunsGrow, task'.visit = task.visit,
         \A w \in Callers : CallSteady(w)
  PROVE  LaunchCalls'
<1> SUFFICES ASSUME NEW w \in Callers
             PROVE  /\ call'[w].pc \notin Unbound => call'[w].tr \in Transitions
                    /\ call'[w].pc = "leave" =>
                         /\ call'[w].visit \in 1..task.visit' /\ Started(call[w].prev)'
                         /\ \A x \in Callers : call'[x].pc = "leave" =>
                              (call'[x].visit = call'[w].visit => x = w)
  BY DEF LaunchCalls, Unbound
<1>1. CASE call'[w].pc = "leave"
  <2>1. call'[w] = call[w] /\ call[w].pc = "leave" /\ call'[w].tr \in Transitions
    BY <1>1 DEF CallSteady, Unbound
  <2>2. call[w].prev \in Dispatch /\ Started(call[w].prev) /\ call[w].visit \in 1..task.visit
    BY <2>1, CallFields DEF LaunchCalls
  <2>3. Started(call[w].prev)'
    <3>1. PICK r \in Dispatch : r = call[w].prev /\ Started(r)
      BY <2>2
    <3>2. Started(r)'
      BY <3>1, StartedGrows
    <3> QED BY <2>1, <3>1, <3>2 DEF Started
  <2>4. \A x \in Callers : call'[x].pc = "leave" => call'[x] = call[x]
    BY DEF CallSteady
  <2> QED BY <2>1, <2>2, <2>3, <2>4 DEF LaunchCalls
<1>2. CASE call'[w].pc # "leave"
  BY <1>2 DEF CallSteady
<1> QED BY <1>1, <1>2

\* An automation goes on, or it is launched where it had not been.
AutoSteady(v) ==
  auto'[v].pc # "idle" =>
    \/ auto[v].pc # "idle" /\ auto'[v].state = auto[v].state
    \/ auto'[v].state \in Automated /\ ~Unlaunched(v)' /\ call[v].pc = "idle"

LEMMA LaunchVisitsSteady ==
  ASSUME TypeOK, LaunchVisits, \A v \in Visits : Unlaunched(v)' => Unlaunched(v),
         \A v \in Visits : AutoSteady(v),
         \A v \in Visits : call[v].pc = "idle" /\ call'[v].pc # "idle" =>
           auto[v].pc # "idle" /\ auto'[v].pc = "idle",
         \A v \in Visits, k \in 1..MaxAttempts :
           auto[v].pc = "idle" /\ run[v][k].st = "none" => run'[v][k].st = "none"
  PROVE  LaunchVisits'
<1> SUFFICES ASSUME NEW v \in Visits
             PROVE  /\ Unlaunched(v)' =>
                         /\ auto'[v].pc = "idle" /\ call'[v].pc = "idle"
                         /\ \A k \in 1..MaxAttempts : run'[v][k].st = "none"
                    /\ auto'[v].pc # "idle" =>
                         auto'[v].state \in Automated /\ call'[v].pc = "idle"
  BY DEF LaunchVisits
<1>1. Unlaunched(v)' =>
        /\ auto'[v].pc = "idle" /\ call'[v].pc = "idle"
        /\ \A k \in 1..MaxAttempts : run'[v][k].st = "none"
  BY DEF LaunchVisits, AutoSteady
<1>2. auto'[v].pc # "idle" => auto'[v].state \in Automated /\ call'[v].pc = "idle"
  BY DEF LaunchVisits, AutoSteady
<1> QED BY <1>1, <1>2

LEMMA SweepSteady ==
  ASSUME TypeOK, SweepInv, RunsGrow, rec'.pc = "idle" \/ rec' = rec,
         call[Reconciler].pc = "idle" /\ call'[Reconciler].pc # "idle" => rec'.pc = "idle"
  PROVE  SweepInv'
<1>1. CASE rec'.pc = "idle"
  BY <1>1 DEF SweepInv
<1>2. CASE rec'.pc # "idle"
  <2>1. rec' = rec /\ rec.pc # "idle" /\ rec.disp \in Dispatch /\ Started(rec.disp) /\ rec.disp # NoRun
    BY <1>2 DEF SweepInv, TypeOK, Sweep
  <2> DEFINE r == rec.disp
  <2>2. r.visit \in Visits /\ r.try \in 1..MaxAttempts /\ run[r.visit][r.try].st # "none"
    BY <2>1, DispatchPlaces
  <2>3. /\ run'[r.visit][r.try].st # "none"
        /\ run[r.visit][r.try].st = "succeeded" => run'[r.visit][r.try].st = "succeeded"
    BY <2>2 DEF RunsGrow
  <2> QED BY <1>2, <2>1, <2>2, <2>3, Names DEF SweepInv, Started
<1> QED BY <1>1, <1>2

\* Nothing is launched, by a step of calls.
LEMMA LaunchSteady ==
  ASSUME TypeOK, LaunchInv, task'.visit = task.visit, auto' = auto, run' = run, rec' = rec,
         \A w \in Callers : CallSteady(w),
         \A w \in Visits \cup {Reconciler} : call[w].pc = "idle" => call'[w].pc = "idle"
  PROVE  LaunchInv'
<1>1. RunsGrow
  BY DEF RunsGrow
<1>2. LaunchCalls /\ LaunchVisits /\ SweepInv
  BY LaunchParts
<1>3. LaunchCalls'
  BY <1>1, <1>2, LaunchCallsSteady
<1>4. \A v \in Visits : Unlaunched(v)' => Unlaunched(v)
  BY DEF Unlaunched, CallSteady
<1>5. LaunchVisits'
  BY <1>2, <1>4, LaunchVisitsSteady DEF AutoSteady
<1>6. SweepInv'
  BY <1>1, <1>2, SweepSteady
<1> QED BY <1>3, <1>5, <1>6 DEF LaunchInv, LaunchCalls, LaunchVisits, SweepInv, Unbound

(***************************************************************************)
(* Steps of calls.                                                         *)
(***************************************************************************)
LEMMA ContinueLemma ==
  ASSUME TypeOK, NEW w \in Callers, NEW c \in Call, Continue(w, c)
  PROVE  /\ call' \in [Callers -> Call] /\ call'[w] = c
         /\ \A x \in Callers \ {w} : call'[x] = call[x]
BY DEF TypeOK, Continue

\* A call goes on without entering a visit, whatever it does to the gate.
LEMMA PlainCall ==
  ASSUME Ind, NEW w \in Callers, NEW c \in Call, Continue(w, c),
         c.pc \notin Unbound => c.tr \in Transitions, c.pc # "leave",
         w \in Items \cup Requests \/ call[w].pc # "idle" \/ c.pc = "idle",
         task'.visit = task.visit, task'.disp = task.disp, task'.dst = task.dst,
         auto' = auto, run' = run, rec' = rec
  PROVE  /\ call' \in [Callers -> Call] /\ call'[w] = c
         /\ \A x \in Callers \ {w} : call'[x] = call[x]
         /\ LaunchInv' /\ AttemptInv' /\ Disp'
<1>1. /\ call' \in [Callers -> Call] /\ call'[w] = c
      /\ \A x \in Callers \ {w} : call'[x] = call[x]
  BY ContinueLemma DEF Ind
<1>2. \A x \in Callers : CallSteady(x)
  <2>1. \A x \in Callers : call[x].pc \notin Unbound => call[x].tr \in Transitions
    BY LaunchParts DEF Ind, LaunchCalls
  <2> QED BY <1>1, <2>1 DEF CallSteady
<1>3. \A x \in Visits \cup {Reconciler} : call[x].pc = "idle" => call'[x].pc = "idle"
  BY <1>1, Names
<1>4. RunsGrow /\ NoneStarts
  BY DEF RunsGrow, NoneStarts
<1> QED BY <1>1, <1>2, <1>3, <1>4, LaunchSteady, AttemptsSteady, DispSame DEF Ind

\* A call that neither files nor takes or gives back the gate.
LEMMA QuietCall ==
  ASSUME TypeOK, Gate, NEW w \in Callers, GateSame, item' = item, lost' = lost,
         \A x \in Callers \ {w} : call'[x] = call[x],
         ~Filing(w), ~Filing(w)',
         w \in Items => \/ Resolving(w) /\ Resolving(w)' /\ call'[w].tr = call[w].tr
                        \/ call[w].pc = "leave" /\ call'[w].pc = "idle"
  PROVE  Gate'
<1>1. \A x \in Callers : CallQuiet(x)
  BY DEF CallQuiet, Filing
<1> QED BY <1>1, GateQuiet

\* Nobody holds the gate.
LEMMA GateFree ==
  ASSUME task'.pending = NoTransition, task'.approval = NoItem,
         \A w \in Callers : ~Filing(w)',
         \A i \in Items : /\ ~Resolving(i)' /\ call'[i].pc # "claim"
                          /\ item'[i] \in {"unborn", "pending"} => call'[i].pc = "idle"
                          /\ call'[i].pc = "check" => item'[i] = "approved"
  PROVE  Gate'
BY Names DEF Gate, GateHasResolver, GateHeld, Filing

\* While a call files, no item is linked or on its way.
LEMMA FilerAlone ==
  ASSUME GateHeld, NEW w \in Callers, Filing(w)
  PROVE  /\ w \notin Items /\ task.pending = call[w].tr /\ task.approval = NoItem
         /\ \A x \in Callers \ {w} : ~Filing(x)
         /\ \A i \in Items : ~Resolving(i)
BY Names DEF GateHeld

\* While an item is on its way, no call files and no other item is on its way.
LEMMA ResolverAlone ==
  ASSUME GateHeld, NEW i \in Items, Resolving(i)
  PROVE  /\ task.approval = i /\ task.pending = call[i].tr /\ item[i] = "approved"
         /\ \A x \in Callers : ~Filing(x)
         /\ \A j \in Items \ {i} : ~Resolving(j)
BY Names DEF GateHeld

LEMMA RequestStep ==
  ASSUME Ind, NEW w \in Requests, NEW tr \in Transitions, Request(w, tr)
  PROVE  Ind'
<1>1. /\ Calling(tr, FALSE) \in Call /\ Calling(tr, FALSE).pc = "load"
      /\ Calling(tr, FALSE).tr = tr
  BY NoneTyped, Names
<1>2. w \in Callers /\ w \notin Items
  BY Names
<1>3. /\ call[w].pc = "idle" /\ Continue(w, Calling(tr, FALSE))
      /\ UNCHANGED <<task, auto, run, item, rec, faults, lost>>
  BY DEF Request
<1>4. /\ call' \in [Callers -> Call] /\ call'[w] = Calling(tr, FALSE)
      /\ \A x \in Callers \ {w} : call'[x] = call[x]
      /\ LaunchInv' /\ AttemptInv' /\ Disp'
  BY <1>1, <1>2, <1>3, PlainCall
<1>5. Gate'
  BY <1>1, <1>2, <1>3, <1>4, QuietCall DEF Ind, GateSame, Filing
<1>6. TypeOK'
  BY <1>3, <1>4 DEF TypeOK, Ind
<1> QED BY <1>4, <1>5, <1>6 DEF Ind

LEMMA LoadStep ==
  ASSUME Ind, NEW w \in Callers, Load(w)
  PROVE  Ind'
<1> DEFINE p == IF call[w].tr \notin Gated \/ w \in Items THEN "apply"
                ELSE IF Parkable(call[w].tr) THEN "claim" ELSE "rejected"
           c == [call[w] EXCEPT !.from = task.state, !.pc = p]
<1>1. /\ call[w].pc = "load" /\ Continue(w, c) /\ UNCHANGED <<task, auto, run, item, rec, faults, lost>>
  BY DEF Load
<1>2. p \in {"apply", "claim", "rejected"} /\ (w \in Items => p = "apply")
  OBVIOUS
<1> HIDE DEF p
<1>3. call[w] \in Call /\ task.state \in States
  BY CallFields, TaskFields DEF Ind
<1>4. c \in Call /\ c.pc = p /\ c.tr = call[w].tr
  BY <1>2, <1>3 DEF Call
<1> HIDE DEF c
<1>5. call[w].tr \in Transitions
  BY <1>1, LaunchParts DEF Ind, LaunchCalls, Unbound
<1>6. /\ call' \in [Callers -> Call] /\ call'[w] = c
      /\ \A x \in Callers \ {w} : call'[x] = call[x]
      /\ LaunchInv' /\ AttemptInv' /\ Disp'
  BY <1>1, <1>2, <1>4, <1>5, PlainCall
<1>7. Gate'
  BY <1>1, <1>2, <1>4, <1>6, QuietCall DEF Ind, GateSame, Filing, Resolving
<1>8. TypeOK'
  BY <1>1, <1>6 DEF TypeOK, Ind
<1> QED BY <1>6, <1>7, <1>8 DEF Ind

\* A call is turned away, by the row it looks at.
LEMMA TurnedAway ==
  ASSUME Ind, NEW w \in Callers, call[w].pc \in {"apply", "claim"},
         Continue(w, [call[w] EXCEPT !.pc = "rejected"]),
         UNCHANGED <<task, auto, run, item, rec, faults, lost>>
  PROVE  Ind'
<1> DEFINE c == [call[w] EXCEPT !.pc = "rejected"]
<1>1. call[w] \in Call
  BY CallFields DEF Ind
<1>2. c \in Call /\ c.pc = "rejected" /\ c.tr = call[w].tr
  BY <1>1 DEF Call
<1>3. Continue(w, c)
  OBVIOUS
<1> HIDE DEF c
<1>4. call[w].tr \in Transitions
  BY LaunchParts DEF Ind, LaunchCalls, Unbound
<1>5. /\ call' \in [Callers -> Call] /\ call'[w] = c
      /\ \A x \in Callers \ {w} : call'[x] = call[x]
      /\ LaunchInv' /\ AttemptInv' /\ Disp'
  BY <1>2, <1>3, <1>4, PlainCall
<1>6. w \in Items => Resolving(w)
  BY DEF Ind, Gate, GateHeld, Resolving
<1>7. Gate'
  BY <1>2, <1>5, <1>6, QuietCall DEF Ind, GateSame, Filing, Resolving
<1>8. TypeOK'
  BY <1>5 DEF TypeOK, Ind
<1> QED BY <1>5, <1>7, <1>8 DEF Ind

LEMMA RefusedStep ==
  ASSUME Ind, NEW w \in Callers, Refused(w)
  PROVE  Ind'
<1>1. /\ call[w].pc = "rejected" /\ Continue(w, Finished(w))
      /\ UNCHANGED <<auto, run, item, rec, faults, lost>>
      /\ task' = IF w \in Items THEN GateCleared(w)
                 ELSE IF call[w].routing /\ task.auto = "completed"
                      THEN [task EXCEPT !.auto = "unrouted"] ELSE task
  BY DEF Refused
<1>2. /\ Finished(w) \in Call /\ Finished(w).pc \in {"idle", "done"}
      /\ w \in Items => Finished(w).pc = "idle"
  BY NoneTyped, Names
<1>3. /\ task' \in Task /\ task'.visit = task.visit /\ task'.disp = task.disp
      /\ task'.dst = task.dst
  BY <1>1, TaskFields, Names DEF Ind, Task, GateCleared
<1>4. /\ call' \in [Callers -> Call] /\ call'[w] = Finished(w)
      /\ \A x \in Callers \ {w} : call'[x] = call[x]
      /\ LaunchInv' /\ AttemptInv' /\ Disp'
  BY <1>1, <1>2, <1>3, PlainCall DEF Unbound
<1>5. CASE w \in Items
  <2>1. Resolving(w) /\ GateHeld
    BY <1>1 DEF Resolving, Ind, Gate
  <2>2. /\ task.approval = w /\ \A x \in Callers : ~Filing(x)
        /\ \A j \in Items \ {w} : ~Resolving(j)
    BY <1>5, <2>1, ResolverAlone
  <2>3. task'.pending = NoTransition /\ task'.approval = NoItem
    BY <1>1, <1>5, <2>2, TaskFields DEF GateCleared, Ind, Task
  <2>4. \A x \in Callers : ~Filing(x)'
    BY <1>2, <1>4, <2>2 DEF Filing
  <2>5. \A i \in Items : /\ ~Resolving(i)' /\ call'[i].pc # "claim"
                         /\ item'[i] \in {"unborn", "pending"} => call'[i].pc = "idle"
                         /\ call'[i].pc = "check" => item'[i] = "approved"
    BY <1>1, <1>2, <1>4, <1>5, <2>1, <2>2, Names DEF Resolving, GateHeld
  <2>6. Gate'
    BY <2>3, <2>4, <2>5, GateFree
  <2> QED BY <1>1, <1>3, <1>4, <2>6 DEF TypeOK, Ind
<1>6. CASE w \notin Items
  <2>1. GateSame
    BY <1>1, <1>6, TaskFields DEF GateSame, Ind, Task
  <2>2. Gate'
    BY <1>1, <1>2, <1>4, <1>6, <2>1, QuietCall DEF Ind, Filing
  <2> QED BY <1>1, <1>3, <1>4, <2>2 DEF TypeOK, Ind
<1> QED BY <1>5, <1>6

LEMMA ParkClaimStep ==
  ASSUME Ind, NEW w \in Callers, ParkClaim(w)
  PROVE  Ind'
<1>1. /\ call[w].pc = "claim" /\ UNCHANGED <<auto, run, item, rec, faults, lost>>
      /\ \/ /\ task.pending = NoTransition
            /\ task' = [task EXCEPT !.pending = call[w].tr]
            /\ Continue(w, [call[w] EXCEPT !.pc = "emit"])
         \/ Continue(w, [call[w] EXCEPT !.pc = "rejected"]) /\ UNCHANGED task
  BY DEF ParkClaim, Claimable
<1>2. CASE Continue(w, [call[w] EXCEPT !.pc = "rejected"]) /\ UNCHANGED task
  BY <1>1, <1>2, TurnedAway
<1>3. CASE /\ task.pending = NoTransition
           /\ task' = [task EXCEPT !.pending = call[w].tr]
           /\ Continue(w, [call[w] EXCEPT !.pc = "emit"])
  <2> DEFINE c == [call[w] EXCEPT !.pc = "emit"]
  <2>1. call[w] \in Call /\ \A x \in Callers : call[x].pc \notin Unbound => call[x].tr \in Transitions
    BY CallFields, LaunchParts DEF Ind, LaunchCalls
  <2>2. c \in Call /\ c.pc = "emit" /\ c.tr = call[w].tr
    BY <2>1 DEF Call
  <2>3. Continue(w, c)
    BY <1>3
  <2> HIDE DEF c
  <2>4. call[w].tr \in Transitions
    BY <1>1, <2>1 DEF Unbound
  <2>5. /\ task' \in Task /\ task'.visit = task.visit /\ task'.disp = task.disp
        /\ task'.dst = task.dst /\ task'.pending = call[w].tr /\ task'.approval = task.approval
    BY <1>3, <2>4, TaskFields DEF Ind, Task
  <2>6. /\ call' \in [Callers -> Call] /\ call'[w] = c
        /\ \A x \in Callers \ {w} : call'[x] = call[x]
        /\ LaunchInv' /\ AttemptInv' /\ Disp'
    BY <1>1, <2>2, <2>3, <2>4, <2>5, PlainCall DEF Unbound
  <2>7. GateHeld
    BY DEF Ind, Gate
  <2>8. /\ w \notin Items /\ task.approval = NoItem
        /\ \A x \in Callers : ~Filing(x) /\ \A i \in Items : ~Resolving(i)
    <3>1. task.approval = NoItem /\ w \notin Items
      BY <1>1, <1>3, <2>7, TaskFields DEF GateHeld, Ind
    <3>2. \A x \in Callers : ~Filing(x)
      BY <1>3, <2>1, <2>7, Names DEF GateHeld, Filing, Unbound
    <3>3. \A i \in Items : ~Resolving(i)
      BY <3>1, <2>7, Names DEF GateHeld
    <3> QED BY <3>1, <3>2, <3>3
  <2>9. GateHasResolver'
    BY <2>2, <2>5, <2>6 DEF GateHasResolver
  <2>10. GateHeld'
    <3>1. task'.approval # NoItem => task'.pending # NoTransition
      BY <2>5, <2>8
    <3>2. \A x \in Callers : Filing(x)' =>
            /\ x \notin Items /\ task'.pending = call'[x].tr /\ task'.approval = NoItem
            /\ \A y \in Callers : Filing(y)' => y = x
      BY <2>2, <2>5, <2>6, <2>8 DEF Filing
    <3>3. \A x \in Callers : call'[x].pc # "link"
      BY <2>2, <2>6, <2>8 DEF Filing
    <3>4. \A i \in Items : call'[i] = call[i] /\ ~Resolving(i)'
      BY <2>6, <2>8, Names DEF Resolving
    <3>5. \A i \in Items :
            /\ item'[i] \in {"unborn", "pending"} => call'[i].pc = "idle"
            /\ call'[i].pc = "check" \/ Resolving(i)' => item'[i] = "approved"
            /\ Resolving(i)' => task'.approval = i /\ task'.pending = call'[i].tr
            /\ task'.approval = i => item'[i] # "unborn" /\ call'[i].pc # "leave"
            /\ call'[i].pc # "claim"
      BY <1>1, <2>5, <2>7, <2>8, <3>4 DEF GateHeld
    <3> QED BY <3>1, <3>2, <3>3, <3>5 DEF GateHeld
  <2> QED BY <1>1, <2>5, <2>6, <2>9, <2>10 DEF Ind, Gate, TypeOK
<1> QED BY <1>1, <1>2, <1>3

LEMMA EmitItemStep ==
  ASSUME Ind, NEW w \in Callers, EmitItem(w)
  PROVE  Ind'
<1>1. call[w].pc = "emit" /\ UNCHANGED <<task, auto, run, rec, faults, lost>>
  BY DEF EmitItem
<1>2. PICK i \in Items : /\ item[i] = "unborn" /\ item' = [item EXCEPT ![i] = "pending"]
                         /\ Continue(w, [call[w] EXCEPT !.pc = "link", !.item = i])
  BY DEF EmitItem
<1> DEFINE c == [call[w] EXCEPT !.pc = "link", !.item = i]
<1>3. call[w] \in Call /\ call[w].tr \in Transitions
  BY <1>1, CallFields, LaunchParts DEF Ind, LaunchCalls, Unbound
<1>4. c \in Call /\ c.pc = "link" /\ c.tr = call[w].tr /\ c.item = i
  BY <1>3 DEF Call
<1>5. Continue(w, c)
  BY <1>2
<1> HIDE DEF c
<1>6. /\ call' \in [Callers -> Call] /\ call'[w] = c
      /\ \A x \in Callers \ {w} : call'[x] = call[x]
      /\ LaunchInv' /\ AttemptInv' /\ Disp'
  BY <1>1, <1>3, <1>4, <1>5, PlainCall
<1>7. /\ item' \in [Items -> {"unborn", "pending", "approved", "rejected"}]
      /\ item'[i] = "pending" /\ \A j \in Items \ {i} : item'[j] = item[j]
  BY <1>2 DEF Ind, TypeOK
<1>8. GateHeld /\ Filing(w) /\ Filing(w)'
  BY <1>1, <1>4, <1>6 DEF Ind, Gate, Filing
<1>9. /\ w \notin Items /\ task.pending = call[w].tr /\ task.approval = NoItem
      /\ \A x \in Callers \ {w} : ~Filing(x)
      /\ \A j \in Items : ~Resolving(j)
  BY <1>8, FilerAlone
<1>10. GateHasResolver'
  BY <1>1, <1>4, <1>6, <1>9 DEF GateHasResolver
<1>11. GateHeld'
  <2>1. task'.approval # NoItem => task'.pending # NoTransition
    BY <1>1, <1>9
  <2>2. \A x \in Callers : Filing(x)' =>
          /\ x \notin Items /\ task'.pending = call'[x].tr /\ task'.approval = NoItem
          /\ \A y \in Callers : Filing(y)' => y = x
    BY <1>1, <1>4, <1>6, <1>9 DEF Filing
  <2>3. \A j \in Items : call'[j] = call[j] /\ ~Resolving(j)'
    BY <1>6, <1>9, Names DEF Resolving
  <2>4. call[i].pc = "idle"
    BY <1>2, <1>8 DEF GateHeld
  <2>5. \A x \in Callers : call'[x].pc = "link" =>
          LET j == call'[x].item IN
          /\ j \in Items /\ item'[j] # "unborn" /\ call'[j].pc \in {"idle", "check", "clear"}
          /\ item'[j] = "pending" \/ call'[j].pc # "idle" \/ lost'
    <3>1. \A x \in Callers : call'[x].pc = "link" => x = w
      BY <1>6, <1>9 DEF Filing
    <3> QED BY <1>4, <1>6, <1>7, <2>3, <2>4, <3>1
  <2>6. \A j \in Items :
          /\ item'[j] \in {"unborn", "pending"} => call'[j].pc = "idle"
          /\ call'[j].pc = "check" \/ Resolving(j)' => item'[j] = "approved"
          /\ Resolving(j)' => task'.approval = j /\ task'.pending = call'[j].tr
          /\ task'.approval = j => item'[j] # "unborn" /\ call'[j].pc # "leave"
          /\ call'[j].pc # "claim"
    BY <1>1, <1>7, <1>8, <1>9, <2>3, <2>4, Names DEF GateHeld
  <2> QED BY <2>1, <2>2, <2>5, <2>6 DEF GateHeld
<1> QED BY <1>1, <1>6, <1>7, <1>10, <1>11 DEF Ind, Gate, TypeOK

\* A call that files gives the gate back.
LEMMA EmitFailsStep ==
  ASSUME Ind, NEW w \in Callers, EmitFails(w)
  PROVE  Ind'
<1>1. /\ call[w].pc = "emit" /\ faults < MaxFaults /\ faults' = faults + 1
      /\ task' = RolledBack(call[w].tr) /\ Continue(w, Finished(w))
      /\ UNCHANGED <<auto, run, item, rec, lost>>
  BY DEF EmitFails
<1>2. GateHeld /\ Filing(w)
  BY <1>1 DEF Ind, Gate, Filing
<1>3. /\ w \notin Items /\ task.pending = call[w].tr /\ task.approval = NoItem
      /\ \A x \in Callers \ {w} : ~Filing(x)
      /\ \A j \in Items : ~Resolving(j)
  BY <1>2, FilerAlone
<1>4. /\ task' \in Task /\ task'.visit = task.visit /\ task'.disp = task.disp
      /\ task'.dst = task.dst /\ task'.pending = NoTransition /\ task'.approval = NoItem
  BY <1>1, <1>3, TaskFields DEF Ind, Task, RolledBack
<1>5. Finished(w) \in Call /\ Finished(w).pc \in {"idle", "done"}
  BY NoneTyped
<1>6. /\ call' \in [Callers -> Call] /\ call'[w] = Finished(w)
      /\ \A x \in Callers \ {w} : call'[x] = call[x]
      /\ LaunchInv' /\ AttemptInv' /\ Disp'
  BY <1>1, <1>4, <1>5, PlainCall DEF Unbound
<1>7. Gate'
  <2>1. \A x \in Callers : ~Filing(x)'
    BY <1>3, <1>5, <1>6 DEF Filing
  <2>2. \A j \in Items : call'[j] = call[j] /\ ~Resolving(j)'
    BY <1>3, <1>6, Names DEF Resolving
  <2>3. \A i \in Items : /\ ~Resolving(i)' /\ call'[i].pc # "claim"
                         /\ item'[i] \in {"unborn", "pending"} => call'[i].pc = "idle"
                         /\ call'[i].pc = "check" => item'[i] = "approved"
    BY <1>1, <1>2, <2>2 DEF GateHeld
  <2> QED BY <1>4, <2>1, <2>3, GateFree
<1>8. faults' \in 0..MaxFaults
  BY <1>1, Names DEF Ind, TypeOK
<1> QED BY <1>1, <1>4, <1>6, <1>7, <1>8 DEF Ind, TypeOK

LEMMA LinkStep ==
  ASSUME Ind, NEW w \in Callers, Link(w)
  PROVE  Ind'
<1> DEFINE i == call[w].item
<1>1. /\ call[w].pc = "link" /\ Continue(w, Finished(w))
      /\ task' = IF task.pending = call[w].tr THEN [task EXCEPT !.approval = i] ELSE task
      /\ UNCHANGED <<auto, run, item, rec, faults, lost>>
  BY DEF Link
<1>2. GateHeld /\ Filing(w)
  BY <1>1 DEF Ind, Gate, Filing
<1>3. /\ w \notin Items /\ task.pending = call[w].tr /\ task.approval = NoItem
      /\ \A x \in Callers \ {w} : ~Filing(x)
      /\ \A j \in Items : ~Resolving(j)
  BY <1>2, FilerAlone
<1>4. /\ i \in Items /\ item[i] # "unborn" /\ call[i].pc \in {"idle", "check", "clear"}
      /\ item[i] = "pending" \/ call[i].pc # "idle" \/ lost
      /\ call[w].tr \in Transitions
  BY <1>1, <1>2, LaunchParts DEF GateHeld, Ind, LaunchCalls, Unbound
<1>5. /\ task' \in Task /\ task'.visit = task.visit /\ task'.disp = task.disp
      /\ task'.dst = task.dst /\ task'.pending = task.pending /\ task'.approval = i
  BY <1>1, <1>3, <1>4, TaskFields DEF Ind, Task
<1> HIDE DEF i
<1>6. Finished(w) \in Call /\ Finished(w).pc \in {"idle", "done"}
  BY NoneTyped
<1>7. /\ call' \in [Callers -> Call] /\ call'[w] = Finished(w)
      /\ \A x \in Callers \ {w} : call'[x] = call[x]
      /\ LaunchInv' /\ AttemptInv' /\ Disp'
  BY <1>1, <1>5, <1>6, PlainCall DEF Unbound
<1>8. \A x \in Callers : ~Filing(x)'
  BY <1>3, <1>6, <1>7 DEF Filing
<1>9. \A j \in Items : call'[j] = call[j] /\ ~Resolving(j)'
  BY <1>3, <1>7, Names DEF Resolving
<1>10. GateHasResolver'
  BY <1>1, <1>4, <1>5, <1>9, Names DEF GateHasResolver
<1>11. GateHeld'
  <2>1. task'.approval # NoItem => task'.pending # NoTransition
    BY <1>3, <1>4, <1>5, Names
  <2>2. \A j \in Items :
          /\ item'[j] \in {"unborn", "pending"} => call'[j].pc = "idle"
          /\ call'[j].pc = "check" \/ Resolving(j)' => item'[j] = "approved"
          /\ Resolving(j)' => task'.approval = j /\ task'.pending = call'[j].tr
          /\ task'.approval = j => item'[j] # "unborn" /\ call'[j].pc # "leave"
          /\ call'[j].pc # "claim"
    BY <1>1, <1>2, <1>4, <1>5, <1>9 DEF GateHeld
  <2> QED BY <1>8, <2>1, <2>2 DEF GateHeld, Filing
<1> QED BY <1>1, <1>5, <1>7, <1>10, <1>11 DEF Ind, Gate, TypeOK

LEMMA DecideStep ==
  ASSUME Ind, NEW i \in Items, NEW d \in {"approved", "rejected"}, Decide(i, d)
  PROVE  Ind'
<1> DEFINE p == IF d = "approved" THEN "check" ELSE "clear"
           c == [NoCall EXCEPT !.pc = p]
<1>1. /\ item[i] = "pending" /\ item' = [item EXCEPT ![i] = d] /\ Continue(i, c)
      /\ UNCHANGED <<task, auto, run, rec, faults, lost>>
  BY DEF Decide
<1>2. p \in {"check", "clear"} /\ (p = "check" => d = "approved")
  OBVIOUS
<1> HIDE DEF p
<1>3. c \in Call /\ c.pc = p
  BY <1>2, NoneTyped DEF Call
<1> HIDE DEF c
<1>4. i \in Callers
  BY Names
<1>5. /\ call' \in [Callers -> Call] /\ call'[i] = c
      /\ \A x \in Callers \ {i} : call'[x] = call[x]
      /\ LaunchInv' /\ AttemptInv' /\ Disp'
  BY <1>1, <1>2, <1>3, <1>4, PlainCall DEF Unbound
<1>6. /\ item' \in [Items -> {"unborn", "pending", "approved", "rejected"}]
      /\ item'[i] = d /\ \A j \in Items \ {i} : item'[j] = item[j]
  BY <1>1 DEF Ind, TypeOK
<1>7. GateHeld /\ GateHasResolver /\ call[i].pc = "idle"
  BY <1>1 DEF Ind, Gate, GateHeld
<1>8. \A x \in Callers : Filing(x)' <=> Filing(x)
  BY <1>2, <1>3, <1>5, <1>7 DEF Filing
<1>9. \A x \in Callers : Filing(x) => call'[x] = call[x]
  BY <1>5, <1>7 DEF Filing
<1>10. GateHasResolver'
  <2> SUFFICES ASSUME task.pending # NoTransition, ~lost
               PROVE  \/ \E x \in Callers : Filing(x)' /\ call'[x].tr = task.pending
                      \/ /\ task.approval # NoItem
                         /\ item'[task.approval] = "pending" \/ call'[task.approval].pc # "idle"
    BY <1>1 DEF GateHasResolver, Filing
  <2>1. CASE \E x \in Callers : Filing(x) /\ call[x].tr = task.pending
    BY <1>8, <1>9, <2>1
  <2>2. CASE /\ task.approval # NoItem
             /\ item[task.approval] = "pending" \/ call[task.approval].pc # "idle"
    <3>1. task.approval \in Items /\ task.approval \in Callers
      BY <2>2, TaskFields, Names DEF Ind
    <3> QED BY <1>2, <1>3, <1>5, <1>6, <2>2, <3>1
  <2> QED BY <1>7, <2>1, <2>2 DEF GateHasResolver, Filing
<1>11. GateHeld'
  <2>1. task'.approval # NoItem => task'.pending # NoTransition
    BY <1>1, <1>7 DEF GateHeld
  <2>2. \A x \in Callers : Filing(x)' =>
          /\ x \notin Items /\ task'.pending = call'[x].tr /\ task'.approval = NoItem
          /\ \A y \in Callers : Filing(y)' => y = x
    BY <1>1, <1>7, <1>8, <1>9 DEF GateHeld
  <2>3. ASSUME NEW x \in Callers, call'[x].pc = "link"
        PROVE  LET j == call'[x].item IN
               /\ j \in Items /\ item'[j] # "unborn" /\ call'[j].pc \in {"idle", "check", "clear"}
               /\ item'[j] = "pending" \/ call'[j].pc # "idle" \/ lost'
    <3>1. call'[x] = call[x] /\ call[x].pc = "link"
      BY <1>8, <1>9, <2>3 DEF Filing
    <3>2. PICK j \in Items : j = call[x].item
      BY <1>7, <3>1 DEF GateHeld
    <3>3. /\ item[j] # "unborn" /\ call[j].pc \in {"idle", "check", "clear"}
          /\ item[j] = "pending" \/ call[j].pc # "idle" \/ lost
      BY <1>7, <3>1, <3>2 DEF GateHeld
    <3>4. /\ item'[j] # "unborn" /\ call'[j].pc \in {"idle", "check", "clear"}
          /\ item'[j] = "pending" \/ call'[j].pc # "idle" \/ lost'
      <4>1. CASE j = i
        BY <1>2, <1>3, <1>5, <1>6, <4>1
      <4>2. CASE j # i
        BY <1>1, <1>5, <1>6, <3>3, <4>2, Names
      <4> QED BY <4>1, <4>2
    <3> QED BY <3>1, <3>2, <3>4
  <2>4. ASSUME NEW j \in Items
        PROVE  /\ item'[j] \in {"unborn", "pending"} => call'[j].pc = "idle"
               /\ call'[j].pc = "check" \/ Resolving(j)' => item'[j] = "approved"
               /\ Resolving(j)' => task'.approval = j /\ task'.pending = call'[j].tr
               /\ task'.approval = j => item'[j] # "unborn" /\ call'[j].pc # "leave"
               /\ call'[j].pc # "claim"
    <3>1. CASE j = i
      BY <1>1, <1>2, <1>3, <1>5, <1>6, <3>1 DEF Resolving
    <3>2. CASE j # i
      BY <1>1, <1>5, <1>6, <1>7, <3>2, Names DEF Resolving, GateHeld
    <3> QED BY <3>1, <3>2
  <2> QED BY <2>1, <2>2, <2>3, <2>4 DEF GateHeld
<1> QED BY <1>1, <1>5, <1>6, <1>10, <1>11 DEF Ind, Gate, TypeOK

\* A resolution that is not of the gate changes nothing but its own call.
LEMMA ResolutionLost ==
  ASSUME TypeOK, Gate, NEW i \in Items, call[i].pc \in {"check", "clear"}, call'[i].pc = "idle",
         \A x \in Callers \ {i} : call'[x] = call[x],
         task.approval # i, task' = task, item' = item, lost' = TRUE
  PROVE  Gate'
<1>1. i \in Callers /\ GateHeld
  BY Names DEF Gate
<1>2. \A x \in Callers : /\ Filing(x)' <=> Filing(x)
                         /\ Filing(x) => call'[x] = call[x]
  BY <1>1 DEF Filing
<1>3. GateHasResolver'
  BY DEF GateHasResolver
<1>4. item[i] \notin {"unborn", "pending"}
  BY <1>1 DEF GateHeld
<1>5. GateHeld'
  <2>1. task'.approval # NoItem => task'.pending # NoTransition
    BY <1>1 DEF GateHeld
  <2>2. \A x \in Callers : Filing(x)' =>
          /\ x \notin Items /\ task'.pending = call'[x].tr /\ task'.approval = NoItem
          /\ \A y \in Callers : Filing(y)' => y = x
    BY <1>1, <1>2 DEF GateHeld
  <2>3. ASSUME NEW x \in Callers, call'[x].pc = "link"
        PROVE  LET j == call'[x].item IN
               /\ j \in Items /\ item'[j] # "unborn" /\ call'[j].pc \in {"idle", "check", "clear"}
               /\ item'[j] = "pending" \/ call'[j].pc # "idle" \/ lost'
    <3>1. call'[x] = call[x] /\ call[x].pc = "link"
      BY <1>2, <2>3 DEF Filing
    <3>2. PICK j \in Items : j = call[x].item
      BY <1>1, <3>1 DEF GateHeld
    <3>3. item[j] # "unborn" /\ call[j].pc \in {"idle", "check", "clear"}
      BY <1>1, <3>1, <3>2 DEF GateHeld
    <3> QED BY <3>1, <3>2, <3>3, Names
  <2>4. \A j \in Items :
          /\ item'[j] \in {"unborn", "pending"} => call'[j].pc = "idle"
          /\ call'[j].pc = "check" \/ Resolving(j)' => item'[j] = "approved"
          /\ Resolving(j)' => task'.approval = j /\ task'.pending = call'[j].tr
          /\ task'.approval = j => item'[j] # "unborn" /\ call'[j].pc # "leave"
          /\ call'[j].pc # "claim"
    BY <1>1, Names DEF GateHeld, Resolving
  <2> QED BY <2>1, <2>2, <2>3, <2>4 DEF GateHeld
<1> QED BY <1>3, <1>5 DEF Gate

LEMMA LostTyped ==
  ASSUME TypeOK, NEW i, lost' = (lost \/ task.approval # i)
  PROVE  lost' \in BOOLEAN /\ (task.approval # i => lost' = TRUE) /\ (task.approval = i => lost' = lost)
BY Zenon DEF TypeOK

LEMMA ResumeApprovedStep ==
  ASSUME Ind, NEW i \in Items, ResumeApproved(i)
  PROVE  Ind'
<1> DEFINE c == IF Resolves(i) THEN Calling(task.pending, FALSE) ELSE NoCall
<1>1. /\ call[i].pc = "check" /\ Continue(i, c) /\ lost' = (lost \/ task.approval # i)
      /\ UNCHANGED <<task, auto, run, item, rec, faults>>
  BY DEF ResumeApproved
<1>2. /\ lost' \in BOOLEAN
      /\ task.approval # i => lost' = TRUE
      /\ task.approval = i => lost' = lost
  BY <1>1, LostTyped DEF Ind
<1>3. GateHeld /\ i \in Callers
  BY Names DEF Ind, Gate
<1>4. CASE task.approval = i
  <2>1. task.pending \in Transitions
    BY <1>3, <1>4, TaskFields, Names DEF GateHeld, Ind
  <2>2. c \in Call /\ c.pc = "load" /\ c.tr = task.pending
    <3>1. c = Calling(task.pending, FALSE)
      BY <1>4 DEF Resolves
    <3> QED BY <2>1, <3>1, NoneTyped, Names
  <2> HIDE DEF c
  <2>3. /\ call' \in [Callers -> Call] /\ call'[i] = c
        /\ \A x \in Callers \ {i} : call'[x] = call[x]
        /\ LaunchInv' /\ AttemptInv' /\ Disp'
    BY <1>1, <1>3, <2>1, <2>2, PlainCall
  <2>4. item[i] = "approved" /\ \A x \in Callers : ~Filing(x)
    BY <1>1, <1>3, <1>4, Names DEF GateHeld
  <2>5. \A x \in Callers : ~Filing(x)'
    BY <2>2, <2>3, <2>4 DEF Filing
  <2>6. GateHasResolver'
    BY <1>1, <1>4, <2>2, <2>3, Names DEF GateHasResolver
  <2>7. \A j \in Items :
          /\ item'[j] \in {"unborn", "pending"} => call'[j].pc = "idle"
          /\ call'[j].pc = "check" \/ Resolving(j)' => item'[j] = "approved"
          /\ Resolving(j)' => task'.approval = j /\ task'.pending = call'[j].tr
          /\ task'.approval = j => item'[j] # "unborn" /\ call'[j].pc # "leave"
          /\ call'[j].pc # "claim"
    <3>1. ASSUME NEW j \in Items, j # i
          PROVE  call'[j] = call[j] /\ ~Resolving(j)'
      BY <1>3, <1>4, <2>3, <3>1, Names DEF GateHeld, Resolving
    <3> QED BY <1>1, <1>3, <1>4, <2>2, <2>3, <2>4, <3>1 DEF GateHeld
  <2>8. GateHeld'
    <3>1. task'.approval # NoItem => task'.pending # NoTransition
      BY <1>1, <1>3 DEF GateHeld
    <3> QED BY <2>5, <2>7, <3>1 DEF GateHeld, Filing
  <2> QED BY <1>1, <1>2, <2>3, <2>6, <2>8 DEF Ind, Gate, TypeOK
<1>5. CASE task.approval # i
  <2>1. c \in Call /\ c.pc = "idle"
    BY <1>5, NoneTyped DEF Resolves, NoCall
  <2> HIDE DEF c
  <2>2. /\ call' \in [Callers -> Call] /\ call'[i] = c
        /\ \A x \in Callers \ {i} : call'[x] = call[x]
        /\ LaunchInv' /\ AttemptInv' /\ Disp'
    BY <1>1, <1>3, <2>1, PlainCall DEF Unbound
  <2>3. Gate'
    BY <1>1, <1>2, <1>5, <2>1, <2>2, ResolutionLost DEF Ind
  <2> QED BY <1>1, <1>2, <2>2, <2>3 DEF Ind, TypeOK
<1> QED BY <1>4, <1>5

LEMMA ResumeRejectedStep ==
  ASSUME Ind, NEW i \in Items, ResumeRejected(i)
  PROVE  Ind'
<1>1. /\ call[i].pc = "clear" /\ task' = GateCleared(i) /\ Continue(i, NoCall)
      /\ lost' = (lost \/ task.approval # i) /\ UNCHANGED <<auto, run, item, rec, faults>>
  BY DEF ResumeRejected
<1>2. /\ lost' \in BOOLEAN
      /\ task.approval # i => lost' = TRUE
      /\ task.approval = i => lost' = lost
  BY <1>1, LostTyped DEF Ind
<1>3. GateHeld /\ i \in Callers /\ NoCall \in Call /\ NoCall.pc = "idle"
  BY Names, NoneTyped DEF Ind, Gate, NoCall
<1>4. /\ task' \in Task /\ task'.visit = task.visit /\ task'.disp = task.disp
      /\ task'.dst = task.dst
      /\ task.approval = i => task'.pending = NoTransition /\ task'.approval = NoItem
      /\ task.approval # i => task' = task
  BY <1>1, TaskFields DEF Ind, Task, GateCleared
<1>5. /\ call' \in [Callers -> Call] /\ call'[i] = NoCall
      /\ \A x \in Callers \ {i} : call'[x] = call[x]
      /\ LaunchInv' /\ AttemptInv' /\ Disp'
  BY <1>1, <1>3, <1>4, PlainCall DEF Unbound
<1>6. CASE task.approval = i
  <2>1. \A x \in Callers : ~Filing(x)'
    BY <1>3, <1>5, <1>6, Names DEF GateHeld, Filing
  <2>2. \A j \in Items : /\ ~Resolving(j)' /\ call'[j].pc # "claim"
                         /\ item'[j] \in {"unborn", "pending"} => call'[j].pc = "idle"
                         /\ call'[j].pc = "check" => item'[j] = "approved"
    BY <1>1, <1>3, <1>5, <1>6, Names DEF GateHeld, Resolving
  <2>3. Gate'
    BY <1>4, <1>6, <2>1, <2>2, GateFree
  <2> QED BY <1>1, <1>2, <1>4, <1>5, <2>3 DEF Ind, TypeOK
<1>7. CASE task.approval # i
  <2>1. Gate'
    BY <1>1, <1>2, <1>3, <1>4, <1>5, <1>7, ResolutionLost DEF Ind
  <2> QED BY <1>1, <1>2, <1>4, <1>5, <2>1 DEF Ind, TypeOK
<1> QED BY <1>6, <1>7

LEMMA GateCallsSame ==
  ASSUME TypeOK, Gate, GateSame, item' = item, lost' = lost, call' = call
  PROVE  Gate'
<1>1. \A w \in Callers : CallQuiet(w)
  BY DEF CallQuiet, Filing
<1> QED BY <1>1, GateQuiet

LEMMA UpdatePayloadStep ==
  ASSUME Ind, NEW b \in PayloadEdits, UpdatePayload(b)
  PROVE  Ind'
<1>1. task' = [task EXCEPT !.ok = b] /\ UNCHANGED <<call, auto, run, item, rec, faults, lost>>
  BY DEF UpdatePayload
<1>2. b \in BOOLEAN
  BY BoundsAssumption
<1>3. /\ task' \in Task /\ task'.visit = task.visit /\ task'.disp = task.disp
      /\ task'.dst = task.dst /\ GateSame
  BY <1>1, <1>2, TaskFields DEF Ind, Task, GateSame
<1>4. Gate'
  BY <1>1, <1>3, GateCallsSame DEF Ind
<1>5. RunsGrow /\ NoneStarts
  BY <1>1 DEF RunsGrow, NoneStarts
<1>6. \A w \in Callers : CallSteady(w)
  BY <1>1, LaunchParts DEF Ind, CallSteady, LaunchCalls
<1>7. LaunchInv'
  BY <1>1, <1>3, <1>6, LaunchSteady DEF Ind
<1>8. AttemptInv' /\ Disp'
  BY <1>1, <1>3, <1>5, AttemptsSteady, DispSame DEF Ind
<1> QED BY <1>1, <1>3, <1>4, <1>7, <1>8 DEF Ind, TypeOK

\* A task that moves enters a visit nobody has been in, and its gate is open.
LEMMA ApplyStep ==
  ASSUME Ind, NEW w \in Callers, Apply(w)
  PROVE  Ind'
<1>1. call[w].pc = "apply" /\ UNCHANGED <<auto, run, item, rec, faults, lost>>
  BY DEF Apply
<1>2. CASE Continue(w, [call[w] EXCEPT !.pc = "rejected"]) /\ UNCHANGED task
  BY <1>1, <1>2, TurnedAway
<1>3. CASE /\ Admissible(w, call[w].tr) /\ task.visit < MaxVisits
           /\ task' = [task EXCEPT !.state = To[call[w].tr], !.visit = task.visit + 1,
                                   !.auto = "none", !.disp = NoRun, !.dst = "none",
                                   !.pending = NoTransition, !.approval = NoItem,
                                   !.depth = Depth(w)]
           /\ Continue(w, [call[w] EXCEPT !.pc = "leave", !.visit = task.visit + 1,
                             !.prev = IF task.dst = "running" THEN task.disp ELSE NoRun])
  <2> DEFINE n == task.visit + 1
             prev == IF task.dst = "running" THEN task.disp ELSE NoRun
             c == [call[w] EXCEPT !.pc = "leave", !.visit = n, !.prev = prev]
  <2>1. task.visit \in Nat /\ n \in Visits /\ n \in Nat /\ n > task.visit /\ n \in 1..n
        /\ task.visit \in Visits
    BY <1>3, TaskFields, Names DEF Visits, Ind
  <2>2. prev \in Dispatch /\ Started(prev)
    <3>1. NoRun \in Dispatch /\ Started(NoRun)
      BY NoneTyped DEF Started
    <3>2. task.disp \in Dispatch /\ Started(task.disp)
      BY TaskFields DEF Ind, Disp
    <3> QED BY <3>1, <3>2
  <2> HIDE DEF prev
  <2>3. call[w] \in Call /\ call[w].tr \in Transitions /\ n \in 0..MaxVisits
    BY <1>1, <2>1, CallFields, LaunchParts, Names DEF Ind, LaunchCalls, Unbound, Visits
  <2>4. /\ c \in Call /\ c.pc = "leave" /\ c.tr = call[w].tr /\ c.visit = n /\ c.prev = prev
    BY <2>2, <2>3 DEF Call
  <2>5. Continue(w, c)
    BY <1>3 DEF prev
  <2> HIDE DEF c
  <2>6. /\ call' \in [Callers -> Call] /\ call'[w] = c
        /\ \A x \in Callers \ {w} : call'[x] = call[x]
    BY <2>4, <2>5, ContinueLemma DEF Ind
  <2>7. /\ task' \in Task /\ task'.visit = n /\ task'.disp = NoRun
        /\ task'.pending = NoTransition /\ task'.approval = NoItem
    <3>1. To[call[w].tr] \in States /\ NoRun \in Dispatch
      BY <2>3, Names, NoneTyped
    <3>2. Depth(w) \in 0..ChainLimit
      BY <1>3, TaskFields, Names DEF Admissible, Depth, Ind
    <3> QED BY <1>3, <2>1, <3>1, <3>2, TaskFields DEF Ind, Task
  <2> HIDE DEF n
  <2>8. RunsGrow /\ NoneStarts
    BY <1>1 DEF RunsGrow, NoneStarts
  <2>9. LaunchCalls /\ LaunchVisits /\ SweepInv
    BY LaunchParts DEF Ind
  <2>10. LaunchCalls'
    <3> SUFFICES ASSUME NEW x \in Callers
                 PROVE  /\ call'[x].pc \notin Unbound => call'[x].tr \in Transitions
                        /\ call'[x].pc = "leave" =>
                             /\ call'[x].visit \in 1..task.visit' /\ Started(call[x].prev)'
                             /\ \A y \in Callers : call'[y].pc = "leave" =>
                                  (call'[y].visit = call'[x].visit => y = x)
      BY DEF LaunchCalls, Unbound
    <3>1. \A y \in Callers : call[y].pc = "leave" => call[y].visit \in 1..task.visit
      BY <2>9 DEF LaunchCalls
    <3>2. \A k \in 1..task.visit : k # n /\ k \in 1..n
      BY <2>1
    <3>3. CASE x = w
      <4>1. Started(call[x].prev)'
        BY <1>1, <2>2, <2>4, <2>6, <3>3 DEF Started
      <4> QED BY <2>1, <2>3, <2>4, <2>6, <2>7, <3>1, <3>2, <3>3, <4>1
    <3>4. CASE x # w
      <4>1. call[x].pc = "leave" => Started(call[x].prev)'
        BY <1>1, <2>6, <2>9, <3>4 DEF Started, LaunchCalls
      <4> QED BY <2>4, <2>6, <2>7, <2>9, <3>1, <3>2, <3>4, <4>1 DEF LaunchCalls
    <3> QED BY <3>3, <3>4
  <2>11. LaunchVisits'
    <3>1. \A v \in Visits : v > n => v > task.visit
      BY <2>1, Names
    <3>2. \A v \in Visits : Unlaunched(v)' => Unlaunched(v)
      BY <2>1, <2>4, <2>6, <2>7, <3>1 DEF Unlaunched
    <3>3. \A v \in Visits : call[v].pc = "idle" => call'[v].pc = "idle"
      BY <1>1, <2>6, Names
    <3>4. \A v \in Visits : AutoSteady(v)
      BY <1>1 DEF AutoSteady
    <3> QED BY <1>1, <2>9, <3>2, <3>3, <3>4, LaunchVisitsSteady DEF Ind
  <2>12. SweepInv'
    <3>1. call[Reconciler].pc = "idle" => call'[Reconciler].pc = "idle"
      BY <1>1, <2>6, Names
    <3> QED BY <1>1, <2>8, <2>9, <3>1, SweepSteady DEF Ind
  <2>13. LaunchInv'
    BY <2>10, <2>11, <2>12 DEF LaunchInv, LaunchCalls, LaunchVisits, SweepInv, Unbound
  <2>14. AttemptInv' /\ Disp'
    BY <1>1, <2>7, <2>8, AttemptsSteady, DispNone DEF Ind
  <2>15. Gate'
    <3>1. GateHeld
      BY DEF Ind, Gate
    <3>2. \A x \in Callers : ~Filing(x)
      <4> SUFFICES ASSUME NEW x \in Callers, Filing(x)
                   PROVE  FALSE
        OBVIOUS
      <4>1. task.pending \in Transitions
        BY <3>1, LaunchParts DEF GateHeld, Ind, LaunchCalls, Filing, Unbound
      <4>2. w \in Items
        BY <1>3, <4>1, Names DEF Admissible
      <4>3. Resolving(w)
        BY <1>1 DEF Resolving
      <4> QED BY <3>1, <4>2, <4>3, ResolverAlone
    <3>3. \A j \in Items \ {w} : ~Resolving(j)
      <4> SUFFICES ASSUME NEW j \in Items \ {w}, Resolving(j)
                   PROVE  FALSE
        OBVIOUS
      <4>1. task.pending \in Transitions
        BY <3>1, LaunchParts, Names DEF GateHeld, Ind, LaunchCalls, Resolving, Unbound
      <4>2. w \in Items
        BY <1>3, <4>1, Names DEF Admissible
      <4>3. Resolving(w)
        BY <1>1 DEF Resolving
      <4> QED BY <3>1, <4>2, <4>3, ResolverAlone
    <3>4. \A x \in Callers : ~Filing(x)'
      BY <2>4, <2>6, <3>2 DEF Filing
    <3>5. \A i \in Items : /\ ~Resolving(i)' /\ call'[i].pc # "claim"
                           /\ item'[i] \in {"unborn", "pending"} => call'[i].pc = "idle"
                           /\ call'[i].pc = "check" => item'[i] = "approved"
      BY <1>1, <2>4, <2>6, <3>1, <3>3, Names DEF Resolving, GateHeld
    <3> QED BY <2>7, <3>4, <3>5, GateFree
  <2> QED BY <1>1, <2>6, <2>7, <2>13, <2>14, <2>15 DEF Ind, TypeOK
<1> QED BY <1>1, <1>2, <1>3 DEF Apply

(***************************************************************************)
(* Steps of runs and automations.                                          *)
(***************************************************************************)
LEMMA RunWrite ==
  ASSUME TypeOK, NEW v \in Visits, NEW k \in 1..MaxAttempts, NEW x \in Run,
         run' = [run EXCEPT ![v][k] = x]
  PROVE  /\ run' \in [Visits -> [1..MaxAttempts -> Run]] /\ run'[v][k] = x
         /\ \A j \in (1..MaxAttempts) \ {k} : run'[v][j] = run[v][j]
         /\ \A u \in Visits \ {v} : run'[u] = run[u]
BY DEF TypeOK

\* A run that is in flight comes to an end.
LEMMA RunOver ==
  ASSUME TypeOK, NEW v \in Visits, NEW k \in 1..MaxAttempts, NEW x \in Run,
         run[v][k].st = "inflight", x.st \in {"succeeded", "failed"}, x.for = run[v][k].for,
         run' = [run EXCEPT ![v][k] = x]
  PROVE  run' \in [Visits -> [1..MaxAttempts -> Run]] /\ RunsGrow /\ NoneStarts
<1>1. /\ run' \in [Visits -> [1..MaxAttempts -> Run]] /\ run'[v][k] = x
      /\ \A j \in (1..MaxAttempts) \ {k} : run'[v][j] = run[v][j]
      /\ \A u \in Visits \ {v} : run'[u] = run[u]
  BY RunWrite
<1>2. \A u \in Visits, j \in 1..MaxAttempts :
        run'[u][j] = run[u][j] \/ (u = v /\ j = k)
  BY <1>1
<1>3. RunsGrow /\ NoneStarts
  BY <1>1, <1>2 DEF RunsGrow, NoneStarts
<1> QED BY <1>1, <1>3

LEMMA RunEnding ==
  ASSUME TypeOK, NEW v \in Visits, NEW k \in 1..MaxAttempts, NEW st \in {"succeeded", "failed"},
         run[v][k].st = "inflight", run' = [run EXCEPT ![v][k] = Ended(run[v][k], st)]
  PROVE  run' \in [Visits -> [1..MaxAttempts -> Run]] /\ RunsGrow /\ NoneStarts
<1>1. run[v][k] \in Run
  BY RunFields
<1>2. PICK x \in Run : x = Ended(run[v][k], st)
  BY <1>1 DEF Run, Ended
<1>3. x.st = st /\ x.for = run[v][k].for
  BY <1>1, <1>2 DEF Run, Ended
<1>4. run' = [run EXCEPT ![v][k] = x]
  BY <1>2
<1> QED BY <1>3, <1>4, RunOver

LEMMA Cancelling ==
  ASSUME TypeOK, NEW r \in Dispatch, Started(r), run' = Cancelled(r)
  PROVE  run' \in [Visits -> [1..MaxAttempts -> Run]] /\ RunsGrow /\ NoneStarts
<1>1. CASE run' = run
  BY <1>1 DEF TypeOK, RunsGrow, NoneStarts
<1>2. CASE r.visit # 0 /\ run[r.visit][r.try].st = "inflight"
  <2>1. r # NoRun
    BY <1>2 DEF NoRun
  <2>2. r.visit \in Visits /\ r.try \in 1..MaxAttempts
    BY <2>1, DispatchPlaces
  <2> QED BY <1>2, <2>2, RunEnding DEF Cancelled
<1> QED BY <1>1, <1>2 DEF Cancelled

LEMMA RunEndsStep ==
  ASSUME Ind, NEW v \in Visits, NEW k \in 1..MaxAttempts, NEW st \in {"succeeded", "failed"},
         RunEnds(v, k, st)
  PROVE  Ind'
<1>1. /\ run[v][k].st = "inflight" /\ run' = [run EXCEPT ![v][k] = Ended(run[v][k], st)]
      /\ UNCHANGED <<task, call, auto, item, rec, faults, lost>>
  BY DEF RunEnds
<1>2. run' \in [Visits -> [1..MaxAttempts -> Run]] /\ RunsGrow /\ NoneStarts
  BY <1>1, RunEnding DEF Ind
<1>3. LaunchCalls /\ LaunchVisits /\ SweepInv
  BY LaunchParts DEF Ind
<1>4. LaunchCalls'
  <2>1. \A w \in Callers : CallSteady(w)
    BY <1>1, <1>3 DEF CallSteady, LaunchCalls
  <2> QED BY <1>1, <1>2, <1>3, <2>1, LaunchCallsSteady DEF Ind
<1>5. LaunchVisits'
  <2>1. \A u \in Visits : Unlaunched(u)' => Unlaunched(u)
    BY <1>1 DEF Unlaunched
  <2>2. \A u \in Visits : AutoSteady(u)
    BY <1>1 DEF AutoSteady
  <2> QED BY <1>1, <1>2, <1>3, <2>1, <2>2, LaunchVisitsSteady DEF Ind, NoneStarts
<1>6. SweepInv'
  BY <1>1, <1>2, <1>3, SweepSteady DEF Ind
<1>7. LaunchInv'
  BY <1>4, <1>5, <1>6 DEF LaunchInv, LaunchCalls, LaunchVisits, SweepInv, Unbound
<1>8. AttemptInv' /\ Disp'
  BY <1>1, <1>2, AttemptsSteady, DispSame DEF Ind
<1>9. Gate'
  BY <1>1, GateCallsSame DEF Ind, GateSame
<1>10. TypeOK'
  BY <1>1, <1>2 DEF Ind, TypeOK
<1> QED BY <1>7, <1>8, <1>9, <1>10 DEF Ind

\* The call that entered a visit launches its automation, the first of that visit.
LEMMA LeaveStep ==
  ASSUME Ind, NEW w \in Callers, Leave(w)
  PROVE  Ind'
<1> DEFINE s == To[call[w].tr]
           a == [NoAutomation EXCEPT !.pc = "start", !.state = s]
<1>1. /\ call[w].pc = "leave" /\ run' = Cancelled(call[w].prev) /\ Continue(w, Finished(w))
      /\ UNCHANGED <<task, item, rec, faults, lost>>
      /\ IF s \in Automated THEN Go(call[w].visit, a) ELSE UNCHANGED auto
  BY DEF Leave
<1>2. LaunchCalls /\ LaunchVisits /\ SweepInv
  BY LaunchParts DEF Ind
<1>3. /\ call[w].tr \in Transitions /\ call[w].visit \in 1..task.visit
      /\ Started(call[w].prev)
      /\ \A x \in Callers \ {w} : call[x].pc = "leave" => call[x].visit # call[w].visit
  BY <1>1, <1>2 DEF LaunchCalls, Unbound
<1>4. PICK v \in Visits : v = call[w].visit /\ v \in Nat /\ task.visit \in Nat /\ ~(v > task.visit)
  BY <1>3, TaskFields, Names DEF Ind, Visits
<1>5. run' \in [Visits -> [1..MaxAttempts -> Run]] /\ RunsGrow /\ NoneStarts
  <2>1. PICK r \in Dispatch : r = call[w].prev
    BY CallFields DEF Ind
  <2>2. Started(r) /\ run' = Cancelled(r)
    BY <1>1, <1>3, <2>1
  <2> QED BY <2>2, Cancelling DEF Ind
<1>6. /\ Finished(w) \in Call /\ Finished(w).pc \in {"idle", "done"}
      /\ w \notin Requests => Finished(w).pc = "idle"
  BY NoneTyped
<1>7. /\ call' \in [Callers -> Call] /\ call'[w] = Finished(w)
      /\ \A x \in Callers \ {w} : call'[x] = call[x]
  BY <1>1, <1>6, ContinueLemma DEF Ind
<1>8. \A x \in Callers : call'[x].pc = "leave" => x # w /\ call'[x] = call[x]
  BY <1>6, <1>7
<1>9. \A x \in Visits \cup {Reconciler} : call[x].pc = "idle" => call'[x].pc = "idle"
  BY <1>1, <1>7, Names
<1>10. Unlaunched(v) /\ ~Unlaunched(v)' /\ \A u \in Visits : Unlaunched(u)' => Unlaunched(u)
  <2>1. Unlaunched(v)
    BY <1>1, <1>4 DEF Unlaunched
  <2>2. ~Unlaunched(v)'
    BY <1>1, <1>3, <1>4, <1>7, <1>8 DEF Unlaunched
  <2>3. \A u \in Visits : Unlaunched(u)' => Unlaunched(u)
    BY <1>1, <1>8 DEF Unlaunched
  <2> QED BY <2>1, <2>2, <2>3
<1>11. /\ auto[v].pc = "idle" /\ call[v].pc = "idle"
       /\ \A k \in 1..MaxAttempts : run[v][k].st = "none"
  BY <1>2, <1>4, <1>10 DEF LaunchVisits
<1>12. /\ auto' \in [Visits -> Automation] /\ \A u \in Visits \ {v} : auto'[u] = auto[u]
       /\ auto'[v] = auto[v] \/ (auto'[v].pc = "start" /\ auto'[v].state \in Automated)
  <2>1. CASE s \in Automated
    <3>1. s \in States
      BY <2>1, Names
    <3>2. a \in Automation /\ a.pc = "start" /\ a.state = s
      BY <3>1, NoneTyped DEF Automation
    <3>3. Go(v, a)
      BY <1>1, <1>4, <2>1
    <3> HIDE DEF a
    <3> QED BY <1>4, <2>1, <3>2, <3>3 DEF Go, Ind, TypeOK
  <2>2. CASE s \notin Automated
    BY <1>1, <2>2 DEF Ind, TypeOK
  <2> QED BY <2>1, <2>2
<1> HIDE DEF a, s
<1>13. LaunchCalls'
  <2>1. \A x \in Callers : CallSteady(x)
    BY <1>2, <1>6, <1>7, <1>8 DEF CallSteady, LaunchCalls, Unbound
  <2> QED BY <1>1, <1>2, <1>5, <2>1, LaunchCallsSteady DEF Ind
<1>14. LaunchVisits'
  <2>1. \A u \in Visits : AutoSteady(u)
    BY <1>4, <1>10, <1>11, <1>12 DEF AutoSteady
  <2> QED BY <1>2, <1>5, <1>9, <1>10, <2>1, LaunchVisitsSteady DEF Ind, NoneStarts
<1>15. SweepInv'
  BY <1>1, <1>2, <1>5, <1>9, SweepSteady DEF Ind
<1>16. LaunchInv'
  BY <1>13, <1>14, <1>15 DEF LaunchInv, LaunchCalls, LaunchVisits, SweepInv, Unbound
<1>17. AttemptInv'
  <2>1. ASSUME NEW u \in Visits
        PROVE  Attempts(u)'
    <3>1. CASE auto'[u] = auto[u]
      BY <1>5, <3>1, AttemptParts, AttemptsSame DEF Ind, NoneStarts
    <3>2. CASE auto'[u] # auto[u]
      <4>1. u = v /\ auto'[u].pc = "start"
        BY <1>12, <3>2
      <4>2. \A k \in 1..MaxAttempts : run'[u][k].st = "none"
        BY <1>4, <1>5, <1>11, <4>1 DEF NoneStarts
      <4> QED BY <4>1, <4>2 DEF Attempts
    <3> QED BY <3>1, <3>2
  <2> QED BY <2>1 DEF AttemptInv, Attempts
<1>18. Disp'
  BY <1>1, <1>5, DispSame DEF Ind
<1>19. Gate'
  <2>1. w \in Items => call'[w].pc = "idle"
    BY <1>6, <1>7, Names
  <2> QED BY <1>1, <1>6, <1>7, <2>1, QuietCall DEF Ind, GateSame, Filing
<1>20. TypeOK'
  BY <1>1, <1>5, <1>7, <1>12 DEF Ind, TypeOK
<1> QED BY <1>16, <1>17, <1>18, <1>19, <1>20 DEF Ind

\* A step of the automation of v, which may call transitionTask when it is over.
LEMMA AutomationStep ==
  ASSUME Ind, NEW v \in Visits, NEW a \in Automation, Go(v, a), auto[v].pc # "idle",
         a.pc # "idle" => a.state = auto[v].state,
         task' \in Task, task'.visit = task.visit, GateSame,
         call' \in [Callers -> Call], \A w \in Callers \ {v} : call'[w] = call[w],
         \/ call'[v] = call[v]
         \/ a.pc = "idle" /\ call'[v].pc = "idle"
         \/ a.pc = "idle" /\ call'[v].pc = "load" /\ call'[v].tr \in Transitions,
         UNCHANGED <<item, rec, faults, lost>>,
         run' \in [Visits -> [1..MaxAttempts -> Run]], RunsGrow,
         \A u \in Visits \ {v}, k \in 1..MaxAttempts : run[u][k].st = "none" => run'[u][k].st = "none",
         Attempts(v)', Disp'
  PROVE  Ind'
<1>1. /\ auto' \in [Visits -> Automation] /\ auto'[v] = a
      /\ \A u \in Visits \ {v} : auto'[u] = auto[u]
  BY DEF Go, Ind, TypeOK
<1>2. LaunchCalls /\ LaunchVisits /\ SweepInv
  BY LaunchParts DEF Ind
<1>3. v \in Callers /\ v \notin Items /\ v # Reconciler /\ call[v].pc = "idle"
  BY <1>2, Names DEF LaunchVisits
<1>4. call'[v].pc \in {"idle", "load"} /\ (call'[v].pc = "load" => call'[v].tr \in Transitions)
  BY <1>3
<1>5. LaunchCalls'
  <2>1. \A x \in Callers : CallSteady(x)
    BY <1>2, <1>4 DEF CallSteady, LaunchCalls, Unbound
  <2> QED BY <1>2, <2>1, LaunchCallsSteady DEF Ind
<1>6. LaunchVisits'
  <2>1. \A u \in Visits : Unlaunched(u)' => Unlaunched(u)
    <3>1. \A x \in Callers : call'[x].pc = "leave" => call'[x] = call[x]
      BY <1>4
    <3> QED BY <3>1 DEF Unlaunched
  <2>2. \A u \in Visits : AutoSteady(u)
    BY <1>1 DEF AutoSteady
  <2>3. \A u \in Visits : call[u].pc = "idle" /\ call'[u].pc # "idle" =>
          auto[u].pc # "idle" /\ auto'[u].pc = "idle"
    BY <1>1, <1>3, Names
  <2>4. \A u \in Visits, k \in 1..MaxAttempts :
          auto[u].pc = "idle" /\ run[u][k].st = "none" => run'[u][k].st = "none"
    OBVIOUS
  <2> QED BY <1>2, <2>1, <2>2, <2>3, <2>4, LaunchVisitsSteady DEF Ind
<1>7. SweepInv'
  BY <1>2, <1>3, SweepSteady, Names DEF Ind
<1>8. LaunchInv'
  BY <1>5, <1>6, <1>7 DEF LaunchInv, LaunchCalls, LaunchVisits, SweepInv, Unbound
<1>9. AttemptInv'
  <2>1. ASSUME NEW u \in Visits
        PROVE  Attempts(u)'
    <3>1. CASE u = v
      BY <3>1
    <3>2. CASE u # v
      BY <1>1, <3>2, AttemptParts, AttemptsSame DEF Ind
    <3> QED BY <3>1, <3>2
  <2> QED BY <2>1 DEF AttemptInv, Attempts
<1>10. Gate'
  BY <1>3, <1>4, QuietCall DEF Ind, Filing
<1>11. TypeOK'
  BY <1>1 DEF Ind, TypeOK
<1> QED BY <1>8, <1>9, <1>10, <1>11 DEF Ind

LEMMA WriteTyped ==
  ASSUME TypeOK, NEW a, NEW r \in Dispatch, NEW st \in {"none", "running", "completed", "failed"},
         WriteLocked(a, r, st)
  PROVE  /\ task' \in Task /\ task'.visit = task.visit /\ GateSame
         /\ \/ task' = task
            \/ Current(a) /\ task'.disp = r /\ task'.dst = st
<1>1. CASE Current(a)
  <2>1. task' = [task EXCEPT !.disp = r, !.dst = st]
    BY <1>1 DEF WriteLocked
  <2> QED BY <1>1, <2>1, TaskFields DEF Task, GateSame
<1>2. CASE ~Current(a)
  BY <1>2, TaskFields DEF WriteLocked, GateSame
<1> QED BY <1>1, <1>2

LEMMA AutoLoadStep ==
  ASSUME Ind, NEW v \in Visits, AutoLoad(v)
  PROVE  Ind'
<1> DEFINE found == [auto[v] EXCEPT !.pc = "mark", !.token = task.visit,
                                    !.was = (task.auto = "running")]
           a == IF task.state # auto[v].state THEN NoAutomation ELSE found
<1>1. /\ auto[v].pc = "start" /\ Go(v, a) /\ UNCHANGED <<task, call, run, item, rec, faults, lost>>
  BY DEF AutoLoad
<1>2. task.visit \in 0..MaxVisits /\ (task.auto = "running") \in BOOLEAN
  BY TaskFields DEF Ind, Visits
<1>3. found \in Automation /\ found.pc = "mark" /\ found.state = auto[v].state
  BY <1>2, AutoFields DEF Ind, Automation
<1> HIDE DEF found
<1>4. a \in Automation /\ (a = found \/ a.pc = "idle")
  BY <1>3, NoneTyped DEF NoAutomation
<1> HIDE DEF a
<1>5. auto'[v] = a
  BY <1>1 DEF Go, Ind, TypeOK
<1>6. Attempts(v)'
  <2>1. \A k \in 1..MaxAttempts : run'[v][k].st = "none"
    BY <1>1, AttemptParts DEF Ind, Attempts
  <2> QED BY <1>3, <1>4, <1>5, <2>1 DEF Attempts
<1>7. RunsGrow /\ GateSame
  BY <1>1 DEF RunsGrow, GateSame
<1>8. Disp'
  BY <1>1, <1>7, DispSame DEF Ind
<1>9. task' \in Task /\ call' \in [Callers -> Call] /\ run' \in [Visits -> [1..MaxAttempts -> Run]]
  BY <1>1 DEF Ind, TypeOK
<1> QED BY <1>1, <1>3, <1>4, <1>6, <1>7, <1>8, <1>9, AutomationStep

LEMMA AutoMarkStep ==
  ASSUME Ind, NEW v \in Visits, AutoMark(v)
  PROVE  Ind'
<1> DEFINE a == [auto[v] EXCEPT !.pc = "create", !.try = 1]
<1>1. /\ auto[v].pc = "mark" /\ Go(v, a) /\ UNCHANGED <<call, run, item, rec, faults, lost>>
      /\ task' = [task EXCEPT !.disp = NoRun, !.dst = "running",
                              !.auto = IF auto[v].was THEN task.auto ELSE "running"]
  BY DEF AutoMark
<1>2. 1 \in Tries /\ 1 \in 1..MaxAttempts
  BY Names DEF Tries
<1>3. a \in Automation /\ a.pc = "create" /\ a.state = auto[v].state /\ a.try = 1
  BY <1>2, AutoFields DEF Ind, Automation
<1> HIDE DEF a
<1>4. auto'[v] = a
  BY <1>1 DEF Go, Ind, TypeOK
<1>5. Attempts(v)'
  <2>1. \A k \in 1..MaxAttempts : run'[v][k].st = "none"
    BY <1>1, AttemptParts DEF Ind, Attempts
  <2> QED BY <1>2, <1>3, <1>4, <2>1 DEF Attempts
<1>6. task' \in Task /\ task'.visit = task.visit /\ task'.disp = NoRun /\ GateSame
  BY <1>1, NoneTyped, TaskFields DEF Ind, Task, GateSame
<1>7. RunsGrow
  BY <1>1 DEF RunsGrow
<1>8. Disp'
  BY <1>6, DispNone
<1>9. call' \in [Callers -> Call] /\ run' \in [Visits -> [1..MaxAttempts -> Run]]
  BY <1>1 DEF Ind, TypeOK
<1> QED BY <1>1, <1>3, <1>5, <1>6, <1>7, <1>8, <1>9, AutomationStep

LEMMA AutoCreateStep ==
  ASSUME Ind, NEW v \in Visits, AutoCreate(v)
  PROVE  Ind'
<1> DEFINE a == [auto[v] EXCEPT !.pc = "note"]
           k == auto[v].try
           x == [st |-> "inflight", for |-> auto[v].token]
<1>1. /\ auto[v].pc = "create" /\ Go(v, a) /\ UNCHANGED <<call, item, rec, faults, lost>>
      /\ IF k > 1 THEN WriteLocked(auto[v], NoRun, "running") ELSE UNCHANGED task
      /\ run' = [run EXCEPT ![v][k] = x]
  BY DEF AutoCreate
<1>2. Attempts(v)
  BY AttemptParts DEF Ind
<1>3. /\ k \in 1..MaxAttempts /\ run[v][k].st = "none"
      /\ \A j \in 1..MaxAttempts : j > k => run[v][j].st = "none"
  BY <1>1, <1>2, TryPlace DEF Ind, Attempts
<1>4. x \in Run /\ x.st = "inflight" /\ x.for = auto[v].token
  BY AutoFields DEF Ind, Run
<1>5. a \in Automation /\ a.pc = "note" /\ a.state = auto[v].state /\ a.try = k /\ a.token = auto[v].token
  BY AutoFields DEF Ind, Automation
<1> HIDE DEF a, x
<1>6. auto'[v] = a
  BY <1>1 DEF Go, Ind, TypeOK
<1>7. PICK t \in 1..MaxAttempts : t = k
  BY <1>3
<1> HIDE DEF k
<1>8. /\ run' \in [Visits -> [1..MaxAttempts -> Run]] /\ run'[v][t] = x
      /\ \A j \in (1..MaxAttempts) \ {t} : run'[v][j] = run[v][j]
      /\ \A u \in Visits \ {v} : run'[u] = run[u]
  BY <1>1, <1>4, <1>7, RunWrite DEF Ind
<1>9. RunsGrow /\ t # 0
  <2>1. \A u \in Visits, j \in 1..MaxAttempts : run'[u][j] = run[u][j] \/ (u = v /\ j = t)
    BY <1>8
  <2>2. run[v][t].st = "none"
    BY <1>3, <1>7
  <2>3. RunsGrow
    BY <2>1, <2>2 DEF RunsGrow
  <2> QED BY <2>3, Names
<1>10. Attempts(v)'
  <2>1. \A j \in 1..MaxAttempts : j > t => run'[v][j].st = "none"
    BY <1>3, <1>7, <1>8, Names
  <2> QED BY <1>4, <1>5, <1>6, <1>7, <1>8, <1>9, <2>1 DEF Attempts
<1>11. /\ task' \in Task /\ task'.visit = task.visit /\ GateSame
       /\ task' = task \/ task'.disp = NoRun
  <2>1. CASE WriteLocked(auto[v], NoRun, "running")
    BY <2>1, NoneTyped, WriteTyped DEF Ind
  <2>2. CASE UNCHANGED task
    BY <2>2, TaskFields DEF Ind, GateSame
  <2> QED BY <1>1, <2>1, <2>2
<1>12. Disp'
  BY <1>9, <1>11, DispSame, DispNone DEF Ind
<1>13. call' \in [Callers -> Call]
  BY <1>1 DEF Ind, TypeOK
<1> QED BY <1>1, <1>5, <1>8, <1>9, <1>10, <1>11, <1>12, <1>13, AutomationStep

\* The run of an attempt that has been started for the visit of its token is what the
\* row may show.
LEMMA DispAttempt ==
  ASSUME Ind, NEW v \in Visits, auto[v].pc \in {"note", "await", "commit"}, run' = run,
         task'.visit = task.visit,
         \/ task' = task
         \/ /\ Current(auto[v]) /\ task'.disp = [visit |-> v, try |-> auto[v].try]
            /\ task'.dst = "completed" => run[v][auto[v].try].st = "succeeded"
  PROVE  Disp'
<1>1. RunsGrow
  BY DEF RunsGrow
<1>2. CASE task' = task
  BY <1>1, <1>2, DispSame DEF Ind
<1>3. CASE /\ Current(auto[v]) /\ task'.disp = [visit |-> v, try |-> auto[v].try]
           /\ task'.dst = "completed" => run[v][auto[v].try].st = "succeeded"
  <2>1. Attempts(v)
    BY AttemptParts DEF Ind
  <2>2. PICK k \in 1..MaxAttempts : k = auto[v].try
    BY <2>1, TryPlace DEF Ind, Attempts
  <2>3. run[v][k].st # "none" /\ run[v][k].for = auto[v].token
    BY <2>1, <2>2 DEF Attempts
  <2>4. PICK r \in Dispatch : r = [visit |-> v, try |-> k]
    BY DispatchOfAttempt
  <2>5. r.visit = v /\ r.try = k /\ run[v][k].st # "none" /\ run[v][k].for = task.visit
    BY <1>3, <2>3, <2>4 DEF Current
  <2>6. v # 0 /\ k # 0
    BY Names
  <2>7. Started(r)'
    BY <2>5, <2>6 DEF Started
  <2>8. task'.disp = r /\ (task'.dst = "completed" => run[v][k].st = "succeeded")
    BY <1>3, <2>2, <2>4
  <2> QED BY <2>5, <2>7, <2>8, DispNew
<1> QED BY <1>2, <1>3

LEMMA AutoNoteStep ==
  ASSUME Ind, NEW v \in Visits, AutoNote(v)
  PROVE  Ind'
<1> DEFINE a == [auto[v] EXCEPT !.pc = "await"]
<1>1. /\ auto[v].pc = "note" /\ Go(v, a) /\ UNCHANGED <<call, run, item, rec, faults, lost>>
      /\ WriteLocked(auto[v], [visit |-> v, try |-> auto[v].try], "running")
  BY DEF AutoNote
<1>2. Attempts(v)
  BY AttemptParts DEF Ind
<1>3. [visit |-> v, try |-> auto[v].try] \in Dispatch
  BY <1>1, <1>2, TryPlace, DispatchOfAttempt DEF Ind, Attempts
<1>4. /\ task' \in Task /\ task'.visit = task.visit /\ GateSame
      /\ \/ task' = task
         \/ /\ Current(auto[v]) /\ task'.disp = [visit |-> v, try |-> auto[v].try]
            /\ task'.dst = "running"
  BY <1>1, <1>3, WriteTyped DEF Ind
<1>5. /\ a \in Automation /\ a.pc = "await" /\ a.state = auto[v].state
      /\ a.try = auto[v].try /\ a.token = auto[v].token
  BY AutoFields DEF Ind, Automation
<1> HIDE DEF a
<1>6. auto'[v] = a
  BY <1>1 DEF Go, Ind, TypeOK
<1>7. Attempts(v)'
  BY <1>1, <1>2, <1>5, <1>6 DEF Attempts
<1>8. Disp'
  BY <1>1, <1>4, DispAttempt
<1>9. RunsGrow
  BY <1>1 DEF RunsGrow
<1>10. call' \in [Callers -> Call] /\ run' \in [Visits -> [1..MaxAttempts -> Run]]
  BY <1>1 DEF Ind, TypeOK
<1> QED BY <1>1, <1>4, <1>5, <1>7, <1>8, <1>9, <1>10, AutomationStep

LEMMA AutoSettledStep ==
  ASSUME Ind, NEW v \in Visits, AutoSettled(v)
  PROVE  Ind'
<1> DEFINE ended == run[v][auto[v].try].st
           again == [auto[v] EXCEPT !.pc = "backoff"]
           over == [auto[v] EXCEPT !.pc = "commit", !.ok = (ended = "succeeded")]
<1>1. /\ auto[v].pc = "await" /\ UNCHANGED <<call, run, item, rec, faults, lost>>
      /\ \/ /\ MayRetry(auto[v]) /\ Go(v, again)
            /\ WriteLocked(auto[v], [visit |-> v, try |-> auto[v].try], "failed")
         \/ Go(v, over) /\ UNCHANGED task
  BY DEF AutoSettled
<1>2. Attempts(v)
  BY AttemptParts DEF Ind
<1>3. RunsGrow /\ call' \in [Callers -> Call] /\ run' \in [Visits -> [1..MaxAttempts -> Run]]
  BY <1>1 DEF RunsGrow, Ind, TypeOK
<1>4. /\ again \in Automation /\ again.pc = "backoff" /\ again.state = auto[v].state
      /\ again.try = auto[v].try /\ again.token = auto[v].token
  BY AutoFields DEF Ind, Automation
<1>5. /\ over \in Automation /\ over.pc = "commit" /\ over.state = auto[v].state
      /\ over.try = auto[v].try /\ over.token = auto[v].token
      /\ over.ok => run[v][auto[v].try].st = "succeeded"
  <2>1. (ended = "succeeded") \in BOOLEAN
    OBVIOUS
  <2>2. auto[v] \in Automation
    BY AutoFields DEF Ind
  <2> QED BY <2>1, <2>2 DEF Automation
<1> HIDE DEF again, over, ended
<1>6. CASE /\ MayRetry(auto[v]) /\ Go(v, again)
           /\ WriteLocked(auto[v], [visit |-> v, try |-> auto[v].try], "failed")
  <2>1. [visit |-> v, try |-> auto[v].try] \in Dispatch
    BY <1>1, <1>2, TryPlace, DispatchOfAttempt DEF Ind, Attempts
  <2>2. /\ task' \in Task /\ task'.visit = task.visit /\ GateSame
        /\ \/ task' = task
           \/ /\ Current(auto[v]) /\ task'.disp = [visit |-> v, try |-> auto[v].try]
              /\ task'.dst = "failed"
    BY <1>6, <2>1, WriteTyped DEF Ind
  <2>3. auto'[v] = again
    BY <1>4, <1>6 DEF Go, Ind, TypeOK
  <2>4. Attempts(v)'
    BY <1>1, <1>2, <1>4, <1>6, <2>3 DEF Attempts, MayRetry
  <2>5. Disp'
    BY <1>1, <2>2, DispAttempt
  <2> QED BY <1>1, <1>3, <1>4, <1>6, <2>2, <2>4, <2>5, AutomationStep
<1>7. CASE Go(v, over) /\ UNCHANGED task
  <2>1. task' \in Task /\ GateSame
    BY <1>7, TaskFields DEF Ind, GateSame
  <2>2. auto'[v] = over
    BY <1>5, <1>7 DEF Go, Ind, TypeOK
  <2>3. Attempts(v)'
    BY <1>1, <1>2, <1>5, <2>2 DEF Attempts
  <2>4. Disp'
    BY <1>3, <1>7, DispSame DEF Ind
  <2> QED BY <1>1, <1>3, <1>5, <1>7, <2>1, <2>3, <2>4, AutomationStep
<1> QED BY <1>1, <1>6, <1>7

LEMMA AutoRetryStep ==
  ASSUME Ind, NEW v \in Visits, AutoRetry(v)
  PROVE  Ind'
<1> DEFINE again == [auto[v] EXCEPT !.pc = "create", !.try = auto[v].try + 1]
           a == IF Current(auto[v]) THEN again ELSE NoAutomation
<1>1. /\ auto[v].pc = "backoff" /\ Go(v, a) /\ UNCHANGED <<task, call, run, item, rec, faults, lost>>
  BY DEF AutoRetry
<1>2. Attempts(v)
  BY AttemptParts DEF Ind
<1>3. /\ auto[v].try \in 1..MaxAttempts /\ auto[v].try < MaxAttempts
      /\ \A k \in 1..MaxAttempts : k > auto[v].try => run[v][k].st = "none"
  BY <1>1, <1>2, TryPlace DEF Ind, Attempts
<1>4. PICK n \in 1..MaxAttempts : n = auto[v].try + 1 /\ n # 0 /\ n \in Tries
  BY <1>3, Names DEF Tries
<1>5. \A k \in 1..MaxAttempts : k >= n => run[v][k].st = "none"
  BY <1>3, <1>4, Names
<1>6. again \in Automation /\ again.pc = "create" /\ again.state = auto[v].state /\ again.try = n
  BY <1>4, AutoFields DEF Ind, Automation
<1> HIDE DEF again
<1>7. a \in Automation /\ (a = again \/ a.pc = "idle")
  BY <1>6, NoneTyped DEF NoAutomation
<1> HIDE DEF a
<1>8. auto'[v] = a
  BY <1>1, <1>7 DEF Go, Ind, TypeOK
<1>9. Attempts(v)'
  <2>1. run'[v][n].st = "none" /\ \A k \in 1..MaxAttempts : k > n => run'[v][k].st = "none"
    BY <1>1, <1>5, Names
  <2> QED BY <1>4, <1>6, <1>7, <1>8, <2>1 DEF Attempts
<1>10. /\ RunsGrow /\ GateSame /\ task' \in Task /\ call' \in [Callers -> Call]
       /\ run' \in [Visits -> [1..MaxAttempts -> Run]]
  BY <1>1 DEF RunsGrow, GateSame, Ind, TypeOK
<1>11. Disp'
  BY <1>1, <1>10, DispSame DEF Ind
<1> QED BY <1>1, <1>6, <1>7, <1>9, <1>10, <1>11, AutomationStep

LEMMA OutcomeTyped ==
  ASSUME TypeOK, NEW r \in Dispatch, NEW ok \in BOOLEAN, task' = Outcome(r, ok)
  PROVE  /\ task' \in Task /\ task'.visit = task.visit /\ GateSame /\ task'.disp = r
         /\ task'.dst = "completed" => ok
BY TaskFields DEF Task, Outcome, GateSame

LEMMA AutoCommitStep ==
  ASSUME Ind, NEW v \in Visits, AutoCommit(v)
  PROVE  Ind'
<1>1. /\ auto[v].pc = "commit" /\ Go(v, NoAutomation) /\ UNCHANGED <<run, item, rec, faults, lost>>
      /\ \/ /\ Current(auto[v])
            /\ task' = Outcome([visit |-> v, try |-> auto[v].try], auto[v].ok)
            /\ \E tr \in IF auto[v].ok THEN OnComplete[auto[v].state]
                         ELSE {OnFailure[auto[v].state]} :
                 Continue(v, Calling(tr, auto[v].ok))
         \/ UNCHANGED <<task, call>>
  BY DEF AutoCommit
<1>2. Attempts(v) /\ v \in Callers
  BY AttemptParts, Names DEF Ind
<1>3. NoAutomation \in Automation /\ NoAutomation.pc = "idle"
  BY NoneTyped DEF NoAutomation
<1>4. auto'[v] = NoAutomation
  BY <1>1, <1>3 DEF Go, Ind, TypeOK
<1>5. Attempts(v)'
  BY <1>3, <1>4 DEF Attempts
<1>6. RunsGrow /\ run' \in [Visits -> [1..MaxAttempts -> Run]]
  BY <1>1 DEF RunsGrow, Ind, TypeOK
<1>7. CASE UNCHANGED <<task, call>>
  <2>1. GateSame /\ task' \in Task /\ call' \in [Callers -> Call]
    BY <1>7 DEF GateSame, Ind, TypeOK
  <2>2. Disp'
    BY <1>6, <1>7, DispSame DEF Ind
  <2> QED BY <1>1, <1>3, <1>5, <1>6, <1>7, <2>1, <2>2, AutomationStep
<1>8. CASE /\ Current(auto[v])
           /\ task' = Outcome([visit |-> v, try |-> auto[v].try], auto[v].ok)
           /\ \E tr \in IF auto[v].ok THEN OnComplete[auto[v].state]
                        ELSE {OnFailure[auto[v].state]} :
                Continue(v, Calling(tr, auto[v].ok))
  <2>1. [visit |-> v, try |-> auto[v].try] \in Dispatch /\ auto[v].ok \in BOOLEAN
    BY <1>1, <1>2, TryPlace, DispatchOfAttempt, AutoFields DEF Ind, Attempts
  <2>2. /\ task' \in Task /\ task'.visit = task.visit /\ GateSame
        /\ task'.disp = [visit |-> v, try |-> auto[v].try]
        /\ task'.dst = "completed" => auto[v].ok
    BY <1>8, <2>1, OutcomeTyped DEF Ind
  <2>3. auto[v].state \in Automated
    BY <1>1, LaunchParts DEF Ind, LaunchVisits
  <2>4. PICK tr \in Transitions \cup {NoTransition} : Continue(v, Calling(tr, auto[v].ok))
    BY <1>8, <2>3, Names
  <2>5. /\ Calling(tr, auto[v].ok) \in Call
        /\ \/ Calling(tr, auto[v].ok).pc = "idle"
           \/ Calling(tr, auto[v].ok).pc = "load" /\ Calling(tr, auto[v].ok).tr \in Transitions
    BY <2>1, NoneTyped
  <2>6. /\ call' \in [Callers -> Call] /\ call'[v] = Calling(tr, auto[v].ok)
        /\ \A x \in Callers \ {v} : call'[x] = call[x]
    BY <1>2, <2>4, <2>5, ContinueLemma DEF Ind
  <2>7. auto[v].ok => run[v][auto[v].try].st = "succeeded"
    BY <1>1, <1>2 DEF Attempts
  <2>8. Disp'
    BY <1>1, <1>8, <2>2, <2>7, DispAttempt
  <2> QED BY <1>1, <1>3, <1>5, <1>6, <2>2, <2>5, <2>6, <2>8, AutomationStep
<1> QED BY <1>1, <1>7, <1>8

(***************************************************************************)
(* Steps of the sweep.                                                     *)
(***************************************************************************)
LEMMA SweepStep ==
  ASSUME Ind, task' \in Task, task'.visit = task.visit, GateSame, rec' \in Sweep,
         UNCHANGED <<auto, run, item, faults, lost>>, call' \in [Callers -> Call],
         \A w \in Callers \ {Reconciler} : call'[w] = call[w],
         \/ call' = call
         \/ /\ call[Reconciler].pc = "idle" /\ call'[Reconciler].pc \in {"idle", "load"}
            /\ call'[Reconciler].pc = "load" => call'[Reconciler].tr \in Transitions,
         SweepInv', Disp'
  PROVE  Ind'
<1>1. RunsGrow /\ NoneStarts
  BY DEF RunsGrow, NoneStarts
<1>2. LaunchCalls /\ LaunchVisits
  BY LaunchParts DEF Ind
<1>3. LaunchCalls'
  <2>1. \A x \in Callers : CallSteady(x)
    BY <1>2 DEF CallSteady, LaunchCalls, Unbound
  <2> QED BY <1>1, <1>2, <2>1, LaunchCallsSteady DEF Ind
<1>4. LaunchVisits'
  <2>1. \A u \in Visits : Unlaunched(u)' => Unlaunched(u)
    <3>1. \A x \in Callers : call'[x].pc = "leave" => call'[x] = call[x]
      OBVIOUS
    <3> QED BY <3>1 DEF Unlaunched
  <2>2. \A u \in Visits : AutoSteady(u)
    BY DEF AutoSteady
  <2>3. \A u \in Visits : call'[u] = call[u]
    BY Names
  <2> QED BY <1>2, <2>1, <2>2, <2>3, LaunchVisitsSteady DEF Ind
<1>5. LaunchInv'
  BY <1>3, <1>4 DEF LaunchInv, LaunchCalls, LaunchVisits, SweepInv, Unbound
<1>6. AttemptInv'
  BY <1>1, AttemptsSteady DEF Ind
<1>7. Gate'
  <2>1. CASE call' = call
    BY <2>1, GateCallsSame DEF Ind
  <2>2. CASE call[Reconciler].pc = "idle" /\ call'[Reconciler].pc \in {"idle", "load"}
    BY <2>2, Names, QuietCall DEF Ind, Filing
  <2> QED BY <2>1, <2>2
<1>8. TypeOK'
  BY DEF Ind, TypeOK
<1> QED BY <1>5, <1>6, <1>7, <1>8 DEF Ind

LEMMA RecFindStep ==
  ASSUME Ind, RecFind
  PROVE  Ind'
<1> DEFINE ok == run[task.disp.visit][task.disp.try].st = "succeeded"
           s == [pc |-> "claim", visit |-> task.visit, disp |-> task.disp, ok |-> ok]
<1>1. /\ call[Reconciler].pc = "idle" /\ rec' = s /\ task.disp.visit # 0
      /\ UNCHANGED <<task, call, auto, run, item, faults, lost>>
  BY DEF RecFind, Orphan
<1>2. /\ task.disp \in Dispatch /\ task.visit \in 0..MaxVisits /\ task \in Task
      /\ ok \in BOOLEAN /\ Started(task.disp)
  BY TaskFields DEF Ind, Visits, Disp
<1>3. s \in Sweep /\ s.pc = "claim" /\ s.disp = task.disp /\ s.ok = ok
  BY <1>2 DEF Sweep
<1> HIDE DEF s
<1>4. task.disp # NoRun
  BY <1>1 DEF NoRun
<1>5. SweepInv'
  BY <1>1, <1>2, <1>3, <1>4 DEF SweepInv, Started
<1>6. RunsGrow /\ GateSame /\ call' \in [Callers -> Call]
  BY <1>1 DEF RunsGrow, GateSame, Ind, TypeOK
<1>7. Disp'
  BY <1>1, <1>6, DispSame DEF Ind
<1> QED BY <1>1, <1>2, <1>3, <1>5, <1>6, <1>7, SweepStep

LEMMA RecClaimStep ==
  ASSUME Ind, RecClaim
  PROVE  Ind'
<1> DEFINE s == [rec EXCEPT !.pc = "route"]
<1>1. /\ rec.pc = "claim" /\ UNCHANGED <<call, auto, run, item, faults, lost>>
      /\ \/ StillOrphan /\ task' = Outcome(rec.disp, rec.ok) /\ rec' = s
         \/ task' = task /\ rec' = NoSweep
  BY DEF RecClaim
<1>2. rec \in Sweep /\ rec.disp \in Dispatch /\ rec.ok \in BOOLEAN
  BY DEF Ind, TypeOK, Sweep
<1>3. /\ call[Reconciler].pc = "idle" /\ rec.disp # NoRun /\ Started(rec.disp)
      /\ rec.ok => run[rec.disp.visit][rec.disp.try].st = "succeeded"
  BY <1>1, LaunchParts DEF Ind, SweepInv
<1>4. s \in Sweep /\ s.pc = "route" /\ s.disp = rec.disp
  BY <1>2 DEF Sweep
<1> HIDE DEF s
<1>5. RunsGrow /\ call' \in [Callers -> Call]
  BY <1>1 DEF RunsGrow, Ind, TypeOK
<1>6. CASE task' = task /\ rec' = NoSweep
  <2>1. NoSweep \in Sweep /\ NoSweep.pc = "idle"
    BY NoneTyped DEF NoSweep
  <2>2. SweepInv' /\ GateSame /\ task' \in Task
    BY <1>6, <2>1, TaskFields DEF SweepInv, GateSame, Ind
  <2>3. Disp'
    BY <1>5, <1>6, DispSame DEF Ind
  <2> QED BY <1>1, <1>5, <1>6, <2>1, <2>2, <2>3, SweepStep
<1>7. CASE StillOrphan /\ task' = Outcome(rec.disp, rec.ok) /\ rec' = s
  <2>1. /\ task' \in Task /\ task'.visit = task.visit /\ GateSame /\ task'.disp = rec.disp
        /\ task'.dst = "completed" => rec.ok
    BY <1>2, <1>7, OutcomeTyped DEF Ind
  <2>2. PICK r \in Dispatch : r = rec.disp
    BY <1>2
  <2>3. SweepInv'
    BY <1>1, <1>3, <1>4, <1>7 DEF SweepInv, Started
  <2>4. Started(r)'
    BY <1>1, <1>3, <2>2 DEF Started
  <2>5. task.disp = r /\ run[r.visit][r.try].for = task.visit
    BY <1>3, <1>7, <2>2 DEF StillOrphan, Ind, Disp, DispatchOfVisit
  <2>6. /\ run'[r.visit][r.try].for = task'.visit
        /\ task'.dst = "completed" => run'[r.visit][r.try].st = "succeeded"
    BY <1>1, <1>3, <2>1, <2>2, <2>5
  <2>7. Disp'
    BY <2>1, <2>2, <2>4, <2>6, DispNew
  <2> QED BY <1>1, <1>4, <1>5, <1>7, <2>1, <2>3, <2>7, SweepStep
<1> QED BY <1>1, <1>6, <1>7

LEMMA RecRouteStep ==
  ASSUME Ind, RecRoute
  PROVE  Ind'
<1> DEFINE ok == task.auto = "completed"
<1>1. /\ rec.pc = "route" /\ rec' = NoSweep /\ UNCHANGED <<task, auto, run, item, faults, lost>>
      /\ \/ /\ task.state \in Automated
            /\ \E tr \in IF ok THEN OnComplete[task.state] ELSE {OnFailure[task.state]} :
                 Continue(Reconciler, IF task.disp = NoRun THEN NoCall ELSE Calling(tr, ok))
         \/ UNCHANGED call
  BY DEF RecRoute
<1>2. call[Reconciler].pc = "idle" /\ Reconciler \in Callers
  BY <1>1, LaunchParts, Names DEF Ind, SweepInv
<1>3. NoSweep \in Sweep /\ NoSweep.pc = "idle"
  BY NoneTyped DEF NoSweep
<1>4. SweepInv' /\ GateSame /\ task' \in Task /\ RunsGrow
  BY <1>1, <1>3, TaskFields DEF SweepInv, GateSame, Ind, RunsGrow
<1>5. Disp'
  BY <1>1, <1>4, DispSame DEF Ind
<1>6. /\ call' \in [Callers -> Call] /\ \A w \in Callers \ {Reconciler} : call'[w] = call[w]
      /\ \/ call' = call
         \/ /\ call'[Reconciler].pc \in {"idle", "load"}
            /\ call'[Reconciler].pc = "load" => call'[Reconciler].tr \in Transitions
  <2>1. CASE UNCHANGED call
    BY <2>1 DEF Ind, TypeOK
  <2>2. CASE /\ task.state \in Automated
             /\ \E tr \in IF ok THEN OnComplete[task.state] ELSE {OnFailure[task.state]} :
                  Continue(Reconciler, IF task.disp = NoRun THEN NoCall ELSE Calling(tr, ok))
    <3>1. PICK tr \in Transitions \cup {NoTransition} :
                 Continue(Reconciler, IF task.disp = NoRun THEN NoCall ELSE Calling(tr, ok))
      BY <2>2, Names
    <3> DEFINE c == IF task.disp = NoRun THEN NoCall ELSE Calling(tr, ok)
    <3>2. ok \in BOOLEAN
      OBVIOUS
    <3> HIDE DEF ok
    <3>3. /\ Calling(tr, ok) \in Call
          /\ Calling(tr, ok).pc \in {"idle", "load"}
          /\ Calling(tr, ok).pc = "load" => Calling(tr, ok).tr \in Transitions
      BY <3>2, NoneTyped
    <3>4. NoCall \in Call /\ NoCall.pc = "idle"
      BY NoneTyped DEF NoCall
    <3>5. c \in Call /\ c.pc \in {"idle", "load"} /\ (c.pc = "load" => c.tr \in Transitions)
      BY <3>3, <3>4
    <3>6. Continue(Reconciler, c)
      BY <3>1
    <3> HIDE DEF c
    <3> QED BY <1>2, <3>5, <3>6, ContinueLemma DEF Ind
  <2> QED BY <1>1, <2>1, <2>2
<1> QED BY <1>1, <1>2, <1>3, <1>4, <1>5, <1>6, SweepStep

(***************************************************************************)
(* A crash forgets the calls, the automations and the sweep; the rows stay.*)
(***************************************************************************)
LEMMA CrashStep ==
  ASSUME Ind, Crash
  PROVE  Ind'
<1>1. /\ faults < MaxFaults /\ faults' = faults + 1 /\ lost' = TRUE
      /\ call' = [w \in Callers |-> IF call[w].pc = "idle" THEN NoCall ELSE Finished(w)]
      /\ auto' = [v \in Visits |-> NoAutomation] /\ rec' = NoSweep
      /\ UNCHANGED <<task, run, item>>
  BY DEF Crash
<1>2. /\ NoCall \in Call /\ NoCall.pc = "idle" /\ NoAutomation \in Automation
      /\ NoAutomation.pc = "idle" /\ NoSweep \in Sweep /\ NoSweep.pc = "idle"
  BY NoneTyped DEF NoCall, NoAutomation, NoSweep
<1>3. /\ call' \in [Callers -> Call] /\ \A w \in Callers : call'[w].pc \in {"idle", "done"}
      /\ \A w \in Callers \ Requests : call'[w].pc = "idle"
  BY <1>1, <1>2, NoneTyped
<1>4. /\ auto' \in [Visits -> Automation] /\ \A v \in Visits : auto'[v].pc = "idle"
  BY <1>1, <1>2
<1>5. LaunchInv'
  <2>1. LaunchCalls'
    BY <1>3 DEF LaunchCalls, Unbound
  <2>2. LaunchVisits'
    <3>1. \A v \in Visits : Unlaunched(v)' => Unlaunched(v)
      BY <1>1, <1>3 DEF Unlaunched
    <3>2. \A v \in Visits : call'[v].pc = "idle"
      BY <1>3, Names
    <3> QED BY <1>1, <1>4, <3>1, <3>2, LaunchParts DEF Ind, LaunchVisits
  <2>3. SweepInv'
    BY <1>1, <1>2 DEF SweepInv
  <2> QED BY <2>1, <2>2, <2>3 DEF LaunchInv, LaunchCalls, LaunchVisits, SweepInv, Unbound
<1>6. AttemptInv'
  BY <1>4 DEF AttemptInv
<1>7. RunsGrow
  BY <1>1 DEF RunsGrow
<1>8. Disp'
  BY <1>1, <1>7, DispSame DEF Ind
<1>9. Gate'
  <2>1. GateHasResolver'
    BY <1>1 DEF GateHasResolver
  <2>2. \A w \in Callers : ~Filing(w)' /\ call'[w].pc # "link"
    BY <1>3 DEF Filing
  <2>3. \A i \in Items : call'[i].pc = "idle" /\ ~Resolving(i)'
    BY <1>3, Names DEF Resolving
  <2>4. /\ task'.approval # NoItem => task'.pending # NoTransition
        /\ \A i \in Items : task'.approval = i => item'[i] # "unborn"
    BY <1>1 DEF Ind, Gate, GateHeld
  <2> QED BY <2>1, <2>2, <2>3, <2>4 DEF Gate, GateHeld
<1>10. TypeOK'
  BY <1>1, <1>2, <1>3, <1>4, Names DEF Ind, TypeOK
<1> QED BY <1>5, <1>6, <1>8, <1>9, <1>10 DEF Ind

LEMMA InitInd == Init => Ind
<1> SUFFICES ASSUME Init PROVE Ind
  OBVIOUS
<1>1. /\ task = [state |-> Initial, visit |-> 1, auto |-> "none", disp |-> NoRun,
                 dst |-> "none", pending |-> NoTransition, approval |-> NoItem,
                 depth |-> 0, ok |-> TRUE]
      /\ call = [w \in Callers |-> NoCall]
      /\ auto = [v \in Visits |-> NoAutomation]
      /\ run = [v \in Visits |-> [k \in 1..MaxAttempts |-> [st |-> "none", for |-> 0]]]
      /\ item = [i \in Items |-> "unborn"] /\ rec = NoSweep /\ faults = 0 /\ lost = FALSE
  BY DEF Init
<1>2. /\ NoCall \in Call /\ NoCall.pc = "idle" /\ NoAutomation \in Automation /\ NoRun \in Dispatch
      /\ NoAutomation.pc = "idle" /\ NoSweep \in Sweep /\ NoSweep.pc = "idle"
  BY NoneTyped DEF NoCall, NoAutomation, NoSweep
<1>3. /\ task \in Task /\ task.pending = NoTransition /\ task.approval = NoItem
      /\ task.disp = NoRun /\ task.visit = 1
  BY <1>1, <1>2, Names DEF Task
<1>4. /\ \A w \in Callers : call[w].pc = "idle"
      /\ \A v \in Visits : auto[v].pc = "idle"
      /\ \A v \in Visits, k \in 1..MaxAttempts : run[v][k].st = "none"
  BY <1>1, <1>2
<1>5. TypeOK
  <2>1. [st |-> "none", for |-> 0] \in Run
    BY Names DEF Run
  <2>2. run \in [Visits -> [1..MaxAttempts -> Run]]
    BY <1>1, <2>1
  <2>3. call \in [Callers -> Call] /\ auto \in [Visits -> Automation] /\ rec \in Sweep
    BY <1>1, <1>2
  <2>4. /\ item \in [Items -> {"unborn", "pending", "approved", "rejected"}]
        /\ faults \in 0..MaxFaults
    BY <1>1, Names
  <2>5. lost \in BOOLEAN
    BY <1>1
  <2> QED BY <1>3, <2>2, <2>3, <2>4, <2>5 DEF TypeOK
<1>6. Gate
  <2>1. \A i \in Items : call[i].pc = "idle" /\ i # NoItem
    BY <1>4, Names
  <2> QED BY <1>3, <1>4, <2>1 DEF Gate, GateHasResolver, GateHeld, Filing, Resolving
<1>7. LaunchInv
  <2>1. \A v \in Visits : call[v].pc = "idle"
    BY <1>4, Names
  <2> QED BY <1>1, <1>2, <1>4, <2>1 DEF LaunchInv
<1>8. AttemptInv
  BY <1>4 DEF AttemptInv
<1>9. Disp
  BY <1>3 DEF Disp, Started, DispatchOfVisit
<1> QED BY <1>5, <1>6, <1>7, <1>8, <1>9 DEF Ind

LEMMA StutterInd == Ind /\ UNCHANGED vars => Ind'
<1> SUFFICES ASSUME Ind, UNCHANGED vars PROVE Ind'
  OBVIOUS
<1>1. UNCHANGED <<task, call, auto, run, item, rec, faults, lost>>
  BY DEF vars
<1>2. RunsGrow /\ NoneStarts /\ GateSame
  BY <1>1 DEF RunsGrow, NoneStarts, GateSame
<1>3. \A w \in Callers : CallSteady(w)
  BY <1>1, LaunchParts DEF Ind, CallSteady, LaunchCalls
<1>4. LaunchInv' /\ AttemptInv' /\ Disp' /\ Gate'
  BY <1>1, <1>2, <1>3, LaunchSteady, AttemptsSteady, DispSame, GateCallsSame DEF Ind
<1>5. TypeOK'
  BY <1>1 DEF Ind, TypeOK
<1> QED BY <1>4, <1>5 DEF Ind

LEMMA NextInd == Ind /\ [Next]_vars => Ind'
<1> SUFFICES ASSUME Ind, [Next]_vars PROVE Ind'
  OBVIOUS
<1>1. CASE \E w \in Requests, tr \in Transitions : Request(w, tr)
  BY <1>1, RequestStep
<1>2. ASSUME NEW w \in Callers, Transition(w) \/ EmitFails(w)
      PROVE  Ind'
  BY <1>2, LoadStep, ApplyStep, LeaveStep, RefusedStep, ParkClaimStep, EmitItemStep, LinkStep,
     EmitFailsStep DEF Transition
<1>3. CASE \E i \in Items, d \in {"approved", "rejected"} : Decide(i, d)
  BY <1>3, DecideStep
<1>4. CASE \E i \in Items : Resolution(i)
  BY <1>4, ResumeApprovedStep, ResumeRejectedStep DEF Resolution
<1>5. CASE \E b \in PayloadEdits : UpdatePayload(b)
  BY <1>5, UpdatePayloadStep
<1>6. ASSUME NEW v \in Visits, Automate(v)
      PROVE  Ind'
  BY <1>6, AutoLoadStep, AutoMarkStep, AutoCreateStep, AutoNoteStep, AutoSettledStep,
     AutoRetryStep, AutoCommitStep DEF Automate
<1>7. ASSUME NEW v \in Visits, RunStops(v)
      PROVE  Ind'
  BY <1>7, RunEndsStep DEF RunStops
<1>8. CASE Reconcile
  BY <1>8, RecFindStep, RecClaimStep, RecRouteStep DEF Reconcile
<1>9. CASE Crash
  BY <1>9, CrashStep
<1>10. CASE UNCHANGED vars
  BY <1>10, StutterInd
<1> QED BY <1>1, <1>2, <1>3, <1>4, <1>5, <1>6, <1>7, <1>8, <1>9, <1>10 DEF Next

\* Nothing but performTransitionTxn enters a visit.
LEMMA MovedByApply ==
  ASSUME TypeOK, Next, task'.visit # task.visit
  PROVE  \E w \in Callers : Apply(w)
<1>1. task \in Task
  BY TaskFields
<1>2. \A r, ok : Outcome(r, ok).visit = task.visit
  BY <1>1 DEF Outcome, Task
<1>3. ASSUME NEW w \in Callers, Transition(w) \/ EmitFails(w)
      PROVE  Apply(w)
  <2>1. \A i, tr : GateCleared(i).visit = task.visit /\ RolledBack(tr).visit = task.visit
    BY <1>1 DEF GateCleared, RolledBack, Task
  <2>2. /\ Load(w) => UNCHANGED task
        /\ Leave(w) => UNCHANGED task
        /\ EmitItem(w) => UNCHANGED task
    BY DEF Load, Leave, EmitItem
  <2>3. ~Refused(w)
    BY <1>1, <2>1 DEF Refused, Task
  <2>4. ~ParkClaim(w)
    BY <1>1 DEF ParkClaim, Task
  <2>5. ~Link(w)
    BY <1>1 DEF Link, Task
  <2>6. ~EmitFails(w)
    BY <2>1 DEF EmitFails
  <2> QED BY <1>3, <2>2, <2>3, <2>4, <2>5, <2>6 DEF Transition
<1>4. ASSUME NEW i \in Items
      PROVE  ~Resolution(i) /\ \A d : ~Decide(i, d)
  BY <1>1 DEF Resolution, ResumeApproved, ResumeRejected, Decide, GateCleared, Task
<1>5. ASSUME NEW v \in Visits
      PROVE  ~Automate(v) /\ ~RunStops(v)
  <2>1. \A a, r, st : WriteLocked(a, r, st) => task'.visit = task.visit
    BY <1>1 DEF WriteLocked, Task
  <2>2. ~AutoLoad(v) /\ ~AutoRetry(v) /\ ~RunStops(v)
    BY DEF AutoLoad, AutoRetry, RunStops, RunEnds
  <2>3. ~AutoMark(v)
    BY <1>1 DEF AutoMark, Task
  <2>4. ~AutoCreate(v)
    BY <2>1 DEF AutoCreate
  <2>5. ~AutoNote(v)
    BY <2>1 DEF AutoNote
  <2>6. ~AutoSettled(v)
    BY <2>1 DEF AutoSettled
  <2>7. ~AutoCommit(v)
    BY <1>2 DEF AutoCommit
  <2> QED BY <2>2, <2>3, <2>4, <2>5, <2>6, <2>7 DEF Automate
<1>6. ~Reconcile
  BY <1>2 DEF Reconcile, RecFind, RecClaim, RecRoute
<1>7. \A w, tr, b : ~Request(w, tr) /\ ~UpdatePayload(b) /\ ~Crash
  BY <1>1 DEF Request, UpdatePayload, Crash, Task
<1> QED BY <1>3, <1>4, <1>5, <1>6, <1>7 DEF Next

LEMMA SpecInd == Spec => []Ind
BY InitInd, NextInd, PTL DEF Spec

(***************************************************************************)
(* The theorems.                                                           *)
(***************************************************************************)
\* The task, its calls, runs and gate stay well formed: a parked transition always has
\* somebody who will release it, one call at a time files an item, and a visit is worked on
\* by one automation that starts each attempt once.
THEOREM GateCorrect == Spec => []GateInv
<1>1. Ind => GateInv
  BY DEF Ind, Gate, Disp, GateInv
<1> QED BY <1>1, SpecInd, PTL

\* The run a task shows was started for the visit the task is in, and one shown as completed
\* has succeeded, whatever automations and sweeps of earlier visits still write.
THEOREM DispatchBelongs == Spec => []DispatchOfVisit
<1>1. Ind => DispatchOfVisit
  BY DEF Ind, Disp
<1> QED BY <1>1, SpecInd, PTL

\* While a transition is parked, only the approval of the item that is its gate moves the
\* task, and it moves it where that transition goes.
THEOREM FenceHolds == Spec => FencedByGate
<1> DEFINE Fence == task.pending # NoTransition /\ task'.visit # task.visit =>
                      /\ task.approval # NoItem /\ item[task.approval] = "approved"
                      /\ task'.state = To[task.pending]
<1>1. Ind /\ [Next]_vars => [Fence]_vars
  <2> SUFFICES ASSUME Ind, Next, task.pending # NoTransition, task'.visit # task.visit
               PROVE  /\ task.approval # NoItem /\ item[task.approval] = "approved"
                      /\ task'.state = To[task.pending]
    OBVIOUS
  <2>1. PICK w \in Callers : Apply(w)
    BY MovedByApply DEF Ind
  <2>2. /\ call[w].pc = "apply" /\ Admissible(w, call[w].tr)
        /\ task'.state = To[call[w].tr]
    BY <2>1, TaskFields DEF Apply, Ind, Task
  <2>3. w \in Items /\ Resolving(w)
    BY <2>2 DEF Admissible, Resolving
  <2>4. task.approval = w /\ task.pending = call[w].tr /\ item[w] = "approved"
    BY <2>3, ResolverAlone DEF Ind, Gate
  <2> QED BY <2>2, <2>3, <2>4, Names
<1>2. Spec => [][Fence]_vars
  BY <1>1, SpecInd, PTL DEF Spec
<1> QED BY <1>2 DEF FencedByGate
=============================================================================
