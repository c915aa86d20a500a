------------------------- MODULE QueueAndWalkProofs -------------------------
(***************************************************************************)
(* The queue of runs (RunQueue), for any number of tasks, runs, workers    *)
(* and drains, any lease and any project limits: leases are exclusive, and *)
(* the runs that hold a slot of a project stay within its limit.           *)
(*                                                                         *)
(* The walk of a run's graph (RunGraph), for every finite acyclic graph,   *)
(* any verdicts, any number of attempts and of crashes: the rows and the   *)
(* driver agree, only nodes the graph calls for are executed, joins wait   *)
(* for their sources, and a recorded side effect is never repeated.        *)
(***************************************************************************)
EXTENDS RunQueue, RunGraph, FiniteSetTheorems, TLAPS

IndInv == TypeOK /\ ClaimInv /\ ExclusiveLease /\ SlotsWithinLimit

(***************************************************************************)
(* Finite sets of numbers, tasks and runs                                  *)
(***************************************************************************)
\* A set of natural numbers that is not empty has a least element.
LEMMA LeastExists ==
  ASSUME NEW S \in SUBSET Nat, S # {}
  PROVE  \E m \in S : \A n \in S : m <= n
<1> DEFINE T == {0..n : n \in S}
           R == StrictSubsetOrdering(Nat)
<1>1. T \subseteq FiniteSubsetsOf(Nat) /\ T # {}
  <2> SUFFICES ASSUME NEW n \in S PROVE 0..n \in FiniteSubsetsOf(Nat)
    OBVIOUS
  <2> QED BY FS_Interval DEF FiniteSubsetsOf
<1>2. IsWellFoundedOn(R, FiniteSubsetsOf(Nat))
  BY FS_StrictSubsetOrderingWellFounded
<1>3. \E x \in T : \A y \in T : <<y, x>> \notin R
  <2> HIDE DEF T, R
  <2> QED BY <1>1, <1>2, WFMin
<1>4. PICK m \in S : \A n \in S : <<0..n, 0..m>> \notin R
  BY <1>3
<1>5. ASSUME NEW n \in S, n < m PROVE FALSE
  <2>1. 0..n \subseteq 0..m /\ m \in 0..m /\ m \notin 0..n
    BY <1>5
  <2>2. <<0..n, 0..m>> \in R
    BY <2>1 DEF StrictSubsetOrdering
  <2> QED BY <2>2, <1>4
<1> QED BY <1>5

\* The count of a set of runs is a number, and counts grow with the sets.
LEMMA RunCount ==
  ASSUME NEW S \in SUBSET Runs, NEW T \in SUBSET S
  PROVE  /\ IsFiniteSet(S)
         /\ Cardinality(S) \in Nat /\ Cardinality(T) \in Nat
         /\ Cardinality(T) <= Cardinality(S)
         /\ T # S => Cardinality(T) < Cardinality(S)
BY FiniteAssumption, FS_Subset, FS_CardinalityType

\* A union counts no more than its parts together.
LEMMA CountUnion ==
  ASSUME NEW S \in SUBSET Runs, NEW T \in SUBSET Runs
  PROVE  Cardinality(S \cup T) <= Cardinality(S) + Cardinality(T)
<1>1. IsFiniteSet(S) /\ IsFiniteSet(T) /\ IsFiniteSet(S \cap T)
  BY FiniteAssumption, FS_Subset
<1>2. Cardinality(S \cap T) \in Nat /\ Cardinality(S) \in Nat /\ Cardinality(T) \in Nat
  BY <1>1, FS_CardinalityType
<1>3. Cardinality(S \cup T) = Cardinality(S) + Cardinality(T) - Cardinality(S \cap T)
  BY <1>1, FS_Union
<1> QED BY <1>2, <1>3

\* One more task counts one more.
LEMMA TaskCount ==
  ASSUME NEW S \in SUBSET Tasks, NEW t \in Tasks \ S
  PROVE  /\ Cardinality(S) \in Nat
         /\ Cardinality(S \cup {t}) = Cardinality(S) + 1
BY FiniteAssumption, FS_Subset, FS_CardinalityType, FS_AddElement

(***************************************************************************)
(* selectClaimableUnderLimit: of the runs of a project among the           *)
(* candidates, at most k have fewer than k runs before them.               *)
(***************************************************************************)
Ahead(C, p, r) == {q \in Runs : ProjectOf[q] = p /\ Before(C, q, r)}
Among(C, p) == {r \in Runs : ProjectOf[r] = p /\ \E t \in C : RunOf[t] = r}

Ranked(C) ==
  /\ \A t \in C : task[t].at \in Nat
  /\ \A t, u \in C : task[t].at = task[u].at => t = u

\* Of two runs among the candidates, one comes before the other.
LEMMA BeforeTotal ==
  ASSUME NEW C, Ranked(C), NEW q, NEW r, q # r,
         \E t \in C : RunOf[t] = q, \E t \in C : RunOf[t] = r
  PROVE  Before(C, q, r) \/ Before(C, r, q)
<1> DEFINE S == {task[t].at : t \in {u \in C : RunOf[u] \in {q, r}}}
<1>1. S \in SUBSET Nat /\ S # {}
  BY DEF Ranked
<1>2. PICK m \in S : \A n \in S : m <= n
  <2> HIDE DEF S
  <2> QED BY <1>1, LeastExists
<1>3. PICK t \in C : RunOf[t] \in {q, r} /\ task[t].at = m
  OBVIOUS
<1>4. ASSUME NEW u \in C, RunOf[u] \in {q, r}, RunOf[u] # RunOf[t]
      PROVE  task[t].at < task[u].at
  <2>1. task[t].at <= task[u].at
    BY <1>2, <1>3, <1>4
  <2> QED BY <2>1, <1>4 DEF Ranked
<1> QED BY <1>3, <1>4 DEF Before

\* What is before a run is before every run after it.
LEMMA AheadGrows ==
  ASSUME NEW C, Ranked(C), NEW p, NEW q \in Among(C, p), NEW r \in Among(C, p),
         Before(C, q, r)
  PROVE  Cardinality(Ahead(C, p, q)) < Cardinality(Ahead(C, p, r))
<1>1. PICK t \in C : RunOf[t] = q /\ \A u \in C : RunOf[u] = r => task[t].at < task[u].at
  BY DEF Before
<1>2. ASSUME NEW s \in Ahead(C, p, q) PROVE s \in Ahead(C, p, r)
  <2>1. PICK v \in C : RunOf[v] = s /\ \A u \in C : RunOf[u] = q => task[v].at < task[u].at
    BY <1>2 DEF Ahead, Before
  <2>2. task[v].at < task[t].at
    BY <1>1, <2>1
  <2>3. \A u \in C : RunOf[u] = r => task[v].at < task[u].at
    BY <1>1, <2>2 DEF Ranked
  <2> QED BY <2>1, <2>3, <1>2 DEF Ahead, Before
<1>3. q \in Ahead(C, p, r)
  BY DEF Ahead, Among
<1>4. q \notin Ahead(C, p, q)
  BY DEF Ahead, Before, Ranked
<1>5. Ahead(C, p, r) \in SUBSET Runs /\ Ahead(C, p, q) \in SUBSET Ahead(C, p, r)
  BY <1>2 DEF Ahead
<1> QED BY <1>3, <1>4, <1>5, RunCount

\* Ahead grows with every run granted, so k slots are granted to at most k runs.
LEMMA RankBound ==
  ASSUME NEW C, Ranked(C), NEW p, NEW k \in Nat
  PROVE  LET G == {r \in Among(C, p) : Cardinality(Ahead(C, p, r)) < k}
         IN  Cardinality(G) <= k
<1> DEFINE G == {r \in Among(C, p) : Cardinality(Ahead(C, p, r)) < k}
           f == [r \in G |-> Cardinality(Ahead(C, p, r))]
<1>1. \A r \in G : f[r] \in 0..(k - 1)
  <2> SUFFICES ASSUME NEW r \in G PROVE Cardinality(Ahead(C, p, r)) \in 0..(k - 1)
    OBVIOUS
  <2>1. Cardinality(Ahead(C, p, r)) \in Nat
    BY RunCount, Ahead(C, p, r) \in SUBSET Runs DEF Ahead
  <2> QED BY <2>1
<1>2. ASSUME NEW q \in G, NEW r \in G, q # r PROVE f[q] # f[r]
  <2>1. Before(C, q, r) \/ Before(C, r, q)
    BY <1>2, BeforeTotal DEF Among
  <2>2. Cardinality(Ahead(C, p, q)) \in Nat /\ Cardinality(Ahead(C, p, r)) \in Nat
    BY <1>1, <1>2
  <2>3. \/ Cardinality(Ahead(C, p, q)) < Cardinality(Ahead(C, p, r))
        \/ Cardinality(Ahead(C, p, r)) < Cardinality(Ahead(C, p, q))
    BY <2>1, AheadGrows
  <2> QED BY <2>2, <2>3
<1>3. f \in Injection(G, 0..(k - 1))
  <2>1. f \in [G -> 0..(k - 1)]
    BY <1>1
  <2> HIDE DEF f, G
  <2> QED BY <1>2, <2>1 DEF Injection, IsInjective
<1>4. IsFiniteSet(0..(k - 1)) /\ Cardinality(0..(k - 1)) = k
  BY FS_Interval
<1>5. Cardinality(G) <= Cardinality(0..(k - 1))
  <2> HIDE DEF f, G
  <2> QED BY <1>3, <1>4, FS_Injection
<1> QED BY <1>4, <1>5

(***************************************************************************)
(* Type correctness                                                        *)
(***************************************************************************)
\* A call that does not run is one.
LEMMA IdleTyped == Idle \in Call
BY SizesAssumption DEF Idle, Call, Floor

\* A call stays one when it selects rows, takes a lock, counts, claims, lets a task go, or
\* grows older.
LEMMA CallUpdate ==
  ASSUME NEW c \in Call
  PROVE  /\ \A n \in 0..Batch : [c EXCEPT !.pc = "select", !.limit = n] \in Call
         /\ \A L \in SUBSET Projects : [c EXCEPT !.locks = L] \in Call
         /\ \A occ \in [Projects -> Nat] : [c EXCEPT !.pc = "commit", !.occ = occ] \in Call
         /\ \A a \in 0..MaxAge, l \in Floor..TTL : [c EXCEPT !.left = l, !.age = a] \in Call
         /\ \A C \in SUBSET Tasks :
              /\ [c EXCEPT !.cands = C, !.pc = "occupancy"] \in Call
              /\ \A l \in Floor..TTL : [c EXCEPT !.pc = "return", !.left = l, !.held = C] \in Call
              /\ [c EXCEPT !.pc = "drive", !.held = C] \in Call
              /\ [c EXCEPT !.driven = C] \in Call
              /\ \A D \in SUBSET Tasks : [c EXCEPT !.held = C, !.driven = D] \in Call
BY DEF Call

\* The queue starts well typed.
LEMMA InitTyped == Init => TypeOK
BY IdleTyped, SizesAssumption DEF Init, TypeOK, Row, Floor

\* Every step leaves rows, calls and counters well typed.
LEMMA TypeStep == TypeOK /\ [Next]_vars => TypeOK'
<1> SUFFICES ASSUME TypeOK, [Next]_vars PROVE TypeOK'
  OBVIOUS
<1> USE SizesAssumption, IdleTyped
<1>a. ASSUME NEW d \in Drains, NEW c \in Call, Continue(d, c)
      PROVE  drain' \in [Drains -> Call]
  BY <1>a DEF Continue, TypeOK
<1>b. ASSUME NEW d \in Drains PROVE drain[d] \in Call
  BY DEF TypeOK
<1>c. ASSUME NEW d \in Drains
      PROVE  /\ drain[d].cands \in SUBSET Tasks /\ drain[d].held \in SUBSET Tasks
             /\ drain[d].driven \in SUBSET Tasks /\ drain[d].locks \in SUBSET Projects
             /\ drain[d].age \in 0..MaxAge /\ drain[d].left \in Floor..TTL
  BY <1>b DEF Call
<1>1. ASSUME NEW t \in Tasks, Enqueue(t) PROVE TypeOK'
  <2>1. Cardinality({u \in Tasks : task[u].st # "unborn"}) \in Nat
    BY FiniteAssumption, FS_Subset, FS_CardinalityType
  <2>2. task' \in [Tasks -> Row]
    BY <1>1, <2>1 DEF Enqueue, TypeOK, Row
  <2> QED BY <1>1, <2>2 DEF Enqueue, TypeOK
<1>2. ASSUME NEW d \in Drains, DrainBegin(d) PROVE TypeOK'
  <2>1. EffectiveClaimLimit(inFlight[WorkerOf[d]]) \in 0..Batch
    BY MapsAssumption DEF EffectiveClaimLimit, Minimum, TypeOK
  <2> QED BY <1>2, <1>a, <2>1, CallUpdate DEF DrainBegin, TypeOK
<1>3. ASSUME NEW d \in Drains, DrainSelect(d) PROVE TypeOK'
  <2> DEFINE free == {t \in Tasks : DueFor(t, drain[d].age) /\ ~Locked(t)}
             rows == {t \in free :
                        Cardinality({u \in free : task[u].at < task[t].at}) < drain[d].limit}
             next == IF rows = {} THEN Idle
                     ELSE [drain[d] EXCEPT !.cands = rows, !.pc = "occupancy"]
  <2>1. rows \in SUBSET Tasks
    OBVIOUS
  <2>2. next \in Call
    <3> HIDE DEF rows
    <3> QED BY <2>1, <1>b, CallUpdate
  <2>3. Continue(d, next) /\ UNCHANGED <<task, inFlight, faults>>
    BY <1>3 DEF DrainSelect
  <2> HIDE DEF next
  <2> QED BY <2>2, <2>3, <1>a DEF TypeOK
<1>4. ASSUME NEW d \in Drains, DrainLock(d) PROVE TypeOK'
  <2>1. PICK p \in Projects : Continue(d, [drain[d] EXCEPT !.locks = drain[d].locks \cup {p}])
    BY <1>4 DEF DrainLock
  <2>2. [drain[d] EXCEPT !.locks = drain[d].locks \cup {p}] \in Call
    BY <1>b, <1>c, CallUpdate
  <2> QED BY <1>4, <2>1, <2>2, <1>a DEF DrainLock, TypeOK
<1>5. ASSUME NEW d \in Drains, DrainOccupancy(d) PROVE TypeOK'
  <2> DEFINE occ == [p \in Projects |-> IF p \in drain[d].locks
                       THEN Cardinality(Occupants(p, drain[d].age)) ELSE 0]
  <2>1. \A p \in Projects, a \in Int : Cardinality(Occupants(p, a)) \in Nat
    BY RunCount DEF Occupants
  <2>2. occ \in [Projects -> Nat]
    BY <2>1, <1>c
  <2>3. [drain[d] EXCEPT !.pc = "commit", !.occ = occ] \in Call
    <3> HIDE DEF occ
    <3> QED BY <2>2, <1>b, CallUpdate
  <2> QED BY <1>5, <2>3, <1>a DEF DrainOccupancy, TypeOK
<1>6. ASSUME NEW d \in Drains, DrainCommit(d) PROVE TypeOK'
  <2> DEFINE B == Chosen(drain[d].cands, drain[d].occ)
             lease == TTL - drain[d].age
             next == IF B = {} THEN Idle
                     ELSE [Idle EXCEPT !.pc = "return", !.left = lease, !.held = B]
  <2>1. lease \in Floor..TTL
    BY <1>c DEF Floor
  <2>2. B \in SUBSET Tasks
    BY <1>c DEF Chosen
  <2>3. task' \in [Tasks -> Row]
    BY <1>6, <2>1 DEF DrainCommit, TypeOK, Row
  <2>4. next \in Call
    <3> HIDE DEF B, lease
    <3> QED BY <2>1, <2>2, CallUpdate
  <2>5. Continue(d, next) /\ UNCHANGED <<inFlight, faults>>
    BY <1>6 DEF DrainCommit
  <2> HIDE DEF next
  <2> QED BY <2>3, <2>4, <2>5, <1>a DEF TypeOK
<1>7. ASSUME NEW d \in Drains, DrainReturn(d) PROVE TypeOK'
  <2> DEFINE B == {t \in drain[d].held : Present(t)}
             next == IF B = {} THEN Idle ELSE [drain[d] EXCEPT !.pc = "drive", !.held = B]
  <2>1. Cardinality(B) \in Nat /\ B \in SUBSET Tasks
    BY FiniteAssumption, FS_Subset, FS_CardinalityType, <1>c
  <2>2. /\ inFlight' = [inFlight EXCEPT ![WorkerOf[d]] = @ + Cardinality(B)]
        /\ Continue(d, next) /\ UNCHANGED <<task, faults>>
    BY <1>7 DEF DrainReturn
  <2>3. next \in Call
    <3> HIDE DEF B
    <3> QED BY <2>1, <1>b, CallUpdate
  <2> HIDE DEF next, B
  <2>4. inFlight' \in [Workers -> Int]
    BY <2>1, <2>2, MapsAssumption DEF TypeOK
  <2> QED BY <2>2, <2>3, <2>4, <1>a DEF TypeOK
<1>8. ASSUME NEW d \in Drains, NEW t \in Tasks, Drive(d, t) PROVE TypeOK'
  <2>1. [drain[d] EXCEPT !.driven = drain[d].driven \cup {t}] \in Call
    BY <1>b, <1>c, CallUpdate
  <2> QED BY <1>8, <2>1, <1>a DEF Drive, TypeOK
<1>9. ASSUME NEW d \in Drains, NEW t \in Tasks, Release(d, t)
      PROVE  drain' \in [Drains -> Call] /\ inFlight' \in [Workers -> Int]
  <2>1. [drain[d] EXCEPT !.held = drain[d].held \ {t}, !.driven = drain[d].driven \ {t}] \in Call
    BY <1>b, <1>c, CallUpdate
  <2>2. drain' \in [Drains -> Call]
    BY <1>9, <2>1, <1>a DEF Release
  <2> QED BY <1>9, <2>2, MapsAssumption DEF Release, TypeOK
<1>10. ASSUME NEW d \in Drains, NEW t \in Tasks, Ack(d, t) PROVE TypeOK'
  <2>1. Floor \in Floor..TTL
    BY DEF Floor
  <2>2. task' \in [Tasks -> Row]
    BY <1>10, <2>1 DEF Ack, TypeOK, Row
  <2> QED BY <1>9, <1>10, <2>2 DEF Ack, TypeOK
<1>11. ASSUME NEW d \in Drains, NEW t \in Tasks, Fail(d, t) PROVE TypeOK'
  BY <1>9, <1>11 DEF Fail, TypeOK
<1>12. ASSUME NEW w \in Workers, Crash(w) PROVE TypeOK'
  BY <1>12 DEF Crash, TypeOK
<1>13. CASE Tick
  <2>1. \A x \in Floor..TTL : Older(x) \in Floor..TTL
    BY DEF Older, Floor
  <2>2. task' \in [Tasks -> Row]
    BY <1>13, <2>1 DEF Tick, TypeOK, Row
  <2>3. drain' \in [Drains -> Call]
    <3> SUFFICES ASSUME NEW d \in Drains PROVE drain'[d] \in Call
      BY <1>13 DEF Tick
    <3> DEFINE a == IF drain[d].pc \in {"select", "occupancy", "commit"}
                    THEN drain[d].age + 1 ELSE drain[d].age
               l == Older(drain[d].left)
    <3>0. drain[d].pc \in {"select", "occupancy", "commit"} => drain[d].age < MaxAge
      BY <1>13 DEF Tick
    <3>1. a \in 0..MaxAge /\ l \in Floor..TTL
      BY <3>0, <1>c, <2>1
    <3>2. drain'[d] = [drain[d] EXCEPT !.left = l, !.age = a]
      BY <1>13 DEF Tick
    <3> HIDE DEF a, l
    <3>3. drain[d] \in Call
      BY <1>b
    <3>4. [drain[d] EXCEPT !.left = l, !.age = a] \in Call
      BY <3>1, <3>3, CallUpdate
    <3> QED BY <3>2, <3>4
  <2> QED BY <1>13, <2>2, <2>3 DEF Tick, TypeOK
<1>14. CASE UNCHANGED vars
  BY <1>14 DEF vars, TypeOK
<1> QED BY <1>1, <1>2, <1>3, <1>4, <1>5, <1>6, <1>7, <1>8, <1>10, <1>11, <1>12, <1>13, <1>14
        DEF Next, DrainStep, HandleStep

(***************************************************************************)
(* Steps that claim nothing                                                *)
(***************************************************************************)
\* The call e goes on with fewer rows, ends, or begins.
Passive(e) ==
  \/ drain'[e] = drain[e]
  \/ /\ drain'[e].pc \notin {"occupancy", "commit"}
     /\ drain'[e].cands = {} /\ drain'[e].locks = {}
     /\ drain'[e].held \subseteq drain[e].held
     /\ drain'[e].held # {} => /\ drain'[e].pc \in {"return", "drive"}
                               /\ drain'[e].left = drain[e].left

\* The row t is left alone, queued, or acknowledged while no transaction locks it.
Unclaimed(t) ==
  \/ task'[t] = task[t]
  \/ task[t].st = "unborn" /\ task'[t].st = "queued"
  \/ /\ task[t].st # "unborn" /\ task'[t].st = "acked"
     /\ \A e \in Drains : t \notin drain[e].cands

SafeParts ==
  /\ PhaseInv /\ RowLocksInv /\ ProjectLocksInv /\ LeaseInv
  /\ OccupancyInv /\ ExclusiveLease /\ SlotsWithinLimit

\* What is left of a lease is an integer, a rank a natural number.
LEMMA LeftType ==
  ASSUME NEW t \in Tasks
  PROVE  /\ TypeOK => task[t].left \in Int /\ task[t].at \in Nat
         /\ TypeOK' => task'[t].left \in Int /\ task'[t].at \in Nat
BY SizesAssumption DEF TypeOK, Row, Floor

\* The numbers the occupancy check compares.
LEMMA OccupiedType ==
  /\ \A p, a : Cardinality(Occupants(p, a)) \in Nat /\ Cardinality(Occupants(p, a)') \in Nat
  /\ \A p \in Projects : Limited(p) => MaxRuns[p] \in Nat \ {0}
  /\ TypeOK => \A d \in Drains : \A p \in drain[d].locks : drain[d].occ[p] \in Nat
<1>1. \A p, a : Occupants(p, a) \in SUBSET Runs /\ Occupants(p, a)' \in SUBSET Runs
  BY DEF Occupants
<1>2. \A p, a : Cardinality(Occupants(p, a)) \in Nat /\ Cardinality(Occupants(p, a)') \in Nat
  BY <1>1, RunCount
<1>3. \A p \in Projects : Limited(p) => MaxRuns[p] \in Nat \ {0}
  BY MapsAssumption DEF Limited
<1>4. TypeOK => \A d \in Drains : \A p \in drain[d].locks : drain[d].occ[p] \in Nat
  BY DEF TypeOK, Call
<1> QED BY <1>2, <1>3, <1>4

\* Fewer lease-valid claims occupy fewer slots.
LEMMA OccupantsShrink ==
  ASSUME TypeOK, TypeOK', NEW p,
         \A t \in Tasks : RunOf[t] \in Runs /\ ProjectOf[RunOf[t]] = p
                          /\ task'[t].st = "claimed" /\ task'[t].left > 0
           => task[t].st = "claimed" /\ task[t].left > 0
  PROVE  /\ Occupants(p, 0)' \subseteq Occupants(p, 0)
         /\ Cardinality(Occupants(p, 0)') <= Cardinality(Occupants(p, 0))
         /\ Cardinality(Occupants(p, 0)') \in Nat /\ Cardinality(Occupants(p, 0)) \in Nat
<1>1. Occupants(p, 0)' \subseteq Occupants(p, 0)
  <2> SUFFICES ASSUME NEW r \in Runs, ProjectOf[r] = p, NEW t \in Tasks,
                      RunOf[t] = r, task'[t].st = "claimed", task'[t].left + 0 > 0
               PROVE  \E u \in Tasks : RunOf[u] = r /\ task[u].st = "claimed" /\ task[u].left + 0 > 0
    BY DEF Occupants
  <2>1. task[t].left \in Int /\ task'[t].left \in Int
    BY LeftType
  <2> QED BY <2>1
<1>2. Occupants(p, 0) \in SUBSET Runs /\ Occupants(p, 0)' \in SUBSET Runs
  BY DEF Occupants
<1> QED BY <1>1, <1>2, RunCount

\* A step that claims nothing preserves every part of the invariant.
LEMMA PassiveStep ==
  ASSUME TypeOK, TypeOK', SafeParts,
         \A e \in Drains : Passive(e), \A t \in Tasks : Unclaimed(t)
  PROVE  SafeParts'
<1> USE DEF SafeParts
<1>1. PhaseInv'
  BY DEF PhaseInv, InTransaction, Passive
<1>2. RowLocksInv'
  <2> SUFFICES ASSUME NEW e \in Drains, NEW t \in drain'[e].cands
               PROVE  /\ DueFor(t, drain[e].age)'
                      /\ \A d \in Drains : t \in drain'[d].cands => e = d
    BY DEF RowLocksInv
  <2>1. drain'[e] = drain[e] /\ t \in Tasks
    BY DEF Passive, TypeOK, Call
  <2>2. task'[t] = task[t]
    BY <2>1 DEF Unclaimed, RowLocksInv, DueFor
  <2>3. \A d \in Drains : t \in drain'[d].cands => t \in drain[d].cands
    BY DEF Passive
  <2> QED BY <2>1, <2>2, <2>3 DEF RowLocksInv, DueFor
<1>3. ProjectLocksInv'
  <2> SUFFICES ASSUME NEW e \in Drains
               PROVE  /\ \A p \in drain'[e].locks :
                           Limited(p) /\ \A d \in Drains : p \in drain'[d].locks => e = d
                      /\ drain'[e].pc = "commit" => Missing(e)' = {}
    BY DEF ProjectLocksInv, Limited
  <2>1. \A d \in Drains : drain'[d].locks \subseteq drain[d].locks
    BY DEF Passive
  <2>2. drain'[e].pc = "commit" => drain'[e] = drain[e]
    BY DEF Passive
  <2> QED BY <2>1, <2>2 DEF ProjectLocksInv, Missing, LimitedCandidates
<1>4. ASSUME NEW e \in Drains, NEW t \in drain'[e].held
      PROVE  /\ t \in drain[e].held /\ drain'[e].left = drain[e].left
             /\ t \in Tasks
  BY <1>4 DEF Passive, TypeOK, Call
<1>5. LeaseInv'
  BY <1>4 DEF LeaseInv, Unclaimed
<1>6. ExclusiveLease'
  BY <1>4 DEF ExclusiveLease
<1>7. ASSUME NEW p PROVE Cardinality(Occupants(p, 0)') <= Cardinality(Occupants(p, 0))
  BY OccupantsShrink DEF Unclaimed
<1>8. OccupancyInv'
  <2> SUFFICES ASSUME NEW e \in Drains, NEW p \in drain'[e].locks, drain'[e].pc = "commit"
               PROVE  Cardinality(Occupants(p, 0)') <= drain'[e].occ[p]
    BY DEF OccupancyInv
  <2>1. drain'[e] = drain[e]
    BY DEF Passive
  <2>2. Cardinality(Occupants(p, 0)) <= drain[e].occ[p]
    BY <2>1 DEF OccupancyInv
  <2> QED BY <1>7, <2>1, <2>2, OccupiedType
<1>9. SlotsWithinLimit'
  <2> SUFFICES ASSUME NEW p \in Projects, Limited(p)
               PROVE  Cardinality(Occupants(p, 0)') <= MaxRuns[p]
    BY DEF SlotsWithinLimit, Limited
  <2> QED BY <1>7, OccupiedType DEF SlotsWithinLimit
<1> QED BY <1>1, <1>2, <1>3, <1>5, <1>6, <1>8, <1>9

(***************************************************************************)
(* The steps of a claim                                                    *)
(***************************************************************************)
\* Only the call that goes on changes.
LEMMA ContinueCall ==
  ASSUME TypeOK, NEW d \in Drains, NEW c, Continue(d, c)
  PROVE  drain'[d] = c /\ \A e \in Drains \ {d} : drain'[e] = drain[e]
BY DEF Continue, TypeOK

\* The candidates are locked by nobody else.
LEMMA SelectStep ==
  ASSUME TypeOK, TypeOK', SafeParts, NEW d \in Drains, DrainSelect(d)
  PROVE  SafeParts'
<1> DEFINE free == {t \in Tasks : DueFor(t, drain[d].age) /\ ~Locked(t)}
           rows == {t \in free :
                      Cardinality({u \in free : task[u].at < task[t].at}) < drain[d].limit}
           next == IF rows = {} THEN Idle
                   ELSE [drain[d] EXCEPT !.cands = rows, !.pc = "occupancy"]
<1>1. drain[d].pc = "select" /\ Continue(d, next) /\ task' = task
  BY DEF DrainSelect
<1>2. \A t \in rows : /\ t \in Tasks /\ DueFor(t, drain[d].age)
                      /\ \A e \in Drains : t \notin drain[e].cands
  BY DEF SafeParts, PhaseInv, Locked
<1> HIDE DEF rows
<1>3. drain'[d] = next /\ \A e \in Drains \ {d} : drain'[e] = drain[e]
  <2> HIDE DEF next
  <2> QED BY <1>1, ContinueCall
<1>4. drain[d].cands = {} /\ drain[d].locks = {} /\ drain[d].held = {}
  BY <1>1 DEF SafeParts, PhaseInv, InTransaction
<1>5. CASE rows = {}
  <2>1. \A e \in Drains : Passive(e)
    BY <1>3, <1>5 DEF Passive, Idle
  <2>2. \A t \in Tasks : Unclaimed(t)
    BY <1>1 DEF Unclaimed
  <2> QED BY <2>1, <2>2, PassiveStep
<1>6. CASE rows # {}
  <2>1. /\ drain'[d].cands = rows /\ drain'[d].pc = "occupancy" /\ drain'[d].locks = {}
        /\ drain'[d].held = {} /\ drain'[d].age = drain[d].age
    BY <1>3, <1>4, <1>6 DEF TypeOK, Call
  <2>2. PhaseInv'
    BY <1>3, <2>1 DEF SafeParts, PhaseInv, InTransaction
  <2>3. RowLocksInv'
    <3> SUFFICES ASSUME NEW e \in Drains, NEW t \in drain'[e].cands
                 PROVE  /\ DueFor(t, drain[e].age)'
                        /\ \A a \in Drains : t \in drain'[a].cands => e = a
      BY DEF RowLocksInv
    <3>1. CASE e = d
      BY <1>1, <1>2, <1>3, <2>1, <3>1 DEF DueFor
    <3>2. CASE e # d
      <4>1. t \in drain[e].cands /\ drain'[e] = drain[e] /\ t \notin drain'[d].cands
        BY <1>2, <1>3, <2>1, <3>2
      <4> QED BY <1>1, <1>3, <4>1 DEF SafeParts, RowLocksInv, DueFor
    <3> QED BY <3>1, <3>2
  <2>4. ProjectLocksInv'
    BY <1>3, <2>1 DEF SafeParts, ProjectLocksInv, Missing, LimitedCandidates, Limited
  <2>5. LeaseInv'
    <3> SUFFICES ASSUME NEW e \in Drains \ {d}, NEW t \in drain'[e].held
                 PROVE  /\ task'[t].st # "unborn"
                        /\ drain'[e].left >= 0 =>
                             \/ task'[t].st = "acked"
                             \/ task'[t].st = "claimed" /\ task'[t].left = drain'[e].left
      BY <2>1 DEF LeaseInv
    <3> QED BY <1>1, <1>3 DEF SafeParts, LeaseInv
  <2>6. OccupancyInv'
    BY <1>1, <1>3, <2>1 DEF SafeParts, OccupancyInv, Occupants
  <2>7. ExclusiveLease'
    BY <1>3, <2>1 DEF SafeParts, ExclusiveLease
  <2>8. SlotsWithinLimit'
    BY <1>1 DEF SafeParts, SlotsWithinLimit, Occupants, Limited
  <2> QED BY <2>2, <2>3, <2>4, <2>5, <2>6, <2>7, <2>8 DEF SafeParts
<1> QED BY <1>5, <1>6

\* A lock is taken when no transaction has it.
LEMMA LockStep ==
  ASSUME TypeOK, TypeOK', SafeParts, NEW d \in Drains, DrainLock(d)
  PROVE  SafeParts'
<1>1. PICK p \in Projects :
        /\ drain[d].pc = "occupancy" /\ task' = task
        /\ NextLock(d, p) /\ LockFree(d, p)
        /\ Continue(d, [drain[d] EXCEPT !.locks = drain[d].locks \cup {p}])
  BY DEF DrainLock
<1>2. \A e \in Drains \ {d} : drain'[e] = drain[e]
  BY <1>1, ContinueCall
<1>3. /\ drain'[d].locks = drain[d].locks \cup {p} /\ drain'[d].cands = drain[d].cands
      /\ drain'[d].pc = "occupancy" /\ drain'[d].held = drain[d].held
      /\ drain'[d].age = drain[d].age /\ drain'[d].left = drain[d].left
  <2>1. drain'[d] = [drain[d] EXCEPT !.locks = drain[d].locks \cup {p}]
    BY <1>1, ContinueCall
  <2> QED BY <1>1, <2>1 DEF TypeOK, Call
<1>4. Limited(p) /\ \A e \in Drains \ {d} : p \notin drain[e].locks
  BY <1>1 DEF NextLock, Missing, LimitedCandidates, LockFree, SafeParts, PhaseInv
<1>5. PhaseInv'
  BY <1>1, <1>2, <1>3 DEF SafeParts, PhaseInv, InTransaction
<1>6. RowLocksInv'
  BY <1>1, <1>2, <1>3 DEF SafeParts, RowLocksInv, DueFor
<1>7. ProjectLocksInv'
  BY <1>2, <1>3, <1>4 DEF SafeParts, ProjectLocksInv, Missing, LimitedCandidates, Limited
<1>8. LeaseInv'
  BY <1>1, <1>2, <1>3 DEF SafeParts, LeaseInv
<1>9. OccupancyInv'
  BY <1>1, <1>2, <1>3 DEF SafeParts, OccupancyInv, Occupants
<1>10. ExclusiveLease'
  BY <1>2, <1>3 DEF SafeParts, ExclusiveLease
<1>11. SlotsWithinLimit'
  BY <1>1 DEF SafeParts, SlotsWithinLimit, Occupants, Limited
<1> QED BY <1>5, <1>6, <1>7, <1>8, <1>9, <1>10, <1>11 DEF SafeParts

\* The count misses no run whose lease is valid now, however long ago the clock was read.
LEMMA OccupancyStep ==
  ASSUME TypeOK, TypeOK', SafeParts, NEW d \in Drains, DrainOccupancy(d)
  PROVE  SafeParts'
<1> DEFINE occ == [p \in Projects |-> IF p \in drain[d].locks
                     THEN Cardinality(Occupants(p, drain[d].age)) ELSE 0]
<1>1. /\ drain[d].pc = "occupancy" /\ Missing(d) = {} /\ task' = task
      /\ Continue(d, [drain[d] EXCEPT !.pc = "commit", !.occ = occ])
  BY DEF DrainOccupancy
<1>2. \A e \in Drains \ {d} : drain'[e] = drain[e]
  BY <1>1, ContinueCall
<1>3. /\ drain'[d].locks = drain[d].locks /\ drain'[d].cands = drain[d].cands
      /\ drain'[d].pc = "commit" /\ drain'[d].held = drain[d].held
      /\ drain'[d].age = drain[d].age /\ drain'[d].left = drain[d].left
      /\ drain'[d].occ = occ
  <2>1. drain'[d] = [drain[d] EXCEPT !.pc = "commit", !.occ = occ]
    BY <1>1, ContinueCall
  <2> HIDE DEF occ
  <2> QED BY <2>1 DEF TypeOK, Call
<1>4. ASSUME NEW p \in drain[d].locks PROVE Cardinality(Occupants(p, 0)) <= occ[p]
  <2>1. p \in Projects /\ drain[d].age \in Nat
    BY SizesAssumption DEF TypeOK, Call
  <2>2. Occupants(p, 0) \subseteq Occupants(p, drain[d].age)
    BY <2>1, LeftType DEF Occupants
  <2>3. Occupants(p, drain[d].age) \in SUBSET Runs
    BY DEF Occupants
  <2> QED BY <2>1, <2>2, <2>3, RunCount
<1> HIDE DEF occ
<1>5. PhaseInv'
  BY <1>1, <1>2, <1>3 DEF SafeParts, PhaseInv, InTransaction
<1>6. RowLocksInv'
  BY <1>1, <1>2, <1>3 DEF SafeParts, RowLocksInv, DueFor
<1>7. ProjectLocksInv'
  BY <1>1, <1>2, <1>3 DEF SafeParts, ProjectLocksInv, Missing, LimitedCandidates, Limited
<1>8. LeaseInv'
  BY <1>1, <1>2, <1>3 DEF SafeParts, LeaseInv
<1>9. OccupancyInv'
  BY <1>1, <1>2, <1>3, <1>4 DEF SafeParts, OccupancyInv, Occupants
<1>10. ExclusiveLease'
  BY <1>2, <1>3 DEF SafeParts, ExclusiveLease
<1>11. SlotsWithinLimit'
  BY <1>1 DEF SafeParts, SlotsWithinLimit, Occupants, Limited
<1> QED BY <1>5, <1>6, <1>7, <1>8, <1>9, <1>10, <1>11 DEF SafeParts

\* The rows a commit claims are its own, due, and of projects it holds the locks of.
LEMMA CommitStep ==
  ASSUME TypeOK, TypeOK', RankInv, SafeParts, NEW d \in Drains, DrainCommit(d)
  PROVE  SafeParts'
<1> DEFINE C == drain[d].cands
           occ == drain[d].occ
           B == Chosen(C, occ)
           lease == TTL - drain[d].age
           next == IF B = {} THEN Idle
                   ELSE [Idle EXCEPT !.pc = "return", !.left = lease, !.held = B]
<1>1. /\ drain[d].pc = "commit" /\ Continue(d, next)
      /\ task' = [t \in Tasks |-> IF t \in B
                                  THEN [task[t] EXCEPT !.st = "claimed", !.left = lease]
                                  ELSE task[t]]
  BY DEF DrainCommit
<1>2. drain'[d] = next /\ \A e \in Drains \ {d} : drain'[e] = drain[e]
  <2> HIDE DEF next
  <2> QED BY <1>1, ContinueCall
<1>3. drain[d].age \in 0..MaxAge /\ lease \in Int /\ lease > 0 /\ C \in SUBSET Tasks
  BY SizesAssumption DEF TypeOK, Call
<1>4. /\ drain'[d].pc \notin {"occupancy", "commit"} /\ drain'[d].cands = {}
      /\ drain'[d].locks = {} /\ drain'[d].held = B
      /\ B # {} => drain'[d].pc = "return" /\ drain'[d].left = lease
  <2> HIDE DEF B, lease
  <2> QED BY <1>2 DEF Idle
<1>5. B \in SUBSET C
  BY DEF Chosen
<1>6. \A t \in Tasks :
        /\ t \in B => task'[t].st = "claimed" /\ task'[t].left = lease
        /\ t \notin B => task'[t] = task[t]
  BY <1>1 DEF TypeOK, Row
<1> HIDE DEF next, B, lease
<1>7. ASSUME NEW t \in B
      PROVE  /\ t \in Tasks /\ DueFor(t, drain[d].age)
             /\ \A e \in Drains \ {d} : t \notin drain[e].cands
  BY <1>3, <1>5, <1>7 DEF SafeParts, RowLocksInv
<1>a. ASSUME NEW t \in B PROVE task'[t].st = "claimed" /\ task'[t].left = lease
  BY <1>6, <1>7, <1>a
\* A batch with a valid lease keeps its rows.
<1>8. ASSUME NEW e \in Drains \ {d}, NEW t \in drain[e].held, drain[e].left >= 0
      PROVE  t \notin B
  <2>1. t \in Tasks /\ task[t].left \in Int
    BY LeftType DEF TypeOK, Call
  <2>2. \/ task[t].st = "acked"
        \/ task[t].st = "claimed" /\ task[t].left >= 0
    BY <1>8 DEF SafeParts, LeaseInv
  <2> QED BY <1>3, <1>7, <2>1, <2>2 DEF DueFor
<1>9. PhaseInv'
  BY <1>2, <1>4 DEF SafeParts, PhaseInv, InTransaction
<1>10. RowLocksInv'
  <2> SUFFICES ASSUME NEW e \in Drains \ {d}, NEW t \in drain[e].cands
               PROVE  /\ DueFor(t, drain[e].age)'
                      /\ \A a \in Drains : t \in drain'[a].cands => e = a
    BY <1>2, <1>4 DEF RowLocksInv
  <2>1. t \in Tasks /\ task'[t] = task[t]
    BY <1>6, <1>7 DEF TypeOK, Call
  <2> QED BY <1>2, <1>4, <2>1 DEF SafeParts, RowLocksInv, DueFor
<1>11. ProjectLocksInv'
  BY <1>2, <1>4 DEF SafeParts, ProjectLocksInv, Missing, LimitedCandidates, Limited
<1>12. LeaseInv'
  <2> SUFFICES ASSUME NEW e \in Drains, NEW t \in drain'[e].held
               PROVE  /\ task'[t].st # "unborn"
                      /\ drain'[e].left >= 0 =>
                           \/ task'[t].st = "acked"
                           \/ task'[t].st = "claimed" /\ task'[t].left = drain'[e].left
    BY DEF LeaseInv
  <2>1. CASE t \in B /\ e = d
    <3>1. t \in Tasks /\ B # {}
      BY <1>7, <2>1
    <3>2. task'[t].st = "claimed" /\ task'[t].left = lease /\ drain'[e].left = lease
      BY <1>4, <1>a, <2>1, <3>1
    <3> QED BY <3>2
  <2>2. CASE e # d
    <3>1. t \in Tasks /\ drain'[e] = drain[e] /\ t \in drain[e].held
      BY <1>2, <2>2 DEF TypeOK, Call
    <3>2. /\ task[t].st # "unborn"
          /\ drain[e].left >= 0 =>
               \/ task[t].st = "acked"
               \/ task[t].st = "claimed" /\ task[t].left = drain[e].left
      BY <3>1 DEF SafeParts, LeaseInv
    <3>3. CASE t \in B
      BY <1>a, <1>8, <2>2, <3>1, <3>3
    <3>4. CASE t \notin B
      BY <1>6, <3>1, <3>2, <3>4
    <3> QED BY <3>3, <3>4
  <2> QED BY <1>4, <2>1, <2>2
<1>13. ExclusiveLease'
  <2> SUFFICES ASSUME NEW t \in Tasks, NEW a \in Drains, NEW e \in Drains, a # e,
                      t \in drain'[a].held, drain'[a].left >= 0,
                      t \in drain'[e].held, drain'[e].left >= 0
               PROVE  FALSE
    BY DEF ExclusiveLease
  <2>1. CASE a # d /\ e # d
    BY <1>2, <2>1 DEF SafeParts, ExclusiveLease
  <2>2. CASE a = d
    BY <1>2, <1>4, <1>8, <2>2
  <2>3. CASE e = d
    BY <1>2, <1>4, <1>8, <2>3
  <2> QED BY <2>1, <2>2, <2>3
\* Without the lock of a limited project no slot of it is taken.
<1>14. ASSUME NEW p \in Projects, Limited(p), p \notin drain[d].locks
       PROVE  Cardinality(Occupants(p, 0)') <= Cardinality(Occupants(p, 0))
  <2>1. ASSUME NEW t \in B PROVE ProjectOf[RunOf[t]] # p
    <3>1. Missing(d) = {}
      BY <1>1 DEF SafeParts, ProjectLocksInv
    <3>2. ProjectOf[RunOf[t]] = p => p \in LimitedCandidates(d)
      BY <1>5, <1>14, <2>1 DEF LimitedCandidates, ProjectsOf
    <3> QED BY <1>14, <3>1, <3>2 DEF Missing
  <2> QED BY <1>6, <2>1, OccupantsShrink
<1>15. OccupancyInv'
  <2> SUFFICES ASSUME NEW e \in Drains \ {d}, NEW p \in drain[e].locks, drain[e].pc = "commit"
               PROVE  Cardinality(Occupants(p, 0)') <= drain[e].occ[p]
    BY <1>2, <1>4 DEF OccupancyInv
  <2>1. p \in Projects /\ Limited(p) /\ p \notin drain[d].locks
    BY DEF SafeParts, ProjectLocksInv, TypeOK, Call
  <2>2. Cardinality(Occupants(p, 0)) <= drain[e].occ[p]
    BY DEF SafeParts, OccupancyInv
  <2> QED BY <1>14, <2>1, <2>2, OccupiedType
<1>16. SlotsWithinLimit'
  <2> SUFFICES ASSUME NEW p \in Projects, Limited(p)
               PROVE  Cardinality(Occupants(p, 0)') <= MaxRuns[p]
    BY DEF SlotsWithinLimit, Limited
  <2>1. Cardinality(Occupants(p, 0)) <= MaxRuns[p]
    BY DEF SafeParts, SlotsWithinLimit
  <2>2. CASE p \notin drain[d].locks
    BY <1>14, <2>1, <2>2, OccupiedType
  <2>3. CASE p \in drain[d].locks
    <3> DEFINE k == MaxRuns[p] - occ[p]
               G == {r \in Among(C, p) : Cardinality(Ahead(C, p, r)) < k}
    <3>1. /\ occ[p] \in Nat /\ MaxRuns[p] \in Nat
          /\ Cardinality(Occupants(p, 0)) <= occ[p]
      BY <1>1, <2>3, OccupiedType DEF SafeParts, OccupancyInv
    <3>2. Occupants(p, 0)' \subseteq Occupants(p, 0) \cup G
      <4> SUFFICES ASSUME NEW t \in Tasks, RunOf[t] \in Runs, ProjectOf[RunOf[t]] = p,
                          task'[t].st = "claimed", task'[t].left + 0 > 0
                   PROVE  RunOf[t] \in Occupants(p, 0) \cup G
        BY DEF Occupants
      <4>1. CASE t \notin B
        BY <1>6, <4>1 DEF Occupants
      <4>2. CASE t \in B
        <5>1. t \in C /\ Granted(C, occ, RunOf[t])
          BY <4>2 DEF B, Chosen
        <5>2. Cardinality(Ahead(C, p, RunOf[t])) \in Nat
          BY RunCount, Ahead(C, p, RunOf[t]) \in SUBSET Runs DEF Ahead
        <5>3. Cardinality(Ahead(C, p, RunOf[t])) < k
          BY <3>1, <5>1, <5>2 DEF Granted, Ahead
        <5> QED BY <5>1, <5>3 DEF Among
      <4> QED BY <4>1, <4>2
    <3>3. Ranked(C)
      BY <1>3, LeftType DEF Ranked, RankInv, SafeParts, RowLocksInv, DueFor
    <3>4. G \in SUBSET Runs /\ Occupants(p, 0) \in SUBSET Runs
      BY DEF Among, Occupants
    <3>5. CASE G = {}
      <4>1. Cardinality(Occupants(p, 0)') <= Cardinality(Occupants(p, 0))
        BY <3>2, <3>4, <3>5, RunCount
      <4> QED BY <2>1, <3>1, <4>1, OccupiedType
    <3>6. CASE G # {}
      <4>1. k \in Nat
        <5>1. PICK r \in G : Cardinality(Ahead(C, p, r)) \in Nat
          BY <3>6, RunCount, \A r : Ahead(C, p, r) \in SUBSET Runs DEF Ahead
        <5> QED BY <3>1, <5>1
      <4>2. Cardinality(G) <= k
        <5> HIDE DEF k
        <5> QED BY <4>1, <3>3, RankBound
      <4>3. Cardinality(G) \in Nat
        BY <3>4, RunCount
      <4> HIDE DEF G
      <4>4. Cardinality(Occupants(p, 0) \cup G) <= Cardinality(Occupants(p, 0)) + Cardinality(G)
        BY <3>4, CountUnion
      <4>5. Occupants(p, 0) \cup G \in SUBSET Runs
        BY <3>4
      <4>6. /\ Cardinality(Occupants(p, 0)') <= Cardinality(Occupants(p, 0) \cup G)
            /\ Cardinality(Occupants(p, 0) \cup G) \in Nat
        BY <3>2, <4>5, RunCount
      <4> QED BY <3>1, <4>2, <4>3, <4>4, <4>6, OccupiedType
    <3> QED BY <3>5, <3>6
  <2> QED BY <2>2, <2>3
<1> QED BY <1>9, <1>10, <1>11, <1>12, <1>13, <1>15, <1>16 DEF SafeParts

\* Leases and snapshots age at the same pace, so what is due stays due and what holds a
\* valid lease agrees with its row.
LEMMA TickStep ==
  ASSUME TypeOK, TypeOK', SafeParts, Tick
  PROVE  SafeParts'
<1>1. ASSUME NEW t \in Tasks
      PROVE  /\ task'[t].st = task[t].st /\ task'[t].left = Older(task[t].left)
             /\ task[t].left \in Floor..TTL
  BY DEF Tick, TypeOK, Row
<1>2. ASSUME NEW e \in Drains
      PROVE  /\ drain'[e].pc = drain[e].pc /\ drain'[e].cands = drain[e].cands
             /\ drain'[e].locks = drain[e].locks /\ drain'[e].held = drain[e].held
             /\ drain'[e].occ = drain[e].occ /\ drain'[e].left = Older(drain[e].left)
             /\ drain[e].left \in Floor..TTL
             /\ drain[e].pc \in {"select", "occupancy", "commit"}
                  => drain'[e].age = drain[e].age + 1
  <2> DEFINE a == IF drain[e].pc \in {"select", "occupancy", "commit"}
                  THEN drain[e].age + 1 ELSE drain[e].age
             l == Older(drain[e].left)
  <2>1. drain'[e] = [drain[e] EXCEPT !.left = l, !.age = a]
    BY DEF Tick
  <2>2. drain[e].pc \in {"select", "occupancy", "commit"} => a = drain[e].age + 1
    OBVIOUS
  <2>3. drain[e] \in Call
    BY DEF TypeOK
  <2> HIDE DEF a
  <2>4. /\ drain'[e].pc = drain[e].pc /\ drain'[e].cands = drain[e].cands
        /\ drain'[e].locks = drain[e].locks /\ drain'[e].held = drain[e].held
        /\ drain'[e].occ = drain[e].occ /\ drain'[e].left = l /\ drain'[e].age = a
    <3> HIDE DEF l
    <3> QED BY <2>1, <2>3 DEF Call
  <2> QED BY <2>2, <2>3, <2>4 DEF Call
<1>3. ASSUME NEW e \in Drains, InTransaction(e)
      PROVE  drain[e].age < MaxAge /\ drain[e].age \in Nat /\ drain'[e].age = drain[e].age + 1
  <2>1. drain[e].pc \in {"select", "occupancy", "commit"}
    BY <1>3 DEF InTransaction
  <2>2. drain[e].age < MaxAge
    BY <2>1 DEF Tick
  <2>3. drain[e].age \in Nat
    BY SizesAssumption DEF TypeOK, Call
  <2>4. drain'[e].age = drain[e].age + 1
    BY <1>2, <2>1
  <2> QED BY <2>2, <2>3, <2>4
<1>4. ASSUME NEW x \in Floor..TTL, Older(x) >= 0 PROVE x > 0 /\ Older(x) = x - 1
  BY <1>4, SizesAssumption DEF Older, Floor
<1>5. ASSUME NEW x \in Floor..TTL, NEW a \in Nat, a < MaxAge, x + a < 0
      PROVE  Older(x) + (a + 1) < 0
  BY <1>5, SizesAssumption DEF Older, Floor
<1>6. ASSUME NEW p PROVE Cardinality(Occupants(p, 0)') <= Cardinality(Occupants(p, 0))
  <2>1. ASSUME NEW t \in Tasks, task'[t].st = "claimed", task'[t].left > 0
        PROVE  task[t].st = "claimed" /\ task[t].left > 0
    BY <1>1, <1>4, <2>1, LeftType
  <2> QED BY <2>1, OccupantsShrink
<1>7. PhaseInv'
  BY <1>2 DEF SafeParts, PhaseInv, InTransaction
<1>8. RowLocksInv'
  <2> SUFFICES ASSUME NEW e \in Drains, NEW t \in drain[e].cands
               PROVE  /\ DueFor(t, drain[e].age)'
                      /\ \A d \in Drains : t \in drain[d].cands => e = d
    BY <1>2 DEF RowLocksInv
  <2>1. t \in Tasks /\ InTransaction(e) /\ DueFor(t, drain[e].age)
    BY DEF SafeParts, PhaseInv, RowLocksInv, TypeOK, Call
  <2>2. DueFor(t, drain[e].age)'
    <3>1. CASE task[t].st = "queued"
      BY <1>1, <2>1, <3>1 DEF DueFor
    <3>2. CASE task[t].st = "claimed" /\ task[t].left + drain[e].age < 0
      <4>1. Older(task[t].left) + (drain[e].age + 1) < 0
        BY <1>1, <1>3, <1>5, <2>1, <3>2
      <4> QED BY <1>1, <1>3, <2>1, <3>2, <4>1 DEF DueFor
    <3> QED BY <2>1, <3>1, <3>2 DEF DueFor
  <2> QED BY <2>2 DEF SafeParts, RowLocksInv
<1>9. ProjectLocksInv'
  BY <1>2 DEF SafeParts, ProjectLocksInv, Missing, LimitedCandidates, Limited
<1>10. LeaseInv'
  <2> SUFFICES ASSUME NEW e \in Drains, NEW t \in drain[e].held
               PROVE  /\ task'[t].st # "unborn"
                      /\ drain'[e].left >= 0 =>
                           \/ task'[t].st = "acked"
                           \/ task'[t].st = "claimed" /\ task'[t].left = drain'[e].left
    BY <1>2 DEF LeaseInv
  <2>1. t \in Tasks
    BY DEF TypeOK, Call
  <2>2. drain'[e].left >= 0 => drain[e].left >= 0
    BY <1>2, <1>4
  <2> QED BY <1>1, <1>2, <2>1, <2>2 DEF SafeParts, LeaseInv
<1>11. OccupancyInv'
  <2> SUFFICES ASSUME NEW e \in Drains, NEW p \in drain[e].locks, drain[e].pc = "commit"
               PROVE  Cardinality(Occupants(p, 0)') <= drain[e].occ[p]
    BY <1>2 DEF OccupancyInv
  <2>1. Cardinality(Occupants(p, 0)) <= drain[e].occ[p]
    BY DEF SafeParts, OccupancyInv
  <2> QED BY <1>6, <2>1, OccupiedType
<1>12. ExclusiveLease'
  <2>1. \A e \in Drains : drain'[e].left >= 0 => drain[e].left >= 0
    BY <1>2, <1>4
  <2> QED BY <1>2, <2>1 DEF SafeParts, ExclusiveLease
<1>13. SlotsWithinLimit'
  <2> SUFFICES ASSUME NEW p \in Projects, Limited(p)
               PROVE  Cardinality(Occupants(p, 0)') <= MaxRuns[p]
    BY DEF SlotsWithinLimit, Limited
  <2> QED BY <1>6, OccupiedType DEF SafeParts, SlotsWithinLimit
<1> QED BY <1>7, <1>8, <1>9, <1>10, <1>11, <1>12, <1>13 DEF SafeParts

(***************************************************************************)
(* Ranks                                                                   *)
(***************************************************************************)
Born == {t \in Tasks : task[t].st # "unborn"}

\* A step that queues no row leaves every rank alone.
LEMMA RankKept ==
  ASSUME RankInv,
         \A t \in Tasks : /\ task'[t].at = task[t].at
                          /\ task'[t].st = "unborn" <=> task[t].st = "unborn"
  PROVE  RankInv'
<1>1. Born' = Born
  BY DEF Born
<1> QED BY <1>1 DEF RankInv, Born

\* A new row is ranked after the others.
LEMMA RankEnqueue ==
  ASSUME TypeOK, TypeOK', RankInv, NEW t \in Tasks, Enqueue(t)
  PROVE  RankInv'
<1>1. /\ task[t].st = "unborn" /\ task'[t].st = "queued" /\ task'[t].at = Cardinality(Born)
      /\ \A u \in Tasks \ {t} : task'[u] = task[u]
  BY DEF Enqueue, Born, TypeOK, Row
<1>2. Born' = Born \cup {t} /\ t \notin Born /\ Born \in SUBSET Tasks
  BY <1>1 DEF Born
<1>3. Cardinality(Born) \in Nat /\ Cardinality(Born') = Cardinality(Born) + 1
  BY <1>2, TaskCount
<1>4. \A u \in Born : task[u].at < Cardinality(Born) /\ task[u].at \in Nat /\ task'[u] = task[u]
  BY <1>1, <1>2, LeftType DEF RankInv, Born
<1>5. \A u \in Born' : task'[u].at < Cardinality(Born')
  BY <1>1, <1>2, <1>3, <1>4
<1>6. ASSUME NEW u \in Born', NEW v \in Born', task'[u].at = task'[v].at PROVE u = v
  <2>1. CASE u \in Born /\ v \in Born
    BY <1>4, <1>6, <2>1 DEF RankInv, Born
  <2>2. CASE u = t \/ v = t
    BY <1>1, <1>2, <1>3, <1>4, <1>6, <2>2
  <2> QED BY <1>2, <2>1, <2>2
<1> QED BY <1>5, <1>6 DEF RankInv, Born

(***************************************************************************)
(* The inductive invariant                                                 *)
(***************************************************************************)
\* The empty queue satisfies the invariant.
LEMMA InitIndInv == Init => IndInv
<1> SUFFICES ASSUME Init PROVE IndInv
  OBVIOUS
<1>1. TypeOK
  BY InitTyped
<1>2. \A d \in Drains : drain[d] = Idle
  BY DEF Init
<1>3. RankInv
  BY DEF Init, RankInv
<1>4. PhaseInv /\ RowLocksInv /\ ProjectLocksInv /\ LeaseInv /\ OccupancyInv /\ ExclusiveLease
      /\ LockOrderInv
  BY <1>2 DEF Idle, PhaseInv, RowLocksInv, ProjectLocksInv, LeaseInv, OccupancyInv, ExclusiveLease,
              LockOrderInv
<1>5. SlotsWithinLimit
  <2> SUFFICES ASSUME NEW p \in Projects, Limited(p)
               PROVE  Cardinality(Occupants(p, 0)) <= MaxRuns[p]
    BY DEF SlotsWithinLimit
  <2>1. Occupants(p, 0) = {}
    BY DEF Init, Occupants
  <2> QED BY <2>1, FS_EmptySet, OccupiedType
<1> QED BY <1>1, <1>3, <1>4, <1>5 DEF IndInv, ClaimInv

\* Every step preserves the ranks; only Enqueue gives a new one.
LEMMA RankStep == TypeOK /\ TypeOK' /\ RankInv /\ SafeParts /\ [Next]_vars => RankInv'
<1> SUFFICES ASSUME TypeOK, TypeOK', RankInv, SafeParts, [Next]_vars PROVE RankInv'
  OBVIOUS
<1>1. ASSUME NEW t \in Tasks, Enqueue(t) PROVE RankInv'
  BY <1>1, RankEnqueue
<1>2. ASSUME task' = task PROVE RankInv'
  BY <1>2, RankKept
<1>3. ASSUME NEW d \in Drains, DrainStep(d) PROVE RankInv'
  <2>1. CASE DrainCommit(d)
    <3> DEFINE B == Chosen(drain[d].cands, drain[d].occ)
    <3>1. \A t \in B : t \in Tasks /\ task[t].st # "unborn"
      BY DEF Chosen, SafeParts, RowLocksInv, DueFor, TypeOK, Call
    <3>2. \A t \in Tasks : \/ task'[t] = task[t]
                           \/ /\ t \in B /\ task'[t].st = "claimed"
                              /\ task'[t].at = task[t].at
      BY <2>1 DEF DrainCommit, TypeOK, Row
    <3> HIDE DEF B
    <3> QED BY <3>1, <3>2, RankKept
  <2>2. CASE ~DrainCommit(d)
    BY <1>2, <1>3, <2>2
       DEF DrainStep, DrainBegin, DrainSelect, DrainLock, DrainOccupancy, DrainReturn
  <2> QED BY <2>1, <2>2
<1>4. ASSUME NEW d \in Drains, NEW t \in Tasks, Ack(d, t) PROVE RankInv'
  <2>1. task[t].st # "unborn"
    BY <1>4 DEF Ack, Held, SafeParts, LeaseInv
  <2>2. /\ task'[t].st = "acked" /\ task'[t].at = task[t].at
        /\ \A u \in Tasks \ {t} : task'[u] = task[u]
    BY <1>4 DEF Ack, TypeOK, Row
  <2> QED BY <2>1, <2>2, RankKept
<1>5. CASE Tick
  <2>1. \A t \in Tasks : task'[t].at = task[t].at /\ task'[t].st = task[t].st
    BY <1>5 DEF Tick, TypeOK, Row
  <2> QED BY <2>1, RankKept
<1> QED
  BY <1>1, <1>2, <1>3, <1>4, <1>5 DEF Next, HandleStep, Drive, Fail, Crash, vars

\* The steps outside the claim are passive.
LEMMA OtherSteps ==
  ASSUME TypeOK, TypeOK', SafeParts,
         \/ \E t \in Tasks : Enqueue(t)
         \/ \E d \in Drains : DrainBegin(d) \/ DrainReturn(d) \/ HandleStep(d)
         \/ \E d \in Drains, t \in Tasks : Fail(d, t)
         \/ \E w \in Workers : Crash(w)
         \/ UNCHANGED vars
  PROVE  SafeParts'
<1>1. ASSUME task' = task, \A e \in Drains : Passive(e) PROVE SafeParts'
  BY <1>1, PassiveStep DEF Unclaimed
<1>2. ASSUME NEW d \in Drains, NEW c, Continue(d, c),
             \/ c.pc \notin {"occupancy", "commit", "return", "drive"} /\ c.held = {}
             \/ /\ c.pc \in {"return", "drive"} /\ c.left = drain[d].left
                /\ c.held \subseteq drain[d].held,
             c.cands = {}, c.locks = {}
      PROVE  \A e \in Drains : Passive(e)
  BY <1>2, ContinueCall DEF Passive
<1>3. ASSUME NEW d \in Drains, drain[d].pc \in {"return", "drive"}
      PROVE  drain[d].cands = {} /\ drain[d].locks = {} /\ drain[d] \in Call
  BY <1>3 DEF SafeParts, PhaseInv, InTransaction, TypeOK
<1>4. ASSUME NEW t \in Tasks, Enqueue(t) PROVE SafeParts'
  <2>1. \A u \in Tasks : Unclaimed(u)
    BY <1>4 DEF Enqueue, Unclaimed, TypeOK, Row
  <2>2. \A e \in Drains : Passive(e)
    BY <1>4 DEF Enqueue, Passive
  <2> QED BY <2>1, <2>2, PassiveStep
<1>5. ASSUME NEW d \in Drains, DrainBegin(d) PROVE SafeParts'
  <2> DEFINE c == [Idle EXCEPT !.pc = "select",
                               !.limit = EffectiveClaimLimit(inFlight[WorkerOf[d]])]
  <2>1. Continue(d, c) /\ task' = task
    BY <1>5 DEF DrainBegin
  <2>2. c.pc = "select" /\ c.held = {} /\ c.cands = {} /\ c.locks = {}
    BY DEF Idle
  <2> HIDE DEF c
  <2> QED BY <1>1, <1>2, <2>1, <2>2
<1>6. ASSUME NEW d \in Drains, DrainReturn(d) PROVE SafeParts'
  <2> DEFINE B == {t \in drain[d].held : Present(t)}
             c == IF B = {} THEN Idle ELSE [drain[d] EXCEPT !.pc = "drive", !.held = B]
  <2>1. drain[d].pc = "return" /\ Continue(d, c) /\ task' = task
    BY <1>6 DEF DrainReturn
  <2>2. B \subseteq drain[d].held
    OBVIOUS
  <2>3. /\ c.cands = {} /\ c.locks = {}
        /\ \/ c.pc = "idle" /\ c.held = {}
           \/ c.pc = "drive" /\ c.left = drain[d].left /\ c.held \subseteq drain[d].held
    <3> HIDE DEF B
    <3> QED BY <1>3, <2>1, <2>2 DEF Idle, Call
  <2> HIDE DEF c
  <2> QED BY <1>1, <1>2, <2>1, <2>3
<1>7. ASSUME NEW d \in Drains, NEW t \in Tasks, Drive(d, t) PROVE SafeParts'
  <2> DEFINE c == [drain[d] EXCEPT !.driven = drain[d].driven \cup {t}]
  <2>1. drain[d].pc = "drive" /\ Continue(d, c) /\ task' = task
    BY <1>7 DEF Drive, Held
  <2>2. /\ c.cands = {} /\ c.locks = {} /\ c.pc = "drive"
        /\ c.left = drain[d].left /\ c.held = drain[d].held
    BY <1>3, <2>1 DEF Call
  <2> HIDE DEF c
  <2> QED BY <1>1, <1>2, <2>1, <2>2
<1>8. ASSUME NEW d \in Drains, NEW t \in Tasks, Held(d, t), Release(d, t)
      PROVE  \A e \in Drains : Passive(e)
  <2> DEFINE c == IF drain[d].held = {t} THEN Idle
                  ELSE [drain[d] EXCEPT !.held = drain[d].held \ {t},
                                        !.driven = drain[d].driven \ {t}]
  <2>1. drain[d].pc = "drive" /\ Continue(d, c)
    BY <1>8 DEF Release, Held
  <2>2. /\ c.cands = {} /\ c.locks = {}
        /\ \/ c.pc = "idle" /\ c.held = {}
           \/ c.pc = "drive" /\ c.left = drain[d].left /\ c.held \subseteq drain[d].held
    BY <1>3, <2>1 DEF Idle, Call
  <2> HIDE DEF c
  <2> QED BY <1>2, <2>1, <2>2
<1>9. ASSUME NEW d \in Drains, NEW t \in Tasks, Ack(d, t) PROVE SafeParts'
  <2>1. task[t].st # "unborn"
    BY <1>9 DEF Ack, Held, SafeParts, LeaseInv
  <2>2. \A e \in Drains : t \notin drain[e].cands
    BY <1>9 DEF Ack, Locked, SafeParts, PhaseInv
  <2>3. \A u \in Tasks : Unclaimed(u)
    BY <1>9, <2>1, <2>2 DEF Ack, Unclaimed, TypeOK, Row
  <2> QED BY <1>8, <1>9, <2>3, PassiveStep DEF Ack
<1>10. ASSUME NEW d \in Drains, NEW t \in Tasks, Fail(d, t) PROVE SafeParts'
  BY <1>1, <1>8, <1>10 DEF Fail
<1>11. ASSUME NEW w \in Workers, Crash(w) PROVE SafeParts'
  <2>1. \A e \in Drains : drain'[e] = Idle \/ drain'[e] = drain[e]
    BY <1>11 DEF Crash
  <2>2. \A e \in Drains : Passive(e)
    BY <2>1 DEF Passive, Idle
  <2> QED BY <1>1, <1>11, <2>2 DEF Crash
<1>12. CASE UNCHANGED vars
  BY <1>1, <1>12 DEF vars, Passive
<1> QED
  BY <1>4, <1>5, <1>6, <1>7, <1>9, <1>10, <1>11, <1>12 DEF HandleStep

\* A lock is taken in its turn, and a claim begins with none.
LEMMA LockOrderStep ==
  ASSUME TypeOK, PhaseInv, LockOrderInv, [Next]_vars
  PROVE  LockOrderInv'
<1>1. ASSUME NEW d \in Drains, NEW c, Continue(d, c),
             c.pc = "occupancy" =>
               \/ c.locks = {}
               \/ c.locks = drain[d].locks /\ c.cands = drain[d].cands /\ drain[d].pc = "occupancy"
      PROVE  LockOrderInv'
  BY <1>1, ContinueCall DEF LockOrderInv, Missing, LimitedCandidates
<1>2. ASSUME NEW d \in Drains
      PROVE  drain[d] \in Call
  BY DEF TypeOK
<1>3. Idle.pc = "idle"
  BY DEF Idle
<1>4. ASSUME NEW d \in Drains, DrainLock(d)
      PROVE  LockOrderInv'
  <2>1. PICK p \in Projects :
          /\ drain[d].pc = "occupancy" /\ NextLock(d, p)
          /\ Continue(d, [drain[d] EXCEPT !.locks = drain[d].locks \cup {p}])
    BY <1>4 DEF DrainLock
  <2> DEFINE c == [drain[d] EXCEPT !.locks = drain[d].locks \cup {p}]
  <2>2. c.locks = drain[d].locks \cup {p} /\ c.cands = drain[d].cands
    BY <1>2 DEF Call
  <2>3. drain'[d] = c /\ \A e \in Drains \ {d} : drain'[e] = drain[e]
    BY <2>1, ContinueCall
  <2> HIDE DEF c
  <2>4. Missing(d)' = Missing(d) \ {p}
    BY <2>2, <2>3 DEF Missing, LimitedCandidates, Limited
  <2>5. Missing(d) \subseteq Projects /\ Projects \subseteq Nat /\ p \in Missing(d)
    BY <1>2, <2>1, MapsAssumption DEF NextLock, Missing, LimitedCandidates, ProjectsOf, Call
  <2>6. \A q \in Missing(d)' : p < q /\ \A r \in drain[d].locks : r < q
    BY <2>1, <2>4, <2>5 DEF NextLock, LockOrderInv
  <2>7. ASSUME NEW e \in Drains \ {d}
        PROVE  Missing(e)' = Missing(e)
    BY <2>3 DEF Missing, LimitedCandidates, Limited
  <2> QED BY <2>2, <2>3, <2>6, <2>7 DEF LockOrderInv
<1>5. ASSUME NEW d \in Drains, DrainSelect(d)
      PROVE  LockOrderInv'
  <2>1. PICK C : drain[d].pc = "select"
                   /\ Continue(d, IF C = {} THEN Idle ELSE [drain[d] EXCEPT !.cands = C, !.pc = "occupancy"])
    BY <1>5 DEF DrainSelect
  <2> DEFINE c == IF C = {} THEN Idle ELSE [drain[d] EXCEPT !.cands = C, !.pc = "occupancy"]
  <2>2. drain[d].locks = {}
    BY <2>1 DEF PhaseInv, InTransaction
  <2>3. c.pc = "occupancy" => c.locks = {}
    BY <1>2, <1>3, <2>2 DEF Call
  <2>4. Continue(d, c)
    BY <2>1
  <2> HIDE DEF c
  <2> QED BY <1>1, <2>3, <2>4
<1>6. ASSUME NEW d \in Drains, NEW c, Continue(d, c), c.pc # "occupancy"
      PROVE  LockOrderInv'
  BY <1>6, ContinueCall DEF LockOrderInv, Missing, LimitedCandidates
<1>7. ASSUME NEW d \in Drains, DrainBegin(d) \/ DrainOccupancy(d) \/ DrainCommit(d) \/ DrainReturn(d)
      PROVE  LockOrderInv'
  <2>1. ASSUME DrainBegin(d) PROVE LockOrderInv'
    <3> DEFINE c == [Idle EXCEPT !.pc = "select",
                                 !.limit = EffectiveClaimLimit(inFlight[WorkerOf[d]])]
    <3>1. c.pc = "select" /\ Continue(d, c)
      BY <2>1 DEF DrainBegin, Idle
    <3> HIDE DEF c
    <3> QED BY <1>6, <3>1
  <2>2. ASSUME DrainOccupancy(d) PROVE LockOrderInv'
    <3> DEFINE o == [p \in Projects |-> IF p \in drain[d].locks
                                       THEN Cardinality(Occupants(p, drain[d].age)) ELSE 0]
               c == [drain[d] EXCEPT !.pc = "commit", !.occ = o]
    <3>1. Continue(d, c)
      BY <2>2 DEF DrainOccupancy
    <3> HIDE DEF o
    <3>2. c.pc = "commit"
      BY <1>2 DEF Call
    <3> HIDE DEF c
    <3> QED BY <1>6, <3>1, <3>2
  <2>3. ASSUME DrainCommit(d) PROVE LockOrderInv'
    <3> DEFINE B == Chosen(drain[d].cands, drain[d].occ)
               l == TTL - drain[d].age
               c == IF B = {} THEN Idle ELSE [Idle EXCEPT !.pc = "return", !.left = l, !.held = B]
    <3>1. Continue(d, c)
      BY <2>3 DEF DrainCommit
    <3> HIDE DEF B, l
    <3>2. c.pc # "occupancy"
      BY DEF Idle
    <3> HIDE DEF c
    <3> QED BY <1>6, <3>1, <3>2
  <2>4. ASSUME DrainReturn(d) PROVE LockOrderInv'
    <3> DEFINE B == {u \in drain[d].held : Present(u)}
               c == IF B = {} THEN Idle ELSE [drain[d] EXCEPT !.pc = "drive", !.held = B]
    <3>1. Continue(d, c)
      BY <2>4 DEF DrainReturn
    <3> HIDE DEF B
    <3>2. c.pc # "occupancy"
      BY <1>2 DEF Idle, Call
    <3> HIDE DEF c
    <3> QED BY <1>6, <3>1, <3>2
  <2> QED BY <1>7, <2>1, <2>2, <2>3, <2>4
<1>8. ASSUME NEW d \in Drains, NEW t \in Tasks, Drive(d, t) \/ Ack(d, t) \/ Fail(d, t)
      PROVE  LockOrderInv'
  <2>1. ASSUME Drive(d, t) PROVE LockOrderInv'
    <3> DEFINE c == [drain[d] EXCEPT !.driven = drain[d].driven \cup {t}]
    <3>1. c.pc = "drive" /\ Continue(d, c)
      BY <1>2, <2>1 DEF Drive, Held, Call
    <3> HIDE DEF c
    <3> QED BY <1>6, <3>1
  <2>2. ASSUME Ack(d, t) \/ Fail(d, t) PROVE LockOrderInv'
    <3> DEFINE c == IF drain[d].held = {t} THEN Idle
                    ELSE [drain[d] EXCEPT !.held = drain[d].held \ {t},
                                          !.driven = drain[d].driven \ {t}]
    <3>1. drain[d].pc = "drive" /\ Continue(d, c)
      BY <2>2 DEF Ack, Fail, Release, Held
    <3>2. c.pc # "occupancy"
      BY <1>2, <3>1 DEF Idle, Call
    <3> HIDE DEF c
    <3> QED BY <1>6, <3>1, <3>2
  <2> QED BY <1>8, <2>1, <2>2
<1>9. ASSUME NEW w \in Workers, Crash(w)
      PROVE  LockOrderInv'
  BY <1>3, <1>9 DEF Crash, LockOrderInv, Missing, LimitedCandidates
<1>10. CASE Tick
  <2>1. \A d \in Drains : /\ drain'[d].pc = drain[d].pc /\ drain'[d].locks = drain[d].locks
                          /\ drain'[d].cands = drain[d].cands
    BY <1>2, <1>10 DEF Tick, Call
  <2> QED BY <2>1 DEF LockOrderInv, Missing, LimitedCandidates, Limited
<1>11. CASE UNCHANGED drain
  BY <1>11 DEF LockOrderInv, Missing, LimitedCandidates
<1>12. (\E t \in Tasks : Enqueue(t)) \/ UNCHANGED vars => UNCHANGED drain
  BY DEF Enqueue, vars
<1> QED
  BY <1>4, <1>5, <1>7, <1>9, <1>10, <1>11, <1>8, <1>12 DEF Next, DrainStep, HandleStep

\* Every step preserves it: each action of a claim by a lemma of its own.
LEMMA StepIndInv == IndInv /\ [Next]_vars => IndInv'
<1> SUFFICES ASSUME IndInv, [Next]_vars PROVE IndInv'
  OBVIOUS
<1>1. TypeOK /\ RankInv /\ SafeParts /\ LockOrderInv
  BY DEF IndInv, ClaimInv, SafeParts
<1>2. TypeOK'
  BY <1>1, TypeStep
<1>3. RankInv'
  BY <1>1, <1>2, RankStep
<1>4. SafeParts'
  BY <1>1, <1>2, SelectStep, LockStep, OccupancyStep, CommitStep, TickStep, OtherSteps
     DEF Next, DrainStep
<1>5. LockOrderInv'
  BY <1>1, LockOrderStep DEF SafeParts
<1> QED BY <1>2, <1>3, <1>4, <1>5 DEF IndInv, ClaimInv, SafeParts

\* The inductive invariant of the queue: what claims rely on between their statements.
THEOREM Invariance == Spec => []IndInv
<1> QED BY InitIndInv, StepIndInv, PTL DEF Spec

\* Rows, calls and counters are well typed.
THEOREM TypeCorrect == Spec => []TypeOK
<1>1. IndInv => TypeOK
  BY DEF IndInv
<1> QED BY Invariance, <1>1, PTL

\* Between its locks and its commit a claim owns its rows and its projects, and the lease
\* of a batch is the lease in its rows.
THEOREM ClaimsHold == Spec => []ClaimInv
<1>1. IndInv => ClaimInv
  BY DEF IndInv
<1> QED BY Invariance, <1>1, PTL

\* No two drains hold a valid lease on one task.
THEOREM LeasesExclusive == Spec => []ExclusiveLease
<1>1. IndInv => ExclusiveLease
  BY DEF IndInv
<1> QED BY Invariance, <1>1, PTL

\* The runs on lease-valid claims of a limited project never exceed its limit.
THEOREM LimitKept == Spec => []SlotsWithinLimit
<1>1. IndInv => SlotsWithinLimit
  BY DEF IndInv
<1> QED BY Invariance, <1>1, PTL

(***************************************************************************)
(* Claims do not wait in a circle: of the locks they wait for, the one of  *)
(* the highest project is held by a claim that waits for none.             *)
(***************************************************************************)
\* A finite set of natural numbers that is not empty has a greatest element.
LEMMA GreatestExists ==
  ASSUME NEW S \in SUBSET Nat, S # {}, IsFiniteSet(S)
  PROVE  \E m \in S : \A n \in S : n <= m
<1> DEFINE Above(n) == {q \in S : q > n}
           T == {Cardinality(Above(n)) : n \in S}
<1>1. \A n \in S : IsFiniteSet(Above(n)) /\ Cardinality(Above(n)) \in Nat
  <2> SUFFICES ASSUME NEW n \in S
               PROVE  IsFiniteSet(Above(n)) /\ Cardinality(Above(n)) \in Nat
    OBVIOUS
  <2>1. Above(n) \in SUBSET S
    OBVIOUS
  <2> HIDE DEF Above
  <2> QED BY <2>1, FS_Subset, FS_CardinalityType
<1>2. T \in SUBSET Nat /\ T # {}
  BY <1>1
<1>3. PICK k \in T : \A j \in T : k <= j
  <2> HIDE DEF T
  <2> QED BY <1>2, LeastExists
<1>4. PICK m \in S : k = Cardinality(Above(m))
  OBVIOUS
<1>5. ASSUME NEW n \in S, n > m
      PROVE  FALSE
  <2>1. Above(n) \in SUBSET Above(m) /\ n \in Above(m) /\ n \notin Above(n)
    <3>1. m \in Nat /\ n \in Nat /\ \A q \in S : q \in Nat
      OBVIOUS
    <3>2. \A q \in S : q > n => q > m
      BY <1>5, <3>1
    <3>3. Above(n) \in SUBSET Above(m)
      BY <3>2
    <3>4. n \in Above(m)
      BY <1>5
    <3>5. n \notin Above(n)
      BY <3>1
    <3> QED BY <3>3, <3>4, <3>5
  <2>2. Cardinality(Above(m)) <= Cardinality(Above(n))
    BY <1>3, <1>4
  <2> HIDE DEF Above
  <2>3. /\ Cardinality(Above(n)) <= Cardinality(Above(m))
        /\ Cardinality(Above(m)) = Cardinality(Above(n)) => Above(m) = Above(n)
    BY <1>1, <2>1, FS_Subset
  <2>4. Cardinality(Above(n)) \in Nat /\ Cardinality(Above(m)) \in Nat
    BY <1>1
  <2>5. Cardinality(Above(m)) = Cardinality(Above(n))
    BY <2>2, <2>3, <2>4
  <2>6. Above(m) = Above(n)
    BY <2>3, <2>5
  <2>7. n \in Above(m) /\ n \notin Above(n)
    BY <2>1
  <2> QED BY <2>6, <2>7
<1> QED BY <1>5

\* The projects that have a task are finitely many.
LEMMA ProjectsFinite == IsFiniteSet(ProjectsOf(Tasks))
<1> DEFINE f == [t \in Tasks |-> ProjectOf[RunOf[t]]]
<1>1. f \in Surjection(Tasks, ProjectsOf(Tasks))
  BY DEF Surjection, ProjectsOf
<1> QED BY <1>1, FiniteAssumption, FS_Surjection

\* However many claims wait for project locks, one of them waits for nobody among them.
THEOREM WaitsEnd == Spec => []NoCircularWait
<1>1. IndInv => NoCircularWait
  <2> SUFFICES ASSUME IndInv, NEW D \in (SUBSET Drains) \ {{}},
                      \A d \in D : \E e \in D :
                        drain[d].pc = "occupancy" /\ \E p \in drain[e].locks : NextLock(d, p)
               PROVE  FALSE
    BY DEF NoCircularWait
  <2> DEFINE P == {p \in ProjectsOf(Tasks) : \E d \in D : NextLock(d, p)}
  <2>1. \A d \in D : \A p : NextLock(d, p) =>
          /\ p \in P /\ p \in Nat /\ p \in Missing(d)
          /\ \A q \in Missing(d) : p <= q
    <3> SUFFICES ASSUME NEW d \in D, NEW p, NextLock(d, p)
                 PROVE  p \in ProjectsOf(Tasks) /\ p \in Nat
      BY DEF NextLock
    <3>1. drain[d].cands \in SUBSET Tasks
      BY DEF IndInv, TypeOK, Call
    <3>2. p \in ProjectsOf(Tasks)
      BY <3>1 DEF NextLock, Missing, LimitedCandidates, ProjectsOf
    <3> QED BY <3>2, MapsAssumption DEF ProjectsOf
  <2>2. P # {} /\ P \in SUBSET Nat
    <3>1. P # {}
      BY <2>1
    <3>2. ProjectsOf(Tasks) \in SUBSET Nat
      BY MapsAssumption DEF ProjectsOf
    <3> QED BY <3>1, <3>2
  <2>3. IsFiniteSet(P)
    BY ProjectsFinite, FS_Subset
  <2> HIDE DEF P
  <2>4. PICK m \in P : \A n \in P : n <= m
    BY <2>2, <2>3, GreatestExists
  <2>5. PICK d \in D : NextLock(d, m)
    BY <2>4 DEF P
  <2>6. PICK e \in D : \E p \in drain[e].locks : NextLock(d, p)
    OBVIOUS
  <2>7. m \in drain[e].locks
    <3>1. ASSUME NEW p, NextLock(d, p) PROVE p = m
      <4>1. p \in Nat /\ m \in Nat /\ p \in Missing(d) /\ m \in Missing(d)
        BY <2>1, <2>5, <3>1
      <4>2. p <= m /\ m <= p
        BY <2>1, <2>5, <3>1, <4>1
      <4> QED BY <4>1, <4>2
    <3> QED BY <2>6, <3>1
  <2>8. PICK q : NextLock(e, q) /\ drain[e].pc = "occupancy"
    BY <2>6
  <2>9. m < q
    <3>1. q \in Missing(e) /\ e \in Drains
      BY <2>1, <2>8
    <3>2. LockOrderInv
      BY DEF IndInv, ClaimInv
    <3> QED BY <2>7, <2>8, <3>1, <3>2 DEF LockOrderInv
  <2> QED BY <2>1, <2>2, <2>4, <2>8, <2>9
<1> QED BY Invariance, <1>1, PTL

(***************************************************************************)
(* inFlight counts what a process holds.                                   *)
(***************************************************************************)
HeldBy(w) == {x \in Drains \X Tasks : WorkerOf[x[1]] = w /\ Held(x[1], x[2])}

LEMMA HeldByFinite ==
  ASSUME NEW S \in SUBSET (Drains \X Tasks)
  PROVE  IsFiniteSet(S) /\ Cardinality(S) \in Nat
BY FiniteAssumption, FS_Product, FS_Subset, FS_CardinalityType

LEMMA HeldByTyped == \A w : HeldBy(w) \in SUBSET (Drains \X Tasks)
BY DEF HeldBy

\* A batch of one call counts as many pairs as it has tasks.
LEMMA BatchCount ==
  ASSUME NEW d \in Drains, NEW B \in SUBSET Tasks
  PROVE  /\ Cardinality({d} \X B) = Cardinality(B) /\ Cardinality(B) \in Nat
         /\ {d} \X B \in SUBSET (Drains \X Tasks)
<1>1. IsFiniteSet(B) /\ Cardinality(B) \in Nat
  BY FiniteAssumption, FS_Subset, FS_CardinalityType
<1>2. IsFiniteSet({d}) /\ Cardinality({d}) = 1
  BY FS_Singleton
<1>3. Cardinality({d} \X B) = 1 * Cardinality(B)
  BY <1>1, <1>2, FS_Product
<1>4. {d} \X B \in SUBSET (Drains \X Tasks)
  OBVIOUS
<1> QED BY <1>1, <1>3, <1>4

InFlightInv == \A w \in Workers : inFlight[w] = Cardinality(HeldBy(w))

\* A step in which no batch changes hands.
LEMMA HeldSame ==
  ASSUME InFlightInv, inFlight' = inFlight,
         \A d \in Drains, t \in Tasks : Held(d, t)' <=> Held(d, t)
  PROVE  InFlightInv'
<1>1. \A w : HeldBy(w)' = HeldBy(w)
  BY DEF HeldBy
<1> QED BY <1>1 DEF InFlightInv

\* What a pair of HeldBy is; two sets of such pairs are compared pair by pair.
LEMMA HeldByPairs ==
  /\ \A w, d, t : <<d, t>> \in HeldBy(w) <=>
       d \in Drains /\ t \in Tasks /\ WorkerOf[d] = w /\ Held(d, t)
  /\ \A w, d, t : <<d, t>> \in HeldBy(w)' <=>
       d \in Drains /\ t \in Tasks /\ WorkerOf[d] = w /\ Held(d, t)'
BY DEF HeldBy

LEMMA PairsEqual ==
  ASSUME NEW S \in SUBSET (Drains \X Tasks), NEW T \in SUBSET (Drains \X Tasks),
         \A d \in Drains, t \in Tasks : <<d, t>> \in S <=> <<d, t>> \in T
  PROVE  S = T
OBVIOUS

\* The reloaded batch is counted.
LEMMA ReturnCounts ==
  ASSUME TypeOK, InFlightInv, NEW d \in Drains, DrainReturn(d)
  PROVE  InFlightInv'
<1> DEFINE B == {t \in drain[d].held : Present(t)}
           c == IF B = {} THEN Idle ELSE [drain[d] EXCEPT !.pc = "drive", !.held = B]
<1>1. /\ drain[d].pc = "return" /\ Continue(d, c)
      /\ inFlight' = [inFlight EXCEPT ![WorkerOf[d]] = inFlight[WorkerOf[d]] + Cardinality(B)]
  BY DEF DrainReturn
<1>2. drain[d] \in Call /\ B \in SUBSET Tasks
  BY DEF TypeOK, Call
<1>3. PICK C \in SUBSET Tasks : C = B
  BY <1>2
<1> HIDE DEF B
<1>4. \A t : c.pc = "drive" /\ t \in c.held <=> t \in C
  <2>1. CASE B = {}
    BY <1>3, <2>1 DEF Idle
  <2>2. CASE B # {}
    BY <1>2, <1>3, <2>2 DEF Call
  <2> QED BY <2>1, <2>2
<1> HIDE DEF c
<1>5. drain'[d] = c /\ \A e \in Drains \ {d} : drain'[e] = drain[e]
  BY <1>1, ContinueCall
<1>6. /\ \A e \in Drains \ {d}, t \in Tasks : Held(e, t)' <=> Held(e, t)
      /\ \A t \in Tasks : ~Held(d, t) /\ (Held(d, t)' <=> t \in C)
  BY <1>1, <1>4, <1>5 DEF Held
<1> DEFINE v == WorkerOf[d]
<1>7. v \in Workers /\ inFlight[v] \in Int
  BY MapsAssumption DEF TypeOK
<1>8. /\ Cardinality({d} \X C) = Cardinality(C) /\ Cardinality(C) \in Nat
      /\ {d} \X C \in SUBSET (Drains \X Tasks)
  BY BatchCount
<1>9. /\ inFlight'[v] = inFlight[v] + Cardinality(C)
      /\ \A w \in Workers \ {v} : inFlight'[w] = inFlight[w]
  BY <1>1, <1>3, <1>7 DEF TypeOK
<1>10. ASSUME NEW w \in Workers \ {v}
       PROVE  HeldBy(w)' = HeldBy(w)
  <2>1. \A e \in Drains, t \in Tasks : <<e, t>> \in HeldBy(w)' <=> <<e, t>> \in HeldBy(w)
    BY <1>6, HeldByPairs
  <2>2. HeldBy(w)' \in SUBSET (Drains \X Tasks) /\ HeldBy(w) \in SUBSET (Drains \X Tasks)
    BY DEF HeldBy
  <2> QED BY <2>1, <2>2, PairsEqual
<1>11. HeldBy(v)' = HeldBy(v) \cup ({d} \X C) /\ HeldBy(v) \cap ({d} \X C) = {}
  <2>1. \A e \in Drains, t \in Tasks :
          /\ <<e, t>> \in HeldBy(v)' <=> <<e, t>> \in HeldBy(v) \cup ({d} \X C)
          /\ ~(<<e, t>> \in HeldBy(v) /\ <<e, t>> \in {d} \X C)
    BY <1>6, HeldByPairs
  <2>2. HeldBy(v)' \in SUBSET (Drains \X Tasks) /\ HeldBy(v) \in SUBSET (Drains \X Tasks)
    BY DEF HeldBy
  <2>3. HeldBy(v) \cup ({d} \X C) \in SUBSET (Drains \X Tasks)
    BY <1>8, <2>2
  <2>4. HeldBy(v)' = HeldBy(v) \cup ({d} \X C)
    BY <2>1, <2>2, <2>3, PairsEqual
  <2> QED BY <1>8, <2>1, <2>4
<1>12. Cardinality(HeldBy(v)') = Cardinality(HeldBy(v)) + Cardinality(C)
  <2>1. HeldBy(v) \in SUBSET (Drains \X Tasks)
    BY HeldByTyped
  <2>2. /\ IsFiniteSet(HeldBy(v)) /\ Cardinality(HeldBy(v)) \in Nat
        /\ IsFiniteSet({d} \X C)
    BY <1>8, <2>1, HeldByFinite
  <2>3. Cardinality(HeldBy(v) \cup ({d} \X C)) =
          Cardinality(HeldBy(v)) + Cardinality({d} \X C) - Cardinality(HeldBy(v) \cap ({d} \X C))
    BY <2>2, FS_Union
  <2> QED BY <1>8, <1>11, <2>2, <2>3, FS_EmptySet
<1>13. inFlight[v] = Cardinality(HeldBy(v)) /\ \A w \in Workers : inFlight[w] = Cardinality(HeldBy(w))
  BY <1>7 DEF InFlightInv
<1>14. ASSUME NEW w \in Workers
       PROVE  inFlight'[w] = Cardinality(HeldBy(w)')
  <2>1. CASE w = v
    BY <1>9, <1>12, <1>13, <2>1
  <2>2. CASE w # v
    BY <1>9, <1>10, <1>13, <2>2
  <2> QED BY <2>1, <2>2
<1> QED BY <1>14 DEF InFlightInv

\* A task that is let go is counted no more.
LEMMA ReleaseCounts ==
  ASSUME TypeOK, InFlightInv, NEW d \in Drains, NEW t \in Tasks, Held(d, t), Release(d, t)
  PROVE  InFlightInv'
<1> DEFINE c == IF drain[d].held = {t} THEN Idle
                ELSE [drain[d] EXCEPT !.held = drain[d].held \ {t},
                                      !.driven = drain[d].driven \ {t}]
           v == WorkerOf[d]
<1>1. /\ drain[d].pc = "drive" /\ t \in drain[d].held /\ Continue(d, c)
      /\ inFlight' = [inFlight EXCEPT ![v] = inFlight[v] - 1]
  BY DEF Release, Held
<1>2. drain[d] \in Call
  BY DEF TypeOK
<1>3. \A u : c.pc = "drive" /\ u \in c.held <=> u \in drain[d].held /\ u # t
  <2>1. CASE drain[d].held = {t}
    BY <2>1 DEF Idle
  <2>2. CASE drain[d].held # {t}
    BY <1>1, <1>2, <2>2 DEF Call
  <2> QED BY <2>1, <2>2
<1> HIDE DEF c
<1>4. drain'[d] = c /\ \A e \in Drains \ {d} : drain'[e] = drain[e]
  BY <1>1, ContinueCall
<1>5. /\ \A e \in Drains \ {d}, u \in Tasks : Held(e, u)' <=> Held(e, u)
      /\ \A u \in Tasks : Held(d, u)' <=> Held(d, u) /\ u # t
  BY <1>1, <1>3, <1>4 DEF Held
<1>6. v \in Workers /\ inFlight[v] \in Int
  BY MapsAssumption DEF TypeOK
<1>7. inFlight'[v] = inFlight[v] - 1 /\ \A w \in Workers \ {v} : inFlight'[w] = inFlight[w]
  BY <1>1, <1>6 DEF TypeOK
<1>8. ASSUME NEW w \in Workers
      PROVE  HeldBy(w)' = HeldBy(w) \ {<<d, t>>}
  <2>1. \A e \in Drains, u \in Tasks :
          <<e, u>> \in HeldBy(w)' <=> <<e, u>> \in HeldBy(w) \ {<<d, t>>}
    BY <1>5, HeldByPairs
  <2>2. HeldBy(w)' \in SUBSET (Drains \X Tasks) /\ HeldBy(w) \in SUBSET (Drains \X Tasks)
    BY DEF HeldBy
  <2>3. HeldBy(w) \ {<<d, t>>} \in SUBSET (Drains \X Tasks)
    BY <2>2
  <2> QED BY <2>1, <2>2, <2>3, PairsEqual
<1>9. ASSUME NEW w \in Workers
      PROVE  Cardinality(HeldBy(w)') = IF w = v THEN Cardinality(HeldBy(w)) - 1
                                      ELSE Cardinality(HeldBy(w))
  <2>1. IsFiniteSet(HeldBy(w))
    BY HeldByTyped, HeldByFinite
  <2>2. <<d, t>> \in HeldBy(w) <=> w = v
    BY HeldByPairs
  <2> QED BY <1>8, <2>1, <2>2, FS_RemoveElement
<1>10. ASSUME NEW w \in Workers
       PROVE  inFlight'[w] = Cardinality(HeldBy(w)')
  <2>1. inFlight[w] = Cardinality(HeldBy(w))
    BY DEF InFlightInv
  <2>2. CASE w = v
    BY <1>7, <1>9, <2>1, <2>2
  <2>3. CASE w # v
    BY <1>7, <1>9, <2>1, <2>3
  <2> QED BY <2>2, <2>3
<1> QED BY <1>10 DEF InFlightInv

LEMMA CrashCounts ==
  ASSUME TypeOK, InFlightInv, NEW w \in Workers, Crash(w)
  PROVE  InFlightInv'
<1>1. /\ inFlight' = [inFlight EXCEPT ![w] = 0]
      /\ \A d \in Drains : drain'[d] = IF WorkerOf[d] = w THEN Idle ELSE drain[d]
  BY DEF Crash
<1>2. /\ \A d \in Drains, t \in Tasks : WorkerOf[d] = w => ~Held(d, t)'
      /\ \A d \in Drains, t \in Tasks : WorkerOf[d] # w => (Held(d, t)' <=> Held(d, t))
  BY <1>1 DEF Held, Idle
<1>3. HeldBy(w)' = {}
  BY <1>2 DEF HeldBy
<1>4. ASSUME NEW v \in Workers \ {w}
      PROVE  HeldBy(v)' = HeldBy(v)
  BY <1>2 DEF HeldBy
<1>5. inFlight'[w] = 0 /\ \A v \in Workers \ {w} : inFlight'[v] = inFlight[v]
  BY <1>1 DEF TypeOK
<1> QED BY <1>3, <1>4, <1>5, FS_EmptySet DEF InFlightInv

\* The steps of a claim, and of a drive that goes on, let go of nothing.
LEMMA OthersCount ==
  ASSUME TypeOK, InFlightInv,
         \/ \E t \in Tasks : Enqueue(t)
         \/ \E d \in Drains : DrainBegin(d) \/ DrainSelect(d) \/ DrainLock(d) \/ DrainOccupancy(d)
                                \/ DrainCommit(d)
         \/ \E d \in Drains, t \in Tasks : Drive(d, t)
         \/ Tick \/ UNCHANGED vars
  PROVE  InFlightInv'
<1>1. ASSUME NEW d \in Drains, NEW c, Continue(d, c), UNCHANGED inFlight,
             \/ drain[d].pc # "drive" /\ c.pc # "drive"
             \/ drain[d].pc = "drive" /\ c.pc = "drive" /\ c.held = drain[d].held
      PROVE  InFlightInv'
  <2>1. \A e \in Drains, t \in Tasks : Held(e, t)' <=> Held(e, t)
    BY <1>1, ContinueCall DEF Held
  <2> QED BY <1>1, <2>1, HeldSame
<1>2. ASSUME NEW d \in Drains PROVE drain[d] \in Call
  BY DEF TypeOK
<1>3. ASSUME NEW d \in Drains, DrainBegin(d) PROVE InFlightInv'
  <2> DEFINE c == [Idle EXCEPT !.pc = "select",
                               !.limit = EffectiveClaimLimit(inFlight[WorkerOf[d]])]
  <2>1. drain[d].pc = "idle" /\ Continue(d, c) /\ UNCHANGED inFlight /\ c.pc = "select"
    BY <1>3 DEF DrainBegin, Idle
  <2> HIDE DEF c
  <2> QED BY <1>1, <2>1
<1>4. ASSUME NEW d \in Drains, DrainSelect(d) PROVE InFlightInv'
  <2>1. PICK C : /\ drain[d].pc = "select" /\ UNCHANGED inFlight
                 /\ Continue(d, IF C = {} THEN Idle
                                ELSE [drain[d] EXCEPT !.cands = C, !.pc = "occupancy"])
    BY <1>4 DEF DrainSelect
  <2> DEFINE c == IF C = {} THEN Idle ELSE [drain[d] EXCEPT !.cands = C, !.pc = "occupancy"]
  <2>2. c.pc # "drive" /\ Continue(d, c)
    BY <1>2, <2>1 DEF Call, Idle
  <2> HIDE DEF c
  <2> QED BY <1>1, <2>1, <2>2
<1>5. ASSUME NEW d \in Drains, DrainLock(d) PROVE InFlightInv'
  <2>1. PICK p \in Projects : /\ drain[d].pc = "occupancy" /\ UNCHANGED inFlight
                              /\ Continue(d, [drain[d] EXCEPT !.locks = drain[d].locks \cup {p}])
    BY <1>5 DEF DrainLock
  <2> DEFINE c == [drain[d] EXCEPT !.locks = drain[d].locks \cup {p}]
  <2>2. c.pc = "occupancy" /\ Continue(d, c)
    BY <1>2, <2>1 DEF Call
  <2> HIDE DEF c
  <2> QED BY <1>1, <2>1, <2>2
<1>6. ASSUME NEW d \in Drains, DrainOccupancy(d) PROVE InFlightInv'
  <2> DEFINE o == [p \in Projects |-> IF p \in drain[d].locks
                                     THEN Cardinality(Occupants(p, drain[d].age)) ELSE 0]
             c == [drain[d] EXCEPT !.pc = "commit", !.occ = o]
  <2>1. drain[d].pc = "occupancy" /\ Continue(d, c) /\ UNCHANGED inFlight
    BY <1>6 DEF DrainOccupancy
  <2> HIDE DEF o
  <2>2. c.pc = "commit"
    BY <1>2 DEF Call
  <2> HIDE DEF c
  <2> QED BY <1>1, <2>1, <2>2
<1>7. ASSUME NEW d \in Drains, DrainCommit(d) PROVE InFlightInv'
  <2> DEFINE B == Chosen(drain[d].cands, drain[d].occ)
             l == TTL - drain[d].age
             c == IF B = {} THEN Idle ELSE [Idle EXCEPT !.pc = "return", !.left = l, !.held = B]
  <2>1. drain[d].pc = "commit" /\ Continue(d, c) /\ UNCHANGED inFlight
    BY <1>7 DEF DrainCommit
  <2> HIDE DEF B, l
  <2>2. c.pc # "drive"
    BY DEF Idle
  <2> HIDE DEF c
  <2> QED BY <1>1, <2>1, <2>2
<1>8. ASSUME NEW d \in Drains, NEW t \in Tasks, Drive(d, t) PROVE InFlightInv'
  <2> DEFINE c == [drain[d] EXCEPT !.driven = drain[d].driven \cup {t}]
  <2>1. drain[d].pc = "drive" /\ Continue(d, c) /\ UNCHANGED inFlight
    BY <1>8 DEF Drive, Held
  <2>2. c.pc = "drive" /\ c.held = drain[d].held
    BY <1>2, <2>1 DEF Call
  <2> HIDE DEF c
  <2> QED BY <1>1, <2>1, <2>2
<1>9. CASE Tick
  <2>1. \A d \in Drains : drain'[d].pc = drain[d].pc /\ drain'[d].held = drain[d].held
    BY <1>2, <1>9 DEF Tick, Call
  <2>2. UNCHANGED inFlight
    BY <1>9 DEF Tick
  <2> QED BY <2>1, <2>2, HeldSame DEF Held
<1>10. ASSUME UNCHANGED <<drain, inFlight>> PROVE InFlightInv'
  BY <1>10, HeldSame DEF Held
<1>11. (\E t \in Tasks : Enqueue(t)) \/ UNCHANGED vars => UNCHANGED <<drain, inFlight>>
  BY DEF Enqueue, vars
<1> QED BY <1>3, <1>4, <1>5, <1>6, <1>7, <1>8, <1>9, <1>10, <1>11

\* inFlight counts exactly the tasks a process claimed and has not let go.
THEOREM InFlightCounts == Spec => []InFlightExact
<1>1. Init => InFlightInv
  <2> SUFFICES ASSUME Init, NEW w \in Workers
               PROVE  inFlight[w] = Cardinality(HeldBy(w))
    BY DEF InFlightInv
  <2>1. inFlight[w] = 0 /\ \A d \in Drains : drain[d] = Idle
    BY DEF Init
  <2>2. HeldBy(w) = {}
    BY <2>1 DEF HeldBy, Held, Idle
  <2> QED BY <2>1, <2>2, FS_EmptySet
<1>2. IndInv /\ InFlightInv /\ [Next]_vars => InFlightInv'
  <2> SUFFICES ASSUME TypeOK, InFlightInv, [Next]_vars PROVE InFlightInv'
    BY DEF IndInv
  <2>1. ASSUME NEW d \in Drains, NEW t \in Tasks, Ack(d, t) \/ Fail(d, t)
        PROVE  InFlightInv'
    BY <2>1, ReleaseCounts DEF Ack, Fail
  <2> QED BY <2>1, ReturnCounts, CrashCounts, OthersCount DEF Next, DrainStep, HandleStep
<1>3. InFlightInv <=> InFlightExact
  BY DEF InFlightInv, InFlightExact, HeldBy
<1> QED BY <1>1, <1>2, <1>3, Invariance, PTL DEF Spec

(***************************************************************************)
(* The queue implements the contract of its drivers.                       *)
(***************************************************************************)
\* The contract sees a lease end, a batch shrink, or nothing.
LEMMA LapseMaps ==
  ASSUME \A t \in Tasks : Present(t)' <=> Present(t),
         \A t \in Tasks : task'[t].st = "acked" <=> task[t].st = "acked",
         \A d \in Drains : /\ drain'[d].held \subseteq drain[d].held
                           /\ drain'[d].held # {} /\ drain'[d].left >= 0 => drain[d].left >= 0
  PROVE  Contract!Lapse
<1>1. PresentTasks' = PresentTasks /\ DoneTasks' = DoneTasks
  BY DEF PresentTasks, DoneTasks
<1>2. ASSUME NEW t \in Tasks
      PROVE  LeasedTo(t)' \subseteq LeasedTo(t) /\ DeliveredTo(t)' \subseteq DeliveredTo(t)
  BY DEF LeasedTo, DeliveredTo
<1> QED BY <1>1, <1>2 DEF Contract!Lapse

\* A call that goes on without a new row is a lapse.
LEMMA CallMaps ==
  ASSUME NEW d \in Drains, NEW c, Continue(d, c), UNCHANGED task, TypeOK,
         c.held \subseteq drain[d].held, c.held # {} => c.left = drain[d].left
  PROVE  Contract!Lapse
<1>1. drain'[d] = c /\ \A e \in Drains \ {d} : drain'[e] = drain[e]
  BY ContinueCall
<1>2. \A t \in Tasks : Present(t)' <=> Present(t)
  BY DEF Present
<1> QED BY <1>1, <1>2, LapseMaps

\* enqueueRunTask adds a task that was never seen.
LEMMA EnqueueMaps ==
  ASSUME TypeOK, NEW t \in Tasks, Enqueue(t)
  PROVE  Contract!Enqueue
<1>1. /\ task[t].st = "unborn" /\ task'[t].st = "queued"
      /\ \A u \in Tasks \ {t} : task'[u] = task[u]
      /\ UNCHANGED drain
  BY DEF Enqueue, TypeOK, Row
<1>2. t \in Tasks \ (PresentTasks \cup DoneTasks)
  BY <1>1 DEF PresentTasks, DoneTasks, Present
<1>3. PresentTasks' = PresentTasks \cup {t} /\ DoneTasks' = DoneTasks
  BY <1>1 DEF PresentTasks, DoneTasks, Present
<1>4. \A u \in Tasks : LeasedTo(u)' = LeasedTo(u) /\ DeliveredTo(u)' = DeliveredTo(u)
  BY <1>1 DEF LeasedTo, DeliveredTo
<1> QED BY <1>2, <1>3, <1>4 DEF Contract!Enqueue

\* A row that is due is leased to nobody: the lease of a batch is the lease in its row.
LEMMA DueIsFree ==
  ASSUME TypeOK, LeaseInv, NEW t \in Tasks, NEW a \in Nat, DueFor(t, a)
  PROVE  LeasedTo(t) = {} /\ Present(t)
<1>1. ASSUME NEW d \in Drains, t \in drain[d].held, drain[d].left >= 0
      PROVE  FALSE
  <2>1. task[t].st = "claimed" /\ task[t].left = drain[d].left
    BY <1>1 DEF LeaseInv, DueFor
  <2>2. task[t].left + a < 0 /\ task[t].left \in Int
    BY <2>1, LeftType DEF DueFor
  <2> QED BY <1>1, <2>1, <2>2
<1> QED BY <1>1 DEF LeasedTo, DueFor, Present

\* The commit leases the chosen rows to one claimer, for longer than its transaction took.
LEMMA CommitMaps ==
  ASSUME TypeOK, PhaseInv, RowLocksInv, LeaseInv, NEW d \in Drains, DrainCommit(d)
  PROVE  Contract!Claim(d)
<1> DEFINE B == Chosen(drain[d].cands, drain[d].occ)
           l == TTL - drain[d].age
           c == IF B = {} THEN Idle
                ELSE [Idle EXCEPT !.pc = "return", !.left = l, !.held = B]
<1>1. /\ drain[d].pc = "commit" /\ Continue(d, c)
      /\ task' = [t \in Tasks |-> IF t \in B
                                  THEN [task[t] EXCEPT !.st = "claimed", !.left = l]
                                  ELSE task[t]]
  BY DEF DrainCommit
<1>2. /\ B \in SUBSET Tasks
      /\ \A t \in B : DueFor(t, drain[d].age)
      /\ drain[d].age \in 0..MaxAge
  BY DEF TypeOK, Call, RowLocksInv, Chosen
<1>3. drain[d].held = {}
  BY <1>1 DEF PhaseInv
<1>4. l >= 0
  BY <1>2, SizesAssumption
<1>5. \A t \in B : LeasedTo(t) = {} /\ Present(t)
  <2> SUFFICES ASSUME NEW t \in B PROVE LeasedTo(t) = {} /\ Present(t)
    OBVIOUS
  <2>1. t \in Tasks /\ drain[d].age \in Nat /\ DueFor(t, drain[d].age)
    BY <1>2
  <2> QED BY <2>1, DueIsFree
<1>6. /\ \A t \in B : task'[t].st = "claimed"
      /\ \A t \in Tasks \ B : task'[t] = task[t]
  <2>1. \A t \in Tasks : task[t] \in Row
    BY DEF TypeOK
  <2> HIDE DEF B, l
  <2> QED BY <1>1, <1>2, <2>1 DEF Row
<1>7. c.held = B /\ (B # {} => c.left = l)
  <2> HIDE DEF B, l
  <2> QED BY DEF Idle
<1> HIDE DEF c, B, l
<1>8. drain'[d] = c /\ \A e \in Drains \ {d} : drain'[e] = drain[e]
  BY <1>1, ContinueCall
<1>9. PresentTasks' = PresentTasks /\ DoneTasks' = DoneTasks
  <2>1. \A t \in Tasks : Present(t)' <=> Present(t)
    BY <1>5, <1>6 DEF Present
  <2>2. \A t \in Tasks : task'[t].st = "acked" <=> task[t].st = "acked"
    BY <1>5, <1>6 DEF Present
  <2> QED BY <2>1, <2>2 DEF PresentTasks, DoneTasks
<1>10. ASSUME NEW t \in Tasks
       PROVE  /\ LeasedTo(t)' = IF t \in B THEN {d} ELSE LeasedTo(t)
              /\ DeliveredTo(t)' = IF t \in B THEN DeliveredTo(t) \cup {d} ELSE DeliveredTo(t)
  <2>1. CASE t \in B
    <3>1. ASSUME NEW e \in Drains \ {d} PROVE ~(t \in drain'[e].held /\ drain'[e].left >= 0)
      BY <1>5, <1>8, <2>1 DEF LeasedTo
    <3>2. t \in drain'[d].held /\ drain'[d].left >= 0
      BY <1>4, <1>7, <1>8, <2>1
    <3>3. LeasedTo(t)' = {d}
      BY <3>1, <3>2 DEF LeasedTo
    <3>4. DeliveredTo(t)' = DeliveredTo(t) \cup {d}
      BY <1>8, <3>2 DEF DeliveredTo
    <3> QED BY <2>1, <3>3, <3>4
  <2>2. CASE t \notin B
    <3>1. \A e \in Drains : t \in drain'[e].held <=> t \in drain[e].held
      BY <1>3, <1>7, <1>8, <2>2
    <3>2. \A e \in Drains : t \in drain[e].held => drain'[e] = drain[e]
      BY <1>3, <1>8
    <3> QED BY <2>2, <3>1, <3>2 DEF LeasedTo, DeliveredTo
  <2> QED BY <2>1, <2>2
<1>11. B \in SUBSET PresentTasks
  BY <1>2, <1>5 DEF PresentTasks
<1>12. /\ [t \in Tasks |-> LeasedTo(t)]' =
            [t \in Tasks |-> IF t \in B THEN {d} ELSE [u \in Tasks |-> LeasedTo(u)][t]]
       /\ [t \in Tasks |-> DeliveredTo(t)]' =
            [t \in Tasks |-> IF t \in B THEN [u \in Tasks |-> DeliveredTo(u)][t] \cup {d}
                             ELSE [u \in Tasks |-> DeliveredTo(u)][t]]
  BY <1>10
<1>13. \A t \in B : [u \in Tasks |-> LeasedTo(u)][t] = {}
  BY <1>2, <1>5
<1> QED BY <1>9, <1>11, <1>12, <1>13 DEF Contract!Claim

\* A task that leaves its batch is delivered there no more.
LEMMA ReleaseHeld ==
  ASSUME TypeOK, NEW d \in Drains, NEW t \in Tasks, Held(d, t), Release(d, t)
  PROVE  /\ drain'[d].held = drain[d].held \ {t}
         /\ drain'[d].held # {} => drain'[d].left = drain[d].left
         /\ \A e \in Drains \ {d} : drain'[e] = drain[e]
<1> DEFINE c == IF drain[d].held = {t} THEN Idle
                ELSE [drain[d] EXCEPT !.held = drain[d].held \ {t},
                                      !.driven = drain[d].driven \ {t}]
<1>1. Continue(d, c)
  BY DEF Release
<1>2. drain[d] \in Call
  BY DEF TypeOK
<1>3. c.held = drain[d].held \ {t} /\ (c.held # {} => c.left = drain[d].left)
  BY <1>2 DEF Call, Idle
<1> HIDE DEF c
<1> QED BY <1>1, <1>3, ContinueCall

\* The DELETE of a row is the acknowledgement of a claimer it was delivered to, even when
\* another one acknowledged it before.
LEMMA AckMaps ==
  ASSUME TypeOK, LeaseInv, NEW d \in Drains, NEW t \in Tasks, Ack(d, t)
  PROVE  Contract!Ack(d, t)
<1>1. /\ Held(d, t) /\ t \in drain[d].held
      /\ task'[t].st = "acked" /\ \A u \in Tasks \ {t} : task'[u] = task[u]
  BY DEF Ack, Held, TypeOK, Row
<1>2. /\ drain'[d].held = drain[d].held \ {t}
      /\ drain'[d].held # {} => drain'[d].left = drain[d].left
      /\ \A e \in Drains \ {d} : drain'[e] = drain[e]
  BY ReleaseHeld DEF Ack
<1>3. PresentTasks' = PresentTasks \ {t} /\ DoneTasks' = DoneTasks \cup {t}
  BY <1>1 DEF PresentTasks, DoneTasks, Present
<1>4. ASSUME NEW u \in Tasks
      PROVE  /\ LeasedTo(u)' = IF u = t THEN LeasedTo(u) \ {d} ELSE LeasedTo(u)
             /\ DeliveredTo(u)' = IF u = t THEN DeliveredTo(u) \ {d} ELSE DeliveredTo(u)
  <2>1. ASSUME NEW e \in Drains
        PROVE  u \in drain'[e].held <=> (u \in drain[e].held /\ ~(e = d /\ u = t))
    BY <1>2
  <2>2. ASSUME NEW e \in Drains, u \in drain'[e].held
        PROVE  drain'[e].left = drain[e].left
    BY <1>2, <2>2
  <2> QED BY <2>1, <2>2 DEF LeasedTo, DeliveredTo
<1>5. /\ [u \in Tasks |-> LeasedTo(u)]' =
           [[u \in Tasks |-> LeasedTo(u)] EXCEPT ![t] = LeasedTo(t) \ {d}]
      /\ [u \in Tasks |-> DeliveredTo(u)]' =
           [[u \in Tasks |-> DeliveredTo(u)] EXCEPT ![t] = DeliveredTo(t) \ {d}]
  BY <1>4
<1>6. d \in [u \in Tasks |-> DeliveredTo(u)][t]
  BY <1>1 DEF DeliveredTo
<1> QED BY <1>3, <1>5, <1>6 DEF Contract!Ack

\* A failed handler, an aging lease and a crash only end leases and deliveries.
LEMMA EndingMaps ==
  ASSUME TypeOK, \/ \E d \in Drains, t \in Tasks : Fail(d, t)
                 \/ \E w \in Workers : Crash(w)
                 \/ Tick
  PROVE  Contract!Lapse
<1>1. ASSUME NEW d \in Drains, NEW t \in Tasks, Fail(d, t) PROVE Contract!Lapse
  <2>1. Held(d, t) /\ Release(d, t) /\ UNCHANGED task
    BY <1>1 DEF Fail
  <2>2. \A u \in Tasks : Present(u)' <=> Present(u)
    BY <2>1 DEF Present
  <2>3. /\ drain'[d].held = drain[d].held \ {t}
        /\ drain'[d].held # {} => drain'[d].left = drain[d].left
        /\ \A e \in Drains \ {d} : drain'[e] = drain[e]
    BY <2>1, ReleaseHeld
  <2> QED BY <2>1, <2>2, <2>3, LapseMaps
<1>2. ASSUME NEW w \in Workers, Crash(w) PROVE Contract!Lapse
  <2>1. /\ UNCHANGED task
        /\ \A d \in Drains : drain'[d] = Idle \/ drain'[d] = drain[d]
    BY <1>2 DEF Crash
  <2>2. Idle.held = {}
    BY DEF Idle
  <2>3. \A u \in Tasks : Present(u)' <=> Present(u)
    BY <2>1 DEF Present
  <2> QED BY <2>1, <2>2, <2>3, LapseMaps
<1>3. CASE Tick
  <2>1. \A t \in Tasks : task'[t].st = task[t].st
    BY <1>3 DEF Tick, TypeOK, Row
  <2>2. \A u \in Tasks : Present(u)' <=> Present(u)
    BY <2>1 DEF Present
  <2>3. ASSUME NEW d \in Drains
        PROVE  drain'[d].held = drain[d].held /\ drain'[d].left = Older(drain[d].left)
    <3>1. drain[d] \in Call
      BY DEF TypeOK
    <3> QED BY <1>3, <3>1 DEF Tick, Call
  <2>4. ASSUME NEW d \in Drains PROVE drain'[d].left >= 0 => drain[d].left >= 0
    <3>1. drain[d].left \in Int
      BY SizesAssumption DEF TypeOK, Call, Floor
    <3> QED BY <2>3, <3>1 DEF Older
  <2> QED BY <2>1, <2>2, <2>3, <2>4, LapseMaps
<1> QED BY <1>1, <1>2, <1>3

\* Until a claim commits, and while a batch is reloaded and driven, nobody gains a task.
LEMMA CallsMap ==
  ASSUME TypeOK, NEW d \in Drains,
         \/ DrainBegin(d) \/ DrainSelect(d) \/ DrainLock(d) \/ DrainOccupancy(d)
         \/ DrainReturn(d) \/ \E t \in Tasks : Drive(d, t)
  PROVE  Contract!Lapse
<1>0. drain[d] \in Call
  BY DEF TypeOK
<1>1. CASE DrainBegin(d)
  <2> DEFINE c == [Idle EXCEPT !.pc = "select",
                               !.limit = EffectiveClaimLimit(inFlight[WorkerOf[d]])]
  <2>1. Continue(d, c) /\ UNCHANGED task /\ c.held = {}
    BY <1>1 DEF DrainBegin, Idle
  <2> HIDE DEF c
  <2> QED BY <2>1, CallMaps
<1>2. CASE DrainSelect(d)
  <2>1. PICK C : /\ UNCHANGED task
                 /\ Continue(d, IF C = {} THEN Idle
                                ELSE [drain[d] EXCEPT !.cands = C, !.pc = "occupancy"])
    BY <1>2 DEF DrainSelect
  <2> DEFINE c == IF C = {} THEN Idle ELSE [drain[d] EXCEPT !.cands = C, !.pc = "occupancy"]
  <2>2. /\ Continue(d, c) /\ c.held \subseteq drain[d].held
        /\ c.held # {} => c.left = drain[d].left
    BY <1>0, <2>1 DEF Call, Idle
  <2> HIDE DEF c
  <2> QED BY <2>1, <2>2, CallMaps
<1>3. CASE DrainLock(d)
  <2>1. PICK p \in Projects : /\ UNCHANGED task
                              /\ Continue(d, [drain[d] EXCEPT !.locks = drain[d].locks \cup {p}])
    BY <1>3 DEF DrainLock
  <2> DEFINE c == [drain[d] EXCEPT !.locks = drain[d].locks \cup {p}]
  <2>2. Continue(d, c) /\ c.held = drain[d].held /\ c.left = drain[d].left
    BY <1>0, <2>1 DEF Call
  <2> HIDE DEF c
  <2> QED BY <2>1, <2>2, CallMaps
<1>4. CASE DrainOccupancy(d)
  <2> DEFINE o == [p \in Projects |-> IF p \in drain[d].locks
                                     THEN Cardinality(Occupants(p, drain[d].age)) ELSE 0]
             c == [drain[d] EXCEPT !.pc = "commit", !.occ = o]
  <2>1. Continue(d, c) /\ UNCHANGED task
    BY <1>4 DEF DrainOccupancy
  <2> HIDE DEF o
  <2>2. c.held = drain[d].held /\ c.left = drain[d].left
    BY <1>0 DEF Call
  <2> HIDE DEF c
  <2> QED BY <2>1, <2>2, CallMaps
<1>5. CASE DrainReturn(d)
  <2> DEFINE B == {t \in drain[d].held : Present(t)}
             c == IF B = {} THEN Idle ELSE [drain[d] EXCEPT !.pc = "drive", !.held = B]
  <2>1. Continue(d, c) /\ UNCHANGED task /\ B \subseteq drain[d].held
    BY <1>5 DEF DrainReturn
  <2> HIDE DEF B
  <2>2. c.held \subseteq drain[d].held /\ (c.held # {} => c.left = drain[d].left)
    BY <1>0, <2>1 DEF Call, Idle
  <2> HIDE DEF c
  <2> QED BY <2>1, <2>2, CallMaps
<1>6. ASSUME NEW t \in Tasks, Drive(d, t) PROVE Contract!Lapse
  <2> DEFINE c == [drain[d] EXCEPT !.driven = drain[d].driven \cup {t}]
  <2>1. Continue(d, c) /\ UNCHANGED task
    BY <1>6 DEF Drive
  <2>2. c.held = drain[d].held /\ c.left = drain[d].left
    BY <1>0 DEF Call
  <2> HIDE DEF c
  <2> QED BY <2>1, <2>2, CallMaps
<1> QED BY <1>1, <1>2, <1>3, <1>4, <1>5, <1>6

\* The queue implements the contract of its drivers: one valid lease per task, no claim of
\* a leased task, and no delivery after the acknowledgement.
THEOREM Implements == Spec => ImplementsContract
<1>1. Init => Contract!Init
  <2> SUFFICES ASSUME Init PROVE Contract!Init
    OBVIOUS
  <2>1. /\ \A t \in Tasks : task[t].st = "unborn"
        /\ \A d \in Drains : drain[d].held = {}
    BY DEF Init, Idle
  <2>2. PresentTasks = {} /\ DoneTasks = {}
    BY <2>1 DEF PresentTasks, DoneTasks, Present
  <2>3. \A t \in Tasks : LeasedTo(t) = {} /\ DeliveredTo(t) = {}
    BY <2>1 DEF LeasedTo, DeliveredTo
  <2> QED BY <2>2, <2>3 DEF Contract!Init
<1>2. IndInv /\ [Next]_vars => [Contract!Next]_(Contract!vars)
  <2> SUFFICES ASSUME IndInv, [Next]_vars PROVE [Contract!Next]_(Contract!vars)
    OBVIOUS
  <2>0. TypeOK /\ PhaseInv /\ RowLocksInv /\ LeaseInv
    BY DEF IndInv, ClaimInv
  <2>1. ASSUME NEW t \in Tasks, Enqueue(t) PROVE Contract!Next
    BY <2>0, <2>1, EnqueueMaps DEF Contract!Next
  <2>2. ASSUME NEW d \in Drains, DrainCommit(d) PROVE Contract!Next
    BY <2>0, <2>2, CommitMaps DEF Contract!Next
  <2>3. ASSUME NEW d \in Drains, NEW t \in Tasks, Ack(d, t) PROVE Contract!Next
    BY <2>0, <2>3, AckMaps DEF Contract!Next
  <2>4. ASSUME Contract!Lapse PROVE Contract!Next
    BY <2>4 DEF Contract!Next
  <2>5. ASSUME UNCHANGED vars PROVE UNCHANGED Contract!vars
    BY <2>5 DEF vars, Contract!vars, PresentTasks, DoneTasks, Present, LeasedTo, DeliveredTo
  <2> QED BY <2>0, <2>1, <2>2, <2>3, <2>4, <2>5, CallsMap, EndingMaps
          DEF Next, DrainStep, HandleStep
<1> QED BY <1>1, <1>2, Invariance, PTL DEF Spec, ImplementsContract, Contract!Spec


(***************************************************************************)
(* The nodes a graph calls for.                                            *)
(***************************************************************************)
LEMMA GraphTyped ==
  ASSUME g \in Graphs
  PROVE  /\ g \in Graph /\ StartNodes \subseteq Nodes
         /\ \A e \in g.edges : /\ e.from \in Nodes /\ e.to \in Nodes
                               /\ e.cond \in Verdicts \cup {"any label"}
                               /\ e.join \in {"none", "any", "all"}
         /\ \A n \in Nodes : /\ g.kind[n] \in Kinds /\ g.verdict[n] \in Verdicts
                             /\ g.verdict[n] \in MayDecide(g.kind[n])
         /\ g.tries \in 1..MaxAttempts
BY GraphsAssumption DEF Graph, Edges, StartNodes

\* What makes a node called for when the nodes of S are.
Called(S, n) ==
  \/ n \in StartNodes
  \/ \E e \in g.edges : /\ e.to = n /\ e.from \in S /\ Followed(e)
                        /\ e.join = "all" => \A f \in Group(e) : f.from \in S

\* Reached is defined by recursion along the edges; that it exists follows from the
\* least set closed under Called.
LEMMA ReachedIsCalled ==
  ASSUME g \in Graphs
  PROVE  \A n \in Nodes : Reached[n] <=> Called({m \in Nodes : Reached[m]}, n)
<1> DEFINE Closed(S) == \A n \in Nodes : Called(S, n) => n \in S
           R == {n \in Nodes : \A S \in SUBSET Nodes : Closed(S) => n \in S}
           T == {n \in Nodes : Called(R, n)}
           F == [n \in Nodes |-> n \in R]
           Body(r) == [n \in Nodes |->
             \/ n \in StartNodes
             \/ \E e \in g.edges : /\ e.to = n /\ r[e.from] /\ Followed(e)
                                   /\ e.join = "all" => \A f \in Group(e) : r[f.from]]
<1>1. ASSUME NEW S, NEW U, S \subseteq U, NEW n, Called(S, n) PROVE Called(U, n)
  BY <1>1 DEF Called
<1>2. ASSUME NEW n \in Nodes, Called(R, n) PROVE n \in R
  <2> SUFFICES ASSUME NEW S \in SUBSET Nodes, Closed(S) PROVE n \in S
    OBVIOUS
  <2>1. R \subseteq S
    OBVIOUS
  <2> HIDE DEF R
  <2>2. Called(S, n)
    BY <2>1, <1>1, <1>2
  <2> QED BY <2>2
<1>3. ASSUME NEW n \in R PROVE Called(R, n)
  <2>1. T \in SUBSET Nodes /\ T \subseteq R
    BY <1>2
  <2>2. Closed(T)
    <3> SUFFICES ASSUME NEW m \in Nodes, Called(T, m) PROVE m \in T
      OBVIOUS
    <3> HIDE DEF R
    <3>1. Called(R, m)
      BY <2>1, <1>1
    <3> QED BY <3>1
  <2>3. n \in T
    BY <2>1, <2>2
  <2> QED BY <2>3
<1>4. \A e \in g.edges : e.from \in Nodes /\ \A d \in Group(e) : d.from \in Nodes
  BY GraphTyped DEF Group
<1>5. F = Body(F)
  <2> SUFFICES ASSUME NEW n \in Nodes PROVE F[n] = Body(F)[n]
    OBVIOUS
  <2>1. n \in R <=> Called(R, n)
    BY <1>2, <1>3
  <2>2. \A m \in Nodes : F[m] <=> m \in R
    OBVIOUS
  <2>3. Body(F)[n] <=> Called(R, n)
    <3> HIDE DEF R, F
    <3> QED BY <2>2, <1>4 DEF Called
  <2>4. Body(F)[n] \in BOOLEAN /\ F[n] \in BOOLEAN
    OBVIOUS
  <2> HIDE DEF R, F, Body
  <2> QED BY <2>1, <2>2, <2>3, <2>4
<1> HIDE DEF F, R
<1>6. Reached = Body(Reached)
  BY <1>5 DEF Reached
<1> SUFFICES ASSUME NEW n \in Nodes
             PROVE  Reached[n] <=> Called({m \in Nodes : Reached[m]}, n)
  OBVIOUS
<1>7. Reached[n] = Body(Reached)[n]
  BY <1>6
<1>8. Body(Reached)[n] <=> Called({m \in Nodes : Reached[m]}, n)
  BY <1>4 DEF Called
<1> QED BY <1>7, <1>8

LEMMA ReachedStart == ASSUME g \in Graphs, NEW n \in StartNodes PROVE Reached[n]
BY ReachedIsCalled, GraphTyped DEF Called

LEMMA ReachedEdge ==
  ASSUME g \in Graphs, NEW e \in g.edges, Reached[e.from], Followed(e),
         e.join = "all" => \A f \in Group(e) : Reached[f.from]
  PROVE  Reached[e.to]
<1>1. e.to \in Nodes /\ e.from \in Nodes /\ \A f \in Group(e) : f.from \in Nodes
  BY GraphTyped DEF Group
<1>2. Called({m \in Nodes : Reached[m]}, e.to)
  BY <1>1 DEF Called
<1> QED BY <1>1, <1>2, ReachedIsCalled

LEMMA ReachedStays == ASSUME g' = g PROVE Reached' = Reached
BY DEF Reached, StartNodes, Group, Followed

(***************************************************************************)
(* The successors of a node: a join has its sources, and a verdict that is *)
(* known leads only to nodes that are called for.                          *)
(***************************************************************************)
JoinedIn(n, past) ==
  \/ \E e \in g.edges : e.to = n /\ e.join \in {"none", "any"}
  \/ \A e \in g.edges : e.to = n => e.from \in past

\* A node that may become active once the nodes of past have completed.
Sound(n, past) == n \in Nodes /\ JoinedIn(n, past) /\ (RefusalsKept => Reached[n])

\* What a driver holds of a completed node is enough to route it.
Known(n, labels, decisions) ==
  /\ labels[n] \in {"none", g.verdict[n]}
  /\ n \in decisions => labels[n] = g.verdict[n]
  /\ n \notin decisions /\ RefusalsKept => g.verdict[n] \notin {"rejected", "blocked"}

LEMMA StartSound ==
  ASSUME g \in Graphs, NEW n \in StartNodes, NEW past
  PROVE  Sound(n, past)
BY ReachedStart, GraphTyped DEF Sound, JoinedIn, StartNodes

LEMMA NextSound ==
  ASSUME g \in Graphs, NEW past, NEW done, done \subseteq past, NEW n \in Nodes, NEW labels,
         NEW decisions, Known(n, labels, decisions),
         RefusalsKept => Reached[n] /\ \A m \in done : Reached[m],
         NEW m \in NextNodes(n, done, labels, decisions)
  PROVE  Sound(m, past)
<1>1. PICK e \in g.edges : /\ e.from = n /\ e.to = m
                           /\ EdgeMet(e, labels[n], n \in decisions)
                           /\ GroupSatisfied(e, done)
  BY DEF NextNodes
<1>2. /\ m \in Nodes /\ e.cond \in Verdicts \cup {"any label"}
      /\ e.join \in {"none", "any", "all"} /\ g.verdict[n] \in Verdicts
      /\ \A f \in g.edges : f.join \in {"none", "any", "all"}
  BY <1>1, GraphTyped
<1>3. JoinedIn(m, past)
  BY <1>1, <1>2 DEF JoinedIn, GroupSatisfied, Group
<1>4. ASSUME RefusalsKept PROVE Reached[m]
  <2>1. Followed(e)
    BY <1>1, <1>2, <1>4 DEF EdgeMet, Known, Followed, Verdicts
  <2>2. e.join = "all" => \A f \in Group(e) : Reached[f.from]
    BY <1>1, <1>4 DEF GroupSatisfied
  <2> QED BY <1>1, <1>4, <2>1, <2>2, ReachedEdge
<1> QED BY <1>2, <1>3, <1>4 DEF Sound

LEMMA SoundLater ==
  ASSUME NEW past, NEW later, past \subseteq later, NEW n, Sound(n, past)
  PROVE  Sound(n, later)
BY DEF Sound, JoinedIn

(***************************************************************************)
(* What a step leaves of the graph.                                        *)
(***************************************************************************)
LEMMA GraphStays ==
  ASSUME g' = g, crashes \in Nat, crashes' \in Nat, crashes' >= crashes
  PROVE  /\ RefusalsKept' => RefusalsKept
         /\ InOneGo' => InOneGo
         /\ \A n \in Nodes : (Keyed(n)' <=> Keyed(n)) /\ Reached'[n] = Reached[n]
         /\ \A a : MayRetry(a)' <=> MayRetry(a)
         /\ \A w : Waitable(w)' <=> Waitable(w)
         /\ \A S : Parked(S)' <=> Parked(S)
<1>1. Reached' = Reached
  BY ReachedStays
<1>2. InOneGo' => InOneGo
  BY DEF InOneGo
<1>3. RefusalsKept' => RefusalsKept
  BY <1>2 DEF RefusalsKept
<1> QED BY <1>1, <1>2, <1>3 DEF Keyed, MayRetry, Waitable, Parked

LEMMA SoundStays ==
  ASSUME g' = g, crashes \in Nat, crashes' \in Nat, crashes' >= crashes,
         NEW n, Sound(n, finished')
  PROVE  Joined(n)' /\ (RefusalsKept' => Reached'[n])
BY GraphStays DEF Sound, JoinedIn, Joined

\* What is in hand has its sources and is called for.
LEMMA PendingSound ==
  ASSUME WalkTypeOK, RecordInv, NEW n \in Pending
  PROVE  Sound(n, finished)
<1>1. n \in Nodes
  BY DEF WalkTypeOK, Pending, Driver, RunRow
<1> QED BY <1>1 DEF Sound, JoinedIn, RecordInv, Joined

LEMMA FinishedReached ==
  ASSUME RecordInv, RefusalsKept, NEW n \in finished
  PROVE  Reached[n]
BY DEF RecordInv

(***************************************************************************)
(* The memory of the driver.                                               *)
(***************************************************************************)
LEMMA DriverFields ==
  ASSUME NEW d \in Driver
  PROVE  /\ d.pc \in {"none", "round", "settle", "nap"} /\ d.inline \in BOOLEAN
         /\ d.done \subseteq Nodes /\ d.arts \subseteq Nodes
         /\ d.activated \subseteq Nodes /\ d.active \subseteq Nodes
         /\ d.labels \in [Nodes -> Verdicts \cup {"none"}]
         /\ d.attempt \in [Nodes -> Attempts] /\ d.result \in [Nodes -> Results]
         /\ d.outcome \in {"none", "succeeded", "failed", "awaiting_input", "sleeping"}
         /\ d.wait.node \in Nodes \cup {0} /\ d.wait.attempt \in 0..MaxAttempts
BY DEF Driver

\* A driver that has just entered the loop.
Entered(d, active, done, arts, labels) ==
  /\ d \in Driver /\ d.pc = "round" /\ d.outcome = "none" /\ d.wait = NoWait
  /\ d.done = done /\ d.arts = arts /\ d.labels = labels
  /\ d.activated = active /\ d.active = active \ done
  /\ \A n \in Nodes : d.result[n] = "none"

LEMMA NobodyTyped ==
  /\ Nobody \in Driver /\ Nobody.pc = "none" /\ Nobody.outcome = "none"
  /\ Nobody.wait = NoWait /\ NoWait.node = 0
  /\ Nobody.active = {} /\ Nobody.done = {} /\ Nobody.arts = {} /\ Nobody.activated = {}
  /\ \A n \in Nodes : Nobody.result[n] = "none" /\ Nobody.labels[n] = "none"
  /\ NoLabels \in [Nodes -> Verdicts \cup {"none"}]
<1>1. 1 \in Attempts /\ NoWait \in [node: Nodes \cup {0}, attempt: 0..MaxAttempts]
  BY BoundsAssumption DEF Attempts, NoWait
<1> QED BY <1>1 DEF Nobody, Driver, Results, NoLabels, NoWait

LEMMA EntryEntered ==
  ASSUME NEW active \in SUBSET Nodes, NEW done \in SUBSET Nodes, NEW arts \in SUBSET Nodes,
         NEW labels \in [Nodes -> Verdicts \cup {"none"}], NEW inline \in BOOLEAN
  PROVE  Entered(Entry(active, done, arts, labels, inline), active, done, arts, labels)
<1>1. 1 \in Attempts /\ NoWait \in [node: Nodes \cup {0}, attempt: 0..MaxAttempts]
  BY BoundsAssumption DEF Attempts, NoWait
<1> QED BY <1>1 DEF Entry, Entered, Nobody, Driver, Results

\* The attempt a retry goes on with.
LEMMA EntryWithAttempt ==
  ASSUME NEW active, NEW done, NEW arts, NEW labels, NEW d,
         Entered(d, active, done, arts, labels), NEW n \in Nodes, NEW a \in Attempts
  PROVE  Entered([d EXCEPT !.attempt[n] = a], active, done, arts, labels)
<1> DEFINE attempt == [d.attempt EXCEPT ![n] = a]
<1>1. attempt \in [Nodes -> Attempts]
  BY DEF Entered, Driver
<1>2. [d EXCEPT !.attempt[n] = a] = [d EXCEPT !.attempt = attempt]
  OBVIOUS
<1> HIDE DEF attempt
<1> QED BY <1>1, <1>2 DEF Entered, Driver

\* A step that gives a node its result.
LEMMA PutStep ==
  ASSUME drv \in Driver, NEW n \in Nodes, NEW r \in Results, Put(n, r)
  PROVE  /\ drv' \in Driver /\ drv'.result[n] = r
         /\ \A m \in Nodes \ {n} : drv'.result[m] = drv.result[m]
         /\ drv'.pc = drv.pc /\ drv'.outcome = drv.outcome /\ drv'.wait = drv.wait
         /\ drv'.done = drv.done /\ drv'.arts = drv.arts /\ drv'.labels = drv.labels
         /\ drv'.activated = drv.activated /\ drv'.active = drv.active
         /\ drv'.attempt = drv.attempt
<1> DEFINE result == [drv.result EXCEPT ![n] = r]
<1>1. /\ result \in [Nodes -> Results] /\ result[n] = r
      /\ \A m \in Nodes \ {n} : result[m] = drv.result[m]
  BY DriverFields
<1>2. drv' = [drv EXCEPT !.result = result]
  BY DEF Put
<1> HIDE DEF result
<1> QED BY <1>1, <1>2 DEF Driver

(***************************************************************************)
(* The inductive invariant.                                                *)
(***************************************************************************)
Walk == g \in Graphs /\ WalkTypeOK /\ ResultInv /\ RestInv /\ RecordInv /\ OneGoInv

\* The types, named for the steps.
LEMMA Typed ==
  ASSUME WalkTypeOK
  PROVE  /\ run \in RunRow /\ run.active \subseteq Nodes /\ run.arts \subseteq Nodes
         /\ run.wait \in [node: Nodes \cup {0}, attempt: 0..MaxAttempts]
         /\ run.wait.node \in Nodes \cup {0} /\ run.wait.attempt \in 0..MaxAttempts
         /\ ckpt \subseteq Nodes /\ finished \subseteq Nodes /\ drv \in Driver
         /\ crashes \in Nat
BY BoundsAssumption DEF WalkTypeOK, RunRow

(***************************************************************************)
(* An entry of the loop: a run that starts, wakes, resumes or is driven    *)
(* again.                                                                  *)
(***************************************************************************)
LEMMA EntryStep ==
  ASSUME Walk, NEW active \in SUBSET Nodes, NEW done \in SUBSET Nodes,
         NEW arts \in SUBSET Nodes, NEW labels \in [Nodes -> Verdicts \cup {"none"}],
         Entered(drv', active, done, arts, labels),
         \A n \in Nodes : labels[n] \in {"none", g.verdict[n]},
         UNCHANGED <<g, ckpt, key, fired, crashes>>,
         run' \in RunRow, run'.status = "running", run'.wait = run.wait,
         run'.arts = run.arts, run'.active \subseteq run.active \cup active,
         finished \subseteq finished', finished' \subseteq Nodes,
         done \cup arts \subseteq finished',
         \A n \in active : Sound(n, finished'),
         RefusalsKept => \A n \in finished' : Reached[n],
         InOneGo => \A n \in Nodes, a \in Attempts : key[n][a] = "none"
  PROVE  Walk'
<1>0. g \in Graphs /\ WalkTypeOK /\ ResultInv /\ RestInv /\ RecordInv /\ OneGoInv
  BY DEF Walk
<1>1. /\ drv' \in Driver /\ drv'.pc = "round" /\ drv'.outcome = "none" /\ drv'.wait = NoWait
      /\ drv'.done = done /\ drv'.arts = arts /\ drv'.labels = labels
      /\ drv'.activated = active /\ drv'.active = active \ done
      /\ \A n \in Nodes : drv'.result[n] = "none"
  BY DEF Entered
<1>2. g' = g /\ crashes' = crashes /\ crashes \in Nat /\ crashes' >= crashes
  BY <1>0, Typed
<1>3. WalkTypeOK'
  BY <1>0, <1>1 DEF WalkTypeOK
<1>4. ResultInv'
  BY <1>1 DEF ResultInv
<1>5. RestInv'
  BY <1>1 DEF RestInv
<1>6. RecordInv'
  <2>1. Pending' \subseteq Pending \cup active
    BY <1>1, NobodyTyped DEF Pending
  <2>2. \A n \in Pending' : Joined(n)' /\ (RefusalsKept' => Reached'[n])
    <3> SUFFICES ASSUME NEW n \in Pending' PROVE Joined(n)' /\ (RefusalsKept' => Reached'[n])
      OBVIOUS
    <3>1. Sound(n, finished')
      BY <2>1, <1>0, PendingSound, SoundLater
    <3> QED BY <3>1, <1>2, SoundStays
  <2>3. RefusalsKept' => \A n \in finished' : Reached'[n]
    BY <1>2, GraphStays
  <2>4. drv'.done \cup drv'.arts \cup run'.arts \cup ckpt' \subseteq finished'
    BY <1>0, <1>1 DEF RecordInv
  <2>5. \A n \in Nodes, a \in Attempts : key'[n][a] = "completed" => n \in finished'
    BY <1>0 DEF RecordInv
  <2>6. \A n \in Nodes : drv'.labels[n] \in {"none", g'.verdict[n]}
    BY <1>1
  <2> QED BY <2>2, <2>3, <2>4, <2>5, <2>6 DEF RecordInv
<1>7. OneGoInv'
  <2>1. InOneGo' => InOneGo
    BY <1>2, GraphStays
  <2> QED BY <1>1, <2>1 DEF OneGoInv
<1> QED BY <1>0, <1>3, <1>4, <1>5, <1>6, <1>7 DEF Walk

\* What a node decides says of what kind it is.
LEMMA VerdictOf ==
  ASSUME g \in Graphs, NEW n \in Nodes
  PROVE  /\ g.verdict[n] = "blocked" => g.kind[n] = "tool"
         /\ g.verdict[n] = "rejected" => g.kind[n] = "approval"
         /\ g.verdict[n] \in Verdicts
BY GraphTyped DEF MayDecide

LEMMA NextNodesTyped ==
  ASSUME g \in Graphs, NEW n, NEW done, NEW labels, NEW decisions
  PROVE  NextNodes(n, done, labels, decisions) \in SUBSET Nodes
BY GraphTyped DEF NextNodes

\* A node without a label routes by its plain edges if it can only go through.
LEMMA KnownUnlabelled ==
  ASSUME g \in Graphs, NEW n \in Nodes,
         RefusalsKept => g.verdict[n] \notin {"rejected", "blocked"}
  PROVE  Known(n, NoLabels, {})
BY DEF Known, NoLabels

LEMMA StartKeepsWalk == ASSUME Walk, Start PROVE Walk'
<1>0. g \in Graphs /\ WalkTypeOK /\ RestInv /\ RecordInv /\ OneGoInv
  BY DEF Walk
<1>1. PICK inline \in BOOLEAN : drv' = Entry(StartNodes, {}, {}, NoLabels, inline)
  BY DEF Start
<1>2. StartNodes \in SUBSET Nodes /\ {} \in SUBSET Nodes
      /\ NoLabels \in [Nodes -> Verdicts \cup {"none"}]
      /\ \A n \in Nodes : NoLabels[n] = "none"
  BY <1>0, GraphTyped, NobodyTyped DEF NoLabels
<1>3. Entered(drv', StartNodes, {}, {}, NoLabels)
  BY <1>1, <1>2, EntryEntered
<1>4. /\ run' = [run EXCEPT !.status = "running"] /\ run.status = "queued"
      /\ UNCHANGED <<g, ckpt, key, fired, crashes>> /\ finished' = finished
  BY DEF Start
<1>5. /\ run' \in RunRow /\ run'.status = "running" /\ run'.wait = run.wait
      /\ run'.arts = run.arts /\ run'.active = run.active
  BY <1>0, <1>4 DEF WalkTypeOK, RunRow
<1>6. \A n \in StartNodes : Sound(n, finished')
  BY <1>0, StartSound
<1>7. RefusalsKept => \A n \in finished' : Reached[n]
  BY <1>0, <1>4, FinishedReached
<1>8. InOneGo => \A n \in Nodes, a \in Attempts : key[n][a] = "none"
  BY <1>0, <1>4 DEF OneGoInv
<1>9. finished \subseteq finished' /\ finished' \subseteq Nodes
  BY <1>0, <1>4 DEF WalkTypeOK
<1> QED BY <1>2, <1>3, <1>4, <1>5, <1>6, <1>7, <1>8, <1>9, EntryStep

\* A delay that elapsed is complete; a retry executes its node again.
LEMMA AfterWaitStep ==
  ASSUME Walk, ~InOneGo, NEW w, Waitable(w), w.attempt \in 0..MaxAttempts,
         w.node \in Pending, NEW arts, arts \subseteq finished, NEW inline \in BOOLEAN,
         drv' = AfterWait(w, arts, inline), FinishWait(w),
         UNCHANGED <<g, ckpt, key, fired, crashes>>,
         run' \in RunRow, run'.status = "running", run'.wait = run.wait,
         run'.arts = run.arts, run'.active = run.active
  PROVE  Walk'
<1>0. g \in Graphs /\ WalkTypeOK /\ RestInv /\ RecordInv /\ OneGoInv
  BY DEF Walk
<1>1. /\ w.node \in Nodes /\ finished \subseteq Nodes /\ arts \in SUBSET Nodes
      /\ NoLabels \in [Nodes -> Verdicts \cup {"none"}]
      /\ \A n \in Nodes : NoLabels[n] = "none"
  BY <1>0, NobodyTyped DEF Waitable, WalkTypeOK, NoLabels
<1>2. Sound(w.node, finished)
  BY <1>0, PendingSound
<1>3. RefusalsKept => \A n \in finished : Reached[n]
  BY <1>0, FinishedReached
<1>4. CASE w.attempt = 0
  <2> DEFINE done == arts \cup {w.node}
             next == NextNodes(w.node, done, NoLabels, {})
  <2>1. drv' = Entry(next, done, done, NoLabels, inline) /\ finished' = finished \cup {w.node}
    BY <1>4 DEF AfterWait, FinishWait
  <2>2. done \in SUBSET Nodes /\ next \in SUBSET Nodes /\ done \subseteq finished'
    BY <1>0, <1>1, <2>1, NextNodesTyped
  <2>3. Entered(drv', next, done, done, NoLabels)
    BY <1>1, <2>1, <2>2, EntryEntered
  <2>4. Known(w.node, NoLabels, {})
    BY <1>0, <1>1, <1>4, VerdictOf, KnownUnlabelled DEF Waitable
  <2>5. RefusalsKept => Reached[w.node] /\ \A n \in finished' : Reached[n]
    BY <1>2, <1>3, <2>1 DEF Sound
  <2> HIDE DEF done
  <2>6. ASSUME NEW n \in next PROVE Sound(n, finished')
    BY <1>0, <1>1, <2>2, <2>4, <2>5, <2>6, NextSound
  <2> HIDE DEF next
  <2>7. finished \subseteq finished' /\ finished' \subseteq Nodes /\ done \cup done \subseteq finished'
    BY <1>1, <2>1, <2>2
  <2> QED BY <1>1, <2>2, <2>3, <2>5, <2>6, <2>7, EntryStep
<1>5. CASE w.attempt # 0
  <2> DEFINE entry == Entry({w.node}, arts, arts, NoLabels, inline)
  <2>1. drv' = [entry EXCEPT !.attempt[w.node] = w.attempt] /\ finished' = finished
    BY <1>5 DEF AfterWait, FinishWait
  <2>2. w.attempt \in Attempts /\ {w.node} \in SUBSET Nodes
    BY <1>1, <1>5, BoundsAssumption DEF Attempts
  <2>3. Entered(entry, {w.node}, arts, arts, NoLabels)
    BY <1>1, <2>2, EntryEntered
  <2> HIDE DEF entry
  <2>4. Entered(drv', {w.node}, arts, arts, NoLabels)
    BY <1>1, <2>1, <2>2, <2>3, EntryWithAttempt
  <2> QED BY <1>1, <1>2, <1>3, <2>1, <2>2, <2>4, EntryStep
<1> QED BY <1>4, <1>5

LEMMA WakeKeepsWalk == ASSUME Walk, Wake PROVE Walk'
<1>0. g \in Graphs /\ WalkTypeOK /\ RestInv /\ RecordInv /\ OneGoInv
  BY DEF Walk
<1>1. /\ run' = [run EXCEPT !.status = "running"] /\ run.status = "sleeping"
      /\ UNCHANGED <<g, ckpt, key, fired, crashes>>
      /\ drv' = AfterWait(run.wait, run.arts \cup ckpt, FALSE) /\ FinishWait(run.wait)
  BY DEF Wake
<1>2. /\ run' \in RunRow /\ run'.status = "running" /\ run'.wait = run.wait
      /\ run'.arts = run.arts /\ run'.active = run.active
  BY <1>0, <1>1 DEF WalkTypeOK, RunRow
<1>3. ~InOneGo /\ Waitable(run.wait) /\ run.wait.attempt \in 0..MaxAttempts
  BY <1>0, <1>1, Typed DEF OneGoInv, RestInv
<1>4. run.wait.node \in Pending
  BY <1>3, GraphsAssumption DEF Pending, Waitable
<1>5. run.arts \cup ckpt \subseteq finished
  BY <1>0 DEF RecordInv
<1> QED BY <1>1, <1>2, <1>3, <1>4, <1>5, AfterWaitStep

LEMMA NapOverKeepsWalk == ASSUME Walk, NapOver PROVE Walk'
<1>0. g \in Graphs /\ WalkTypeOK /\ RestInv /\ RecordInv /\ OneGoInv
  BY DEF Walk
<1>1. /\ drv.pc = "nap" /\ UNCHANGED <<g, run, ckpt, key, fired, crashes>>
      /\ drv' = AfterWait(drv.wait, drv.arts, TRUE) /\ FinishWait(drv.wait)
  BY DEF NapOver
<1>2. /\ run' \in RunRow /\ run'.status = "running" /\ run'.wait = run.wait
      /\ run'.arts = run.arts /\ run'.active = run.active
  BY <1>0, <1>1 DEF WalkTypeOK, RestInv
<1>3. ~InOneGo /\ Waitable(drv.wait) /\ drv.wait.attempt \in 0..MaxAttempts
  BY <1>0, <1>1, DriverFields DEF OneGoInv, RestInv, WalkTypeOK
<1>4. drv.wait.node \in Pending
  BY <1>3, GraphsAssumption DEF Pending, Waitable
<1>5. drv.arts \subseteq finished
  BY <1>0 DEF RecordInv
<1> QED BY <1>1, <1>2, <1>3, <1>4, <1>5, AfterWaitStep

LEMMA RedriveKeepsWalk == ASSUME Walk, Redrive PROVE Walk'
<1>0. g \in Graphs /\ WalkTypeOK /\ RestInv /\ RecordInv /\ OneGoInv
  BY DEF Walk
<1> DEFINE arts == run.arts \cup ckpt
           active == RedriveFrontier(arts) \ arts
<1>1. /\ run.status = "running" /\ drv.pc = "none"
      /\ UNCHANGED <<g, run, ckpt, key, fired, finished, crashes>>
      /\ drv' = Entry(active, arts, arts, NoLabels, FALSE)
  BY DEF Redrive
<1>2. arts \in SUBSET Nodes /\ arts \subseteq finished
  BY <1>0, Typed DEF RecordInv
<1>3. /\ NoLabels \in [Nodes -> Verdicts \cup {"none"}]
      /\ \A n \in Nodes : NoLabels[n] = "none"
  BY NobodyTyped DEF NoLabels
<1>4. ~InOneGo /\ (RefusalsKept => \A n \in Nodes : g.verdict[n] \notin {"rejected", "blocked"})
  BY <1>0, <1>1 DEF RestInv, InOneGo, RefusalsKept, WalkTypeOK
<1>5. RefusalsKept => \A n \in finished : Reached[n]
  BY <1>0, FinishedReached
<1> HIDE DEF arts
<1>6. ASSUME NEW n \in RedriveFrontier(arts) PROVE Sound(n, finished)
  <2>1. CASE n \in StartNodes
    BY <1>0, <2>1, StartSound
  <2>2. CASE \E m \in arts : n \in NextNodes(m, arts, NoLabels, {})
    <3>1. PICK m \in arts : n \in NextNodes(m, arts, NoLabels, {})
      BY <2>2
    <3>2. m \in Nodes /\ Known(m, NoLabels, {})
      BY <1>0, <1>2, <1>4, KnownUnlabelled
    <3>3. RefusalsKept => Reached[m] /\ \A k \in arts : Reached[k]
      BY <1>2, <1>5
    <3> QED BY <1>0, <1>2, <3>1, <3>2, <3>3, NextSound
  <2>3. n \in StartNodes \/ \E m \in arts : n \in NextNodes(m, arts, NoLabels, {})
    BY <1>6 DEF RedriveFrontier
  <2> QED BY <2>1, <2>2, <2>3
<1>7. active \in SUBSET Nodes /\ \A n \in active : Sound(n, finished)
  BY <1>6 DEF Sound
<1> HIDE DEF active
<1>8. Entered(drv', active, arts, arts, NoLabels)
  BY <1>1, <1>2, <1>3, <1>7, EntryEntered
<1>9. /\ run' \in RunRow /\ run'.status = "running" /\ run'.wait = run.wait
      /\ run'.arts = run.arts /\ run'.active = run.active
      /\ finished \subseteq finished' /\ finished' \subseteq Nodes
      /\ arts \cup arts \subseteq finished'
  BY <1>0, <1>1, <1>2 DEF WalkTypeOK
<1>10. UNCHANGED <<g, ckpt, key, fired, crashes>>
  BY <1>1
<1>11. \A m \in Nodes : NoLabels[m] \in {"none", g.verdict[m]}
  BY <1>3
<1>12. InOneGo => \A m \in Nodes, a \in Attempts : key[m][a] = "none"
  BY <1>4
<1>13. RefusalsKept => \A n \in finished' : Reached[n]
  BY <1>1, <1>5
<1>14. \A n \in active : Sound(n, finished')
  BY <1>1, <1>7
<1> QED BY <1>2, <1>3, <1>7, <1>8, <1>9, <1>10, <1>11, <1>12, <1>13, <1>14, EntryStep

LEMMA ReenterKeepsWalk == ASSUME Walk, Reenter PROVE Walk'
<1>0. g \in Graphs /\ WalkTypeOK /\ RestInv /\ RecordInv /\ OneGoInv
  BY DEF Walk
<1> DEFINE arts == run.arts \cup ckpt
<1>1. /\ run.status = "awaiting_input" /\ run' = [run EXCEPT !.status = "running"]
      /\ UNCHANGED <<g, ckpt, key, fired, finished, crashes>>
      /\ drv' = Entry(run.active, arts, arts, NoLabels, TRUE)
  BY DEF Reenter
<1>2. arts \in SUBSET Nodes /\ arts \subseteq finished /\ run.active \in SUBSET Nodes
  BY <1>0, Typed DEF RecordInv
<1>3. /\ NoLabels \in [Nodes -> Verdicts \cup {"none"}]
      /\ \A n \in Nodes : NoLabels[n] = "none"
  BY NobodyTyped DEF NoLabels
<1> HIDE DEF arts
<1>4. Entered(drv', run.active, arts, arts, NoLabels)
  BY <1>1, <1>2, <1>3, EntryEntered
<1>5. /\ run' \in RunRow /\ run'.status = "running" /\ run'.wait = run.wait
      /\ run'.arts = run.arts /\ run'.active = run.active
  BY <1>0, <1>1 DEF WalkTypeOK, RunRow
<1>6. \A n \in run.active : Sound(n, finished')
  BY <1>0, <1>1, PendingSound DEF Pending
<1>7. /\ RefusalsKept => \A n \in finished' : Reached[n]
      /\ ~InOneGo /\ finished \subseteq finished' /\ finished' \subseteq Nodes
      /\ arts \cup arts \subseteq finished'
  BY <1>0, <1>1, <1>2, FinishedReached DEF OneGoInv, WalkTypeOK
<1>8. UNCHANGED <<g, ckpt, key, fired, crashes>>
  BY <1>1
<1>9. \A m \in Nodes : NoLabels[m] \in {"none", g.verdict[m]}
  BY <1>3
<1>10. InOneGo => \A m \in Nodes, a \in Attempts : key[m][a] = "none"
  BY <1>7
<1> QED BY <1>2, <1>3, <1>4, <1>5, <1>6, <1>7, <1>8, <1>9, <1>10, EntryStep

LEMMA ResumeKeepsWalk == ASSUME Walk, NEW n \in Nodes, Resume(n) PROVE Walk'
<1>0. g \in Graphs /\ WalkTypeOK /\ RestInv /\ RecordInv /\ OneGoInv
  BY DEF Walk
<1> DEFINE arts == run.arts \cup ckpt \cup {n}
           labels == ResumeLabels(n)
           next == NextNodes(n, arts, labels, ApprovalNodes)
<1>1. /\ run.status = "awaiting_input" /\ n \in run.active
      /\ run' = [run EXCEPT !.status = "running", !.active = next]
      /\ UNCHANGED <<g, ckpt, key, fired, crashes>> /\ finished' = finished \cup {n}
      /\ drv' = Entry(next, arts, arts, labels, TRUE)
  BY DEF Resume
<1>2. arts \in SUBSET Nodes /\ arts \subseteq finished' /\ finished \subseteq finished'
      /\ finished' \subseteq Nodes
  BY <1>0, <1>1, Typed DEF RecordInv
<1>3. g.kind[n] \in {"human", "approval"} /\ ~InOneGo
  BY <1>0, <1>1 DEF RestInv, Parked, OneGoInv
<1>4. /\ labels \in [Nodes -> Verdicts \cup {"none"}]
      /\ \A m \in Nodes : labels[m] \in {"none", g.verdict[m]}
      /\ n \in ApprovalNodes => labels[n] = g.verdict[n]
  <2>1. g.verdict[n] \in Verdicts /\ NoLabels \in [Nodes -> Verdicts \cup {"none"}]
        /\ \A m \in Nodes : NoLabels[m] = "none"
    BY <1>0, VerdictOf, NobodyTyped DEF NoLabels
  <2> QED BY <2>1 DEF ResumeLabels, ApprovalNodes
<1>5. Known(n, labels, ApprovalNodes)
  BY <1>0, <1>3, <1>4, VerdictOf DEF Known, ApprovalNodes
<1>6. Sound(n, finished)
  BY <1>0, <1>1, PendingSound DEF Pending
<1>7. RefusalsKept => Reached[n] /\ \A m \in finished' : Reached[m]
  BY <1>0, <1>1, <1>6, FinishedReached DEF Sound
<1> HIDE DEF arts, labels
<1>8. next \in SUBSET Nodes
  BY <1>0, NextNodesTyped
<1>9. ASSUME NEW m \in next PROVE Sound(m, finished')
  BY <1>0, <1>2, <1>5, <1>7, <1>9, NextSound
<1> HIDE DEF next
<1>10. Entered(drv', next, arts, arts, labels)
  BY <1>1, <1>2, <1>4, <1>8, EntryEntered
<1>11. /\ run' \in RunRow /\ run'.status = "running" /\ run'.wait = run.wait
       /\ run'.arts = run.arts /\ run'.active \subseteq run.active \cup next
       /\ arts \cup arts \subseteq finished'
  BY <1>0, <1>1, <1>2, <1>8 DEF WalkTypeOK, RunRow
<1>12. UNCHANGED <<g, ckpt, key, fired, crashes>>
  BY <1>1
<1>13. InOneGo => \A m \in Nodes, a \in Attempts : key[m][a] = "none"
  BY <1>3
<1>14. RefusalsKept => \A m \in finished' : Reached[m]
  BY <1>7
<1> QED BY <1>2, <1>4, <1>8, <1>9, <1>10, <1>11, <1>12, <1>13, <1>14, EntryStep

(***************************************************************************)
(* A node of the round gets its result.                                    *)
(***************************************************************************)
\* What a result says of the node, of its record k at attempt a and of those of the past.
Says(n, r, k, a, past) ==
  /\ r \in {"dispatched", "fired"} => Keyed(n) /\ k = "running"
  /\ r = "fired" => g.verdict[n] # "blocked"
  /\ r = "artifact" => g.kind[n] \in {"plain", "effect", "tool"}
  /\ r = "label" => g.kind[n] = "condition"
  /\ r = "blocked" => g.kind[n] = "tool" /\ g.verdict[n] = "blocked"
  /\ r \in {"artifact", "label", "blocked"} => n \in past
  /\ r = "delay" => g.kind[n] = "delay"
  /\ r = "requires_action" => g.kind[n] \in {"human", "approval"}
  /\ r = "retry" => MayRetry(a)

LEMMA ResultSays ==
  ASSUME ResultInv, NEW n \in Nodes
  PROVE  /\ drv.result[n] # "none" => n \in drv.active /\ drv.pc # "none"
         /\ Says(n, drv.result[n], key[n][drv.attempt[n]], drv.attempt[n], finished)
BY DEF ResultInv, Says

KeyStatus == {"none", "running", "failed", "completed"}

LEMMA SetKeyStep ==
  ASSUME WalkTypeOK, NEW n \in Nodes, NEW s \in KeyStatus, SetKey(n, s)
  PROVE  /\ key' \in [Nodes -> [Attempts -> KeyStatus]] /\ key'[n][drv.attempt[n]] = s
         /\ \A m \in Nodes, a \in Attempts :
              key'[m][a] = key[m][a] \/ (m = n /\ a = drv.attempt[n])
<1>1. key \in [Nodes -> [Attempts -> KeyStatus]] /\ drv.attempt[n] \in Attempts
  BY DriverFields DEF WalkTypeOK, KeyStatus
<1> DEFINE row == [key[n] EXCEPT ![drv.attempt[n]] = s]
<1>2. /\ row \in [Attempts -> KeyStatus] /\ row[drv.attempt[n]] = s
      /\ \A a \in Attempts : row[a] = key[n][a] \/ a = drv.attempt[n]
  BY <1>1
<1>3. key' = [key EXCEPT ![n] = row]
  BY DEF SetKey
<1> HIDE DEF row
<1> QED BY <1>1, <1>2, <1>3

LEMMA ResultStep ==
  ASSUME Walk, NEW n \in Nodes, n \in drv.active, drv.pc = "round",
         NEW r \in Results \ {"none"}, Put(n, r), UNCHANGED <<g, run, ckpt, crashes>>,
         key' \in [Nodes -> [Attempts -> KeyStatus]], fired' \in [Nodes -> [Attempts -> Nat]],
         \A m \in Nodes, a \in Attempts :
           key'[m][a] = key[m][a] \/ (m = n /\ a = drv.attempt[n]),
         finished \subseteq finished', finished' \subseteq finished \cup {n},
         key'[n][drv.attempt[n]] = "completed" => n \in finished',
         Says(n, r, key'[n][drv.attempt[n]], drv.attempt[n], finished'),
         r = "artifact" /\ InOneGo => g.verdict[n] # "blocked"
  PROVE  Walk'
<1>0. g \in Graphs /\ WalkTypeOK /\ ResultInv /\ RestInv /\ RecordInv /\ OneGoInv
  BY DEF Walk
<1>1. /\ drv' \in Driver /\ drv'.result[n] = r
      /\ \A m \in Nodes \ {n} : drv'.result[m] = drv.result[m]
      /\ drv'.pc = drv.pc /\ drv'.outcome = drv.outcome /\ drv'.wait = drv.wait
      /\ drv'.done = drv.done /\ drv'.arts = drv.arts /\ drv'.labels = drv.labels
      /\ drv'.activated = drv.activated /\ drv'.active = drv.active
      /\ drv'.attempt = drv.attempt
  BY <1>0, PutStep DEF WalkTypeOK
<1>2. g' = g /\ crashes' = crashes /\ crashes \in Nat /\ crashes' >= crashes /\ run' = run
  BY <1>0, Typed
<1>3. WalkTypeOK'
  BY <1>0, <1>1, <1>2 DEF WalkTypeOK, KeyStatus
<1>4. ResultInv'
  <2>1. ASSUME NEW m \in Nodes
        PROVE  Says(m, drv'.result[m], key'[m][drv'.attempt[m]], drv'.attempt[m], finished')
    <3>1. CASE m = n
      BY <1>1, <3>1
    <3>2. CASE m # n
      <4>1. Says(m, drv.result[m], key[m][drv.attempt[m]], drv.attempt[m], finished)
        BY <1>0, ResultSays
      <4>2. key'[m][drv'.attempt[m]] = key[m][drv.attempt[m]]
        BY <1>0, <1>1, <3>2, DriverFields DEF WalkTypeOK
      <4>3. drv'.result[m] = drv.result[m] /\ drv'.attempt[m] = drv.attempt[m]
        BY <1>1, <3>2
      <4> QED BY <4>1, <4>2, <4>3 DEF Says
    <3> QED BY <3>1, <3>2
  <2>2. ASSUME NEW m \in Nodes, drv'.result[m] # "none"
        PROVE  m \in drv'.active /\ drv'.pc # "none"
    BY <1>0, <1>1, <2>2, ResultSays
  <2>3. \A m \in Nodes : Keyed(m)' <=> Keyed(m)
    BY <1>2, GraphStays
  <2>4. \A a : MayRetry(a)' <=> MayRetry(a)
    BY <1>2, GraphStays
  <2> QED BY <1>2, <2>1, <2>2, <2>3, <2>4 DEF ResultInv, Says
<1>5. RestInv'
  BY <1>0, <1>1, <1>2, GraphStays DEF RestInv
<1>6. RecordInv'
  <2>1. Pending' = Pending /\ n \in Pending
    BY <1>1, <1>2 DEF Pending
  <2>2. \A m \in Pending : Sound(m, finished')
    BY <1>0, PendingSound, SoundLater
  <2>3. \A m \in Pending' : Joined(m)' /\ (RefusalsKept' => Reached'[m])
    BY <1>2, <2>1, <2>2, SoundStays
  <2>4. RefusalsKept' => \A m \in finished' : Reached'[m]
    <3>1. RefusalsKept => \A m \in finished' : Reached[m]
      BY <1>0, <2>1, <2>2, FinishedReached DEF Sound
    <3>2. finished' \subseteq Nodes
      BY <1>3 DEF WalkTypeOK
    <3> QED BY <1>2, <3>1, <3>2, GraphStays
  <2>5. drv'.done \cup drv'.arts \cup run'.arts \cup ckpt' \subseteq finished'
    BY <1>0, <1>1, <1>2 DEF RecordInv
  <2>6. \A m \in Nodes, a \in Attempts : key'[m][a] = "completed" => m \in finished'
    BY <1>0 DEF RecordInv
  <2>7. \A m \in Nodes : drv'.labels[m] \in {"none", g'.verdict[m]}
    BY <1>0, <1>1, <1>2 DEF RecordInv
  <2> QED BY <2>3, <2>4, <2>5, <2>6, <2>7 DEF RecordInv
<1>7. OneGoInv'
  <2> SUFFICES ASSUME InOneGo PROVE OneGoInv'
    BY <1>2, GraphStays DEF OneGoInv
  <2>1. /\ run'.status \notin {"sleeping", "awaiting_input"}
        /\ drv'.outcome \notin {"sleeping", "awaiting_input"}
        /\ drv'.active \subseteq drv'.activated
    BY <1>0, <1>1, <1>2 DEF OneGoInv
  <2>2. \A m \in Nodes : drv'.result[m] = "artifact" => g'.verdict[m] # "blocked"
    BY <1>0, <1>1, <1>2 DEF OneGoInv
  <2>3. ASSUME NEW m \in Nodes, NEW a \in Attempts, key'[m][a] # "none"
        PROVE  /\ run'.status # "queued"
               /\ drv'.pc # "none" => m \in drv'.activated
               /\ m \in drv'.active => drv'.result[m] # "none"
    <3>1. CASE m = n
      BY <1>0, <1>1, <1>2, <3>1 DEF OneGoInv, RestInv
    <3>2. CASE m # n
      BY <1>0, <1>1, <1>2, <2>3, <3>2 DEF OneGoInv
    <3> QED BY <3>1, <3>2
  <2> QED BY <2>1, <2>2, <2>3 DEF OneGoInv
<1> QED BY <1>0, <1>2, <1>3, <1>4, <1>5, <1>6, <1>7 DEF Walk

LEMMA BeginKeepsWalk == ASSUME Walk, NEW n \in Nodes, Begin(n) PROVE Walk'
<1>0. WalkTypeOK /\ RecordInv /\ OneGoInv /\ g \in Graphs
  BY DEF Walk
<1>1. /\ drv.pc = "round" /\ n \in drv.active /\ drv.result[n] = "none"
      /\ UNCHANGED <<g, run, ckpt, fired, crashes>> /\ fired \in [Nodes -> [Attempts -> Nat]]
      /\ key \in [Nodes -> [Attempts -> KeyStatus]] /\ drv.attempt[n] \in Attempts
      /\ finished \subseteq Nodes
  BY <1>0, DriverFields DEF Begin, WalkTypeOK, KeyStatus
<1>2. CASE Keyed(n) /\ Replays(n) /\ Put(n, "artifact") /\ UNCHANGED <<key, finished>>
  <2>1. n \in finished /\ ~InOneGo
    BY <1>0, <1>1, <1>2 DEF RecordInv, OneGoInv, Replays
  <2>2. Says(n, "artifact", key'[n][drv.attempt[n]], drv.attempt[n], finished')
    BY <1>2, <2>1 DEF Says, Keyed
  <2>3. "artifact" \in Results \ {"none"}
    BY DEF Results
  <2> QED BY <1>1, <1>2, <2>1, <2>2, <2>3, ResultStep
<1>3. CASE Keyed(n) /\ ~Replays(n) /\ Put(n, "dispatched") /\ SetKey(n, "running")
           /\ UNCHANGED finished
  <2>1. /\ key' \in [Nodes -> [Attempts -> KeyStatus]] /\ key'[n][drv.attempt[n]] = "running"
        /\ \A m \in Nodes, a \in Attempts :
             key'[m][a] = key[m][a] \/ (m = n /\ a = drv.attempt[n])
    BY <1>0, <1>3, SetKeyStep DEF KeyStatus
  <2>2. Says(n, "dispatched", key'[n][drv.attempt[n]], drv.attempt[n], finished')
    BY <1>3, <2>1 DEF Says
  <2>3. "dispatched" \in Results \ {"none"}
    BY DEF Results
  <2> QED BY <1>1, <1>3, <2>1, <2>2, <2>3, ResultStep
<1>4. CASE /\ g.kind[n] \in {"plain", "condition"}
           /\ Put(n, IF g.kind[n] = "plain" THEN "artifact" ELSE "label")
           /\ finished' = finished \cup {n} /\ UNCHANGED key
  <2> DEFINE r == IF g.kind[n] = "plain" THEN "artifact" ELSE "label"
  <2>1. r \in Results \ {"none"} /\ Put(n, r)
    BY <1>4 DEF Results
  <2>2. Says(n, r, key'[n][drv.attempt[n]], drv.attempt[n], finished')
    BY <1>4 DEF Says
  <2>3. r = "artifact" => g.verdict[n] # "blocked"
    BY <1>0, <1>4, VerdictOf
  <2> HIDE DEF r
  <2> QED BY <1>1, <1>4, <2>1, <2>2, <2>3, ResultStep
<1>5. CASE /\ g.kind[n] \in {"delay", "human", "approval"}
           /\ Put(n, IF g.kind[n] = "delay" THEN "delay" ELSE "requires_action")
           /\ UNCHANGED <<key, finished>>
  <2> DEFINE r == IF g.kind[n] = "delay" THEN "delay" ELSE "requires_action"
  <2>1. r \in Results \ {"none", "artifact"} /\ Put(n, r)
    BY <1>5 DEF Results
  <2>2. Says(n, r, key'[n][drv.attempt[n]], drv.attempt[n], finished')
    BY <1>5 DEF Says
  <2>3. key'[n][drv.attempt[n]] = "completed" => n \in finished'
    BY <1>0, <1>1, <1>5 DEF RecordInv
  <2> HIDE DEF r
  <2> QED BY <1>1, <1>5, <2>1, <2>2, <2>3, ResultStep
<1> QED BY <1>2, <1>3, <1>4, <1>5 DEF Begin

LEMMA FireKeepsWalk == ASSUME Walk, NEW n \in Nodes, Fire(n) PROVE Walk'
<1>0. WalkTypeOK /\ ResultInv /\ RecordInv /\ OneGoInv /\ g \in Graphs
  BY DEF Walk
<1>1. /\ drv.pc = "round" /\ drv.result[n] = "dispatched" /\ g.verdict[n] # "blocked"
      /\ Put(n, "fired") /\ UNCHANGED <<g, run, ckpt, key, finished, crashes>>
      /\ fired' = [fired EXCEPT ![n][drv.attempt[n]] = @ + 1]
      /\ fired \in [Nodes -> [Attempts -> Nat]] /\ drv.attempt[n] \in Attempts
      /\ key \in [Nodes -> [Attempts -> KeyStatus]] /\ finished \subseteq Nodes
  BY <1>0, DriverFields DEF Fire, WalkTypeOK, KeyStatus
<1>2. n \in drv.active /\ Says(n, "dispatched", key[n][drv.attempt[n]], drv.attempt[n], finished)
  BY <1>0, <1>1, ResultSays
<1>3. fired' \in [Nodes -> [Attempts -> Nat]]
  BY <1>1
<1>4. Says(n, "fired", key'[n][drv.attempt[n]], drv.attempt[n], finished')
  BY <1>1, <1>2 DEF Says
<1>5. "fired" \in Results \ {"none"} /\ key'[n][drv.attempt[n]] # "completed"
  BY <1>4 DEF Results, Says
<1> QED BY <1>1, <1>2, <1>3, <1>4, <1>5, ResultStep

LEMMA RecordKeepsWalk == ASSUME Walk, NEW n \in Nodes, Record(n) PROVE Walk'
<1>0. WalkTypeOK /\ ResultInv /\ RecordInv /\ OneGoInv /\ g \in Graphs
  BY DEF Walk
<1>1. /\ drv.pc = "round" /\ SetKey(n, "completed") /\ finished' = finished \cup {n}
      /\ UNCHANGED <<g, run, ckpt, fired, crashes>> /\ fired \in [Nodes -> [Attempts -> Nat]]
      /\ finished \subseteq Nodes
  BY <1>0 DEF Record, WalkTypeOK
<1>2. PICK r \in {"artifact", "blocked"} :
        /\ Put(n, r) /\ drv.result[n] \in {"dispatched", "fired"}
        /\ IF r = "blocked" THEN g.verdict[n] = "blocked" ELSE drv.result[n] = "fired"
  BY DEF Record
<1>3. /\ n \in drv.active
      /\ Says(n, drv.result[n], key[n][drv.attempt[n]], drv.attempt[n], finished)
  BY <1>0, <1>2, ResultSays
<1>4. /\ key' \in [Nodes -> [Attempts -> KeyStatus]]
      /\ \A m \in Nodes, a \in Attempts :
           key'[m][a] = key[m][a] \/ (m = n /\ a = drv.attempt[n])
  BY <1>0, <1>1, SetKeyStep DEF KeyStatus
<1>5. /\ Says(n, r, key'[n][drv.attempt[n]], drv.attempt[n], finished')
      /\ r = "artifact" => g.verdict[n] # "blocked"
  BY <1>0, <1>1, <1>2, <1>3, VerdictOf DEF Says, Keyed
<1>6. r \in Results \ {"none"}
  BY DEF Results
<1> QED BY <1>1, <1>2, <1>3, <1>4, <1>5, <1>6, ResultStep

LEMMA NodeFailsKeepsWalk == ASSUME Walk, NEW n \in Nodes, NodeFails(n) PROVE Walk'
<1>0. WalkTypeOK /\ ResultInv /\ RecordInv /\ OneGoInv /\ g \in Graphs
  BY DEF Walk
<1> DEFINE r == IF MayRetry(drv.attempt[n]) THEN "retry" ELSE "failed"
<1>1. /\ drv.pc = "round" /\ Put(n, r) /\ UNCHANGED <<g, run, ckpt, fired, finished, crashes>>
      /\ fired \in [Nodes -> [Attempts -> Nat]] /\ finished \subseteq Nodes
      /\ key \in [Nodes -> [Attempts -> KeyStatus]] /\ drv.attempt[n] \in Attempts
  BY <1>0, DriverFields DEF NodeFails, WalkTypeOK, KeyStatus
<1>2. /\ n \in drv.active /\ key' \in [Nodes -> [Attempts -> KeyStatus]]
      /\ \A m \in Nodes, a \in Attempts :
           key'[m][a] = key[m][a] \/ (m = n /\ a = drv.attempt[n])
      /\ key'[n][drv.attempt[n]] = "completed" => n \in finished'
  <2>1. CASE drv.result[n] \in {"dispatched", "fired"} /\ SetKey(n, "failed")
    <3>1. n \in drv.active
      BY <1>0, <2>1, ResultSays
    <3>2. /\ key' \in [Nodes -> [Attempts -> KeyStatus]]
          /\ key'[n][drv.attempt[n]] = "failed"
          /\ \A m \in Nodes, a \in Attempts :
               key'[m][a] = key[m][a] \/ (m = n /\ a = drv.attempt[n])
      BY <1>0, <2>1, SetKeyStep DEF KeyStatus
    <3> QED BY <3>1, <3>2
  <2>2. CASE n \in drv.active /\ UNCHANGED key
    BY <1>0, <1>1, <2>2 DEF RecordInv
  <2> QED BY <2>1, <2>2 DEF NodeFails
<1>3. Says(n, r, key'[n][drv.attempt[n]], drv.attempt[n], finished')
  BY DEF Says
<1>4. r \in Results \ {"none", "artifact"}
  BY DEF Results
<1> HIDE DEF r
<1> QED BY <1>1, <1>2, <1>3, <1>4, ResultStep

(***************************************************************************)
(* The end of a round.                                                     *)
(***************************************************************************)
LEMMA RoundClose ==
  ASSUME Walk, drv.pc = "round", drv' \in Driver, drv'.pc \in {"round", "settle"},
         \A n \in Nodes : drv'.result[n] = "none",
         UNCHANGED <<g, run, key, fired, finished, crashes>>, ckpt' \subseteq finished,
         drv'.done \cup drv'.arts \subseteq finished,
         \A n \in Nodes : drv'.labels[n] \in {"none", g.verdict[n]},
         drv'.outcome = "none" <=> drv'.pc = "round",
         drv'.outcome = "sleeping" => Waitable(drv'.wait),
         drv'.outcome = "awaiting_input" => Parked(drv'.active),
         drv'.wait.node \in Pending \cup {0},
         \A n \in drv'.active : Sound(n, finished),
         InOneGo => /\ drv'.outcome \notin {"sleeping", "awaiting_input"}
                    /\ drv.activated \cup drv'.active \subseteq drv'.activated
                    /\ drv'.active \cap drv.activated = {}
  PROVE  Walk'
<1>0. g \in Graphs /\ WalkTypeOK /\ ResultInv /\ RestInv /\ RecordInv /\ OneGoInv
  BY DEF Walk
<1>1. /\ g' = g /\ crashes' = crashes /\ crashes \in Nat /\ crashes' >= crashes
      /\ run' = run /\ key' = key /\ fired' = fired /\ finished' = finished
  BY <1>0, Typed
<1>2. WalkTypeOK'
  BY <1>0, <1>1 DEF WalkTypeOK
<1>3. ResultInv'
  BY DEF ResultInv
<1>4. RestInv'
  BY <1>0, <1>1, GraphStays DEF RestInv
<1>5. RecordInv'
  <2>1. \A n \in Pending' : Sound(n, finished')
    <3> SUFFICES ASSUME NEW n \in Pending' PROVE Sound(n, finished')
      OBVIOUS
    <3>1. n \in drv'.active \/ n \in Pending
      BY <1>1 DEF Pending
    <3> QED BY <1>0, <1>1, <3>1, PendingSound
  <2>2. \A n \in Pending' : Joined(n)' /\ (RefusalsKept' => Reached'[n])
    BY <1>1, <2>1, SoundStays
  <2>3. RefusalsKept' => \A n \in finished' : Reached'[n]
    <3>1. RefusalsKept => \A n \in finished : Reached[n]
      BY <1>0, FinishedReached
    <3>2. finished \subseteq Nodes
      BY <1>0 DEF WalkTypeOK
    <3> QED BY <1>1, <3>1, <3>2, GraphStays
  <2>4. drv'.done \cup drv'.arts \cup run'.arts \cup ckpt' \subseteq finished'
    BY <1>0, <1>1 DEF RecordInv
  <2>5. \A n \in Nodes, a \in Attempts : key'[n][a] = "completed" => n \in finished'
    BY <1>0, <1>1 DEF RecordInv
  <2>6. \A n \in Nodes : drv'.labels[n] \in {"none", g'.verdict[n]}
    BY <1>1
  <2> QED BY <2>2, <2>3, <2>4, <2>5, <2>6 DEF RecordInv
<1>6. OneGoInv'
  <2> SUFFICES ASSUME InOneGo PROVE OneGoInv'
    BY <1>1, GraphStays DEF OneGoInv
  <2> QED BY <1>0, <1>1 DEF OneGoInv
<1> QED BY <1>0, <1>1, <1>2, <1>3, <1>4, <1>5, <1>6 DEF Walk

\* A node that settled is recorded, and what the driver holds of it routes it.
LEMMA SettledKnown ==
  ASSUME Walk, NEW labels, NEW n \in Of({"artifact", "label", "blocked"}),
         labels[n] = IF n \in Of({"label", "blocked"}) THEN g.verdict[n] ELSE drv.labels[n]
  PROVE  n \in Nodes /\ n \in finished /\ Known(n, labels, Of({"blocked"}))
<1>0. g \in Graphs /\ WalkTypeOK /\ ResultInv /\ RecordInv /\ OneGoInv
  BY DEF Walk
<1>1. n \in Nodes /\ n \in drv.active /\ drv.result[n] \in {"artifact", "label", "blocked"}
  BY <1>0, DriverFields DEF Of, WalkTypeOK
<1>2. Says(n, drv.result[n], key[n][drv.attempt[n]], drv.attempt[n], finished)
  BY <1>0, <1>1, ResultSays
<1>3. labels[n] \in {"none", g.verdict[n]}
  BY <1>0, <1>1 DEF RecordInv
<1>4. n \in Of({"blocked"}) => labels[n] = g.verdict[n]
  BY <1>1 DEF Of
<1>5. ASSUME n \notin Of({"blocked"}), RefusalsKept
      PROVE  g.verdict[n] \notin {"rejected", "blocked"}
  <2>1. drv.result[n] \in {"artifact", "label"}
    BY <1>1, <1>5 DEF Of
  <2>2. g.verdict[n] # "rejected"
    BY <1>0, <1>1, <1>2, <2>1, VerdictOf DEF Says
  <2>3. drv.result[n] = "label" => g.verdict[n] # "blocked"
    BY <1>0, <1>1, <1>2, VerdictOf DEF Says
  <2>4. drv.result[n] = "artifact" => g.verdict[n] # "blocked"
    BY <1>0, <1>1, <1>5 DEF RefusalsKept, OneGoInv
  <2> QED BY <2>1, <2>2, <2>3, <2>4
<1>6. n \in finished
  BY <1>1, <1>2 DEF Says
<1> QED BY <1>1, <1>3, <1>4, <1>5, <1>6 DEF Known

LEMMA RoundKeepsWalk == ASSUME Walk, Round PROVE Walk'
<1>0. g \in Graphs /\ WalkTypeOK /\ ResultInv /\ RestInv /\ RecordInv /\ OneGoInv
  BY DEF Walk
<1>d. drv \in Driver /\ finished \subseteq Nodes /\ ckpt \subseteq finished
  BY <1>0 DEF WalkTypeOK, RecordInv
<1> DEFINE settled == Of({"artifact", "label", "blocked"})
           waits == Of({"delay", "retry"})
           pauses == Of({"requires_action"})
           labels == [n \in Nodes |-> IF n \in Of({"label", "blocked"}) THEN g.verdict[n]
                                      ELSE drv.labels[n]]
           arts == drv.arts \cup Of({"artifact", "blocked"})
           done == drv.done \cup settled
           none == [n \in Nodes |-> "none"]
           step == [drv EXCEPT !.done = done, !.arts = arts, !.labels = labels,
                               !.result = none, !.active = {}]
           upTo(order, n) == drv.done \cup {m \in settled : order[m] <= order[n]}
           next(order) == (UNION {NextNodes(n, upTo(order, n), labels, Of({"blocked"})) :
                                  n \in settled}) \ drv.activated
<1>1. PICK order \in Orders(settled) :
        /\ drv.pc = "round" /\ ckpt' = IF drv.active = {} THEN ckpt ELSE arts
        /\ \/ \E w \in waits : drv' = [step EXCEPT !.pc = "settle", !.outcome = "sleeping",
                                                   !.wait = WaitOf(w)]
           \/ /\ waits = {}
              /\ \E p \in pauses : drv' = [step EXCEPT !.pc = "settle",
                                             !.outcome = "awaiting_input", !.active = {p}]
           \/ /\ waits = {} /\ pauses = {} /\ next(order) = {}
              /\ drv' = [step EXCEPT !.pc = "settle", !.outcome = "succeeded"]
           \/ /\ waits = {} /\ pauses = {} /\ next(order) # {}
              /\ drv' = [step EXCEPT !.active = next(order), !.activated = @ \cup next(order)]
        /\ UNCHANGED <<g, run, key, fired, finished, crashes>>
  BY DEF Round
<1>2. /\ labels \in [Nodes -> Verdicts \cup {"none"}] /\ none \in [Nodes -> Results]
      /\ \A n \in Nodes : labels[n] \in {"none", g.verdict[n]} /\ none[n] = "none"
      /\ \A n \in settled :
           labels[n] = IF n \in Of({"label", "blocked"}) THEN g.verdict[n] ELSE drv.labels[n]
  BY <1>0, <1>d, VerdictOf DEF RecordInv, Results, Of, Driver
<1> HIDE DEF labels, none
<1>3. \A n \in settled : n \in Nodes /\ n \in finished /\ Known(n, labels, Of({"blocked"}))
  BY <1>2, SettledKnown
<1>4. /\ arts \subseteq finished /\ arts \subseteq Nodes
      /\ done \subseteq finished /\ done \subseteq Nodes
  BY <1>0, <1>3, <1>d DEF RecordInv, Of
<1>5. \A n \in next(order) : Sound(n, finished) /\ n \notin drv.activated
  <2> SUFFICES ASSUME NEW n \in next(order) PROVE Sound(n, finished)
    OBVIOUS
  <2>1. PICK m \in settled : n \in NextNodes(m, upTo(order, m), labels, Of({"blocked"}))
    OBVIOUS
  <2>2. upTo(order, m) \subseteq done
    OBVIOUS
  <2>3. RefusalsKept => Reached[m] /\ \A k \in done : Reached[k]
    BY <1>0, <1>3, <1>4, FinishedReached
  <2> HIDE DEF settled, done, upTo
  <2> QED BY <1>0, <1>3, <1>4, <2>1, <2>2, <2>3, NextSound
<1>6. /\ step \in Driver /\ step.pc = drv.pc /\ step.outcome = drv.outcome
      /\ step.wait = drv.wait /\ step.done = done /\ step.arts = arts
      /\ step.labels = labels /\ step.result = none /\ step.active = {}
      /\ step.activated = drv.activated
  BY <1>2, <1>4, <1>d DEF Driver
<1>7. drv.outcome = "none" /\ (drv.wait.node \in Pending \cup {0})
  BY <1>0, <1>1 DEF RestInv, Pending
<1>8. \A w \in waits : /\ w \in drv.active /\ w \in Nodes /\ Waitable(WaitOf(w)) /\ ~InOneGo
                       /\ WaitOf(w) \in [node: Nodes \cup {0}, attempt: 0..MaxAttempts]
                       /\ WaitOf(w).node = w
  <2> SUFFICES ASSUME NEW w \in waits
               PROVE  /\ w \in drv.active /\ w \in Nodes /\ Waitable(WaitOf(w)) /\ ~InOneGo
                      /\ WaitOf(w) \in [node: Nodes \cup {0}, attempt: 0..MaxAttempts]
                      /\ WaitOf(w).node = w
    OBVIOUS
  <2>1. w \in drv.active /\ w \in Nodes /\ drv.result[w] \in {"delay", "retry"}
    BY <1>d, DriverFields DEF Of
  <2>2. Says(w, drv.result[w], key[w][drv.attempt[w]], drv.attempt[w], finished)
    BY <1>0, <2>1, ResultSays
  <2>3. drv.attempt[w] \in 1..MaxAttempts /\ g.tries \in 1..MaxAttempts
    BY <1>0, <1>d, <2>1, DriverFields, GraphTyped DEF Attempts
  <2>4. drv.result[w] # "delay" => drv.attempt[w] + 1 \in 1..MaxAttempts /\ g.tries # 1
    BY <2>1, <2>2, <2>3, BoundsAssumption DEF Says, MayRetry
  <2>5. drv.result[w] = "delay" => g.kind[w] = "delay"
    BY <2>2 DEF Says
  <2>6. ~InOneGo
    BY <2>1, <2>4, <2>5 DEF InOneGo
  <2>7. 0 \in 0..MaxAttempts /\ 1..MaxAttempts \subseteq 0..MaxAttempts /\ 0 \notin 1..MaxAttempts
    BY BoundsAssumption
  <2>8. /\ WaitOf(w).node = w
        /\ WaitOf(w).attempt = IF drv.result[w] = "delay" THEN 0 ELSE drv.attempt[w] + 1
        /\ WaitOf(w) = [node |-> w, attempt |-> WaitOf(w).attempt]
    BY DEF WaitOf
  <2>9. WaitOf(w).attempt \in 0..MaxAttempts
    BY <2>4, <2>7, <2>8
  <2>10. Waitable(WaitOf(w))
    BY <2>1, <2>4, <2>5, <2>7, <2>8 DEF Waitable
  <2> QED BY <2>1, <2>6, <2>8, <2>9, <2>10
<1>9. \A p \in pauses : p \in drv.active /\ p \in Nodes /\ Parked({p}) /\ ~InOneGo
  <2> SUFFICES ASSUME NEW p \in pauses
               PROVE  p \in drv.active /\ p \in Nodes /\ Parked({p}) /\ ~InOneGo
    OBVIOUS
  <2>1. p \in drv.active /\ p \in Nodes /\ drv.result[p] = "requires_action"
    BY <1>d, DriverFields DEF Of
  <2>2. g.kind[p] \in {"human", "approval"}
    BY <1>0, <2>1, ResultSays DEF Says
  <2> QED BY <2>1, <2>2 DEF Parked, InOneGo
<1>10. ckpt' \subseteq finished
  BY <1>1, <1>4, <1>d
<1>11. \A n \in drv.active : n \in Pending /\ Sound(n, finished)
  BY <1>0, PendingSound DEF Pending
<1>12. next(order) \subseteq Nodes /\ drv.activated \subseteq Nodes
  BY <1>5, <1>d, DriverFields DEF Sound
<1> HIDE DEF settled, waits, pauses, arts, done, step, next
<1>13. CASE \E w \in waits : drv' = [step EXCEPT !.pc = "settle", !.outcome = "sleeping",
                                                  !.wait = WaitOf(w)]
  <2>1. PICK w \in waits : drv' = [step EXCEPT !.pc = "settle", !.outcome = "sleeping",
                                                !.wait = WaitOf(w)]
    BY <1>13
  <2>2. WaitOf(w) \in [node: Nodes \cup {0}, attempt: 0..MaxAttempts]
    BY <1>8
  <2>3. /\ drv' \in Driver /\ drv'.pc = "settle" /\ drv'.outcome = "sleeping"
        /\ drv'.wait = WaitOf(w) /\ drv'.done = done /\ drv'.arts = arts
        /\ drv'.labels = labels /\ drv'.result = none /\ drv'.active = {}
    BY <1>6, <2>1, <2>2 DEF Driver
  <2>4. Waitable(WaitOf(w)) /\ ~InOneGo /\ drv'.wait.node \in Pending
    BY <1>8, <1>11, <2>3
  <2> QED BY <1>1, <1>2, <1>4, <1>10, <2>3, <2>4, RoundClose
<1>14. CASE \E p \in pauses : drv' = [step EXCEPT !.pc = "settle",
                                        !.outcome = "awaiting_input", !.active = {p}]
  <2>1. PICK p \in pauses : drv' = [step EXCEPT !.pc = "settle",
                                      !.outcome = "awaiting_input", !.active = {p}]
    BY <1>14
  <2>2. p \in Nodes /\ Parked({p}) /\ ~InOneGo /\ Sound(p, finished)
    BY <1>9, <1>11
  <2>3. /\ drv' \in Driver /\ drv'.pc = "settle" /\ drv'.outcome = "awaiting_input"
        /\ drv'.wait = drv.wait /\ drv'.done = done /\ drv'.arts = arts
        /\ drv'.labels = labels /\ drv'.result = none /\ drv'.active = {p}
    BY <1>6, <2>1, <2>2 DEF Driver
  <2> QED BY <1>1, <1>2, <1>4, <1>7, <1>10, <2>2, <2>3, RoundClose
<1>15. CASE drv' = [step EXCEPT !.pc = "settle", !.outcome = "succeeded"]
  <2>1. /\ drv' \in Driver /\ drv'.pc = "settle" /\ drv'.outcome = "succeeded"
        /\ drv'.wait = drv.wait /\ drv'.done = done /\ drv'.arts = arts
        /\ drv'.labels = labels /\ drv'.result = none /\ drv'.active = {}
        /\ drv'.activated = drv.activated
    BY <1>6, <1>15 DEF Driver
  <2> QED BY <1>1, <1>2, <1>4, <1>7, <1>10, <2>1, RoundClose
<1>16. CASE drv' = [step EXCEPT !.active = next(order), !.activated = @ \cup next(order)]
  <2>1. /\ drv' \in Driver /\ drv'.pc = "round" /\ drv'.outcome = "none"
        /\ drv'.wait = drv.wait /\ drv'.done = done /\ drv'.arts = arts
        /\ drv'.labels = labels /\ drv'.result = none /\ drv'.active = next(order)
        /\ drv'.activated = drv.activated \cup next(order)
    BY <1>1, <1>6, <1>7, <1>12, <1>16 DEF Driver
  <2>2. drv'.active \cap drv.activated = {}
    BY <1>5, <2>1
  <2> QED BY <1>1, <1>2, <1>4, <1>5, <1>7, <1>10, <2>1, <2>2, RoundClose
<1> QED BY <1>1, <1>13, <1>14, <1>15, <1>16

\* One node failed for good: the rest of its round is left as it is.
LEMMA RoundFailsKeepsWalk == ASSUME Walk, RoundFails PROVE Walk'
<1>0. g \in Graphs /\ WalkTypeOK /\ ResultInv /\ RestInv /\ RecordInv /\ OneGoInv
  BY DEF Walk
<1>1. /\ drv.pc = "round" /\ drv' = [drv EXCEPT !.pc = "settle", !.outcome = "failed"]
      /\ g' = g /\ run' = run /\ ckpt' = ckpt /\ key' = key /\ fired' = fired
      /\ finished' = finished /\ crashes' = crashes
      /\ crashes \in Nat /\ crashes' >= crashes
  BY <1>0, Typed DEF RoundFails
<1>2. /\ drv' \in Driver /\ drv'.pc = "settle" /\ drv'.outcome = "failed"
      /\ drv'.wait = drv.wait /\ drv'.done = drv.done /\ drv'.arts = drv.arts
      /\ drv'.labels = drv.labels /\ drv'.result = drv.result /\ drv'.active = drv.active
      /\ drv'.activated = drv.activated /\ drv'.attempt = drv.attempt
  BY <1>0, <1>1 DEF WalkTypeOK, Driver
<1>3. WalkTypeOK'
  BY <1>0, <1>1, <1>2 DEF WalkTypeOK
<1>4. ResultInv'
  BY <1>0, <1>1, <1>2, GraphStays DEF ResultInv
<1>5. RestInv'
  BY <1>0, <1>1, <1>2, GraphStays DEF RestInv
<1>6. RecordInv'
  <2>1. Pending' = Pending
    BY <1>1, <1>2 DEF Pending
  <2>2. \A n \in Pending' : Joined(n)' /\ (RefusalsKept' => Reached'[n])
    BY <1>0, <1>1, <2>1, PendingSound, SoundStays
  <2>3. RefusalsKept' => \A n \in finished' : Reached'[n]
    BY <1>0, <1>1, FinishedReached, GraphStays DEF WalkTypeOK
  <2> QED BY <1>0, <1>1, <1>2, <2>2, <2>3 DEF RecordInv
<1>7. OneGoInv'
  <2> SUFFICES ASSUME InOneGo PROVE OneGoInv'
    BY <1>1, GraphStays DEF OneGoInv
  <2> QED BY <1>0, <1>1, <1>2 DEF OneGoInv
<1> QED BY <1>0, <1>1, <1>3, <1>4, <1>5, <1>6, <1>7 DEF Walk

(***************************************************************************)
(* The driver leaves the run, or naps.                                     *)
(***************************************************************************)
LEMMA SleepKeepsWalk == ASSUME Walk, Sleep PROVE Walk'
<1>0. g \in Graphs /\ WalkTypeOK /\ ResultInv /\ RestInv /\ RecordInv /\ OneGoInv
  BY DEF Walk
<1>1. /\ drv.pc = "settle" /\ drv.outcome = "sleeping"
      /\ g' = g /\ ckpt' = ckpt /\ key' = key /\ fired' = fired
      /\ finished' = finished /\ crashes' = crashes
      /\ crashes \in Nat /\ crashes' >= crashes
      /\ ~InOneGo /\ Waitable(drv.wait) /\ run.status = "running"
  BY <1>0, Typed DEF Sleep, RestInv, OneGoInv
<1>2. RefusalsKept' => \A n \in finished' : Reached'[n]
  BY <1>0, <1>1, FinishedReached, GraphStays DEF WalkTypeOK
<1>3. OneGoInv'
  BY <1>1, GraphStays DEF OneGoInv
<1>4. CASE drv' = [drv EXCEPT !.pc = "nap"] /\ run' = run
  <2>1. /\ drv' \in Driver /\ drv'.pc = "nap" /\ drv'.outcome = "sleeping"
        /\ drv'.wait = drv.wait /\ drv'.done = drv.done /\ drv'.arts = drv.arts
        /\ drv'.labels = drv.labels /\ drv'.result = drv.result
        /\ drv'.active = drv.active /\ drv'.attempt = drv.attempt
    BY <1>0, <1>1, <1>4 DEF WalkTypeOK, Driver
  <2>2. WalkTypeOK'
    BY <1>0, <1>1, <1>4, <2>1 DEF WalkTypeOK
  <2>3. ResultInv'
    BY <1>0, <1>1, <2>1, GraphStays DEF ResultInv
  <2>4. RestInv'
    BY <1>1, <1>4, <2>1, GraphStays DEF RestInv
  <2>5. \A n \in Pending' : Joined(n)' /\ (RefusalsKept' => Reached'[n])
    <3>1. Pending' = Pending
      BY <1>4, <2>1 DEF Pending
    <3> QED BY <1>0, <1>1, <3>1, PendingSound, SoundStays
  <2>6. RecordInv'
    BY <1>0, <1>1, <1>2, <1>4, <2>1, <2>5 DEF RecordInv
  <2> QED BY <1>0, <1>1, <1>3, <2>2, <2>3, <2>4, <2>6 DEF Walk
<1>5. CASE /\ drv' = Nobody
           /\ run' = [status |-> "sleeping", active |-> {drv.wait.node},
                      arts |-> drv.arts, wait |-> drv.wait]
  <2>1. /\ drv.wait \in [node: Nodes \cup {0}, attempt: 0..MaxAttempts]
        /\ drv.wait.node \in Nodes /\ drv.arts \subseteq Nodes
    BY <1>0, <1>1 DEF WalkTypeOK, Driver, Waitable
  <2>2. /\ run' \in RunRow /\ run'.status = "sleeping" /\ run'.active = {drv.wait.node}
        /\ run'.arts = drv.arts /\ run'.wait = drv.wait
    BY <1>5, <2>1 DEF RunRow
  <2>3. WalkTypeOK'
    BY <1>0, <1>1, <1>5, <2>2, NobodyTyped DEF WalkTypeOK
  <2>4. ResultInv'
    BY <1>5, NobodyTyped DEF ResultInv
  <2>5. Nobody' = Nobody
    BY DEF Nobody, NoWait
  <2>6. RestInv'
    BY <1>1, <1>5, <2>2, <2>5, NobodyTyped, GraphStays DEF RestInv
  <2>7. \A n \in Pending' : Joined(n)' /\ (RefusalsKept' => Reached'[n])
    <3>1. Pending' \subseteq Pending
      BY <1>5, <2>1, <2>2, NobodyTyped, GraphsAssumption DEF Pending
    <3> QED BY <1>0, <1>1, <3>1, PendingSound, SoundStays
  <2>8. RecordInv'
    BY <1>0, <1>1, <1>2, <1>5, <2>2, <2>7, NobodyTyped DEF RecordInv
  <2> QED BY <1>0, <1>1, <1>3, <2>3, <2>4, <2>6, <2>8 DEF Walk
<1> QED BY <1>4, <1>5 DEF Sleep

\* The driver is gone, by its own will or in a crash.
LEMMA GoneStep ==
  ASSUME Walk, drv' = Nobody, UNCHANGED <<g, ckpt, key, fired, finished>>,
         crashes' \in 0..MaxCrashes, crashes' >= crashes,
         run' \in RunRow, run'.status = "running" => crashes' > 0,
         run'.arts \subseteq finished, run'.active \subseteq Pending,
         run'.wait.node \in Pending \cup {0},
         run'.status = "sleeping" => Waitable(run'.wait),
         run'.status = "awaiting_input" => Parked(run'.active),
         InOneGo' => run'.status \notin {"queued", "sleeping", "awaiting_input"}
  PROVE  Walk'
<1>0. g \in Graphs /\ WalkTypeOK /\ ResultInv /\ RestInv /\ RecordInv /\ OneGoInv
  BY DEF Walk
<1>1. /\ g' = g /\ ckpt' = ckpt /\ key' = key /\ fired' = fired /\ finished' = finished
      /\ crashes \in Nat /\ crashes' \in Nat
  BY <1>0, Typed, BoundsAssumption
<1>2. WalkTypeOK'
  BY <1>0, <1>1, NobodyTyped DEF WalkTypeOK
<1>3. ResultInv'
  BY NobodyTyped DEF ResultInv
<1>4. Nobody' = Nobody
  BY DEF Nobody, NoWait
<1>5. RestInv'
  BY <1>1, <1>4, NobodyTyped, GraphStays DEF RestInv
<1>6. \A n \in Pending' : Joined(n)' /\ (RefusalsKept' => Reached'[n])
  <2>1. Pending' \subseteq Pending
    BY NobodyTyped DEF Pending
  <2>2. \A n \in Pending : Sound(n, finished')
    BY <1>0, <1>1, PendingSound
  <2> QED BY <1>1, <2>1, <2>2, SoundStays
<1>7. RefusalsKept' => \A n \in finished' : Reached'[n]
  BY <1>0, <1>1, FinishedReached, GraphStays DEF WalkTypeOK
<1>8. RecordInv'
  BY <1>0, <1>1, <1>6, <1>7, NobodyTyped DEF RecordInv
<1>9. OneGoInv'
  BY NobodyTyped DEF OneGoInv
<1> QED BY <1>0, <1>1, <1>2, <1>3, <1>5, <1>8, <1>9 DEF Walk

LEMMA SettleKeepsWalk == ASSUME Walk, Settle PROVE Walk'
<1>0. g \in Graphs /\ WalkTypeOK /\ RestInv /\ RecordInv /\ OneGoInv
  BY DEF Walk
<1>1. /\ drv.pc = "settle" /\ drv' = Nobody
      /\ drv.outcome \in {"succeeded", "failed", "awaiting_input"}
      /\ UNCHANGED <<g, ckpt, key, fired, finished>> /\ crashes' = crashes
  BY <1>0, DriverFields DEF Settle, RestInv, WalkTypeOK
<1>2. drv.arts \subseteq Nodes /\ drv.active \subseteq Nodes /\ drv.arts \subseteq finished
  BY <1>0, DriverFields DEF WalkTypeOK, RecordInv
<1>3. NoWait \in [node: Nodes \cup {0}, attempt: 0..MaxAttempts] /\ NoWait.node = 0
  BY BoundsAssumption DEF NoWait
<1> DEFINE active == IF drv.outcome = "awaiting_input" THEN drv.active ELSE {}
<1>4. run' = [status |-> drv.outcome, arts |-> drv.arts, wait |-> NoWait, active |-> active]
  BY DEF Settle
<1>5. /\ active \subseteq Nodes /\ active \subseteq Pending
      /\ drv.outcome = "awaiting_input" => Parked(active)
  BY <1>0, <1>2 DEF Pending, RestInv
<1> HIDE DEF active
<1>6. /\ run' \in RunRow /\ run'.status = drv.outcome /\ run'.active = active
      /\ run'.arts = drv.arts /\ run'.wait = NoWait
  BY <1>1, <1>2, <1>3, <1>4, <1>5 DEF RunRow
<1>7. crashes' \in 0..MaxCrashes /\ crashes' >= crashes /\ crashes \in Nat
  BY <1>0, <1>1, Typed DEF WalkTypeOK
<1>8. InOneGo' => drv.outcome # "awaiting_input"
  BY <1>0, <1>1, <1>7, GraphStays DEF OneGoInv
<1> QED BY <1>1, <1>2, <1>3, <1>5, <1>6, <1>7, <1>8, GoneStep

LEMMA CrashKeepsWalk == ASSUME Walk, DriverDies PROVE Walk'
<1>0. g \in Graphs /\ WalkTypeOK /\ RestInv /\ RecordInv /\ OneGoInv
  BY DEF Walk
<1>1. /\ drv.pc # "none" /\ crashes < MaxCrashes /\ crashes' = crashes + 1
      /\ drv' = Nobody /\ run' = run /\ UNCHANGED <<g, ckpt, key, fired, finished>>
  BY DEF DriverDies
<1>2. crashes' \in 0..MaxCrashes /\ crashes' >= crashes /\ crashes' > 0
  BY <1>0, <1>1, BoundsAssumption DEF WalkTypeOK
<1>3. /\ run' \in RunRow /\ run'.status = "running" /\ run'.arts \subseteq finished
      /\ run'.active \subseteq Pending /\ run'.wait.node \in Pending \cup {0}
  BY <1>0, <1>1, Typed DEF RestInv, RecordInv, Pending
<1>4. ~InOneGo'
  BY <1>2 DEF InOneGo
<1> QED BY <1>1, <1>2, <1>3, <1>4, GoneStep

(***************************************************************************)
(* The theorems.                                                           *)
(***************************************************************************)
LEMMA InitWalk == ASSUME WalkInit PROVE Walk
<1>1. /\ g \in Graphs /\ drv = Nobody /\ crashes = 0 /\ ckpt = {} /\ finished = {}
      /\ run.status = "queued" /\ run.active = {} /\ run.arts = {} /\ run.wait = NoWait
      /\ \A n \in Nodes, a \in Attempts : key[n][a] = "none"
  BY DEF WalkInit
<1>2. WalkTypeOK
  <2>1. NoWait \in [node: Nodes \cup {0}, attempt: 0..MaxAttempts] /\ 0 \in 0..MaxCrashes
    BY BoundsAssumption DEF NoWait
  <2> QED BY <1>1, <2>1, NobodyTyped, GraphTyped DEF WalkTypeOK, WalkInit, RunRow
<1>3. ResultInv
  BY <1>1, NobodyTyped DEF ResultInv
<1>4. RestInv
  BY <1>1, NobodyTyped DEF RestInv
<1>5. RecordInv
  BY <1>1, NobodyTyped DEF RecordInv, Pending
<1>6. OneGoInv
  BY <1>1, NobodyTyped DEF OneGoInv
<1> QED BY <1>1, <1>2, <1>3, <1>4, <1>5, <1>6 DEF Walk

LEMMA NextWalk == ASSUME Walk, [WalkNext]_walkVars PROVE Walk'
<1>1. CASE UNCHANGED walkVars
  <2>1. g' = g /\ crashes' = crashes
    BY <1>1 DEF walkVars
  <2>2. Nobody' = Nobody
    BY DEF Nobody, NoWait
  <2>3. WalkTypeOK'
    BY <1>1 DEF Walk, WalkTypeOK, walkVars
  <2>4. crashes \in Nat /\ crashes' \in Nat /\ crashes' >= crashes
    BY <2>1, Typed DEF Walk
  <2>5. ResultInv'
    BY <1>1, <2>4, GraphStays DEF Walk, ResultInv, walkVars
  <2>6. RestInv'
    BY <1>1, <2>2, <2>4, GraphStays DEF Walk, RestInv, walkVars
  <2>7. RecordInv'
    <3>1. Reached' = Reached
      BY <2>1, ReachedStays
    <3>2. (RefusalsKept' <=> RefusalsKept) /\ Pending' = Pending
          /\ \A n : Joined(n)' <=> Joined(n)
      BY <1>1 DEF RefusalsKept, InOneGo, Pending, Joined, walkVars
    <3> QED BY <1>1, <3>1, <3>2 DEF Walk, RecordInv, walkVars
  <2>8. OneGoInv'
    BY <1>1 DEF Walk, OneGoInv, InOneGo, walkVars
  <2> QED BY <2>1, <2>3, <2>5, <2>6, <2>7, <2>8 DEF Walk
<1>2. CASE Start \/ Wake \/ Redrive \/ Reenter
  BY <1>2, StartKeepsWalk, WakeKeepsWalk, RedriveKeepsWalk, ReenterKeepsWalk
<1>3. CASE \E n \in Nodes : Resume(n) \/ NodeFails(n)
  BY <1>3, ResumeKeepsWalk, NodeFailsKeepsWalk
<1>4. CASE DriverStep
  <2>1. CASE \E n \in Nodes : Begin(n) \/ Fire(n) \/ Record(n)
    BY <2>1, BeginKeepsWalk, FireKeepsWalk, RecordKeepsWalk
  <2>2. CASE RoundFails \/ Round \/ Sleep \/ Settle \/ NapOver
    BY <2>2, RoundFailsKeepsWalk, RoundKeepsWalk, SleepKeepsWalk, SettleKeepsWalk,
       NapOverKeepsWalk
  <2> QED BY <1>4, <2>1, <2>2 DEF DriverStep
<1>5. CASE DriverDies
  BY <1>5, CrashKeepsWalk
<1> QED BY <1>1, <1>2, <1>3, <1>4, <1>5 DEF WalkNext

LEMMA SpecWalk == WalkSpec => []Walk
<1>1. WalkInit => Walk
  BY InitWalk
<1>2. Walk /\ [WalkNext]_walkVars => Walk'
  BY NextWalk
<1> QED BY <1>1, <1>2, PTL DEF WalkSpec

\* In any run of any graph the rows, the records and the driver agree, and only nodes
\* the graph calls for are executed as long as no refusal is forgotten.
THEOREM WalkCorrect == WalkSpec => []WalkInv
<1>1. Walk => WalkInv
  <2> SUFFICES ASSUME Walk PROVE WalkInv
    OBVIOUS
  <2>0. WalkTypeOK /\ ResultInv /\ RestInv /\ RecordInv /\ OneGoInv
    BY DEF Walk
  <2>1. OnlyReached
    BY <2>0, ResultSays DEF OnlyReached, Strayed, RecordInv, Pending
  <2> QED BY <2>0, <2>1 DEF WalkInv
<1> QED BY <1>1, SpecWalk, PTL

\* No node behind a join executes before all the sources of the join have completed,
\* unless one of its edges waits for nobody else.
THEOREM JoinsHold == WalkSpec => []JoinsWait
<1>1. Walk => JoinsWait
  BY ResultSays DEF Walk, JoinsWait, RecordInv, Pending
<1> QED BY <1>1, SpecWalk, PTL

\* Through crashes, re-drives, waits and retries, a completed record is never taken over
\* and its side effect never happens again.
THEOREM CompletedStays == WalkSpec => CompletedNotRepeated
<1> DEFINE Kept == \A n \in Nodes, a \in Attempts :
                     key[n][a] = "completed" =>
                       key'[n][a] = "completed" /\ fired'[n][a] = fired[n][a]
<1>1. ASSUME Walk, [WalkNext]_walkVars PROVE Kept
  <2>0. /\ WalkTypeOK /\ ResultInv /\ drv \in Driver
        /\ key \in [Nodes -> [Attempts -> KeyStatus]]
        /\ fired \in [Nodes -> [Attempts -> Nat]]
        /\ \A n \in Nodes : drv.attempt[n] \in Attempts
    BY <1>1, DriverFields DEF Walk, WalkTypeOK, KeyStatus
  <2>1. ASSUME UNCHANGED <<key, fired>> PROVE Kept
    BY <2>1
  <2>2. ASSUME NEW n \in Nodes, NEW s \in KeyStatus, SetKey(n, s), UNCHANGED fired,
               key[n][drv.attempt[n]] # "completed"
        PROVE  Kept
    BY <2>0, <2>2, SetKeyStep
  <2>3. ASSUME NEW n \in Nodes, Begin(n) PROVE Kept
    <3>1. CASE UNCHANGED key
      BY <2>1, <2>3, <3>1 DEF Begin
    <3>2. CASE SetKey(n, "running") /\ ~Replays(n)
      BY <2>2, <2>3, <3>2 DEF Begin, Replays, KeyStatus
    <3> QED BY <2>3, <3>1, <3>2 DEF Begin
  <2>4. ASSUME NEW n \in Nodes, Fire(n) PROVE Kept
    <3>1. key[n][drv.attempt[n]] = "running"
      BY <2>0, <2>4, ResultSays DEF Fire, Says
    <3>2. key' = key /\ \A m \in Nodes, a \in Attempts :
            fired'[m][a] = fired[m][a] \/ (m = n /\ a = drv.attempt[n])
      BY <2>0, <2>4 DEF Fire
    <3> QED BY <3>1, <3>2
  <2>5. ASSUME NEW n \in Nodes, Record(n) PROVE Kept
    <3>1. key[n][drv.attempt[n]] = "running"
      BY <2>0, <2>5, ResultSays DEF Record, Says
    <3> QED BY <2>2, <2>5, <3>1 DEF Record, KeyStatus
  <2>6. ASSUME NEW n \in Nodes, NodeFails(n) PROVE Kept
    <3>1. CASE drv.result[n] \in {"dispatched", "fired"} /\ SetKey(n, "failed")
      <4>1. key[n][drv.attempt[n]] = "running"
        BY <2>0, <3>1, ResultSays DEF Says
      <4> QED BY <2>2, <2>6, <3>1, <4>1 DEF NodeFails, KeyStatus
    <3>2. CASE UNCHANGED key
      BY <2>1, <2>6, <3>2 DEF NodeFails
    <3> QED BY <2>6, <3>1, <3>2 DEF NodeFails
  <2>7. CASE Start \/ Wake \/ Redrive \/ Reenter \/ (\E n \in Nodes : Resume(n)) \/ DriverDies
    BY <2>1, <2>7 DEF Start, Wake, Redrive, Reenter, Resume, DriverDies
  <2>8. CASE RoundFails \/ Round \/ Sleep \/ Settle \/ NapOver
    BY <2>1, <2>8 DEF RoundFails, Round, Sleep, Settle, NapOver
  <2>9. CASE UNCHANGED walkVars
    BY <2>1, <2>9 DEF walkVars
  <2> HIDE DEF Kept
  <2> QED BY <1>1, <2>3, <2>4, <2>5, <2>6, <2>7, <2>8, <2>9 DEF WalkNext, DriverStep
<1>2. Walk /\ [WalkNext]_walkVars => [Kept]_walkVars
  BY <1>1
<1> QED BY <1>2, SpecWalk, PTL DEF WalkSpec, CompletedNotRepeated

=============================================================================
