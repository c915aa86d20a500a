---------------------- MODULE DocumentIngestionProofs ----------------------
(***************************************************************************)
(* For any number of pipelines and callbacks: an ingestion attempt ends at *)
(* most once, and a run that nothing overlaps has the document to itself,  *)
(* but for the workers a run that failed has left behind; so a ready       *)
(* document has the chunks of one run or one edit, unless the chunks were  *)
(* deleted while such workers went on.                                     *)
(***************************************************************************)
EXTENDS DocumentIngestion, TLAPS

Docs == [status: Statuses, attempt: Pipes \cup {None}, stale: BOOLEAN]
Seen == [status: Statuses, attempt: Pipes \cup {None}]
PCs == {"idle", "clean", "reset", "queued", "source", "deferred", "claim", "parse",
        "part", "rest", "settle", "touch", "error", "recover", "done"}

\* instance.update writes each field from the new values or leaves it as it is.
LEMMA UpdateLemma ==
  ASSUME doc \in Docs, NEW old \in Seen, NEW new \in Seen
  PROVE  LET d == Update(old, new) IN
         /\ d \in Docs
         /\ d.attempt \in {doc.attempt, new.attempt}
         /\ Gone => d = doc
         /\ ~Gone /\ old = Instance => d.status = new.status /\ d.attempt = new.attempt
<1>1. CASE Gone
  BY <1>1 DEF Update
<1>2. CASE ~Gone
  BY <1>2 DEF Update, Docs, Seen, Instance, With
<1> QED BY <1>1, <1>2

\* What a step of one actor does to the actors and to the record of overlaps.
LEMMA GoLemma ==
  ASSUME TypeOK, NEW a \in Actors, NEW c \in Actor, Go(a, c)
  PROVE  /\ actor' \in [Actors -> Actor] /\ overlap' \subseteq {"edit", "run"}
         /\ actor'[a] = c /\ \A b \in Actors \ {a} : actor'[b] = actor[b]
         /\ overlap \subseteq overlap'
         /\ overlap' = {} /\ AtWork(c) => \A b \in Actors \ {a} : ~AtWork(actor[b])
<1>1. actor' \in [Actors -> Actor] /\ actor'[a] = c
      /\ \A b \in Actors \ {a} : actor'[b] = actor[b]
  BY DEF TypeOK, Go
<1>2. overlap' = overlap \cup Together(a, c)
  BY DEF Go
<1>3. Together(a, c) \subseteq {"edit", "run"}
  BY DEF Together, Both
<1>4. ASSUME AtWork(c), NEW b \in Actors \ {a}, AtWork(actor[b])
      PROVE  Both(a, b) \in overlap'
  BY <1>2, <1>4 DEF Together
<1> QED BY <1>1, <1>2, <1>3, <1>4 DEF TypeOK

\* The records the actions build.
LEMMA ActorTyped ==
  ASSUME TypeOK, NEW a \in Actors
  PROVE  /\ actor[a] \in Actor /\ Idle \in Actor /\ [Idle EXCEPT !.pc = "done"] \in Actor
         /\ Instance \in Seen /\ doc \in Docs /\ actor[a].seen \in Seen
         /\ \A pc \in PCs : [actor[a] EXCEPT !.pc = pc] \in Actor
         /\ \A s \in Statuses, p \in Pipes \cup {None} : With(s, p) \in Seen
         /\ \A pc \in PCs, s \in Seen : /\ [Idle EXCEPT !.pc = pc, !.seen = s] \in Actor
                                        /\ [actor[a] EXCEPT !.pc = pc, !.seen = s] \in Actor
<1>1. actor[a] \in Actor /\ Idle \in Actor
  BY DEF TypeOK, Idle, Nothing, Actor, Statuses
<1>2. Instance \in Seen /\ doc \in Docs
  BY DEF TypeOK, Instance, With, Seen, Docs
<1> QED BY <1>1, <1>2 DEF Actor, With, Seen, PCs

\* The fields of the records the actions build.
LEMMA ToLemma ==
  ASSUME TypeOK, NEW a \in Actors, NEW pc \in PCs, To(a, pc)
  PROVE  \E c \in Actor : /\ Go(a, c) /\ actor'[a] = c
                          /\ c.pc = pc /\ c.seen = actor[a].seen
<1>1. actor[a] \in Actor
  BY DEF TypeOK
<1>2. [actor[a] EXCEPT !.pc = pc] \in Actor
  BY <1>1 DEF Actor, PCs
<1> QED BY <1>1, <1>2 DEF Actor, To, Go, TypeOK

LEMMA OverLemma ==
  ASSUME TypeOK, NEW a \in Actors, Over(a)
  PROVE  \E c \in Actor : Go(a, c) /\ actor'[a] = c /\ c.pc \in {"idle", "done"}
<1>1. [Idle EXCEPT !.pc = "done"] \in Actor /\ [Idle EXCEPT !.pc = "done"].pc = "done"
  BY ActorTyped DEF Idle
<1>2. Idle \in Actor /\ Idle.pc = "idle"
  BY ActorTyped DEF Idle
<1> QED BY <1>1, <1>2 DEF Over, Go, TypeOK

\* A step that moves an actor and writes through its instance keeps the types.
LEMMA SaveTyped ==
  ASSUME TypeOK, NEW a \in Actors, NEW c \in Actor, Go(a, c),
         NEW new \in Seen, doc' = doc \/ Save(a, new) \/ doc' = [doc EXCEPT !.stale = FALSE],
         chunks' \subseteq Actors \X {1, 2}, token' \subseteq Pipes,
         late' \subseteq Writers, strays' \subseteq Writers, outlived' \in BOOLEAN,
         ends' \in [Pipes -> Nat], faults' \in 0..MaxFaults
  PROVE  TypeOK'
<1>1. doc' \in Docs
  <2>1. doc \in Docs /\ actor[a].seen \in Seen
    BY ActorTyped
  <2> QED BY <2>1, UpdateLemma DEF Save, Docs
<1>2. actor' \in [Actors -> Actor] /\ overlap' \subseteq {"edit", "run"}
  BY GoLemma
<1> QED BY <1>1, <1>2 DEF TypeOK, Docs

\* Most steps leave the records of late workers as they are.
LEMMA LateTyped ==
  ASSUME TypeOK, [Next]_vars
  PROVE  late' \subseteq Writers /\ strays' \subseteq Writers /\ outlived' \in BOOLEAN
<1>0. late \subseteq Writers /\ strays \subseteq Writers /\ outlived \in BOOLEAN
  BY DEF TypeOK
<1>1. ASSUME NEW a \in Writers, Clean(a)
      PROVE  late' \subseteq Writers /\ strays' \subseteq Writers /\ outlived' \in BOOLEAN
  BY <1>0, <1>1 DEF Clean
<1>2. ASSUME NEW a \in Writers, TailFails(a) \/ LateChunk(a) \/ LateEnds(a)
      PROVE  late' \subseteq Writers /\ strays' \subseteq Writers /\ outlived' \in BOOLEAN
  BY <1>0, <1>2 DEF TailFails, LateChunk, LateEnds
<1>3. ASSUME Delete \/ \E a \in Actors : Die(a)
      PROVE  late' \subseteq Writers /\ strays' \subseteq Writers /\ outlived' \in BOOLEAN
  BY <1>0, <1>3 DEF Delete, Die
<1>4. ASSUME UNCHANGED <<late, strays, outlived>>
      PROVE  late' \subseteq Writers /\ strays' \subseteq Writers /\ outlived' \in BOOLEAN
  BY <1>0, <1>4
<1> QED
  BY <1>1, <1>2, <1>3, <1>4
  DEF Next, Server, Pipeline, Tail, Recovery, vars, written, Enqueue, Reingest, Reset, Begin,
    Extract, Defer, Stash, Error, CallBack, Claim, Parse, WritePart, WriteRest, Orphaned,
    Settle, Create, Edit, Touch, Read, RecoverConversion, RecoverIngestion, Age, Slow

\* Every step keeps the types.
LEMMA TypeStep == TypeOK /\ [Next]_vars => TypeOK'
<1> SUFFICES ASSUME TypeOK, [Next]_vars PROVE TypeOK'
  OBVIOUS
<1> USE NamesAssumption DEF written
<1>0. /\ Pipes \subseteq Actors /\ Calls \subseteq Actors /\ Writers \subseteq Actors
      /\ Reader \in Actors /\ Editor \in Actors
      /\ faults \in 0..MaxFaults /\ ends \in [Pipes -> Nat] /\ token \subseteq Pipes
      /\ chunks \subseteq Actors \X {1, 2}
      /\ late' \subseteq Writers /\ strays' \subseteq Writers /\ outlived' \in BOOLEAN
  BY LateTyped DEF Actors, Writers, TypeOK
<1>1. ASSUME NEW a \in Actors, NEW pc \in PCs, To(a, pc),
             doc' = doc \/ doc' = [doc EXCEPT !.stale = FALSE],
             chunks' \subseteq Actors \X {1, 2}, token' \subseteq Pipes,
             ends' = ends, faults' \in 0..MaxFaults
      PROVE  TypeOK'
  <2>1. [actor[a] EXCEPT !.pc = pc] \in Actor /\ Instance \in Seen
    BY ActorTyped
  <2> QED BY <1>0, <1>1, <2>1, SaveTyped DEF To
<1>2. ASSUME NEW a \in Actors, Over(a), NEW new \in Seen, doc' = doc \/ Save(a, new)
             \/ doc' = [doc EXCEPT !.stale = FALSE],
             chunks' \subseteq Actors \X {1, 2}, token' \subseteq Pipes,
             ends' = ends, faults' \in 0..MaxFaults
      PROVE  TypeOK'
  <2>1. (IF a = Reader THEN Idle ELSE [Idle EXCEPT !.pc = "done"]) \in Actor
    BY ActorTyped
  <2> QED BY <1>0, <1>2, <2>1, SaveTyped DEF Over
<1>3. Instance \in Seen /\ \A s \in Statuses, p \in Pipes \cup {None} : With(s, p) \in Seen
  BY <1>0, ActorTyped
<1>4. ASSUME NEW p \in Pipes, Enqueue(p) PROVE TypeOK'
  <2>1. doc' \in Docs
    BY <1>4 DEF Enqueue, TypeOK, Docs, Statuses
  <2>2. actor' \in [Actors -> Actor] /\ overlap' \subseteq {"edit", "run"}
    BY <1>0, <1>4, ActorTyped, GoLemma DEF Enqueue, To, PCs
  <2> QED BY <1>0, <1>4, <2>1, <2>2 DEF Enqueue, TypeOK, Docs
<1>5. ASSUME NEW p \in Pipes, Reingest(p) PROVE TypeOK'
  <2>1. [Idle EXCEPT !.pc = "clean", !.seen = Instance] \in Actor
    BY <1>0, <1>3, ActorTyped DEF PCs
  <2> QED BY <1>0, <1>3, <1>5, <2>1, SaveTyped DEF Reingest
<1>6. ASSUME NEW a \in Writers, Clean(a) PROVE TypeOK'
  BY <1>0, <1>1, <1>6 DEF Clean, Cleaned, PCs
<1>7. ASSUME NEW p \in Pipes, Reset(p) PROVE TypeOK'
  <2>1. [actor[p] EXCEPT !.pc = "queued"] \in Actor
    BY <1>0, ActorTyped DEF PCs
  <2> QED BY <1>0, <1>3, <1>7, <2>1, SaveTyped DEF Reset, To, Statuses
<1>8. ASSUME NEW p \in Pipes, Begin(p) PROVE TypeOK'
  <2>1. With("processing", doc.attempt) \in Seen
    BY <1>3 DEF TypeOK, Statuses
  <2>2. doc' \in Docs
    BY <1>0, <1>3, <1>8, <2>1, ActorTyped, UpdateLemma DEF Begin
  <2>3. actor' \in [Actors -> Actor] /\ overlap' \subseteq {"edit", "run"}
    <3>1. CASE Gone
      BY <1>0, <1>8, <3>1, ActorTyped, GoLemma DEF Begin, Over
    <3>2. CASE ~Gone
      BY <1>0, <1>8, <2>1, <3>2, ActorTyped, GoLemma DEF Begin, PCs
    <3> QED BY <3>1, <3>2
  <2> QED BY <1>0, <1>8, <2>2, <2>3 DEF Begin, TypeOK, Docs
<1>9. ASSUME NEW p \in Pipes, Extract(p) \/ Defer(p) PROVE TypeOK'
  BY <1>0, <1>1, <1>9 DEF Extract, Defer, PCs
<1>10. ASSUME NEW p \in Pipes, Stash(p) PROVE TypeOK'
  <2>1. With(actor[p].seen.status, p) \in Seen
    BY <1>0, <1>3, ActorTyped DEF Seen
  <2> QED BY <1>0, <1>2, <1>10, <2>1 DEF Stash
<1>11. ASSUME NEW a \in Writers, Error(a) \/ Settle(a) PROVE TypeOK'
  BY <1>0, <1>2, <1>3, <1>11 DEF Error, Settle, Statuses
<1>12. ASSUME NEW p \in Pipes, CallBack(p) PROVE TypeOK'
  <2> DEFINE c == CHOOSE c \in Calls : actor[c].pc = "idle"
             new == [Idle EXCEPT !.pc = "claim", !.attempt = p]
  <2>1. c \in Calls /\ Go(c, new) /\ UNCHANGED <<doc, written, token, ends, faults>>
    BY <1>12 DEF CallBack
  <2>2. new \in Actor
    BY DEF Idle, Nothing, Actor, Statuses
  <2> HIDE DEF c, new
  <2> QED BY <1>0, <1>3, <2>1, <2>2, SaveTyped
<1>13. ASSUME NEW c \in Calls, Claim(c) PROVE TypeOK'
  <2> DEFINE p == actor[c].attempt
  <2>1. CASE Awaited(p)
    <3>1. p \in Pipes \cup {None}
      BY <1>0, ActorTyped DEF Actor
    <3>2. doc' \in Docs
      BY <1>13, <2>1 DEF Claim, Claimed, TypeOK, Docs
    <3>3. actor' \in [Actors -> Actor] /\ overlap' \subseteq {"edit", "run"}
      BY <1>0, <1>13, <2>1, ActorTyped, GoLemma DEF Claim, To, PCs
    <3>4. ends' \in [Pipes -> Nat]
      BY <1>0, <1>13, <2>1, <3>1 DEF Claim
    <3> QED BY <1>0, <1>13, <3>2, <3>3, <3>4 DEF Claim, TypeOK, Docs
  <2>2. CASE ~Awaited(p)
    BY <1>0, <1>2, <1>3, <1>13, <2>2 DEF Claim
  <2> QED BY <2>1, <2>2
<1>14. ASSUME NEW c \in Calls, Parse(c) PROVE TypeOK'
  <2>1. \A pc \in PCs : [actor[c] EXCEPT !.pc = pc, !.seen = Instance] \in Actor
    BY <1>0, <1>3, ActorTyped
  <2>2. ASSUME NEW pc \in {"part", "error"},
               Go(c, [actor[c] EXCEPT !.pc = pc, !.seen = Instance]) PROVE TypeOK'
    BY <1>0, <1>3, <1>14, <2>1, <2>2, SaveTyped DEF Parse, PCs
  <2> QED BY <1>0, <1>2, <1>3, <1>14, <2>2 DEF Parse
<1>15. ASSUME NEW a \in Writers, WritePart(a) \/ WriteRest(a) PROVE TypeOK'
  BY <1>0, <1>1, <1>15 DEF WritePart, WriteRest, PCs
<1>16. ASSUME NEW a \in Writers, TailFails(a) \/ Orphaned(a) PROVE TypeOK'
  BY <1>0, <1>1, <1>2, <1>3, <1>16 DEF TailFails, Orphaned, Fails, Fault, PCs
<1>17. CASE Create
  <2>1. doc' \in Docs
    BY <1>17 DEF Create, TypeOK, Docs, Statuses
  <2>2. [Idle EXCEPT !.pc = "part"] \in Actor
    BY DEF Idle, Nothing, Actor, Statuses
  <2>3. actor' \in [Actors -> Actor] /\ overlap' \subseteq {"edit", "run"}
    BY <1>0, <1>17, <2>2, GoLemma DEF Create
  <2> QED BY <1>0, <1>17, <2>1, <2>3 DEF Create, TypeOK, Docs
<1>18. CASE Edit
  <2>1. [actor[Editor] EXCEPT !.pc = "clean"] \in Actor
    BY <1>0, ActorTyped DEF PCs
  <2>2. CASE actor' = [actor EXCEPT ![Editor].pc = "clean"] /\ overlap' = overlap \cup {"edit"}
    BY <1>0, <1>18, <2>1, <2>2 DEF Edit, Fault, TypeOK
  <2> QED BY <1>0, <1>1, <1>18, <2>2 DEF Edit, Fault, PCs
<1>19. CASE Touch
  BY <1>0, <1>2, <1>3, <1>19 DEF Touch
<1>20. CASE Delete
  BY <1>0, <1>20 DEF Delete, Fault, TypeOK, Statuses
<1>21. CASE Read
  <2>1. [Idle EXCEPT !.pc = "recover", !.seen = Instance] \in Actor
    BY <1>0, <1>3, ActorTyped DEF PCs
  <2> QED BY <1>0, <1>3, <1>21, <2>1, SaveTyped DEF Read
<1>22. CASE RecoverConversion
  <2> DEFINE p == actor[Reader].seen.attempt
  <2>1. CASE TimesOut(p)
    <3>0. p \in Pipes
      BY <1>0, <1>22, ActorTyped DEF RecoverConversion, Seen
    <3>1. /\ doc' = [status |-> "failed", attempt |-> None, stale |-> FALSE]
          /\ ends' = [ends EXCEPT ![p] = @ + 1]
      BY <1>22, <2>1 DEF RecoverConversion
    <3>3. doc' \in Docs
      BY <3>1 DEF Docs, Statuses
    <3>4. ends' \in [Pipes -> Nat]
      BY <1>0, <3>0, <3>1
    <3>2. actor' \in [Actors -> Actor] /\ overlap' \subseteq {"edit", "run"}
      BY <1>0, <1>22, ActorTyped, GoLemma DEF RecoverConversion, Over
    <3> QED BY <1>0, <1>22, <3>2, <3>3, <3>4 DEF RecoverConversion, TypeOK, Docs
  <2>2. CASE ~TimesOut(p)
    BY <1>0, <1>2, <1>3, <1>22, <2>2 DEF RecoverConversion
  <2> QED BY <2>1, <2>2
<1>23. CASE RecoverIngestion
  BY <1>0, <1>2, <1>3, <1>23 DEF RecoverIngestion, Statuses
<1>24. CASE Age \/ Slow
  <2>1. doc' = [doc EXCEPT !.stale = TRUE] /\ faults' \in 0..MaxFaults
        /\ UNCHANGED <<written, actor, token, ends, overlap>>
    BY <1>0, <1>24 DEF Age, Slow, Fault
  <2>2. doc' \in Docs
    BY <2>1, ActorTyped, <1>0 DEF Docs
  <2> QED BY <1>0, <2>1, <2>2 DEF TypeOK, Docs
<1>25. ASSUME NEW a \in Actors, Die(a) PROVE TypeOK'
  BY <1>0, <1>2, <1>3, <1>25 DEF Die, Fault
<1>26. CASE UNCHANGED vars
  BY <1>26 DEF vars, TypeOK
<1>27. ASSUME NEW a \in Writers, LateChunk(a) \/ LateEnds(a) PROVE TypeOK'
  <2>1. doc' = doc \/ doc' = [doc EXCEPT !.stale = FALSE]
    BY <1>27 DEF LateChunk, LateEnds
  <2>2. doc' \in Docs
    BY <2>1, <1>0, ActorTyped DEF Docs
  <2> QED BY <1>0, <1>27, <2>2 DEF LateChunk, LateEnds, TypeOK, Docs
<1> QED
  BY <1>27, <1>4, <1>5, <1>6, <1>7, <1>8, <1>9, <1>10, <1>11, <1>12, <1>13, <1>14, <1>15, <1>16,
     <1>17, <1>18, <1>19, <1>20, <1>21, <1>22, <1>23, <1>24, <1>25, <1>26
  DEF Next, Server, Pipeline, Tail, Recovery

(***************************************************************************)
(* Attempts.                                                               *)
(***************************************************************************)
AttemptsInv == AttemptEndsOnce /\ AttemptInv

\* A step that ends no attempt and stashes none: pipelines that are done stay done.
LEMMA AttemptFrame ==
  ASSUME AttemptsInv, NEW a \in Actors, actor[a].pc # "done" \/ actor' = actor,
         \A b \in Actors \ {a} : actor'[b] = actor[b],
         ends' = ends, doc'.attempt \in {doc.attempt, None}
  PROVE  AttemptsInv'
BY NamesAssumption DEF AttemptsInv, AttemptEndsOnce, AttemptInv, Actors

\* A step that ends the attempt the document waits for.
LEMMA AttemptEnded ==
  ASSUME TypeOK, AttemptsInv, NEW a \in Actors \ Pipes, NEW p \in Pipes, doc.attempt = p,
         \A b \in Actors \ {a} : actor'[b] = actor[b],
         ends' = [ends EXCEPT ![p] = @ + 1], doc'.attempt = None
  PROVE  AttemptsInv'
<1>1. ends[p] = 0 /\ actor[p].pc = "done" /\ ends \in [Pipes -> Nat]
  BY DEF AttemptsInv, AttemptInv, TypeOK
<1>2. ends'[p] = 1 /\ \A q \in Pipes \ {p} : ends'[q] = ends[q]
  BY <1>1
<1>3. \A q \in Pipes : actor'[q] = actor[q]
  BY DEF Actors
<1> QED BY <1>1, <1>2, <1>3, NamesAssumption DEF AttemptsInv, AttemptEndsOnce, AttemptInv

\* Every step keeps that an attempt ends once.
LEMMA AttemptStep == TypeOK /\ AttemptsInv /\ [Next]_vars => AttemptsInv'
<1> SUFFICES ASSUME TypeOK, AttemptsInv, [Next]_vars PROVE AttemptsInv'
  OBVIOUS
<1> USE NamesAssumption
<1>0. /\ Pipes \subseteq Actors /\ Calls \subseteq Actors /\ Writers \subseteq Actors
      /\ Reader \in Actors \ Pipes /\ Editor \in Actors \ Pipes /\ Calls \cap Pipes = {}
  BY DEF Actors, Writers
<1>1. ASSUME NEW a \in Actors, NEW c, Go(a, c)
      PROVE  \A b \in Actors \ {a} : actor'[b] = actor[b]
  BY <1>1 DEF Go, TypeOK
<1>2. ASSUME NEW a \in Actors, NEW c, Go(a, c), actor[a].pc # "done",
             doc' = doc \/ (\E s \in Statuses : Save(a, With(s, None))), ends' = ends
      PROVE  AttemptsInv'
  <2>1. doc'.attempt \in {doc.attempt, None}
    <3>1. ASSUME NEW s \in Statuses, Save(a, With(s, None))
          PROVE  doc'.attempt \in {doc.attempt, None}
      <4>1. With(s, None) \in Seen /\ With(s, None).attempt = None
        BY DEF With, Seen
      <4> QED BY <3>1, <4>1, ActorTyped, UpdateLemma DEF Save
    <3> QED BY <1>2, <3>1
  <2> QED BY <1>1, <1>2, <2>1, AttemptFrame
<1>3. ASSUME NEW p \in Pipes, Enqueue(p) PROVE AttemptsInv'
  <2>1. doc'.attempt = doc.attempt
    BY <1>3 DEF Enqueue, TypeOK
  <2>2. \A b \in Actors \ {p} : actor'[b] = actor[b]
    BY <1>0, <1>1, <1>3 DEF Enqueue, To
  <2>3. actor[p].pc # "done" /\ ends' = ends
    BY <1>3 DEF Enqueue, Requested
  <2> QED BY <1>0, <2>1, <2>2, <2>3, AttemptFrame
<1>4. ASSUME NEW p \in Pipes,
             Reingest(p) \/ Reset(p) \/ Extract(p) \/ Defer(p) PROVE AttemptsInv'
  BY <1>0, <1>2, <1>4 DEF Reingest, Requested, Reset, Extract, Defer, To, Statuses
<1>5. ASSUME NEW p \in Pipes, Begin(p) PROVE AttemptsInv'
  <2>1. Instance \in Seen /\ With("processing", doc.attempt) \in Seen /\ doc \in Docs
    BY <1>0, ActorTyped DEF Seen, With, Docs, Statuses
  <2>2. doc'.attempt = doc.attempt
    BY <1>5, <2>1, UpdateLemma DEF Begin, With
  <2>3. \A b \in Actors \ {p} : actor'[b] = actor[b]
    BY <1>0, <1>1, <1>5 DEF Begin, Over
  <2> QED BY <1>0, <1>5, <2>2, <2>3, AttemptFrame DEF Begin
<1>6. ASSUME NEW p \in Pipes, Stash(p) PROVE AttemptsInv'
  <2>1. actor[p].pc = "deferred" /\ actor'[p].pc = "done" /\ ends' = ends
        /\ \A b \in Actors \ {p} : actor'[b] = actor[b]
    BY <1>0, <1>1, <1>6 DEF Stash, Over, Go, TypeOK, Idle
  <2>2. ends[p] = 0
    <3>1. ends[p] # 1 /\ ends[p] <= 1 /\ ends[p] \in Nat
      BY <2>1 DEF AttemptsInv, AttemptInv, AttemptEndsOnce, TypeOK
    <3> QED BY <3>1
  <2>3. doc'.attempt \in {doc.attempt, p}
    <3>1. With(actor[p].seen.status, p) \in Seen /\ doc \in Docs /\ actor[p].seen \in Seen
          /\ With(actor[p].seen.status, p).attempt = p
      BY <1>0, ActorTyped DEF With, Seen
    <3> QED BY <1>6, <3>1, UpdateLemma DEF Stash, Save
  <2>4. \A q \in Pipes \ {p} : actor'[q] = actor[q]
    BY <1>0, <2>1
  <2> QED BY <2>1, <2>2, <2>3, <2>4 DEF AttemptsInv, AttemptInv, AttemptEndsOnce
<1>7. ASSUME NEW a \in Writers,
             Clean(a) \/ Error(a) \/ WriteRest(a) \/ Orphaned(a) \/ Settle(a) \/ TailFails(a)
      PROVE  AttemptsInv'
  BY <1>0, <1>2, <1>7
  DEF Clean, Error, WriteRest, Orphaned, Settle, TailFails, Fails, To, Over, Statuses
<1>8. ASSUME NEW a \in Writers, WritePart(a) PROVE AttemptsInv'
  <2>1. doc'.attempt = doc.attempt /\ ends' = ends /\ actor[a].pc # "done"
    BY <1>8 DEF WritePart, TypeOK
  <2> QED BY <1>0, <1>1, <1>8, <2>1, AttemptFrame DEF WritePart, To
<1>9. ASSUME NEW p \in Pipes, CallBack(p) PROVE AttemptsInv'
  <2> DEFINE c == CHOOSE c \in Calls : actor[c].pc = "idle"
  <2>1. c \in Calls /\ actor[c].pc = "idle"
    BY <1>9 DEF CallBack
  <2> QED BY <1>0, <1>2, <1>9, <2>1 DEF CallBack
<1>10. ASSUME NEW c \in Calls, Claim(c) PROVE AttemptsInv'
  <2>1. CASE Awaited(actor[c].attempt)
    <3> DEFINE p == actor[c].attempt
    <3>1. p \in Pipes \cup {None} /\ doc.attempt = p /\ c \in Actors \ Pipes
      BY <1>0, <2>1, ActorTyped DEF Actor, Awaited
    <3>2. doc'.attempt = None /\ ends' = [ends EXCEPT ![p] = @ + 1]
          /\ \A b \in Actors \ {c} : actor'[b] = actor[b]
      BY <1>0, <1>1, <1>10, <2>1 DEF Claim, Claimed, To, TypeOK
    <3>3. CASE p \in Pipes
      BY <3>1, <3>2, <3>3, AttemptEnded
    <3>4. CASE p \notin Pipes
      <4>1. ends' = ends
        BY <3>2, <3>4 DEF TypeOK
      <4> QED BY <1>10, <3>1, <3>2, <4>1, AttemptFrame DEF Claim
    <3> QED BY <3>3, <3>4
  <2>2. CASE ~Awaited(actor[c].attempt)
    BY <1>0, <1>2, <1>10, <2>2 DEF Claim, Over
  <2> QED BY <2>1, <2>2
<1>11. ASSUME NEW c \in Calls, Parse(c) PROVE AttemptsInv'
  BY <1>0, <1>2, <1>11 DEF Parse, Over
<1>12. CASE Create
  <2>1. doc'.attempt = doc.attempt
    BY <1>12 DEF Create, TypeOK
  <2> QED BY <1>0, <1>1, <1>12, <2>1, AttemptFrame DEF Create
<1>13. CASE Edit
  <2>1. \A b \in Actors \ {Editor} : actor'[b] = actor[b]
    BY <1>0, <1>1, <1>13 DEF Edit, To, TypeOK
  <2> QED BY <1>0, <1>13, <2>1, AttemptFrame DEF Edit
<1>14. CASE Touch
  <2>1. doc'.attempt = doc.attempt
    BY <1>14 DEF Touch, TypeOK
  <2> QED BY <1>0, <1>1, <1>14, <2>1, AttemptFrame DEF Touch, Over
<1>15. CASE Delete \/ Age \/ Slow
  <2>1. doc'.attempt \in {doc.attempt, None} /\ actor' = actor /\ ends' = ends
    BY <1>15 DEF Delete, Age, Slow, TypeOK
  <2> QED BY <1>0, <2>1, AttemptFrame
<1>16. CASE Read
  BY <1>0, <1>2, <1>16 DEF Read
<1>17. CASE RecoverConversion
  <2> DEFINE p == actor[Reader].seen.attempt
  <2>0. p \in Pipes
    BY <1>0, <1>17, ActorTyped DEF RecoverConversion, Seen
  <2>1. CASE TimesOut(p)
    <3>1. doc'.attempt = None /\ ends' = [ends EXCEPT ![p] = @ + 1]
          /\ \A b \in Actors \ {Reader} : actor'[b] = actor[b]
      BY <1>0, <1>1, <1>17, <2>1 DEF RecoverConversion, Over
    <3>2. doc.attempt = p
      BY <2>1 DEF TimesOut, Awaited
    <3> HIDE DEF p
    <3> QED BY <1>0, <2>0, <3>1, <3>2, AttemptEnded
  <2>2. CASE ~TimesOut(p)
    BY <1>0, <1>2, <1>17, <2>2 DEF RecoverConversion, Over
  <2> QED BY <2>1, <2>2
<1>18. CASE RecoverIngestion
  BY <1>0, <1>2, <1>18 DEF RecoverIngestion, Over, Statuses
<1>19. ASSUME NEW a \in Actors, Die(a) PROVE AttemptsInv'
  BY <1>2, <1>19 DEF Die, Over
<1>20. CASE UNCHANGED vars
  BY <1>20 DEF vars, AttemptsInv, AttemptEndsOnce, AttemptInv
<1>21. ASSUME NEW a \in Writers, LateChunk(a) \/ LateEnds(a) PROVE AttemptsInv'
  <2>1. doc'.attempt = doc.attempt /\ actor' = actor /\ ends' = ends
    BY <1>21 DEF LateChunk, LateEnds, TypeOK
  <2> QED BY <1>0, <2>1, AttemptFrame
<1> QED
  BY <1>21, <1>3, <1>4, <1>5, <1>6, <1>7, <1>8, <1>9, <1>10, <1>11, <1>12, <1>13, <1>14, <1>15,
     <1>16, <1>17, <1>18, <1>19, <1>20
  DEF Next, Server, Pipeline, Tail, Recovery

(***************************************************************************)
(* Runs.                                                                   *)
(***************************************************************************)
\* An actor that is not at work relies on nothing that others change.
LEMMA RestPlace ==
  ASSUME NEW a \in Actors, ~AtWork(actor[a]), Place(a), actor'[a] = actor[a]
  PROVE  Place(a)'
BY DEF Place, AtWork

\* Where only the actor that moves is at work, only its own place has to be shown.
LEMMA RunFrame ==
  ASSUME TypeOK, RunInv, overlap' = {}, NEW a \in Actors, NEW c \in Actor, Go(a, c),
         AtWork(actor[a]) \/ AtWork(c), Place(a)',
         doc'.status # "none",
         doc'.attempt # None => doc'.status = "processing" /\ chunks' = {},
         Gone' => chunks' = {},
         doc'.status = "ready" /\ (AtWork(c) => c.pc = "clean") => OneRun'
  PROVE  RunInv'
<1>1. \A b \in Actors \ {a} : ~AtWork(actor[b]) /\ actor'[b] = actor[b]
  BY GoLemma DEF RunInv, Alone
<1>2. actor'[a] = c
  BY GoLemma
<1>3. Alone'
  BY <1>1 DEF Alone, AtWork
<1>4. \A b \in Actors : Place(b)'
  <2>1. ASSUME NEW b \in Actors \ {a} PROVE Place(b)'
    BY <1>1, <2>1, RestPlace DEF RunInv
  <2> QED BY <2>1
<1>5. ASSUME doc'.status = "ready", \A b \in Actors : AtWork(actor[b])' => actor'[b].pc = "clean"
      PROVE  OneRun'
  BY <1>2, <1>5 DEF AtWork
<1> QED BY <1>3, <1>4, <1>5 DEF RunInv

\* A step beside the ones at work: the row and the chunks stay, but for the clock.
LEMMA BesideFrame ==
  ASSUME TypeOK, RunInv, NEW a \in Actors, ~AtWork(actor[a]), ~AtWork(actor'[a]), Place(a)',
         \A b \in Actors \ {a} : actor'[b] = actor[b],
         doc'.status = doc.status, doc'.attempt = doc.attempt, chunks' = chunks,
         faults' = faults \/ faults' > 0
  PROVE  RunInv'
<1>1. \A b \in Actors \ {a} : Place(b) => Place(b)'
  BY DEF Place, Fresh, Running, Edits, Gone, Instance, With
<1>2. Alone'
  BY DEF RunInv, Alone, AtWork
<1>3. OneRun => OneRun'
  BY DEF OneRun
<1>4. ASSUME \A b \in Actors : AtWork(actor[b])' => actor'[b].pc = "clean"
      PROVE  \A b \in Actors : AtWork(actor[b]) => actor[b].pc = "clean"
  BY <1>4 DEF AtWork
<1>5. (\A b \in Actors : ~AtWork(actor[b])) => \A b \in Actors : ~AtWork(actor[b])'
  BY DEF AtWork
<1> QED BY <1>1, <1>2, <1>3, <1>4, <1>5 DEF RunInv, Gone

\* As long as nothing overlaps, a run stays alone with the document.
LEMMA RunStep == TypeOK /\ (overlap = {} => RunInv) /\ [Next]_vars => (overlap' = {} => RunInv')
<1> SUFFICES ASSUME TypeOK, overlap = {} => RunInv, [Next]_vars, overlap' = {} PROVE RunInv'
  OBVIOUS
<1> USE NamesAssumption DEF written
<1>0. /\ Pipes \subseteq Actors /\ Calls \subseteq Actors /\ Writers \subseteq Actors
      /\ Reader \in Actors \ Writers /\ Editor \in Actors \ (Pipes \cup Calls)
      /\ Calls \cap Pipes = {} /\ None \notin Pipes
      /\ Writers = Pipes \cup Calls \cup {Editor}
  BY DEF Actors, Writers
<1>1. overlap = {}
  <2>1. ASSUME NEW a, NEW c, Go(a, c) PROVE overlap \subseteq overlap'
    BY <2>1 DEF Go
  <2> QED
    BY <2>1 DEF Next, Server, Pipeline, Tail, Recovery, vars, Enqueue, Reingest, Clean,
      Reset, Begin, Extract, Defer, Stash, Error, CallBack, Claim, Parse, WritePart,
      WriteRest, Fails, TailFails, LateChunk, LateEnds, Orphaned, Settle, Create, Edit,
      Touch, Delete, Read, RecoverConversion, RecoverIngestion, Age, Slow, Die, To, Over
<1>2. RunInv
  BY <1>1
<1>3. ASSUME NEW a \in Actors, AtWork(actor[a])
      PROVE  /\ Place(a) /\ doc.status # "none"
             /\ \A b \in Actors \ {a} : ~AtWork(actor[b])
  BY <1>2, <1>3 DEF RunInv, Alone
<1>4. /\ doc \in Docs /\ Instance \in Seen
      /\ doc.attempt # None => doc.status = "processing" /\ chunks = {}
      /\ Gone => chunks = {}
      /\ doc.status = "none" => \A b \in Actors : ~AtWork(actor[b])
  BY <1>0, <1>2, ActorTyped DEF RunInv
\* An actor that goes from one place at work to the next and leaves the status alone.
<1>5. ASSUME NEW a \in Actors, NEW pc \in PCs, To(a, pc), AtWork(actor[a]),
             pc # "clean" /\ (pc = "touch" => a = Editor /\ OneRun'),
             pc \notin {"idle", "claim", "done"}, Place(a)',
             doc' = doc \/ doc' = [doc EXCEPT !.stale = FALSE],
             chunks' # {} => doc.attempt = None /\ ~Gone
      PROVE  RunInv'
  <2>0. PICK c \in Actor : Go(a, c) /\ c.pc = pc
    BY <1>5, ToLemma
  <2>1. c \in Actor /\ c.pc = pc
    BY <2>0
  <2>2. doc'.status = doc.status /\ doc'.attempt = doc.attempt
    BY <1>4, <1>5 DEF Docs
  <2>3. AtWork(c) => c.pc # "clean"
    BY <1>5, <2>1
  <2>4. ~AtWork(c) => OneRun'
    BY <1>5, <2>1 DEF AtWork
  <2>5. Go(a, c)
    BY <2>0
  <2> QED BY <1>2, <1>3, <1>4, <1>5, <2>1, <2>2, <2>3, <2>4, <2>5, RunFrame DEF Gone
<1>6. ASSUME NEW p \in Pipes, Enqueue(p) PROVE RunInv'
  <2>1. PICK c \in Actor : c.pc = "queued" /\ Go(p, c)
    BY <1>0, <1>6, ToLemma DEF PCs, Enqueue
  <2>2. chunks' = {} /\ doc'.status = "pending" /\ doc'.attempt = None
    BY <1>2, <1>4, <1>6 DEF Enqueue, RunInv, Docs
  <2>3. actor'[p] = c /\ p \in Actors
    BY <1>0, <2>1, GoLemma
  <2>4. AtWork(c)
    BY <2>1 DEF AtWork
  <2>5. Place(p)'
    BY <1>0, <2>1, <2>2, <2>3 DEF Place, Gone
  <2> QED BY <1>2, <2>1, <2>2, <2>3, <2>4, <2>5, RunFrame
<1>7. ASSUME NEW p \in Pipes, Reingest(p) PROVE RunInv'
  <2> DEFINE c == [Idle EXCEPT !.pc = "clean", !.seen = Instance]
  <2>0. c \in Actor /\ c.pc = "clean" /\ c.seen = Instance
    <3>1. Idle \in Actor
      BY <1>0, ActorTyped
    <3> QED BY <1>4, <3>1 DEF Actor, Seen
  <2>1. c \in Actor /\ c.pc = "clean" /\ c.seen = Instance /\ Go(p, c) /\ AtWork(c)
    BY <1>7, <2>0 DEF Reingest, AtWork
  <2>2. doc' = doc /\ chunks' = chunks /\ faults' = faults /\ doc.status # "none"
    BY <1>7 DEF Reingest
  <2>3. actor'[p] = c /\ p \in Actors /\ \A b \in Actors \ {p} : ~AtWork(actor[b])
    BY <1>0, <2>1, GoLemma
  <2>4. actor[p].pc = "idle"
    BY <1>7 DEF Reingest, Requested
  <2>5. doc.status = "ready" => OneRun'
    BY <1>2, <2>2, <2>3, <2>4 DEF RunInv, OneRun, AtWork
  <2> HIDE DEF c
  <2>6. Place(p)'
    BY <1>0, <2>1, <2>2, <2>3 DEF Place, Fresh, Gone, Instance, With
  <2> QED BY <1>2, <1>4, <2>1, <2>2, <2>3, <2>5, <2>6, RunFrame DEF Gone
<1>8. ASSUME NEW a \in Writers, Clean(a) PROVE RunInv'
  <2>1. AtWork(actor[a]) /\ actor[a].pc = "clean" /\ chunks' = {} /\ doc' = doc /\ a \in Actors
    BY <1>0, <1>8 DEF Clean, Cleaned, AtWork
  <2>2. Place(a)
    BY <1>3, <2>1
  <2>3. CASE a = Editor
    <3>1. To(a, "part")
      BY <1>8, <2>3 DEF Clean
    <3>2. Place(a)'
      <4>1. actor'[a].pc = "part"
        BY <2>1, <3>1, ToLemma DEF PCs
      <4> QED BY <1>0, <2>1, <2>2, <2>3, <4>1 DEF Place, Edits
    <3> QED BY <1>5, <2>1, <3>1, <3>2 DEF PCs
  <2>4. CASE a # Editor
    <3>1. To(a, "reset")
      BY <1>8, <2>4 DEF Clean
    <3>2. Place(a)'
      <4>1. actor'[a].pc = "reset" /\ actor'[a].seen = actor[a].seen
        BY <2>1, <3>1, ToLemma DEF PCs
      <4> QED BY <1>0, <2>1, <2>2, <2>4, <4>1 DEF Place, Fresh, Gone, Instance, With
    <3> QED BY <1>5, <2>1, <3>1, <3>2 DEF PCs
  <2> QED BY <2>3, <2>4
<1>9. ASSUME NEW p \in Pipes, Reset(p) PROVE RunInv'
  <2>1. PICK c \in Actor : /\ Go(p, c) /\ actor'[p] = c
                           /\ c.pc = "queued" /\ c.seen = actor[p].seen
    BY <1>0, <1>9, ToLemma DEF PCs, Reset
  <2>2. p \in Actors /\ AtWork(actor[p]) /\ AtWork(c) /\ actor[p].pc = "reset"
    BY <1>0, <1>9, <2>1 DEF Reset, AtWork
  <2>3. Fresh(p) /\ chunks' = {} /\ doc.status # "none"
    BY <1>0, <1>3, <1>9, <2>2 DEF Reset, Place
  <2>4. IF Gone THEN doc' = doc ELSE doc'.status = "pending" /\ doc'.attempt = None
    <3>1. With("pending", None) \in Seen /\ With("pending", None).status = "pending"
          /\ With("pending", None).attempt = None /\ actor[p].seen \in Seen
      BY <2>2, ActorTyped DEF With, Seen, Statuses
    <3> QED BY <1>4, <1>9, <2>3, <3>1, UpdateLemma DEF Reset, Save, Fresh
  <2>5. Place(p)'
    BY <1>0, <2>1, <2>3, <2>4 DEF Place, Gone
  <2>6. doc'.status # "none" /\ doc'.attempt = None
    BY <1>4, <2>3, <2>4 DEF Gone
  <2> QED BY <1>2, <2>1, <2>2, <2>3, <2>5, <2>6, RunFrame
<1>10. ASSUME NEW p \in Pipes, Begin(p) PROVE RunInv'
  <2>1. p \in Actors /\ actor[p].pc = "queued" /\ AtWork(actor[p])
    BY <1>0, <1>10 DEF Begin, AtWork
  <2>2. chunks' = {} /\ doc.status # "none" /\ (Gone \/ doc.attempt = None)
    BY <1>3, <1>10, <2>1 DEF Begin, Place
  <2>3. CASE Gone
    <3>1. doc' = doc
      BY <1>10, <2>3 DEF Begin, Update
    <3>2. PICK c \in Actor : Go(p, c) /\ actor'[p] = c /\ c.pc \in {"idle", "done"}
      BY <1>10, <2>1, <2>3, OverLemma DEF Begin
    <3>3. Place(p)'
      BY <3>2 DEF Place
    <3> QED BY <1>2, <1>4, <2>1, <2>2, <2>3, <3>1, <3>2, <3>3, RunFrame DEF Gone
  <2>4. CASE ~Gone
    <3> DEFINE s == With("processing", doc.attempt)
               c == [actor[p] EXCEPT !.pc = "source", !.seen = s]
    <3>1. s \in Seen /\ s.status = "processing" /\ s.attempt = None
      BY <1>4, <2>2, <2>4 DEF With, Seen, Statuses
    <3>2. doc'.status = "processing" /\ doc'.attempt = None
      BY <1>4, <1>10, <2>4, <3>1, UpdateLemma DEF Begin
    <3>3. c \in Actor /\ c.pc = "source" /\ c.seen = s
      <4>1. actor[p] \in Actor
        BY <2>1, ActorTyped
      <4> HIDE DEF s
      <4> QED BY <3>1, <4>1 DEF Actor, Seen
    <3>4. Go(p, c)
      BY <1>10, <2>4 DEF Begin
    <3> HIDE DEF c
    <3>5. actor'[p] = c
      BY <2>1, <3>3, <3>4, GoLemma
    <3>6. Place(p)'
      BY <1>0, <2>2, <3>1, <3>2, <3>3, <3>5 DEF Place, Fresh, Running, Instance, With
    <3> QED BY <1>2, <2>1, <2>2, <3>2, <3>3, <3>4, <3>6, RunFrame DEF Gone, AtWork
  <2> QED BY <2>3, <2>4
<1>11. ASSUME NEW p \in Pipes, Extract(p) \/ Defer(p) PROVE RunInv'
  <2>1. PICK pc \in {"part", "error", "deferred"} : To(p, pc)
    BY <1>11 DEF Extract, Defer
  <2>2. p \in Actors /\ actor[p].pc = "source" /\ AtWork(actor[p])
        /\ UNCHANGED <<doc, chunks, faults>>
    BY <1>0, <1>11 DEF Extract, Defer, AtWork
  <2>3. Place(p)
    BY <1>3, <2>2
  <2>4. actor'[p].pc = pc /\ actor'[p].seen = actor[p].seen
    BY <2>1, <2>2, ToLemma DEF PCs
  <2>5. chunks = {}
    BY <2>2, <2>3 DEF Place
  <2>6. Place(p)'
    BY <1>0, <2>2, <2>3, <2>4 DEF Place, Fresh, Running, Gone, Instance, With
  <2> QED BY <1>5, <2>1, <2>2, <2>5, <2>6 DEF PCs
\* An actor that writes through its fresh instance and is over.
<1>12. ASSUME NEW a \in Actors, AtWork(actor[a]), Over(a), Fresh(a),
              NEW s \in Statuses, NEW q \in Pipes \cup {None}, Save(a, With(s, q)),
              s # "none", q # None => s = "processing", s = "ready" /\ ~Gone => OneRun',
              UNCHANGED faults, chunks' = chunks,
              s = "deleted" \/ (q # None /\ ~Gone) => chunks = {}
       PROVE  RunInv'
  <2>1. With(s, q) \in Seen /\ With(s, q).status = s /\ With(s, q).attempt = q
        /\ actor[a].seen \in Seen
    BY <1>12, ActorTyped DEF With, Seen
  <2>2. IF Gone THEN doc' = doc ELSE doc'.status = s /\ doc'.attempt = q
    BY <1>4, <1>12, <2>1, UpdateLemma DEF Save, Fresh
  <2>3. PICK c \in Actor : Go(a, c) /\ actor'[a] = c /\ c.pc \in {"idle", "done"}
    BY <1>12, OverLemma
  <2>4. Place(a)'
    BY <2>3 DEF Place
  <2> QED BY <1>2, <1>3, <1>4, <1>12, <2>2, <2>3, <2>4, RunFrame DEF Gone
<1>13. ASSUME NEW p \in Pipes, Stash(p) PROVE RunInv'
  <2>1. p \in Actors /\ actor[p].pc = "deferred" /\ AtWork(actor[p])
    BY <1>0, <1>13 DEF Stash, AtWork
  <2>2. Place(p) /\ p # Editor
    BY <1>0, <1>3, <2>1
  <2>3. Fresh(p) /\ Running /\ chunks = {}
    BY <2>1, <2>2 DEF Place
  <2>4. CASE Gone
    <3>1. doc' = doc
      BY <1>13, <2>4 DEF Stash, Save, Update
    <3>2. PICK c \in Actor : Go(p, c) /\ actor'[p] = c /\ c.pc \in {"idle", "done"}
      BY <1>13, <2>1, OverLemma DEF Stash
    <3>3. Place(p)'
      BY <3>2 DEF Place
    <3> QED BY <1>2, <1>4, <1>13, <2>1, <2>3, <2>4, <3>1, <3>2, <3>3, RunFrame DEF Gone, Stash
  <2>5. CASE ~Gone
    <3>1. actor[p].seen.status = "processing"
      BY <2>3, <2>5 DEF Fresh, Running, Instance, With
    <3> QED BY <1>0, <1>12, <1>13, <2>1, <2>3, <2>5, <3>1 DEF Stash, Statuses
  <2> QED BY <2>4, <2>5
<1>14. ASSUME NEW a \in Writers, Error(a) PROVE RunInv'
  <2>1. a \in Actors /\ actor[a].pc = "error" /\ AtWork(actor[a])
    BY <1>0, <1>14 DEF Error, AtWork
  <2>2. Fresh(a)
    BY <1>0, <1>3, <2>1 DEF Place
  <2> QED BY <1>12, <1>14, <2>1, <2>2 DEF Error, Statuses
<1>15. ASSUME NEW a \in Writers, Settle(a) PROVE RunInv'
  <2>1. a \in Actors /\ actor[a].pc = "settle" /\ AtWork(actor[a])
    BY <1>0, <1>15 DEF Settle, AtWork
  <2>2. Fresh(a) /\ (Gone \/ chunks = {a} \X {1, 2})
    BY <1>0, <1>3, <2>1 DEF Place
  <2>3. ~Gone => OneRun'
    BY <1>15, <2>2 DEF OneRun, Settle
  <2> QED BY <1>12, <1>15, <2>1, <2>2, <2>3 DEF Settle, Statuses
<1>16. ASSUME NEW p \in Pipes, CallBack(p) PROVE RunInv'
  <2>1. PICK c \in Calls : /\ actor[c].pc = "idle"
                           /\ Go(c, [Idle EXCEPT !.pc = "claim", !.attempt = p])
                           /\ UNCHANGED <<doc, chunks, faults>>
    BY <1>16 DEF CallBack
  <2>2. actor'[c] = [Idle EXCEPT !.pc = "claim", !.attempt = p]
        /\ \A b \in Actors \ {c} : actor'[b] = actor[b]
    BY <1>0, <2>1 DEF Go, TypeOK
  <2>3. actor'[c].pc = "claim" /\ actor'[c].attempt = p
    BY <2>2 DEF Idle
  <2>4. Place(c)'
    BY <1>0, <2>1, <2>3 DEF Place
  <2> QED BY <1>0, <1>2, <2>1, <2>2, <2>3, <2>4, BesideFrame DEF AtWork
\* An actor that is over while the row and the chunks stay.
<1>17. ASSUME NEW a \in Actors, Over(a), doc' = doc \/ doc' = [doc EXCEPT !.stale = FALSE],
              chunks' = chunks, faults' = faults \/ faults' > 0,
              AtWork(actor[a]) /\ doc.status = "ready" => OneRun'
       PROVE  RunInv'
  <2>1. PICK c \in Actor : Go(a, c) /\ actor'[a] = c /\ c.pc \in {"idle", "done"}
    BY <1>17, OverLemma
  <2>2. doc'.status = doc.status /\ doc'.attempt = doc.attempt
    BY <1>4, <1>17 DEF Docs
  <2>3. Place(a)' /\ ~AtWork(actor'[a])
    BY <2>1 DEF Place, AtWork
  <2>4. \A b \in Actors \ {a} : actor'[b] = actor[b]
    BY <2>1, GoLemma
  <2>5. CASE AtWork(actor[a])
    BY <1>2, <1>3, <1>4, <1>17, <2>1, <2>2, <2>3, <2>5, RunFrame DEF Gone
  <2>6. CASE ~AtWork(actor[a])
    BY <1>2, <1>17, <2>2, <2>3, <2>4, <2>6, BesideFrame
  <2> QED BY <2>5, <2>6
<1>18. ASSUME NEW c \in Calls, Claim(c) PROVE RunInv'
  <2>1. c \in Actors /\ actor[c].pc = "claim" /\ ~AtWork(actor[c])
    BY <1>0, <1>18 DEF Claim, AtWork
  <2>2. CASE Awaited(actor[c].attempt)
    <3>1. PICK d \in Actor : Go(c, d) /\ actor'[c] = d /\ d.pc = "parse"
      BY <1>18, <2>1, <2>2, ToLemma DEF Claim, PCs
    <3>2. doc'.status = "processing" /\ doc'.attempt = None /\ chunks' = chunks
      BY <1>4, <1>18, <2>2 DEF Claim, Claimed, Awaited, Docs
    <3>3. chunks = {}
      BY <1>0, <1>2, <1>4, <2>1, <2>2 DEF Awaited, RunInv, Place
    <3>4. Place(c)'
      BY <1>0, <3>1, <3>2, <3>3 DEF Place, Running
    <3> QED BY <1>2, <2>1, <3>1, <3>2, <3>3, <3>4, RunFrame DEF Gone, AtWork
  <2>3. CASE ~Awaited(actor[c].attempt)
    BY <1>17, <1>18, <2>1, <2>3 DEF Claim
  <2> QED BY <2>2, <2>3
<1>19. ASSUME NEW c \in Calls, Parse(c) PROVE RunInv'
  <2>1. c \in Actors /\ actor[c].pc = "parse" /\ AtWork(actor[c])
        /\ UNCHANGED <<doc, chunks, faults>>
    BY <1>0, <1>19 DEF Parse, AtWork
  <2>2. chunks = {} /\ Running /\ c # Editor
    BY <1>0, <1>3, <2>1 DEF Place
  <2>3. ASSUME NEW pc \in {"part", "error"}, ~Gone,
               Go(c, [actor[c] EXCEPT !.pc = pc, !.seen = Instance])
        PROVE  RunInv'
    <3> DEFINE d == [actor[c] EXCEPT !.pc = pc, !.seen = Instance]
    <3>1. d \in Actor /\ d.pc = pc /\ d.seen = Instance
      <4>1. actor[c] \in Actor
        BY <2>1, ActorTyped
      <4> QED BY <1>4, <4>1 DEF Actor, Seen
    <3>2. Go(c, d)
      BY <2>3
    <3> HIDE DEF d
    <3>3. actor'[c] = d
      BY <2>1, <3>1, <3>2, GoLemma
    <3>4. Place(c)'
      BY <1>0, <2>1, <2>2, <3>1, <3>3 DEF Place, Fresh, Running, Gone, Instance, With
    <3> QED BY <1>2, <1>3, <1>4, <2>1, <2>2, <3>1, <3>2, <3>4, RunFrame DEF Gone, AtWork
  <2>4. CASE Over(c)
    BY <1>17, <2>1, <2>2, <2>4 DEF Running, Gone
  <2> QED BY <1>19, <2>3, <2>4 DEF Parse
<1>20. ASSUME NEW a \in Writers, WritePart(a) PROVE RunInv'
  <2>1. a \in Actors /\ actor[a].pc = "part" /\ AtWork(actor[a]) /\ ~Gone /\ To(a, "rest")
        /\ chunks' = chunks \cup {<<a, 1>>}
    BY <1>0, <1>20 DEF WritePart, AtWork
  <2>2. actor'[a].pc = "rest" /\ actor'[a].seen = actor[a].seen
    BY <2>1, ToLemma DEF PCs
  <2>3. Place(a) /\ chunks = {}
    BY <1>3, <2>1 DEF Place
  <2>4. doc' = doc \/ doc' = [doc EXCEPT !.stale = FALSE]
    BY <1>20 DEF WritePart
  <2>5. doc'.status = doc.status /\ doc'.attempt = doc.attempt
    BY <1>4, <2>4 DEF Docs
  <2>6. Place(a)'
    BY <1>0, <2>1, <2>2, <2>3, <2>5 DEF Place, Edits, Fresh, Running, Gone, Instance, With
  <2>7. doc.attempt = None
    BY <1>4, <2>1, <2>3 DEF Place, Edits, Running
  <2> QED BY <1>5, <2>1, <2>4, <2>6, <2>7 DEF PCs
<1>21. ASSUME NEW a \in Writers, WriteRest(a) PROVE RunInv'
  <2>1. a \in Actors /\ actor[a].pc = "rest" /\ AtWork(actor[a]) /\ ~Gone
        /\ chunks' = chunks \cup {<<a, 2>>} /\ doc' = doc
    BY <1>0, <1>21 DEF WriteRest, AtWork
  <2>2. Place(a) /\ chunks = {<<a, 1>>}
    BY <1>3, <2>1 DEF Place
  <2>3. chunks' = {a} \X {1, 2}
    BY <2>1, <2>2
  <2>4. OneRun'
    BY <2>3 DEF OneRun
  <2>5. doc.attempt = None
    BY <1>4, <2>2
  <2>6. CASE a = Editor
    <3>1. To(a, "touch")
      BY <1>21, <2>6 DEF WriteRest
    <3>2. actor'[a].pc = "touch"
      BY <2>1, <3>1, ToLemma DEF PCs
    <3>3. Place(a)'
      BY <2>6, <3>2 DEF Place
    <3> QED BY <1>5, <2>1, <2>4, <2>5, <2>6, <3>1, <3>3 DEF PCs
  <2>7. CASE a # Editor
    <3>1. To(a, "settle")
      BY <1>21, <2>7 DEF WriteRest
    <3>2. actor'[a].pc = "settle" /\ actor'[a].seen = actor[a].seen
      BY <2>1, <3>1, ToLemma DEF PCs
    <3>3. Place(a)'
      BY <1>0, <2>1, <2>2, <2>3, <2>7, <3>2 DEF Place, Fresh, Running, Gone, Instance, With
    <3> QED BY <1>5, <2>1, <2>5, <3>1, <3>3 DEF PCs
  <2> QED BY <2>6, <2>7
<1>22. ASSUME NEW a \in Writers, TailFails(a) \/ Orphaned(a) PROVE RunInv'
  <2>1. a \in Actors /\ actor[a].pc \in {"part", "rest", "settle"} /\ AtWork(actor[a])
        /\ (actor[a].pc = "settle" => TailFails(a)) /\ Fails(a) /\ UNCHANGED <<doc, chunks>> /\ (faults' = faults \/ faults' > 0)
    BY <1>0, <1>22 DEF TailFails, Orphaned, Fault, AtWork, TypeOK
  <2>2. Place(a) /\ (chunks # {} => doc.attempt = None /\ ~Gone)
    BY <1>3, <1>4, <2>1
  <2>3. CASE a \in Pipes
    <3>1. To(a, "error")
      BY <2>1, <2>3 DEF Fails
    <3>2. actor'[a].pc = "error" /\ actor'[a].seen = actor[a].seen
      BY <2>1, <3>1, ToLemma DEF PCs
    <3>3. Place(a)'
      BY <1>0, <2>1, <2>2, <2>3, <3>2 DEF Place, Fresh, Running, Gone, Instance, With
    <3> QED BY <1>5, <2>1, <2>2, <3>1, <3>3 DEF PCs
  <2>4. CASE a \notin Pipes
    <3>1. Over(a)
      BY <2>1, <2>4 DEF Fails
    <3>2. doc.status = "ready" => a = Editor
      BY <2>1, <2>2 DEF Place, Running, Gone
    <3>3. doc.status = "ready" => OneRun'
      BY <1>22, <2>1, <2>2, <3>2 DEF Place, Gone, OneRun, TailFails, Orphaned, Fault, TypeOK
    <3> QED BY <1>17, <2>1, <3>1, <3>3
  <2> QED BY <2>3, <2>4
<1>23. CASE Create
  <2> DEFINE c == [Idle EXCEPT !.pc = "part"]
  <2>1. c \in Actor /\ c.pc = "part"
    BY DEF Idle, Nothing, Actor, Statuses
  <2>2. Go(Editor, c) /\ Editor \in Actors
    BY <1>0, <1>23 DEF Create
  <2> HIDE DEF c
  <2>3. actor'[Editor] = c
    BY <2>1, <2>2, GoLemma
  <2>4. doc'.status = "ready" /\ doc'.attempt = None /\ chunks' = {}
    BY <1>2, <1>4, <1>23 DEF Create, RunInv, Docs
  <2>5. Place(Editor)'
    BY <1>0, <2>1, <2>3, <2>4 DEF Place, Edits
  <2> QED BY <1>2, <2>1, <2>2, <2>4, <2>5, RunFrame DEF Gone, AtWork
<1>24. CASE Edit
  <2>1. To(Editor, "touch") \/ (doc.status \in {"ready", "failed"} /\ To(Editor, "clean"))
    BY <1>24 DEF Edit
  <2>2. actor[Editor].pc = "idle" /\ UNCHANGED <<doc, chunks>> /\ faults' > 0 /\ Editor \in Actors
    BY <1>0, <1>24 DEF Edit, Fault, TypeOK
  <2>3. CASE To(Editor, "touch")
    <3>1. actor'[Editor].pc = "touch" /\ \A b \in Actors \ {Editor} : actor'[b] = actor[b]
      BY <2>2, <2>3, ToLemma, GoLemma DEF PCs
    <3>2. Place(Editor)'
      BY <3>1 DEF Place
    <3> QED BY <1>2, <2>2, <3>1, <3>2, BesideFrame DEF AtWork
  <2>4. CASE doc.status \in {"ready", "failed"} /\ To(Editor, "clean")
    <3>1. PICK c \in Actor : Go(Editor, c) /\ actor'[Editor] = c /\ c.pc = "clean"
      BY <2>2, <2>4, ToLemma DEF PCs
    <3>2. Place(Editor)'
      BY <1>0, <2>2, <2>4, <3>1 DEF Place, Edits
    <3>3. \A b \in Actors \ {Editor} : ~AtWork(actor[b])
      BY <2>2, <3>1, GoLemma DEF AtWork
    <3>4. doc.status = "ready" => OneRun'
      BY <1>2, <2>2, <3>3 DEF RunInv, OneRun, AtWork
    <3> QED BY <1>2, <1>4, <2>2, <2>4, <3>1, <3>2, <3>4, RunFrame DEF Gone, AtWork
  <2> QED BY <2>1, <2>3, <2>4
<1>25. CASE Touch
  <2>1. ~AtWork(actor[Editor])
    BY <1>25 DEF Touch, AtWork
  <2> QED BY <1>0, <1>17, <1>25, <2>1 DEF Touch
<1>26. CASE Delete
  <2>1. doc'.status = "deleted" /\ doc'.attempt = None /\ chunks' = {} /\ actor' = actor
    BY <1>26 DEF Delete
  <2>2. \A a \in Actors : Place(a)'
    BY <1>2, <2>1 DEF RunInv, Place, Fresh, Running, Edits, Gone
  <2> QED BY <1>2, <2>1, <2>2 DEF RunInv, Alone
<1>27. CASE Read
  <2> DEFINE c == [Idle EXCEPT !.pc = "recover", !.seen = Instance]
  <2>1. c \in Actor /\ c.pc = "recover" /\ c.seen = Instance
    <3>1. Idle \in Actor
      BY <1>0, ActorTyped
    <3> QED BY <1>4, <3>1 DEF Actor, Seen
  <2>2. Go(Reader, c) /\ Reader \in Actors /\ UNCHANGED <<doc, chunks>>
        /\ doc.status \in {"pending", "processing"}
    BY <1>0, <1>27 DEF Read, Stale
  <2> HIDE DEF c
  <2>3. actor'[Reader] = c
    BY <2>1, <2>2, GoLemma
  <2>4. Place(Reader)'
    BY <1>0, <2>1, <2>2, <2>3 DEF Place, Fresh, Instance, With
  <2> QED BY <1>2, <1>4, <2>1, <2>2, <2>4, RunFrame DEF Gone, AtWork
<1>28. CASE RecoverConversion
  <2>1. Reader \in Actors /\ actor[Reader].pc = "recover" /\ AtWork(actor[Reader])
        /\ Over(Reader) /\ UNCHANGED <<chunks, faults>>
    BY <1>0, <1>28 DEF RecoverConversion, AtWork
  <2>2. Place(Reader)
    BY <1>3, <2>1
  <2>3. CASE TimesOut(actor[Reader].seen.attempt)
    <3>1. doc'.status = "failed" /\ doc'.attempt = None
      BY <1>28, <2>3 DEF RecoverConversion
    <3>2. PICK c \in Actor : Go(Reader, c) /\ actor'[Reader] = c /\ c.pc \in {"idle", "done"}
      BY <2>1, OverLemma
    <3>3. Place(Reader)'
      BY <3>2 DEF Place
    <3> QED BY <1>2, <2>1, <3>1, <3>2, <3>3, RunFrame DEF Gone
  <2>4. CASE ~TimesOut(actor[Reader].seen.attempt)
    <3>1. doc.status # "ready"
      BY <2>1, <2>2 DEF Place, Gone
    <3> QED BY <1>17, <1>28, <2>1, <2>4, <3>1 DEF RecoverConversion
  <2> QED BY <2>3, <2>4
<1>29. CASE RecoverIngestion
  <2>1. Reader \in Actors /\ actor[Reader].pc = "recover" /\ AtWork(actor[Reader])
    BY <1>0, <1>29 DEF RecoverIngestion, AtWork
  <2>2. Fresh(Reader)
    BY <1>3, <2>1 DEF Place
  <2> QED BY <1>12, <1>29, <2>1, <2>2 DEF RecoverIngestion, Statuses
<1>30. CASE Age \/ Slow
  <2>1. doc'.status = doc.status /\ doc'.attempt = doc.attempt /\ chunks' = chunks
        /\ actor' = actor /\ (faults' = faults \/ faults' > 0)
    BY <1>4, <1>30 DEF Age, Slow, Fault, Docs, TypeOK
  <2>2. \A b \in Actors : Place(b) => Place(b)'
    BY <2>1 DEF Place, Fresh, Running, Edits, Gone, Instance, With
  <2>3. OneRun => OneRun'
    BY <2>1 DEF OneRun
  <2> QED BY <1>2, <2>1, <2>2, <2>3 DEF RunInv, Alone, Gone
<1>31. ASSUME NEW a \in Actors, Die(a) PROVE RunInv'
  <2>1. Over(a) /\ UNCHANGED <<doc, chunks>> /\ faults' > 0
    BY <1>31 DEF Die, Fault, TypeOK
  <2>2. ASSUME AtWork(actor[a]), doc.status = "ready" PROVE OneRun'
    <3>1. Place(a) /\ \A b \in Actors \ {a} : ~AtWork(actor[b])
      BY <1>3, <2>2
    <3>2. CASE actor[a].pc = "clean"
      BY <1>2, <2>1, <2>2, <3>1, <3>2 DEF RunInv, OneRun
    <3>3. CASE actor[a].pc = "rest"
      <4>1. chunks = {<<a, 1>>} /\ a = Editor
        BY <2>2, <3>1, <3>3 DEF Place, Gone, Running
      <4> QED BY <2>1, <4>1 DEF OneRun
    <3>4. CASE actor[a].pc \in {"reset", "part"}
      <4>1. chunks = {}
        BY <3>1, <3>4 DEF Place
      <4> QED BY <2>1, <4>1 DEF OneRun
    <3>5. actor[a].pc \in {"clean", "rest", "reset", "part"}
      <4>1. actor[a].pc \in PCs
        BY DEF TypeOK, Actor, PCs
      <4> QED BY <1>0, <2>2, <3>1, <4>1 DEF Place, Gone, Running, AtWork, PCs
    <3> QED BY <3>2, <3>3, <3>4, <3>5
  <2> QED BY <1>17, <2>1, <2>2
<1>32. ASSUME NEW a \in Writers, LateChunk(a) \/ LateEnds(a) PROVE RunInv'
  <2>1. doc'.status = doc.status /\ doc'.attempt = doc.attempt /\ chunks' = chunks
        /\ actor' = actor /\ faults' = faults
    BY <1>4, <1>32 DEF LateChunk, LateEnds, Docs
  <2>2. \A b \in Actors : Place(b) => Place(b)'
    BY <2>1 DEF Place, Fresh, Running, Edits, Gone, Instance, With
  <2>3. OneRun => OneRun'
    BY <2>1 DEF OneRun
  <2> QED BY <1>2, <2>1, <2>2, <2>3 DEF RunInv, Alone, Gone
<1>33. CASE UNCHANGED vars
  BY <1>2, <1>33 DEF vars, RunInv, Alone, Place, OneRun, Fresh, Running, Edits, Gone,
    Instance, With
<1> QED
  BY <1>6, <1>7, <1>8, <1>9, <1>10, <1>11, <1>13, <1>14, <1>15, <1>16, <1>18, <1>19, <1>20,
     <1>21, <1>22, <1>23, <1>24, <1>25, <1>26, <1>27, <1>28, <1>29, <1>30, <1>31, <1>32, <1>33
  DEF Next, Server, Pipeline, Tail, Recovery

(***************************************************************************)
(* Late workers.                                                           *)
(***************************************************************************)
\* A step of another actor, or the last one of the run that failed, that leaves a document
\* with workers still writing to it not ready.
LEMMA LateFrame ==
  ASSUME NEW a \in Writers, Leftover(a), late' \cup strays' \subseteq late \cup strays,
         chunks' \subseteq chunks, doc'.status # "none", doc'.attempt = None,
         doc'.status = "ready" => doc.status = "ready",
         NEW b \in Actors, \A c \in Actors \ {b} : actor'[c] = actor[c],
         IF b = a THEN actor'[b].pc \in {"error", "done"}
         ELSE actor'[b].pc \in {"idle", "clean", "claim", "touch", "recover", "done"}
  PROVE  Leftover(a)'
<1>1. a \in Actors
  BY DEF Actors, Writers
<1>2. actor'[a].pc \in {"error", "done"}
  BY <1>1 DEF Leftover
<1>3. \A c \in Actors \ {a} :
        actor'[c].pc \in {"idle", "clean", "claim", "touch", "recover", "done"}
  BY DEF Leftover
<1> QED BY <1>2, <1>3 DEF Leftover

\* Whoever is late has failed and nobody has begun anew, as long as no chunks were deleted
\* under its workers.
LEMMA LateStep ==
  ASSUME TypeOK, overlap = {} => RunInv /\ (outlived \/ LateInv), [Next]_vars, overlap' = {}
  PROVE  outlived' \/ LateInv'
<1> USE NamesAssumption DEF written
<1>0. /\ Pipes \subseteq Actors /\ Calls \subseteq Actors /\ Writers \subseteq Actors
      /\ Reader \in Actors \ Writers /\ Editor \in Actors \ (Pipes \cup Calls)
      /\ Calls \cap Pipes = {} /\ None \notin Pipes
      /\ Writers = Pipes \cup Calls \cup {Editor}
      /\ late \cup strays \subseteq Writers
  BY DEF Actors, Writers, TypeOK
<1>1. RunInv /\ (outlived \/ LateInv)
  <2>1. ASSUME NEW a, NEW c, Go(a, c) PROVE overlap \subseteq overlap'
    BY <2>1 DEF Go
  <2> QED
    BY <2>1 DEF Next, Server, Pipeline, Tail, Recovery, vars, Enqueue, Reingest, Clean,
      Reset, Begin, Extract, Defer, Stash, Error, CallBack, Claim, Parse, WritePart,
      WriteRest, Fails, TailFails, LateChunk, LateEnds, Orphaned, Settle, Create, Edit,
      Touch, Delete, Read, RecoverConversion, RecoverIngestion, Age, Slow, Die, To, Over
<1>10. ASSUME NEW b \in Writers, Clean(b) PROVE outlived' \/ LateInv'
  <2>1. CASE late = {}
    BY <1>10, <2>1 DEF Clean, LateInv
  <2>2. CASE late # {}
    BY <1>10, <2>2 DEF Clean
  <2> QED BY <2>1, <2>2
<1> SUFFICES ASSUME UNCHANGED outlived, ~outlived', NEW a \in (late \cup strays)'
             PROVE  Leftover(a)'
  <2>1. UNCHANGED outlived \/ \E b \in Writers : Clean(b)
    BY DEF Next, Server, Pipeline, Tail, Recovery, vars, Enqueue, Reingest,
      Reset, Begin, Extract, Defer, Stash, Error, CallBack, Claim, Parse, WritePart,
      WriteRest, TailFails, LateChunk, LateEnds, Orphaned, Settle, Create, Edit,
      Touch, Delete, Read, RecoverConversion, RecoverIngestion, Age, Slow, Die
  <2> QED BY <1>10, <2>1 DEF LateInv
<1>2. RunInv /\ \A x \in late \cup strays : Leftover(x)
  <2>1. ~outlived
    BY Zenon
  <2> QED BY <1>1, <2>1 DEF LateInv
<1>3. doc \in Docs /\ Instance \in Seen
  BY <1>0, ActorTyped
<1>4. ASSUME NEW b \in Actors,
             actor[b].pc \in {"reset", "queued", "source", "deferred", "parse", "part",
                              "rest", "settle"}
      PROVE  late = {} /\ strays = {}
  BY <1>2, <1>4 DEF Leftover
\* Where nobody was late before and nobody becomes late, there is nothing to show.
<1>5. ASSUME UNCHANGED <<late, strays>> PROVE a \in late \cup strays /\ Leftover(a)
  BY <1>2, <1>5
<1>6. ASSUME NEW b \in Actors,
             actor[b].pc \in {"reset", "queued", "source", "deferred", "parse", "part",
                              "rest", "settle"},
             UNCHANGED <<late, strays>>
      PROVE  FALSE
  BY <1>4, <1>5, <1>6
<1>7. ASSUME NEW p \in Pipes,
             Reset(p) \/ Begin(p) \/ Extract(p) \/ Defer(p) \/ Stash(p)
      PROVE  FALSE
  BY <1>0, <1>6, <1>7 DEF Reset, Begin, Extract, Defer, Stash
<1>8. ASSUME NEW b \in Writers, WritePart(b) \/ WriteRest(b) \/ Orphaned(b) \/ Settle(b)
      PROVE  FALSE
  BY <1>0, <1>6, <1>8 DEF WritePart, WriteRest, Orphaned, Settle
<1>9. ASSUME NEW c \in Calls, Parse(c) PROVE FALSE
  BY <1>0, <1>6, <1>9 DEF Parse
<1>11. ASSUME Create \/ \E p \in Pipes : Enqueue(p) PROVE FALSE
  BY <1>5, <1>11 DEF Create, Enqueue, Leftover
\* The moves of an actor that leave the document and its chunks as they are.
<1>12. ASSUME UNCHANGED <<late, strays>>, chunks' = chunks,
              doc' = doc \/ doc' = [doc EXCEPT !.stale = FALSE],
              NEW b \in Actors, b # a, \A c \in Actors \ {b} : actor'[c] = actor[c],
              actor'[b].pc \in {"idle", "clean", "claim", "touch", "recover", "done"}
       PROVE  Leftover(a)'
  <2>1. a \in Writers /\ Leftover(a)
    BY <1>0, <1>5, <1>12
  <2>2. doc'.status = doc.status /\ doc'.attempt = doc.attempt
    BY <1>3, <1>12 DEF Docs
  <2>3. doc'.status # "none" /\ doc'.attempt = None
    BY <2>1, <2>2 DEF Leftover
  <2> QED BY <1>12, <2>1, <2>2, <2>3, LateFrame
<1>13. ASSUME NEW b \in Actors, actor[b].pc \notin {"error", "done"}, UNCHANGED <<late, strays>>
       PROVE  b # a
  BY <1>5, <1>13 DEF Leftover
<1>14. ASSUME NEW p \in Pipes, Reingest(p) PROVE Leftover(a)'
  <2>1. actor' = [actor EXCEPT ![p] = [Idle EXCEPT !.pc = "clean", !.seen = Instance]]
        /\ actor[p].pc = "idle" /\ UNCHANGED <<doc, chunks, late, strays>>
    BY <1>14 DEF Reingest, Requested, Go
  <2>2. actor'[p].pc = "clean" /\ \A c \in Actors \ {p} : actor'[c] = actor[c]
    BY <1>0, <2>1 DEF Idle, TypeOK
  <2> QED BY <1>0, <1>12, <1>13, <2>1, <2>2
<1>15. CASE Edit
  <2>1. /\ actor[Editor].pc = "idle" /\ UNCHANGED <<doc, chunks, late, strays>>
        /\ actor'[Editor].pc \in {"touch", "clean"}
        /\ \A c \in Actors \ {Editor} : actor'[c] = actor[c]
    BY <1>0, <1>15 DEF Edit, To, Go, TypeOK, Actor
  <2> QED BY <1>0, <1>12, <1>13, <2>1
<1>16. ASSUME NEW p \in Pipes, CallBack(p) PROVE Leftover(a)'
  <2>1. PICK c \in Calls : /\ actor[c].pc = "idle"
                           /\ Go(c, [Idle EXCEPT !.pc = "claim", !.attempt = p])
                           /\ UNCHANGED <<doc, chunks, late, strays>>
    BY <1>16 DEF CallBack
  <2>2. actor'[c] = [Idle EXCEPT !.pc = "claim", !.attempt = p]
        /\ \A b \in Actors \ {c} : actor'[b] = actor[b]
    BY <1>0, <2>1 DEF Go, TypeOK
  <2>3. actor'[c].pc = "claim"
    BY <2>2 DEF Idle
  <2> QED BY <1>0, <1>12, <1>13, <2>1, <2>2, <2>3
\* An actor that is over beside it.
<1>17. ASSUME NEW b \in Actors, Over(b)
       PROVE  /\ actor'[b].pc \in {"idle", "done"} /\ (b # Reader => actor'[b].pc = "done")
              /\ \A c \in Actors \ {b} : actor'[c] = actor[c]
  BY <1>17 DEF Over, Go, TypeOK, Idle
<1>18. ASSUME NEW c \in Calls, Claim(c) PROVE Leftover(a)'
  <2>1. c \in Actors /\ actor[c].pc = "claim" /\ UNCHANGED <<chunks, late, strays>>
    BY <1>0, <1>18 DEF Claim
  <2>2. actor[c].attempt \in Pipes
    BY <1>2, <2>1 DEF RunInv, Place
  <2>3. ~Awaited(actor[c].attempt)
    BY <1>0, <1>5, <2>1, <2>2 DEF Awaited, Leftover
  <2> QED BY <1>12, <1>13, <1>17, <1>18, <2>1, <2>3 DEF Claim
<1>19. CASE Touch
  <2>1. Editor \in Actors /\ actor[Editor].pc = "touch" /\ Over(Editor)
        /\ UNCHANGED <<chunks, late, strays>>
        /\ (doc' = doc \/ doc' = [doc EXCEPT !.stale = FALSE])
    BY <1>0, <1>19 DEF Touch
  <2> QED BY <1>12, <1>13, <1>17, <2>1
<1>20. CASE Read
  <2>1. actor' = [actor EXCEPT ![Reader] = [Idle EXCEPT !.pc = "recover", !.seen = Instance]]
        /\ actor[Reader].pc = "idle" /\ UNCHANGED <<doc, chunks, late, strays>>
    BY <1>20 DEF Read, Go
  <2>2. actor'[Reader].pc = "recover" /\ \A c \in Actors \ {Reader} : actor'[c] = actor[c]
    BY <1>0, <2>1 DEF Idle, TypeOK
  <2> QED BY <1>0, <1>12, <1>13, <2>1, <2>2
<1>21. CASE RecoverConversion
  <2>1. Reader \in Actors /\ actor[Reader].pc = "recover" /\ UNCHANGED <<chunks, late, strays>>
        /\ actor[Reader].seen.attempt # None /\ Over(Reader)
    BY <1>0, <1>21 DEF RecoverConversion
  <2>2. ~TimesOut(actor[Reader].seen.attempt)
    BY <1>5, <2>1 DEF TimesOut, Awaited, Leftover
  <2> QED BY <1>12, <1>13, <1>17, <1>21, <2>1, <2>2 DEF RecoverConversion
\* An actor that fails the document through its fresh instance.
<1>22. ASSUME NEW b \in Actors, Fresh(b), Save(b, With("failed", None)), Over(b),
              UNCHANGED <<chunks, late, strays>>,
              b = a => b # Reader
       PROVE  Leftover(a)'
  <2>1. a \in Writers /\ Leftover(a)
    BY <1>0, <1>5, <1>22
  <2>2. With("failed", None) \in Seen /\ With("failed", None).status = "failed"
        /\ With("failed", None).attempt = None /\ actor[b].seen \in Seen
    BY ActorTyped DEF With, Seen, Statuses
  <2>3. IF Gone THEN doc' = doc ELSE doc'.status = "failed" /\ doc'.attempt = None
    BY <1>3, <1>22, <2>2, UpdateLemma DEF Save, Fresh
  <2>4. doc'.status \notin {"none", "ready"} /\ doc'.attempt = None
    BY <2>1, <2>3 DEF Leftover, Gone
  <2> QED BY <1>17, <1>22, <2>1, <2>4, LateFrame
<1>23. CASE RecoverIngestion
  <2>1. Reader \in Actors /\ actor[Reader].pc = "recover"
    BY <1>0, <1>23 DEF RecoverIngestion
  <2>2. Fresh(Reader)
    BY <1>2, <2>1 DEF RunInv, Place
  <2>3. UNCHANGED <<late, strays>>
    BY <1>23 DEF RecoverIngestion
  <2> QED BY <1>13, <1>22, <1>23, <2>1, <2>2, <2>3 DEF RecoverIngestion
<1>24. ASSUME NEW b \in Writers, Error(b) PROVE Leftover(a)'
  <2>1. b \in Actors /\ actor[b].pc = "error" /\ b # Reader /\ b # Editor
    BY <1>0, <1>2, <1>24 DEF Error, RunInv, Place
  <2>2. Fresh(b)
    BY <1>2, <2>1 DEF RunInv, Place
  <2> QED BY <1>22, <1>24, <2>1, <2>2 DEF Error
<1>25. ASSUME NEW b \in Writers, TailFails(b) PROVE Leftover(a)'
  <2>1. b \in Actors /\ actor[b].pc \in {"part", "rest", "settle"} /\ Fails(b)
        /\ UNCHANGED <<doc, chunks, strays>> /\ b # Reader
    BY <1>0, <1>25 DEF TailFails
  <2>2. late = {} /\ strays = {}
    BY <1>4, <2>1
  <2>3. a = b /\ actor[b].pc \in {"part", "rest"} /\ (late \cup strays)' = {b}
    BY <1>25, <2>2 DEF TailFails
  <2>4. AtWork(actor[b]) /\ Place(b) /\ \A c \in Actors \ {b} : ~AtWork(actor[c])
    BY <1>2, <2>1, <2>3 DEF AtWork, RunInv, Alone
  <2>5. actor'[b].pc \in {"error", "done"} /\ \A c \in Actors \ {b} : actor'[c] = actor[c]
    <3>1. CASE b \in Pipes
      <4>1. Go(b, [actor[b] EXCEPT !.pc = "error"]) /\ actor[b] \in Actor
        BY <2>1, <3>1 DEF Fails, To, TypeOK
      <4> QED BY <2>1, <4>1 DEF Go, TypeOK, Actor
    <3>2. CASE b \notin Pipes
      BY <1>17, <2>1, <3>2 DEF Fails
    <3> QED BY <3>1, <3>2
  <2>6. doc.status # "none" /\ doc.attempt = None /\ (doc.status = "ready" => b = Editor)
    BY <1>2, <2>1, <2>3, <2>4 DEF RunInv, Place, Edits, Running, Gone
  <2>7. chunks \subseteq {<<b, 1>>}
    BY <1>2, <2>3, <2>4 DEF RunInv, Place
  <2>8. \A c \in Actors \ {b} : actor[c].pc \in {"idle", "claim", "touch", "done"}
    BY <2>4 DEF AtWork
  <2> QED BY <2>1, <2>3, <2>5, <2>6, <2>7, <2>8 DEF Leftover
\* Where no actor moves.
<1>26. ASSUME (late \cup strays)' \subseteq late \cup strays, actor' = actor,
              chunks' \subseteq chunks, doc'.status # "none", doc'.attempt = None,
              doc'.status = "ready" => doc.status = "ready"
       PROVE  Leftover(a)'
  <2>1. a \in Writers /\ a \in Actors /\ Leftover(a)
    BY <1>0, <1>2, <1>26
  <2> QED BY <1>26, <2>1, LateFrame DEF Leftover
<1>27. ASSUME NEW b \in Writers, LateChunk(b) \/ LateEnds(b) PROVE Leftover(a)'
  <2>1. (late \cup strays)' \subseteq late \cup strays /\ actor' = actor /\ chunks' = chunks
    BY <1>27 DEF LateChunk, LateEnds
  <2>2. Leftover(a)
    BY <1>2, <2>1
  <2>3. doc'.status = doc.status /\ doc'.attempt = doc.attempt
    BY <1>3, <1>27 DEF LateChunk, LateEnds, Docs
  <2> QED BY <1>26, <2>1, <2>2, <2>3 DEF Leftover
<1>28. CASE Delete
  BY <1>26, <1>28 DEF Delete
<1>29. CASE Age \/ Slow
  <2>1. UNCHANGED <<late, strays, actor, chunks>>
    BY <1>29 DEF Age, Slow
  <2>2. doc'.status = doc.status /\ doc'.attempt = doc.attempt
    BY <1>3, <1>29 DEF Age, Slow, Docs
  <2> QED BY <1>5, <1>26, <2>1, <2>2 DEF Leftover
<1>30. ASSUME NEW b \in Actors, Die(b) PROVE Leftover(a)'
  <2>1. (late \cup strays)' \subseteq late \cup strays /\ Over(b) /\ UNCHANGED <<doc, chunks>>
    BY <1>30 DEF Die
  <2>2. a \in Writers /\ Leftover(a)
    BY <1>0, <1>2, <2>1
  <2>3. IF b = a THEN actor'[b].pc \in {"error", "done"}
        ELSE actor'[b].pc \in {"idle", "clean", "claim", "touch", "recover", "done"}
    BY <1>0, <1>17, <2>1, <2>2
  <2>4. doc'.status # "none" /\ doc'.attempt = None
    BY <2>1, <2>2 DEF Leftover
  <2> QED BY <1>17, <2>1, <2>2, <2>3, <2>4, LateFrame
<1>31. ASSUME NEW b \in Writers, Clean(b) PROVE Leftover(a)'
  <2>1. LateInv'
    BY <1>10, <1>31, Zenon
  <2> QED BY <2>1 DEF LateInv
<1>32. CASE UNCHANGED vars
  BY <1>5, <1>32 DEF vars, Leftover
<1> QED
  BY <1>7, <1>8, <1>9, <1>11, <1>14, <1>15, <1>16, <1>18, <1>19, <1>20, <1>21, <1>23,
     <1>24, <1>25, <1>27, <1>28, <1>29, <1>30, <1>31, <1>32
  DEF Next, Server, Pipeline, Tail, Recovery

(***************************************************************************)
(* Theorems.                                                               *)
(***************************************************************************)
LEMMA InitInv == Init => IngestInv
<1> SUFFICES ASSUME Init PROVE IngestInv
  OBVIOUS
<1> USE NamesAssumption DEF Init
<1>1. TypeOK
  <2>1. outlived \in BOOLEAN
    BY Zenon
  <2> QED BY <2>1 DEF TypeOK, Statuses, Idle, Nothing, Actor
<1>2. AttemptEndsOnce /\ AttemptInv
  BY DEF AttemptEndsOnce, AttemptInv
<1>3. RunInv /\ LateInv
  BY DEF RunInv, LateInv, Alone, Place, Gone, Idle, AtWork
<1> QED BY <1>1, <1>2, <1>3 DEF IngestInv

\* However pipelines, repeated callbacks, readers, edits and deletions interleave and
\* whoever dies: an attempt ends at most once, by the callback that claims it or by the
\* time-out of a reader.  A run that nothing overlaps relies on its own writes only, but
\* for the workers a run that failed has left behind: unless the chunks are deleted under
\* them, they write to a document that is not ready or to an edit that is not complete.
THEOREM IngestCorrect == Spec => []IngestInv
<1>1. Init => IngestInv
  BY InitInv
<1>2. IngestInv /\ [Next]_vars => IngestInv'
  BY TypeStep, AttemptStep, RunStep, LateStep DEF IngestInv, AttemptsInv
<1> QED BY <1>1, <1>2, PTL DEF Spec

\* A ready document has all chunks of one run or one edit and none of another, unless two
\* overlapped, somebody died between his writes, or the chunks were deleted while workers
\* of a run that failed went on writing: those get into the next run.
THEOREM ReadyHasOneRun == Spec => []ReadyIsOneRun
<1>1. IngestInv => ReadyIsOneRun
  <2> SUFFICES ASSUME IngestInv, doc.status = "ready", overlap = {},
                      \A a \in Actors : ~AtWork(actor[a])
               PROVE  OneRun /\ (outlived \/ strays = {}
                                 \/ (strays = {Editor} /\ chunks \subseteq {<<Editor, 1>>}))
    BY DEF ReadyIsOneRun
  <2>1. OneRun
    BY DEF IngestInv, RunInv
  <2>2. ASSUME ~outlived, strays # {}
        PROVE  strays = {Editor} /\ chunks \subseteq {<<Editor, 1>>}
    <3>1. \A a \in strays : Leftover(a)
      BY <2>2 DEF IngestInv, LateInv
    <3>2. \A a \in strays : a = Editor /\ chunks \subseteq {<<Editor, 1>>}
      BY <3>1 DEF Leftover
    <3> QED BY <2>2, <3>2
  <2> QED BY <2>1, <2>2
<1> QED BY <1>1, IngestCorrect, PTL
=============================================================================
