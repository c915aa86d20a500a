------------------------- MODULE DocumentIngestion -------------------------
(***************************************************************************)
(* One document and the ingestions of its file: the pipeline started by    *)
(* enqueueDocumentIngestion or reingestDocument (lib/documentIngestion.ts),*)
(* its tail (lib/documentIngestionCore.ts), the callbacks of a converter   *)
(* that deferred its result, and the recovery of a stalled document by     *)
(* whoever reads it (lib/ingestionCallback.ts); and its creation from      *)
(* text, edits and deletion (lib/documents.ts, lib/documentContent.ts).    *)
(*                                                                         *)
(* Everyone holds an instance of the document; doc.update(v) writes the    *)
(* fields of v that differ from that instance.  An ingestion attempt is    *)
(* named by its pipeline.  The chunks of a run are written in two parts,   *)
(* by workers that share a cursor: when one of them fails the run is over, *)
(* but the others go on with the chunks that are left (lib/chunking.ts).   *)
(***************************************************************************)
EXTENDS Naturals, FiniteSets

CONSTANTS MaxPipes,   \* bound: ingestions of the document
          Calls,      \* bound: callbacks that reach the server
          Reader,     \* the requests that read the document, one at a time
          Editor,     \* bound: one request that creates or edits the document
          None,
          MaxFaults   \* bound: crashes, slow steps, failing tails, edits, deletions

Pipes == 1..MaxPipes
Actors == Pipes \cup Calls \cup {Reader, Editor}
Writers == Pipes \cup Calls \cup {Editor}

ASSUME NamesAssumption ==
  /\ MaxPipes \in Nat \ {0} /\ MaxFaults \in Nat
  /\ Reader \notin Writers /\ Editor \notin Pipes \cup Calls
  /\ Calls \cap Pipes = {} /\ None \notin Pipes

VARIABLES doc,      \* status, conversion_attempt_id, and no write for the stall timeout
          chunks,   \* parts of the chunks, by who wrote them
          late,     \* those who are out of a run, but have workers that still write
          strays,   \* those whose workers have added chunks after that
          outlived, \* history: somebody was late when chunks were last deleted
          actor,    \* pipelines, callbacks, the reader and the editor
          token,    \* the converters that hold a token and have deferred
          ends,     \* history: per attempt, callbacks accepted and time-outs
          overlap,  \* history: two were at work at one time, an edit and a run or two runs
          faults

written == <<chunks, late, strays, outlived>>
vars == <<doc, chunks, late, strays, outlived, actor, token, ends, overlap, faults>>

Statuses == {"none", "pending", "processing", "ready", "failed", "deleted"}

Actor == [pc: {"idle", "clean", "reset", "queued", "source", "deferred", "claim", "parse",
               "part", "rest", "settle", "touch", "error", "recover", "done"},
          attempt: Pipes \cup {None},      \* of a callback: its token's
          seen: [status: Statuses, attempt: Pipes \cup {None}]]  \* its instance

Nothing == [status |-> "none", attempt |-> None]
Idle == [pc |-> "idle", attempt |-> None, seen |-> Nothing]

TypeOK ==
  /\ doc \in [status: Statuses, attempt: Pipes \cup {None}, stale: BOOLEAN]
  /\ chunks \subseteq (Actors \X {1, 2}) /\ late \subseteq Writers /\ strays \subseteq Writers
  /\ outlived \in BOOLEAN
  /\ actor \in [Actors -> Actor] /\ token \subseteq Pipes
  /\ ends \in [Pipes -> Nat]
  /\ overlap \subseteq {"edit", "run"} /\ faults \in 0..MaxFaults

Init ==
  /\ doc = [status |-> "none", attempt |-> None, stale |-> FALSE]
  /\ chunks = {} /\ late = {} /\ strays = {} /\ outlived = FALSE
  /\ actor = [a \in Actors |-> Idle] /\ token = {}
  /\ ends = [p \in Pipes |-> 0] /\ overlap = {} /\ faults = 0

(***************************************************************************)
(* Helpers.                                                                *)
(***************************************************************************)
AtWork(c) == c.pc \notin {"idle", "claim", "touch", "done"}
Both(a, b) == IF Editor \in {a, b} THEN "edit" ELSE "run"
Together(a, c) == {Both(a, b) : b \in {b \in Actors \ {a} : AtWork(c) /\ AtWork(actor[b])}}
Go(a, c) ==
  /\ actor' = [actor EXCEPT ![a] = c]
  /\ overlap' = overlap \cup Together(a, c)
To(a, pc) == Go(a, [actor[a] EXCEPT !.pc = pc])
Over(a) == Go(a, IF a = Reader THEN Idle ELSE [Idle EXCEPT !.pc = "done"])
Gone == doc.status = "deleted"
Fault == faults < MaxFaults /\ faults' = faults + 1

With(s, a) == [status |-> s, attempt |-> a]
Instance == With(doc.status, doc.attempt)

\* instance.update(new) with old in the instance: what is equal is not written.
Update(old, new) ==
  IF Gone THEN doc ELSE
  [status |-> IF new.status # old.status THEN new.status ELSE doc.status,
   attempt |-> IF new.attempt # old.attempt THEN new.attempt ELSE doc.attempt,
   stale |-> doc.stale /\ new = old]

Save(a, new) == doc' = Update(actor[a].seen, new)

(***************************************************************************)
(* Requests.                                                               *)
(***************************************************************************)
\* Pipelines are numbered in the order in which they are requested.
Requested(p) == actor[p].pc = "idle" /\ \A q \in Pipes : q < p => actor[q].pc # "idle"

Enqueue(p) ==
  /\ Requested(p) /\ doc.status = "none"
  /\ doc' = [doc EXCEPT !.status = "pending"]
  /\ To(p, "queued")
  /\ UNCHANGED <<written, token, ends, faults>>

Reingest(p) ==
  /\ Requested(p) /\ doc.status \notin {"none", "deleted"}
  /\ Go(p, [Idle EXCEPT !.pc = "clean", !.seen = Instance])
  /\ UNCHANGED <<doc, written, token, ends, faults>>

\* Mutant: the chunks of the run before stay.
CleanedNot == chunks

Cleaned == {}

\* What is late is not waited for.
Clean(a) ==
  /\ actor[a].pc = "clean"
  /\ chunks' = Cleaned /\ strays' = {}
  /\ outlived' = (late # {})
  /\ To(a, IF a = Editor THEN "part" ELSE "reset")
  /\ UNCHANGED <<doc, late, token, ends, faults>>

Reset(p) ==
  /\ actor[p].pc = "reset"
  /\ Save(p, With("pending", None))
  /\ To(p, "queued")
  /\ UNCHANGED <<written, token, ends, faults>>

(***************************************************************************)
(* processDocumentIngestion and runIngestionPipeline.                      *)
(***************************************************************************)
Begin(p) ==
  /\ actor[p].pc = "queued"
  /\ doc' = Update(Instance, With("processing", doc.attempt))
  /\ IF Gone THEN Over(p) ELSE Go(p, [actor[p] EXCEPT !.pc = "source", !.seen = With("processing", doc.attempt)])
  /\ UNCHANGED <<written, token, ends, faults>>

\* The text is extracted here, or by a converter that answers at once; there may be none.
Extract(p) ==
  /\ actor[p].pc = "source"
  /\ \E pc \in {"part", "error"} : To(p, pc)
  /\ UNCHANGED <<doc, written, token, ends, faults>>

\* A converter defers: it has its token before its answer is here, and a request
\* that waits for the document fails for it.
Defer(p) ==
  /\ actor[p].pc = "source"
  /\ token' = token \cup {p}
  /\ \E pc \in {"deferred", "error"} : To(p, pc)
  /\ UNCHANGED <<doc, written, ends, faults>>

Stash(p) ==
  /\ actor[p].pc = "deferred"
  /\ Save(p, With(actor[p].seen.status, p))
  /\ Over(p)
  /\ UNCHANGED <<written, token, ends, faults>>

\* The catch-all of the pipeline, and a file without text.
Error(a) ==
  /\ actor[a].pc = "error"
  /\ Save(a, With("failed", None))
  /\ Over(a)
  /\ UNCHANGED <<written, token, ends, faults>>

(***************************************************************************)
(* completeIngestionCallback.                                              *)
(***************************************************************************)
\* A converter calls back, maybe again.
CallBack(p) ==
  LET c == CHOOSE c \in Calls : actor[c].pc = "idle" IN
  /\ p \in token /\ \E d \in Calls : actor[d].pc = "idle"
  /\ Go(c, [Idle EXCEPT !.pc = "claim", !.attempt = p])
  /\ UNCHANGED <<doc, written, token, ends, faults>>

Awaited(p) == doc.status = "processing" /\ doc.attempt = p

Claimed == [doc EXCEPT !.attempt = None, !.stale = FALSE]

Claim(c) ==
  LET p == actor[c].attempt IN
  /\ actor[c].pc = "claim"
  /\ IF Awaited(p)
     THEN doc' = Claimed /\ ends' = [ends EXCEPT ![p] = @ + 1] /\ To(c, "parse")
     ELSE Over(c) /\ UNCHANGED <<doc, ends>>  \* INGESTION_CALLBACK_CONFLICT
  /\ UNCHANGED <<written, token, faults>>

\* The document is read again.  Invalid output leaves it as it is; no pages fail it.
Parse(c) ==
  /\ actor[c].pc = "parse"
  /\ \/ ~Gone /\ \E pc \in {"part", "error"} : Go(c, [actor[c] EXCEPT !.pc = pc, !.seen = Instance])
     \/ Over(c)
  /\ UNCHANGED <<doc, written, token, ends, faults>>

(***************************************************************************)
(* finalizeIngestedPages, in a pipeline or in a callback, and the writing  *)
(* of chunks by the editor.                                                *)
(***************************************************************************)
\* Progress is written with the first chunks of an ingestion.
WritePart(a) ==
  /\ actor[a].pc = "part" /\ ~Gone
  /\ chunks' = chunks \cup {<<a, 1>>}
  /\ doc' = IF a = Editor THEN doc ELSE [doc EXCEPT !.stale = FALSE]
  /\ To(a, "rest")
  /\ UNCHANGED <<late, strays, outlived, token, ends, faults>>

WriteRest(a) ==
  /\ actor[a].pc = "rest" /\ ~Gone
  /\ chunks' = chunks \cup {<<a, 2>>}
  /\ To(a, IF a = Editor THEN "touch" ELSE "settle")
  /\ UNCHANGED <<doc, late, strays, outlived, token, ends, faults>>

\* A pipeline catches the failure of its tail, a callback and the editor do not.
Fails(a) == IF a \in Pipes THEN To(a, "error") ELSE Over(a)

\* One insert is enough to end it, whatever the other workers of persistChunks do.
TailFails(a) ==
  /\ actor[a].pc \in {"part", "rest", "settle"} /\ Fault
  /\ late' \in IF actor[a].pc = "settle" THEN {late} ELSE {late, late \cup {a}}
  /\ Fails(a)
  /\ UNCHANGED <<doc, chunks, strays, outlived, token, ends>>

LateChunk(a) ==
  /\ a \in late /\ ~Gone
  /\ strays' = strays \cup {a}
  /\ doc' \in {doc, [doc EXCEPT !.stale = FALSE]}
  /\ UNCHANGED <<chunks, late, outlived, actor, token, ends, overlap, faults>>

\* The chunks are at an end, or the insert fails for this worker too.
LateEnds(a) ==
  /\ a \in late
  /\ late' = late \ {a}
  /\ UNCHANGED <<doc, chunks, strays, outlived, actor, token, ends, overlap, faults>>

\* No chunk can be written for a document that is deleted.
Orphaned(a) ==
  /\ actor[a].pc \in {"part", "rest"} /\ Gone
  /\ Fails(a)
  /\ UNCHANGED <<doc, written, token, ends, faults>>

Settle(a) ==
  /\ actor[a].pc = "settle"
  /\ Save(a, With("ready", None))
  /\ Over(a)
  /\ UNCHANGED <<written, token, ends, faults>>

(***************************************************************************)
(* createDocument, updateDocument, updateDocumentTags, deleteDocument.     *)
(***************************************************************************)
\* A document made from text is ready before its chunks are written.
Create ==
  /\ doc.status = "none" /\ actor[Editor].pc = "idle"
  /\ doc' = [doc EXCEPT !.status = "ready"]
  /\ Go(Editor, [Idle EXCEPT !.pc = "part"])
  /\ UNCHANGED <<written, token, ends, faults>>

\* The chunks are made anew if the text or a chunk setting is given, even while an
\* ingestion waits for its turn or for a converter.
Edit ==
  /\ doc.status \notin {"none", "deleted"} /\ actor[Editor].pc = "idle" /\ Fault
  /\ \/ To(Editor, "touch")
     \/ doc.status \in {"ready", "failed"} /\ To(Editor, "clean")
     \/ /\ doc.status \in {"pending", "processing"}
        /\ actor' = [actor EXCEPT ![Editor].pc = "clean"]
        /\ overlap' = overlap \cup {"edit"}
  /\ UNCHANGED <<doc, written, token, ends>>

\* Other columns are written if they have changed, which moves updated_at.
Touch ==
  /\ actor[Editor].pc = "touch"
  /\ \/ UNCHANGED doc
     \/ doc' = [doc EXCEPT !.stale = FALSE]
  /\ Over(Editor)
  /\ UNCHANGED <<written, token, ends, faults>>

\* The chunks are deleted with the document.
Delete ==
  /\ doc.status \notin {"none", "deleted"} /\ Fault
  /\ doc' = [status |-> "deleted", attempt |-> None, stale |-> FALSE]
  /\ chunks' = {} /\ strays' = {}
  /\ UNCHANGED <<late, outlived, actor, token, ends, overlap>>

(***************************************************************************)
(* recoverStaleDocument.                                                   *)
(***************************************************************************)
\* Mutant: only a document that is processing can be stale.
StaleProcessing == doc.status = "processing" /\ doc.stale

\* isIngestionStale.
Stale == doc.status \in {"pending", "processing"} /\ doc.stale

Read ==
  /\ actor[Reader].pc = "idle" /\ Stale
  /\ Go(Reader, [Idle EXCEPT !.pc = "recover", !.seen = Instance])
  /\ UNCHANGED <<doc, written, token, ends, faults>>

\* Mutant: the document is failed whatever it has become.
TimesOutAlways(p) == TRUE

TimesOut(p) == Awaited(p)

RecoverConversion ==
  LET p == actor[Reader].seen.attempt IN
  /\ actor[Reader].pc = "recover" /\ p # None
  /\ IF TimesOut(p)
     THEN /\ doc' = [status |-> "failed", attempt |-> None, stale |-> FALSE]
          /\ ends' = [ends EXCEPT ![p] = @ + 1]
     ELSE UNCHANGED <<doc, ends>>
  /\ Over(Reader)
  /\ UNCHANGED <<written, token, faults>>

RecoverIngestion ==
  /\ actor[Reader].pc = "recover" /\ actor[Reader].seen.attempt = None
  /\ Save(Reader, With("failed", None))
  /\ Over(Reader)
  /\ UNCHANGED <<written, token, ends, faults>>

(***************************************************************************)
(* The environment.                                                        *)
(***************************************************************************)
\* Nothing has been written for the stall timeout: nobody is at work.
Age ==
  /\ doc.status \in {"pending", "processing"} /\ ~doc.stale
  /\ late = {} /\ \A a \in Actors : ~AtWork(actor[a])
  /\ doc' = [doc EXCEPT !.stale = TRUE]
  /\ UNCHANGED <<written, actor, token, ends, overlap, faults>>

\* Or somebody is, slowly.
Slow ==
  /\ doc.status \in {"pending", "processing"} /\ ~doc.stale /\ Fault
  /\ late # {} \/ \E a \in Actors : AtWork(actor[a])
  /\ doc' = [doc EXCEPT !.stale = TRUE]
  /\ UNCHANGED <<written, actor, token, ends, overlap>>

Die(a) ==
  /\ actor[a].pc \notin {"idle", "done"} /\ Fault
  /\ late' = late \ {a}
  /\ Over(a)
  /\ UNCHANGED <<doc, chunks, strays, outlived, token, ends>>

Pipeline(p) == Reset(p) \/ Begin(p) \/ Extract(p) \/ Defer(p) \/ Stash(p)
Tail(a) == Clean(a) \/ Error(a) \/ WritePart(a) \/ WriteRest(a) \/ Orphaned(a) \/ Settle(a)
Recovery == Read \/ RecoverConversion \/ RecoverIngestion

Server ==
  \/ \E p \in Pipes : Pipeline(p)
  \/ \E c \in Calls : Claim(c) \/ Parse(c)
  \/ \E a \in Writers : Tail(a) \/ LateChunk(a) \/ LateEnds(a)
  \/ Touch

Next ==
  \/ Server \/ Recovery \/ Age \/ Slow
  \/ \E p \in Pipes : Enqueue(p) \/ Reingest(p)
  \/ \E p \in Pipes : CallBack(p)
  \/ \E a \in Writers : TailFails(a)
  \/ Create \/ Edit \/ Delete
  \/ \E a \in Actors : Die(a)

Spec == Init /\ [][Next]_vars
\* What has begun goes on, time passes, and the document is read now and then.  No
\* converter has to call back, and nobody has to ingest again or edit.
FairSpec == Spec /\ WF_vars(Server) /\ WF_vars(Recovery) /\ WF_vars(Age)

(***************************************************************************)
(* Properties.                                                             *)
(***************************************************************************)
\* An attempt ends once: a callback that is accepted or a time-out, never two of them,
\* whatever calls are repeated and however readers and converters race.
AttemptEndsOnce == \A p \in Pipes : ends[p] <= 1

\* Because only its pipeline stashes an attempt, and whoever ends it takes it off the row.
AttemptInv == \A p \in Pipes :
  /\ ends[p] = 1 \/ doc.attempt = p => actor[p].pc = "done"
  /\ doc.attempt = p => ends[p] = 0

\* What one actor at work relies on, as long as it is alone: its instance is the row,
\* and the chunks are those it has written.
Alone == \A a, b \in Actors : AtWork(actor[a]) /\ AtWork(actor[b]) => a = b

Fresh(a) == Gone \/ actor[a].seen = Instance
Running == Gone \/ (doc.status = "processing" /\ doc.attempt = None)
Edits == doc.status \in {"ready", "failed", "deleted"}

Place(a) ==
  LET pc == actor[a].pc IN
  /\ pc \in {"clean", "part", "rest"} => a # Reader /\ (a = Editor => Edits)
  /\ pc = "clean" => a \notin Calls
  /\ pc \in {"reset", "queued", "source", "deferred"} => a \in Pipes
  /\ pc \in {"settle", "error"} => a \in Pipes \cup Calls
  /\ pc \in {"claim", "parse"} => a \in Calls
  /\ pc = "claim" => actor[a].attempt \in Pipes
  /\ pc = "touch" => a = Editor
  /\ pc = "recover" => a = Reader /\ (Gone \/ doc.status \in {"pending", "processing"})
  /\ pc \in {"clean", "reset"} /\ a \in Pipes => Fresh(a)
  /\ pc \in {"source", "deferred", "part", "rest", "settle", "error"} /\ a # Editor
       => Fresh(a) /\ Running
  /\ pc = "parse" => Running
  /\ pc = "recover" => Fresh(a)
  /\ pc = "queued" => Gone \/ (doc.status = "pending" /\ doc.attempt = None)
  /\ pc \in {"reset", "queued", "source", "deferred", "parse", "part"} => chunks = {}
  /\ pc = "rest" => Gone \/ chunks = {<<a, 1>>}
  /\ pc = "settle" => Gone \/ chunks = {a} \X {1, 2}

OneRun == \/ \E a \in Writers : chunks = {a} \X {1, 2}
          \/ faults > 0 /\ chunks \subseteq {<<Editor, 1>>}

RunInv ==
  /\ Alone /\ \A a \in Actors : Place(a)
  /\ doc.status = "none" => chunks = {} /\ \A a \in Actors : ~AtWork(actor[a])
  /\ doc.attempt # None => doc.status = "processing" /\ chunks = {}
  /\ Gone => chunks = {}
  /\ doc.status = "ready" /\ (\A a \in Actors : AtWork(actor[a]) => actor[a].pc = "clean")
       => OneRun

\* Unless the chunks were deleted under them, workers that are late write to a document
\* their run has failed, or to what is left of an edit.
Leftover(a) ==
  /\ actor[a].pc \in {"error", "done"} /\ doc.status # "none" /\ doc.attempt = None
  /\ doc.status = "ready" => a = Editor
  /\ chunks \subseteq {<<a, 1>>} /\ \A b \in late \cup strays : b = a
  /\ \A b \in Actors \ {a} : actor[b].pc \in {"idle", "clean", "claim", "touch", "recover", "done"}

LateInv == \A a \in late \cup strays : Leftover(a)

\* The document and those at work on it are well formed, an attempt ends once, and a run
\* that is alone has the document to itself, but for the late workers of one that failed.
IngestInv ==
  /\ TypeOK /\ AttemptEndsOnce /\ AttemptInv
  /\ overlap = {} => RunInv /\ (outlived \/ LateInv)

\* Unless two were at work at one time, a document that is ready has all chunks of one
\* run, or of one edit, and none of another; only a re-ingest that died between its two
\* writes leaves none, and a creation or an edit that died or failed leaves part of its
\* own.  A re-ingest that does not wait for late workers gets their chunks as well.
ReadyIsOneRun ==
  doc.status = "ready" /\ overlap = {} /\ (\A a \in Actors : ~AtWork(actor[a])) =>
    /\ OneRun
    /\ outlived \/ strays = {} \/ (strays = {Editor} /\ chunks \subseteq {<<Editor, 1>>})

\* A document that is read now and then is ready, failed or deleted in the end, whoever
\* died or never called back; two runs at one time may leave what nobody recovers.
IngestionSettles ==
  []<>(doc.status \notin {"pending", "processing"} \/ "run" \in overlap)

\* ingestion-rules.md: a callback for an attempt superseded by a re-ingest is refused.
SupersededRefused ==
  [][\A c \in Calls, p, q \in Pipes :
       actor[c].pc = "claim" /\ actor[c].attempt = p /\ actor'[c].pc = "parse" /\ q > p
         => actor[q].pc \in {"idle", "clean", "reset"}]_vars
=============================================================================
