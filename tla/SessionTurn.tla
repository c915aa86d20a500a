---------------------------- MODULE SessionTurn ----------------------------
(***************************************************************************)
(* A session and the turns its agent takes in it: addSessionMessage and    *)
(* generateSessionResponse (lib/sessionOperations.ts), the debounce timer  *)
(* (lib/sessionDelayHelpers.ts), the reading of the conversation and the   *)
(* insertion of the answer (lib/conversationGeneration.ts and              *)
(* lib/conversationMessages.ts).                                           *)
(*                                                                         *)
(* A turn is cancelled through a map of abort controllers that each        *)
(* process has for itself; processes see each other only through           *)
(* generating_at, which is read on a snapshot and written unguarded.  A    *)
(* stamp of generating_at is named by the turn that wrote it.  Messages    *)
(* are kept in the order of their positions.                               *)
(***************************************************************************)
EXTENDS Naturals, Sequences, FiniteSets, SequencesExt

CONSTANTS Hosts,
          Callers,      \* bound: the processes that are called when turns are asked for
          MaxTurns,     \* bound: calls of generateSessionResponse
          MaxMessages,  \* bound: what the user says
          None,
          MaxFaults     \* bound: failed calls, crashes, stamps that age, closings

\* Both are numbered in the order in which they come.
Turns == 1..MaxTurns
Messages == (MaxTurns + 1)..(MaxTurns + MaxMessages)

ASSUME NamesAssumption ==
  /\ MaxTurns \in Nat /\ MaxMessages \in Nat /\ MaxFaults \in Nat
  /\ None \notin Nat \cup Hosts /\ Callers \subseteq Hosts

VARIABLES mode,   \* auto_generate, and whether message_delay_seconds is positive
          row,    \* the session: status and generating_at
          log,    \* conversation_messages by position
          ctrl,   \* per process: the turn whose controller is in the map
          timer,  \* per process: a debounce timer is set
          post,   \* per message: its addSessionMessage call
          turn,   \* the generateSessionResponse calls
          closer, \* the updateSession call that closes the session
          faults

vars == <<mode, row, log, ctrl, timer, post, turn, closer, faults>>

Post == [pc: {"idle", "insert", "trigger", "done"}, host: Hosts \cup {None},
         seen: Turns \cup {None}]

Turn == [pc: {"idle", "load", "check", "mark", "read", "model", "insert", "end", "free",
              "drop", "done", "refused"},
         host: Hosts \cup {None}, seen: Turns \cup {None}, aborted: BOOLEAN,
         old: BOOLEAN,   \* its stamp is older than GENERATING_TIMEOUT_MS
         ctx: SUBSET (Messages \cup Turns),
         at: Nat \cup {None}]   \* snapshotPosition, once read

NoPost == [pc |-> "idle", host |-> None, seen |-> None]
NoTurn == [pc |-> "idle", host |-> None, seen |-> None, aborted |-> FALSE, old |-> FALSE,
           ctx |-> {}, at |-> None]

TypeOK ==
  /\ mode \in {"explicit", "auto", "debounced"}
  /\ row \in [status: {"open", "closed"}, gen: Turns \cup {None}]
  /\ log \in Seq(Messages \cup Turns)
  /\ ctrl \in [Hosts -> Turns \cup {None}]
  /\ timer \in [Hosts -> BOOLEAN]
  /\ post \in [Messages -> Post] /\ turn \in [Turns -> Turn]
  /\ closer \in Hosts \cup {None}
  /\ faults \in 0..MaxFaults

Init ==
  /\ mode \in {"explicit", "auto", "debounced"}
  /\ row = [status |-> "open", gen |-> None]
  /\ log = <<>>
  /\ ctrl = [h \in Hosts |-> None] /\ timer = [h \in Hosts |-> FALSE]
  /\ post = [m \in Messages |-> NoPost] /\ turn = [t \in Turns |-> NoTurn]
  /\ closer = None /\ faults = 0

Go(t, c) == turn' = [turn EXCEPT ![t] = c]
\* What is left of a call that is over.
Over(c, how) == [c EXCEPT !.pc = how, !.host = None, !.seen = None, !.aborted = FALSE]
Fault == faults < MaxFaults /\ faults' = faults + 1

\* A call of generateSessionResponse begins on h.
Begin(t, h) ==
  /\ turn[t].pc = "idle" /\ \A u \in 1..(t - 1) : turn[u].pc # "idle"
  /\ Go(t, [NoTurn EXCEPT !.pc = "load", !.host = h])

\* Somebody else is inserting a message as well: the unique index on the position
\* lets one of the two fail.
Contended(x) ==
  \/ \E m \in Messages \ {x} : post[m].pc = "insert"
  \/ \E t \in Turns \ {x} : turn[t].pc = "insert"

(***************************************************************************)
(* addSessionMessage.                                                      *)
(***************************************************************************)
PostLoad(m, h) ==
  /\ post[m].pc = "idle" /\ row.status = "open"
  /\ \A n \in Messages : n < m => post[n].pc # "idle"
  /\ mode = "explicit" => h \in Callers
  /\ post' = [post EXCEPT ![m] = [pc |-> "insert", host |-> h, seen |-> row.gen]]
  /\ UNCHANGED <<mode, row, log, ctrl, timer, turn, closer, faults>>

\* triggerOrScheduleGeneration decides on the session loaded before the insertion.
Triggers(m) == mode # "explicit" /\ post[m].seen = None

\* Without a position the message is appended.
PostInsert(m) ==
  /\ post[m].pc = "insert"
  /\ log' = Append(log, m)
  /\ post' = [post EXCEPT ![m].pc = IF Triggers(m) THEN "trigger" ELSE "done"]
  /\ UNCHANGED <<mode, row, ctrl, timer, turn, closer, faults>>

PostConflict(m) ==
  /\ post[m].pc = "insert" /\ Contended(m) /\ Fault
  /\ post' = [post EXCEPT ![m].pc = "done"]
  /\ UNCHANGED <<mode, row, log, ctrl, timer, turn, closer>>

PostTrigger(m) ==
  LET h == post[m].host IN
  /\ post[m].pc = "trigger"
  /\ post' = [post EXCEPT ![m].pc = "done"]
  /\ \/ mode = "debounced" /\ timer' = [timer EXCEPT ![h] = TRUE]
        /\ UNCHANGED turn
     \/ mode = "auto" /\ (\E t \in Turns : Begin(t, h))
        /\ UNCHANGED timer
  /\ UNCHANGED <<mode, row, log, ctrl, closer, faults>>

TimerFires(h) ==
  /\ timer[h]
  /\ timer' = [timer EXCEPT ![h] = FALSE]
  /\ \E t \in Turns : Begin(t, h)
  /\ UNCHANGED <<mode, row, log, ctrl, post, closer, faults>>

(***************************************************************************)
(* generateSessionResponse.                                                *)
(***************************************************************************)
Generate(t, h) ==
  /\ mode = "explicit" /\ h \in Callers /\ Begin(t, h)
  /\ UNCHANGED <<mode, row, log, ctrl, timer, post, closer, faults>>

Load(t) ==
  /\ turn[t].pc = "load"
  /\ Go(t, IF row.status = "closed" THEN Over(turn[t], "done") ELSE [turn[t] EXCEPT !.pc = "check", !.seen = row.gen])
  /\ UNCHANGED <<mode, row, log, ctrl, timer, post, closer, faults>>

\* A stamp younger than GENERATING_TIMEOUT_MS in the snapshot.
Busy(t) == turn[t].seen # None /\ ~turn[turn[t].seen].old

\* Turn u is aborted if its controller is the one in the map of h.
AbortOn(h) ==
  [u \in Turns |-> IF ctrl[h] = u THEN [turn[u] EXCEPT !.aborted = TRUE] ELSE turn[u]]

\* checkConcurrency: whoever finds a controller takes over from its turn.
Refused(t) == ctrl[turn[t].host] = None /\ Busy(t)

\* Mutant: the new controller is in the map when the old one is aborted.
TakeOverLate(t) == [AbortOn(turn[t].host) EXCEPT ![t].aborted = TRUE]

TakeOver(t) == AbortOn(turn[t].host)

Check(t) ==
  /\ turn[t].pc = "check"
  /\ \/ Refused(t) /\ Go(t, Over(turn[t], "refused")) /\ UNCHANGED ctrl
     \/ ~Refused(t) /\ turn' = [TakeOver(t) EXCEPT ![t].pc = "mark"]
        /\ ctrl' = [ctrl EXCEPT ![turn[t].host] = t]
  /\ UNCHANGED <<mode, row, log, timer, post, closer, faults>>

Mark(t) ==
  /\ turn[t].pc = "mark"
  /\ row' = [row EXCEPT !.gen = t]
  /\ Go(t, [turn[t] EXCEPT !.pc = "read"])
  /\ UNCHANGED <<mode, log, ctrl, timer, post, closer, faults>>

\* loadGenerationContext: all messages, and the position of the last.
Read(t) ==
  /\ turn[t].pc = "read"
  /\ Go(t, [turn[t] EXCEPT !.pc = "model", !.ctx = ToSet(log), !.at = Len(log)])
  /\ UNCHANGED <<mode, row, log, ctrl, timer, post, closer, faults>>

\* The model answers, or the call is aborted.
Answer(t) ==
  /\ turn[t].pc = "model"
  /\ Go(t, [turn[t] EXCEPT !.pc = IF turn[t].aborted THEN "end" ELSE "insert"])
  /\ UNCHANGED <<mode, row, log, ctrl, timer, post, closer, faults>>

\* The model fails, or pauses for tools of the client.
NoAnswer(t) ==
  /\ turn[t].pc = "model" /\ Fault
  /\ Go(t, [turn[t] EXCEPT !.pc = "end"])
  /\ UNCHANGED <<mode, row, log, ctrl, timer, post, closer>>

\* Mutant: the answer goes to the end.
PlacedLast(t) == Append(log, t)

\* resolveMessagePosition: right behind what the turn has read; what came since is
\* shifted by one.
Placed(t) == InsertAt(log, turn[t].at + 1, t)

Insert(t) ==
  /\ turn[t].pc = "insert"
  /\ log' = Placed(t)
  /\ Go(t, [turn[t] EXCEPT !.pc = "end"])
  /\ UNCHANGED <<mode, row, ctrl, timer, post, closer, faults>>

InsertConflict(t) ==
  /\ turn[t].pc = "insert" /\ Contended(t) /\ Fault
  /\ Go(t, [turn[t] EXCEPT !.pc = "end"])
  /\ UNCHANGED <<mode, row, log, ctrl, timer, post, closer>>

\* The turn looks at its signal; not aborted, it gives the session free, with an
\* update that others may overtake.
End(t) ==
  /\ turn[t].pc = "end"
  /\ Go(t, [turn[t] EXCEPT !.pc = IF turn[t].aborted THEN "drop" ELSE "free"])
  /\ UNCHANGED <<mode, row, log, ctrl, timer, post, closer, faults>>

Free(t) ==
  /\ turn[t].pc = "free"
  /\ row' = [row EXCEPT !.gen = None]
  /\ Go(t, [turn[t] EXCEPT !.pc = "drop"])
  /\ UNCHANGED <<mode, log, ctrl, timer, post, closer, faults>>

\* Mutant: the controller is removed whoever owns it.
OwnAlways(t) == TRUE

Own(t) == ctrl[turn[t].host] = t

Drop(t) ==
  /\ turn[t].pc = "drop"
  /\ ctrl' = IF Own(t) THEN [ctrl EXCEPT ![turn[t].host] = None] ELSE ctrl
  /\ Go(t, Over(turn[t], "done"))
  /\ UNCHANGED <<mode, row, log, timer, post, closer, faults>>

(***************************************************************************)
(* updateSession closes the session, then stops what runs in its process.  *)
(***************************************************************************)
Close(h) ==
  /\ row.status = "open" /\ Fault
  /\ row' = [row EXCEPT !.status = "closed"]
  /\ closer' = h
  /\ UNCHANGED <<mode, log, ctrl, timer, post, turn>>

CloseCancel ==
  /\ closer # None
  /\ timer' = [timer EXCEPT ![closer] = FALSE]
  /\ turn' = AbortOn(closer)
  /\ ctrl' = [ctrl EXCEPT ![closer] = None]
  /\ closer' = None
  /\ UNCHANGED <<mode, row, log, post, faults>>

(***************************************************************************)
(* The environment.                                                        *)
(***************************************************************************)
\* Five minutes pass since t stamped the row.
Age(t) ==
  /\ row.gen = t /\ ~turn[t].old /\ Fault
  /\ Go(t, [turn[t] EXCEPT !.old = TRUE])
  /\ UNCHANGED <<mode, row, log, ctrl, timer, post, closer>>

\* A process dies with its calls, its timer and its map; the stamp stays.
Crash(h) ==
  /\ Fault
  /\ ctrl' = [ctrl EXCEPT ![h] = None] /\ timer' = [timer EXCEPT ![h] = FALSE]
  /\ turn' = [t \in Turns |->
       IF turn[t].host = h THEN Over(turn[t], "done") ELSE turn[t]]
  /\ post' = [m \in Messages |->
       IF post[m].host = h THEN [post[m] EXCEPT !.pc = "done"] ELSE post[m]]
  /\ closer' = IF closer = h THEN None ELSE closer
  /\ UNCHANGED <<mode, row, log>>

Generation(t) ==
  \/ Load(t) \/ Check(t) \/ Mark(t) \/ Read(t) \/ Answer(t)
  \/ Insert(t) \/ End(t) \/ Free(t) \/ Drop(t)

Server ==
  \/ \E m \in Messages : PostInsert(m) \/ PostTrigger(m)
  \/ \E h \in Hosts : TimerFires(h)
  \/ \E t \in Turns : Generation(t)
  \/ CloseCancel

Next ==
  \/ Server
  \/ \E m \in Messages, h \in Hosts : PostLoad(m, h)
  \/ \E m \in Messages : PostConflict(m)
  \/ \E t \in Turns, h \in Hosts : Generate(t, h)
  \/ \E t \in Turns : NoAnswer(t) \/ InsertConflict(t) \/ Age(t)
  \/ \E h \in Hosts : Close(h) \/ Crash(h)

Spec == Init /\ [][Next]_vars
\* Calls go on and timers fire; no user says anything and nothing fails by right.
FairSpec == Spec /\ WF_vars(Server)

(***************************************************************************)
(* Properties.                                                             *)
(***************************************************************************)
Going(t) == turn[t].pc \in {"mark", "read", "model", "insert", "end", "free", "drop"}

\* A process has one turn of the session going, the one whose controller it keeps:
\* every other has been told to stop.
SoleTurn ==
  \A t \in Turns : Going(t) /\ ~turn[t].aborted => ctrl[turn[t].host] = t

Before(x) == {y \in ToSet(log) : \E i, j \in DOMAIN log : i < j /\ log[i] = y /\ log[j] = x}
Answers == {t \in Turns : t \in ToSet(log)}

\* Two turns answer without having read each other's answer.
Overlapping(t, u) == t # u /\ t \notin turn[u].ctx /\ u \notin turn[t].ctx
Apart(t) == \A u \in Answers : ~Overlapping(t, u)

\* Who is going is somewhere; nothing is in the conversation twice or before it was
\* inserted.
InHand(t) == turn[t].pc \in {"model", "insert"}  \* has read, may answer

PlaceInv ==
  /\ \A m \in Messages : post[m].pc \in {"insert", "trigger"} => post[m].host \in Hosts
  /\ \A t \in Turns : turn[t].pc \notin {"idle", "done", "refused"} => turn[t].host \in Hosts
  /\ \A m \in Messages : m \in ToSet(log) => post[m].pc \in {"trigger", "done"}
  /\ \A t \in Answers : turn[t].pc \in {"end", "free", "drop", "done"}
  /\ \A i, j \in DOMAIN log : log[i] = log[j] => i = j
  /\ \A t \in Turns : turn[t].ctx \subseteq ToSet(log)
  /\ \A t \in Turns : InHand(t) => turn[t].at \in 0..Len(log)

\* What a turn has read stays in front of the place of its answer, and only what it has
\* read, until another turn answers that it has not read.
ReadInv == \A t \in Turns : InHand(t) =>
  /\ Answers \subseteq turn[t].ctx =>
       \A i \in DOMAIN log : i <= turn[t].at <=> log[i] \in turn[t].ctx
  /\ \A u \in Answers : Apart(u) /\ u \in turn[t].ctx =>
       \A i \in DOMAIN log : log[i] = u => i <= turn[t].at

\* The session, its calls and its turns are well formed, each process has one turn, and
\* each turn knows its place in the conversation.
SessionInv == TypeOK /\ SoleTurn /\ PlaceInv /\ ReadInv

\* A turn that overlaps no other that answers, answers where it was asked: behind all it
\* has read and before everything said meanwhile, whatever other turns do.
AnswerInPlace == \A t \in Answers : Apart(t) => Before(t) = turn[t].ctx

\* What may leave a message without an answer: a fault, a turn refused because its copy
\* of the session is older than the end of the turn before, or a second process, whose
\* turns cannot be taken over from.
Excused ==
  \/ faults > 0 \/ \E t \in Turns : turn[t].pc = "refused"
  \/ \E m, n \in Messages : post[m].host # None /\ post[n].host # None /\ post[m].host # post[n].host

\* In one process a message that found the session idle is read by a turn that answers,
\* however many messages come while turns are started, taken over and cancelled.
PromptAnswered ==
  \A m \in Messages :
    []<>(m \in ToSet(log) /\ Triggers(m)
           => Excused \/ \E t \in Answers : m \in turn[t].ctx)
=============================================================================
