-------------------------- MODULE SessionTurnProofs --------------------------
(***************************************************************************)
(* For any number of messages, turns, processes and faults: a process has  *)
(* one turn of the session that goes on, and a turn that overlaps no other *)
(* answers where it was asked.                                             *)
(***************************************************************************)
EXTENDS SessionTurn, SequenceTheorems, TLAPS

Things == Messages \cup Turns
TurnPCs == {"idle", "load", "check", "mark", "read", "model", "insert", "end", "free", "drop",
            "done", "refused"}
Over1 == {"idle", "done", "refused"}
Behind == {"end", "free", "drop", "done"}

LEMMA Names ==
  /\ MaxTurns \in Nat /\ MaxFaults \in Nat /\ Turns \subseteq Nat /\ Messages \subseteq Nat
  /\ None \notin Turns /\ None \notin Hosts /\ Messages \cap Turns = {} /\ Callers \subseteq Hosts
<1>1. MaxTurns \in Nat /\ MaxMessages \in Nat /\ MaxFaults \in Nat
      /\ None \notin Nat /\ None \notin Hosts /\ Callers \subseteq Hosts
  BY NamesAssumption
<1>2. Turns \subseteq Nat /\ Messages \subseteq Nat /\ Messages \cap Turns = {}
  BY <1>1 DEF Turns, Messages
<1> QED BY <1>1, <1>2

LEMMA TurnFields ==
  ASSUME turn \in [Turns -> Turn], NEW t \in Turns
  PROVE  /\ turn[t] \in Turn /\ turn[t].pc \in TurnPCs /\ turn[t].host \in Hosts \cup {None}
         /\ turn[t].seen \in Turns \cup {None} /\ turn[t].aborted \in BOOLEAN
         /\ turn[t].ctx \subseteq Things
BY DEF Turn, TurnPCs, Things

LEMMA PostFields ==
  ASSUME post \in [Messages -> Post], NEW m \in Messages
  PROVE  /\ post[m] \in Post /\ post[m].pc \in {"idle", "insert", "trigger", "done"}
         /\ post[m].host \in Hosts \cup {None}
BY DEF Post

(***************************************************************************)
(* Sequences.                                                              *)
(***************************************************************************)
\* Places around the one that is inserted.
LEMMA Places ==
  ASSUME NEW l \in Nat, NEW n \in Nat, n <= l, NEW i \in 1..(l + 1)
  PROVE  /\ (n + 1) - 1 = n /\ (i <= n \/ i = n + 1 \/ i > n + 1)
         /\ i <= n => i \in 1..l /\ i \in 1..n /\ i \in 1..(n + 1)
         /\ i > n + 1 => /\ i - (n + 1) \in 1..(l - n) /\ n + (i - (n + 1)) = i - 1
                        /\ i - 1 \in (n + 1)..l /\ i - 1 \in 1..l /\ (i - 1) + 1 = i
                        /\ ~(i <= n) /\ i # n + 1
         /\ (n + 1) + (l - n) = l + 1 /\ l - n \in Nat /\ n + 1 \in 1..(l + 1)
OBVIOUS

\* r is s with x behind its first n elements.
Inserted(s, r, x, n) ==
  /\ r \in Seq(Things) /\ Len(r) = Len(s) + 1 /\ r[n + 1] = x
  /\ \A i \in 1..n : r[i] = s[i]
  /\ \A i \in (n + 1)..Len(s) : r[i + 1] = s[i]

\* What InsertAt does, element by element.
LEMMA InsertAtElements ==
  ASSUME NEW s \in Seq(Things), NEW e \in Things, NEW n \in 0..Len(s),
         NEW r, r = InsertAt(s, n + 1, e)
  PROVE  Inserted(s, r, e, n)
<1> DEFINE S == Things
<1>0. s \in Seq(S) /\ e \in S
  OBVIOUS
<1> HIDE DEF S
<1> DEFINE front == SubSeq(s, 1, n)
           back == SubSeq(s, n + 1, Len(s))
<1>1. Len(s) \in Nat /\ n \in Nat /\ n <= Len(s) /\ (n + 1) - 1 = n
  OBVIOUS
<1>2. front \in Seq(S) /\ Len(front) = n /\ \A i \in 1..n : front[i] = s[i]
  <2>1. \A i \in 1..n : s[i] \in S
    BY <1>0, <1>1
  <2> QED BY <1>1, <2>1, SubSeqProperties
<1>3. /\ back \in Seq(S) /\ Len(back) = Len(s) - n
      /\ \A i \in 1..(Len(s) - n) : back[i] = s[n + i]
  <2>1. \A i \in (n + 1)..Len(s) : s[i] \in S
    BY <1>0, <1>1
  <2> QED BY <1>1, <2>1, SubSeqProperties
<1>4. InsertAt(s, n + 1, e) = (front \o <<e>>) \o back
  BY <1>1, Zenon DEF InsertAt
<1> HIDE DEF front, back
<1> DEFINE mid == front \o <<e>>
<1>5. /\ mid \in Seq(S) /\ Len(mid) = n + 1
      /\ \A i \in 1..(n + 1) : mid[i] = IF i <= n THEN s[i] ELSE e
  BY <1>0, <1>1, <1>2
<1>6. r = mid \o back
  BY <1>4
<1> HIDE DEF mid
<1>7. /\ mid \o back \in Seq(S) /\ Len(mid \o back) = Len(mid) + Len(back)
      /\ \A i \in 1..(Len(mid) + Len(back)) :
           (mid \o back)[i] = IF i <= Len(mid) THEN mid[i] ELSE back[i - Len(mid)]
  BY <1>3, <1>5, ConcatProperties
<1>8. Len(mid) + Len(back) = Len(s) + 1
  BY <1>1, <1>3, <1>5, Places
<1>9. ASSUME NEW i \in 1..(Len(s) + 1)
      PROVE  (mid \o back)[i] = IF i <= n THEN s[i] ELSE IF i = n + 1 THEN e ELSE s[i - 1]
  <2>1. (mid \o back)[i] = IF i <= n + 1 THEN mid[i] ELSE back[i - (n + 1)]
    BY <1>5, <1>7, <1>8
  <2>2. CASE i <= n
    <3>1. i <= n + 1 /\ i \in 1..(n + 1)
      BY <1>1, <2>2
    <3> QED BY <1>5, <2>1, <2>2, <3>1
  <2>3. CASE i = n + 1
    <3>1. i <= n + 1 /\ i \in 1..(n + 1) /\ ~(i <= n)
      BY <1>1, <2>3
    <3> QED BY <1>5, <2>1, <2>3, <3>1
  <2>4. CASE i > n + 1
    <3>1. /\ i - (n + 1) \in 1..(Len(s) - n) /\ n + (i - (n + 1)) = i - 1
          /\ ~(i <= n) /\ i # n + 1 /\ ~(i <= n + 1)
      BY <1>1, <2>4, Places
    <3> QED BY <1>3, <2>1, <3>1
  <2> QED BY <1>1, <2>2, <2>3, <2>4, Places
<1>10. \A i \in 1..(Len(s) + 1) :
         r[i] = IF i <= n THEN s[i] ELSE IF i = n + 1 THEN e ELSE s[i - 1]
  BY <1>6, <1>9
<1>11. r[n + 1] = e /\ \A i \in 1..n : r[i] = s[i]
  BY <1>1, <1>10
<1>12. ASSUME NEW i \in (n + 1)..Len(s)
       PROVE  r[i + 1] = s[i]
  <2>1. i + 1 \in 1..(Len(s) + 1) /\ ~(i + 1 <= n) /\ i + 1 # n + 1 /\ (i + 1) - 1 = i
    BY <1>1
  <2> QED BY <1>10, <2>1
<1> QED BY <1>6, <1>7, <1>8, <1>11, <1>12 DEF Inserted, S

LEMMA SetOfLog ==
  ASSUME NEW s \in Seq(Things)
  PROVE  /\ ToSet(s) \subseteq Things
         /\ \A x : x \in ToSet(s) <=> \E i \in 1..Len(s) : s[i] = x
         /\ DOMAIN s = 1..Len(s) /\ Len(s) \in Nat
BY DEF ToSet

\* x comes into the conversation behind the first n messages.
Comes(x, n) == Inserted(log, log', x, n)

LEMMA ComesByInsertAt ==
  ASSUME log \in Seq(Things), NEW x \in Things, NEW n \in 0..Len(log),
         log' = InsertAt(log, n + 1, x)
  PROVE  Comes(x, n)
BY InsertAtElements DEF Comes

LEMMA ComesByAppend ==
  ASSUME log \in Seq(Things), NEW x \in Things, log' = Append(log, x)
  PROVE  Comes(x, Len(log))
BY DEF Comes, Inserted

\* The places of what was there, and of what came.
LEMMA ComesPlaces ==
  ASSUME log \in Seq(Things), NEW x \in Things, NEW n \in 0..Len(log), Comes(x, n)
  PROVE  /\ \A y : y \in ToSet(log)' <=> y \in ToSet(log) \/ y = x
         /\ \A i \in 1..Len(log') : \/ i <= n /\ i \in 1..Len(log) /\ log'[i] = log[i]
                                    \/ i = n + 1 /\ log'[i] = x
                                    \/ i > n + 1 /\ i - 1 \in 1..Len(log) /\ log'[i] = log[i - 1]
<1>1. Len(log) \in Nat /\ n \in Nat /\ n <= Len(log) /\ Len(log') = Len(log) + 1
  BY DEF Comes, Inserted
<1>2. ASSUME NEW i \in 1..Len(log')
      PROVE  \/ i <= n /\ i \in 1..Len(log) /\ log'[i] = log[i]
             \/ i = n + 1 /\ log'[i] = x
             \/ i > n + 1 /\ i - 1 \in 1..Len(log) /\ log'[i] = log[i - 1]
  <2>1. CASE i <= n
    BY <1>1, <2>1 DEF Comes, Inserted
  <2>2. CASE i = n + 1
    BY <2>2 DEF Comes, Inserted
  <2>3. CASE i > n + 1
    <3>1. i - 1 \in (n + 1)..Len(log) /\ (i - 1) + 1 = i
      BY <1>1, <2>3
    <3>2. log'[(i - 1) + 1] = log[i - 1]
      BY <3>1 DEF Comes, Inserted
    <3> QED BY <1>1, <2>3, <3>1, <3>2
  <2> QED BY <1>1, <2>1, <2>2, <2>3
<1>3. ASSUME NEW y
      PROVE  y \in ToSet(log)' <=> y \in ToSet(log) \/ y = x
  <2>1. log' \in Seq(Things)
    BY DEF Comes, Inserted
  <2>2. y \in ToSet(log') <=> \E i \in 1..Len(log') : log'[i] = y
    BY <2>1, SetOfLog
  <2>3. y \in ToSet(log) <=> \E i \in 1..Len(log) : log[i] = y
    BY SetOfLog
  <2>4. ASSUME NEW i \in 1..Len(log), log[i] = y
        PROVE  \E j \in 1..Len(log') : log'[j] = y
    <3>1. CASE i <= n
      BY <1>1, <2>4, <3>1 DEF Comes, Inserted
    <3>2. CASE i > n
      <4>1. i \in (n + 1)..Len(log) /\ i + 1 \in 1..Len(log')
        BY <1>1, <3>2
      <4> QED BY <2>4, <4>1 DEF Comes, Inserted
    <3> QED BY <1>1, <3>1, <3>2
  <2>5. x = y => \E j \in 1..Len(log') : log'[j] = y
    BY <1>1 DEF Comes, Inserted
  <2> QED BY <1>2, <2>2, <2>3, <2>4, <2>5
<1> QED BY <1>2, <1>3

\* Nothing is there twice when something new comes.
LEMMA ComesDistinct ==
  ASSUME log \in Seq(Things), NEW x \in Things, NEW n \in 0..Len(log), Comes(x, n),
         x \notin ToSet(log), \A i, j \in DOMAIN log : log[i] = log[j] => i = j
  PROVE  \A i, j \in DOMAIN log' : log'[i] = log'[j] => i = j
<1>1. log' \in Seq(Things)
  BY DEF Comes, Inserted
<1>2. DOMAIN log' = 1..Len(log') /\ DOMAIN log = 1..Len(log) /\ Len(log') \in Nat
      /\ Len(log) \in Nat /\ \A i \in 1..Len(log) : log[i] # x
  BY <1>1, SetOfLog
<1>3. \A i \in 1..Len(log') : \/ i <= n /\ i \in 1..Len(log) /\ log'[i] = log[i]
                              \/ i = n + 1 /\ log'[i] = x
                              \/ i > n + 1 /\ i - 1 \in 1..Len(log) /\ log'[i] = log[i - 1]
  BY ComesPlaces
<1>4. ASSUME NEW i \in 1..Len(log'), NEW j \in 1..Len(log'), log'[i] = log'[j]
      PROVE  i = j
  <2>1. CASE i <= n /\ i \in 1..Len(log) /\ log'[i] = log[i]
    <3>1. CASE j <= n /\ j \in 1..Len(log) /\ log'[j] = log[j]
      BY <1>2, <1>4, <2>1, <3>1
    <3>2. CASE j > n + 1 /\ j - 1 \in 1..Len(log) /\ log'[j] = log[j - 1]
      <4>1. i = j - 1
        BY <1>2, <1>4, <2>1, <3>2
      <4> QED BY <1>2, <2>1, <3>2, <4>1
    <3>3. j # n + 1 \/ log'[j] # x
      BY <1>2, <1>4, <2>1
    <3> QED BY <1>3, <3>1, <3>2, <3>3
  <2>2. CASE i = n + 1 /\ log'[i] = x
    BY <1>2, <1>3, <1>4, <2>2
  <2>3. CASE i > n + 1 /\ i - 1 \in 1..Len(log) /\ log'[i] = log[i - 1]
    <3>1. CASE j <= n /\ j \in 1..Len(log) /\ log'[j] = log[j]
      <4>1. j = i - 1
        BY <1>2, <1>4, <2>3, <3>1
      <4> QED BY <1>2, <2>3, <3>1, <4>1
    <3>2. CASE j > n + 1 /\ j - 1 \in 1..Len(log) /\ log'[j] = log[j - 1]
      <4>1. i - 1 = j - 1
        BY <1>2, <1>4, <2>3, <3>2
      <4> QED BY <1>2, <4>1
    <3>3. j # n + 1 \/ log'[j] # x
      BY <1>2, <1>4, <2>3
    <3> QED BY <1>3, <3>1, <3>2, <3>3
  <2> QED BY <1>3, <2>1, <2>2, <2>3
<1> QED BY <1>2, <1>4

\* What is in front of the place of what comes keeps all that is before it.
LEMMA BeforeKept ==
  ASSUME log \in Seq(Things), NEW x \in Things, NEW n \in 0..Len(log), Comes(x, n),
         NEW w, w # x, \A i \in 1..Len(log) : log[i] = w => i <= n
  PROVE  /\ \A i \in 1..Len(log') : log'[i] = w => i \in 1..Len(log) /\ log[i] = w
         /\ Before(w)' = Before(w)
<1>1. log' \in Seq(Things) /\ Len(log) \in Nat /\ n \in Nat /\ n <= Len(log)
      /\ Len(log') = Len(log) + 1
  BY DEF Comes, Inserted
<1>2. \A i \in 1..Len(log') : \/ i <= n /\ i \in 1..Len(log) /\ log'[i] = log[i]
                              \/ i = n + 1 /\ log'[i] = x
                              \/ i > n + 1 /\ i - 1 \in 1..Len(log) /\ log'[i] = log[i - 1]
  BY ComesPlaces
<1>3. ASSUME NEW i \in 1..Len(log'), log'[i] = w
      PROVE  i <= n /\ i \in 1..Len(log) /\ log[i] = w
  <2>1. CASE i > n + 1 /\ i - 1 \in 1..Len(log) /\ log'[i] = log[i - 1]
    <3>1. i - 1 <= n
      BY <1>3, <2>1
    <3> QED BY <1>1, <2>1, <3>1
  <2> QED BY <1>2, <1>3, <2>1
<1>4. ASSUME NEW y
      PROVE  (\E i, j \in 1..Len(log') : i < j /\ log'[i] = y /\ log'[j] = w)
               <=> \E i, j \in 1..Len(log) : i < j /\ log[i] = y /\ log[j] = w
  <2>1. ASSUME NEW i \in 1..Len(log'), NEW j \in 1..Len(log'), i < j, log'[i] = y, log'[j] = w
        PROVE  i \in 1..Len(log) /\ j \in 1..Len(log) /\ log[i] = y /\ log[j] = w
    <3>1. j <= n /\ j \in 1..Len(log) /\ log[j] = w
      BY <1>3, <2>1
    <3>2. i <= n
      BY <1>1, <2>1, <3>1
    <3> QED BY <1>1, <1>2, <2>1, <3>1, <3>2
  <2>2. ASSUME NEW i \in 1..Len(log), NEW j \in 1..Len(log), i < j, log[i] = y, log[j] = w
        PROVE  i \in 1..Len(log') /\ j \in 1..Len(log') /\ log'[i] = y /\ log'[j] = w
    <3>1. j <= n
      BY <2>2
    <3>2. i \in 1..n /\ j \in 1..n /\ i \in 1..Len(log') /\ j \in 1..Len(log')
      BY <1>1, <2>2, <3>1
    <3> QED BY <2>2, <3>2 DEF Comes, Inserted
  <2> QED BY <2>1, <2>2
<1>5. \A y : y \in Before(w)' <=> y \in Before(w)
  <2>1. ASSUME NEW y
        PROVE  y \in Before(w)' <=> \E i, j \in 1..Len(log') : i < j /\ log'[i] = y /\ log'[j] = w
    <3>1. DOMAIN log' = 1..Len(log') /\ (y \in ToSet(log') <=> \E i \in 1..Len(log') : log'[i] = y)
      BY <1>1, SetOfLog
    <3>2. y \in Before(w)' <=> /\ y \in ToSet(log')
                              /\ \E i, j \in DOMAIN log' : i < j /\ log'[i] = y /\ log'[j] = w
      BY DEF Before
    <3> QED BY <3>1, <3>2
  <2>2. ASSUME NEW y
        PROVE  y \in Before(w) <=> \E i, j \in 1..Len(log) : i < j /\ log[i] = y /\ log[j] = w
    <3>1. DOMAIN log = 1..Len(log) /\ (y \in ToSet(log) <=> \E i \in 1..Len(log) : log[i] = y)
      BY <1>1, SetOfLog
    <3>2. y \in Before(w) <=> /\ y \in ToSet(log)
                              /\ \E i, j \in DOMAIN log : i < j /\ log[i] = y /\ log[j] = w
      BY DEF Before
    <3> QED BY <3>1, <3>2
  <2> QED BY <1>4, <2>1, <2>2
<1> QED BY <1>3, <1>5

(***************************************************************************)
(* Steps that add nothing to the conversation.                             *)
(***************************************************************************)
\* A turn keeps what it has read and its place, or it begins, or it reads.
Kept(t) ==
  /\ turn'[t].pc \notin Over1 => turn'[t].host \in Hosts
  /\ turn[t].pc \in Behind => turn'[t].pc \in Behind
  /\ \/ /\ turn'[t].ctx = turn[t].ctx
        /\ InHand(t)' => InHand(t) /\ turn'[t].at = turn[t].at
     \/ turn[t].pc = "idle" /\ turn'[t].ctx = {} /\ ~InHand(t)'
     \/ turn[t].pc = "read" /\ turn'[t].ctx = ToSet(log) /\ turn'[t].at = Len(log)

PostKept(m) ==
  /\ post'[m].pc \in {"insert", "trigger"} => post'[m].host \in Hosts
  /\ post[m].pc \in {"trigger", "done"} => post'[m].pc \in {"trigger", "done"}
PostsKept == \A m \in Messages : PostKept(m)

LEMMA SamePostKept ==
  ASSUME PlaceInv, NEW m \in Messages, post'[m] = post[m]
  PROVE  PostKept(m)
BY DEF PlaceInv, PostKept

LEMMA SamePosts ==
  ASSUME PlaceInv, post' = post
  PROVE  PostsKept
BY SamePostKept DEF PostsKept

Placing == PlaceInv /\ ReadInv /\ AnswerInPlace

LEMMA KeptStep ==
  ASSUME TypeOK, Placing, log' = log, \A t \in Turns : Kept(t), PostsKept
  PROVE  Placing'
<1>1. log \in Seq(Things) /\ DOMAIN log = 1..Len(log) /\ Len(log) \in Nat
      /\ \A x : x \in ToSet(log) <=> \E i \in 1..Len(log) : log[i] = x
  BY SetOfLog DEF TypeOK, Things
<1>2. Answers' = Answers
  BY DEF Answers
<1>3. \A t \in Answers : t \in Turns /\ turn[t].pc \in Behind
  BY DEF Placing, PlaceInv, Answers, Behind
<1>4. \A t \in Answers : turn'[t].ctx = turn[t].ctx
  BY <1>3 DEF Kept, Behind
<1>5. \A t \in Answers : Apart(t)' => Apart(t)
  BY <1>2, <1>4 DEF Apart, Overlapping
<1>6. PlaceInv'
  <2>1. \A t \in Turns : turn'[t].pc \notin {"idle", "done", "refused"} => turn'[t].host \in Hosts
    BY DEF Kept, Over1
  <2>2. \A m \in Messages : m \in ToSet(log)' => post'[m].pc \in {"trigger", "done"}
    BY DEF Placing, PlaceInv, PostsKept, PostKept
  <2>7. \A m \in Messages : post'[m].pc \in {"insert", "trigger"} => post'[m].host \in Hosts
    BY DEF PostsKept, PostKept
  <2>3. \A t \in Answers' : turn'[t].pc \in {"end", "free", "drop", "done"}
    BY <1>2, <1>3 DEF Kept, Behind
  <2>4. \A i, j \in DOMAIN log' : log'[i] = log'[j] => i = j
    BY DEF Placing, PlaceInv
  <2>5. \A t \in Turns : turn'[t].ctx \subseteq ToSet(log)'
    BY DEF Placing, PlaceInv, Kept
  <2>6. \A t \in Turns : InHand(t)' => turn'[t].at \in 0..Len(log')
    BY <1>1 DEF Placing, PlaceInv, Kept
  <2> QED BY <2>1, <2>2, <2>3, <2>4, <2>5, <2>6, <2>7 DEF PlaceInv
<1>7. ReadInv'
  <2> SUFFICES ASSUME NEW t \in Turns, InHand(t)'
               PROVE  /\ Answers' \subseteq turn'[t].ctx =>
                           \A i \in DOMAIN log' : i <= turn'[t].at <=> log'[i] \in turn'[t].ctx
                      /\ \A u \in Answers' : Apart(u)' /\ u \in turn'[t].ctx =>
                           \A i \in DOMAIN log' : log'[i] = u => i <= turn'[t].at
    BY DEF ReadInv
  <2>1. CASE turn'[t].ctx = turn[t].ctx /\ InHand(t) /\ turn'[t].at = turn[t].at
    BY <1>2, <1>5, <2>1 DEF Placing, ReadInv
  <2>2. CASE turn'[t].ctx = ToSet(log) /\ turn'[t].at = Len(log)
    BY <1>1, <2>2
  <2> QED BY <2>1, <2>2 DEF Kept
<1>8. AnswerInPlace'
  BY <1>2, <1>4, <1>5 DEF Placing, AnswerInPlace, Before
<1> QED BY <1>6, <1>7, <1>8 DEF Placing

(***************************************************************************)
(* Steps that add to the conversation.                                     *)
(***************************************************************************)
\* A message of the user comes last.
LEMMA MessageComes ==
  ASSUME TypeOK, Placing, NEW m \in Messages, m \notin ToSet(log), Comes(m, Len(log)),
         turn' = turn, post'[m].pc \in {"trigger", "done"}, post'[m].host \in Hosts,
         \A o \in Messages \ {m} : post'[o] = post[o]
  PROVE  Placing'
<1>1. /\ log \in Seq(Things) /\ DOMAIN log = 1..Len(log) /\ Len(log) \in Nat
      /\ m \in Things /\ m \notin Turns /\ Len(log) \in 0..Len(log)
      /\ \A x : x \in ToSet(log) <=> \E i \in 1..Len(log) : log[i] = x
  BY SetOfLog, Names DEF TypeOK, Things
<1>2. /\ \A x : x \in ToSet(log)' <=> x \in ToSet(log) \/ x = m
      /\ log' \in Seq(Things) /\ Len(log') = Len(log) + 1
      /\ \A i \in 1..Len(log') : \/ i \in 1..Len(log) /\ log'[i] = log[i]
                                 \/ i = Len(log) + 1 /\ log'[i] = m
  <2>1. /\ log' \in Seq(Things) /\ Len(log') = Len(log) + 1
        /\ \A i \in 1..Len(log) : log'[i] = log[i]
        /\ log'[Len(log) + 1] = m
    BY DEF Comes, Inserted
  <2>2. \A i \in 1..(Len(log) + 1) : i \in 1..Len(log) \/ i = Len(log) + 1
    BY <1>1
  <2> QED BY <1>1, <2>1, <2>2, ComesPlaces
<1>3. DOMAIN log' = 1..Len(log')
  BY <1>2, SetOfLog
<1>4. Answers' = Answers
  BY <1>1, <1>2 DEF Answers
<1>5. \A t \in Answers : t # m /\ t \in ToSet(log) /\ t \in Turns
  BY <1>1 DEF Answers
<1>6. \A t : Apart(t)' <=> Apart(t)
  BY <1>4 DEF Apart, Overlapping
<1>7. PlaceInv'
  <2>1. \A o \in Messages : o \in ToSet(log)' => post'[o].pc \in {"trigger", "done"}
    BY <1>2 DEF Placing, PlaceInv
  <2>2. \A t \in Answers' : turn'[t].pc \in {"end", "free", "drop", "done"}
    BY <1>4 DEF Placing, PlaceInv
  <2>3. \A i, j \in DOMAIN log' : log'[i] = log'[j] => i = j
    BY <1>1, ComesDistinct DEF Placing, PlaceInv
  <2>4. \A t \in Turns : turn'[t].ctx \subseteq ToSet(log)'
    BY <1>2 DEF Placing, PlaceInv
  <2>5. \A t \in Turns : InHand(t)' => turn'[t].at \in 0..Len(log')
    <3>1. \A n \in 0..Len(log) : n \in 0..Len(log')
      BY <1>1, <1>2
    <3> QED BY <3>1 DEF Placing, PlaceInv, InHand
  <2>6. \A t \in Turns : turn'[t].pc \notin {"idle", "done", "refused"} => turn'[t].host \in Hosts
    BY DEF Placing, PlaceInv
  <2>7. \A o \in Messages : post'[o].pc \in {"insert", "trigger"} => post'[o].host \in Hosts
    BY DEF Placing, PlaceInv
  <2> QED BY <2>1, <2>2, <2>3, <2>4, <2>5, <2>6, <2>7 DEF PlaceInv
<1>8. ReadInv'
  <2> SUFFICES ASSUME NEW t \in Turns, InHand(t)
               PROVE  /\ Answers \subseteq turn[t].ctx =>
                           \A i \in 1..Len(log') : i <= turn[t].at <=> log'[i] \in turn[t].ctx
                      /\ \A u \in Answers : Apart(u) /\ u \in turn[t].ctx =>
                           \A i \in 1..Len(log') : log'[i] = u => i <= turn[t].at
    BY <1>3, <1>4, <1>6 DEF ReadInv, InHand
  <2>1. turn[t].at \in 0..Len(log) /\ turn[t].ctx \subseteq ToSet(log)
    BY DEF Placing, PlaceInv
  <2>2. m \notin turn[t].ctx /\ ~(Len(log) + 1 <= turn[t].at)
    BY <1>1, <2>1
  <2>3. Answers \subseteq turn[t].ctx =>
          \A i \in 1..Len(log) : i <= turn[t].at <=> log[i] \in turn[t].ctx
    BY <1>1 DEF Placing, ReadInv
  <2>4. \A u \in Answers : Apart(u) /\ u \in turn[t].ctx =>
          \A i \in 1..Len(log) : log[i] = u => i <= turn[t].at
    BY <1>1 DEF Placing, ReadInv
  <2>5. Answers \subseteq turn[t].ctx =>
          \A i \in 1..Len(log') : i <= turn[t].at <=> log'[i] \in turn[t].ctx
    BY <1>2, <2>2, <2>3
  <2>6. \A u \in Answers : Apart(u) /\ u \in turn[t].ctx =>
          \A i \in 1..Len(log') : log'[i] = u => i <= turn[t].at
    BY <1>2, <1>5, <2>4
  <2> QED BY <2>5, <2>6
<1>9. \A t \in Answers : Before(t)' = Before(t)
  <2> SUFFICES ASSUME NEW t \in Answers
               PROVE  Before(t)' = Before(t)
    OBVIOUS
  <2>1. t # m /\ \A i \in 1..Len(log) : log[i] = t => i <= Len(log)
    BY <1>1, <1>5
  <2> QED BY <1>1, <2>1, BeforeKept
<1>10. AnswerInPlace'
  BY <1>4, <1>6, <1>9 DEF Placing, AnswerInPlace
<1> QED BY <1>7, <1>8, <1>10 DEF Placing

\* An answer comes behind what its turn has read.
LEMMA AnswerComes ==
  ASSUME TypeOK, Placing, NEW t \in Turns, turn[t].pc = "insert", Comes(t, turn[t].at),
         turn'[t].pc = "end", turn'[t].host = turn[t].host, turn'[t].ctx = turn[t].ctx,
         \A u \in Turns \ {t} : turn'[u] = turn[u], post' = post
  PROVE  Placing'
<1> DEFINE n == turn[t].at
<1>1. /\ log \in Seq(Things) /\ DOMAIN log = 1..Len(log) /\ Len(log) \in Nat
      /\ t \in Things /\ t \notin Messages
      /\ \A x : x \in ToSet(log) <=> \E i \in 1..Len(log) : log[i] = x
  BY SetOfLog, Names DEF TypeOK, Things
<1>2. InHand(t) /\ n \in 0..Len(log) /\ t \notin ToSet(log)
  BY DEF Placing, PlaceInv, InHand, Answers
<1> HIDE DEF n
<1>3. Comes(t, n)
  BY DEF n
<1>4. /\ \A x : x \in ToSet(log)' <=> x \in ToSet(log) \/ x = t
      /\ \A i \in 1..Len(log') : \/ i <= n /\ i \in 1..Len(log) /\ log'[i] = log[i]
                                 \/ i = n + 1 /\ log'[i] = t
                                 \/ i > n + 1 /\ i - 1 \in 1..Len(log) /\ log'[i] = log[i - 1]
  BY <1>1, <1>2, <1>3, ComesPlaces
<1>5. /\ log' \in Seq(Things) /\ Len(log') = Len(log) + 1 /\ log'[n + 1] = t
      /\ \A i \in 1..n : log'[i] = log[i]
  BY <1>3 DEF Comes, Inserted
<1>6. DOMAIN log' = 1..Len(log')
  BY <1>5, SetOfLog
<1>7. Answers' = Answers \cup {t} /\ Answers \subseteq Turns /\ t \notin Answers
      /\ \A w \in Answers : w \in ToSet(log)
  BY <1>2, <1>4 DEF Answers
<1>8. \A u \in Turns : turn'[u].ctx = turn[u].ctx /\ t \notin turn[u].ctx
  BY <1>2 DEF Placing, PlaceInv
\* An answer that stands apart was read by t, and is in front of it.
<1>9. ASSUME NEW w \in Answers, Apart(w)'
      PROVE  /\ Apart(w) /\ w \in turn[t].ctx
             /\ \A i \in 1..Len(log) : log[i] = w => i <= n
  <2>1. Apart(w)
    BY <1>7, <1>8, <1>9 DEF Apart, Overlapping
  <2>2. w \in turn[t].ctx
    <3>1. ~Overlapping(w, t)'
      BY <1>7, <1>9 DEF Apart
    <3> QED BY <1>7, <1>8, <3>1 DEF Overlapping
  <2> QED BY <1>1, <1>2, <2>1, <2>2 DEF Placing, ReadInv, n
<1>10. ASSUME NEW w \in Answers, Apart(w)'
       PROVE  /\ \A i \in 1..Len(log') : log'[i] = w => i \in 1..Len(log) /\ log[i] = w
              /\ Before(w)' = Before(w)
  <2>1. w # t /\ \A i \in 1..Len(log) : log[i] = w => i <= n
    BY <1>7, <1>9, <1>10
  <2> QED BY <1>1, <1>2, <1>3, <2>1, BeforeKept
<1>11. PlaceInv'
  <2>1. \A o \in Messages : o \in ToSet(log)' => post'[o].pc \in {"trigger", "done"}
    BY <1>1, <1>4 DEF Placing, PlaceInv
  <2>2. \A u \in Answers' : turn'[u].pc \in {"end", "free", "drop", "done"}
    BY <1>7 DEF Placing, PlaceInv
  <2>3. \A i, j \in DOMAIN log' : log'[i] = log'[j] => i = j
    BY <1>1, <1>2, <1>3, ComesDistinct DEF Placing, PlaceInv
  <2>4. \A u \in Turns : turn'[u].ctx \subseteq ToSet(log)'
    BY <1>4, <1>8 DEF Placing, PlaceInv
  <2>5. \A u \in Turns : InHand(u)' => turn'[u].at \in 0..Len(log')
    <3>1. \A k \in 0..Len(log) : k \in 0..Len(log')
      BY <1>1, <1>5
    <3> QED BY <3>1 DEF Placing, PlaceInv, InHand
  <2>6. \A u \in Turns : turn'[u].pc \notin {"idle", "done", "refused"} => turn'[u].host \in Hosts
    BY DEF Placing, PlaceInv
  <2>7. \A o \in Messages : post'[o].pc \in {"insert", "trigger"} => post'[o].host \in Hosts
    BY DEF Placing, PlaceInv
  <2> QED BY <2>1, <2>2, <2>3, <2>4, <2>5, <2>6, <2>7 DEF PlaceInv
<1>12. ReadInv'
  <2> SUFFICES ASSUME NEW u \in Turns, InHand(u)'
               PROVE  /\ Answers' \subseteq turn'[u].ctx =>
                           \A i \in DOMAIN log' : i <= turn'[u].at <=> log'[i] \in turn'[u].ctx
                      /\ \A w \in Answers' : Apart(w)' /\ w \in turn'[u].ctx =>
                           \A i \in DOMAIN log' : log'[i] = w => i <= turn'[u].at
    BY DEF ReadInv
  <2>1. u # t /\ turn'[u] = turn[u] /\ InHand(u)
    BY DEF InHand
  <2>2. ~(Answers' \subseteq turn'[u].ctx)
    BY <1>7, <1>8
  <2>3. ASSUME NEW w \in Answers', Apart(w)', w \in turn'[u].ctx, NEW i \in 1..Len(log'),
               log'[i] = w
        PROVE  i <= turn'[u].at
    <3>1. w \in Answers
      BY <1>7, <1>8, <2>3
    <3>2. Apart(w) /\ i \in 1..Len(log) /\ log[i] = w
      BY <1>9, <1>10, <2>3, <3>1
    <3> QED BY <1>1, <2>1, <2>3, <3>1, <3>2 DEF Placing, ReadInv
  <2> QED BY <1>6, <2>2, <2>3
<1>13. ASSUME Apart(t)'
       PROVE  Before(t)' = turn[t].ctx
  <2>1. Answers \subseteq turn[t].ctx
    <3>1. \A w \in Answers : ~Overlapping(t, w)'
      BY <1>7, <1>13 DEF Apart
    <3> QED BY <1>7, <1>8, <3>1 DEF Overlapping
  <2>2. \A i \in 1..Len(log) : i <= n <=> log[i] \in turn[t].ctx
    BY <1>1, <1>2, <2>1 DEF Placing, ReadInv, n
  <2>3. ASSUME NEW y
        PROVE  y \in Before(t)' <=> \E i \in 1..n : log[i] = y
    <3>1. y \in Before(t)' <=> /\ y \in ToSet(log')
                              /\ \E i, j \in 1..Len(log') : i < j /\ log'[i] = y /\ log'[j] = t
      BY <1>6 DEF Before
    <3>2. \A j \in 1..Len(log') : log'[j] = t => j = n + 1
      BY <1>1, <1>2, <1>4
    <3>3. n \in Nat /\ n + 1 \in 1..Len(log') /\ \A i \in 1..n : i \in 1..Len(log') /\ i < n + 1
      BY <1>1, <1>2, <1>5
    <3>4. \A i \in 1..Len(log') : i < n + 1 => i \in 1..n
      BY <1>1, <1>2, <1>5
    <3>5. (\E i \in 1..n : log[i] = y) => y \in ToSet(log')
      BY <1>1, <1>2, <1>4
    <3>6. (\E i, j \in 1..Len(log') : i < j /\ log'[i] = y /\ log'[j] = t)
            => \E i \in 1..n : log[i] = y
      BY <1>5, <3>2, <3>4
    <3>7. (\E i \in 1..n : log[i] = y)
            => \E i, j \in 1..Len(log') : i < j /\ log'[i] = y /\ log'[j] = t
      BY <1>5, <3>3
    <3> QED BY <3>1, <3>5, <3>6, <3>7
  <2>4. ASSUME NEW y
        PROVE  y \in turn[t].ctx <=> \E i \in 1..n : log[i] = y
    <3>1. y \in turn[t].ctx => \E i \in 1..Len(log) : log[i] = y
      BY <1>1 DEF Placing, PlaceInv
    <3>2. \A i \in 1..Len(log) : i <= n => i \in 1..n
      BY <1>1, <1>2
    <3>3. \A i \in 1..n : i \in 1..Len(log) /\ i <= n
      BY <1>1, <1>2
    <3> QED BY <2>2, <3>1, <3>2, <3>3
  <2> QED BY <2>3, <2>4
<1>14. AnswerInPlace'
  <2> SUFFICES ASSUME NEW w \in Answers', Apart(w)'
               PROVE  Before(w)' = turn'[w].ctx
    BY DEF AnswerInPlace
  <2>1. CASE w = t
    BY <1>13, <2>1
  <2>2. CASE w \in Answers
    <3>1. Before(w)' = Before(w) /\ Apart(w) /\ turn'[w].ctx = turn[w].ctx
      BY <1>7, <1>8, <1>9, <1>10, <2>2
    <3> QED BY <2>2, <3>1 DEF Placing, AnswerInPlace
  <2> QED BY <1>7, <2>1, <2>2
<1> QED BY <1>11, <1>12, <1>14 DEF Placing

(***************************************************************************)
(* What the actions make of a turn.                                        *)
(***************************************************************************)
Reading == {"model", "insert"}
OnTheWay == {"mark", "read", "model", "insert", "end", "free", "drop"}

\* The turn keeps what it has read and its place, or it begins, or it reads; it goes on
\* only if it did before.
Follows(t, c) ==
  /\ c \in Turn
  /\ c.pc \notin Over1 => c.host \in Hosts
  /\ turn[t].pc \in Behind => c.pc \in Behind
  /\ \/ /\ c.ctx = turn[t].ctx
        /\ c.pc \in Reading => turn[t].pc \in Reading /\ c.at = turn[t].at
     \/ turn[t].pc = "idle" /\ c.ctx = {} /\ c.pc \notin Reading
     \/ turn[t].pc = "read" /\ c.ctx = ToSet(log) /\ c.at = Len(log)
  /\ c.pc \in OnTheWay /\ ~c.aborted =>
       turn[t].pc \in OnTheWay /\ ~turn[t].aborted /\ c.host = turn[t].host

Ind == SessionInv /\ AnswerInPlace

LEMMA GoLemma ==
  ASSUME turn \in [Turns -> Turn], NEW t \in Turns, NEW c \in Turn, Go(t, c)
  PROVE  /\ turn' \in [Turns -> Turn] /\ turn'[t] = c
         /\ \A u \in Turns \ {t} : turn'[u] = turn[u]
BY DEF Go

LEMMA FollowsKept ==
  ASSUME NEW t \in Turns, Follows(t, turn'[t])
  PROVE  Kept(t)
BY DEF Follows, Kept, InHand, Reading

LEMMA SameKept ==
  ASSUME PlaceInv, NEW t \in Turns, turn'[t] = turn[t]
  PROVE  Kept(t)
<1>1. turn'[t].pc \notin Over1 => turn'[t].host \in Hosts
  BY DEF PlaceInv, Over1
<1>2. InHand(t)' => InHand(t)
  BY DEF InHand
<1> QED BY <1>1, <1>2 DEF Kept

LEMMA GoStep ==
  ASSUME TypeOK, SoleTurn, Placing, NEW t \in Turns, NEW c, Follows(t, c), Go(t, c),
         log' = log, ctrl' = ctrl, PostsKept
  PROVE  turn' \in [Turns -> Turn] /\ SoleTurn' /\ Placing'
<1>1. /\ turn' \in [Turns -> Turn] /\ turn'[t] = c
      /\ \A u \in Turns \ {t} : turn'[u] = turn[u]
  BY GoLemma DEF TypeOK, Follows
<1>2. \A u \in Turns : Kept(u)
  BY <1>1, FollowsKept, SameKept DEF Placing
<1>3. SoleTurn'
  <2>1. \A u \in Turns : Going(u)' /\ ~turn'[u].aborted =>
          Going(u) /\ ~turn[u].aborted /\ turn'[u].host = turn[u].host
    BY <1>1 DEF Follows, Going, OnTheWay
  <2> QED BY <2>1 DEF SoleTurn
<1> QED BY <1>1, <1>2, <1>3, KeptStep

\* A step that leaves the turns and the conversation alone.
LEMMA NoTurnStep ==
  ASSUME TypeOK, SoleTurn, Placing, turn' = turn, log' = log, ctrl' = ctrl, PostsKept
  PROVE  SoleTurn' /\ Placing'
<1>1. \A u \in Turns : Kept(u)
  BY SameKept DEF Placing
<1>2. SoleTurn'
  BY DEF SoleTurn, Going
<1> QED BY <1>1, <1>2, KeptStep

\* The actions of one turn, and what they make of it.
LEMMA BeginTurn ==
  ASSUME TypeOK, SoleTurn, Placing, NEW t \in Turns, NEW h \in Hosts, Begin(t, h),
         log' = log, ctrl' = ctrl, PostsKept
  PROVE  turn' \in [Turns -> Turn] /\ SoleTurn' /\ Placing'
<1> DEFINE c == [NoTurn EXCEPT !.pc = "load", !.host = h]
<1>1. /\ c \in Turn /\ c.pc = "load" /\ c.host = h /\ c.ctx = {}
  BY Names DEF NoTurn, Turn
<1>2. turn[t].pc = "idle" /\ Go(t, c)
  BY DEF Begin
<1> HIDE DEF c
<1>3. Follows(t, c)
  BY <1>1, <1>2 DEF Follows, Over1, Behind, Reading, OnTheWay
<1> QED BY <1>2, <1>3, GoStep

\* A turn that is over has nothing in hand.
LEMMA OverFollows ==
  ASSUME TypeOK, NEW t \in Turns, NEW how \in {"done", "refused"},
         how = "refused" => turn[t].pc \notin Behind
  PROVE  Follows(t, Over(turn[t], how))
<1> DEFINE c == Over(turn[t], how)
<1>1. turn[t] \in Turn
  BY DEF TypeOK
<1>2. c \in Turn /\ c.pc = how /\ c.ctx = turn[t].ctx
  BY <1>1, Names DEF Over, Turn
<1> HIDE DEF c
<1>3. Follows(t, c)
  BY <1>2 DEF Follows, Over1, Behind, Reading, OnTheWay
<1> QED BY <1>3 DEF c

\* A turn that takes its next step without reading.
LEMMA NextFollows ==
  ASSUME TypeOK, PlaceInv, NEW t \in Turns, NEW p \in TurnPCs, p \notin Over1,
         turn[t].pc \notin Over1, turn[t].pc \in Behind => p \in Behind,
         p \in Reading => turn[t].pc \in Reading, p \in OnTheWay => turn[t].pc \in OnTheWay
  PROVE  Follows(t, [turn[t] EXCEPT !.pc = p])
<1> DEFINE c == [turn[t] EXCEPT !.pc = p]
<1>1. turn[t] \in Turn
  BY DEF TypeOK
<1>2. /\ c \in Turn /\ c.pc = p /\ c.ctx = turn[t].ctx /\ c.at = turn[t].at
      /\ c.host = turn[t].host /\ c.aborted = turn[t].aborted
  BY <1>1 DEF Turn, TurnPCs
<1>3. turn[t].host \in Hosts
  BY DEF PlaceInv, Over1
<1> HIDE DEF c
<1>4. Follows(t, c)
  BY <1>2, <1>3 DEF Follows
<1> QED BY <1>4 DEF c

LEMMA LoadFollows ==
  ASSUME TypeOK, PlaceInv, NEW t \in Turns, turn[t].pc = "load"
  PROVE  Follows(t, [turn[t] EXCEPT !.pc = "check", !.seen = row.gen])
<1> DEFINE c == [turn[t] EXCEPT !.pc = "check", !.seen = row.gen]
<1>1. turn[t] \in Turn /\ row.gen \in Turns \cup {None}
  BY DEF TypeOK
<1>2. c \in Turn /\ c.pc = "check" /\ c.ctx = turn[t].ctx /\ c.host = turn[t].host
  BY <1>1 DEF Turn
<1>3. turn[t].host \in Hosts
  BY DEF PlaceInv
<1> HIDE DEF c
<1>4. Follows(t, c)
  BY <1>2, <1>3 DEF Follows, Over1, Behind, Reading, OnTheWay
<1> QED BY <1>4 DEF c

LEMMA ReadFollows ==
  ASSUME TypeOK, PlaceInv, NEW t \in Turns, turn[t].pc = "read"
  PROVE  Follows(t, [turn[t] EXCEPT !.pc = "model", !.ctx = ToSet(log), !.at = Len(log)])
<1> DEFINE c == [turn[t] EXCEPT !.pc = "model", !.ctx = ToSet(log), !.at = Len(log)]
<1>1. turn[t] \in Turn /\ ToSet(log) \subseteq Messages \cup Turns /\ Len(log) \in Nat
  BY SetOfLog DEF TypeOK, Things
<1>2. /\ c \in Turn /\ c.pc = "model" /\ c.ctx = ToSet(log) /\ c.at = Len(log)
      /\ c.host = turn[t].host /\ c.aborted = turn[t].aborted
  BY <1>1 DEF Turn
<1>3. turn[t].host \in Hosts
  BY DEF PlaceInv
<1> HIDE DEF c
<1>4. Follows(t, c)
  BY <1>2, <1>3 DEF Follows, Over1, Behind, OnTheWay
<1> QED BY <1>4 DEF c

LEMMA AgeFollows ==
  ASSUME TypeOK, PlaceInv, NEW t \in Turns
  PROVE  Follows(t, [turn[t] EXCEPT !.old = TRUE])
<1> DEFINE c == [turn[t] EXCEPT !.old = TRUE]
<1>1. turn[t] \in Turn
  BY DEF TypeOK
<1>2. /\ c \in Turn /\ c.pc = turn[t].pc /\ c.ctx = turn[t].ctx /\ c.at = turn[t].at
      /\ c.host = turn[t].host /\ c.aborted = turn[t].aborted
  BY <1>1 DEF Turn
<1>3. turn[t].pc \notin Over1 => turn[t].host \in Hosts
  BY DEF PlaceInv, Over1
<1> HIDE DEF c
<1>4. Follows(t, c)
  BY <1>2, <1>3 DEF Follows
<1> QED BY <1>4 DEF c

\* Turns that are told to stop stop, and change nothing else.
LEMMA AbortTurns ==
  ASSUME TypeOK, NEW h
  PROVE  /\ AbortOn(h) \in [Turns -> Turn]
         /\ \A u \in Turns : LET c == AbortOn(h)[u] IN
              /\ c.pc = turn[u].pc /\ c.host = turn[u].host /\ c.ctx = turn[u].ctx
              /\ c.at = turn[u].at
              /\ c.aborted <=> turn[u].aborted \/ ctrl[h] = u
<1>1. turn \in [Turns -> Turn]
  BY DEF TypeOK
<1>2. \A u \in Turns : /\ turn[u] \in Turn
                       /\ AbortOn(h)[u] = IF ctrl[h] = u THEN [turn[u] EXCEPT !.aborted = TRUE]
                                                         ELSE turn[u]
  BY <1>1 DEF AbortOn
<1>3. ASSUME NEW u \in Turns
      PROVE  LET c == AbortOn(h)[u] IN
              /\ c \in Turn
              /\ c.pc = turn[u].pc /\ c.host = turn[u].host /\ c.ctx = turn[u].ctx
              /\ c.at = turn[u].at
              /\ c.aborted <=> turn[u].aborted \/ ctrl[h] = u
  <2>1. CASE ctrl[h] = u
    <3> DEFINE d == [turn[u] EXCEPT !.aborted = TRUE]
    <3>1. turn[u] \in Turn /\ AbortOn(h)[u] = d
      BY <1>2, <2>1
    <3>2. /\ d \in Turn /\ d.aborted = TRUE
          /\ d.pc = turn[u].pc /\ d.host = turn[u].host /\ d.ctx = turn[u].ctx
          /\ d.at = turn[u].at
      BY <3>1 DEF Turn
    <3> HIDE DEF d
    <3> QED BY <2>1, <3>1, <3>2
  <2>2. CASE ctrl[h] # u
    BY <1>2, <2>2 DEF Turn
  <2> QED BY <2>1, <2>2
<1>4. AbortOn(h) \in [Turns -> Turn]
  BY <1>3 DEF AbortOn
<1> QED BY <1>3, <1>4

(***************************************************************************)
(* The actions.                                                            *)
(***************************************************************************)
LEMMA LikeKept ==
  ASSUME PlaceInv, NEW t \in Turns, turn'[t].pc = turn[t].pc, turn'[t].host = turn[t].host,
         turn'[t].ctx = turn[t].ctx, turn'[t].at = turn[t].at
  PROVE  Kept(t)
<1>1. turn'[t].pc \notin Over1 => turn'[t].host \in Hosts
  BY DEF PlaceInv, Over1
<1>2. InHand(t)' => InHand(t)
  BY DEF InHand
<1> QED BY <1>1, <1>2 DEF Kept

\* Whoever takes over has the controller; whoever had it has been told to stop.
LEMMA CheckStep ==
  ASSUME TypeOK, SoleTurn, Placing, NEW t \in Turns, Check(t)
  PROVE  turn' \in [Turns -> Turn] /\ ctrl' \in [Hosts -> Turns \cup {None}] /\ SoleTurn' /\ Placing'
<1>1. turn[t].pc = "check" /\ log' = log /\ PostsKept /\ PlaceInv
  BY SamePosts DEF Check, Placing
<1>2. CASE Go(t, Over(turn[t], "refused")) /\ ctrl' = ctrl
  <2>1. Follows(t, Over(turn[t], "refused"))
    BY <1>1, OverFollows DEF Behind
  <2> QED BY <1>1, <1>2, <2>1, GoStep DEF TypeOK
<1>3. CASE /\ turn' = [TakeOver(t) EXCEPT ![t].pc = "mark"]
           /\ ctrl' = [ctrl EXCEPT ![turn[t].host] = t]
  <2> DEFINE h == turn[t].host
             A == AbortOn(h)
             c == [A[t] EXCEPT !.pc = "mark"]
  <2>1. h \in Hosts
    BY <1>1 DEF PlaceInv
  <2>2. /\ A \in [Turns -> Turn]
        /\ \A u \in Turns : /\ A[u].pc = turn[u].pc /\ A[u].host = turn[u].host
                            /\ A[u].ctx = turn[u].ctx /\ A[u].at = turn[u].at
                            /\ A[u].aborted <=> turn[u].aborted \/ ctrl[h] = u
    BY AbortTurns
  <2>3. ctrl' = [ctrl EXCEPT ![h] = t] /\ ctrl' \in [Hosts -> Turns \cup {None}]
    BY <1>3, <2>1 DEF TypeOK
  <2>4. turn' = [A EXCEPT ![t] = c]
    BY <1>3 DEF TakeOver
  <2> HIDE DEF A
  <2>5. c \in Turn /\ c.pc = "mark" /\ c.host = h /\ c.ctx = turn[t].ctx /\ c.at = turn[t].at
    <3>1. A[t] \in Turn
      BY <2>2
    <3> QED BY <2>2, <3>1 DEF Turn
  <2> HIDE DEF c
  <2>6. turn' \in [Turns -> Turn] /\ turn'[t] = c /\ \A u \in Turns \ {t} : turn'[u] = A[u]
    BY <2>2, <2>4, <2>5
  <2>7. \A u \in Turns : Kept(u)
    <3>1. Kept(t)
      BY <1>1, <2>1, <2>5, <2>6 DEF Kept, InHand, Behind
    <3>2. ASSUME NEW u \in Turns \ {t}
          PROVE  Kept(u)
      BY <1>1, <2>2, <2>6, LikeKept
    <3> QED BY <3>1, <3>2
  <2>8. SoleTurn'
    <3> SUFFICES ASSUME NEW u \in Turns, Going(u)', ~turn'[u].aborted
                 PROVE  ctrl'[turn'[u].host] = u
      BY DEF SoleTurn
    <3>1. CASE u = t
      BY <2>1, <2>3, <2>5, <2>6, <3>1 DEF TypeOK
    <3>2. CASE u # t
      <4>1. Going(u) /\ ~turn[u].aborted /\ ctrl[h] # u /\ turn'[u].host = turn[u].host
        BY <2>2, <2>6, <3>2 DEF Going
      <4>2. turn[u].host # h /\ ctrl[turn[u].host] = u
        BY <4>1 DEF SoleTurn
      <4>3. turn[u].host \in Hosts
        BY <1>1, <4>1 DEF PlaceInv, Going
      <4> QED BY <2>3, <4>1, <4>2, <4>3 DEF TypeOK
    <3> QED BY <3>1, <3>2
  <2> QED BY <1>1, <2>3, <2>6, <2>7, <2>8, KeptStep
<1> QED BY <1>2, <1>3 DEF Check

LEMMA DropStep ==
  ASSUME TypeOK, SoleTurn, Placing, NEW t \in Turns, Drop(t)
  PROVE  turn' \in [Turns -> Turn] /\ ctrl' \in [Hosts -> Turns \cup {None}] /\ SoleTurn' /\ Placing'
<1> DEFINE c == Over(turn[t], "done")
           h == turn[t].host
<1>1. /\ turn[t].pc = "drop" /\ log' = log /\ PostsKept /\ PlaceInv
      /\ Go(t, c) /\ ctrl' = IF Own(t) THEN [ctrl EXCEPT ![h] = None] ELSE ctrl
  BY SamePosts DEF Drop, Placing
<1>2. Follows(t, c)
  BY OverFollows
<1>3. c.pc = "done" /\ h \in Hosts
  BY <1>1 DEF Over, PlaceInv, TypeOK, Turn
<1> HIDE DEF c
<1>4. turn' \in [Turns -> Turn] /\ turn'[t] = c /\ \A u \in Turns \ {t} : turn'[u] = turn[u]
  BY <1>1, <1>2, GoLemma DEF TypeOK, Follows
<1>5. \A u \in Turns : Kept(u)
  BY <1>1, <1>2, <1>4, FollowsKept, SameKept
<1>6. ctrl' \in [Hosts -> Turns \cup {None}]
      /\ \A g \in Hosts : g # h \/ ctrl[g] # t => ctrl'[g] = ctrl[g]
  BY <1>1, <1>3 DEF TypeOK, Own
<1>7. SoleTurn'
  <2> SUFFICES ASSUME NEW u \in Turns, Going(u)', ~turn'[u].aborted
               PROVE  ctrl'[turn'[u].host] = u
    BY DEF SoleTurn
  <2>1. u # t
    BY <1>3, <1>4 DEF Going
  <2>2. Going(u) /\ ~turn[u].aborted /\ turn'[u].host = turn[u].host
    BY <1>4, <2>1 DEF Going
  <2>3. ctrl[turn[u].host] = u /\ turn[u].host \in Hosts
    BY <1>1, <2>2 DEF SoleTurn, PlaceInv, Going
  <2> QED BY <1>6, <2>1, <2>2, <2>3
<1> QED BY <1>1, <1>4, <1>5, <1>6, <1>7, KeptStep

LEMMA CloseCancelStep ==
  ASSUME TypeOK, SoleTurn, Placing, CloseCancel
  PROVE  turn' \in [Turns -> Turn] /\ ctrl' \in [Hosts -> Turns \cup {None}] /\ SoleTurn' /\ Placing'
<1> DEFINE A == AbortOn(closer)
<1>1. /\ closer \in Hosts /\ log' = log /\ PostsKept /\ PlaceInv
      /\ turn' = A /\ ctrl' = [ctrl EXCEPT ![closer] = None]
  BY SamePosts DEF CloseCancel, Placing, TypeOK
<1>2. /\ A \in [Turns -> Turn]
      /\ \A u \in Turns : /\ A[u].pc = turn[u].pc /\ A[u].host = turn[u].host
                          /\ A[u].ctx = turn[u].ctx /\ A[u].at = turn[u].at
                          /\ A[u].aborted <=> turn[u].aborted \/ ctrl[closer] = u
  BY AbortTurns
<1> HIDE DEF A
<1>3. \A u \in Turns : Kept(u)
  BY <1>1, <1>2, LikeKept
<1>4. SoleTurn'
  <2> SUFFICES ASSUME NEW u \in Turns, Going(u)', ~turn'[u].aborted
               PROVE  ctrl'[turn'[u].host] = u
    BY DEF SoleTurn
  <2>1. Going(u) /\ ~turn[u].aborted /\ ctrl[closer] # u /\ turn'[u].host = turn[u].host
    BY <1>1, <1>2 DEF Going
  <2>2. ctrl[turn[u].host] = u /\ turn[u].host \in Hosts
    BY <1>1, <2>1 DEF SoleTurn, PlaceInv, Going
  <2> QED BY <1>1, <2>1, <2>2 DEF TypeOK
<1>5. ctrl' \in [Hosts -> Turns \cup {None}]
  BY <1>1 DEF TypeOK
<1> QED BY <1>1, <1>2, <1>3, <1>4, <1>5, KeptStep

LEMMA CrashStep ==
  ASSUME TypeOK, SoleTurn, Placing, NEW h \in Hosts, Crash(h)
  PROVE  /\ turn' \in [Turns -> Turn] /\ ctrl' \in [Hosts -> Turns \cup {None}]
         /\ post' \in [Messages -> Post] /\ SoleTurn' /\ Placing'
<1>1. /\ log' = log /\ PlaceInv /\ ctrl' = [ctrl EXCEPT ![h] = None]
      /\ turn' = [t \in Turns |->
           IF turn[t].host = h THEN Over(turn[t], "done") ELSE turn[t]]
      /\ post' = [m \in Messages |->
           IF post[m].host = h THEN [post[m] EXCEPT !.pc = "done"] ELSE post[m]]
  BY DEF Crash, Placing
<1>2. ASSUME NEW m \in Messages
      PROVE  post'[m] \in Post /\ PostKept(m)
  <2>1. post[m] \in Post
    BY DEF TypeOK
  <2>2. CASE post[m].host = h
    <3>1. post'[m] = [post[m] EXCEPT !.pc = "done"]
      BY <1>1, <2>2
    <3>2. post'[m] \in Post /\ post'[m].pc = "done"
      BY <2>1, <3>1 DEF Post
    <3> QED BY <3>2 DEF PostKept
  <2>3. CASE post[m].host # h
    <3>1. post'[m] = post[m]
      BY <1>1, <2>3
    <3> QED BY <1>1, <2>1, <3>1, SamePostKept
  <2> QED BY <2>2, <2>3
<1>3. PostsKept /\ post' \in [Messages -> Post]
  <2>1. DOMAIN post' = Messages /\ post' = [m \in Messages |-> post'[m]]
    BY <1>1
  <2> QED BY <1>2, <2>1 DEF PostsKept
<1>4. ASSUME NEW u \in Turns
      PROVE  /\ turn'[u] \in Turn /\ Kept(u)
             /\ \/ turn'[u].pc = "done"
                \/ turn'[u] = turn[u] /\ turn[u].host # h
  <2>1. turn[u] \in Turn
    BY DEF TypeOK
  <2>2. CASE turn[u].host = h
    <3>1. turn'[u] = Over(turn[u], "done")
      BY <1>1, <2>2
    <3>2. Follows(u, turn'[u])
      BY <3>1, OverFollows
    <3>3. turn'[u].pc = "done"
      BY <2>1, <3>1 DEF Over, Turn
    <3> QED BY <3>2, <3>3, FollowsKept DEF Follows
  <2>3. CASE turn[u].host # h
    <3>1. turn'[u] = turn[u]
      BY <1>1, <2>3
    <3> QED BY <1>1, <2>1, <2>3, <3>1, SameKept
  <2> QED BY <2>2, <2>3
<1>5. turn' \in [Turns -> Turn]
  <2>1. turn' = [u \in Turns |-> turn'[u]]
    BY <1>1
  <2> QED BY <1>4, <2>1
<1>6. SoleTurn'
  <2> SUFFICES ASSUME NEW u \in Turns, Going(u)', ~turn'[u].aborted
               PROVE  ctrl'[turn'[u].host] = u
    BY DEF SoleTurn
  <2>1. turn'[u] = turn[u] /\ turn[u].host # h
    BY <1>4 DEF Going
  <2>2. ctrl[turn[u].host] = u /\ turn[u].host \in Hosts
    BY <1>1, <2>1 DEF SoleTurn, PlaceInv, Going
  <2> QED BY <1>1, <2>1, <2>2 DEF TypeOK
<1>7. ctrl' \in [Hosts -> Turns \cup {None}]
  BY <1>1 DEF TypeOK
<1> QED BY <1>1, <1>3, <1>4, <1>5, <1>6, <1>7, KeptStep

LEMMA InsertStep ==
  ASSUME TypeOK, SoleTurn, Placing, NEW t \in Turns, Insert(t)
  PROVE  turn' \in [Turns -> Turn] /\ log' \in Seq(Things) /\ SoleTurn' /\ Placing'
<1> DEFINE c == [turn[t] EXCEPT !.pc = "end"]
           n == turn[t].at
<1>1. /\ turn[t].pc = "insert" /\ log' = InsertAt(log, n + 1, t) /\ Go(t, c)
      /\ ctrl' = ctrl /\ post' = post
  BY DEF Insert, Placed
<1>2. /\ c \in Turn /\ c.pc = "end" /\ c.host = turn[t].host /\ c.ctx = turn[t].ctx
      /\ c.aborted = turn[t].aborted
  BY DEF TypeOK, Turn
<1> HIDE DEF c
<1>3. turn' \in [Turns -> Turn] /\ turn'[t] = c /\ \A u \in Turns \ {t} : turn'[u] = turn[u]
  BY <1>1, <1>2, GoLemma DEF TypeOK
<1>4. n \in 0..Len(log) /\ log \in Seq(Things) /\ t \in Things
  BY <1>1 DEF Placing, PlaceInv, InHand, TypeOK, Things
<1>5. Comes(t, n)
  BY <1>1, <1>4, ComesByInsertAt
<1>6. Placing'
  BY <1>1, <1>2, <1>3, <1>5, AnswerComes
<1>7. SoleTurn'
  <2>1. \A u \in Turns : Going(u)' /\ ~turn'[u].aborted =>
          Going(u) /\ ~turn[u].aborted /\ turn'[u].host = turn[u].host
    BY <1>1, <1>2, <1>3 DEF Going
  <2> QED BY <1>1, <2>1 DEF SoleTurn
<1> QED BY <1>3, <1>5, <1>6, <1>7 DEF Comes, Inserted

LEMMA PostInsertStep ==
  ASSUME TypeOK, SoleTurn, Placing, NEW m \in Messages, PostInsert(m)
  PROVE  post' \in [Messages -> Post] /\ log' \in Seq(Things) /\ SoleTurn' /\ Placing'
<1> DEFINE p == IF Triggers(m) THEN "trigger" ELSE "done"
           c == [post[m] EXCEPT !.pc = p]
<1>1. /\ post[m].pc = "insert" /\ log' = Append(log, m) /\ post' = [post EXCEPT ![m] = c]
      /\ ctrl' = ctrl /\ turn' = turn /\ p \in {"trigger", "done"}
  BY DEF PostInsert
<1> HIDE DEF p
<1>2. c \in Post /\ c.pc \in {"trigger", "done"} /\ c.host \in Hosts
  <2>1. post[m] \in Post /\ post[m].host \in Hosts
    BY <1>1 DEF TypeOK, Placing, PlaceInv
  <2> QED BY <1>1, <2>1 DEF Post
<1> HIDE DEF c
<1>3. /\ post' \in [Messages -> Post] /\ post'[m] = c
      /\ \A o \in Messages \ {m} : post'[o] = post[o]
  BY <1>1, <1>2 DEF TypeOK
<1>4. log \in Seq(Things) /\ m \in Things /\ m \notin ToSet(log)
  BY <1>1 DEF Placing, PlaceInv, TypeOK, Things
<1>5. Comes(m, Len(log))
  BY <1>1, <1>4, ComesByAppend
<1>6. Placing'
  BY <1>1, <1>2, <1>3, <1>4, <1>5, MessageComes
<1>7. SoleTurn'
  BY <1>1 DEF SoleTurn, Going
<1> QED BY <1>3, <1>5, <1>6, <1>7 DEF Comes, Inserted

\* An addSessionMessage call ends.
LEMMA PostStep ==
  ASSUME post \in [Messages -> Post], PlaceInv, NEW m \in Messages,
         post' = [post EXCEPT ![m].pc = "done"]
  PROVE  post' \in [Messages -> Post] /\ PostsKept
<1> DEFINE c == [post[m] EXCEPT !.pc = "done"]
<1>1. c \in Post /\ c.pc = "done"
  BY DEF Post
<1>2. post' = [post EXCEPT ![m] = c]
  OBVIOUS
<1> HIDE DEF c
<1>3. /\ post' \in [Messages -> Post] /\ post'[m] = c
      /\ \A o \in Messages \ {m} : post'[o] = post[o]
  BY <1>1, <1>2
<1>4. PostKept(m)
  BY <1>1, <1>3 DEF PostKept
<1>5. PostsKept
  BY <1>3, <1>4, SamePostKept DEF PostsKept
<1> QED BY <1>3, <1>5

LEMMA InitInd == Init => Ind
<1> SUFFICES ASSUME Init
             PROVE  Ind
  OBVIOUS
<1>1. TypeOK
  <2>1. NoTurn \in Turn /\ NoPost \in Post
    BY Names DEF NoTurn, NoPost, Turn, Post
  <2>2. log \in Seq(Messages \cup Turns) /\ 0 \in 0..MaxFaults
    BY Names DEF Init
  <2> QED BY <2>1, <2>2 DEF Init, TypeOK
<1>2. /\ \A t \in Turns : turn[t].pc = "idle" /\ turn[t].ctx = {}
      /\ \A m \in Messages : post[m].pc = "idle"
  BY DEF Init, NoTurn, NoPost
<1>3. DOMAIN log = {} /\ ToSet(log) = {}
  BY DEF Init, ToSet
<1>4. SoleTurn
  BY <1>2 DEF SoleTurn, Going
<1>5. PlaceInv /\ ReadInv /\ AnswerInPlace
  BY <1>2, <1>3 DEF PlaceInv, ReadInv, AnswerInPlace, InHand, Answers
<1> QED BY <1>1, <1>4, <1>5 DEF Ind, SessionInv

LEMMA NextInd == Ind /\ [Next]_vars => Ind'
<1> SUFFICES ASSUME TypeOK, SoleTurn, Placing, [Next]_vars
             PROVE  TypeOK' /\ SoleTurn' /\ Placing'
  BY DEF Ind, SessionInv, Placing
<1> USE DEF Fault
<1>0. PlaceInv
  BY DEF Placing
<1>1. ASSUME NEW m \in Messages, PostInsert(m)
      PROVE  TypeOK' /\ SoleTurn' /\ Placing'
  <2>1. post' \in [Messages -> Post] /\ log' \in Seq(Things) /\ SoleTurn' /\ Placing'
    BY <1>1, PostInsertStep
  <2> QED BY <1>1, <2>1 DEF PostInsert, TypeOK, Things
<1>2. ASSUME NEW m \in Messages, PostTrigger(m)
      PROVE  TypeOK' /\ SoleTurn' /\ Placing'
  <2>1. post' \in [Messages -> Post] /\ PostsKept
    BY <1>0, <1>2, PostStep DEF PostTrigger, TypeOK
  <2>2. CASE timer' = [timer EXCEPT ![post[m].host] = TRUE] /\ turn' = turn
    <3>1. SoleTurn' /\ Placing'
      BY <1>2, <2>1, <2>2, NoTurnStep DEF PostTrigger
    <3>2. timer' \in [Hosts -> BOOLEAN]
      BY <2>2 DEF TypeOK
    <3> QED BY <1>2, <2>1, <2>2, <3>1, <3>2 DEF PostTrigger, TypeOK
  <2>3. CASE (\E t \in Turns : Begin(t, post[m].host)) /\ timer' = timer
    <3>1. PICK t \in Turns : Begin(t, post[m].host)
      BY <2>3
    <3>2. CASE post[m].host \in Hosts
      <4>1. turn' \in [Turns -> Turn] /\ SoleTurn' /\ Placing'
        BY <1>2, <2>1, <3>1, <3>2, BeginTurn DEF PostTrigger
      <4> QED BY <1>2, <2>1, <2>3, <4>1 DEF PostTrigger, TypeOK
    <3>3. post[m].host \in Hosts
      BY <1>0, <1>2 DEF PlaceInv, PostTrigger
    <3> QED BY <3>2, <3>3
  <2> QED BY <1>2, <2>2, <2>3 DEF PostTrigger
<1>3. ASSUME NEW h \in Hosts, TimerFires(h)
      PROVE  TypeOK' /\ SoleTurn' /\ Placing'
  <2>1. PICK t \in Turns : Begin(t, h)
    BY <1>3 DEF TimerFires
  <2>2. turn' \in [Turns -> Turn] /\ SoleTurn' /\ Placing'
    BY <1>0, <1>3, <2>1, BeginTurn, SamePosts DEF TimerFires
  <2> QED BY <1>3, <2>2 DEF TimerFires, TypeOK
<1>4. ASSUME NEW t \in Turns, Load(t)
      PROVE  TypeOK' /\ SoleTurn' /\ Placing'
  <2>1. Follows(t, Over(turn[t], "done"))
    BY OverFollows
  <2>2. Follows(t, [turn[t] EXCEPT !.pc = "check", !.seen = row.gen])
    BY <1>0, <1>4, LoadFollows DEF Load
  <2>3. turn' \in [Turns -> Turn] /\ SoleTurn' /\ Placing'
    <3>1. PICK c : Go(t, c) /\ Follows(t, c)
      BY <1>4, <2>1, <2>2 DEF Load
    <3> QED BY <1>0, <1>4, <3>1, GoStep, SamePosts DEF Load
  <2> QED BY <1>4, <2>3 DEF Load, TypeOK
<1>5. ASSUME NEW t \in Turns, Check(t)
      PROVE  TypeOK' /\ SoleTurn' /\ Placing'
  <2>1. turn' \in [Turns -> Turn] /\ ctrl' \in [Hosts -> Turns \cup {None}] /\ SoleTurn' /\ Placing'
    BY <1>5, CheckStep
  <2> QED BY <1>5, <2>1 DEF Check, TypeOK
<1>6. ASSUME NEW t \in Turns, Mark(t)
      PROVE  TypeOK' /\ SoleTurn' /\ Placing'
  <2>1. Follows(t, [turn[t] EXCEPT !.pc = "read"])
    BY <1>0, <1>6, NextFollows DEF Mark, TurnPCs, Over1, Behind, Reading, OnTheWay
  <2>2. turn' \in [Turns -> Turn] /\ SoleTurn' /\ Placing'
    BY <1>0, <1>6, <2>1, GoStep, SamePosts DEF Mark
  <2>3. row' \in [status: {"open", "closed"}, gen: Turns \cup {None}]
    BY <1>6 DEF Mark, TypeOK
  <2> QED BY <1>6, <2>2, <2>3 DEF Mark, TypeOK
<1>7. ASSUME NEW t \in Turns, Read(t)
      PROVE  TypeOK' /\ SoleTurn' /\ Placing'
  <2>1. Follows(t, [turn[t] EXCEPT !.pc = "model", !.ctx = ToSet(log), !.at = Len(log)])
    BY <1>0, <1>7, ReadFollows DEF Read
  <2>2. turn' \in [Turns -> Turn] /\ SoleTurn' /\ Placing'
    BY <1>0, <1>7, <2>1, GoStep, SamePosts DEF Read
  <2> QED BY <1>7, <2>2 DEF Read, TypeOK
<1>8. ASSUME NEW t \in Turns, Answer(t)
      PROVE  TypeOK' /\ SoleTurn' /\ Placing'
  <2>1. PICK p \in {"end", "insert"} : Go(t, [turn[t] EXCEPT !.pc = p])
    <3>1. CASE turn[t].aborted
      BY <1>8, <3>1 DEF Answer
    <3>2. CASE ~turn[t].aborted
      BY <1>8, <3>2 DEF Answer
    <3> QED BY <3>1, <3>2
  <2>2. Follows(t, [turn[t] EXCEPT !.pc = p])
    BY <1>0, <1>8, NextFollows DEF Answer, TurnPCs, Over1, Behind, Reading, OnTheWay
  <2>3. turn' \in [Turns -> Turn] /\ SoleTurn' /\ Placing'
    BY <1>0, <1>8, <2>1, <2>2, GoStep, SamePosts DEF Answer
  <2> QED BY <1>8, <2>3 DEF Answer, TypeOK
<1>9. ASSUME NEW t \in Turns, Insert(t)
      PROVE  TypeOK' /\ SoleTurn' /\ Placing'
  <2>1. turn' \in [Turns -> Turn] /\ log' \in Seq(Things) /\ SoleTurn' /\ Placing'
    BY <1>9, InsertStep
  <2> QED BY <1>9, <2>1 DEF Insert, TypeOK, Things
<1>10. ASSUME NEW t \in Turns, End(t)
       PROVE  TypeOK' /\ SoleTurn' /\ Placing'
  <2>1. PICK p \in {"drop", "free"} : Go(t, [turn[t] EXCEPT !.pc = p])
    <3>1. CASE turn[t].aborted
      BY <1>10, <3>1 DEF End
    <3>2. CASE ~turn[t].aborted
      BY <1>10, <3>2 DEF End
    <3> QED BY <3>1, <3>2
  <2>2. Follows(t, [turn[t] EXCEPT !.pc = p])
    BY <1>0, <1>10, NextFollows DEF End, TurnPCs, Over1, Behind, Reading, OnTheWay
  <2>3. turn' \in [Turns -> Turn] /\ SoleTurn' /\ Placing'
    BY <1>0, <1>10, <2>1, <2>2, GoStep, SamePosts DEF End
  <2> QED BY <1>10, <2>3 DEF End, TypeOK
<1>11. ASSUME NEW t \in Turns, Free(t)
       PROVE  TypeOK' /\ SoleTurn' /\ Placing'
  <2>1. Follows(t, [turn[t] EXCEPT !.pc = "drop"])
    BY <1>0, <1>11, NextFollows DEF Free, TurnPCs, Over1, Behind, Reading, OnTheWay
  <2>2. turn' \in [Turns -> Turn] /\ SoleTurn' /\ Placing'
    BY <1>0, <1>11, <2>1, GoStep, SamePosts DEF Free
  <2>3. row' \in [status: {"open", "closed"}, gen: Turns \cup {None}]
    BY <1>11 DEF Free, TypeOK
  <2> QED BY <1>11, <2>2, <2>3 DEF Free, TypeOK
<1>12. ASSUME NEW t \in Turns, Drop(t)
       PROVE  TypeOK' /\ SoleTurn' /\ Placing'
  <2>1. turn' \in [Turns -> Turn] /\ ctrl' \in [Hosts -> Turns \cup {None}] /\ SoleTurn' /\ Placing'
    BY <1>12, DropStep
  <2> QED BY <1>12, <2>1 DEF Drop, TypeOK
<1>13. ASSUME CloseCancel
       PROVE  TypeOK' /\ SoleTurn' /\ Placing'
  <2>1. turn' \in [Turns -> Turn] /\ ctrl' \in [Hosts -> Turns \cup {None}] /\ SoleTurn' /\ Placing'
    BY <1>13, CloseCancelStep
  <2>2. timer' \in [Hosts -> BOOLEAN] /\ closer' \in Hosts \cup {None}
    BY <1>13 DEF CloseCancel, TypeOK
  <2> QED BY <1>13, <2>1, <2>2 DEF CloseCancel, TypeOK
<1>14. ASSUME NEW m \in Messages, NEW h \in Hosts, PostLoad(m, h)
       PROVE  TypeOK' /\ SoleTurn' /\ Placing'
  <2>1. [pc |-> "insert", host |-> h, seen |-> row.gen] \in Post
    BY DEF TypeOK, Post
  <2>2. post' \in [Messages -> Post] /\ PostsKept
    <3>1. /\ post' \in [Messages -> Post]
          /\ post[m].pc = "idle" /\ post'[m] = [pc |-> "insert", host |-> h, seen |-> row.gen]
          /\ \A o \in Messages \ {m} : post'[o] = post[o]
      BY <1>14, <2>1 DEF PostLoad, TypeOK
    <3>2. PostKept(m)
      BY <3>1 DEF PostKept
    <3> QED BY <1>0, <3>1, <3>2, SamePostKept DEF PostsKept
  <2>3. SoleTurn' /\ Placing'
    BY <1>14, <2>2, NoTurnStep DEF PostLoad
  <2> QED BY <1>14, <2>2, <2>3 DEF PostLoad, TypeOK
<1>15. ASSUME NEW m \in Messages, PostConflict(m)
       PROVE  TypeOK' /\ SoleTurn' /\ Placing'
  <2>1. post' \in [Messages -> Post] /\ PostsKept
    BY <1>0, <1>15, PostStep DEF PostConflict, TypeOK
  <2>2. SoleTurn' /\ Placing'
    BY <1>15, <2>1, NoTurnStep DEF PostConflict
  <2>3. faults' \in 0..MaxFaults
    BY <1>15, Names DEF PostConflict, TypeOK
  <2> QED BY <1>15, <2>1, <2>2, <2>3 DEF PostConflict, TypeOK
<1>16. ASSUME NEW t \in Turns, NEW h \in Hosts, Generate(t, h)
       PROVE  TypeOK' /\ SoleTurn' /\ Placing'
  <2>1. turn' \in [Turns -> Turn] /\ SoleTurn' /\ Placing'
    BY <1>0, <1>16, BeginTurn, SamePosts DEF Generate
  <2> QED BY <1>16, <2>1 DEF Generate, TypeOK
<1>17. ASSUME NEW t \in Turns, NoAnswer(t) \/ InsertConflict(t)
       PROVE  TypeOK' /\ SoleTurn' /\ Placing'
  <2>1. /\ turn[t].pc \in {"model", "insert"} /\ Go(t, [turn[t] EXCEPT !.pc = "end"])
        /\ faults < MaxFaults /\ faults' = faults + 1
        /\ UNCHANGED <<mode, row, log, ctrl, timer, post, closer>>
    BY <1>17 DEF NoAnswer, InsertConflict
  <2>2. Follows(t, [turn[t] EXCEPT !.pc = "end"])
    BY <1>0, <2>1, NextFollows DEF TurnPCs, Over1, Behind, Reading, OnTheWay
  <2>3. turn' \in [Turns -> Turn] /\ SoleTurn' /\ Placing'
    BY <1>0, <2>1, <2>2, GoStep, SamePosts
  <2>4. faults' \in 0..MaxFaults
    BY <2>1, Names DEF TypeOK
  <2> QED BY <2>1, <2>3, <2>4 DEF TypeOK
<1>18. ASSUME NEW t \in Turns, Age(t)
       PROVE  TypeOK' /\ SoleTurn' /\ Placing'
  <2>1. Follows(t, [turn[t] EXCEPT !.old = TRUE])
    BY <1>0, AgeFollows
  <2>2. turn' \in [Turns -> Turn] /\ SoleTurn' /\ Placing'
    BY <1>0, <1>18, <2>1, GoStep, SamePosts DEF Age
  <2>3. faults' \in 0..MaxFaults
    BY <1>18, Names DEF Age, TypeOK
  <2> QED BY <1>18, <2>2, <2>3 DEF Age, TypeOK
<1>19. ASSUME NEW h \in Hosts, Close(h)
       PROVE  TypeOK' /\ SoleTurn' /\ Placing'
  <2>1. SoleTurn' /\ Placing'
    BY <1>0, <1>19, NoTurnStep, SamePosts DEF Close
  <2>2. row' \in [status: {"open", "closed"}, gen: Turns \cup {None}]
    BY <1>19 DEF Close, TypeOK
  <2>3. faults' \in 0..MaxFaults
    BY <1>19, Names DEF Close, TypeOK
  <2> QED BY <1>19, <2>1, <2>2, <2>3 DEF Close, TypeOK
<1>20. ASSUME NEW h \in Hosts, Crash(h)
       PROVE  TypeOK' /\ SoleTurn' /\ Placing'
  <2>1. /\ turn' \in [Turns -> Turn] /\ ctrl' \in [Hosts -> Turns \cup {None}]
        /\ post' \in [Messages -> Post] /\ SoleTurn' /\ Placing'
    BY <1>20, CrashStep
  <2>2. timer' \in [Hosts -> BOOLEAN] /\ closer' \in Hosts \cup {None}
    BY <1>20 DEF Crash, TypeOK
  <2>3. faults' \in 0..MaxFaults
    BY <1>20, Names DEF Crash, TypeOK
  <2> QED BY <1>20, <2>1, <2>2, <2>3 DEF Crash, TypeOK
<1>21. ASSUME UNCHANGED vars
       PROVE  TypeOK' /\ SoleTurn' /\ Placing'
  <2>1. SoleTurn' /\ Placing'
    BY <1>0, <1>21, NoTurnStep, SamePosts DEF vars
  <2> QED BY <1>21, <2>1 DEF vars, TypeOK
<1> QED
  BY <1>1, <1>2, <1>3, <1>4, <1>5, <1>6, <1>7, <1>8, <1>9, <1>10, <1>11, <1>12, <1>13, <1>14,
     <1>15, <1>16, <1>17, <1>18, <1>19, <1>20, <1>21 DEF Next, Server, Generation

(***************************************************************************)
(* The theorems.                                                           *)
(***************************************************************************)
\* Whatever calls, processes and faults there are: a process has one turn of the session
\* that has not been told to stop, the one whose controller is in its map, and every turn
\* that may still answer knows its place in the conversation.
THEOREM SessionCorrect == Spec => []SessionInv
<1>1. Ind => SessionInv
  BY DEF Ind
<1> QED BY <1>1, InitInd, NextInd, PTL DEF Spec

\* A turn that overlaps no other that answers has inserted its answer behind all it has
\* read and before everything said meanwhile: resolveMessagePosition places by the
\* snapshot, and no later insertion comes between.
THEOREM AnswersInPlace == Spec => []AnswerInPlace
<1>1. Ind => AnswerInPlace
  BY DEF Ind
<1> QED BY <1>1, InitInd, NextInd, PTL DEF Spec
=============================================================================
