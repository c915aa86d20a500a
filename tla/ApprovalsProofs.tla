--------------------------- MODULE ApprovalsProofs ---------------------------
(***************************************************************************)
(* For any number of items, keys, approvers and sweeping processes: the    *)
(* inductive invariant of Approvals, and the safety properties it implies. *)
(***************************************************************************)
EXTENDS Approvals, FiniteSetTheorems, TLAPS

\* The initial table satisfies the inductive invariant.
LEMMA InitIndInv == Init => IndInv
<1> SUFFICES ASSUME Init PROVE IndInv
  OBVIOUS
<1> USE TimeAssumption, CrashAssumption, NullAssumption
<1>1. TypeOK
  BY DEF Init, TypeOK, Row, Verbs, Statuses, Resolutions, EmitCall, ReqCall
<1>2. CallsInv
  BY DEF Init, CallsInv, CallInv
<1>3. RowsInv
  BY DEF Init, RowsInv, RowInv
<1>4. NoticesInv
  BY DEF Init, NoticesInv
<1>5. IndexInv
  BY DEF Init, IndexInv, Pending
<1> QED
  BY <1>1, <1>2, <1>3, <1>4, <1>5 DEF IndInv

\* Updating columns of a row, or fields of a call, keeps it one.
LEMMA RowUpdate ==
  ASSUME NEW row \in Row, NEW s \in Statuses, NEW e \in Requests \cup {Null}
  PROVE  /\ [row EXCEPT !.status = s] \in Row
         /\ [row EXCEPT !.status = s, !.edited = e] \in Row
  BY DEF Row

LEMMA CallUpdate ==
  ASSUME NEW call \in ReqCall, NEW t \in 0..MaxTime,
         NEW pc \in {"idle", "read", "check", "save", "expire", "saved", "done"}
  PROVE  /\ [call EXCEPT !.pc = pc] \in ReqCall
         /\ [call EXCEPT !.pc = pc, !.at = t] \in ReqCall
  BY DEF ReqCall

LEMMA EmitUpdate ==
  ASSUME NEW calls \in [Emitters -> EmitCall], NEW e \in Emitters
  PROVE  /\ [calls EXCEPT ![e].pc = "insert"] \in [Emitters -> EmitCall]
         /\ \A i \in Items :
              [calls EXCEPT ![e].pc = "done", ![e].ret = i] \in [Emitters -> EmitCall]
<1>1. calls[e] \in EmitCall
  OBVIOUS
<1>2. [calls[e] EXCEPT !.pc = "insert"] \in EmitCall
  BY <1>1 DEF EmitCall
<1>3. ASSUME NEW i \in Items
      PROVE  [calls[e] EXCEPT !.pc = "done", !.ret = i] \in EmitCall
  BY <1>1 DEF EmitCall
<1> QED BY <1>2, <1>3

\* A guarded expiry leaves a well-typed table, whoever performs it.
LEMMA ExpireTyped ==
  ASSUME IndInv, NEW i \in Items, NEW t, NEW who \in Requests \cup Hosts,
         ExpireRow(i, t, who)
  PROVE  /\ item' \in [Items -> Row]
         /\ claims' \in [Items -> Nat]
         /\ notice' \in SUBSET Notice
<1> USE DEF IndInv, TypeOK
<1>1. CASE Due(i, t)
  <2>1. item' \in [Items -> Row]
    <3> DEFINE row == [item[i] EXCEPT !.status = "expired"]
    <3>1. row \in Row
      <4>1. item[i] \in Row
        OBVIOUS
      <4> QED BY <4>1, RowUpdate DEF Statuses, Resolutions
    <3>2. item' = [item EXCEPT ![i] = row]
      BY <1>1 DEF ExpireRow
    <3> HIDE DEF row
    <3> QED BY <3>1, <3>2
  <2>2. claims' \in [Items -> Nat]
    BY <1>1 DEF ExpireRow
  <2>3. notice' \in SUBSET Notice
    BY <1>1 DEF ExpireRow, Notice
  <2> QED BY <2>1, <2>2, <2>3
<1>2. CASE ~Due(i, t)
  BY <1>2 DEF ExpireRow
<1> QED BY <1>1, <1>2

\* Every step keeps the types.
LEMMA TypeStep == IndInv /\ [Next]_vars => TypeOK'
<1> SUFFICES ASSUME IndInv, [Next]_vars PROVE TypeOK'
  OBVIOUS
<1> USE TimeAssumption, CrashAssumption, NullAssumption DEF IndInv
<1>1. ASSUME NEW e \in Emitters, EmitStart(e) PROVE TypeOK'
  BY <1>1 DEF EmitStart, TypeOK, EmitCall
<1>2. ASSUME NEW e \in Emitters, EmitRead(e) PROVE TypeOK'
  <2>0. emit \in [Emitters -> EmitCall]
    BY DEF TypeOK
  <2>1. CASE emit' = [emit EXCEPT ![e].pc = "insert"]
    <3>1. emit' \in [Emitters -> EmitCall]
      BY <2>0, <2>1, EmitUpdate
    <3> QED BY <1>2, <3>1 DEF EmitRead, TypeOK
  <2>2. CASE \E i \in Items : emit' = [emit EXCEPT ![e].pc = "done", ![e].ret = i]
    <3> PICK i \in Items : emit' = [emit EXCEPT ![e].pc = "done", ![e].ret = i]
      BY <2>2
    <3>1. emit' \in [Emitters -> EmitCall]
      BY <2>0, EmitUpdate
    <3> QED BY <1>2, <3>1 DEF EmitRead, TypeOK
  <2> QED BY <1>2, <2>1, <2>2 DEF EmitRead, PendingFor
<1>3. ASSUME NEW e \in Emitters, EmitInsert(e) PROVE TypeOK'
  <2>1. PICK i \in Items :
          /\ item' = [item EXCEPT ![i] = [status |-> "pending", key |-> emit[e].key,
                                          expiresAt |-> now + TTL, edited |-> Null]]
          /\ emit' = [emit EXCEPT ![e].pc = "done", ![e].ret = i]
    BY <1>3 DEF EmitInsert
  <2>2. now + TTL \in 0..MaxTime
    BY <1>3, TTLAssumption DEF EmitInsert, TypeOK
  <2>3. item' \in [Items -> Row]
    <3> DEFINE row == [status |-> "pending", key |-> emit[e].key,
                       expiresAt |-> now + TTL, edited |-> Null]
    <3>1. emit[e] \in EmitCall
      BY DEF TypeOK
    <3>2. row \in Row
      BY <2>2, <3>1 DEF Row, Statuses, EmitCall
    <3>3. item' = [item EXCEPT ![i] = row]
      BY <2>1
    <3> HIDE DEF row
    <3> QED BY <3>2, <3>3 DEF TypeOK
  <2>4. emit' \in [Emitters -> EmitCall]
    BY <2>1, EmitUpdate DEF TypeOK
  <2> QED BY <1>3, <2>3, <2>4 DEF EmitInsert, TypeOK
<1>4. ASSUME NEW e \in Emitters, EmitConflict(e) PROVE TypeOK'
  BY <1>4 DEF EmitConflict, TypeOK, EmitCall
<1>5. ASSUME NEW e \in Emitters, EmitReread(e) PROVE TypeOK'
  BY <1>5 DEF EmitReread, TypeOK, PendingFor, EmitCall
<1>6. ASSUME NEW r \in Requests, ReqStart(r) PROVE TypeOK'
  <2>1. PICK i \in Items, v \in Verbs, b \in BOOLEAN :
          req' = [req EXCEPT ![r].pc = "read", ![r].item = i, ![r].verb = v,
                             ![r].edits = b]
    BY <1>6 DEF ReqStart
  <2> DEFINE call == [req[r] EXCEPT !.pc = "read", !.item = i, !.verb = v, !.edits = b]
  <2>2. call \in ReqCall
    <3>1. req[r] \in ReqCall
      BY DEF TypeOK
    <3> QED BY <3>1 DEF ReqCall
  <2>3. req' = [req EXCEPT ![r] = call]
    BY <2>1
  <2> HIDE DEF call
  <2> QED BY <1>6, <2>2, <2>3 DEF ReqStart, TypeOK
<1>7. ASSUME NEW r \in Requests, ReqRead(r) PROVE TypeOK'
  <2> DEFINE call == [req[r] EXCEPT
       !.pc = IF Pending(req[r].item) THEN "check" ELSE "done"]
  <2>1. call \in ReqCall
    <3>1. req[r] \in ReqCall /\ now \in 0..MaxTime
      BY DEF TypeOK
    <3> QED BY <3>1, CallUpdate
  <2>2. req' = [req EXCEPT ![r] = call]
    BY <1>7 DEF ReqRead
  <2> HIDE DEF call
  <2>3. req' \in [Requests -> ReqCall]
    BY <2>1, <2>2 DEF TypeOK
  <2> QED BY <1>7, <2>3 DEF ReqRead, TypeOK
<1>8. ASSUME NEW r \in Requests, ReqCheck(r) PROVE TypeOK'
  <2> DEFINE call == [req[r] EXCEPT
       !.pc = IF item[req[r].item].expiresAt <= now THEN "expire" ELSE "save",
       !.at = now]
  <2>1. call \in ReqCall
    <3>1. req[r] \in ReqCall /\ now \in 0..MaxTime
      BY DEF TypeOK
    <3> QED BY <3>1, CallUpdate
  <2>2. req' = [req EXCEPT ![r] = call]
    BY <1>8 DEF ReqCheck
  <2> HIDE DEF call
  <2>3. req' \in [Requests -> ReqCall]
    BY <2>1, <2>2 DEF TypeOK
  <2> QED BY <1>8, <2>3 DEF ReqCheck, TypeOK
<1>9. ASSUME NEW r \in Requests, ReqSave(r) PROVE TypeOK'
  <2>1. req[r].item \in Items
    BY <1>9 DEF ReqSave, CallsInv, CallInv, TypeOK, ReqCall
  <2>2. Saved(item[req[r].item], r) \in Row
    <3>1. item[req[r].item] \in Row
      BY <2>1 DEF TypeOK
    <3>2. req[r] \in ReqCall
      BY DEF TypeOK
    <3>3. /\ req[r].verb \in Statuses
          /\ item[req[r].item].edited \in Requests \cup {Null}
      BY <3>1, <3>2 DEF ReqCall, Row, Verbs, Statuses, Resolutions
    <3> QED BY <3>1, <3>3, RowUpdate DEF Saved
  <2>3. item' \in [Items -> Row]
    BY <1>9, <2>1, <2>2 DEF ReqSave, TypeOK
  <2>4. notice' \in SUBSET Notice
    BY <1>9, <2>1 DEF ReqSave, TypeOK, Notice
  <2>5. req' \in [Requests -> ReqCall]
    BY <1>9 DEF ReqSave, TypeOK, ReqCall
  <2> QED BY <1>9, <2>3, <2>4, <2>5 DEF ReqSave, TypeOK
<1>10. ASSUME NEW r \in Requests, ReqExpire(r) PROVE TypeOK'
  <2>1. req[r].item \in Items
    BY <1>10 DEF ReqExpire, CallsInv, CallInv, TypeOK, ReqCall
  <2>2. /\ item' \in [Items -> Row]
        /\ claims' \in [Items -> Nat]
        /\ notice' \in SUBSET Notice
    BY <1>10, <2>1, ExpireTyped DEF ReqExpire
  <2>3. req' \in [Requests -> ReqCall]
    BY <1>10 DEF ReqExpire, TypeOK, ReqCall
  <2> QED BY <1>10, <2>2, <2>3 DEF ReqExpire, TypeOK
<1>11. ASSUME NEW h \in Hosts, SweepFind(h) PROVE TypeOK'
  BY <1>11 DEF SweepFind, Batches, TypeOK
<1>12. ASSUME NEW h \in Hosts, SweepClaim(h) PROVE TypeOK'
  <2>1. PICK i \in sweep[h].due :
          /\ sweep' = [sweep EXCEPT ![h].due = @ \ {i}]
          /\ ExpireRow(i, sweep[h].at, h)
    BY <1>12 DEF SweepClaim
  <2>2. i \in Items
    BY DEF TypeOK
  <2>3. /\ item' \in [Items -> Row]
        /\ claims' \in [Items -> Nat]
        /\ notice' \in SUBSET Notice
    BY <2>1, <2>2, ExpireTyped
  <2>4. sweep' \in [Hosts -> [at: 0..MaxTime, due: SUBSET Items]]
    BY <2>1 DEF TypeOK
  <2> QED BY <1>12, <2>3, <2>4 DEF SweepClaim, TypeOK
<1>13. ASSUME NEW n \in notice, Refetch(n) PROVE TypeOK'
  <2>1. n \in Notice
    BY DEF TypeOK
  <2>2. [outcome |-> item[n.item].status, edited |-> item[n.item].edited] \in Decision
    BY <2>1 DEF NoticesInv, NoticeInv, TypeOK, Row, Decision, Notice, Resolved, Statuses
  <2>3. notice' \in SUBSET Notice
    BY <1>13, <2>1, <2>2 DEF Refetch, TypeOK, Notice
  <2> QED BY <1>13, <2>3 DEF Refetch, TypeOK
<1>14. ASSUME NEW n \in notice, Notify(n) PROVE TypeOK'
  <2>1. n \in Notice /\ n.decision \in Decision
    BY <1>14 DEF Notify, TypeOK, Notice
  <2>2. resumed' \in [Items -> SUBSET [by: Requests \cup Hosts, decision: Decision]]
    <3> DEFINE d == [by |-> n.by, decision |-> n.decision]
    <3>1. d \in [by: Requests \cup Hosts, decision: Decision] /\ n.item \in Items
      BY <2>1 DEF Notice
    <3>2. resumed' = [resumed EXCEPT ![n.item] = @ \cup {d}]
      BY <1>14 DEF Notify
    <3> HIDE DEF d
    <3> QED BY <3>1, <3>2 DEF TypeOK
  <2>3. job' \in SUBSET Job
    BY <1>14, <2>1 DEF Notify, TypeOK, Notice, Job
  <2> QED BY <1>14, <2>2, <2>3 DEF Notify, TypeOK
<1>15. ASSUME NEW j \in job, RunTool(j) PROVE TypeOK'
  <2>1. j \in Job
    BY DEF TypeOK
  <2>2. executed' \in [Items -> SUBSET [by: Requests \cup Hosts, decision: Decision]]
    <3> DEFINE d == [by |-> j.by, decision |-> j.decision]
    <3>1. d \in [by: Requests \cup Hosts, decision: Decision] /\ j.item \in Items
      BY <2>1 DEF Job
    <3>2. executed' = [executed EXCEPT ![j.item] = @ \cup {d}]
      BY <1>15 DEF RunTool
    <3> HIDE DEF d
    <3> QED BY <3>1, <3>2 DEF TypeOK
  <2>3. job' \in SUBSET Job
    BY <1>15, <2>1 DEF RunTool, TypeOK, Job
  <2> QED BY <1>15, <2>2, <2>3 DEF RunTool, TypeOK
<1>16. ASSUME NEW j \in job, FireContinuation(j) PROVE TypeOK'
  BY <1>16 DEF FireContinuation, TypeOK
<1>17. ASSUME NEW p \in Requests \cup Hosts, Crash(p) PROVE TypeOK'
  <2>1. req' \in [Requests -> ReqCall]
    BY <1>17 DEF Crash, TypeOK, ReqCall
  <2>2. sweep' \in [Hosts -> [at: 0..MaxTime, due: SUBSET Items]]
    BY <1>17 DEF Crash, TypeOK
  <2> QED BY <1>17, <2>1, <2>2 DEF Crash, TypeOK
<1>18. CASE Tick
  BY <1>18 DEF Tick, TypeOK
<1>19. CASE UNCHANGED vars
  BY <1>19 DEF vars, TypeOK
<1> QED
  BY <1>1, <1>2, <1>3, <1>4, <1>5, <1>6, <1>7, <1>8, <1>9, <1>10, <1>11, <1>12,
     <1>13, <1>14, <1>15, <1>16, <1>17, <1>18, <1>19
  DEF Next, EmitStep, ReqStep

\* What no step changes: an existing row keeps its identity, key and deadline, a
\* saved approval call keeps what it did.
Frame ==
  /\ \A i \in Items : item[i].status # "absent" =>
       /\ item'[i].status # "absent"
       /\ item'[i].expiresAt = item[i].expiresAt
       /\ item'[i].key = item[i].key
       /\ Resolved(i) => Resolved(i)'
  /\ \A r \in Requests : req[r].pc = "saved" => req'[r] = req[r]

LEMMA ExpireFrame ==
  ASSUME IndInv, NEW i \in Items, NEW t, NEW who, ExpireRow(i, t, who)
  PROVE  /\ \A k \in Items : k # i => item'[k] = item[k] /\ claims'[k] = claims[k]
         /\ Due(i, t) => /\ item'[i] = [item[i] EXCEPT !.status = "expired"]
                         /\ claims'[i] = claims[i] + 1
                         /\ Pending(i)
                         /\ notice' = notice \cup {[by |-> who, item |-> i, decision |-> Null]}
         /\ ~Due(i, t) => item' = item /\ claims' = claims /\ notice' = notice
  BY DEF ExpireRow, IndInv, TypeOK, Due

LEMMA ExpireKeeps ==
  ASSUME IndInv, NEW i \in Items, NEW t, NEW who, ExpireRow(i, t, who)
  PROVE  \A k \in Items :
           /\ item'[k].status = item[k].status \/ item'[k].status = "expired"
           /\ item'[k].expiresAt = item[k].expiresAt
           /\ item'[k].key = item[k].key
           /\ item'[k].edited = item[k].edited
           /\ item[k].status # "absent" => item'[k].status # "absent"
           /\ Resolved(k) => Resolved(k)'
<1> SUFFICES ASSUME NEW k \in Items
    PROVE  /\ item'[k].status = item[k].status \/ item'[k].status = "expired"
           /\ item'[k].expiresAt = item[k].expiresAt
           /\ item'[k].key = item[k].key
           /\ item'[k].edited = item[k].edited
  BY DEF Resolved, Resolutions
<1>1. item[k] \in Row
  BY DEF IndInv, TypeOK
<1>2. CASE Due(i, t) /\ k = i
  <2>1. item'[k] = [item[k] EXCEPT !.status = "expired"]
    BY <1>2, ExpireFrame
  <2> QED BY <1>1, <2>1 DEF Row
<1>3. CASE ~(Due(i, t) /\ k = i)
  BY <1>3, ExpireFrame
<1> QED BY <1>2, <1>3

LEMMA StepFrame == IndInv /\ [Next]_vars => Frame
<1> SUFFICES ASSUME IndInv, [Next]_vars PROVE Frame
  OBVIOUS
<1> USE DEF IndInv
<1>1. ASSUME item' = item, req' = req PROVE Frame
  BY <1>1 DEF Frame, Resolved
<1>2. ASSUME NEW e \in Emitters, EmitInsert(e) PROVE Frame
  BY <1>2 DEF EmitInsert, Frame, Resolved, TypeOK
<1>3. ASSUME NEW r \in Requests, ReqStart(r) \/ ReqRead(r) \/ ReqCheck(r) PROVE Frame
  BY <1>3 DEF ReqStart, ReqRead, ReqCheck, Frame, Resolved, TypeOK
<1>4. ASSUME NEW r \in Requests, ReqSave(r) PROVE Frame
  <2>1. req[r] \in ReqCall /\ req[r].item \in Items
    BY <1>4 DEF ReqSave, CallsInv, CallInv, TypeOK, ReqCall
  <2>2. item[req[r].item] \in Row
    BY <2>1 DEF TypeOK
  <2> QED
    BY <1>4, <2>1, <2>2 DEF ReqSave, Saved, Frame, Resolved, Resolutions, Verbs,
                            Row, ReqCall, TypeOK
<1>5. ASSUME NEW r \in Requests, ReqExpire(r) PROVE Frame
  <2>1. req[r].item \in Items
    BY <1>5 DEF ReqExpire, CallsInv, CallInv, TypeOK, ReqCall
  <2>3. \A q \in Requests : req[q].pc = "saved" => req'[q] = req[q]
    BY <1>5 DEF ReqExpire, TypeOK
  <2>4. ExpireRow(req[r].item, req[r].at, r)
    BY <1>5 DEF ReqExpire
  <2> QED BY <2>1, <2>3, <2>4, ExpireKeeps DEF Frame
<1>6. ASSUME NEW h \in Hosts, SweepClaim(h) PROVE Frame
  <2>1. PICK i \in Items : ExpireRow(i, sweep[h].at, h)
    BY <1>6 DEF SweepClaim, TypeOK
  <2>2. req' = req
    BY <1>6 DEF SweepClaim
  <2> QED BY <2>1, <2>2, ExpireKeeps DEF Frame
<1>7. ASSUME NEW p \in Requests \cup Hosts, Crash(p) PROVE Frame
  BY <1>7 DEF Crash, Frame, Resolved
<1> QED
  BY <1>1, <1>2, <1>3, <1>4, <1>5, <1>6, <1>7
  DEF Next, vars, EmitStep, ReqStep, EmitStart, EmitRead, EmitConflict, EmitReread,
      SweepFind, Refetch, Notify, RunTool, FireContinuation, Tick

\* An approval that was in time stays one, and so does what rests on it.
LEMMA BackedStable ==
  ASSUME IndInv, Frame
  PROVE  /\ \A r \in Requests, i \in Items : ApprovedBefore(r, i) => ApprovedBefore(r, i)'
         /\ \A i \in Items : \A d \in Decision : Backed(d, i) => Backed(d, i)'
<1>1. ASSUME NEW r \in Requests, NEW i \in Items, ApprovedBefore(r, i)
      PROVE  ApprovedBefore(r, i)'
  <2>1. item[i].status # "absent"
    BY <1>1, NullAssumption DEF IndInv, CallsInv, CallInv, ApprovedBefore
  <2> QED BY <1>1, <2>1 DEF Frame, ApprovedBefore
<1>2. ASSUME NEW i \in Items, NEW d \in Decision, Backed(d, i) PROVE Backed(d, i)'
  BY <1>1, <1>2 DEF Backed, Decision
<1> QED BY <1>1, <1>2

\* Calls under way stay about rows that exist, and a save stays in time.
LEMMA CallsStep == IndInv /\ [Next]_vars => CallsInv'
<1> SUFFICES ASSUME IndInv, [Next]_vars PROVE CallsInv'
  OBVIOUS
<1>0. Frame
  BY StepFrame
<1> USE NullAssumption DEF IndInv
<1>1. ASSUME req' = req PROVE CallsInv'
  BY <1>0, <1>1 DEF CallsInv, CallInv, Frame, TypeOK, ReqCall
<1>2. ASSUME NEW r \in Requests, ReqStart(r) PROVE CallsInv'
  <2>1. PICK i \in Items, v \in Verbs, b \in BOOLEAN :
          /\ item[i].status # "absent"
          /\ b => v = "approved"
          /\ req' = [req EXCEPT ![r].pc = "read", ![r].item = i, ![r].verb = v,
                                ![r].edits = b]
    BY <1>2 DEF ReqStart
  <2>2. /\ req'[r] = [req[r] EXCEPT !.pc = "read", !.item = i, !.verb = v, !.edits = b]
        /\ \A q \in Requests : q # r => req'[q] = req[q]
        /\ item' = item
    BY <1>2, <2>1 DEF TypeOK, ReqStart
  <2>3. req[r] \in ReqCall
    BY DEF TypeOK
  <2>4. CallInv(r)'
    <3>1. /\ req'[r].pc = "read" /\ req'[r].item = i
          /\ req'[r].verb = v /\ req'[r].edits = b
      BY <2>2, <2>3 DEF ReqCall
    <3> QED BY <2>1, <2>2, <3>1 DEF CallInv
  <2>5. \A q \in Requests : q # r => CallInv(q)'
    BY <2>2 DEF CallsInv, CallInv
  <2> QED BY <2>4, <2>5 DEF CallsInv
<1>3. ASSUME NEW r \in Requests, ReqRead(r) PROVE CallsInv'
  BY <1>3 DEF ReqRead, CallsInv, CallInv, TypeOK, ReqCall
<1>4. ASSUME NEW r \in Requests, ReqCheck(r) PROVE CallsInv'
  <2>1. req[r] \in ReqCall /\ req[r].item \in Items /\ now \in Nat
    BY <1>4 DEF ReqCheck, CallsInv, CallInv, TypeOK, ReqCall
  <2>2. item[req[r].item] \in Row
    BY <2>1 DEF TypeOK
  <2>3. item[req[r].item].expiresAt \in Nat
    BY <2>2 DEF Row
  <2>4. /\ req'[r] = [req[r] EXCEPT
              !.pc = IF item[req[r].item].expiresAt <= now THEN "expire" ELSE "save",
              !.at = now]
        /\ \A q \in Requests : q # r => req'[q] = req[q]
        /\ item' = item
    BY <1>4 DEF ReqCheck, TypeOK
  <2>5. CallInv(r)'
    BY <2>1, <2>3, <2>4 DEF CallsInv, CallInv, ReqCall
  <2>6. \A q \in Requests : q # r => CallInv(q)'
    BY <2>4 DEF CallsInv, CallInv
  <2> QED BY <2>5, <2>6 DEF CallsInv
<1>5. ASSUME NEW r \in Requests, ReqSave(r) \/ ReqExpire(r) PROVE CallsInv'
  <2>1. /\ \A q \in Requests : q # r => req'[q] = req[q]
        /\ \E pc \in {"saved", "done"} : req'[r] = [req[r] EXCEPT !.pc = pc]
    BY <1>5 DEF ReqSave, ReqExpire, TypeOK
  <2>2. req[r].pc \in {"save", "expire"}
    BY <1>5 DEF ReqSave, ReqExpire
  <2>3. req \in [Requests -> ReqCall]
    BY DEF TypeOK
  <2> QED BY <1>0, <2>1, <2>2, <2>3 DEF CallsInv, CallInv, ReqCall, Frame
<1>6. ASSUME NEW p \in Requests \cup Hosts, Crash(p) PROVE CallsInv'
  BY <1>6 DEF Crash, CallsInv, CallInv, TypeOK, ReqCall
<1> QED
  BY <1>1, <1>2, <1>3, <1>4, <1>5, <1>6
  DEF Next, vars, EmitStep, ReqStep, EmitStart, EmitRead, EmitInsert, EmitConflict,
      EmitReread, SweepFind, SweepClaim, Refetch, Notify, RunTool,
      FireContinuation, Tick

\* Rows stay backed by their approvers, and expire once.
LEMMA RowsStep == IndInv /\ [Next]_vars => RowsInv'
<1> SUFFICES ASSUME IndInv, [Next]_vars PROVE RowsInv'
  OBVIOUS
<1>0. Frame /\ \A r \in Requests, i \in Items : ApprovedBefore(r, i) => ApprovedBefore(r, i)'
  BY StepFrame, BackedStable
<1> USE NullAssumption DEF IndInv
<1>1. ASSUME item' = item, claims' = claims PROVE RowsInv'
  <2>1. \A i \in Items : item[i] \in Row
    BY DEF TypeOK
  <2> QED BY <1>0, <1>1, <2>1 DEF RowsInv, RowInv, Row, Resolved
<1>2. ASSUME NEW e \in Emitters, EmitInsert(e) PROVE RowsInv'
  <2>1. PICK i \in Items :
          /\ item[i].status = "absent"
          /\ item' = [item EXCEPT ![i] = [status |-> "pending", key |-> emit[e].key,
                                          expiresAt |-> now + TTL, edited |-> Null]]
    BY <1>2 DEF EmitInsert
  <2>2. claims' = claims
    BY <1>2 DEF EmitInsert
  <2>3. \A k \in Items : item[k] \in Row
    BY DEF TypeOK
  <2>4. claims[i] = 0
    BY <2>1 DEF RowsInv, RowInv, Resolved, Resolutions
  <2>5. \A k \in Items : k # i => item'[k] = item[k]
    BY <2>1
  <2>6. item'[i].status = "pending" /\ item'[i].edited = Null
    BY <2>1 DEF TypeOK
  <2> QED BY <1>0, <2>2, <2>3, <2>4, <2>5, <2>6 DEF RowsInv, RowInv, Row, Resolved
<1>3. ASSUME NEW r \in Requests, ReqSave(r) PROVE RowsInv'
  <2>0. PICK i \in Items : i = req[r].item
    BY <1>3 DEF ReqSave, CallsInv, CallInv, TypeOK, ReqCall
  <2>1. req[r] \in ReqCall
    BY DEF TypeOK
  <2>2. \A k \in Items : item[k] \in Row
    BY DEF TypeOK
  <2>3. /\ item'[i] = Saved(item[i], r)
        /\ \A k \in Items : k # i => item'[k] = item[k]
        /\ claims' = claims
    BY <1>3, <2>0 DEF ReqSave, TypeOK
  <2>4. /\ item'[i].status = req[r].verb
        /\ item'[i].edited = IF req[r].edits THEN r ELSE item[i].edited
    BY <2>1, <2>2, <2>3 DEF Saved, Row
  <2>5. req[r].verb = "approved" => ApprovedBefore(r, i)'
    <3>1. req'[r] = [req[r] EXCEPT !.pc = "saved"]
      BY <1>3 DEF ReqSave, TypeOK
    <3>2. item'[i].expiresAt = item[i].expiresAt /\ req[r].at < item[i].expiresAt
      BY <1>0, <1>3, <2>0 DEF ReqSave, CallsInv, CallInv, Frame
    <3> QED BY <2>0, <2>1, <3>1, <3>2 DEF ApprovedBefore, ReqCall
  <2>6. req[r].edits => req[r].verb = "approved"
    BY DEF CallsInv, CallInv
  <2>7. Resolved(i)' /\ (claims[i] = 0 \/ claims[i] = 1)
    BY <1>0, <2>1, <2>4 DEF RowsInv, RowInv, Resolved, Resolutions, ReqCall, Verbs
  <2>8. ASSUME NEW k \in Items
        PROVE  RowInv(k)'
    <3>1. CASE k = i
      <4>1. item[i].edited \in Requests \cup {Null}
        BY <2>1, <2>2 DEF Row
      <4> QED BY <1>0, <2>1, <2>3, <2>4, <2>5, <2>6, <2>7, <3>1, <4>1 DEF RowsInv, RowInv
    <3>2. CASE k # i
      <4>1. item[k].edited \in Requests \cup {Null}
        BY <2>2 DEF Row
      <4> QED BY <1>0, <2>3, <3>2, <4>1 DEF RowsInv, RowInv, Resolved
    <3> QED BY <3>1, <3>2
  <2> QED BY <2>8 DEF RowsInv, RowInv
<1>4. ASSUME NEW i \in Items, NEW t, NEW who, ExpireRow(i, t, who) PROVE RowsInv'
  <2>1. ASSUME NEW k \in Items
        PROVE  RowInv(k)'
    <3>1. item[k] \in Row /\ claims[k] \in Nat
      BY DEF TypeOK
    <3>2. item[k].edited \in Requests \cup {Null}
      BY <3>1 DEF Row
    <3>3. /\ item'[k].status = item[k].status \/ item'[k].status = "expired"
          /\ item'[k].edited = item[k].edited
          /\ Resolved(k) => Resolved(k)'
      BY <1>4, ExpireKeeps
    <3>4. claims'[k] = 0 \/ (claims'[k] = 1 /\ Resolved(k)')
      <4>1. CASE Due(i, t) /\ k = i
        <5>1. Pending(k) /\ claims'[k] = claims[k] + 1
          BY <1>4, <4>1, ExpireFrame
        <5>2. item'[k].status = "expired"
          BY <1>4, <3>1, <4>1, ExpireFrame DEF Row
        <5> QED BY <5>1, <5>2 DEF RowsInv, RowInv, Resolved, Resolutions, Pending
      <4>2. CASE ~(Due(i, t) /\ k = i)
        <5>1. claims'[k] = claims[k]
          BY <1>4, <4>2, ExpireFrame
        <5> QED BY <3>3, <5>1 DEF RowsInv, RowInv
      <4> QED BY <4>1, <4>2
    <3> QED BY <1>0, <3>2, <3>3, <3>4 DEF RowsInv, RowInv
  <2> QED BY <2>1 DEF RowsInv, RowInv
<1>5. ASSUME NEW r \in Requests, ReqExpire(r) PROVE RowsInv'
  <2>1. req[r].item \in Items
    BY <1>5 DEF ReqExpire, CallsInv, CallInv, TypeOK, ReqCall
  <2> QED BY <1>4, <1>5, <2>1 DEF ReqExpire
<1>6. ASSUME NEW h \in Hosts, SweepClaim(h) PROVE RowsInv'
  <2>1. PICK i \in Items : ExpireRow(i, sweep[h].at, h)
    BY <1>6 DEF SweepClaim, TypeOK
  <2> QED BY <1>4, <2>1
<1> QED
  BY <1>1, <1>2, <1>3, <1>5, <1>6
  DEF Next, vars, EmitStep, ReqStep, EmitStart, EmitRead, EmitConflict, EmitReread,
      ReqStart, ReqRead, ReqCheck, SweepFind, Refetch, Notify, RunTool,
      FireContinuation, Tick, Crash

\* Announcements, continuations and what producers were told stay sound.
LEMMA NoticesStep == IndInv /\ [Next]_vars => NoticesInv'
<1> SUFFICES ASSUME IndInv, [Next]_vars PROVE NoticesInv'
  OBVIOUS
<1> DEFINE Told(i) == resumed[i] \cup executed[i]
<1>0. /\ TypeOK
      /\ \A i \in Items : Resolved(i) => Resolved(i)'
      /\ \A i \in Items : \A d \in Decision : Sound(d, i) => Sound(d, i)'
  <2>1. Frame
    BY StepFrame
  <2>2. \A i \in Items : Resolved(i) => Resolved(i)'
    BY <2>1 DEF Frame, Resolved, Resolutions
  <2>3. \A i \in Items : \A d \in Decision : Sound(d, i) => Sound(d, i)'
    BY <2>1, BackedStable DEF Sound
  <2> QED BY <2>2, <2>3 DEF IndInv
<1>1. ASSUME NEW n \in notice PROVE NoticeInv(n)'
  <2>1. n \in Notice /\ NoticeInv(n)
    BY <1>0 DEF TypeOK, IndInv, NoticesInv
  <2> QED BY <1>0, <2>1 DEF NoticeInv, Notice
<1>2. ASSUME NEW j \in job PROVE Sound(j.decision, j.item)'
  <2>1. j \in Job /\ Sound(j.decision, j.item)
    BY <1>0 DEF TypeOK, IndInv, NoticesInv
  <2> QED BY <1>0, <2>1 DEF Job
<1>3. ASSUME NEW i \in Items, NEW d \in Told(i) PROVE Sound(d.decision, i)'
  <2>1. d.decision \in Decision /\ Sound(d.decision, i)
    BY <1>0 DEF TypeOK, IndInv, NoticesInv
  <2> QED BY <1>0, <2>1
<1>4. ASSUME \A n \in notice' : n \in notice \/ NoticeInv(n)',
             \A j \in job' : j \in job \/ Sound(j.decision, j.item)',
             \A i \in Items : \A d \in Told(i)' : d \in Told(i) \/ Sound(d.decision, i)'
      PROVE  NoticesInv'
  BY <1>1, <1>2, <1>3, <1>4 DEF NoticesInv
<1> HIDE DEF Told
<1>5. ASSUME notice' \subseteq notice, job' \subseteq job, UNCHANGED <<resumed, executed>>
      PROVE  NoticesInv'
  BY <1>4, <1>5 DEF Told
<1>6. ASSUME NEW i \in Items, NEW who, Resolved(i)', UNCHANGED <<job, resumed, executed>>,
             notice' = notice \cup {[by |-> who, item |-> i, decision |-> Null]}
      PROVE  NoticesInv'
  <2>1. \A n \in notice' : n \in notice \/ NoticeInv(n)'
    BY <1>6 DEF NoticeInv
  <2> QED BY <1>4, <1>6, <2>1 DEF Told
<1>7. ASSUME NEW i \in Items, NEW t, NEW who, ExpireRow(i, t, who),
             UNCHANGED <<job, resumed, executed>>
      PROVE  NoticesInv'
  <2>1. CASE Due(i, t)
    <3>1. item[i] \in Row
      BY <1>0 DEF TypeOK
    <3>2. /\ item'[i] = [item[i] EXCEPT !.status = "expired"]
          /\ notice' = notice \cup {[by |-> who, item |-> i, decision |-> Null]}
      BY <1>7, <2>1, ExpireFrame
    <3>3. Resolved(i)'
      BY <3>1, <3>2 DEF Row, Resolved, Resolutions
    <3> QED BY <1>6, <1>7, <3>2, <3>3
  <2>2. CASE ~Due(i, t)
    BY <1>5, <1>7, <2>2, ExpireFrame
  <2> QED BY <2>1, <2>2
<1>8. ASSUME NEW r \in Requests, ReqSave(r) PROVE NoticesInv'
  <2>1. req[r] \in ReqCall
    BY <1>0 DEF TypeOK
  <2>2. PICK i \in Items : i = req[r].item
    BY <1>8, <2>1 DEF ReqSave, IndInv, CallsInv, CallInv, ReqCall
  <2>3. item'[i] = Saved(item[i], r) /\ item[i] \in Row
    BY <1>0, <1>8, <2>2 DEF ReqSave, TypeOK
  <2>4. item'[i].status = req[r].verb
    BY <2>3 DEF Saved, Row
  <2>5. Resolved(i)'
    BY <2>1, <2>4 DEF Resolved, Resolutions, ReqCall, Verbs
  <2> QED BY <1>6, <1>8, <2>2, <2>5 DEF ReqSave
<1>9. ASSUME NEW r \in Requests, ReqExpire(r) PROVE NoticesInv'
  <2>1. req[r].item \in Items
    BY <1>0, <1>9 DEF ReqExpire, IndInv, CallsInv, CallInv, TypeOK, ReqCall
  <2> QED BY <1>7, <1>9, <2>1 DEF ReqExpire
<1>10. ASSUME NEW h \in Hosts, SweepClaim(h) PROVE NoticesInv'
  <2>1. PICK i \in Items : ExpireRow(i, sweep[h].at, h)
    BY <1>0, <1>10 DEF SweepClaim, TypeOK
  <2> QED BY <1>7, <1>10, <2>1 DEF SweepClaim
<1>11. ASSUME NEW n \in notice, Refetch(n) PROVE NoticesInv'
  <2> DEFINE i == n.item
             d == [outcome |-> item[n.item].status, edited |-> item[n.item].edited]
  <2>1. n \in Notice /\ i \in Items /\ NoticeInv(n) /\ RowInv(i)
    BY <1>0 DEF TypeOK, Notice, IndInv, NoticesInv, RowsInv
  <2>2. item[i] \in Row
    BY <1>0, <2>1 DEF TypeOK
  <2>3. d \in Decision
    BY <2>1, <2>2 DEF NoticeInv, Row, Decision, Resolved, Statuses
  <2>4. Sound(d, i)
    BY <2>1 DEF Sound, Backed, NoticeInv, Resolved, RowInv
  <2>5. PICK k \in Items, c \in Decision : k = i /\ c = d
    BY <2>1, <2>3
  <2>6. NoticeInv([n EXCEPT !.decision = c])'
    <3>1. /\ [n EXCEPT !.decision = c].item = k
          /\ [n EXCEPT !.decision = c].decision = c
      BY <2>1, <2>5 DEF Notice
    <3>2. Resolved(k)' /\ Sound(c, k)'
      BY <1>0, <2>1, <2>4, <2>5 DEF NoticeInv
    <3> QED BY <3>1, <3>2 DEF NoticeInv
  <2>7. notice' = (notice \ {n}) \cup {[n EXCEPT !.decision = c]}
    BY <1>11, <2>5 DEF Refetch
  <2>8. \A m \in notice' : m \in notice \/ NoticeInv(m)'
    BY <2>6, <2>7
  <2> QED BY <1>4, <1>11, <2>8 DEF Refetch, Told
<1>12. ASSUME NEW n \in notice, Notify(n) PROVE NoticesInv'
  <2>1. n \in Notice /\ n.decision \in Decision /\ Sound(n.decision, n.item)
    BY <1>0, <1>12 DEF TypeOK, Notice, IndInv, NoticesInv, NoticeInv, Notify
  <2>2. PICK k \in Items, c \in Decision : k = n.item /\ c = n.decision
    BY <2>1 DEF Notice
  <2>3. Sound(c, k)'
    BY <1>0, <2>1, <2>2
  <2>4. \A j \in job' : j \in job \/ (j.item = k /\ j.decision = c)
    BY <1>12, <2>2 DEF Notify
  <2>5. \A i \in Items : \A d \in Told(i)' : d \in Told(i) \/ (i = k /\ d.decision = c)
    <3>1. resumed' = [resumed EXCEPT ![k] = @ \cup {[by |-> n.by, decision |-> c]}]
      BY <1>12, <2>2 DEF Notify
    <3> QED BY <1>0, <1>12, <3>1 DEF Notify, Told, TypeOK
  <2>6. notice' \subseteq notice
    BY <1>12 DEF Notify
  <2> QED BY <1>4, <2>3, <2>4, <2>5, <2>6
<1>13. ASSUME NEW j \in job, RunTool(j) PROVE NoticesInv'
  <2>1. j \in Job /\ Sound(j.decision, j.item)
    BY <1>0 DEF TypeOK, IndInv, NoticesInv
  <2>2. PICK k \in Items, c \in Decision : k = j.item /\ c = j.decision
    BY <2>1 DEF Job
  <2>3. Sound(c, k)'
    BY <1>0, <2>1, <2>2
  <2>4. \A m \in job' : m \in job \/ (m.item = k /\ m.decision = c)
    BY <1>13, <2>1, <2>2 DEF RunTool, Job
  <2>5. \A i \in Items : \A d \in Told(i)' : d \in Told(i) \/ (i = k /\ d.decision = c)
    <3>1. executed' = [executed EXCEPT ![k] = @ \cup {[by |-> j.by, decision |-> c]}]
      BY <1>13, <2>2 DEF RunTool
    <3> QED BY <1>0, <1>13, <3>1 DEF RunTool, Told, TypeOK
  <2>6. notice' \subseteq notice
    BY <1>13 DEF RunTool
  <2> QED BY <1>4, <2>3, <2>4, <2>5, <2>6
<1>14. ASSUME NEW j \in job, FireContinuation(j) PROVE NoticesInv'
  BY <1>5, <1>14 DEF FireContinuation
<1>15. ASSUME NEW p \in Requests \cup Hosts, Crash(p) PROVE NoticesInv'
  BY <1>5, <1>15 DEF Crash
<1> QED
  BY <1>5, <1>8, <1>9, <1>10, <1>11, <1>12, <1>13, <1>14, <1>15
  DEF Next, vars, EmitStep, ReqStep, EmitStart, EmitRead, EmitInsert, EmitConflict,
      EmitReread, ReqStart, ReqRead, ReqCheck, SweepFind, Tick

\* The pending rows of a key stay one row: only an insert creates a pending row,
\* and the index admits it when there is none.
LEMMA IndexStep == IndInv /\ [Next]_vars => IndexInv'
<1> SUFFICES ASSUME IndInv, [Next]_vars PROVE IndexInv'
  OBVIOUS
<1>1. ASSUME \A i \in Items : Pending(i)' => Pending(i) /\ item'[i].key = item[i].key
      PROVE  IndexInv'
  BY <1>1 DEF IndexInv, IndInv
<1>2. ASSUME NEW e \in Emitters, EmitInsert(e) PROVE IndexInv'
  <2>1. PICK i \in Items :
          /\ item[i].status = "absent"
          /\ item' = [item EXCEPT ![i] = [status |-> "pending", key |-> emit[e].key,
                                          expiresAt |-> now + TTL, edited |-> Null]]
    BY <1>2 DEF EmitInsert
  <2>2. /\ item'[i].key = emit[e].key
        /\ \A k \in Items : k # i => item'[k] = item[k]
    BY <2>1 DEF IndInv, TypeOK
  <2>3. emit[e].key = Null \/ \A k \in Items : ~(Pending(k) /\ item[k].key = emit[e].key)
    BY <1>2 DEF EmitInsert, IndexAdmits, PendingFor
  <2> QED BY <2>2, <2>3 DEF IndexInv, IndInv, Pending
<1>3. ASSUME NEW r \in Requests, ReqSave(r) PROVE IndexInv'
  <2>1. req[r] \in ReqCall
    BY DEF IndInv, TypeOK
  <2>2. PICK i \in Items : i = req[r].item
    BY <1>3, <2>1 DEF ReqSave, IndInv, CallsInv, CallInv, ReqCall
  <2>3. /\ item'[i] = Saved(item[i], r) /\ item[i] \in Row
        /\ \A k \in Items : k # i => item'[k] = item[k]
    BY <1>3, <2>2 DEF ReqSave, IndInv, TypeOK
  <2>4. ~Pending(i)'
    BY <2>1, <2>3 DEF Saved, Row, Pending, ReqCall, Verbs
  <2> QED BY <1>1, <2>3, <2>4 DEF Pending
<1>4. ASSUME NEW i \in Items, NEW t, NEW who, ExpireRow(i, t, who) PROVE IndexInv'
  BY <1>1, <1>4, ExpireKeeps DEF Pending
<1>5. ASSUME NEW r \in Requests, ReqExpire(r) PROVE IndexInv'
  <2>1. req[r].item \in Items
    BY <1>5 DEF ReqExpire, IndInv, CallsInv, CallInv, TypeOK, ReqCall
  <2> QED BY <1>4, <1>5, <2>1 DEF ReqExpire
<1>6. ASSUME NEW h \in Hosts, SweepClaim(h) PROVE IndexInv'
  <2>1. PICK i \in Items : ExpireRow(i, sweep[h].at, h)
    BY <1>6 DEF SweepClaim, IndInv, TypeOK
  <2> QED BY <1>4, <2>1
<1>7. ASSUME item' = item PROVE IndexInv'
  BY <1>1, <1>7 DEF Pending
<1> QED
  BY <1>2, <1>3, <1>5, <1>6, <1>7
  DEF Next, vars, EmitStep, ReqStep, EmitStart, EmitRead, EmitConflict, EmitReread,
      ReqStart, ReqRead, ReqCheck, SweepFind, Refetch, Notify, RunTool,
      FireContinuation, Tick, Crash

\* The inductive invariant holds in every reachable state.
THEOREM Invariance == Spec => []IndInv
<1>1. Init => IndInv
  BY InitIndInv
<1>2. IndInv /\ [Next]_vars => IndInv'
  BY TypeStep, CallsStep, RowsStep, NoticesStep, IndexStep DEF IndInv
<1> QED BY <1>1, <1>2, PTL DEF Spec

\* Type correctness, for any number of emitters, approvers and sweepers.
THEOREM TypeCorrect == Spec => []TypeOK
<1>1. IndInv => TypeOK
  BY DEF IndInv
<1> QED BY <1>1, Invariance, PTL

\* The dedup race of emitApproval never files a second pending item.
THEOREM DedupSafe == Spec => []SinglePending
<1>1. IndInv => SinglePending
  <2> SUFFICES ASSUME IndInv, NEW k \in Keys PROVE Cardinality(PendingFor(k)) <= 1
    BY DEF SinglePending
  <2>1. CASE PendingFor(k) = {}
    BY <2>1, FS_EmptySet
  <2>2. ASSUME NEW i \in PendingFor(k) PROVE PendingFor(k) = {i}
    BY <2>2, NullAssumption DEF PendingFor, IndInv, IndexInv
  <2> QED BY <2>1, <2>2, FS_Singleton
<1> QED BY <1>1, Invariance, PTL

\* Sweepers and the resolution path expire an item at most once between them.
THEOREM ExpiryClaimedOnce == Spec => []ExpiredOnce
<1>1. IndInv => ExpiredOnce
  BY DEF IndInv, RowsInv, RowInv, ExpiredOnce
<1> QED BY <1>1, Invariance, PTL

\* Nothing is resumed as approved, or executed, without an approver in time.
THEOREM NoLateApproval == Spec => []ApprovedInTime
<1>1. IndInv => ApprovedInTime
  BY DEF IndInv, NoticesInv, NoticeInv, Sound, ApprovedInTime
<1> QED BY <1>1, Invariance, PTL

\* Whatever happens between the write that resolves an item and the re-fetch that its
\* producer's decision is built from, nobody is resumed with an item that is pending.
THEOREM ResumedTerminally == Spec => []DecisionIsTerminal
<1>1. IndInv => DecisionIsTerminal
  BY DEF IndInv, NoticesInv, NoticeInv, Sound, DecisionIsTerminal
<1> QED BY <1>1, Invariance, PTL
=============================================================================
