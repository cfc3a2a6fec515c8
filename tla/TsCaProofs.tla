----------------------------- MODULE TsCaProofs -----------------------------
(***************************************************************************)
(* The theorems about the TypeScript port, up to the refinement: it keeps  *)
(* the promise of CaPromise.  The argument is that of an optimistic lock.  *)
(* A suspended registration holds a serial with nothing missing below it;  *)
(* so does every row that is inserted meanwhile.  Two such serials that    *)
(* are both free are equal, so the first row inserted takes the serial     *)
(* away from every suspended registration, and UNIQUE refuses the rest.    *)
(***************************************************************************)
EXTENDS TsCa, CaServerProofs, WellFoundedInduction

\* Two serials without a gap below them, both free, are the same.
LEMMA FreeSerialsEqual ==
    ASSUME NEW s, NEW t, NoGapBelow(s), NoGapBelow(t),
           s \notin StoredSerials, t \notin StoredSerials
    PROVE  s = t
PROOF
  <1>1. s \in 1..10 /\ t \in 1..10
    BY DEF NoGapBelow
  <1>2. ~(s < t) /\ ~(t < s)
    BY <1>1 DEF NoGapBelow
  <1> QED BY <1>1, <1>2

\* The request a handler starts on meets the invariant of requests.
LEMMA DatedInv ==
    ASSUME CoreInv, NEW op \in IssueOps, NEW nid \in Nids,
           NEW e \in Entities, NEW k \in Keys
    PROVE  RequestInv(Dated(op, nid, e, k))
PROOF
  <1> DEFINE n == NextSerial(StoredSerials)
  <1>1. n \in 1..10 /\ 1..(n - 1) \subseteq StoredSerials
    BY TableDense, NextSerialExtends
  <1> HIDE DEF n
  <1>2. n \in Serial /\ NoGapBelow(n)
    BY <1>1 DEF Serial, NoGapBelow
  <1>3. Dated(op, nid, e, k) =
          [phase |-> "insert", op |-> op, nid |-> nid, entity |-> e, key |-> k,
           expires |-> 0, serial |-> n, issued |-> clock]
    BY DEF Dated, n
  <1> QED BY <1>2, <1>3 DEF RequestInv, Request, Phases, CoreInv, TypeOK

LEMMA DatedFields ==
    ASSUME NEW op, NEW nid, NEW e, NEW k
    PROVE  LET q == Dated(op, nid, e, k)
           IN  /\ q.phase = "insert" /\ q.op = op /\ q.nid = nid /\ q.entity = e /\ q.key = k
               /\ clock \in Nat => q.issued <= clock
PROOF BY DEF Dated

-----------------------------------------------------------------------------
(* What a step of a handler does, in terms of the row it adds *)

\* The handler adds the row of q, whose NID has active rows of q's subject, the
\* most recent of them in its window, or none at all.
Adds(h, q) ==
    /\ RequestInv(q)
    /\ q.phase = "insert"
    /\ q.serial \notin StoredSerials
    /\ \/ ~Active(q.nid)
       \/ \E r \in MostRecent(q.nid) : r.entity = q.entity /\ r.key = q.key /\ ~TooEarly(r)
    /\ q.issued <= clock
    /\ rows' = rows \cup {Certificate(q)}
    /\ req' = [req EXCEPT ![h] = [q EXCEPT !.phase = "answer"]]
    /\ UNCHANGED <<clock, delivered, faults>>
    /\ accepted' \in Nat

\* The handler adds no row: it is suspended on an unregistered NID, or done.
Waits(h) ==
    /\ UNCHANGED <<rows, clock, delivered>>
    /\ accepted' \in Nat
    /\ faults' \in Nat
    /\ \/ req' = [req EXCEPT ![h] = Idle]
       \/ \E q : /\ RequestInv(q)
                 /\ q.phase = "insert"
                 /\ q.issued <= clock
                 /\ ~Active(q.nid)
                 /\ req' = [req EXCEPT ![h] = q]

\* No request is dated in the future.
RequestsDated == \A h \in Handlers : req[h].issued <= clock

TsInv == CoreInv /\ RecordedInv /\ OneSubject /\ SuspendedIsCurrent /\ RequestsDated

LEMMA TakeUpStep ==
    ASSUME CoreInv, NEW h \in Handlers, TakeUp(h)
    PROVE  accepted' \in Nat /\ clock' = clock /\ delivered' = delivered /\ faults' = faults
           /\ faults' \in Nat
PROOF BY DEF TakeUp, CoreInv, TypeOK

LEMMA IssueStep ==
    ASSUME CoreInv, NEW h \in Handlers, TakeUp(h), NEW q, RequestInv(q), q.phase = "insert",
           IssueAtOnce(h, q),
           \/ ~Active(q.nid)
           \/ \E r \in MostRecent(q.nid) :
                r.entity = q.entity /\ r.key = q.key /\ ~TooEarly(r),
           q.issued <= clock
    PROVE  Adds(h, q)
PROOF
  <1>1. accepted' \in Nat /\ UNCHANGED <<clock, delivered, faults>>
    BY TakeUpStep
  <1>2. /\ q.serial \notin StoredSerials
        /\ rows' = rows \cup {Certificate(q)}
        /\ req' = [req EXCEPT ![h] = [q EXCEPT !.phase = "answer"]]
    BY DEF IssueAtOnce
  <1> QED BY <1>1, <1>2, Zenon DEF Adds

LEMMA HandlerStep ==
    ASSUME TsInv, NEW h \in Handlers,
           Register(h) \/ Renew(h) \/ RegisterX509(h) \/ ResumeX509(h)
    PROVE  Waits(h) \/ \E q : Adds(h, q)
PROOF
  <1>0. CoreInv /\ accepted \in Nat /\ faults \in Nat /\ clock \in Nat
    BY DEF TsInv, CoreInv, TypeOK
  <1>1. CASE Register(h)
    <2>1. PICK nid \in Nids, e \in Entities, k \in Keys :
             TakeUp(h) /\ ~Active(nid) /\ IssueAtOnce(h, Dated("register", nid, e, k))
      BY <1>1 DEF Register
    <2> DEFINE q == Dated("register", nid, e, k)
    <2>2. RequestInv(q) /\ q.phase = "insert" /\ q.nid = nid
          /\ q.issued <= clock
      BY <1>0, DatedInv, DatedFields DEF IssueOps, RegisterOps
    <2> HIDE DEF q
    <2>3. IssueAtOnce(h, q)
      BY <2>1 DEF q
    <2>4. Adds(h, q)
      BY <1>0, <2>1, <2>2, <2>3, IssueStep
    <2> QED BY <2>4
  <1>2. CASE Renew(h)
    <2>1. PICK nid \in Nids : TakeUp(h) /\ \E r \in MostRecent(nid) :
             ~TooEarly(r) /\ IssueAtOnce(h, Dated("renew", nid, r.entity, r.key))
      BY <1>2 DEF Renew
    <2>2. PICK r \in MostRecent(nid) :
             ~TooEarly(r) /\ IssueAtOnce(h, Dated("renew", nid, r.entity, r.key))
      BY <2>1
    <2>3. r \in ActiveRows(nid) /\ r.entity \in Entities /\ r.key \in Keys
      BY <1>0 DEF MostRecent, ActiveRows, CoreInv, TypeOK, Row
    <2> DEFINE q == Dated("renew", nid, r.entity, r.key)
    <2>4. RequestInv(q) /\ q.phase = "insert" /\ q.nid = nid
          /\ q.entity = r.entity /\ q.key = r.key /\ q.issued <= clock
      BY <1>0, <2>3, DatedInv, DatedFields DEF IssueOps
    <2> HIDE DEF q
    <2>5. IssueAtOnce(h, q)
      BY <2>2 DEF q
    <2>6. \E r1 \in MostRecent(q.nid) :
             r1.entity = q.entity /\ r1.key = q.key /\ ~TooEarly(r1)
      BY <2>2, <2>3, <2>4
    <2>7. Adds(h, q)
      BY <1>0, <2>1, <2>4, <2>5, <2>6, IssueStep
    <2> QED BY <2>7
  <1>3. CASE RegisterX509(h)
    <2>1. PICK nid \in Nids, e \in Entities, k \in Keys :
             /\ TakeUp(h) /\ ~Active(nid) /\ UNCHANGED rows
             /\ req' = [req EXCEPT ![h] = Dated("register_x509", nid, e, k)]
      BY <1>3 DEF RegisterX509
    <2> DEFINE q == Dated("register_x509", nid, e, k)
    <2>2. RequestInv(q) /\ q.phase = "insert" /\ q.nid = nid
          /\ q.issued <= clock
      BY <1>0, DatedInv, DatedFields DEF IssueOps, RegisterOps
    <2> HIDE DEF q
    <2>3. req' = [req EXCEPT ![h] = q]
      BY <2>1 DEF q
    <2>4. rows' = rows /\ clock' = clock /\ delivered' = delivered
          /\ accepted' \in Nat /\ faults' \in Nat
      BY <1>0, <2>1, TakeUpStep
    <2> QED BY <2>1, <2>2, <2>3, <2>4, Zenon DEF Waits
  <1>4. CASE LeafRejected(h)
    BY <1>0, <1>4 DEF LeafRejected, Waits, Drop
  <1>5. CASE InsertErrorRaised(h)
    BY <1>0, <1>5, ConstantsAssumption
       DEF InsertErrorRaised, InsertFails, NoFault, Fault, Waits, Drop
  <1>6. CASE Insert(h)
    <2>1. RequestInv(req[h])
      BY <1>0, RequestsInv
    <2>2. ~Active(req[h].nid)
      BY <1>6 DEF Insert, TsInv, SuspendedIsCurrent
    <2>3. req' = [req EXCEPT ![h] = [req[h] EXCEPT !.phase = "answer"]]
      BY <1>6 DEF Insert, Goto
    <2>4. req[h].issued <= clock
      BY DEF TsInv, RequestsDated
    <2>5. Adds(h, req[h])
      BY <1>0, <1>6, <2>1, <2>2, <2>3, <2>4 DEF Adds, Insert
    <2> QED BY <2>5
  <1> QED BY <1>1, <1>2, <1>3, <1>4, <1>5, <1>6 DEF ResumeX509

-----------------------------------------------------------------------------
(* The invariant *)

\* A row is added next to rows of the same subject only, and it takes away the
\* serial of every registration suspended on the same NID.
LEMMA AddsInv ==
    ASSUME TsInv, NEW h \in Handlers, NEW q, Adds(h, q)
    PROVE  TsInv'
PROOF
  <1> DEFINE c == Certificate(q)
             a == [q EXCEPT !.phase = "answer"]
  <1>0. CoreInv /\ RecordedInv
    BY DEF TsInv
  <1>1. /\ RequestInv(q) /\ q.phase = "insert" /\ q.serial \notin StoredSerials
        /\ rows' = rows \cup {c} /\ req' = [req EXCEPT ![h] = a]
        /\ clock' = clock /\ delivered' = delivered /\ faults' = faults /\ accepted' \in Nat
    BY DEF Adds
  <1>2. q \in Request /\ NoGapBelow(q.serial)
    BY <1>1 DEF RequestInv
  <1>3. c.serial = q.serial /\ c.nid = q.nid /\ c.entity = q.entity /\ c.key = q.key
        /\ c.revoked = NULL
    BY DEF Certificate
  <1>4. a.phase = "answer"
    BY <1>2 DEF Request
  <1>5. CoreInv'
    BY <1>0, <1>1, InsertStep DEF CoreInv, TypeOK
  <1>6. RecordedInv'
    BY <1>0, <1>1, <1>2, InsertRecords
  <1> HIDE DEF c, a
  <1>7. OneSubject'
    <2>1. \A r \in rows : r.nid = q.nid /\ r.revoked = NULL =>
                r.entity = q.entity /\ r.key = q.key
      BY DEF Adds, Active, ActiveRows, MostRecent, TsInv, OneSubject
    <2> QED BY <1>1, <1>3, <2>1 DEF TsInv, OneSubject
  <1>8. SuspendedIsCurrent'
    <2> SUFFICES ASSUME NEW g \in Handlers, req'[g].phase = "insert", Active(req[g].nid)'
                 PROVE  req'[g].serial \in StoredSerials'
      BY DEF SuspendedIsCurrent
    <2>1. req'[g] = req[g]
      BY <1>0, <1>1, <1>4 DEF CoreInv, TypeOK
    <2>2. StoredSerials' = StoredSerials \cup {q.serial}
      BY <1>1, <1>3 DEF StoredSerials
    <2>3. CASE Active(req[g].nid)
      BY <2>1, <2>2, <2>3 DEF TsInv, SuspendedIsCurrent
    <2>4. CASE req[g].serial \notin StoredSerials
      <3>1. NoGapBelow(req[g].serial)
        BY <1>0, <2>1 DEF CoreInv, SerialsDense, Taken
      <3>2. req[g].serial = q.serial
        BY <1>1, <1>2, <2>4, <3>1, FreeSerialsEqual
      <3> QED BY <2>1, <2>2, <3>2
    <2> QED BY <2>1, <2>2, <2>4
  <1>9. RequestsDated'
    <2>1. a.issued = q.issued /\ q.issued <= clock
      BY <1>2 DEF a, Adds, Request
    <2> QED BY <1>0, <1>1, <2>1 DEF TsInv, RequestsDated, CoreInv, TypeOK
  <1> QED BY <1>5, <1>6, <1>7, <1>8, <1>9 DEF TsInv

LEMMA WaitsInv ==
    ASSUME TsInv, NEW h \in Handlers, Waits(h)
    PROVE  TsInv'
PROOF
  <1>0. CoreInv /\ RecordedInv
    BY DEF TsInv
  <1>1. rows' = rows /\ clock' = clock /\ delivered' = delivered
        /\ accepted' \in Nat /\ faults' \in Nat
    BY DEF Waits
  <1>2. PICK q : /\ RequestInv(q)
                 /\ q.phase # "answer"
                 /\ q.issued <= clock
                 /\ q.phase = "insert" => ~Active(q.nid)
                 /\ req' = [req EXCEPT ![h] = q]
    <2>1. Idle.phase = "idle" /\ Idle.issued <= clock
      BY <1>0 DEF Idle, CoreInv, TypeOK
    <2>2. CASE req' = [req EXCEPT ![h] = Idle]
      BY <2>1, <2>2, IdleInv
    <2> QED BY <2>2 DEF Waits
  <1>3. CoreInv'
    <2>1. delivered' \subseteq Row
      BY <1>0, <1>1 DEF CoreInv, TypeOK
    <2> QED BY <1>0, <1>1, <1>2, <2>1, RequestStep
  <1>4. \A g \in Handlers : g # h => req'[g] = req[g]
    BY <1>0, <1>2 DEF CoreInv, TypeOK
  <1>5. req'[h] = q
    BY <1>0, <1>2 DEF CoreInv, TypeOK
  <1>6. RecordedInv'
    BY <1>0, <1>1, <1>2, <1>4, <1>5, QuietStep
  <1>7. OneSubject'
    BY <1>1 DEF TsInv, OneSubject
  <1>8. SuspendedIsCurrent'
    <2>2. StoredSerials' = StoredSerials
      BY <1>1 DEF StoredSerials
    <2> SUFFICES ASSUME NEW g \in Handlers, req'[g].phase = "insert", Active(req[g].nid)'
                 PROVE  req'[g].serial \in StoredSerials'
      BY DEF SuspendedIsCurrent
    <2>3. \E r \in rows : r.nid = req'[g].nid /\ r.revoked = NULL
      BY <1>1 DEF Active, ActiveRows
    <2>4. Active(req'[g].nid)
      BY <2>3 DEF Active, ActiveRows
    <2>5. g # h
      BY <1>2, <1>5, <2>4
    <2> QED BY <1>4, <2>2, <2>4, <2>5 DEF TsInv, SuspendedIsCurrent
  <1>9. RequestsDated'
    BY <1>1, <1>2, <1>4, <1>5 DEF TsInv, RequestsDated
  <1> QED BY <1>3, <1>6, <1>7, <1>8, <1>9 DEF TsInv

\* A step that changes no row but in its revocation date, and suspends nobody.
LEMMA OthersInv ==
    ASSUME TsInv, CoreInv', RecordedInv', clock' = clock \/ clock' = clock + 1,
           \A r1 \in rows' : \E r \in rows :
              /\ r.serial = r1.serial
              /\ r1.revoked = NULL => r = r1,
           StoredSerials' = StoredSerials,
           \A g \in Handlers : req'[g] = req[g] \/ req'[g] = Idle
    PROVE  TsInv'
PROOF
  <1>0. Idle.phase = "idle" /\ Idle.issued = 0
    BY DEF Idle
  <1>1. \A r1 \in rows' : r1.revoked = NULL => r1 \in rows
    OBVIOUS
  <1>2. OneSubject'
    BY <1>1 DEF TsInv, OneSubject
  <1>3. SuspendedIsCurrent'
    <2> SUFFICES ASSUME NEW g \in Handlers, req'[g].phase = "insert", Active(req[g].nid)'
                 PROVE  req'[g].serial \in StoredSerials'
      BY DEF SuspendedIsCurrent
    <2>1. \E r \in rows' : r.nid = req'[g].nid /\ r.revoked = NULL
      BY DEF Active, ActiveRows
    <2>2. req'[g] = req[g]
      BY <1>0
    <2>3. \E r \in rows : r.nid = req[g].nid /\ r.revoked = NULL
      BY <1>1, <2>1, <2>2
    <2>4. Active(req[g].nid)
      BY <2>3 DEF Active, ActiveRows
    <2> QED BY <2>2, <2>4 DEF TsInv, SuspendedIsCurrent
  <1>4. RequestsDated'
    <2>1. clock \in Nat /\ \A h \in Handlers : req[h].issued \in Nat /\ req[h].issued <= clock
      BY DEF TsInv, CoreInv, TypeOK, Request, RequestsDated
    <2>2. clock' \in Nat /\ clock <= clock'
      BY <2>1
    <2> SUFFICES ASSUME NEW g \in Handlers PROVE req'[g].issued <= clock'
      BY DEF RequestsDated
    <2>3. req'[g].issued = req[g].issued \/ req'[g].issued = 0
      BY <1>0
    <2> QED BY <2>1, <2>2, <2>3
  <1> QED BY <1>2, <1>3, <1>4 DEF TsInv

LEMMA RespondInv ==
    ASSUME TsInv, NEW h \in Handlers, Respond(h)
    PROVE  TsInv'
PROOF
  <1>1. CoreInv' /\ RecordedInv'
    BY RespondStep, RespondRecords DEF TsInv
  <1>2. rows' = rows /\ req' = [req EXCEPT ![h] = Idle] /\ clock' = clock
    BY DEF Respond, Drop
  <1>3. \A g \in Handlers : req'[g] = req[g] \/ req'[g] = Idle
    BY <1>2 DEF TsInv, CoreInv, TypeOK
  <1>4. StoredSerials' = StoredSerials
    BY <1>2 DEF StoredSerials
  <1> QED BY <1>1, <1>2, <1>3, <1>4, OthersInv

LEMMA BackgroundInv == TsInv /\ Background => TsInv'
PROOF
  <1> SUFFICES ASSUME TsInv, Background PROVE TsInv'
    OBVIOUS
  <1>1. CoreInv' /\ RecordedInv'
    BY BackgroundStep, BackgroundRecords DEF TsInv
  <1>2. CASE Tick
    <2>1. rows' = rows /\ req' = req /\ clock' = clock + 1
      BY <1>2 DEF Tick
    <2>2. StoredSerials' = StoredSerials
      BY <2>1 DEF StoredSerials
    <2> QED BY <1>1, <2>1, <2>2, OthersInv
  <1>3. CASE Crash
    <2>1. rows' = rows /\ req' = [g \in Handlers |-> Idle] /\ clock' = clock
      BY <1>3 DEF Crash
    <2>2. StoredSerials' = StoredSerials
      BY <2>1 DEF StoredSerials
    <2>3. \A g \in Handlers : req'[g] = Idle
      BY <2>1
    <2> QED BY <1>1, <2>1, <2>2, <2>3, OthersInv
  <1> QED BY <1>2, <1>3 DEF Background

LEMMA RevokeInv ==
    ASSUME TsInv, NEW nid \in Nids, Revoke(nid, clock)
    PROVE  TsInv'
PROOF
  <1> DEFINE stamp(r) == IF r \in ActiveRows(nid) THEN [r EXCEPT !.revoked = clock] ELSE r
  <1>0. clock \in Nat \ {0}
    BY DEF TsInv, CoreInv, TypeOK
  <1>1. rows' = {stamp(r) : r \in rows} /\ req' = req /\ clock' = clock
    BY DEF Revoke
  <1>2. \A r \in rows : stamp(r).serial = r.serial /\ (stamp(r).revoked = NULL => stamp(r) = r)
    BY DEF TsInv, CoreInv, TypeOK, Row, NULL
  <1> HIDE DEF stamp
  <1>3. StoredSerials' = StoredSerials
    BY <1>1, <1>2 DEF StoredSerials
  <1>4. \A r1 \in rows' : \E r \in rows :
           r.serial = r1.serial /\ (r1.revoked = NULL => r = r1)
    BY <1>1, <1>2
  <1>5. CoreInv' /\ RecordedInv'
    BY <1>0, RevokeStep, RevokeRecords DEF TsInv
  <1> QED BY <1>1, <1>3, <1>4, <1>5, OthersInv

LEMMA InitTsInv == Init => TsInv
PROOF
  <1> SUFFICES ASSUME Init PROVE TsInv
    OBVIOUS
  <1>1. CoreInv
    BY InitInv
  <1>2. rows = {} /\ delivered = {}
        /\ clock = 1
        /\ \A h \in Handlers : req[h].phase = "idle" /\ req[h].op = "none" /\ req[h].issued = 0
    BY DEF Init, Idle
  <1>3. RecordedInv
    BY <1>2 DEF RecordedInv, DeliveredRecorded, AnswerRecorded
  <1>4. OneSubject /\ SuspendedIsCurrent /\ RequestsDated
    BY <1>2 DEF OneSubject, SuspendedIsCurrent, RequestsDated
  <1> QED BY <1>1, <1>3, <1>4 DEF TsInv

LEMMA NextTsInv == TsInv /\ [Next]_vars => TsInv'
PROOF
  <1> SUFFICES ASSUME TsInv, [Next]_vars PROVE TsInv'
    OBVIOUS
  <1>1. ASSUME NEW h \in Handlers,
               Register(h) \/ Renew(h) \/ RegisterX509(h) \/ ResumeX509(h)
        PROVE  TsInv'
    BY <1>1, HandlerStep, AddsInv, WaitsInv
  <1>2. ASSUME NEW h \in Handlers, Respond(h) PROVE TsInv'
    BY <1>2, RespondInv
  <1>3. CASE Background \/ \E nid \in Nids : Revoke(nid, clock)
    BY <1>3, BackgroundInv, RevokeInv
  <1>4. CASE UNCHANGED vars
    <2>1. CoreInv'
      BY <1>4, UnchangedStep DEF TsInv
    <2>2. rows' = rows /\ req' = req /\ delivered' = delivered /\ clock' = clock
      BY <1>4 DEF vars
    <2>3. RecordedInv'
      BY <2>2, QuietStep DEF TsInv
    <2>4. StoredSerials' = StoredSerials
      BY <2>2 DEF StoredSerials
    <2> QED BY <2>1, <2>2, <2>3, <2>4, OthersInv
  <1> QED BY <1>1, <1>2, <1>3, <1>4 DEF Next, Serve

\* The whole inductive invariant of the port: the table's, the one of the
\* certificates in clients' hands, and the one of suspended registrations.
THEOREM TsInvariant == Spec => []TsInv
PROOF
  <1> QED BY InitTsInv, NextTsInv, PTL DEF Spec

\* However a suspended registration interleaves with the other handlers, a NID
\* has one subject (registerX509, register and renew of index.ts).
THEOREM OneSubjectHolds == Spec => []OneSubject
PROOF
  <1>1. TsInv => OneSubject
    BY DEF TsInv
  <1> QED BY <1>1, TsInvariant, PTL

\* While the NID of a suspended registration is registered, the insert it is
\* about to make violates UNIQUE.
THEOREM SuspendedStaysCurrent == Spec => []SuspendedIsCurrent
PROOF
  <1>1. TsInv => SuspendedIsCurrent
    BY DEF TsInv
  <1> QED BY <1>1, TsInvariant, PTL

\* A certificate a client holds is in the table.
THEOREM DeliveredStaysRecorded == Spec => []DeliveredRecorded
PROOF
  <1>1. TsInv => DeliveredRecorded
    BY DEF TsInv, RecordedInv
  <1> QED BY <1>1, TsInvariant, PTL

-----------------------------------------------------------------------------
(* The dates in the table *)

\* No row is dated in the future.
RowsDated == RowsExpire /\ \A r \in rows : r.issued <= clock

DatesInv == RowsDated /\ OneOutsideWindow

\* A row is added only when the most recent row of its NID is in its window,
\* and then all of them are: they are of one subject.
LEMMA AddsDates ==
    ASSUME TsInv, DatesInv, NEW h \in Handlers, NEW q, Adds(h, q)
    PROVE  DatesInv'
PROOF
  <1> DEFINE c == Certificate(q)
  <1>1. rows' = rows \cup {c} /\ clock' = clock /\ q.issued <= clock
    BY DEF Adds
  <1>2. /\ c.nid = q.nid /\ c.issued = q.issued /\ c.entity = q.entity
        /\ c.expires = q.issued + ValidityDays(q.entity) * DaySeconds
    BY DEF Certificate
  <1> HIDE DEF c
  <1>3. RowsDated'
    BY <1>1, <1>2 DEF DatesInv, RowsDated, RowsExpire
  <1>4. \A o \in ActiveRows(q.nid) : ~TooEarly(o)
    <2> SUFFICES ASSUME NEW o \in ActiveRows(q.nid) PROVE ~TooEarly(o)
      OBVIOUS
    <2>1. PICK r \in MostRecent(q.nid) : ~TooEarly(r)
      BY DEF Adds, Active
    <2>2. r \in ActiveRows(q.nid) /\ o.issued <= r.issued
      BY DEF MostRecent
    <2>3. r \in rows /\ o \in rows /\ r.entity = o.entity
      BY <2>2 DEF ActiveRows, TsInv, OneSubject
    <2>4. o.expires <= r.expires
      BY <2>2, <2>3, LaterExpiresLater DEF TsInv, DatesInv, RowsDated
    <2>5. o.expires \in Nat /\ r.expires \in Nat /\ clock \in Nat
      BY <2>3 DEF TsInv, CoreInv, TypeOK, Row
    <2> QED BY <2>1, <2>4, <2>5, DaysLeft DEF TooEarly
  <1>5. \A r : TooEarly(r)' = TooEarly(r)
    BY <1>1 DEF TooEarly
  <1>6. OneOutsideWindow'
    <2> SUFFICES ASSUME NEW r1 \in rows', NEW r2 \in rows', r1 # r2, r1.nid = r2.nid,
                        r1.revoked = NULL, r2.revoked = NULL
                 PROVE  ~TooEarly(r1) \/ ~TooEarly(r2)
      BY <1>5 DEF OneOutsideWindow
    <2>1. CASE r1 = c
      BY <1>1, <1>2, <1>4, <2>1 DEF ActiveRows
    <2>2. CASE r2 = c
      BY <1>1, <1>2, <1>4, <2>2 DEF ActiveRows
    <2>3. CASE r1 \in rows /\ r2 \in rows
      BY <2>3 DEF DatesInv, OneOutsideWindow
    <2> QED BY <1>1, <2>1, <2>2, <2>3
  <1> QED BY <1>3, <1>6 DEF DatesInv

\* No other step adds a row, and the clock only brings windows nearer.
LEMMA OthersDates ==
    ASSUME TsInv, DatesInv, clock' = clock \/ clock' = clock + 1,
           \A r1 \in rows' : \E r \in rows :
              /\ r1.issued = r.issued /\ r1.expires = r.expires /\ r1.entity = r.entity
              /\ r1.revoked = NULL => r1 = r
    PROVE  DatesInv'
PROOF
  <1>1. clock \in Nat /\ clock' \in Nat /\ clock <= clock'
    BY DEF TsInv, CoreInv, TypeOK
  <1>2. \A r \in rows : r.issued \in Nat /\ r.expires \in Nat
    BY DEF TsInv, CoreInv, TypeOK, Row
  <1>3. RowsDated'
    <2> SUFFICES ASSUME NEW r1 \in rows'
                 PROVE  /\ r1.issued <= clock'
                        /\ r1.expires = r1.issued + ValidityDays(r1.entity) * DaySeconds
      BY DEF RowsDated, RowsExpire
    <2>1. PICK r \in rows :
             r1.issued = r.issued /\ r1.expires = r.expires /\ r1.entity = r.entity
      OBVIOUS
    <2>2. r.issued <= clock /\ r.expires = r.issued + ValidityDays(r.entity) * DaySeconds
      BY DEF DatesInv, RowsDated, RowsExpire
    <2> QED BY <1>1, <1>2, <2>1, <2>2
  <1>4. ASSUME NEW r \in rows, ~TooEarly(r)
        PROVE  ~((r.expires - clock') \div DaySeconds > RenewalDays)
    BY <1>1, <1>2, <1>4, DaysLeft DEF TooEarly
  <1>5. OneOutsideWindow'
    <2> SUFFICES ASSUME NEW r1 \in rows', NEW r2 \in rows', r1 # r2, r1.nid = r2.nid,
                        r1.revoked = NULL, r2.revoked = NULL
                 PROVE  \/ ~((r1.expires - clock') \div DaySeconds > RenewalDays)
                        \/ ~((r2.expires - clock') \div DaySeconds > RenewalDays)
      BY DEF OneOutsideWindow, TooEarly
    <2>1. r1 \in rows /\ r2 \in rows
      OBVIOUS
    <2>2. ~TooEarly(r1) \/ ~TooEarly(r2)
      BY <2>1 DEF DatesInv, OneOutsideWindow
    <2> QED BY <1>4, <2>1, <2>2
  <1> QED BY <1>3, <1>5 DEF DatesInv

LEMMA NextDates == TsInv /\ DatesInv /\ [Next]_vars => DatesInv'
PROOF
  <1> SUFFICES ASSUME TsInv, DatesInv, [Next]_vars PROVE DatesInv'
    OBVIOUS
  <1>1. ASSUME rows' = rows, clock' = clock \/ clock' = clock + 1 PROVE DatesInv'
    BY <1>1, OthersDates
  <1>2. ASSUME NEW h \in Handlers,
               Register(h) \/ Renew(h) \/ RegisterX509(h) \/ ResumeX509(h)
        PROVE  DatesInv'
    <2>1. CASE Waits(h)
      BY <1>1, <2>1 DEF Waits
    <2> QED BY <1>2, <2>1, HandlerStep, AddsDates
  <1>3. ASSUME NEW h \in Handlers, Respond(h) PROVE DatesInv'
    BY <1>1, <1>3 DEF Respond
  <1>4. CASE Background
    BY <1>1, <1>4 DEF Background, Tick, Crash
  <1>5. ASSUME NEW nid \in Nids, Revoke(nid, clock) PROVE DatesInv'
    <2>1. clock \in Nat \ {0} /\ rows \subseteq Row
      BY DEF TsInv, CoreInv, TypeOK
    <2>2. ASSUME NEW r \in rows, NEW r1, r1 = [r EXCEPT !.revoked = clock]
          PROVE  /\ r1.issued = r.issued /\ r1.expires = r.expires /\ r1.entity = r.entity
                 /\ r1.revoked # NULL
      BY <2>1, <2>2 DEF Row, NULL
    <2>3. clock' = clock /\ \A r1 \in rows' : \E r \in rows :
              r1 = r \/ r1 = [r EXCEPT !.revoked = clock]
      BY <1>5 DEF Revoke
    <2>4. \A r1 \in rows' : \E r \in rows :
              /\ r1.issued = r.issued /\ r1.expires = r.expires /\ r1.entity = r.entity
              /\ r1.revoked = NULL => r1 = r
      BY <2>2, <2>3
    <2> QED BY <2>3, <2>4, OthersDates
  <1>6. CASE UNCHANGED vars
    BY <1>1, <1>6 DEF vars
  <1> QED BY <1>2, <1>3, <1>4, <1>5, <1>6 DEF Next, Serve

LEMMA DatesHold == Spec => []DatesInv
PROOF
  <1>1. Init => DatesInv
    BY DEF Init, DatesInv, RowsDated, RowsExpire, OneOutsideWindow
  <1> QED BY <1>1, NextDates, TsInvariant, PTL DEF Spec

\* Renewals do not pile up: the renew handlers find the certificate that was
\* only just issued, whichever row of its second they read.
THEOREM RenewalsDoNotPileUp == Spec => []OneOutsideWindow
PROOF
  <1>1. DatesInv => OneOutsideWindow
    BY DEF DatesInv
  <1> QED BY <1>1, DatesHold, PTL

\* A set of naturals that is not empty has a least element.
LEMMA LeastNatural ==
    ASSUME NEW S \in SUBSET Nat, S # {}
    PROVE  \E m \in S : \A n \in S : ~(n < m)
PROOF
  <1> DEFINE R == OpToRel(<, Nat)
  <1>1. IsWellFoundedOn(R, Nat)
    BY NatLessThanWellFounded
  <1>2. \A x, y \in Nat : x < y => <<x, y>> \in R
    BY DEF OpToRel
  <1> HIDE DEF R
  <1>3. PICK m \in S : \A n \in S : ~(<<n, m>> \in R)
    BY <1>1, WFMin
  <1> QED BY <1>2, <1>3

\* ORDER BY issued_at DESC LIMIT 1 finds a row if there is one.
LEMMA MostRecentFound ==
    ASSUME TsInv, RowsDated, NEW nid, Active(nid)
    PROVE  MostRecent(nid) # {}
PROOF
  <1> DEFINE S == {clock - r.issued : r \in ActiveRows(nid)}
  <1>1. clock \in Nat /\ \A r \in ActiveRows(nid) : r.issued \in Nat /\ r.issued <= clock
    BY DEF TsInv, CoreInv, TypeOK, Row, ActiveRows, RowsDated
  <1>2. S \in SUBSET Nat /\ S # {}
    BY <1>1 DEF Active
  <1>3. PICK m \in S : \A n \in S : ~(n < m)
    BY <1>2, LeastNatural
  <1>4. PICK r \in ActiveRows(nid) : m = clock - r.issued
    OBVIOUS
  <1>5. ASSUME NEW o \in ActiveRows(nid) PROVE o.issued <= r.issued
    <2>1. ~(clock - o.issued < clock - r.issued)
      BY <1>3, <1>4
    <2> HIDE DEF S
    <2> QED BY <1>1, <2>1
  <1> QED BY <1>5 DEF MostRecent

\* verify finds the valid certificate of a NID that has one (verify of
\* index.ts, and get_active under it), whichever row of a second it reads.
THEOREM ValidIsFound == Spec => []VerifyFindsValid
PROOF
  <1>1. TsInv /\ DatesInv => VerifyFindsValid
    <2> SUFFICES ASSUME TsInv, DatesInv, NEW nid \in Nids,
                        NEW o \in ActiveRows(nid), o.expires > clock
                 PROVE  Verdicts(nid) = {"valid"}
      BY DEF VerifyFindsValid
    <2>1. MostRecent(nid) # {} /\ Active(nid)
      BY MostRecentFound DEF DatesInv, Active
    <2>2. ASSUME NEW r \in MostRecent(nid) PROVE r.expires > clock
      <3>1. r \in rows /\ o \in rows /\ o.issued <= r.issued /\ r.entity = o.entity
        BY DEF MostRecent, ActiveRows, TsInv, OneSubject
      <3>2. o.expires <= r.expires
        BY <3>1, LaterExpiresLater DEF TsInv, DatesInv, RowsDated
      <3>3. o.expires \in Nat /\ r.expires \in Nat /\ clock \in Nat
        BY <3>1 DEF TsInv, CoreInv, TypeOK, Row
      <3> QED BY <3>2, <3>3
    <2> QED BY <2>1, <2>2 DEF Verdicts
  <1> QED BY <1>1, TsInvariant, DatesHold, PTL

-----------------------------------------------------------------------------
(* The refinement *)

LEMMA ActiveIsActive ==
    ASSUME NEW nid
    PROVE  Promise!Active(nid) = ActiveRows(nid)
PROOF BY DEF Promise!Active, ActiveRows, NULL

\* ~TooEarly says what the promise's window says, on whole days.
LEMMA WindowOpen ==
    ASSUME CoreInv, NEW r \in rows, ~TooEarly(r)
    PROVE  (r.expires - clock) \div DaySeconds <= RenewalDays
PROOF
  <1>1. r.expires - clock \in Int /\ DaySeconds \in Nat \ {0} /\ RenewalDays \in Nat
    BY ConstantsAssumption DEF CoreInv, TypeOK, Row
  <1>2. (r.expires - clock) \div DaySeconds \in Int
    BY <1>1
  <1> QED BY <1>1, <1>2 DEF TooEarly

\* A row that is added is a registration or a renewal.
LEMMA AddsPromised ==
    ASSUME TsInv, NEW h \in Handlers, NEW q, Adds(h, q)
    PROVE  Promise!Next
PROOF
  <1> DEFINE c == Certificate(q)
  <1>1. c.serial = q.serial /\ c.nid = q.nid /\ c.entity = q.entity /\ c.key = q.key
        /\ c.revoked = 0
    BY DEF Certificate, NULL
  <1>2. /\ q.serial \notin StoredSerials
        /\ rows' = rows \cup {c}
        /\ clock' = clock /\ delivered' = delivered
    BY DEF Adds
  <1> HIDE DEF c
  <1>3. Promise!Add(c)
    BY <1>1, <1>2 DEF Promise!Add, StoredSerials
  <1>4. c \in rows' \ rows
    BY <1>1, <1>2 DEF StoredSerials
  <1>5. CASE ~Active(q.nid)
    <2>1. Promise!Register(c)
      BY <1>1, <1>3, <1>5, ActiveIsActive DEF Promise!Register, Active
    <2> QED BY <1>4, <2>1 DEF Promise!Next
  <1>6. CASE \E r \in MostRecent(q.nid) :
               r.entity = q.entity /\ r.key = q.key /\ ~TooEarly(r)
    <2>1. PICK r \in MostRecent(q.nid) :
               r.entity = q.entity /\ r.key = q.key /\ ~TooEarly(r)
      BY <1>6
    <2>2. r \in rows /\ r \in Promise!Active(c.nid)
      BY <1>1, ActiveIsActive DEF MostRecent, ActiveRows
    <2>3. (r.expires - clock) \div DaySeconds <= RenewalDays
      BY <2>1, <2>2, WindowOpen DEF TsInv
    <2>4. Promise!Renew(c)
      BY <1>1, <1>3, <2>1, <2>2, <2>3 DEF Promise!Renew
    <2> QED BY <1>4, <2>4 DEF Promise!Next
  <1> QED BY <1>5, <1>6 DEF Adds

\* An answer delivers a certificate of the table, if it is not a repetition.
LEMMA RespondPromised ==
    ASSUME TsInv, NEW h \in Handlers, Respond(h)
    PROVE  Promise!Next \/ UNCHANGED Promise!vars
PROOF
  <1> DEFINE c == Certificate(req[h])
  <1>1. /\ rows' = rows /\ clock' = clock
        /\ delivered' = delivered \cup {c}
    BY DEF Respond
  <1>2. \E r \in rows : [r EXCEPT !.revoked = 0] = c
    BY DEF Respond, TsInv, RecordedInv, AnswerRecorded, Recorded, NULL
  <1> HIDE DEF c
  <1>3. CASE c \in delivered
    BY <1>1, <1>3 DEF Promise!vars
  <1>4. CASE c \notin delivered
    <2>1. Promise!Deliver(c)
      BY <1>1, <1>2 DEF Promise!Deliver
    <2>2. c \in delivered' \ delivered
      BY <1>1, <1>4
    <2> QED BY <2>1, <2>2 DEF Promise!Next
  <1> QED BY <1>3, <1>4

LEMMA BackgroundPromised ==
    ASSUME Background \/ \E nid \in Nids : Revoke(nid, clock)
    PROVE  Promise!Next \/ UNCHANGED Promise!vars
PROOF
  <1>1. CASE Tick
    BY <1>1 DEF Tick, Promise!Tick, Promise!Next
  <1>2. CASE Crash
    BY <1>2 DEF Crash, Promise!vars
  <1>3. ASSUME NEW nid \in Nids, Revoke(nid, clock) PROVE Promise!Next
    <2>1. Promise!Revoke(nid)
      BY <1>3, ActiveIsActive DEF Revoke, Promise!Revoke
    <2> QED BY <2>1 DEF Promise!Next
  <1> QED BY <1>1, <1>2, <1>3 DEF Background

\* The TypeScript port keeps the promise of CaPromise: every step of a handler
\* registers, renews, revokes or delivers as promised, or changes nothing the
\* promise is about.
THEOREM KeepsPromise == Spec => Implements
PROOF
  <1>1. Init => Promise!Init
    BY DEF Init, Promise!Init
  <1>2. TsInv /\ [Next]_vars => [Promise!Next]_(Promise!vars)
    <2> SUFFICES ASSUME TsInv, [Next]_vars
                 PROVE  Promise!Next \/ UNCHANGED Promise!vars
      OBVIOUS
    <2>1. ASSUME NEW h \in Handlers,
                 Register(h) \/ Renew(h) \/ RegisterX509(h) \/ ResumeX509(h)
          PROVE  Promise!Next \/ UNCHANGED Promise!vars
      <3>1. CASE Waits(h)
        BY <3>1 DEF Waits, Promise!vars
      <3>2. CASE \E q : Adds(h, q)
        BY <3>2, AddsPromised
      <3> QED BY <2>1, <3>1, <3>2, HandlerStep
    <2>2. ASSUME NEW h \in Handlers, Respond(h)
          PROVE  Promise!Next \/ UNCHANGED Promise!vars
      BY <2>2, RespondPromised
    <2>3. CASE Background \/ \E nid \in Nids : Revoke(nid, clock)
      BY <2>3, BackgroundPromised
    <2>4. CASE UNCHANGED vars
      BY <2>4 DEF vars, Promise!vars
    <2> QED BY <2>1, <2>2, <2>3, <2>4 DEF Next, Serve
  <1> QED BY <1>1, <1>2, TsInvariant, PTL DEF Spec, Implements, Promise!Spec

-----------------------------------------------------------------------------
(* The table is a ledger here, too *)

\* The TypeScript port keeps the ledger: a handler grants at most one
\* certificate, under a new serial, and revoke takes all of a NID.
THEOREM TsLedgerIsKept == Spec => KeepsLedger
PROOF
  <1>1. Init => Life!Init
    BY DEF Init, Life!Init
  <1>2. TsInv /\ [Next]_vars => [Life!Next]_(Life!vars)
    <2> SUFFICES ASSUME TsInv, [Next]_vars PROVE Life!Next \/ UNCHANGED Life!vars
      OBVIOUS
    <2>1. CoreInv
      BY DEF TsInv
    <2>2. ASSUME NEW h \in Handlers,
                 Register(h) \/ Renew(h) \/ RegisterX509(h) \/ ResumeX509(h)
          PROVE  Life!Next \/ rows' = rows
      <3>1. CASE Waits(h)
        BY <3>1 DEF Waits
      <3>2. CASE \E q : Adds(h, q)
        <4>1. PICK q : Adds(h, q)
          BY <3>2
        <4>2. PICK c : c = Certificate(q)
          OBVIOUS
        <4>3. rows' = rows \cup {c} /\ c.serial \notin StoredSerials /\ c.revoked = NULL
          BY <4>1, <4>2 DEF Adds, Certificate
        <4> QED BY <2>1, <4>3, RowIsGrant
      <3> QED BY <2>2, <3>1, <3>2, HandlerStep
    <2>3. (\E h \in Handlers : Respond(h)) \/ Background \/ UNCHANGED vars => rows' = rows
      BY DEF Respond, Background, Tick, Crash, vars
    <2>4. ASSUME NEW nid \in Nids, Revoke(nid, clock) PROVE Life!Next
      BY <2>1, <2>4, RevokeMoves DEF CoreInv, TypeOK
    <2> QED BY <2>2, <2>3, <2>4, LifeVars DEF Next, Serve
  <1> QED BY <1>1, <1>2, TsInvariant, PTL DEF Spec, KeepsLedger, Life!Spec

\* The numbering ends at ten here as well (nextSerial).
THEOREM TsTenAtMost == Spec => [](IsFiniteSet(rows) /\ Cardinality(rows) <= 10)
PROOF
  <1>1. TsInv => CoreInv
    BY DEF TsInv
  <1> QED BY <1>1, TsInvariant, TenRows, PTL

\* The table is as sound as that of the threaded ports, although a registration
\* keeps its serial while others run.
THEOREM TsTableIsKept ==
    Spec => [](TypeOK /\ SerialsDense /\ SerialsUnique /\ RevocationTotal /\ FreshUntilTen)
PROOF
  <1>1. TsInv => CoreInv
    BY DEF TsInv
  <1>2. CoreInv => TypeOK /\ SerialsDense /\ SerialsUnique /\ RevocationTotal
    BY DEF CoreInv
  <1> QED BY <1>1, <1>2, TsInvariant, FreshOnDense, PTL

=============================================================================
