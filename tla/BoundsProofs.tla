----------------------------- MODULE BoundsProofs -----------------------------
(***************************************************************************)
(* How much the races of the threaded ports can cost, for any finite       *)
(* number of handlers.  A NID that is in use can only come to a further    *)
(* subject through a handler that is past its lookup: a pending one.  The  *)
(* handler that brought the first subject is pending no more, a handler    *)
(* that brings another stops being pending, and none becomes pending for a *)
(* NID in use except by an error that is read as an empty table.           *)
(* The same count, with the handlers that are renewing, bounds the         *)
(* certificates outside their window.  A renewal decides on an expiry it   *)
(* has read before, so only the rows that expire after that one are        *)
(* counted.  And each certificate that is lost is paid for by an error of  *)
(* its own.                                                                *)
(***************************************************************************)
EXTENDS ThreadedCaProofs, FiniteSetTheorems

Past == {"window", "serial", "sign", "insert"}
SubjectOf(q) == <<q.entity, q.key>>

\* The handlers that may still bring the NID a subject it does not have.
Pending(nid) ==
    {h \in Handlers : req[h].nid = nid /\ req[h].phase \in Past
                      /\ SubjectOf(req[h]) \notin Subjects(nid)}

BoundOf(nid) ==
    /\ IsFiniteSet(Subjects(nid))
    /\ Subjects(nid) # {} =>
         Cardinality(Subjects(nid)) + Cardinality(Pending(nid))
            <= Cardinality(Handlers) + FailedOpen

BoundInv == \A nid \in Nids : BoundOf(nid)

LEMMA PendingFinite ==
    ASSUME NEW nid
    PROVE  IsFiniteSet(Pending(nid)) /\ Cardinality(Pending(nid)) \in Nat
PROOF
  <1>1. Pending(nid) \in SUBSET Handlers
    BY DEF Pending
  <1> QED BY <1>1, FS_Subset, FS_CardinalityType, ConstantsAssumption

LEMMA HandlersFinite == IsFiniteSet(Handlers) /\ Cardinality(Handlers) \in Nat
PROOF BY FS_CardinalityType, ConstantsAssumption

LEMMA FailedOpenType == faults \in Nat => FailedOpen \in Nat
PROOF BY DEF FailedOpen

LEMMA FailedOpenGrows ==
    ASSUME faults \in Nat, faults' \in Nat, faults <= faults'
    PROVE  FailedOpen \in Nat /\ FailedOpen' \in Nat /\ FailedOpen <= FailedOpen'
PROOF BY DEF FailedOpen

\* No subject is added and no handler becomes pending.
LEMMA QuietBound ==
    ASSUME NEW nid, BoundOf(nid), Subjects(nid)' = Subjects(nid),
           Pending(nid)' \subseteq Pending(nid),
           faults \in Nat, faults' \in Nat, faults <= faults'
    PROVE  BoundOf(nid)'
PROOF
  <1>1. PICK S : S = Subjects(nid)
    OBVIOUS
  <1>2. PICK P : P = Pending(nid)
    OBVIOUS
  <1>3. PICK P1 : P1 = Pending(nid)'
    OBVIOUS
  <1>4. IsFiniteSet(P) /\ Cardinality(P) \in Nat /\ P1 \in SUBSET P
    BY <1>2, <1>3, PendingFinite
  <1>5. Cardinality(P1) <= Cardinality(P) /\ Cardinality(P1) \in Nat
    BY <1>4, FS_Subset, FS_CardinalityType
  <1>6. IsFiniteSet(S) /\ Cardinality(S) \in Nat
    BY <1>1, FS_CardinalityType DEF BoundOf
  <1>7. S # {} => Cardinality(S) + Cardinality(P) <= Cardinality(Handlers) + FailedOpen
    BY <1>1, <1>2 DEF BoundOf
  <1>8. FailedOpen \in Nat /\ FailedOpen' \in Nat /\ FailedOpen <= FailedOpen'
    BY FailedOpenGrows
  <1>9. S # {} => Cardinality(S) + Cardinality(P1) <= Cardinality(Handlers) + FailedOpen'
    BY <1>4, <1>5, <1>6, <1>7, <1>8, HandlersFinite
  <1>10. Subjects(nid)' = S
    BY <1>1
  <1> QED BY <1>3, <1>6, <1>9, <1>10 DEF BoundOf

\* A step of h that leaves the table alone, after which h is not pending
\* unless it was.
LEMMA QuietHandler ==
    ASSUME CoreInv, BoundInv, NEW h \in Handlers, rows' = rows,
           faults' \in Nat, faults <= faults',
           \A g \in Handlers \ {h} : req'[g] = req[g],
           \A nid \in Nids : h \in Pending(nid)' => h \in Pending(nid)
    PROVE  BoundInv'
PROOF
  <1> SUFFICES ASSUME NEW nid \in Nids PROVE BoundOf(nid)'
    BY DEF BoundInv
  <1>1. Subjects(nid)' = Subjects(nid)
    BY DEF Subjects, ActiveRows
  <1>2. Pending(nid)' \subseteq Pending(nid)
    <2> SUFFICES ASSUME NEW g \in Pending(nid)' PROVE g \in Pending(nid)
      OBVIOUS
    <2>1. CASE g = h
      BY <2>1
    <2>2. CASE g # h
      BY <1>1, <2>2 DEF Pending
    <2> QED BY <2>1, <2>2
  <1> QED BY <1>1, <1>2, QuietBound DEF BoundInv, CoreInv, TypeOK

\* The handler is idle, or at its lookup or its answer, after the step.
LEMMA NotPastBound ==
    ASSUME CoreInv, BoundInv, NEW h \in Handlers, rows' = rows,
           faults' \in Nat, faults <= faults',
           \A g \in Handlers \ {h} : req'[g] = req[g],
           req'[h].phase \notin Past
    PROVE  BoundInv'
PROOF
  <1>1. \A nid \in Nids : h \notin Pending(nid)'
    BY DEF Pending
  <1> QED BY <1>1, QuietHandler

LEMMA DropBound ==
    ASSUME CoreInv, BoundInv, NEW h \in Handlers, rows' = rows,
           faults' \in Nat, faults <= faults', Drop(h)
    PROVE  BoundInv'
PROOF
  <1>1. req'[h].phase \notin Past /\ \A g \in Handlers \ {h} : req'[g] = req[g]
    BY DEF Drop, Idle, Past, CoreInv, TypeOK
  <1> QED BY <1>1, NotPastBound

\* A step between the lookup and the insert keeps the subject.
LEMMA SameSubjectBound ==
    ASSUME CoreInv, BoundInv, NEW h \in Handlers, rows' = rows, faults' = faults,
           \A g \in Handlers \ {h} : req'[g] = req[g],
           req[h].phase \in Past,
           req'[h].nid = req[h].nid, SubjectOf(req[h])' = SubjectOf(req[h])
    PROVE  BoundInv'
PROOF
  <1>1. \A nid \in Nids : h \in Pending(nid)' => h \in Pending(nid)
    BY DEF Pending, Subjects, ActiveRows
  <1> QED BY <1>1, QuietHandler DEF CoreInv, TypeOK

LEMMA AcceptBound ==
    ASSUME CoreInv, BoundInv, NEW h \in Handlers, AcceptRequest(h)
    PROVE  BoundInv'
PROOF
  <1>1. /\ rows' = rows /\ faults' = faults
        /\ \A g \in Handlers \ {h} : req'[g] = req[g]
        /\ req'[h].phase = "lookup"
    BY DEF AcceptRequest, AcceptRenew, AcceptRegister, Accept, CoreInv, TypeOK
  <1> QED BY <1>1, NotPastBound DEF CoreInv, TypeOK, Past

\* A registration passes its lookup only on a NID without subjects.
LEMMA LookupRegisterBound ==
    ASSUME CoreInv, BoundInv, NEW h \in Handlers, LookupRegister(h)
    PROVE  BoundInv'
PROOF
  <1>0. faults' = faults /\ faults \in Nat /\ rows' = rows
    BY DEF LookupRegister, CoreInv, TypeOK
  <1>1. CASE Drop(h)
    BY <1>0, <1>1, DropBound
  <1>2. CASE Goto(h, "serial") /\ ~Active(req[h].nid)
    <2>1. /\ \A g \in Handlers \ {h} : req'[g] = req[g]
          /\ req'[h].nid = req[h].nid
      BY <1>2 DEF Goto, CoreInv, TypeOK, Request
    <2> SUFFICES ASSUME NEW nid \in Nids PROVE BoundOf(nid)'
      BY DEF BoundInv
    <2>2. Subjects(nid)' = Subjects(nid)
      BY <1>0 DEF Subjects, ActiveRows
    <2>3. CASE nid = req[h].nid
      <3>1. Subjects(nid)' = {}
        BY <1>2, <2>2, <2>3 DEF Subjects, Active
      <3> QED BY <3>1, FS_EmptySet DEF BoundOf
    <2>4. CASE nid # req[h].nid
      <3>1. Pending(nid)' \subseteq Pending(nid)
        BY <2>1, <2>2, <2>4 DEF Pending
      <3> QED BY <1>0, <2>2, <3>1, QuietBound DEF BoundInv
    <2> QED BY <2>3, <2>4
  <1> QED BY <1>1, <1>2 DEF LookupRegister

\* A renewal carries a subject its NID has.
LEMMA LookupRenewBound ==
    ASSUME CoreInv, BoundInv, NEW h \in Handlers, LookupRenew(h)
    PROVE  BoundInv'
PROOF
  <1>0. faults' = faults /\ faults \in Nat /\ rows' = rows
    BY DEF LookupRenew, CoreInv, TypeOK
  <1>1. CASE Drop(h)
    BY <1>0, <1>1, DropBound
  <1>2. ASSUME NEW r \in MostRecent(req[h].nid),
               req' = [req EXCEPT ![h].phase = "window", ![h].entity = r.entity,
                                  ![h].key = r.key, ![h].expires = r.expires]
        PROVE  BoundInv'
    <2>1. /\ \A g \in Handlers \ {h} : req'[g] = req[g]
          /\ req'[h].nid = req[h].nid
          /\ req'[h].entity = r.entity /\ req'[h].key = r.key
      BY <1>2 DEF CoreInv, TypeOK, Request
    <2>2. r \in rows /\ r.nid = req[h].nid /\ r.revoked = NULL
      BY <1>2 DEF MostRecent, ActiveRows
    <2>3. <<r.entity, r.key>> \in Subjects(req[h].nid)
      BY <2>2 DEF Subjects, ActiveRows
    <2>4. SubjectOf(req'[h]) \in Subjects(req[h].nid)
      BY <2>1, <2>3 DEF SubjectOf
    <2>5. \A nid \in Nids : h \notin Pending(nid)'
      <3> SUFFICES ASSUME NEW nid \in Nids, h \in Pending(nid)' PROVE FALSE
        OBVIOUS
      <3>1. Subjects(nid)' = Subjects(nid)
        BY <1>0 DEF Subjects, ActiveRows
      <3>2. req'[h].nid = nid /\ SubjectOf(req'[h]) \notin Subjects(nid)
        BY <3>1 DEF Pending, SubjectOf
      <3> QED BY <2>1, <2>4, <3>2
    <2> QED BY <1>0, <2>1, <2>5, QuietHandler
  <1> QED BY <1>1, <1>2 DEF LookupRenew

\* An error read as an empty table admits one handler, and is counted.
LEMMA LookupFailsBound ==
    ASSUME CoreInv, BoundInv, NEW h \in Handlers, LookupFails(h)
    PROVE  BoundInv'
PROOF
  <1>0. rows' = rows /\ faults' = faults + 1 /\ faults \in Nat
    BY DEF LookupFails, FaultDrops, LookupErrorAsAbsent, Fault, CoreInv, TypeOK
  <1>1. CASE Drop(h)
    BY <1>0, <1>1, DropBound
  <1>2. CASE QueryErrors = "absent" /\ Goto(h, "serial")
    <2>1. /\ \A g \in Handlers \ {h} : req'[g] = req[g]
          /\ FailedOpen' = FailedOpen + 1 /\ FailedOpen \in Nat
      BY <1>0, <1>2 DEF Goto, CoreInv, TypeOK, FailedOpen
    <2> SUFFICES ASSUME NEW nid \in Nids PROVE BoundOf(nid)'
      BY DEF BoundInv
    <2>2. Subjects(nid)' = Subjects(nid)
      BY <1>0 DEF Subjects, ActiveRows
    <2>3. Pending(nid)' \subseteq Pending(nid) \cup {h}
      BY <2>1, <2>2 DEF Pending
    <2>4. PICK S : S = Subjects(nid)
      OBVIOUS
    <2>5. PICK P : P = Pending(nid)
      OBVIOUS
    <2>6. PICK P1 : P1 = Pending(nid)'
      OBVIOUS
    <2>7. IsFiniteSet(P) /\ Cardinality(P) \in Nat
      BY <2>5, PendingFinite
    <2>8. IsFiniteSet(P \cup {h}) /\ Cardinality(P \cup {h}) <= Cardinality(P) + 1
          /\ Cardinality(P \cup {h}) \in Nat
      BY <2>7, FS_AddElement, FS_CardinalityType
    <2>9. Cardinality(P1) <= Cardinality(P) + 1 /\ Cardinality(P1) \in Nat
      BY <2>3, <2>5, <2>6, <2>7, <2>8, FS_Subset, FS_CardinalityType
    <2>10. IsFiniteSet(S) /\ Cardinality(S) \in Nat
      BY <2>4, FS_CardinalityType DEF BoundOf, BoundInv
    <2>11. S # {} => Cardinality(S) + Cardinality(P) <= Cardinality(Handlers) + FailedOpen
      BY <2>4, <2>5 DEF BoundOf, BoundInv
    <2>12. S # {} => Cardinality(S) + Cardinality(P1) <= Cardinality(Handlers) + FailedOpen'
      BY <2>1, <2>7, <2>9, <2>10, <2>11, HandlersFinite
    <2>13. Subjects(nid)' = S
      BY <2>2, <2>4
    <2> QED BY <2>6, <2>10, <2>12, <2>13 DEF BoundOf
  <1> QED BY <1>1, <1>2 DEF LookupFails, FaultDrops, LookupErrorAsAbsent

\* What is decided on the expiry leaves the request its subject, or drops it.
LEMMA CheckWindowBound ==
    ASSUME CoreInv, BoundInv, NEW h \in Handlers, CheckWindow(h)
    PROVE  BoundInv'
PROOF
  <1>0. rows' = rows /\ faults' = faults /\ faults \in Nat /\ req[h].phase = "window"
    BY DEF CheckWindow, CoreInv, TypeOK
  <1>1. CASE Drop(h)
    BY <1>0, <1>1, DropBound
  <1>2. CASE req' = [req EXCEPT ![h].phase = "serial", ![h].expires = 0]
    <2>1. /\ \A g \in Handlers \ {h} : req'[g] = req[g]
          /\ req'[h].nid = req[h].nid
          /\ req'[h].entity = req[h].entity /\ req'[h].key = req[h].key
      BY <1>2 DEF CoreInv, TypeOK, Request
    <2>2. SubjectOf(req[h])' = SubjectOf(req[h])
      BY <2>1 DEF SubjectOf
    <2> QED BY <1>0, <2>1, <2>2, SameSubjectBound DEF Past
  <1> QED BY <1>1, <1>2 DEF CheckWindow

\* Between the lookup and the insert the request keeps its subject.
LEMMA SerialAndSignBound ==
    ASSUME CoreInv, BoundInv, NEW h \in Handlers, TakeSerial(h) \/ Sign(h)
    PROVE  BoundInv'
PROOF
  <1>1. /\ rows' = rows /\ faults' = faults
        /\ \A g \in Handlers \ {h} : req'[g] = req[g]
        /\ req[h].phase \in Past
        /\ req'[h].nid = req[h].nid
        /\ req'[h].entity = req[h].entity /\ req'[h].key = req[h].key
    BY DEF TakeSerial, Sign, Past, CoreInv, TypeOK, Request
  <1>2. SubjectOf(req[h])' = SubjectOf(req[h])
    BY <1>1 DEF SubjectOf
  <1> QED BY <1>1, <1>2, SameSubjectBound

\* Refusals, failures and answers.
LEMMA EndsBound ==
    ASSUME CoreInv, BoundInv, NEW h \in Handlers,
           \/ \E phase \in Phases : FaultDrops(h, phase)
           \/ SignRejects(h)
           \/ LevelRejected(h)
           \/ Respond(h)
           \/ InsertErrorRaised(h)
           \/ InsertErrorDiscarded(h)
    PROVE  BoundInv'
PROOF
  <1>1. rows' = rows /\ faults' \in Nat /\ faults <= faults'
    BY DEF FaultDrops, SignRejects, LevelRejected, Respond, InsertErrorRaised,
           InsertErrorDiscarded, InsertFails, Fault, NoFault, CoreInv, TypeOK
  <1>2. CASE Drop(h)
    BY <1>1, <1>2, DropBound
  <1>3. CASE InsertErrorDiscarded(h)
    <2>1. req'[h].phase \notin Past /\ \A g \in Handlers \ {h} : req'[g] = req[g]
      BY <1>3 DEF InsertErrorDiscarded, Goto, Past, CoreInv, TypeOK, Request
    <2> QED BY <1>1, <2>1, NotPastBound
  <1> QED BY <1>2, <1>3 DEF FaultDrops, SignRejects, LevelRejected, Respond, InsertErrorRaised

\* insert turns a pending handler into a subject.
LEMMA InsertBound ==
    ASSUME CoreInv, BoundInv, NEW h \in Handlers, Insert(h)
    PROVE  BoundInv'
PROOF
  <1>1. /\ rows' = rows \cup {Certificate(req[h])} /\ faults' = faults /\ faults \in Nat
        /\ \A g \in Handlers \ {h} : req'[g] = req[g]
        /\ req[h].phase = "insert" /\ req'[h].phase = "answer"
    BY DEF Insert, Goto, CoreInv, TypeOK, Request
  <1>2. PICK s : s = SubjectOf(req[h])
    OBVIOUS
  <1> SUFFICES ASSUME NEW nid \in Nids PROVE BoundOf(nid)'
    BY DEF BoundInv
  <1>3. h \notin Pending(nid)'
    BY <1>1 DEF Pending, Past
  <1>4. FailedOpen' = FailedOpen /\ FailedOpen \in Nat
    BY <1>1 DEF FailedOpen
  <1>5. CASE nid # req[h].nid
    <2>1. ActiveRows(nid)' = ActiveRows(nid)
      BY <1>1, <1>5 DEF ActiveRows, Certificate
    <2>2. Subjects(nid)' = Subjects(nid)
      BY <2>1 DEF Subjects
    <2>3. Pending(nid)' \subseteq Pending(nid)
      BY <1>1, <1>3, <2>2 DEF Pending
    <2> QED BY <1>1, <2>2, <2>3, QuietBound DEF BoundInv
  <1>6. CASE nid = req[h].nid
    <2>1. ActiveRows(nid)' = ActiveRows(nid) \cup {Certificate(req[h])}
      BY <1>1, <1>6 DEF ActiveRows, Certificate
    <2>0. s = <<Certificate(req[h]).entity, Certificate(req[h]).key>>
      BY <1>2 DEF Certificate, SubjectOf
    <2>2. Subjects(nid)' = Subjects(nid) \cup {s}
      BY <2>0, <2>1, Zenon DEF Subjects
    <2>3. CASE s \in Subjects(nid)
      <3>1. Subjects(nid)' = Subjects(nid)
        BY <2>2, <2>3
      <3>2. Pending(nid)' \subseteq Pending(nid)
        BY <1>1, <1>3, <3>1 DEF Pending
      <3> QED BY <1>1, <3>1, <3>2, QuietBound DEF BoundInv
    <2>4. CASE s \notin Subjects(nid)
      <3>1. PICK S : S = Subjects(nid)
        OBVIOUS
      <3>2. PICK P : P = Pending(nid)
        OBVIOUS
      <3>3. PICK P1 : P1 = Pending(nid)'
        OBVIOUS
      <3>4. h \in P
        BY <1>1, <1>2, <1>6, <2>4, <3>2 DEF Pending, Past
      <3>5. P1 \subseteq P \ {h}
        BY <1>1, <1>3, <2>2, <3>2, <3>3 DEF Pending
      <3>6. IsFiniteSet(P) /\ Cardinality(P) \in Nat /\ Cardinality(P) <= Cardinality(Handlers)
        BY <3>2, PendingFinite, ConstantsAssumption, FS_Subset DEF Pending
      <3>7. IsFiniteSet(P \ {h}) /\ Cardinality(P \ {h}) = Cardinality(P) - 1
        BY <3>4, <3>6, FS_RemoveElement
      <3>8. Cardinality(P1) + 1 <= Cardinality(P) /\ Cardinality(P1) \in Nat
        BY <3>5, <3>6, <3>7, FS_Subset, FS_CardinalityType
      <3>9. IsFiniteSet(S) /\ Cardinality(S) \in Nat
        BY <3>1, FS_CardinalityType DEF BoundOf, BoundInv
      <3>10. IsFiniteSet(S \cup {s}) /\ Cardinality(S \cup {s}) = Cardinality(S) + 1
        BY <2>4, <3>1, <3>9, FS_AddElement
      <3>11. S # {} => Cardinality(S) + Cardinality(P) <= Cardinality(Handlers) + FailedOpen
        BY <3>1, <3>2 DEF BoundOf, BoundInv
      <3>12. S = {} => Cardinality(S) = 0
        BY FS_EmptySet
      <3>13. Cardinality(S \cup {s}) + Cardinality(P1) <= Cardinality(Handlers) + FailedOpen'
        BY <1>4, <3>6, <3>8, <3>9, <3>10, <3>11, <3>12, HandlersFinite
      <3>14. Subjects(nid)' = S \cup {s}
        BY <2>2, <3>1
      <3> QED BY <3>3, <3>10, <3>13, <3>14 DEF BoundOf
    <2> QED BY <2>3, <2>4
  <1> QED BY <1>5, <1>6

LEMMA ServeBound ==
    ASSUME CoreInv, BoundInv, NEW h \in Handlers, Serve(h)
    PROVE  BoundInv'
PROOF
  <1>1. CASE DbGetActive(h)
    BY <1>1, LookupRegisterBound, LookupRenewBound, LookupFailsBound DEF DbGetActive
  <1>2. CASE DbNextSerial(h) \/ Sign(h)
    BY <1>2, SerialAndSignBound, EndsBound DEF DbNextSerial, Phases
  <1>3. CASE DbInsert(h)
    BY <1>3, InsertBound, EndsBound DEF DbInsert
  <1>4. CASE Respond(h) \/ SignRejects(h) \/ LevelRejected(h)
    BY <1>4, EndsBound
  <1>5. CASE CheckWindow(h)
    BY <1>5, CheckWindowBound
  <1> QED BY <1>1, <1>2, <1>3, <1>4, <1>5 DEF Serve, Register, RegisterX509, Renew, Issue

LEMMA BackgroundBound ==
    ASSUME CoreInv, BoundInv, Background
    PROVE  BoundInv'
PROOF
  <1>1. rows' = rows /\ faults \in Nat /\ faults' \in Nat /\ faults <= faults'
    BY DEF Background, Tick, Crash, Fault, CoreInv, TypeOK
  <1> SUFFICES ASSUME NEW nid \in Nids PROVE BoundOf(nid)'
    BY DEF BoundInv
  <1>2. Subjects(nid)' = Subjects(nid)
    BY <1>1 DEF Subjects, ActiveRows
  <1>3. CASE Tick
    <2>1. Pending(nid)' \subseteq Pending(nid)
      BY <1>2, <1>3 DEF Tick, Pending
    <2> QED BY <1>1, <1>2, <2>1, QuietBound DEF BoundInv
  <1>4. CASE Crash
    <2>1. Pending(nid)' \subseteq Pending(nid)
      BY <1>4 DEF Crash, Pending, Past, Idle
    <2> QED BY <1>1, <1>2, <2>1, QuietBound DEF BoundInv
  <1> QED BY <1>3, <1>4 DEF Background

\* A revocation frees its NID and leaves the others alone.
LEMMA RevokeBound ==
    ASSUME CoreInv, BoundInv, NEW n \in Nids, NEW at \in 1..clock, Revoke(n, at)
    PROVE  BoundInv'
PROOF
  <1>0. at # NULL
    BY DEF NULL, CoreInv, TypeOK
  <1>1. /\ rows' = {IF r \in ActiveRows(n) THEN [r EXCEPT !.revoked = at] ELSE r : r \in rows}
        /\ req' = req /\ faults' = faults /\ faults \in Nat
    BY DEF Revoke, CoreInv, TypeOK
  <1>2. rows \subseteq Row
    BY DEF CoreInv, TypeOK
  <1> SUFFICES ASSUME NEW nid \in Nids PROVE BoundOf(nid)'
    BY DEF BoundInv
  <1>3. CASE nid = n
    <2>1. ActiveRows(nid)' = {}
      BY <1>0, <1>1, <1>2, <1>3 DEF ActiveRows, Row, NULL
    <2>2. Subjects(nid)' = {}
      BY <2>1 DEF Subjects
    <2> QED BY <2>2, FS_EmptySet DEF BoundOf
  <1>4. CASE nid # n
    <2>1. ActiveRows(nid)' = ActiveRows(nid)
      BY <1>1, <1>2, <1>4 DEF ActiveRows, Row
    <2>2. Subjects(nid)' = Subjects(nid)
      BY <2>1 DEF Subjects
    <2>3. Pending(nid)' \subseteq Pending(nid)
      BY <1>1, <2>2 DEF Pending
    <2> QED BY <1>1, <2>2, <2>3, QuietBound DEF BoundInv
  <1> QED BY <1>3, <1>4

LEMMA NextBound == CoreInv /\ BoundInv /\ [Next]_vars => BoundInv'
PROOF
  <1> SUFFICES ASSUME CoreInv, BoundInv, Next \/ UNCHANGED vars PROVE BoundInv'
    OBVIOUS
  <1>1. CASE UNCHANGED vars
    <2> SUFFICES ASSUME NEW nid \in Nids PROVE BoundOf(nid)'
      BY DEF BoundInv
    <2>1. Subjects(nid)' = Subjects(nid)
      BY <1>1 DEF vars, Subjects, ActiveRows
    <2>2. Pending(nid)' \subseteq Pending(nid)
      BY <1>1, <2>1 DEF vars, Pending
    <2> QED BY <1>1, <2>1, <2>2, QuietBound DEF BoundInv, vars, CoreInv, TypeOK
  <1>2. CASE Background
    BY <1>2, BackgroundBound
  <1>3. ASSUME NEW h \in Handlers, AcceptRequest(h) \/ Serve(h) PROVE BoundInv'
    BY <1>3, AcceptBound, ServeBound
  <1>4. ASSUME NEW n \in Nids, NEW at \in 1..clock, Revoke(n, at) PROVE BoundInv'
    BY <1>4, RevokeBound
  <1> QED BY <1>1, <1>2, <1>3, <1>4 DEF Next, Work

LEMMA InitBound == Init => BoundInv
PROOF
  <1> SUFFICES ASSUME Init, NEW nid \in Nids PROVE BoundOf(nid)
    BY DEF BoundInv
  <1>1. Subjects(nid) = {}
    BY DEF Init, Subjects, ActiveRows
  <1> QED BY <1>1, FS_EmptySet DEF BoundOf

LEMMA BoundSuffices == CoreInv /\ BoundInv => SubjectsBounded
PROOF
  <1> SUFFICES ASSUME CoreInv, BoundInv, NEW nid \in Nids
               PROVE  Cardinality(Subjects(nid)) <= Cardinality(Handlers) + FailedOpen
    BY DEF SubjectsBounded
  <1>1. Cardinality(Pending(nid)) \in Nat /\ FailedOpen \in Nat
    BY PendingFinite, FailedOpenType DEF CoreInv, TypeOK
  <1>2. CASE Subjects(nid) = {}
    BY <1>1, <1>2, FS_EmptySet, HandlersFinite
  <1>3. CASE Subjects(nid) # {}
    <2>1. Cardinality(Subjects(nid)) \in Nat
      BY FS_CardinalityType DEF BoundInv, BoundOf
    <2>2. Cardinality(Subjects(nid)) + Cardinality(Pending(nid))
            <= Cardinality(Handlers) + FailedOpen
      BY <1>3 DEF BoundInv, BoundOf
    <2> QED BY <1>1, <2>1, <2>2, HandlersFinite
  <1> QED BY <1>2, <1>3

\* However many registrations race for one NID (get_active, then insert), it is
\* bound to at most one subject per handler and per error read as an empty table.
THEOREM SubjectsStayBounded == Spec => []SubjectsBounded
PROOF
  <1>1. CoreInv /\ BoundInv /\ [Next]_vars => BoundInv'
    BY NextBound
  <1> QED BY <1>1, InitBound, BoundSuffices, CoreInvariant, PTL DEF Spec

-----------------------------------------------------------------------------
(* What renewals that race can add *)

\* The active rows of a NID that a renewal would be refused for and that expire
\* after y, and the handlers that may add one although there is one: those that
\* have decided, and those that are going to decide on an expiry up to y.  The
\* count is that of SubjectsBounded, for every y at once: the y a handler needs
\* when it decides is the expiry it has read at its lookup.
Decided == {"serial", "sign", "insert"}
Outside(nid, e, y) ==
    {r \in ActiveRows(nid) : r.entity = e /\ TooEarly(r) /\ r.expires > y}
Renewing(nid, e, y) ==
    {h \in Handlers : /\ req[h].nid = nid /\ req[h].entity = e
                      /\ \/ req[h].phase \in Decided
                         \/ req[h].phase = "window" /\ req[h].expires <= y}

WindowOf(nid, e, y) ==
    /\ IsFiniteSet(Outside(nid, e, y))
    /\ Outside(nid, e, y) # {} =>
         Cardinality(Outside(nid, e, y)) + Cardinality(Renewing(nid, e, y))
            <= Cardinality(Handlers) + FailedOpen

WindowInv == RowsExpire /\ \A nid \in Nids, e \in Entities, y \in Nat : WindowOf(nid, e, y)

LEMMA RenewingFinite ==
    ASSUME NEW nid, NEW e, NEW y
    PROVE  /\ IsFiniteSet(Renewing(nid, e, y)) /\ Cardinality(Renewing(nid, e, y)) \in Nat
           /\ Cardinality(Renewing(nid, e, y)) <= Cardinality(Handlers)
PROOF
  <1>1. Renewing(nid, e, y) \in SUBSET Handlers
    BY DEF Renewing
  <1> QED BY <1>1, FS_Subset, FS_CardinalityType, ConstantsAssumption

\* No row goes out of its window, and at most as many handlers are admitted as
\* errors are read as an empty table.
LEMMA AdmitWindow ==
    ASSUME NEW nid, NEW e, NEW y, WindowOf(nid, e, y), NEW h,
           Outside(nid, e, y)' \subseteq Outside(nid, e, y),
           \/ Renewing(nid, e, y)' \subseteq Renewing(nid, e, y) /\ FailedOpen <= FailedOpen'
           \/ Renewing(nid, e, y)' \subseteq Renewing(nid, e, y) \cup {h}
              /\ FailedOpen' = FailedOpen + 1,
           FailedOpen \in Nat, FailedOpen' \in Nat
    PROVE  WindowOf(nid, e, y)'
PROOF
  <1>1. PICK S : S = Outside(nid, e, y)
    OBVIOUS
  <1>2. PICK S1 : S1 = Outside(nid, e, y)'
    OBVIOUS
  <1>3. PICK P : P = Renewing(nid, e, y)
    OBVIOUS
  <1>4. PICK P1 : P1 = Renewing(nid, e, y)'
    OBVIOUS
  <1>5. IsFiniteSet(P) /\ Cardinality(P) \in Nat
    BY <1>3, RenewingFinite
  <1>6. IsFiniteSet(S) /\ S1 \in SUBSET S
    BY <1>1, <1>2 DEF WindowOf
  <1>7. IsFiniteSet(S1) /\ Cardinality(S1) <= Cardinality(S)
        /\ Cardinality(S) \in Nat /\ Cardinality(S1) \in Nat
    BY <1>6, FS_Subset, FS_CardinalityType
  <1>8. S # {} => Cardinality(S) + Cardinality(P) <= Cardinality(Handlers) + FailedOpen
    BY <1>1, <1>3 DEF WindowOf
  <1>9. Cardinality(P1) \in Nat
        /\ Cardinality(P1) + FailedOpen <= Cardinality(P) + FailedOpen'
    <2>1. CASE P1 \subseteq P /\ FailedOpen <= FailedOpen'
      <3>1. Cardinality(P1) \in Nat /\ Cardinality(P1) <= Cardinality(P)
        BY <1>5, <2>1, FS_Subset, FS_CardinalityType
      <3> QED BY <1>5, <2>1, <3>1
    <2>2. CASE P1 \subseteq P \cup {h} /\ FailedOpen' = FailedOpen + 1
      <3>1. IsFiniteSet(P \cup {h}) /\ Cardinality(P \cup {h}) <= Cardinality(P) + 1
            /\ Cardinality(P \cup {h}) \in Nat
        <4>1. /\ IsFiniteSet(P \cup {h})
              /\ \/ Cardinality(P \cup {h}) = Cardinality(P)
                 \/ Cardinality(P \cup {h}) = Cardinality(P) + 1
          BY <1>5, FS_AddElement
        <4> QED BY <1>5, <4>1
      <3>2. Cardinality(P1) \in Nat /\ Cardinality(P1) <= Cardinality(P) + 1
        BY <1>5, <2>2, <3>1, FS_Subset, FS_CardinalityType
      <3> QED BY <1>5, <2>2, <3>2
    <2> QED BY <1>3, <1>4, <2>1, <2>2
  <1>10. S1 # {} => Cardinality(S1) + Cardinality(P1) <= Cardinality(Handlers) + FailedOpen'
    BY <1>5, <1>6, <1>7, <1>8, <1>9, HandlersFinite
  <1> QED BY <1>2, <1>4, <1>7, <1>10 DEF WindowOf

LEMMA EmptyWindow ==
    ASSUME NEW nid, NEW e, NEW y, Outside(nid, e, y)' = {}
    PROVE  WindowOf(nid, e, y)'
PROOF BY FS_EmptySet DEF WindowOf

\* A handler that adds a row can add no other one.
LEMMA InsertWindow ==
    ASSUME NEW nid, NEW e, NEW y, WindowOf(nid, e, y), NEW h \in Renewing(nid, e, y), NEW c,
           Outside(nid, e, y)' \subseteq Outside(nid, e, y) \cup {c},
           Renewing(nid, e, y)' \subseteq Renewing(nid, e, y) \ {h},
           FailedOpen' = FailedOpen, FailedOpen \in Nat
    PROVE  WindowOf(nid, e, y)'
PROOF
  <1>1. PICK S : S = Outside(nid, e, y)
    OBVIOUS
  <1>2. PICK S1 : S1 = Outside(nid, e, y)'
    OBVIOUS
  <1>3. PICK P : P = Renewing(nid, e, y)
    OBVIOUS
  <1>4. PICK P1 : P1 = Renewing(nid, e, y)'
    OBVIOUS
  <1>5. IsFiniteSet(P) /\ Cardinality(P) \in Nat /\ Cardinality(P) <= Cardinality(Handlers)
    BY <1>3, RenewingFinite
  <1>6. IsFiniteSet(P \ {h}) /\ Cardinality(P \ {h}) = Cardinality(P) - 1
    BY <1>3, <1>5, FS_RemoveElement
  <1>7. Cardinality(P1) + 1 <= Cardinality(P) /\ Cardinality(P1) \in Nat
    BY <1>3, <1>4, <1>5, <1>6, FS_Subset, FS_CardinalityType
  <1>8. IsFiniteSet(S) /\ Cardinality(S) \in Nat /\ (S = {} => Cardinality(S) = 0)
    BY <1>1, FS_CardinalityType, FS_EmptySet DEF WindowOf
  <1>9. IsFiniteSet(S \cup {c}) /\ Cardinality(S \cup {c}) <= Cardinality(S) + 1
        /\ Cardinality(S \cup {c}) \in Nat
    BY <1>8, FS_AddElement, FS_CardinalityType
  <1>10. IsFiniteSet(S1) /\ Cardinality(S1) \in Nat /\ Cardinality(S1) <= Cardinality(S) + 1
    BY <1>1, <1>2, <1>8, <1>9, FS_Subset, FS_CardinalityType
  <1>11. S # {} => Cardinality(S) + Cardinality(P) <= Cardinality(Handlers) + FailedOpen
    BY <1>1, <1>3 DEF WindowOf
  <1>12. Cardinality(S1) + Cardinality(P1) <= Cardinality(Handlers) + FailedOpen'
    BY <1>5, <1>7, <1>8, <1>10, <1>11, HandlersFinite
  <1> QED BY <1>2, <1>4, <1>10, <1>12 DEF WindowOf

\* A step that leaves the table and the clock alone.
LEMMA SameTable ==
    ASSUME rows' = rows, clock' = clock, NEW nid, NEW e, NEW y
    PROVE  Outside(nid, e, y)' = Outside(nid, e, y)
PROOF
  <1>1. ActiveRows(nid)' = ActiveRows(nid)
    BY DEF ActiveRows
  <1> QED BY <1>1 DEF Outside, TooEarly

\* After such a step of h no handler may renew that could not before.
LEMMA QuietWindow ==
    ASSUME CoreInv, WindowInv, NEW h \in Handlers, rows' = rows, clock' = clock,
           faults' \in Nat, faults <= faults',
           \A g \in Handlers \ {h} : req'[g] = req[g],
           \A nid \in Nids, e \in Entities, y \in Nat :
              h \in Renewing(nid, e, y)' => h \in Renewing(nid, e, y) \/ Outside(nid, e, y) = {}
    PROVE  WindowInv'
PROOF
  <1>1. RowsExpire'
    BY DEF WindowInv, RowsExpire
  <1>2. FailedOpen \in Nat /\ FailedOpen' \in Nat /\ FailedOpen <= FailedOpen'
    BY FailedOpenGrows DEF CoreInv, TypeOK
  <1> SUFFICES ASSUME NEW nid \in Nids, NEW e \in Entities, NEW y \in Nat
                 PROVE  WindowOf(nid, e, y)'
    BY <1>1 DEF WindowInv
  <1>3. Outside(nid, e, y)' = Outside(nid, e, y)
    BY SameTable
  <1>4. CASE Outside(nid, e, y) = {}
    BY <1>3, <1>4, EmptyWindow
  <1>5. CASE Outside(nid, e, y) # {}
    <2>1. \A g \in Handlers \ {h} : g \in Renewing(nid, e, y)' => g \in Renewing(nid, e, y)
      BY DEF Renewing
    <2>2. h \in Renewing(nid, e, y)' => h \in Renewing(nid, e, y)
      BY <1>5
    <2>3. \A g \in Renewing(nid, e, y)' : g \in Handlers
      BY DEF Renewing
    <2>4. Renewing(nid, e, y)' \subseteq Renewing(nid, e, y)
      BY <2>1, <2>2, <2>3
    <2> QED BY <1>2, <1>3, <2>4, AdmitWindow DEF WindowInv
  <1> QED BY <1>4, <1>5

\* In particular when h is idle, or at its lookup or its answer, after the step,
\* or had decided before.
LEMMA HandlerWindow ==
    ASSUME CoreInv, WindowInv, NEW h \in Handlers, rows' = rows, clock' = clock,
           faults' \in Nat, faults <= faults',
           \A g \in Handlers \ {h} : req'[g] = req[g],
           \/ req'[h].phase \notin Decided \cup {"window"}
           \/ /\ req[h].phase \in Decided
              /\ req'[h].nid = req[h].nid /\ req'[h].entity = req[h].entity
    PROVE  WindowInv'
PROOF
  <1>1. \A nid \in Nids, e \in Entities, y \in Nat :
            h \in Renewing(nid, e, y)' => h \in Renewing(nid, e, y)
    BY DEF Renewing
  <1> QED BY <1>1, QuietWindow

LEMMA DropWindow ==
    ASSUME CoreInv, WindowInv, NEW h \in Handlers, rows' = rows, clock' = clock,
           faults' \in Nat, faults <= faults', Drop(h)
    PROVE  WindowInv'
PROOF
  <1>1. req'[h].phase \notin Decided \cup {"window"} /\ \A g \in Handlers \ {h} : req'[g] = req[g]
    BY DEF Drop, Idle, Decided, CoreInv, TypeOK
  <1> QED BY <1>1, HandlerWindow

\* get_active admits a registration when there is no active row; a renewal reads
\* the expiry of the most recent row: no other of its type expires later.
LEMMA LookupWindow ==
    ASSUME CoreInv, WindowInv, NEW h \in Handlers, LookupRegister(h) \/ LookupRenew(h)
    PROVE  WindowInv'
PROOF
  <1>0. faults' = faults /\ faults \in Nat /\ rows' = rows /\ clock' = clock
    BY DEF LookupRegister, LookupRenew, CoreInv, TypeOK
  <1>1. CASE Drop(h)
    BY <1>0, <1>1, DropWindow
  <1>2. CASE Goto(h, "serial") /\ ~Active(req[h].nid)
    <2>1. /\ \A g \in Handlers \ {h} : req'[g] = req[g]
          /\ req'[h].nid = req[h].nid
      BY <1>2 DEF Goto, CoreInv, TypeOK, Request
    <2>2. \A nid \in Nids, e \in Entities, y \in Nat :
              h \in Renewing(nid, e, y)' => Outside(nid, e, y) = {}
      BY <1>2, <2>1 DEF Renewing, Outside, Active
    <2> QED BY <1>0, <2>1, <2>2, QuietWindow
  <1>3. ASSUME NEW r \in MostRecent(req[h].nid),
               req' = [req EXCEPT ![h].phase = "window", ![h].entity = r.entity,
                                  ![h].key = r.key, ![h].expires = r.expires]
        PROVE  WindowInv'
    <2>1. /\ \A g \in Handlers \ {h} : req'[g] = req[g]
          /\ req'[h].nid = req[h].nid /\ req'[h].entity = r.entity
          /\ req'[h].phase = "window" /\ req'[h].expires = r.expires
      BY <1>3 DEF CoreInv, TypeOK, Request
    <2>2. ASSUME NEW y \in Nat, r.expires <= y, NEW o \in Outside(req[h].nid, r.entity, y)
          PROVE  FALSE
      <3>1. o \in ActiveRows(req[h].nid) /\ o.entity = r.entity /\ o.expires > y
        BY <2>2 DEF Outside
      <3>2. o \in rows /\ r \in rows /\ o.issued <= r.issued
        BY <1>3, <3>1 DEF MostRecent, ActiveRows
      <3>3. o.expires <= r.expires
        BY <3>1, <3>2, LaterExpiresLater DEF WindowInv
      <3>4. o.expires \in Nat /\ r.expires \in Nat
        BY <3>2 DEF CoreInv, TypeOK, Row
      <3> QED BY <2>2, <3>1, <3>3, <3>4
    <2>3. \A nid \in Nids, e \in Entities, y \in Nat :
              h \in Renewing(nid, e, y)' => Outside(nid, e, y) = {}
      <3> SUFFICES ASSUME NEW nid \in Nids, NEW e \in Entities, NEW y \in Nat,
                          h \in Renewing(nid, e, y)'
                   PROVE  Outside(nid, e, y) = {}
        OBVIOUS
      <3>1. nid = req[h].nid /\ e = r.entity /\ r.expires <= y
        BY <2>1 DEF Renewing, Decided
      <3> QED BY <2>2, <3>1
    <2> QED BY <1>0, <2>1, <2>3, QuietWindow
  <1> QED BY <1>1, <1>2, <1>3 DEF LookupRegister, LookupRenew

\* A handler decides to renew when the row it has read is in its window.  Then
\* a row outside expires after that one; and for such rows the handler counted
\* as renewing already.
LEMMA CheckWindowWindow ==
    ASSUME CoreInv, WindowInv, NEW h \in Handlers, CheckWindow(h)
    PROVE  WindowInv'
PROOF
  <1>0. /\ faults' = faults /\ faults \in Nat /\ rows' = rows /\ clock' = clock
        /\ req[h].phase = "window"
    BY DEF CheckWindow, CoreInv, TypeOK
  <1>1. CASE Drop(h)
    BY <1>0, <1>1, DropWindow
  <1>2. CASE ~TooEarly(req[h]) /\ req' = [req EXCEPT ![h].phase = "serial", ![h].expires = 0]
    <2>1. /\ \A g \in Handlers \ {h} : req'[g] = req[g]
          /\ req'[h].nid = req[h].nid /\ req'[h].entity = req[h].entity
      BY <1>2 DEF CoreInv, TypeOK, Request
    <2>2. RowsExpire'
      BY <1>0 DEF WindowInv, RowsExpire
    <2>3. PICK x \in Nat : x = req[h].expires
      BY DEF CoreInv, TypeOK, Request
    <2>4. FailedOpen' = FailedOpen /\ FailedOpen \in Nat
      BY <1>0 DEF FailedOpen
    <2>5. \A g \in Handlers : req[g].phase = "window" => req[g].expires \in Nat
      BY DEF CoreInv, TypeOK, Request
    <2> SUFFICES ASSUME NEW nid \in Nids, NEW e \in Entities, NEW y \in Nat
                 PROVE  WindowOf(nid, e, y)'
      BY <2>2 DEF WindowInv
    <2>6. Outside(nid, e, y)' = Outside(nid, e, y)
      BY <1>0, SameTable
    <2>7. CASE x <= y \/ nid # req[h].nid \/ e # req[h].entity
      <3>1. h \in Renewing(nid, e, y)' => h \in Renewing(nid, e, y)
        BY <1>0, <2>1, <2>3, <2>7 DEF Renewing
      <3>2. \A g \in Handlers \ {h} : g \in Renewing(nid, e, y)' => g \in Renewing(nid, e, y)
        BY <2>1 DEF Renewing
      <3>3. Renewing(nid, e, y)' \subseteq Renewing(nid, e, y)
        BY <3>1, <3>2 DEF Renewing
      <3> QED BY <2>4, <2>6, <3>3, AdmitWindow DEF WindowInv
    <2>8. CASE y < x /\ nid = req[h].nid /\ e = req[h].entity
      <3>1. Outside(nid, e, y) \subseteq Outside(nid, e, x)
        <4> SUFFICES ASSUME NEW o \in Outside(nid, e, y) PROVE o.expires > x
          BY DEF Outside
        <4>1. TooEarly(o) /\ o.expires \in Nat /\ clock \in Nat
          BY DEF Outside, ActiveRows, CoreInv, TypeOK, Row
        <4> QED BY <1>2, <2>3, <4>1, DaysLeft DEF TooEarly
      <3>2. Renewing(nid, e, y)' \subseteq Renewing(nid, e, x)
        <4>1. h \in Renewing(nid, e, x)
          BY <1>0, <2>3, <2>8 DEF Renewing
        <4>2. \A g \in Handlers \ {h} : g \in Renewing(nid, e, y)' => g \in Renewing(nid, e, x)
          BY <2>1, <2>5, <2>8 DEF Renewing
        <4> QED BY <4>1, <4>2 DEF Renewing
      <3>3. PICK S : S = Outside(nid, e, x)
        OBVIOUS
      <3>4. PICK S1 : S1 = Outside(nid, e, y)'
        OBVIOUS
      <3>5. PICK P : P = Renewing(nid, e, x)
        OBVIOUS
      <3>6. PICK P1 : P1 = Renewing(nid, e, y)'
        OBVIOUS
      <3>7. /\ IsFiniteSet(S)
            /\ S # {} => Cardinality(S) + Cardinality(P) <= Cardinality(Handlers) + FailedOpen
        BY <3>3, <3>5 DEF WindowInv, WindowOf
      <3>8. IsFiniteSet(P) /\ Cardinality(P) \in Nat
        BY <3>5, RenewingFinite
      <3>9. S1 \in SUBSET S /\ P1 \in SUBSET P
        BY <2>6, <3>1, <3>2, <3>3, <3>4, <3>5, <3>6
      <3>10. IsFiniteSet(S1) /\ Cardinality(S1) \in Nat /\ Cardinality(S1) <= Cardinality(S)
             /\ Cardinality(S) \in Nat
        BY <3>7, <3>9, FS_Subset, FS_CardinalityType
      <3>11. Cardinality(P1) \in Nat /\ Cardinality(P1) <= Cardinality(P)
        BY <3>8, <3>9, FS_Subset, FS_CardinalityType
      <3>12. S1 # {} =>
                Cardinality(S1) + Cardinality(P1) <= Cardinality(Handlers) + FailedOpen'
        BY <2>4, <3>7, <3>8, <3>9, <3>10, <3>11, HandlersFinite
      <3> QED BY <3>4, <3>6, <3>10, <3>12 DEF WindowOf
    <2> QED BY <2>3, <2>7, <2>8
  <1> QED BY <1>1, <1>2 DEF CheckWindow

LEMMA LookupFailsWindow ==
    ASSUME CoreInv, WindowInv, NEW h \in Handlers, LookupFails(h)
    PROVE  WindowInv'
PROOF
  <1>0. rows' = rows /\ clock' = clock /\ faults' = faults + 1 /\ faults \in Nat
    BY DEF LookupFails, FaultDrops, LookupErrorAsAbsent, Fault, CoreInv, TypeOK
  <1>1. CASE Drop(h)
    BY <1>0, <1>1, DropWindow
  <1>2. CASE QueryErrors = "absent" /\ Goto(h, "serial")
    <2>1. /\ \A g \in Handlers \ {h} : req'[g] = req[g]
          /\ FailedOpen' = FailedOpen + 1 /\ FailedOpen \in Nat
      BY <1>0, <1>2 DEF Goto, CoreInv, TypeOK, FailedOpen
    <2>2. RowsExpire'
      BY <1>0 DEF WindowInv, RowsExpire
    <2> SUFFICES ASSUME NEW nid \in Nids, NEW e \in Entities, NEW y \in Nat
                 PROVE  WindowOf(nid, e, y)'
      BY <2>2 DEF WindowInv
    <2>3. Outside(nid, e, y)' = Outside(nid, e, y)
      BY <1>0, SameTable
    <2>4. Renewing(nid, e, y)' \subseteq Renewing(nid, e, y) \cup {h}
      BY <2>1 DEF Renewing
    <2>5. FailedOpen' \in Nat /\ WindowOf(nid, e, y)
      BY <2>1 DEF WindowInv
    <2> QED BY <2>1, <2>3, <2>4, <2>5, AdmitWindow
  <1> QED BY <1>1, <1>2 DEF LookupFails, FaultDrops, LookupErrorAsAbsent

\* Steps between lookup and insert, refusals, failures and answers.
LEMMA EndsWindow ==
    ASSUME CoreInv, WindowInv, NEW h \in Handlers,
           \/ TakeSerial(h) \/ Sign(h)
           \/ FaultDrops(h, "serial")
           \/ SignRejects(h) \/ LevelRejected(h) \/ Respond(h)
           \/ InsertErrorRaised(h) \/ InsertErrorDiscarded(h)
    PROVE  WindowInv'
PROOF
  <1>1. rows' = rows /\ clock' = clock /\ faults' \in Nat /\ faults <= faults'
    BY DEF TakeSerial, Sign, FaultDrops, SignRejects, LevelRejected, Respond,
           InsertErrorRaised, InsertErrorDiscarded, InsertFails, Fault, NoFault,
           CoreInv, TypeOK
  <1>2. CASE Drop(h)
    BY <1>1, <1>2, DropWindow
  <1>3. CASE InsertErrorDiscarded(h)
    <2>1. req'[h].phase \notin Decided \cup {"window"} /\ \A g \in Handlers \ {h} : req'[g] = req[g]
      BY <1>3 DEF InsertErrorDiscarded, Goto, Decided, CoreInv, TypeOK, Request
    <2> QED BY <1>1, <2>1, HandlerWindow
  <1>4. CASE TakeSerial(h) \/ Sign(h)
    <2>1. /\ \A g \in Handlers \ {h} : req'[g] = req[g]
          /\ req[h].phase \in Decided
          /\ req'[h].nid = req[h].nid /\ req'[h].entity = req[h].entity
      BY <1>4 DEF TakeSerial, Sign, Decided, CoreInv, TypeOK, Request
    <2> QED BY <1>1, <2>1, HandlerWindow
  <1> QED BY <1>2, <1>3, <1>4
       DEF FaultDrops, SignRejects, LevelRejected, Respond, InsertErrorRaised

LEMMA StoredWindow ==
    ASSUME CoreInv, WindowInv, NEW h \in Handlers, Insert(h)
    PROVE  WindowInv'
PROOF
  <1> DEFINE c == Certificate(req[h])
  <1>1. /\ rows' = rows \cup {c} /\ clock' = clock /\ faults' = faults
        /\ \A g \in Handlers \ {h} : req'[g] = req[g]
        /\ req[h].phase = "insert" /\ req'[h].phase = "answer"
    BY DEF Insert, Goto, CoreInv, TypeOK, Request
  <1>2. /\ c.nid = req[h].nid /\ c.entity = req[h].entity
        /\ c.expires = c.issued + ValidityDays(c.entity) * DaySeconds
    BY DEF Certificate
  <1> HIDE DEF c
  <1>3. RowsExpire'
    BY <1>1, <1>2 DEF WindowInv, RowsExpire
  <1>4. FailedOpen' = FailedOpen /\ FailedOpen \in Nat
    BY <1>1 DEF FailedOpen, CoreInv, TypeOK
  <1> SUFFICES ASSUME NEW nid \in Nids, NEW e \in Entities, NEW y \in Nat
                 PROVE  WindowOf(nid, e, y)'
    BY <1>3 DEF WindowInv
  <1>5. Renewing(nid, e, y)' \subseteq Renewing(nid, e, y) \ {h}
    BY <1>1 DEF Renewing, Decided
  <1>6. Outside(nid, e, y)' \subseteq Outside(nid, e, y) \cup {c}
    BY <1>1 DEF Outside, ActiveRows, TooEarly
  <1>7. CASE nid = c.nid /\ e = c.entity
    <2>1. h \in Renewing(nid, e, y)
      BY <1>1, <1>2, <1>7 DEF Renewing, Decided
    <2> QED BY <1>4, <1>5, <1>6, <2>1, InsertWindow DEF WindowInv
  <1>8. CASE ~(nid = c.nid /\ e = c.entity)
    <2>1. Outside(nid, e, y)' \subseteq Outside(nid, e, y)
      BY <1>6, <1>8 DEF Outside, ActiveRows
    <2>2. FailedOpen <= FailedOpen' /\ FailedOpen' \in Nat
      BY <1>4
    <2> QED BY <1>4, <1>5, <2>1, <2>2, AdmitWindow DEF WindowInv
  <1> QED BY <1>7, <1>8

LEMMA ServeWindow ==
    ASSUME CoreInv, WindowInv, NEW h \in Handlers, AcceptRequest(h) \/ Serve(h)
    PROVE  WindowInv'
PROOF
  <1>1. CASE AcceptRequest(h)
    <2>1. /\ rows' = rows /\ clock' = clock /\ faults' = faults /\ faults \in Nat
          /\ \A g \in Handlers \ {h} : req'[g] = req[g]
          /\ req'[h].phase \notin Decided \cup {"window"}
      BY <1>1 DEF AcceptRequest, AcceptRenew, AcceptRegister, Accept, Decided, CoreInv, TypeOK
    <2> QED BY <2>1, HandlerWindow
  <1>2. CASE DbGetActive(h)
    BY <1>2, LookupWindow, LookupFailsWindow DEF DbGetActive
  <1>3. CASE Issue(h)
    BY <1>3, EndsWindow, StoredWindow DEF Issue, DbNextSerial, DbInsert
  <1>4. CASE SignRejects(h) \/ LevelRejected(h)
    BY <1>4, EndsWindow
  <1>5. CASE CheckWindow(h)
    BY <1>5, CheckWindowWindow
  <1> QED BY <1>1, <1>2, <1>3, <1>4, <1>5 DEF Serve, Register, RegisterX509, Renew

\* The clock brings windows nearer, a crash ends the renewals.
LEMMA BackgroundWindow ==
    ASSUME CoreInv, WindowInv, Background
    PROVE  WindowInv'
PROOF
  <1>1. /\ rows' = rows /\ faults \in Nat /\ faults' \in Nat /\ faults <= faults'
        /\ clock \in Nat /\ clock' \in Nat /\ clock <= clock'
    BY DEF Background, Tick, Crash, Fault, CoreInv, TypeOK
  <1>2. RowsExpire'
    BY <1>1 DEF WindowInv, RowsExpire
  <1>3. FailedOpen \in Nat /\ FailedOpen' \in Nat /\ FailedOpen <= FailedOpen'
    BY <1>1, FailedOpenGrows
  <1> SUFFICES ASSUME NEW nid \in Nids, NEW e \in Entities, NEW y \in Nat
                 PROVE  WindowOf(nid, e, y)'
    BY <1>2 DEF WindowInv
  <1>4. Renewing(nid, e, y)' \subseteq Renewing(nid, e, y)
    BY DEF Background, Tick, Crash, Renewing, Decided, Idle
  <1>5. Outside(nid, e, y)' \subseteq Outside(nid, e, y)
    <2> SUFFICES ASSUME NEW r \in Outside(nid, e, y)' PROVE r \in Outside(nid, e, y)
      OBVIOUS
    <2>1. r \in ActiveRows(nid) /\ r.entity = e
          /\ (r.expires - clock') \div DaySeconds > RenewalDays /\ r.expires > y
      BY <1>1 DEF Outside, ActiveRows, TooEarly
    <2>2. r.expires \in Nat
      BY <2>1 DEF ActiveRows, CoreInv, TypeOK, Row
    <2>3. TooEarly(r)
      BY <1>1, <2>1, <2>2, DaysLeft DEF TooEarly
    <2> QED BY <2>1, <2>3 DEF Outside
  <1> QED BY <1>3, <1>4, <1>5, AdmitWindow DEF WindowInv

LEMMA RevokeWindow ==
    ASSUME CoreInv, WindowInv, NEW n \in Nids, NEW at \in 1..clock, Revoke(n, at)
    PROVE  WindowInv'
PROOF
  <1>0. at # NULL /\ rows \subseteq Row /\ faults \in Nat
    BY DEF NULL, CoreInv, TypeOK
  <1>1. /\ rows' = {IF r \in ActiveRows(n) THEN [r EXCEPT !.revoked = at] ELSE r : r \in rows}
        /\ req' = req /\ faults' = faults /\ clock' = clock
    BY DEF Revoke
  <1>2. \A r1 \in rows' : \E r \in rows :
           /\ r1.issued = r.issued /\ r1.expires = r.expires /\ r1.entity = r.entity
           /\ r1.revoked = NULL => r1 = r
    BY <1>0, <1>1 DEF Row
  <1>3. RowsExpire'
    BY <1>2 DEF WindowInv, RowsExpire
  <1>4. FailedOpen \in Nat /\ FailedOpen' \in Nat /\ FailedOpen <= FailedOpen'
    BY <1>0, <1>1, FailedOpenGrows
  <1> SUFFICES ASSUME NEW nid \in Nids, NEW e \in Entities, NEW y \in Nat
                 PROVE  WindowOf(nid, e, y)'
    BY <1>3 DEF WindowInv
  <1>5. Renewing(nid, e, y)' \subseteq Renewing(nid, e, y)
    BY <1>1 DEF Renewing
  <1>6. Outside(nid, e, y)' \subseteq Outside(nid, e, y)
    BY <1>1, <1>2 DEF Outside, ActiveRows, TooEarly
  <1> QED BY <1>4, <1>5, <1>6, AdmitWindow DEF WindowInv

LEMMA NextWindow == CoreInv /\ WindowInv /\ [Next]_vars => WindowInv'
PROOF
  <1> SUFFICES ASSUME CoreInv, WindowInv, Next \/ UNCHANGED vars PROVE WindowInv'
    OBVIOUS
  <1>1. CASE UNCHANGED vars
    <2>1. rows' = rows /\ clock' = clock /\ req' = req /\ faults' = faults /\ faults \in Nat
      BY <1>1 DEF vars, CoreInv, TypeOK
    <2>2. RowsExpire' /\ FailedOpen' = FailedOpen /\ FailedOpen \in Nat
      BY <2>1 DEF WindowInv, RowsExpire, FailedOpen
    <2> SUFFICES ASSUME NEW nid \in Nids, NEW e \in Entities, NEW y \in Nat
                 PROVE  WindowOf(nid, e, y)'
      BY <2>2 DEF WindowInv
    <2>3. Outside(nid, e, y)' = Outside(nid, e, y) /\ Renewing(nid, e, y)' = Renewing(nid, e, y)
      BY <2>1, SameTable DEF Renewing
    <2> QED BY <2>2, <2>3, AdmitWindow DEF WindowInv
  <1>2. CASE Background
    BY <1>2, BackgroundWindow
  <1>3. ASSUME NEW h \in Handlers, AcceptRequest(h) \/ Serve(h) PROVE WindowInv'
    BY <1>3, ServeWindow
  <1>4. ASSUME NEW n \in Nids, NEW at \in 1..clock, Revoke(n, at) PROVE WindowInv'
    BY <1>4, RevokeWindow
  <1> QED BY <1>1, <1>2, <1>3, <1>4 DEF Next, Work

LEMMA InitWindow == Init => WindowInv
PROOF
  <1> SUFFICES ASSUME Init PROVE WindowInv
    OBVIOUS
  <1>1. RowsExpire /\ \A nid, e, y : Outside(nid, e, y) = {}
    BY DEF Init, RowsExpire, Outside, ActiveRows
  <1> QED BY <1>1, FS_EmptySet DEF WindowInv, WindowOf

\* A row outside its window has not expired.
LEMMA OutsideExpires ==
    ASSUME CoreInv, NEW r \in rows, TooEarly(r)
    PROVE  r.expires > 0
PROOF
  <1>1. clock \in Nat /\ r.expires \in Nat
    BY DEF CoreInv, TypeOK, Row
  <1>2. PICK d \in Nat \ {0}, n \in Nat : d = DaySeconds /\ n = RenewalDays
    BY ConstantsAssumption
  <1>3. ~((clock - clock) \div d > n)
    <2>1. clock - clock = 0
      BY <1>1
    <2>2. 0 \div d = 0
      BY <1>2
    <2> QED BY <1>2, <2>1, <2>2
  <1>4. r.expires <= clock => ~TooEarly(r)
    BY <1>1, <1>2, <1>3, DaysLeft DEF TooEarly
  <1> QED BY <1>1, <1>4

LEMMA WindowSuffices == CoreInv /\ WindowInv => OutsideWindowBounded
PROOF
  <1> SUFFICES ASSUME CoreInv, WindowInv, NEW nid \in Nids, NEW e \in Entities
               PROVE  Cardinality({r \in ActiveRows(nid) : r.entity = e /\ TooEarly(r)})
                          <= Cardinality(Handlers) + FailedOpen
    BY DEF OutsideWindowBounded
  <1>0. {r \in ActiveRows(nid) : r.entity = e /\ TooEarly(r)} = Outside(nid, e, 0)
    BY OutsideExpires DEF Outside, ActiveRows
  <1>1. Cardinality(Renewing(nid, e, 0)) \in Nat /\ FailedOpen \in Nat
    BY RenewingFinite, FailedOpenType DEF CoreInv, TypeOK
  <1>5. WindowOf(nid, e, 0)
    BY DEF WindowInv
  <1>2. IsFiniteSet(Outside(nid, e, 0)) /\ Cardinality(Outside(nid, e, 0)) \in Nat
    BY <1>5, FS_CardinalityType DEF WindowOf
  <1>3. CASE Outside(nid, e, 0) = {}
    BY <1>0, <1>1, <1>3, FS_EmptySet, HandlersFinite
  <1>4. CASE Outside(nid, e, 0) # {}
    <2>1. Cardinality(Outside(nid, e, 0)) + Cardinality(Renewing(nid, e, 0))
            <= Cardinality(Handlers) + FailedOpen
      BY <1>4, <1>5 DEF WindowOf
    <2> QED BY <1>0, <1>1, <1>2, <2>1, HandlersFinite
  <1> QED BY <1>3, <1>4

\* However many renewals of one NID race (get_active and the window, then
\* insert), they add at most one certificate outside the window per handler and
\* per error read as an empty table.
THEOREM RenewalsStayBounded == Spec => []OutsideWindowBounded
PROOF
  <1>1. CoreInv /\ WindowInv /\ [Next]_vars => WindowInv'
    BY NextWindow
  <1> QED BY <1>1, InitWindow, WindowSuffices, CoreInvariant, PTL DEF Spec

-----------------------------------------------------------------------------
(* What an error of insert can lose *)

\* The handlers about to deliver a certificate that is not in the table.
Losing == {h \in Handlers : req[h].phase = "answer" /\ req[h].serial \notin StoredSerials}

LostInv ==
    /\ IsFiniteSet(Lost)
    /\ Cardinality(Lost) + Cardinality(Losing) <= faults

LEMMA LosingFinite == IsFiniteSet(Losing) /\ Cardinality(Losing) \in Nat
PROOF
  <1>1. Losing \in SUBSET Handlers
    BY DEF Losing
  <1> QED BY <1>1, FS_Subset, FS_CardinalityType, ConstantsAssumption

\* Nothing further is lost, or the one loss is paid for.
LEMMA LossPaid ==
    ASSUME LostInv, faults \in Nat, faults' \in Nat, NEW d \in {0, 1},
           Lost' \subseteq Lost, faults' >= faults + d,
           NEW h, Losing' \subseteq IF d = 0 THEN Losing ELSE Losing \cup {h}
    PROVE  LostInv'
PROOF
  <1>1. PICK L : L = Lost
    OBVIOUS
  <1>2. PICK L1 : L1 = Lost'
    OBVIOUS
  <1>3. PICK P : P = Losing
    OBVIOUS
  <1>4. PICK P1 : P1 = Losing'
    OBVIOUS
  <1>5. IsFiniteSet(L) /\ Cardinality(L) + Cardinality(P) <= faults
    BY <1>1, <1>3 DEF LostInv
  <1>6. IsFiniteSet(P) /\ Cardinality(P) \in Nat /\ Cardinality(L) \in Nat
    BY <1>3, <1>5, LosingFinite, FS_CardinalityType
  <1>7. IsFiniteSet(L1) /\ Cardinality(L1) <= Cardinality(L) /\ Cardinality(L1) \in Nat
    BY <1>1, <1>2, <1>5, FS_Subset, FS_CardinalityType
  <1>8. IsFiniteSet(P \cup {h}) /\ Cardinality(P \cup {h}) <= Cardinality(P) + 1
        /\ Cardinality(P \cup {h}) \in Nat
    BY <1>6, FS_AddElement, FS_CardinalityType
  <1>9. Cardinality(P1) <= Cardinality(P) + d /\ Cardinality(P1) \in Nat
    <2>1. CASE d = 0
      BY <1>3, <1>4, <1>6, <2>1, FS_Subset, FS_CardinalityType
    <2>2. CASE d = 1
      <3>1. P1 \subseteq P \cup {h}
        BY <1>3, <1>4, <2>2
      <3> QED BY <1>6, <1>8, <2>2, <3>1, FS_Subset, FS_CardinalityType
    <2> QED BY <2>1, <2>2
  <1>10. Cardinality(L1) + Cardinality(P1) <= faults'
    BY <1>5, <1>6, <1>7, <1>9
  <1> QED BY <1>2, <1>4, <1>7, <1>10 DEF LostInv

\* Every serial stays in the table, and a handler that begins to answer has
\* stored its certificate, has found its serial taken, or has met an error.
LEMMA LostStep ==
    ASSUME CoreInv, LostInv, NEW h \in Handlers, DbInsert(h)
    PROVE  LostInv'
PROOF
  <1>1. /\ delivered' = delivered /\ StoredSerials \subseteq StoredSerials'
        /\ \A g \in Handlers \ {h} : req'[g] = req[g]
        /\ faults \in Nat /\ faults' \in Nat /\ faults' >= faults
    BY DEF DbInsert, Insert, InsertErrorRaised, InsertErrorDiscarded, InsertFails, Fault,
           NoFault, Goto, Drop, StoredSerials, CoreInv, TypeOK
  <1>2. Lost' \subseteq Lost
    BY <1>1 DEF Lost
  <1>3. CASE req'[h].serial \in StoredSerials' \/ req'[h].phase # "answer"
    <2>1. Losing' \subseteq Losing
      BY <1>1, <1>3 DEF Losing
    <2> QED BY <1>1, <1>2, <2>1, LossPaid
  <1>4. CASE faults' = faults + 1
    <2>1. Losing' \subseteq Losing \cup {h}
      BY <1>1 DEF Losing
    <2> QED BY <1>1, <1>2, <1>4, <2>1, LossPaid
  <1>5. CASE Insert(h)
    <2>1. req'[h].serial = Certificate(req[h]).serial /\ Certificate(req[h]) \in rows'
      BY <1>5 DEF Insert, Goto, Certificate, CoreInv, TypeOK, Request
    <2> QED BY <1>3, <2>1 DEF StoredSerials
  <1>6. CASE InsertErrorRaised(h)
    BY <1>3, <1>6 DEF InsertErrorRaised, Drop, Idle, CoreInv, TypeOK
  <1>7. CASE InsertErrorDiscarded(h) /\ req[h].serial \in StoredSerials
    <2>1. req'[h].serial = req[h].serial
      BY <1>7 DEF InsertErrorDiscarded, Goto, CoreInv, TypeOK, Request
    <2> QED BY <1>1, <1>3, <1>7, <2>1
  <1>8. CASE InsertErrorDiscarded(h) /\ req[h].serial \notin StoredSerials
    BY <1>4, <1>8 DEF InsertErrorDiscarded, InsertFails, Fault, CoreInv, TypeOK
  <1> QED BY <1>5, <1>6, <1>7, <1>8 DEF DbInsert

\* The answer turns a losing handler into a lost certificate.
LEMMA RespondLost ==
    ASSUME CoreInv, LostInv, NEW h \in Handlers, Respond(h)
    PROVE  LostInv'
PROOF
  <1>1. /\ rows' = rows /\ StoredSerials' = StoredSerials
        /\ delivered' = delivered \cup {Certificate(req[h])}
        /\ \A g \in Handlers \ {h} : req'[g] = req[g]
        /\ req'[h].phase # "answer" /\ req[h].phase = "answer"
        /\ faults \in Nat /\ faults' = faults
    BY DEF Respond, Drop, Idle, StoredSerials, CoreInv, TypeOK
  <1>2. CASE req[h].serial \in StoredSerials
    <2>1. Certificate(req[h]) \notin Lost' /\ Lost' \subseteq Lost \cup {Certificate(req[h])}
      BY <1>1, <1>2 DEF Lost, Certificate
    <2>2. Losing' \subseteq Losing
      BY <1>1 DEF Losing
    <2> QED BY <1>1, <2>1, <2>2, LossPaid
  <1>3. CASE req[h].serial \notin StoredSerials
    <2>1. PICK c : c = Certificate(req[h])
      OBVIOUS
    <2>2. PICK L : L = Lost
      OBVIOUS
    <2>3. PICK L1 : L1 = Lost'
      OBVIOUS
    <2>4. PICK P : P = Losing
      OBVIOUS
    <2>5. PICK P1 : P1 = Losing'
      OBVIOUS
    <2>6. L1 \subseteq L \cup {c}
      BY <1>1, <2>1, <2>2, <2>3 DEF Lost
    <2>7. h \in P /\ P1 \subseteq P \ {h}
      BY <1>1, <1>3, <2>4, <2>5 DEF Losing
    <2>8. /\ IsFiniteSet(L) /\ Cardinality(L) \in Nat
          /\ IsFiniteSet(P) /\ Cardinality(P) \in Nat
          /\ Cardinality(L) + Cardinality(P) <= faults
      <3>1. IsFiniteSet(L) /\ Cardinality(L) + Cardinality(P) <= faults
        BY <2>2, <2>4 DEF LostInv
      <3>2. IsFiniteSet(P) /\ Cardinality(P) \in Nat
        BY <2>4, LosingFinite
      <3> QED BY <3>1, <3>2, FS_CardinalityType
    <2>9. IsFiniteSet(L \cup {c}) /\ Cardinality(L \cup {c}) <= Cardinality(L) + 1
          /\ Cardinality(L \cup {c}) \in Nat
      <3>1. IsFiniteSet(L) /\ Cardinality(L) \in Nat
        BY <2>8
      <3>2. /\ IsFiniteSet(L \cup {c})
            /\ Cardinality(L \cup {c}) = Cardinality(L) \/ Cardinality(L \cup {c}) = Cardinality(L) + 1
        BY <3>1, FS_AddElement
      <3> QED BY <3>1, <3>2
    <2>10. IsFiniteSet(L1) /\ Cardinality(L1) <= Cardinality(L) + 1 /\ Cardinality(L1) \in Nat
      BY <2>6, <2>8, <2>9, FS_Subset, FS_CardinalityType
    <2>11. IsFiniteSet(P \ {h}) /\ Cardinality(P \ {h}) = Cardinality(P) - 1
      BY <2>7, <2>8, FS_RemoveElement
    <2>12. Cardinality(P1) <= Cardinality(P) - 1 /\ Cardinality(P1) \in Nat
      BY <2>7, <2>8, <2>11, FS_Subset, FS_CardinalityType
    <2>13. Cardinality(L1) + Cardinality(P1) <= faults'
      BY <1>1, <2>8, <2>10, <2>12
    <2> QED BY <2>3, <2>5, <2>10, <2>13 DEF LostInv
  <1> QED BY <1>2, <1>3

\* Every other step stores, delivers and answers nothing.
LEMMA NothingLost ==
    ASSUME CoreInv, LostInv, StoredSerials' = StoredSerials, delivered' = delivered,
           faults' \in Nat, faults' >= faults,
           \A g \in Handlers : req'[g] = req[g] \/ req'[g].phase # "answer"
    PROVE  LostInv'
PROOF
  <1>1. Lost' \subseteq Lost /\ Losing' \subseteq Losing
    BY DEF Lost, Losing
  <1> QED BY <1>1, LossPaid DEF CoreInv, TypeOK

LEMMA ServeLost ==
    ASSUME CoreInv, LostInv, NEW h \in Handlers, Serve(h)
    PROVE  LostInv'
PROOF
  <1>1. CASE DbInsert(h)
    BY <1>1, LostStep
  <1>2. CASE Respond(h)
    BY <1>2, RespondLost
  <1>3. CASE DbGetActive(h)
    <2>1. /\ rows' = rows /\ delivered' = delivered /\ faults' \in Nat /\ faults' >= faults
      <3>1. faults \in Nat /\ (Fault => faults' \in Nat /\ faults' >= faults)
        BY DEF Fault, CoreInv, TypeOK
      <3>2. CASE LookupRegister(h) \/ LookupRenew(h)
        <4>1. UNCHANGED <<rows, clock, delivered, accepted, faults>>
          BY <3>2, Zenon DEF LookupRegister, LookupRenew
        <4> QED BY <3>1, <4>1
      <3>3. CASE LookupFails(h)
        BY <3>1, <3>3 DEF LookupFails, FaultDrops, LookupErrorAsAbsent
      <3> QED BY <1>3, <3>2, <3>3 DEF DbGetActive
    <2>2. ASSUME Drop(h) \/ Goto(h, "serial"), NEW g \in Handlers
          PROVE  req'[g] = req[g] \/ req'[g].phase # "answer"
      BY <2>2 DEF Drop, Goto, Idle, CoreInv, TypeOK, Request
    <2>3. ASSUME NEW r, NEW g \in Handlers,
                 req' = [req EXCEPT ![h].phase = "window", ![h].entity = r.entity,
                                    ![h].key = r.key, ![h].expires = r.expires]
          PROVE  req'[g] = req[g] \/ req'[g].phase # "answer"
      BY <2>3 DEF CoreInv, TypeOK, Request
    <2>4. \A g \in Handlers : req'[g] = req[g] \/ req'[g].phase # "answer"
      BY <1>3, <2>2, <2>3 DEF DbGetActive, LookupRegister, LookupRenew, LookupFails,
                              FaultDrops, LookupErrorAsAbsent
    <2> QED BY <2>1, <2>4, NothingLost DEF StoredSerials
  <1>4. CASE DbNextSerial(h) \/ Sign(h) \/ SignRejects(h) \/ LevelRejected(h)
    <2>1. /\ rows' = rows /\ delivered' = delivered /\ faults' \in Nat /\ faults' >= faults
          /\ \A g \in Handlers : req'[g] = req[g] \/ req'[g].phase # "answer"
      BY <1>4 DEF DbNextSerial, TakeSerial, Sign, SignRejects, LevelRejected, FaultDrops,
                  Fault, Drop, Idle, CoreInv, TypeOK, Request
    <2> QED BY <2>1, NothingLost DEF StoredSerials
  <1>5. CASE CheckWindow(h)
    <2>1. /\ rows' = rows /\ delivered' = delivered /\ faults' \in Nat /\ faults' >= faults
          /\ \A g \in Handlers : req'[g] = req[g] \/ req'[g].phase # "answer"
      BY <1>5 DEF CheckWindow, Drop, Idle, CoreInv, TypeOK, Request
    <2> QED BY <2>1, NothingLost DEF StoredSerials
  <1> QED BY <1>1, <1>2, <1>3, <1>4, <1>5 DEF Serve, Register, RegisterX509, Renew, Issue

LEMMA NextLost == CoreInv /\ LostInv /\ [Next]_vars => LostInv'
PROOF
  <1> SUFFICES ASSUME CoreInv, LostInv, Next \/ UNCHANGED vars PROVE LostInv'
    OBVIOUS
  <1>1. ASSUME NEW h \in Handlers, Serve(h) PROVE LostInv'
    BY <1>1, ServeLost
  <1>2. ASSUME NEW h \in Handlers, AcceptRequest(h) PROVE LostInv'
    <2>1. /\ rows' = rows /\ delivered' = delivered /\ faults' = faults
          /\ \A g \in Handlers : req'[g] = req[g] \/ req'[g].phase # "answer"
      BY <1>2 DEF AcceptRequest, AcceptRenew, AcceptRegister, Accept, CoreInv, TypeOK
    <2> QED BY <2>1, NothingLost DEF StoredSerials, CoreInv, TypeOK
  <1>3. CASE Background \/ UNCHANGED vars
    <2>1. /\ rows' = rows /\ delivered' = delivered /\ faults' \in Nat /\ faults' >= faults
          /\ \A g \in Handlers : req'[g] = req[g] \/ req'[g].phase # "answer"
      BY <1>3 DEF Background, Tick, Crash, Fault, Idle, vars, CoreInv, TypeOK
    <2> QED BY <2>1, NothingLost DEF StoredSerials
  <1>4. ASSUME NEW n \in Nids, NEW at \in 1..clock, Revoke(n, at) PROVE LostInv'
    <2>1. /\ rows' = {IF r \in ActiveRows(n) THEN [r EXCEPT !.revoked = at] ELSE r : r \in rows}
          /\ delivered' = delivered /\ faults' = faults /\ req' = req
      BY <1>4 DEF Revoke
    <2>2. \A r \in rows : [r EXCEPT !.revoked = at].serial = r.serial
      BY DEF CoreInv, TypeOK, Row
    <2>3. \A r \in rows : \E q \in rows' : q.serial = r.serial
      BY <2>1, <2>2
    <2>4. \A q \in rows' : \E r \in rows : q.serial = r.serial
      BY <2>1, <2>2
    <2>5. StoredSerials' = StoredSerials
      BY <2>3, <2>4 DEF StoredSerials
    <2> QED BY <2>1, <2>5, NothingLost DEF CoreInv, TypeOK
  <1> QED BY <1>1, <1>2, <1>3, <1>4 DEF Next, Work

\* A database error loses at most one certificate, where insert's error is
\* discarded (Rust, Go) as where it is raised.
THEOREM LossesStayPaid == Spec => []LostOnlyByFault
PROOF
  <1>1. Init => LostInv
    <2>1. ASSUME Init PROVE Lost = {} /\ Losing = {} /\ faults = 0
      BY <2>1 DEF Init, Lost, Losing, Idle
    <2> QED BY <2>1, FS_EmptySet DEF LostInv
  <1>2. CoreInv /\ LostInv /\ [Next]_vars => LostInv'
    BY NextLost
  <1>3. CoreInv /\ LostInv => LostOnlyByFault
    <2> SUFFICES ASSUME CoreInv, LostInv PROVE LostOnlyByFault
      OBVIOUS
    <2>1. Cardinality(Lost) \in Nat /\ Cardinality(Losing) \in Nat /\ faults \in Nat
      BY FS_CardinalityType, LosingFinite DEF LostInv, CoreInv, TypeOK
    <2> QED BY <2>1 DEF LostInv, LostOnlyByFault
  <1> QED BY <1>1, <1>2, <1>3, CoreInvariant, PTL DEF Spec

=============================================================================
