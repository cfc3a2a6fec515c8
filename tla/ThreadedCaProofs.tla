--------------------------- MODULE ThreadedCaProofs ---------------------------
(***************************************************************************)
(* The theorems about the threaded ports, for every policy unless a        *)
(* theorem names one.  An error changes no row, so the table keeps its     *)
(* invariant whatever is made of the error; what the policies change is    *)
(* what the clients are told.                                              *)
(***************************************************************************)
EXTENDS ThreadedCa, CaServerProofs

LEMMA LookupFailsStep ==
    ASSUME CoreInv, NEW h \in Handlers, LookupFails(h)
    PROVE  CoreInv'
PROOF
  <1>1. CASE FaultDrops(h, "lookup")
    BY <1>1, FaultStep
  <1>2. CASE LookupErrorAsAbsent(h)
    <2>1. rows' = rows /\ delivered' \subseteq Row /\ clock' = clock
          /\ accepted' \in Nat /\ faults' \in Nat
      BY <1>2, ConstantsAssumption DEF LookupErrorAsAbsent, Fault, CoreInv, TypeOK
    <2>2. CASE req[h].op \in RegisterOps
      BY <1>2, <2>1, <2>2, GotoStep DEF LookupErrorAsAbsent, Phases
    <2>3. CASE req[h].op \notin RegisterOps
      BY <1>2, <2>1, <2>3, DropStep DEF LookupErrorAsAbsent
    <2> QED BY <2>2, <2>3
  <1> QED BY <1>1, <1>2 DEF LookupFails

LEMMA ServePreservesCore ==
    ASSUME CoreInv, NEW h \in Handlers, Serve(h)
    PROVE  CoreInv'
PROOF
  <1>1. CASE DbGetActive(h)
    BY <1>1, LookupStep, LookupFailsStep DEF DbGetActive
  <1>2. CASE Issue(h)
    BY <1>2, TakeSerialStep, FaultStep, SignStep, InsertOutcomeStep, RespondStep
       DEF Issue, DbNextSerial, DbInsert
  <1>3. CASE SignRejects(h)
    BY <1>3, SignStep
  <1>4. CASE LevelRejected(h)
    BY <1>4, DropStep DEF LevelRejected, CoreInv, TypeOK
  <1>5. CASE CheckWindow(h)
    BY <1>5, WindowStep
  <1> QED BY <1>1, <1>2, <1>3, <1>4, <1>5 DEF Serve, Register, RegisterX509, Renew

LEMMA DatesArePositive == CoreInv => 1..clock \subseteq Nat \ {0}
PROOF BY DEF CoreInv, TypeOK

LEMMA NextPreservesCore == CoreInv /\ [Next]_vars => CoreInv'
PROOF
  <1> SUFFICES ASSUME CoreInv, Next \/ UNCHANGED vars PROVE CoreInv'
    OBVIOUS
  <1>1. ASSUME NEW h \in Handlers, AcceptRequest(h) PROVE CoreInv'
    BY <1>1, AcceptStep DEF AcceptRequest
  <1>2. ASSUME NEW h \in Handlers, Serve(h) PROVE CoreInv'
    BY <1>2, ServePreservesCore
  <1>3. ASSUME NEW nid \in Nids, NEW at \in 1..clock, Revoke(nid, at) PROVE CoreInv'
    BY <1>3, RevokeStep, DatesArePositive
  <1> QED BY <1>1, <1>2, <1>3, BackgroundStep, UnchangedStep DEF Next, Work

\* Types, unique names and serials, and what a request under way knows of the
\* table, hold in every port that runs its handlers in threads.
THEOREM CoreInvariant == Spec => []CoreInv
PROOF
  <1>1. Init => CoreInv
    BY InitInv
  <1>2. CoreInv /\ [Next]_vars => CoreInv'
    BY NextPreservesCore
  <1> QED BY <1>1, <1>2, PTL DEF Spec

\* Types, for any number of handlers, NIDs, keys, requests and faults.
THEOREM TypeCorrect == Spec => []TypeOK
PROOF BY CoreInvariant, PTL DEF CoreInv

\* The table holds the serials 1..k for a k of at most ten (next_serial).
THEOREM SerialsStayDense == Spec => []SerialsDense
PROOF BY CoreInvariant, PTL DEF CoreInv

\* A revocation leaves no older row of the NID active (revoke).
THEOREM RevocationStaysTotal == Spec => []RevocationTotal
PROOF BY CoreInvariant, PTL DEF CoreInv

\* next_serial returns a serial no row has until the tenth certificate is
\* stored, and from then on one that a row has.
THEOREM SerialsFreshUntilTen == Spec => []FreshUntilTen
PROOF BY CoreInvariant, FreshOnDense, PTL

\* However many handlers, requests and clients there are, the authority never
\* stores more than ten certificates (next_serial, UNIQUE, insert).
THEOREM TenAtMost == Spec => [](IsFiniteSet(rows) /\ Cardinality(rows) <= 10)
PROOF BY CoreInvariant, TenRows, PTL

-----------------------------------------------------------------------------
(* A request comes to its end *)

\* The steps a request has before it at most.
StepsLeft(q) ==
    CASE q.phase = "lookup" -> 6
      [] q.phase = "window" -> 5
      [] q.phase = "serial" -> 4
      [] q.phase = "sign"   -> 3
      [] q.phase = "insert" -> 2
      [] q.phase = "answer" -> 1
      [] OTHER              -> 0

\* Every step of its handler brings a request nearer to its answer, and no step
\* of another handler, of the clock or of a client throws it back: a request is
\* answered after at most six steps of its own.
Advances ==
    [][\A h \in Handlers :
          /\ Serve(h) => StepsLeft(req'[h]) < StepsLeft(req[h])
          /\ req[h].phase # "idle" => StepsLeft(req'[h]) <= StepsLeft(req[h])]_vars

\* A step of its handler is all that happens to a request then.
LEMMA ServeShape ==
    ASSUME CoreInv, NEW h \in Handlers, Serve(h)
    PROVE  /\ \A g \in Handlers \ {h} : req'[g] = req[g]
           /\ StepsLeft(req'[h]) < StepsLeft(req[h])
PROOF
  <1> DEFINE Shape ==
               /\ \A g \in Handlers \ {h} : req'[g] = req[g]
               /\ StepsLeft(req'[h]) < StepsLeft(req[h])
  <1>0. req \in [Handlers -> Request]
    BY DEF CoreInv, TypeOK
  <1>1. ASSUME NEW p \in Phases, Goto(h, p)
        PROVE  /\ \A g \in Handlers \ {h} : req'[g] = req[g]
               /\ req'[h].phase = p
    BY <1>0, <1>1 DEF Goto, Request
  <1>2. ASSUME Drop(h), req[h].phase \in Phases \ {"idle"} PROVE Shape
    <2>1. req'[h] = Idle /\ \A g \in Handlers \ {h} : req'[g] = req[g]
      BY <1>0, <1>2 DEF Drop
    <2> QED BY <1>2, <2>1 DEF Idle, StepsLeft, Phases
  <1>3. CASE LookupRegister(h)
    <2>1. CASE Drop(h)
      BY <1>2, <1>3, <2>1 DEF LookupRegister, Phases
    <2>2. CASE Goto(h, "serial")
      BY <1>1, <1>3, <2>2 DEF LookupRegister, Phases, StepsLeft, RegisterOps
    <2> QED BY <1>3, <2>1, <2>2 DEF LookupRegister
  <1>4. CASE LookupRenew(h)
    <2>1. CASE Drop(h)
      BY <1>2, <1>4, <2>1 DEF LookupRenew, Phases
    <2>2. ASSUME NEW r, req' = [req EXCEPT ![h].phase = "window", ![h].entity = r.entity,
                                           ![h].key = r.key, ![h].expires = r.expires]
          PROVE  Shape
      <3>1. req[h].phase = "lookup"
        BY <1>4 DEF LookupRenew
      <3>2. req'[h].phase = "window" /\ \A g \in Handlers \ {h} : req'[g] = req[g]
        BY <1>0, <2>2 DEF Request
      <3> QED BY <1>4, <3>1, <3>2 DEF StepsLeft
    <2> QED BY <1>4, <2>1, <2>2 DEF LookupRenew
  <1>5. CASE LookupFails(h)
    <2>1. CASE Drop(h)
      BY <1>2, <1>5, <2>1 DEF LookupFails, FaultDrops, LookupErrorAsAbsent, Phases
    <2>2. CASE Goto(h, "serial") /\ req[h].op \in RegisterOps /\ req[h].phase = "lookup"
      BY <1>1, <2>2 DEF Phases, StepsLeft, RegisterOps
    <2> QED BY <1>5, <2>1, <2>2 DEF LookupFails, FaultDrops, LookupErrorAsAbsent
  <1>6. CASE DbNextSerial(h)
    <2>1. CASE TakeSerial(h)
      BY <1>0, <2>1 DEF TakeSerial, StepsLeft, Request
    <2>2. CASE FaultDrops(h, "serial")
      BY <1>2, <2>2 DEF FaultDrops, Phases
    <2> QED BY <1>6, <2>1, <2>2 DEF DbNextSerial
  <1>7. CASE Sign(h)
    BY <1>0, <1>7 DEF Sign, StepsLeft, Request
  <1>8. CASE DbInsert(h)
    <2>1. req[h].phase = "insert"
      BY <1>8 DEF DbInsert, Insert, InsertErrorRaised, InsertErrorDiscarded, InsertFails
    <2>2. CASE Goto(h, "answer")
      BY <1>1, <2>1, <2>2 DEF Phases, StepsLeft
    <2>3. CASE Drop(h)
      BY <1>2, <2>1, <2>3 DEF Phases
    <2> QED BY <1>8, <2>2, <2>3 DEF DbInsert, Insert, InsertErrorRaised, InsertErrorDiscarded
  <1>9. CASE Respond(h) \/ LevelRejected(h) \/ SignRejects(h)
    BY <1>2, <1>9 DEF Respond, LevelRejected, SignRejects, Phases
  <1>10. CASE CheckWindow(h)
    <2>1. req[h].phase = "window"
      BY <1>10 DEF CheckWindow
    <2>2. CASE Drop(h)
      BY <1>2, <2>1, <2>2 DEF Phases
    <2>3. CASE req' = [req EXCEPT ![h].phase = "serial", ![h].expires = 0]
      <3>1. req'[h].phase = "serial" /\ \A g \in Handlers \ {h} : req'[g] = req[g]
        BY <1>0, <2>3 DEF Request
      <3> QED BY <2>1, <3>1 DEF StepsLeft
    <2> QED BY <1>10, <2>2, <2>3 DEF CheckWindow
  <1> QED BY <1>3, <1>4, <1>5, <1>6, <1>7, <1>8, <1>9, <1>10
          DEF Serve, Register, RegisterX509, Renew, DbGetActive, Issue

\* A request is taken up by a handler that serves none.
LEMMA AcceptShape ==
    ASSUME CoreInv, NEW h \in Handlers, AcceptRequest(h)
    PROVE  /\ \A g \in Handlers \ {h} : req'[g] = req[g]
           /\ req[h].phase = "idle" /\ req'[h].phase = "lookup"
PROOF BY DEF AcceptRequest, AcceptRenew, AcceptRegister, Accept, CoreInv, TypeOK

\* A request is answered after at most six steps of its handler, and nobody
\* else can make them more: with fair scheduling every request ends.
THEOREM RequestsAdvance == Spec => Advances
PROOF
  <1>1. CoreInv /\ [Next]_vars =>
          [\A h \in Handlers :
              /\ Serve(h) => StepsLeft(req'[h]) < StepsLeft(req[h])
              /\ req[h].phase # "idle" => StepsLeft(req'[h]) <= StepsLeft(req[h])]_vars
    <2> SUFFICES ASSUME CoreInv, Next, NEW h \in Handlers
                 PROVE  /\ Serve(h) => StepsLeft(req'[h]) < StepsLeft(req[h])
                        /\ req[h].phase # "idle" => StepsLeft(req'[h]) <= StepsLeft(req[h])
      OBVIOUS
    <2>0. StepsLeft(req[h]) \in 0..6 /\ StepsLeft(req'[h]) \in 0..6 /\ StepsLeft(Idle) = 0
      BY DEF StepsLeft, Idle
    <2>1. ASSUME NEW g \in Handlers, AcceptRequest(g), req[h].phase # "idle"
          PROVE  StepsLeft(req'[h]) <= StepsLeft(req[h])
      <3>1. req'[h] = req[h]
        BY <2>1, AcceptShape
      <3> QED BY <2>0, <3>1
    <2>2. ASSUME NEW g \in Handlers, Serve(g)
          PROVE  StepsLeft(req'[h]) <= StepsLeft(req[h])
      <3>1. CASE g = h
        BY <2>0, <2>2, <3>1, ServeShape
      <3>2. CASE g # h
        <4>1. req'[h] = req[h]
          BY <2>2, <3>2, ServeShape
        <4> QED BY <2>0, <4>1
      <3> QED BY <3>1, <3>2
    <2>3. ASSUME Background PROVE StepsLeft(req'[h]) <= StepsLeft(req[h])
      <3>1. req'[h] = req[h] \/ req'[h] = Idle
        BY <2>3 DEF Background, Tick, Crash
      <3> QED BY <2>0, <3>1
    <2>4. ASSUME NEW nid \in Nids, NEW at \in 1..clock, Revoke(nid, at)
          PROVE  StepsLeft(req'[h]) <= StepsLeft(req[h])
      BY <2>0, <2>4 DEF Revoke
    <2>5. Serve(h) => StepsLeft(req'[h]) < StepsLeft(req[h])
      BY ServeShape
    <2> QED BY <2>1, <2>2, <2>3, <2>4, <2>5 DEF Next, Work
  <1> QED BY <1>1, CoreInvariant, PTL DEF Spec, Advances

-----------------------------------------------------------------------------
(* Certificates in the hands of clients, where errors of insert are raised *)

LEMMA ServePreservesRecorded ==
    ASSUME InsertErrors = "raised", CoreInv, RecordedInv, NEW h \in Handlers, Serve(h)
    PROVE  RecordedInv'
PROOF
  <1>1. ASSUME Drop(h), rows' = rows, delivered' = delivered PROVE RecordedInv'
    BY <1>1, QuietStep DEF Drop, Idle, CoreInv, TypeOK
  <1>2. ASSUME NEW p \in Phases \ {"answer"}, Goto(h, p), rows' = rows, delivered' = delivered
        PROVE  RecordedInv'
    BY <1>2, QuietStep DEF Goto, CoreInv, TypeOK, Request
  <1>3. CASE LookupRegister(h)
    BY <1>1, <1>2, <1>3 DEF LookupRegister, Phases
  <1>4. CASE LookupRenew(h)
    <2>1. rows' = rows /\ delivered' = delivered
      BY <1>4 DEF LookupRenew
    <2>2. CASE Drop(h)
      BY <1>1, <2>1, <2>2
    <2>3. ASSUME NEW r \in MostRecent(req[h].nid),
                 req' = [req EXCEPT ![h].phase = "window", ![h].entity = r.entity,
                                    ![h].key = r.key, ![h].expires = r.expires]
          PROVE  RecordedInv'
      BY <2>1, <2>3, QuietStep DEF CoreInv, TypeOK, Request
    <2> QED BY <1>4, <2>2, <2>3 DEF LookupRenew
  <1>5. CASE LookupFails(h)
    BY <1>1, <1>2, <1>5 DEF LookupFails, FaultDrops, LookupErrorAsAbsent, Phases
  <1>6. CASE DbNextSerial(h)
    <2>1. CASE TakeSerial(h)
      BY <2>1, QuietStep DEF TakeSerial, CoreInv, TypeOK, Request
    <2>2. CASE FaultDrops(h, "serial")
      BY <1>1, <2>2 DEF FaultDrops
    <2> QED BY <1>6, <2>1, <2>2 DEF DbNextSerial
  <1>7. CASE Sign(h)
    BY <1>7, QuietStep DEF Sign, CoreInv, TypeOK, Request
  <1>8. CASE DbInsert(h)
    <2>1. CASE Insert(h)
      BY <2>1, InsertRecords DEF Insert, Goto, CoreInv, TypeOK
    <2>2. CASE InsertErrorRaised(h)
      BY <1>1, <2>2 DEF InsertErrorRaised, InsertFails
    <2> QED BY <1>8, <2>1, <2>2 DEF DbInsert
  <1>9. CASE Respond(h)
    BY <1>9, RespondRecords
  <1>10. CASE LevelRejected(h) \/ SignRejects(h)
    BY <1>1, <1>10 DEF LevelRejected, SignRejects
  <1>11. CASE CheckWindow(h)
    <2>1. rows' = rows /\ delivered' = delivered
      BY <1>11 DEF CheckWindow
    <2>2. CASE Drop(h)
      BY <1>1, <2>1, <2>2
    <2>3. CASE req' = [req EXCEPT ![h].phase = "serial", ![h].expires = 0]
      BY <2>1, <2>3, QuietStep DEF CoreInv, TypeOK, Request
    <2> QED BY <1>11, <2>2, <2>3 DEF CheckWindow
  <1> QED BY <1>3, <1>4, <1>5, <1>6, <1>7, <1>8, <1>9, <1>10, <1>11
          DEF Serve, Register, RegisterX509, Renew, DbGetActive, Issue

LEMMA NextPreservesRecorded ==
    ASSUME InsertErrors = "raised", CoreInv, RecordedInv, [Next]_vars
    PROVE  RecordedInv'
PROOF
  <1>1. ASSUME NEW h \in Handlers, AcceptRequest(h) PROVE RecordedInv'
    BY <1>1, QuietStep DEF AcceptRequest, AcceptRenew, AcceptRegister, Accept, CoreInv, TypeOK
  <1>2. ASSUME NEW h \in Handlers, Serve(h) PROVE RecordedInv'
    BY <1>2, ServePreservesRecorded
  <1>3. CASE UNCHANGED vars
    BY <1>3, QuietStep DEF vars
  <1> QED BY <1>1, <1>2, <1>3, BackgroundRecords, RevokeRecords DEF Next, Work

LEMMA RecordedInvariant ==
    ASSUME InsertErrors = "raised"
    PROVE  Spec => [](CoreInv /\ RecordedInv)
PROOF
  <1>1. Init => RecordedInv
    BY DEF Init, RecordedInv, DeliveredRecorded, AnswerRecorded, Idle
  <1>2. CoreInv /\ RecordedInv /\ [Next]_vars => RecordedInv'
    BY NextPreservesRecorded
  <1> QED BY <1>1, <1>2, CoreInvariant, PTL DEF Spec

\* Where an error of insert is answered with 500 (Python, Java), a client never
\* holds a certificate that is not in the table.
THEOREM DeliveredStaysRecorded ==
    ASSUME InsertErrors = "raised"
    PROVE  Spec => []DeliveredRecorded
PROOF
  <1>1. CoreInv /\ RecordedInv => DeliveredRecorded
    BY DEF RecordedInv
  <1> QED BY <1>1, RecordedInvariant, PTL

\* There no two clients hold different certificates under one serial.
THEOREM DeliveredStaysUnique ==
    ASSUME InsertErrors = "raised"
    PROVE  Spec => []DeliveredSerialsUnique
PROOF BY RecordedInvariant, RecordedUnique, PTL

-----------------------------------------------------------------------------
(* The refinement: the table is a ledger *)

\* insert grants the certificate of the request.
LEMMA InsertGrants ==
    ASSUME CoreInv, NEW h \in Handlers, Insert(h)
    PROVE  Life!Next
PROOF
  <1>1. PICK c : c = Certificate(req[h])
    OBVIOUS
  <1>2. rows' = rows \cup {c} /\ c.serial \notin StoredSerials /\ c.revoked = NULL
    BY <1>1 DEF Insert, Certificate
  <1> QED BY <1>2, RowIsGrant

LEMMA ServeKeepsLedger ==
    ASSUME CoreInv, NEW h \in Handlers, Serve(h)
    PROVE  rows' = rows \/ Insert(h)
PROOF
  <1>1. DbGetActive(h) => rows' = rows
    BY DEF DbGetActive, LookupRegister, LookupRenew, LookupFails, FaultDrops, LookupErrorAsAbsent
  <1>2. Issue(h) => rows' = rows \/ Insert(h)
    BY DEF Issue, DbNextSerial, TakeSerial, FaultDrops, Sign, DbInsert, InsertErrorRaised,
           InsertErrorDiscarded, InsertFails, Respond
  <1>3. LevelRejected(h) \/ SignRejects(h) \/ CheckWindow(h) => rows' = rows
    BY DEF LevelRejected, SignRejects, CheckWindow
  <1> QED BY <1>1, <1>2, <1>3 DEF Serve, Register, RegisterX509, Renew

\* Every threaded port keeps the ledger: insert grants, revoke takes all the
\* certificates of a NID, and no other step touches a certificate.
THEOREM LedgerIsKept == Spec => KeepsLedger
PROOF
  <1>1. Init => Life!Init
    BY DEF Init, Life!Init
  <1>2. CoreInv /\ [Next]_vars => [Life!Next]_(Life!vars)
    <2> SUFFICES ASSUME CoreInv, [Next]_vars PROVE Life!Next \/ UNCHANGED Life!vars
      OBVIOUS
    <2>1. ASSUME NEW h \in Handlers, AcceptRequest(h) PROVE rows' = rows
      BY <2>1 DEF AcceptRequest, AcceptRenew, AcceptRegister, Accept
    <2>2. ASSUME NEW h \in Handlers, Serve(h) PROVE rows' = rows \/ Life!Next
      BY <2>2, ServeKeepsLedger, InsertGrants
    <2>3. Background \/ UNCHANGED vars => rows' = rows
      BY DEF Background, Tick, Crash, vars
    <2>4. ASSUME NEW nid \in Nids, NEW at \in 1..clock, Revoke(nid, at) PROVE Life!Next
      BY <2>4, RevokeMoves, DatesArePositive
    <2> QED BY <2>1, <2>2, <2>3, <2>4, LifeVars DEF Next, Work
  <1> QED BY <1>1, <1>2, CoreInvariant, PTL DEF Spec, KeepsLedger, Life!Spec

=============================================================================
