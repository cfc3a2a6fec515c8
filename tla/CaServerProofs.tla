--------------------------- MODULE CaServerProofs ---------------------------
(***************************************************************************)
(* The invariant of the certificate table, proved once for the steps that  *)
(* all the ports are made of.  Serials stay dense because a handler holds  *)
(* a serial with nothing missing below it (NoGapBelow), which no step of   *)
(* another handler undoes; a row that is inserted is therefore the last    *)
(* one, which is what keeps a revocation total.                            *)
(***************************************************************************)
EXTENDS CaServer, FiniteSetTheorems, TLAPS

-----------------------------------------------------------------------------
(* next_serial, on the tables the program builds *)

\* Stored serials without a gap: 1..k, for a k of at most ten.
Dense(stored) == stored \subseteq 1..10 /\ \A s \in stored : 1..(s - 1) \subseteq stored

\* Up to 9 a serial reads as itself; 0x00000A reads as nothing.
LEMMA ReadingUpToTen ==
    /\ \A s \in 1..9 : DecimalReading(s) = s
    /\ DecimalReading(10) = 0
PROOF
  <1>1. ASSUME NEW s \in 1..10 PROVE s \div 16 = 0 /\ s % 16 = s
    OBVIOUS
  <1>2. \A s \in 1..9 : DecimalReading(s) = s
    BY <1>1 DEF DecimalReading
  <1>3. DecimalReading(10) = 0
    BY <1>1 DEF DecimalReading
  <1> QED BY <1>2, <1>3

\* Some reading is the largest.
LEMMA LargestReading ==
    ASSUME NEW S \in SUBSET (1..10)
    PROVE  \E m \in Readings(S) : IsLargest(m, Readings(S))
PROOF
  <1>1. Readings(S) \subseteq 0..9 /\ 0 \in Readings(S)
    BY ReadingUpToTen DEF Readings
  <1> DEFINE R == Readings(S)
  <1>2. CASE 9 \in R BY <1>1, <1>2 DEF IsLargest
  <1>3. CASE 9 \notin R /\ 8 \in R BY <1>1, <1>3 DEF IsLargest
  <1>4. CASE 9 \notin R /\ 8 \notin R /\ 7 \in R BY <1>1, <1>4 DEF IsLargest
  <1>5. CASE 9 \notin R /\ 8 \notin R /\ 7 \notin R /\ 6 \in R BY <1>1, <1>5 DEF IsLargest
  <1>6. CASE R \subseteq 0..5 /\ (5 \in R \/ 4 \in R \/ 3 \in R) BY <1>6 DEF IsLargest
  <1>7. CASE R \subseteq 0..2 BY <1>1, <1>7 DEF IsLargest
  <1> QED BY <1>1, <1>2, <1>3, <1>4, <1>5, <1>6, <1>7

\* next_serial extends a table without a gap by one, until the table holds ten
\* serials; from then on it returns the serial 10 it has already stored.
THEOREM NextSerialExtends ==
    ASSUME NEW S, Dense(S)
    PROVE  /\ NextSerial(S) \in 1..10
           /\ 1..(NextSerial(S) - 1) \subseteq S
           /\ NextSerial(S) \in S => NextSerial(S) = 10
PROOF
  <1> DEFINE m == CHOOSE x \in Readings(S) : IsLargest(x, Readings(S))
  <1>1. S \in SUBSET (1..10)
    BY DEF Dense
  <1>2. m \in Readings(S) /\ IsLargest(m, Readings(S))
    BY <1>1, LargestReading
  <1>3. NextSerial(S) = 1 + m
    BY DEF NextSerial
  <1> HIDE DEF m
  <1>4. m \in 0..9 /\ (m = 0 \/ m \in S)
    BY <1>1, <1>2, ReadingUpToTen DEF Readings
  <1>5. 1..m \subseteq S
    BY <1>1, <1>4 DEF Dense
  <1>6. \A s \in S : s <= m \/ s = 10
    BY <1>1, <1>2, ReadingUpToTen DEF Readings, IsLargest
  <1> QED BY <1>1, <1>3, <1>4, <1>5, <1>6

-----------------------------------------------------------------------------
(* The invariant of the table *)

CoreInv == TypeOK /\ SerialsDense /\ SerialsUnique /\ RevocationTotal

\* What CoreInv says of one request.
RequestInv(q) ==
    /\ q \in Request
    /\ q.phase # "idle" => q.nid \in Nids
    /\ q.op \in RegisterOps \/ q.phase \notin {"idle", "lookup"} =>
           q.entity \in Entities /\ q.key \in Keys
    /\ q.phase \in {"sign", "insert"} => NoGapBelow(q.serial)

LEMMA RequestsInv ==
    ASSUME CoreInv, NEW h \in Handlers
    PROVE  RequestInv(req[h])
PROOF BY DEF CoreInv, TypeOK, SerialsDense, Taken, RequestInv

LEMMA IdleInv == RequestInv(Idle)
PROOF BY DEF RequestInv, Idle, Request, Phases, Serial, RegisterOps

LEMMA ValidityInNat ==
    ASSUME NEW e
    PROVE  ValidityDays(e) * DaySeconds \in Nat
PROOF
  <1>1. ValidityDays(e) \in Nat /\ DaySeconds \in Nat
    BY ConstantsAssumption DEF ValidityDays
  <1> QED BY <1>1

\* The certificate of a request past its lookup is a row.
LEMMA CertificateIsRow ==
    ASSUME NEW q \in Request, q.nid \in Nids, q.entity \in Entities, q.key \in Keys
    PROVE  Certificate(q) \in Row
PROOF
  <1>1. ValidityDays(q.entity) * DaySeconds \in Nat
    BY ValidityInNat
  <1>2. q.issued + ValidityDays(q.entity) * DaySeconds \in Nat
    BY <1>1 DEF Request
  <1> QED BY <1>2 DEF Certificate, Row, Request, NULL

\* The table's serials are dense in the sense next_serial is proved for.
LEMMA TableDense == CoreInv => Dense(StoredSerials)
PROOF BY DEF CoreInv, SerialsDense, NoGapBelow, Dense, StoredSerials

\* A step that leaves the table alone and gives one handler a new request.
LEMMA RequestStep ==
    ASSUME CoreInv, NEW h \in Handlers, NEW q, RequestInv(q),
           req' = [req EXCEPT ![h] = q],
           rows' = rows, delivered' \subseteq Row, clock' = clock,
           accepted' \in Nat, faults' \in Nat
    PROVE  CoreInv'
PROOF
  <1>1. TypeOK'
    BY DEF CoreInv, TypeOK, RequestInv
  <1>2. SerialsDense'
    <2>1. \A g \in Handlers : Taken(g)' => NoGapBelow(req'[g].serial)
      BY DEF CoreInv, TypeOK, RequestInv, SerialsDense, Taken
    <2> QED BY <2>1 DEF CoreInv, SerialsDense, NoGapBelow, StoredSerials
  <1>3. SerialsUnique' /\ RevocationTotal'
    BY DEF CoreInv, SerialsUnique, RevocationTotal
  <1> QED BY <1>1, <1>2, <1>3 DEF CoreInv

\* insert of a serial that is not stored yet, from any request past its lookup.
LEMMA InsertStep ==
    ASSUME CoreInv, NEW h \in Handlers, NEW q, RequestInv(q), q.phase = "insert",
           q.serial \notin StoredSerials,
           rows' = rows \cup {Certificate(q)},
           req' = [req EXCEPT ![h] = [q EXCEPT !.phase = "answer"]],
           UNCHANGED <<clock, delivered>>, accepted' \in Nat, faults' \in Nat
    PROVE  CoreInv'
PROOF
  <1> DEFINE c == Certificate(q)
             a == [q EXCEPT !.phase = "answer"]
  <1>1. q \in Request /\ q.nid \in Nids /\ q.entity \in Entities /\ q.key \in Keys
        /\ NoGapBelow(q.serial)
    BY DEF RequestInv
  <1>2. c \in Row /\ c.serial = q.serial /\ c.nid = q.nid /\ c.revoked = NULL
    BY <1>1, CertificateIsRow DEF Certificate
  <1>3. a \in Request /\ a.phase = "answer" /\ a.nid = q.nid /\ a.entity = q.entity
        /\ a.key = q.key
    BY <1>1 DEF Request, Phases
  <1> HIDE DEF c, a
  <1>4. rows' = rows \cup {c} /\ req' = [req EXCEPT ![h] = a]
    BY DEF c, a
  <1>5. \A r \in rows : r.serial < c.serial
    <2> SUFFICES ASSUME NEW r \in rows, ~(r.serial < c.serial) PROVE FALSE
      OBVIOUS
    <2>1. NoGapBelow(r.serial) /\ r.serial \in 1..10 /\ c.serial \in 1..10
      BY <1>1, <1>2 DEF CoreInv, SerialsDense, NoGapBelow
    <2>2. r.serial # c.serial
      BY <1>2 DEF StoredSerials
    <2>3. c.serial \in 1..(r.serial - 1)
      BY <2>1, <2>2
    <2> QED BY <2>1, <2>3, <1>2 DEF NoGapBelow
  <1>6. StoredSerials \subseteq StoredSerials'
    BY <1>4 DEF StoredSerials
  <1>7. TypeOK'
    BY <1>1, <1>2, <1>3, <1>4 DEF CoreInv, TypeOK
  <1>8. SerialsDense'
    <2>1. \A s : NoGapBelow(s) => NoGapBelow(s)'
      BY <1>6 DEF NoGapBelow
    <2>2. \A r \in rows' : NoGapBelow(r.serial)
      BY <1>1, <1>2, <1>4 DEF CoreInv, SerialsDense
    <2>3. \A g \in Handlers : Taken(g)' => NoGapBelow(req'[g].serial)
      BY <1>3, <1>4 DEF CoreInv, TypeOK, SerialsDense, Taken
    <2> QED BY <2>1, <2>2, <2>3 DEF SerialsDense
  <1>9. SerialsUnique'
    BY <1>4, <1>5, <1>2 DEF CoreInv, SerialsUnique, TypeOK, Row, Serial
  <1>10. RevocationTotal'
    BY <1>2, <1>4, <1>5 DEF CoreInv, RevocationTotal
  <1> QED BY <1>7, <1>8, <1>9, <1>10 DEF CoreInv

\* revoke changes no row but in its revocation date.
LEMMA RevokeStep ==
    ASSUME CoreInv, NEW nid \in Nids, NEW at \in Nat \ {0}, Revoke(nid, at)
    PROVE  CoreInv'
PROOF
  <1> DEFINE stamp(r) == IF r \in ActiveRows(nid) THEN [r EXCEPT !.revoked = at] ELSE r
  <1>1. rows' = {stamp(r) : r \in rows} /\ UNCHANGED <<clock, req, delivered, accepted, faults>>
    BY DEF Revoke
  <1>2. rows \subseteq Row /\ clock \in Nat \ {0}
    BY DEF CoreInv, TypeOK
  <1>3. \A r \in rows :
           /\ stamp(r) \in Row
           /\ stamp(r).serial = r.serial
           /\ stamp(r).nid = r.nid
           /\ r.nid = nid => stamp(r).revoked # NULL
           /\ r.nid # nid => stamp(r) = r
    BY <1>2 DEF ActiveRows, Row, NULL
  <1> HIDE DEF stamp
  <1>4. StoredSerials' = StoredSerials
    BY <1>1, <1>3 DEF StoredSerials
  <1>5. TypeOK'
    BY <1>1, <1>3 DEF CoreInv, TypeOK
  <1>6. SerialsDense'
    <2>1. \A t : NoGapBelow(t) => NoGapBelow(t)'
      BY <1>4 DEF NoGapBelow
    <2>2. \A r \in rows' : NoGapBelow(r.serial)
      BY <1>1, <1>3 DEF CoreInv, SerialsDense
    <2>3. \A g \in Handlers : Taken(g)' => NoGapBelow(req'[g].serial)
      BY <1>1 DEF CoreInv, SerialsDense, Taken
    <2> QED BY <2>1, <2>2, <2>3 DEF SerialsDense
  <1>7. SerialsUnique'
    BY <1>1, <1>3 DEF CoreInv, SerialsUnique
  <1>8. RevocationTotal'
    BY <1>1, <1>3 DEF CoreInv, RevocationTotal
  <1> QED BY <1>5, <1>6, <1>7, <1>8 DEF CoreInv

LEMMA CrashStep == CoreInv /\ Crash => CoreInv'
PROOF
  <1> SUFFICES ASSUME CoreInv, Crash PROVE CoreInv'
    OBVIOUS
  <1>1. /\ req' = [h \in Handlers |-> Idle]
        /\ rows' = rows /\ clock' = clock /\ delivered' = delivered
        /\ accepted' = accepted /\ faults' \in Nat
    BY ConstantsAssumption DEF Crash, Fault, CoreInv, TypeOK
  <1>2. TypeOK'
    BY <1>1, IdleInv DEF CoreInv, TypeOK, RequestInv
  <1>3. SerialsDense'
    BY <1>1 DEF CoreInv, SerialsDense, Taken, Idle, NoGapBelow, StoredSerials
  <1>4. SerialsUnique' /\ RevocationTotal'
    BY <1>1 DEF CoreInv, SerialsUnique, RevocationTotal
  <1> QED BY <1>2, <1>3, <1>4 DEF CoreInv

\* The clock and crashes.
LEMMA BackgroundStep == CoreInv /\ Background => CoreInv'
PROOF
  <1>1. CoreInv /\ Tick => CoreInv'
    <2> SUFFICES ASSUME CoreInv, Tick PROVE CoreInv'
      OBVIOUS
    <2>1. TypeOK'
      BY DEF CoreInv, TypeOK, Tick
    <2>2. SerialsDense'
      BY DEF CoreInv, SerialsDense, Taken, NoGapBelow, StoredSerials, Tick
    <2>3. SerialsUnique' /\ RevocationTotal'
      BY DEF CoreInv, SerialsUnique, RevocationTotal, Tick
    <2> QED BY <2>1, <2>2, <2>3 DEF CoreInv
  <1> QED BY <1>1, CrashStep DEF Background

LEMMA UnchangedStep == CoreInv /\ UNCHANGED vars => CoreInv'
PROOF
  <1> SUFFICES ASSUME CoreInv, UNCHANGED vars PROVE CoreInv'
    OBVIOUS
  <1>1. TypeOK'
    BY DEF CoreInv, TypeOK, vars
  <1>2. SerialsDense'
    BY DEF CoreInv, SerialsDense, Taken, NoGapBelow, StoredSerials, vars
  <1>3. SerialsUnique' /\ RevocationTotal'
    BY DEF CoreInv, SerialsUnique, RevocationTotal, vars
  <1> QED BY <1>1, <1>2, <1>3 DEF CoreInv

LEMMA InitInv == Init => CoreInv
PROOF
  BY IdleInv DEF Init, CoreInv, TypeOK, SerialsDense, SerialsUnique, RevocationTotal,
                 Taken, RequestInv, Idle

-----------------------------------------------------------------------------
(* The steps of a handler *)

\* The handler is done with its request.
LEMMA DropStep ==
    ASSUME CoreInv, NEW h \in Handlers, Drop(h),
           rows' = rows, clock' = clock, delivered' \subseteq Row,
           accepted' \in Nat, faults' \in Nat
    PROVE  CoreInv'
PROOF BY IdleInv, RequestStep DEF Drop

\* The request moves on, when what its new phase asks for is there.
LEMMA GotoStep ==
    ASSUME CoreInv, NEW h \in Handlers, NEW p \in Phases, Goto(h, p),
           req[h].phase \notin {"idle"},
           req[h].phase = "lookup" => req[h].op \in RegisterOps,
           p \in {"sign", "insert"} => NoGapBelow(req[h].serial),
           rows' = rows, clock' = clock, delivered' \subseteq Row,
           accepted' \in Nat, faults' \in Nat
    PROVE  CoreInv'
PROOF
  <1> DEFINE q == [req[h] EXCEPT !.phase = p]
  <1>1. RequestInv(req[h])
    BY RequestsInv
  <1>2. req' = [req EXCEPT ![h] = q]
    BY DEF Goto
  <1>3. RequestInv(q)
    BY <1>1 DEF RequestInv, Request
  <1> HIDE DEF q
  <1> QED BY <1>2, <1>3, RequestStep

\* A handler takes up a request.
LEMMA AcceptStep ==
    ASSUME CoreInv, NEW h \in Handlers,
           AcceptRenew(h) \/ \E op \in RegisterOps : AcceptRegister(h, op)
    PROVE  CoreInv'
PROOF
  <1>1. ASSUME NEW op \in IssueOps, NEW nid \in Nids, NEW e \in Entities \cup {None},
               NEW k \in Keys \cup {None}, Accept(h, op, nid, e, k),
               op \in RegisterOps => e \in Entities /\ k \in Keys
        PROVE  CoreInv'
    <2> DEFINE q == [phase |-> "lookup", op |-> op, nid |-> nid, entity |-> e, key |-> k,
                     expires |-> 0, serial |-> 0, issued |-> 0]
    <2>1. RequestInv(q)
      BY <1>1 DEF RequestInv, Request, Phases, Serial
    <2>2. req' = [req EXCEPT ![h] = q]
      BY <1>1 DEF Accept
    <2>3. rows' = rows /\ delivered' \subseteq Row /\ clock' = clock
          /\ accepted' \in Nat /\ faults' \in Nat
      BY <1>1 DEF Accept, CoreInv, TypeOK
    <2> HIDE DEF q
    <2> QED BY <2>1, <2>2, <2>3, RequestStep
  <1> QED BY <1>1 DEF AcceptRenew, AcceptRegister, IssueOps, RegisterOps

LEMMA LookupStep ==
    ASSUME CoreInv, NEW h \in Handlers, LookupRegister(h) \/ LookupRenew(h)
    PROVE  CoreInv'
PROOF
  <1>1. rows' = rows /\ delivered' \subseteq Row /\ clock' = clock
        /\ accepted' \in Nat /\ faults' \in Nat
    BY DEF LookupRegister, LookupRenew, CoreInv, TypeOK
  <1>2. CASE Drop(h)
    BY <1>1, <1>2, DropStep
  <1>3. CASE LookupRegister(h) /\ Goto(h, "serial")
    BY <1>1, <1>3, GotoStep DEF LookupRegister, Phases
  <1>4. ASSUME NEW r \in MostRecent(req[h].nid), req[h].phase = "lookup",
               req' = [req EXCEPT ![h].phase = "window", ![h].entity = r.entity,
                                  ![h].key = r.key, ![h].expires = r.expires]
        PROVE  CoreInv'
    <2> DEFINE q == [req[h] EXCEPT !.phase = "window", !.entity = r.entity, !.key = r.key,
                                   !.expires = r.expires]
    <2>1. r \in Row
      BY <1>4 DEF MostRecent, ActiveRows, CoreInv, TypeOK
    <2>2. RequestInv(req[h])
      BY RequestsInv
    <2>3. RequestInv(q)
      BY <1>4, <2>1, <2>2 DEF RequestInv, Request, Row, Phases
    <2>4. req' = [req EXCEPT ![h] = q]
      BY <1>4 DEF CoreInv, TypeOK
    <2> HIDE DEF q
    <2> QED BY <1>1, <2>3, <2>4, RequestStep
  <1> QED BY <1>2, <1>3, <1>4 DEF LookupRegister, LookupRenew

LEMMA WindowStep ==
    ASSUME CoreInv, NEW h \in Handlers, CheckWindow(h)
    PROVE  CoreInv'
PROOF
  <1>1. rows' = rows /\ delivered' \subseteq Row /\ clock' = clock
        /\ accepted' \in Nat /\ faults' \in Nat
    BY DEF CheckWindow, CoreInv, TypeOK
  <1>2. CASE Drop(h)
    BY <1>1, <1>2, DropStep
  <1>3. CASE req' = [req EXCEPT ![h].phase = "serial", ![h].expires = 0]
    <2> DEFINE q == [req[h] EXCEPT !.phase = "serial", !.expires = 0]
    <2>1. RequestInv(req[h]) /\ req[h].phase = "window"
      BY RequestsInv DEF CheckWindow
    <2>2. RequestInv(q)
      BY <2>1 DEF RequestInv, Request, Phases
    <2>3. req' = [req EXCEPT ![h] = q]
      BY <1>3 DEF CoreInv, TypeOK
    <2> HIDE DEF q
    <2> QED BY <1>1, <2>2, <2>3, RequestStep
  <1> QED BY <1>2, <1>3 DEF CheckWindow

LEMMA FaultStep ==
    ASSUME CoreInv, NEW h \in Handlers, NEW p, FaultDrops(h, p)
    PROVE  CoreInv'
PROOF BY DropStep, ConstantsAssumption DEF FaultDrops, Fault, CoreInv, TypeOK

LEMMA TakeSerialStep ==
    ASSUME CoreInv, NEW h \in Handlers, TakeSerial(h)
    PROVE  CoreInv'
PROOF
  <1> DEFINE n == NextSerial(StoredSerials)
             q == [req[h] EXCEPT !.phase = "sign", !.serial = n]
  <1>1. n \in 1..10 /\ 1..(n - 1) \subseteq StoredSerials
    BY TableDense, NextSerialExtends
  <1>2. RequestInv(req[h])
    BY RequestsInv
  <1> HIDE DEF n
  <1>3. RequestInv(q)
    <2>1. n \in Serial /\ NoGapBelow(n)
      BY <1>1 DEF Serial, NoGapBelow
    <2>2. req[h].phase = "serial"
      BY DEF TakeSerial
    <2>3. q \in Request
      BY <1>2, <2>1 DEF RequestInv, Request, Phases
    <2>4. q.phase = "sign" /\ q.serial = n /\ q.nid = req[h].nid
          /\ q.entity = req[h].entity /\ q.key = req[h].key
      BY <1>2 DEF RequestInv, Request
    <2> QED BY <1>2, <2>1, <2>2, <2>3, <2>4 DEF RequestInv
  <1>4. req' = [req EXCEPT ![h] = q]
    BY DEF TakeSerial, n, CoreInv, TypeOK
  <1> HIDE DEF q
  <1> QED BY <1>3, <1>4, RequestStep DEF TakeSerial, CoreInv, TypeOK

LEMMA SignStep ==
    ASSUME CoreInv, NEW h \in Handlers, Sign(h) \/ SignRejects(h)
    PROVE  CoreInv'
PROOF
  <1>1. CASE SignRejects(h)
    BY <1>1, DropStep DEF SignRejects, CoreInv, TypeOK
  <1>2. CASE Sign(h)
    <2> DEFINE q == [req[h] EXCEPT !.phase = "insert", !.issued = clock]
    <2>1. RequestInv(req[h])
      BY RequestsInv
    <2>2. RequestInv(q)
      BY <1>2, <2>1 DEF RequestInv, Request, Phases, Sign, CoreInv, TypeOK
    <2>3. req' = [req EXCEPT ![h] = q]
      BY <1>2 DEF Sign, CoreInv, TypeOK
    <2> HIDE DEF q
    <2> QED BY <1>2, <2>2, <2>3, RequestStep DEF Sign, CoreInv, TypeOK
  <1> QED BY <1>1, <1>2

LEMMA InsertOutcomeStep ==
    ASSUME CoreInv, NEW h \in Handlers,
           Insert(h) \/ InsertErrorDiscarded(h) \/ InsertErrorRaised(h)
    PROVE  CoreInv'
PROOF
  <1>1. CASE Insert(h)
    <2>1. RequestInv(req[h])
      BY RequestsInv
    <2>2. req' = [req EXCEPT ![h] = [req[h] EXCEPT !.phase = "answer"]]
      BY <1>1 DEF Insert, Goto
    <2> QED BY <1>1, <2>1, <2>2, InsertStep DEF Insert, CoreInv, TypeOK
  <1>2. InsertFails(h) => /\ rows' = rows /\ delivered' \subseteq Row /\ clock' = clock
                          /\ accepted' \in Nat /\ faults' \in Nat
    BY ConstantsAssumption DEF InsertFails, NoFault, Fault, CoreInv, TypeOK
  <1>3. CASE InsertErrorDiscarded(h)
    BY <1>2, <1>3, GotoStep DEF InsertErrorDiscarded, InsertFails, Phases
  <1>4. CASE InsertErrorRaised(h)
    BY <1>2, <1>4, DropStep DEF InsertErrorRaised
  <1> QED BY <1>1, <1>3, <1>4

LEMMA RespondStep ==
    ASSUME CoreInv, NEW h \in Handlers, Respond(h)
    PROVE  CoreInv'
PROOF
  <1>1. RequestInv(req[h])
    BY RequestsInv
  <1>2. Certificate(req[h]) \in Row
    BY <1>1, CertificateIsRow DEF Respond, RequestInv
  <1> QED BY <1>2, DropStep DEF Respond, CoreInv, TypeOK

-----------------------------------------------------------------------------
(* Certificates in the hands of clients *)

\* A handler that is about to answer has its row in the table.
AnswerRecorded ==
    \A h \in Handlers : req[h].phase = "answer" => Recorded(Certificate(req[h]))

RecordedInv == DeliveredRecorded /\ AnswerRecorded

\* A step that leaves the table alone and brings no request to its answer.
LEMMA QuietStep ==
    ASSUME RecordedInv, rows' = rows, delivered' = delivered,
           \A g \in Handlers : req'[g].phase = "answer" => req'[g] = req[g]
    PROVE  RecordedInv'
PROOF
  <1>1. \A c : Recorded(c) => Recorded(c)'
    BY DEF Recorded
  <1>2. DeliveredRecorded'
    BY <1>1 DEF RecordedInv, DeliveredRecorded
  <1>3. AnswerRecorded'
    <2> SUFFICES ASSUME NEW g \in Handlers, req'[g].phase = "answer"
                 PROVE  Recorded(Certificate(req[g]))'
      BY DEF AnswerRecorded
    <2>1. Recorded(Certificate(req[g]))
      BY DEF RecordedInv, AnswerRecorded
    <2>2. Recorded(Certificate(req[g]))' <=> Recorded(Certificate(req[g]))
      BY DEF Recorded, Certificate
    <2> QED BY <2>1, <2>2
  <1> QED BY <1>2, <1>3 DEF RecordedInv

\* The row that insert adds is the certificate the handler answers with.
LEMMA InsertRecords ==
    ASSUME CoreInv, RecordedInv, NEW h \in Handlers, NEW q \in Request,
           rows' = rows \cup {Certificate(q)},
           req' = [req EXCEPT ![h] = [q EXCEPT !.phase = "answer"]],
           delivered' = delivered
    PROVE  RecordedInv'
PROOF
  <1> DEFINE a == [q EXCEPT !.phase = "answer"]
  <1>1. \A c : Recorded(c) => Recorded(c)'
    BY DEF Recorded
  <1>2. Certificate(a) = Certificate(q)
    BY DEF Certificate, Request
  <1>3. [Certificate(q) EXCEPT !.revoked = NULL] = Certificate(q)
    BY DEF Certificate
  <1>4. req' = [req EXCEPT ![h] = a]
    OBVIOUS
  <1> HIDE DEF a
  <1>5. DeliveredRecorded'
    BY <1>1 DEF RecordedInv, DeliveredRecorded
  <1>6. AnswerRecorded'
    <2> SUFFICES ASSUME NEW g \in Handlers, req'[g].phase = "answer"
                 PROVE  Recorded(Certificate(req[g]))'
      BY DEF AnswerRecorded
    <2>1. CASE g = h
      <3>1. req'[g] = a
        BY <1>4, <2>1 DEF CoreInv, TypeOK
      <3>2. Certificate(req[g])' = Certificate(q)
        BY <1>2, <3>1 DEF Certificate
      <3>3. \E r \in rows' : [r EXCEPT !.revoked = NULL] = Certificate(q)
        BY <1>3
      <3> QED BY <3>2, <3>3 DEF Recorded
    <2>2. CASE g # h
      <3>1. req'[g] = req[g]
        BY <1>4, <2>2 DEF CoreInv, TypeOK
      <3>2. Certificate(req[g])' = Certificate(req[g])
        BY <3>1 DEF Certificate
      <3>3. Recorded(Certificate(req[g]))
        BY <3>1 DEF RecordedInv, AnswerRecorded
      <3> QED BY <1>1, <3>2, <3>3 DEF Recorded
    <2> QED BY <2>1, <2>2
  <1> QED BY <1>5, <1>6 DEF RecordedInv

LEMMA RespondRecords ==
    ASSUME CoreInv, RecordedInv, NEW h \in Handlers, Respond(h)
    PROVE  RecordedInv'
PROOF
  <1>1. Recorded(Certificate(req[h]))
    BY DEF Respond, RecordedInv, AnswerRecorded
  <1>2. rows' = rows /\ delivered' = delivered \cup {Certificate(req[h])}
        /\ req' = [req EXCEPT ![h] = Idle]
    BY DEF Respond, Drop
  <1>3. \A c : Recorded(c) => Recorded(c)'
    BY <1>2 DEF Recorded
  <1>4. DeliveredRecorded'
    BY <1>1, <1>2, <1>3 DEF RecordedInv, DeliveredRecorded
  <1>5. AnswerRecorded'
    <2> SUFFICES ASSUME NEW g \in Handlers, req'[g].phase = "answer"
                 PROVE  Recorded(Certificate(req[g]))'
      BY DEF AnswerRecorded
    <2>1. req'[g] = req[g]
      BY <1>2 DEF CoreInv, TypeOK, Idle
    <2>2. Certificate(req[g])' = Certificate(req[g])
      BY <2>1 DEF Certificate
    <2>3. Recorded(Certificate(req[g]))
      BY <2>1 DEF RecordedInv, AnswerRecorded
    <2> QED BY <1>3, <2>2, <2>3 DEF Recorded
  <1> QED BY <1>4, <1>5 DEF RecordedInv

\* Time and crashes lose no row.
LEMMA BackgroundRecords ==
    ASSUME RecordedInv, Background
    PROVE  RecordedInv'
PROOF
  <1>1. CASE Tick
    BY <1>1, QuietStep DEF Tick
  <1>2. CASE Crash
    BY <1>2, QuietStep DEF Crash, Idle
  <1> QED BY <1>1, <1>2 DEF Background

\* A revocation changes a row in its date only.
LEMMA RevokeRecords ==
    ASSUME CoreInv, RecordedInv, NEW nid \in Nids, NEW at, Revoke(nid, at)
    PROVE  RecordedInv'
PROOF
  <1> DEFINE stamp(r) == IF r \in ActiveRows(nid) THEN [r EXCEPT !.revoked = at] ELSE r
  <1>1. rows' = {stamp(r) : r \in rows} /\ req' = req /\ delivered' = delivered
    BY DEF Revoke
  <1>2. \A r \in rows : [stamp(r) EXCEPT !.revoked = NULL] = [r EXCEPT !.revoked = NULL]
    BY DEF CoreInv, TypeOK, Row
  <1> HIDE DEF stamp
  <1>3. \A c : Recorded(c) => Recorded(c)'
    BY <1>1, <1>2 DEF Recorded
  <1>4. DeliveredRecorded'
    BY <1>1, <1>3 DEF RecordedInv, DeliveredRecorded
  <1>5. AnswerRecorded'
    <2> SUFFICES ASSUME NEW g \in Handlers, req'[g].phase = "answer"
                 PROVE  Recorded(Certificate(req[g]))'
      BY DEF AnswerRecorded
    <2>1. Recorded(Certificate(req[g]))
      BY <1>1 DEF RecordedInv, AnswerRecorded
    <2>2. Certificate(req[g])' = Certificate(req[g])
      BY <1>1 DEF Certificate
    <2> QED BY <1>3, <2>1, <2>2 DEF Recorded
  <1> QED BY <1>4, <1>5 DEF RecordedInv

\* A serial names at most one certificate in the table, so at most one recorded.
LEMMA RecordedUnique == CoreInv /\ RecordedInv => DeliveredSerialsUnique
PROOF
  <1> SUFFICES ASSUME CoreInv, RecordedInv, NEW c1 \in delivered, NEW c2 \in delivered,
                      c1.serial = c2.serial
               PROVE  c1 = c2
    BY DEF DeliveredSerialsUnique
  <1>1. PICK r1 \in rows : [r1 EXCEPT !.revoked = NULL] = c1
    BY DEF RecordedInv, DeliveredRecorded, Recorded
  <1>2. PICK r2 \in rows : [r2 EXCEPT !.revoked = NULL] = c2
    BY DEF RecordedInv, DeliveredRecorded, Recorded
  <1>3. r1.serial = c1.serial /\ r2.serial = c2.serial
    BY <1>1, <1>2 DEF CoreInv, TypeOK, Row
  <1>4. r1 = r2
    BY <1>3 DEF CoreInv, SerialsUnique
  <1> QED BY <1>1, <1>2, <1>4

-----------------------------------------------------------------------------
(* The dates in the table *)

\* Every row is valid for as long as its entity type says.
RowsExpire ==
    \A r \in rows : r.expires = r.issued + ValidityDays(r.entity) * DaySeconds

\* Of two rows for the same entity type the later one expires later.
LEMMA LaterExpiresLater ==
    ASSUME CoreInv, RowsExpire, NEW r \in rows, NEW o \in rows,
           r.entity = o.entity, o.issued <= r.issued
    PROVE  o.expires <= r.expires
PROOF
  <1>1. r.issued \in Nat /\ o.issued \in Nat
    BY DEF CoreInv, TypeOK, Row
  <1> DEFINE v == ValidityDays(r.entity) * DaySeconds
  <1>2. v \in Nat
    BY ValidityInNat
  <1>3. r.expires = r.issued + v /\ o.expires = o.issued + v
    BY DEF RowsExpire
  <1> HIDE DEF v
  <1> QED BY <1>1, <1>2, <1>3

\* Whole days left, of two expiries seen from two times.
LEMMA DaysLeft ==
    ASSUME NEW e1 \in Nat, NEW e2 \in Nat, NEW t1 \in Nat, NEW t2 \in Nat,
           e1 <= e2, t2 <= t1,
           ~((e2 - t2) \div DaySeconds > RenewalDays)
    PROVE  ~((e1 - t1) \div DaySeconds > RenewalDays)
PROOF
  <1>1. DaySeconds \in Nat \ {0} /\ RenewalDays \in Nat
    BY ConstantsAssumption
  <1>2. PICK d \in Nat \ {0} : d = DaySeconds
    BY <1>1
  <1>3. PICK n \in Nat : n = RenewalDays
    BY <1>1
  <1>4. ASSUME NEW a \in Int, NEW b \in Int, a <= b PROVE a \div d <= b \div d
    <2>1. PICK x \in Int : x = a \div d /\ d * x <= a /\ a < d * x + d
      OBVIOUS
    <2>2. PICK y \in Int : y = b \div d /\ d * y <= b /\ b < d * y + d
      OBVIOUS
    <2>3. d * x < d * (y + 1)
      BY <1>4, <2>1, <2>2
    <2>4. x < y + 1
      BY <2>3
    <2> QED BY <2>1, <2>2, <2>4
  <1>5. e1 - t1 \in Int /\ e2 - t2 \in Int /\ e1 - t1 <= e2 - t2
    OBVIOUS
  <1>6. PICK x \in Int : x = (e1 - t1) \div d
    BY <1>5
  <1>7. PICK y \in Int : y = (e2 - t2) \div d
    BY <1>5
  <1>8. x <= y
    BY <1>4, <1>5, <1>6, <1>7
  <1>9. ~(y > n)
    BY <1>2, <1>3, <1>7
  <1>10. ~(x > n)
    BY <1>8, <1>9
  <1> QED BY <1>2, <1>3, <1>6, <1>10

-----------------------------------------------------------------------------
(* The table is a ledger *)

InForce == {r \in rows : r.revoked = NULL}
RevokedRows == {r \in rows : r.revoked # NULL}
Entries == {<<AsIssued(r), r.revoked>> : r \in RevokedRows}

LEMMA LifeVars == rows' = rows => UNCHANGED Life!vars
PROOF BY DEF Life!vars, AsIssued

\* A row under a new serial is a certificate granted.
LEMMA RowIsGrant ==
    ASSUME CoreInv, NEW c, rows' = rows \cup {c}, c.serial \notin StoredSerials, c.revoked = NULL
    PROVE  Life!Next
PROOF
  <1>1. InForce' = InForce \cup {c}
    BY DEF InForce
  <1>2. RevokedRows' = RevokedRows
    BY DEF RevokedRows
  <1>3. Entries' = Entries
    BY <1>2 DEF Entries, AsIssued
  <1>4. \A r \in rows : r.serial # c.serial
    BY DEF StoredSerials
  <1>5. \A r \in rows : AsIssued(r).serial = r.serial
    BY DEF AsIssued, CoreInv, TypeOK, Row
  <1>6. \A o \in InForce \cup {e[1] : e \in Entries} : o.serial # c.serial
    BY <1>4, <1>5 DEF InForce, RevokedRows, Entries
  <1>7. Life!Grant(c)
    BY <1>1, <1>3, <1>6 DEF Life!Grant, Life!Granted, InForce, Entries, RevokedRows
  <1>8. c \in InForce'
    BY <1>1
  <1>9. \E d \in InForce' : Life!Grant(d)
    BY <1>7, <1>8
  <1> QED BY <1>9 DEF Life!Next, InForce

\* revoke moves every certificate of the NID.
LEMMA RevokeMoves ==
    ASSUME CoreInv, NEW nid \in Nids, NEW at \in Nat \ {0}, Revoke(nid, at)
    PROVE  Life!Next
PROOF
  <1> DEFINE stamp(r) == IF r \in ActiveRows(nid) THEN [r EXCEPT !.revoked = at] ELSE r
             taken == {c \in InForce : c.nid = nid}
  <1>1. rows' = {stamp(r) : r \in rows}
    BY DEF Revoke
  <1>2. taken = ActiveRows(nid) /\ taken # {} /\ taken \subseteq rows /\ rows \subseteq Row
    BY DEF Revoke, Active, ActiveRows, InForce, CoreInv, TypeOK
  <1>3. \A r \in taken : /\ stamp(r).revoked = at
                         /\ stamp(r).revoked # NULL
                         /\ AsIssued(stamp(r)) = r
                         /\ r.nid = nid
    <2> SUFFICES ASSUME NEW r \in taken
                 PROVE  /\ stamp(r).revoked = at /\ stamp(r).revoked # NULL
                        /\ AsIssued(stamp(r)) = r /\ r.nid = nid
      OBVIOUS
    <2>1. r \in Row /\ r.revoked = NULL /\ r.nid = nid /\ r \in ActiveRows(nid)
      BY <1>2 DEF ActiveRows
    <2>2. stamp(r) = [r EXCEPT !.revoked = at]
      BY <2>1
    <2>3. [[r EXCEPT !.revoked = at] EXCEPT !.revoked = NULL] = r
      BY <2>1 DEF Row
    <2> QED BY <2>1, <2>2, <2>3 DEF AsIssued, Row, NULL
  <1>4. \A r \in rows \ taken : stamp(r) = r
    BY <1>2
  <1> HIDE DEF stamp
  <1>5. InForce' = InForce \ taken
    <2>1. \A r \in InForce' : r \in InForce \ taken
      BY <1>1, <1>3, <1>4 DEF InForce
    <2>2. \A r \in InForce \ taken : r \in InForce'
      BY <1>1, <1>4 DEF InForce
    <2> QED BY <2>1, <2>2
  <1>6. RevokedRows' = RevokedRows \cup {stamp(r) : r \in taken}
    <2>1. \A r \in RevokedRows' : r \in RevokedRows \cup {stamp(x) : x \in taken}
      BY <1>1, <1>4 DEF RevokedRows
    <2>2. \A r \in RevokedRows : r \in rows \ taken /\ r \in RevokedRows'
      BY <1>1, <1>4 DEF RevokedRows, InForce
    <2>3. \A r \in taken : stamp(r) \in RevokedRows'
      BY <1>1, <1>2, <1>3 DEF RevokedRows
    <2> QED BY <2>1, <2>2, <2>3
  <1>7. Entries' = Entries \cup (taken \X {at})
    <2>1. Entries' = {<<AsIssued(r), r.revoked>> : r \in RevokedRows'}
      BY DEF Entries, AsIssued
    <2>2. {<<AsIssued(r), r.revoked>> : r \in {stamp(x) : x \in taken}} = taken \X {at}
      BY <1>3
    <2> HIDE DEF taken
    <2> QED BY <1>6, <2>1, <2>2 DEF Entries
  <1>8. Life!RevokeAll(nid, at)
    BY <1>2, <1>5, <1>7 DEF Life!RevokeAll, InForce, Entries, RevokedRows
  <1>9. PICK c \in taken : TRUE
    BY <1>2
  <1>10. <<c, at>> \in Entries' /\ <<c, at>>[1].nid = nid /\ <<c, at>>[2] = at
    BY <1>3, <1>7
  <1>11. \E e \in Entries' : Life!RevokeAll(e[1].nid, e[2])
    BY <1>8, <1>10
  <1> QED BY <1>11 DEF Life!Next, Entries, RevokedRows

-----------------------------------------------------------------------------
(* How far the serials reach *)

\* A table with unique and dense serials holds at most ten rows.
LEMMA TenRows == CoreInv => IsFiniteSet(rows) /\ Cardinality(rows) <= 10
PROOF
  <1> SUFFICES ASSUME CoreInv PROVE IsFiniteSet(rows) /\ Cardinality(rows) <= 10
    OBVIOUS
  <1> DEFINE serialOf == [r \in rows |-> r.serial]
  <1>1. serialOf \in [rows -> 1..10]
    BY DEF CoreInv, SerialsDense, NoGapBelow
  <1>2. \A r1, r2 \in rows : serialOf[r1] = serialOf[r2] => r1 = r2
    BY DEF CoreInv, SerialsUnique
  <1> HIDE DEF serialOf
  <1>3. serialOf \in Injection(rows, 1..10)
    BY <1>1, <1>2 DEF Injection, IsInjective
  <1>4. IsFiniteSet(1..10) /\ Cardinality(1..10) = 10
    <2>1. PICK a \in Int, b \in Int : a = 1 /\ b = 10
      OBVIOUS
    <2>2. IsFiniteSet(a..b) /\ Cardinality(a..b) = IF a > b THEN 0 ELSE b - a + 1
      BY FS_Interval
    <2> QED BY <2>1, <2>2
  <1>5. IsFiniteSet(rows) /\ Cardinality(rows) <= Cardinality(1..10)
    BY <1>3, <1>4, FS_Injection
  <1> QED BY <1>4, <1>5

\* The next serial is free exactly as long as the tenth is.
LEMMA FreshOnDense == CoreInv => FreshUntilTen
PROOF
  <1> SUFFICES ASSUME CoreInv PROVE FreshUntilTen
    OBVIOUS
  <1>1. Dense(StoredSerials)
    BY TableDense
  <1>2. /\ NextSerial(StoredSerials) \in 1..10
        /\ NextSerial(StoredSerials) \in StoredSerials => NextSerial(StoredSerials) = 10
    BY <1>1, NextSerialExtends
  <1>3. 10 \in StoredSerials => 1..10 \subseteq StoredSerials
    BY <1>1 DEF Dense
  <1> QED BY <1>2, <1>3 DEF FreshUntilTen, NextSerialFresh

=============================================================================
