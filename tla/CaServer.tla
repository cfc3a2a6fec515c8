------------------------------ MODULE CaServer ------------------------------
(***************************************************************************)
(* The certificate authority that the five ports of nip-ca-server under    *)
(* src/example have in common: the table nip_certificates, the requests    *)
(* being served, and the steps a handler is made of.  A step is one call   *)
(* of the database layer (each takes the connection's lock, or its own     *)
(* connection, and releases it before it returns) or one piece of code     *)
(* between two such calls.  The ports differ in which of the steps they    *)
(* run without interruption and in what they make of an error: ThreadedCa  *)
(* and TsCa build their next-state relations from these steps.             *)
(*                                                                         *)
(* A request refused before its first database call (401, 400) changes     *)
(* nothing and is not accepted here.  Capabilities, scope and metadata     *)
(* travel with the public key and are part of "key".  Time is in units of  *)
(* which DaySeconds make a day.                                            *)
(***************************************************************************)
EXTENDS Serials, FiniteSets

CONSTANTS
    Handlers,      \* the threads, goroutines or tasks that serve requests
    Nids,          \* the identifiers certificates are issued for
    Keys,          \* the public keys (and data) subjects register with
    None,          \* a field of a request that is not known yet
    Entities,      \* the entity types in use
    DaySeconds,    \* units of time in a day
    AgentDays,     \* validity of an agent's certificate, in days
    NodeDays,      \* validity of a node's certificate, in days
    RenewalDays,   \* the renewal window, in days before expiry
    MaxTime,       \* bound on the clock
    MaxRequests,   \* bound on the issuing requests accepted
    MaxFaults      \* bound on database errors and crashes

ASSUME ConstantsAssumption ==
    /\ IsFiniteSet(Handlers)
    /\ Entities \subseteq {"agent", "node"}
    /\ DaySeconds \in Nat \ {0}
    /\ AgentDays \in Nat \ {0}
    /\ NodeDays \in Nat \ {0}
    /\ RenewalDays \in Nat
    /\ MaxTime \in Nat \ {0}
    /\ MaxRequests \in Nat
    /\ MaxFaults \in Nat
    /\ None \notin Keys \cup Nids \cup Entities

VARIABLES
    rows,          \* the table nip_certificates
    clock,         \* the system clock
    req,           \* req[h]: the request handler h is serving
    delivered,     \* the certificates answered with 201 or 200
    accepted,      \* issuing requests accepted so far
    faults         \* database errors and crashes so far

vars == <<rows, clock, req, delivered, accepted, faults>>

-----------------------------------------------------------------------------
(* The table *)

\* revoked_at of a row that is not revoked.
NULL == 0

Row == [serial : Serial, nid : Nids, entity : Entities, key : Keys,
        issued : Nat, expires : Nat, revoked : Nat]

StoredSerials == {r.serial : r \in rows}

\* The rows of nid with revoked_at IS NULL.
ActiveRows(nid) == {r \in rows : r.nid = nid /\ r.revoked = NULL}

Active(nid) == ActiveRows(nid) # {}

\* Mutant: ORDER BY issued_at without DESC.
MostRecentAscending(nid) ==
    {r \in ActiveRows(nid) : \A o \in ActiveRows(nid) : o.issued >= r.issued}

\* The rows "ORDER BY issued_at DESC LIMIT 1" may return: the order of rows
\* with the same issued_at is not defined.
MostRecent(nid) ==
    {r \in ActiveRows(nid) : \A o \in ActiveRows(nid) : o.issued <= r.issued}

\* The entries of the certificate revocation list.
Crl == {<<r.serial, r.nid, r.revoked>> : r \in {r \in rows : r.revoked # NULL}}

\* What verify may answer for nid.
Verdicts(nid) ==
    IF Active(nid)
    THEN {IF r.expires > clock THEN "valid" ELSE "expired" : r \in MostRecent(nid)}
    ELSE {"not found"}

ValidityDays(entity) == IF entity = "agent" THEN AgentDays ELSE NodeDays

\* daysLeft > RENEWAL_DAYS, where daysLeft counts the whole days until the
\* expiry that the row, or the request that has read it, has.
TooEarly(r) == (r.expires - clock) \div DaySeconds > RenewalDays

-----------------------------------------------------------------------------
(* Requests *)

RegisterOps == {"register", "register_x509"}
IssueOps == RegisterOps \cup {"renew"}
Phases == {"idle", "lookup", "window", "serial", "sign", "insert", "answer"}

\* expires is that of the row a renewal has read and not yet decided on.
Request == [phase : Phases, op : IssueOps \cup {"none"}, nid : Nids \cup {None},
            entity : Entities \cup {None}, key : Keys \cup {None},
            expires : Nat, serial : Serial, issued : Nat]

\* A handler that serves no request.
Idle == [phase |-> "idle", op |-> "none", nid |-> None, entity |-> None,
         key |-> None, expires |-> 0, serial |-> 0, issued |-> 0]

Init ==
    /\ rows = {}
    /\ clock = 1
    /\ req = [h \in Handlers |-> Idle]
    /\ delivered = {}
    /\ accepted = 0
    /\ faults = 0

\* The request of h, in phase p.
Goto(h, p) == req' = [req EXCEPT ![h].phase = p]

\* The handler has sent its error answer.
Drop(h) == req' = [req EXCEPT ![h] = Idle]

NoFault == UNCHANGED faults
Fault == faults < MaxFaults /\ faults' = faults + 1

\* A handler starts on an authorised, valid request for a certificate.
Accept(h, op, nid, entity, key) ==
    /\ req[h].phase = "idle"
    /\ accepted < MaxRequests
    /\ req' = [req EXCEPT ![h] =
            [phase |-> "lookup", op |-> op, nid |-> nid, entity |-> entity, key |-> key,
             expires |-> 0, serial |-> 0, issued |-> 0]]
    /\ accepted' = accepted + 1
    /\ UNCHANGED <<rows, clock, delivered, faults>>

AcceptRegister(h, op) ==
    \E nid \in Nids, entity \in Entities, key \in Keys : Accept(h, op, nid, entity, key)

\* A renewal carries only the NID: entity and key come from the row it reads.
AcceptRenew(h) ==
    \E nid \in Nids : Accept(h, "renew", nid, None, None)

-----------------------------------------------------------------------------
(* The steps of a handler *)

\* Mutant: the registration does not look at what get_active returned.
LookupRegisterBlind(h) ==
    /\ req[h].phase = "lookup"
    /\ req[h].op \in RegisterOps
    /\ Goto(h, "serial")
    /\ UNCHANGED <<rows, clock, delivered, accepted, faults>>

\* get_active for a registration: 409 when the NID has an active row.
LookupRegister(h) ==
    /\ req[h].phase = "lookup"
    /\ req[h].op \in RegisterOps
    /\ IF Active(req[h].nid) THEN Drop(h) ELSE Goto(h, "serial")
    /\ UNCHANGED <<rows, clock, delivered, accepted, faults>>

\* Mutant: the subject of the row is not carried over.
LookupRenewBare(h) ==
    /\ req[h].phase = "lookup"
    /\ req[h].op = "renew"
    /\ IF Active(req[h].nid) THEN Goto(h, "window") ELSE Drop(h)
    /\ UNCHANGED <<rows, clock, delivered, accepted, faults>>

\* get_active for a renewal: 404 when there is no active row; otherwise the
\* handler goes on with the row it has read, whatever becomes of it.
LookupRenew(h) ==
    /\ req[h].phase = "lookup"
    /\ req[h].op = "renew"
    /\ \/ ~Active(req[h].nid) /\ Drop(h)
       \/ \E r \in MostRecent(req[h].nid) :
            req' = [req EXCEPT ![h].phase = "window", ![h].entity = r.entity,
                               ![h].key = r.key, ![h].expires = r.expires]
    /\ UNCHANGED <<rows, clock, delivered, accepted, faults>>

\* Mutant: the renewal window is not looked at.
CheckWindowNever(h) ==
    /\ req[h].phase = "window"
    /\ req' = [req EXCEPT ![h].phase = "serial", ![h].expires = 0]
    /\ UNCHANGED <<rows, clock, delivered, accepted, faults>>

\* The expiry of that row is compared with the clock, which is read only now:
\* 400 before the window opens.
CheckWindow(h) ==
    /\ req[h].phase = "window"
    /\ IF TooEarly(req[h])
       THEN Drop(h)
       ELSE req' = [req EXCEPT ![h].phase = "serial", ![h].expires = 0]
    /\ UNCHANGED <<rows, clock, delivered, accepted, faults>>

\* A database call fails and the handler answers 500 (or gives up).
FaultDrops(h, phase) ==
    /\ req[h].phase = phase
    /\ Fault
    /\ Drop(h)
    /\ UNCHANGED <<rows, clock, delivered, accepted>>

\* next_serial.
TakeSerial(h) ==
    /\ req[h].phase = "serial"
    /\ req' = [req EXCEPT ![h].phase = "sign", ![h].serial = NextSerial(StoredSerials)]
    /\ UNCHANGED <<rows, clock, delivered, accepted, faults>>

\* issue_cert: the certificate is dated and signed.
Sign(h) ==
    /\ req[h].phase = "sign"
    /\ req' = [req EXCEPT ![h].phase = "insert", ![h].issued = clock]
    /\ UNCHANGED <<rows, clock, delivered, accepted, faults>>

\* The X.509 half of issue_cert_x509 rejects the public key: 500.
SignRejects(h) ==
    /\ req[h].phase = "sign"
    /\ req[h].op = "register_x509"
    /\ Drop(h)
    /\ UNCHANGED <<rows, clock, delivered, accepted, faults>>

\* The certificate of request q, as the row it is stored in.
Certificate(q) ==
    [serial |-> q.serial, nid |-> q.nid, entity |-> q.entity, key |-> q.key,
     issued |-> q.issued, expires |-> q.issued + ValidityDays(q.entity) * DaySeconds,
     revoked |-> NULL]

\* insert: a row is added unless its serial violates UNIQUE.
Insert(h) ==
    /\ req[h].phase = "insert"
    /\ req[h].serial \notin StoredSerials
    /\ rows' = rows \cup {Certificate(req[h])}
    /\ Goto(h, "answer")
    /\ UNCHANGED <<clock, delivered, accepted, faults>>

\* insert fails: UNIQUE, or another database error.
InsertFails(h) ==
    /\ req[h].phase = "insert"
    /\ \/ req[h].serial \in StoredSerials /\ NoFault
       \/ Fault
    /\ UNCHANGED <<rows, clock, delivered, accepted>>

\* The error of insert is discarded: the handler goes on to its answer.
InsertErrorDiscarded(h) == InsertFails(h) /\ Goto(h, "answer")

\* Mutant: the error is caught and the handler waits instead of answering.
InsertErrorWaits(h) == InsertFails(h) /\ UNCHANGED req

\* The error of insert reaches the framework: 500.
InsertErrorRaised(h) == InsertFails(h) /\ Drop(h)

\* The certificate is sent to the client, with 201 or 200.
Respond(h) ==
    /\ req[h].phase = "answer"
    /\ delivered' = delivered \cup {Certificate(req[h])}
    /\ Drop(h)
    /\ UNCHANGED <<rows, clock, accepted, faults>>

-----------------------------------------------------------------------------
(* Steps outside the issuing handlers *)

\* Mutant: only the row get_active returns is revoked.
RevokeMostRecent(nid, at) ==
    /\ \E r \in MostRecent(nid) :
         rows' = (rows \ {r}) \cup {[r EXCEPT !.revoked = at]}
    /\ UNCHANGED <<clock, req, delivered, accepted, faults>>

\* Mutant: the UPDATE does not ask for revoked_at IS NULL.
RevokeAgain(nid, at) ==
    /\ \E r \in rows : r.nid = nid
    /\ rows' = {IF r.nid = nid THEN [r EXCEPT !.revoked = at] ELSE r : r \in rows}
    /\ UNCHANGED <<clock, req, delivered, accepted, faults>>

\* revoke: one UPDATE stamps every active row of the NID with the date "at".
\* Without an active row the answer is 404 and nothing changes.
Revoke(nid, at) ==
    /\ Active(nid)
    /\ rows' = {IF r \in ActiveRows(nid) THEN [r EXCEPT !.revoked = at] ELSE r : r \in rows}
    /\ UNCHANGED <<clock, req, delivered, accepted, faults>>

Tick ==
    /\ clock < MaxTime
    /\ clock' = clock + 1
    /\ UNCHANGED <<rows, req, delivered, accepted, faults>>

\* The process stops and is started again: requests are lost, the table stays.
Crash ==
    /\ \E h \in Handlers : req[h].phase # "idle"
    /\ Fault
    /\ req' = [h \in Handlers |-> Idle]
    /\ UNCHANGED <<rows, clock, delivered, accepted>>

Background == Tick \/ Crash

-----------------------------------------------------------------------------
(* What the certificate authority promises *)

\* Types.  A registration knows its subject from the start, a renewal once it is
\* past its lookup; only then may a certificate be made of the request.
TypeOK ==
    /\ rows \subseteq Row
    /\ clock \in Nat \ {0}
    /\ req \in [Handlers -> Request]
    /\ \A h \in Handlers :
         /\ req[h].phase # "idle" => req[h].nid \in Nids
         /\ req[h].op \in RegisterOps \/ req[h].phase \notin {"idle", "lookup"} =>
                req[h].entity \in Entities /\ req[h].key \in Keys
    /\ delivered \subseteq Row
    /\ accepted \in Nat
    /\ faults \in Nat

\* A serial next_serial has handed out and insert has not yet tried to store.
Taken(h) == req[h].phase \in {"sign", "insert"}

\* s can be stored next to the serials in the table without leaving a gap.
NoGapBelow(s) == s \in 1..10 /\ \A t \in 1..(s - 1) : t \in StoredSerials

\* The serials in the table are 1..k for some k, and k never exceeds ten: the
\* base-10 reading of base-16 texts sticks at 0x00000A.  Every serial a
\* handler holds between next_serial and insert is in use or is k + 1, however
\* the handlers interleave and whatever fails.
SerialsDense ==
    /\ \A r \in rows : NoGapBelow(r.serial)
    /\ \A h \in Handlers : Taken(h) => NoGapBelow(req[h].serial)

\* No two rows have one serial.  The UNIQUE constraint of the schema says so;
\* the proofs use it, and KeepsLedger says more.
SerialsUnique == \A r1, r2 \in rows : r1.serial = r2.serial => r1 = r2

\* A revocation reaches every row its NID has: a row of the NID that is still
\* active was inserted after the last revoked one (serials grow with the
\* table).  So no certificate superseded by a renewal survives a revocation.
RevocationTotal ==
    \A r1, r2 \in rows :
        r1.nid = r2.nid /\ r1.revoked # NULL /\ r2.revoked = NULL => r1.serial < r2.serial

Recorded(c) == \E r \in rows : [r EXCEPT !.revoked = NULL] = c

\* Every certificate a client has received is in the table, where verify finds
\* it and a revocation reaches it, whatever crashes or fails in between.
DeliveredRecorded == \A c \in delivered : Recorded(c)

\* A serial names one certificate: no two clients hold different certificates
\* under the same one.
DeliveredSerialsUnique ==
    \A c1, c2 \in delivered : c1.serial = c2.serial => c1 = c2

\* A renewal is granted only in the last RenewalDays days of the certificate
\* the handler has read.
RenewalsInWindow ==
    [][\A h \in Handlers :
          req[h].phase = "window" /\ req'[h].phase = "serial" =>
              req[h].expires - clock <= RenewalDays * DaySeconds]_vars

\* next_serial returns a serial no row has, as long as rows can be added.
NextSerialFresh == NextSerial(StoredSerials) \notin StoredSerials

\* Until the tenth certificate it does, and never again after it, whatever the
\* handlers raced for and whichever of their calls failed.
FreshUntilTen == NextSerialFresh <=> 10 \notin StoredSerials

-----------------------------------------------------------------------------
(* The life of the certificates *)

\* The table is a ledger: a row without revoked_at is a certificate in force, a
\* row with one is an entry of the revocation list.
AsIssued(r) == [r EXCEPT !.revoked = NULL]
Life == INSTANCE Ledger WITH
            inForce <- {r \in rows : r.revoked = NULL},
            revoked <- {<<AsIssued(r), r.revoked>> : r \in {r \in rows : r.revoked # NULL}}

\* Every certificate has the life the ledger gives it: serials are never used
\* twice, a revocation takes all certificates of its NID, nothing is revived
\* and no date of the revocation list changes.
KeepsLedger == Life!Spec

=============================================================================
