-------------------------------- MODULE TsCa --------------------------------
(***************************************************************************)
(* The TypeScript port (src/example/ts).  Node runs one handler at a time, *)
(* better-sqlite3 is synchronous, and the v1 handlers contain no await     *)
(* between the lookup and the answer: each is one step.  register-x509     *)
(* awaits the signature of the leaf after it has looked the NID up, taken  *)
(* a serial and dated the certificate; other requests run meanwhile.  An   *)
(* exception of the database becomes a 500 answer.                         *)
(***************************************************************************)
EXTENDS CaServer

\* The request h starts on, with the serial and the date it gets.
Dated(op, nid, entity, key) ==
    [phase |-> "insert", op |-> op, nid |-> nid, entity |-> entity, key |-> key,
     expires |-> 0, serial |-> NextSerial(StoredSerials), issued |-> clock]

\* insert and reply.code(201).send(...) or reply.send(...) with no await before
\* them.  If the serial is in use the handler throws, and nothing has changed.
IssueAtOnce(h, q) ==
    /\ q.serial \notin StoredSerials
    /\ rows' = rows \cup {Certificate(q)}
    /\ req' = [req EXCEPT ![h] = [q EXCEPT !.phase = "answer"]]

\* Handler h takes up a request.
TakeUp(h) ==
    /\ req[h].phase = "idle"
    /\ accepted < MaxRequests
    /\ accepted' = accepted + 1
    /\ UNCHANGED <<clock, delivered, faults>>

\* register: lookup, serial, signature and insert in one piece.
Register(h) ==
    \E nid \in Nids, entity \in Entities, key \in Keys :
        /\ TakeUp(h)
        /\ ~Active(nid)
        /\ IssueAtOnce(h, Dated("register", nid, entity, key))

\* Mutant: the renewal window is not looked at.
RenewAnyTime(h) ==
    \E nid \in Nids :
        /\ TakeUp(h)
        /\ \E r \in MostRecent(nid) : IssueAtOnce(h, Dated("renew", nid, r.entity, r.key))

\* The renew handlers: the same, with the subject of the row they read.
Renew(h) ==
    \E nid \in Nids :
        /\ TakeUp(h)
        /\ \E r \in MostRecent(nid) :
             /\ ~TooEarly(r)
             /\ IssueAtOnce(h, Dated("renew", nid, r.entity, r.key))

\* Mutant: the NID is not looked up.
RegisterX509Blind(h) ==
    \E nid \in Nids, entity \in Entities, key \in Keys :
        /\ TakeUp(h)
        /\ req' = [req EXCEPT ![h] = Dated("register_x509", nid, entity, key)]
        /\ UNCHANGED rows

\* registerX509 up to its await.
RegisterX509(h) ==
    \E nid \in Nids, entity \in Entities, key \in Keys :
        /\ TakeUp(h)
        /\ ~Active(nid)
        /\ req' = [req EXCEPT ![h] = Dated("register_x509", nid, entity, key)]
        /\ UNCHANGED rows

\* The awaited signature is rejected: the handler throws.
LeafRejected(h) ==
    /\ req[h].phase = "insert"
    /\ Drop(h)
    /\ UNCHANGED <<rows, clock, delivered, accepted, faults>>

\* Mutant: the serial is taken after the await.
ResumeX509Fresh(h) ==
    /\ req[h].phase = "insert"
    /\ IssueAtOnce(h, [req[h] EXCEPT !.serial = NextSerial(StoredSerials)])
    /\ UNCHANGED <<clock, delivered, accepted, faults>>

\* Mutant: the answer is sent whatever became of the insert.
ResumeX509Swallowed(h) == LeafRejected(h) \/ Insert(h) \/ InsertErrorDiscarded(h)

\* registerX509 after its await.
ResumeX509(h) == LeafRejected(h) \/ Insert(h) \/ InsertErrorRaised(h)

\* The event loop runs what the request of h is waiting for.
Serve(h) == ResumeX509(h) \/ Respond(h)

Next ==
    \/ \E h \in Handlers : Register(h) \/ Renew(h) \/ RegisterX509(h) \/ Serve(h)
    \/ Background \/ \E nid \in Nids : Revoke(nid, clock)

Spec == Init /\ [][Next]_vars

\* The event loop runs every callback that is ready.
FairSpec == Spec /\ \A h \in Handlers : WF_vars(Serve(h))

-----------------------------------------------------------------------------

\* All the active certificates of a NID are for the same entity type and key:
\* a second registration is refused while one is active, also when it is made
\* during another's await.  There the serial decides: both hold the same one,
\* because the table has not changed, and UNIQUE lets only one of them in.
OneSubject ==
    \A r1, r2 \in rows :
        r1.nid = r2.nid /\ r1.revoked = NULL /\ r2.revoked = NULL =>
            r1.entity = r2.entity /\ r1.key = r2.key

\* The invariant OneSubject rests on: while the NID of a suspended registration
\* has an active row, the serial it holds is in use.
SuspendedIsCurrent ==
    \A h \in Handlers :
        req[h].phase = "insert" /\ Active(req[h].nid) => req[h].serial \in StoredSerials

\* If any active certificate of a NID is unexpired, verify says so, whichever
\* of several rows of the same second it reads.
VerifyFindsValid ==
    \A nid \in Nids :
        (\E r \in ActiveRows(nid) : r.expires > clock) => Verdicts(nid) = {"valid"}

\* Renewals do not pile up: of two active rows of a NID at least one is inside
\* its renewal window, where the validity exceeds the window.
OneOutsideWindow ==
    \A r1, r2 \in rows :
        (r1 # r2 /\ r1.nid = r2.nid /\ r1.revoked = NULL /\ r2.revoked = NULL)
            => ~TooEarly(r1) \/ ~TooEarly(r2)

\* The port keeps the promise of CaPromise, with its own table and clock.
Promise == INSTANCE CaPromise WITH
               rows <- rows, clock <- clock, delivered <- delivered
Implements == Promise!Spec

=============================================================================
