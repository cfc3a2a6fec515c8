------------------------------ MODULE ThreadedCa ------------------------------
(***************************************************************************)
(* The ports that serve requests side by side: Rust (tasks on tokio's      *)
(* multi-threaded runtime, one connection behind a mutex that is held for  *)
(* one call), Go (goroutines, the same mutex), Python and Java (a pool of  *)
(* threads, a connection of its own for every call).  Any two database     *)
(* calls of a handler can be separated by steps of other handlers.  The    *)
(* ports differ in what they make of a failing call; an instance of the    *)
(* constants QueryErrors, InsertErrors and Levels is one port:             *)
(*                                                                         *)
(*              QueryErrors   InsertErrors   Levels                        *)
(*    Rust      absent        discarded      ignored                       *)
(*    Go        raised        discarded      ignored                       *)
(*    Python    raised        raised         ignored                       *)
(*    Java      raised        raised         parsed                        *)
(***************************************************************************)
EXTENDS CaServer

CONSTANTS
    QueryErrors,    \* of get_active: "raised", or read as "absent" (unwrap_or(None))
    InsertErrors,   \* of insert: "raised", or "discarded" (.ok())
    Levels          \* the assurance level of a request: "ignored", or "parsed"

ASSUME PolicyAssumption ==
    /\ QueryErrors \in {"raised", "absent"}
    /\ InsertErrors \in {"raised", "discarded"}
    /\ Levels \in {"ignored", "parsed"}

\* get_active(..).unwrap_or(None) after an error: a registration goes on as
\* if the NID had no active row, a renewal is answered with 404.
LookupErrorAsAbsent(h) ==
    /\ req[h].phase = "lookup"
    /\ Fault
    /\ IF req[h].op \in RegisterOps THEN Goto(h, "serial") ELSE Drop(h)
    /\ UNCHANGED <<rows, clock, delivered, accepted>>

LookupFails(h) ==
    \/ QueryErrors = "raised" /\ FaultDrops(h, "lookup")
    \/ QueryErrors = "absent" /\ LookupErrorAsAbsent(h)

\* get_active, and what the handler makes of an empty answer.
DbGetActive(h) == LookupRegister(h) \/ LookupRenew(h) \/ LookupFails(h)

\* next_serial.  Its error is answered with 500, or unwraps into a panic that
\* closes the connection without an answer: nothing has been changed.
DbNextSerial(h) == TakeSerial(h) \/ FaultDrops(h, "serial")

\* Mutant: the error never stops the handler.
DbInsertSwallowed(h) == Insert(h) \/ InsertErrorDiscarded(h)

\* Mutant: the answer does not depend on the call being made at all.
DbInsertSkipped(h) ==
    \/ Insert(h)
    \/ req[h].phase = "insert" /\ Goto(h, "answer")
       /\ UNCHANGED <<rows, clock, delivered, accepted, faults>>

\* insert, with what the handler makes of its error.
DbInsert(h) ==
    \/ Insert(h)
    \/ InsertErrors = "raised" /\ InsertErrorRaised(h)
    \/ InsertErrors = "discarded" /\ InsertErrorDiscarded(h)

\* The calls the three issuing handlers make after the lookup.
Issue(h) == DbNextSerial(h) \/ Sign(h) \/ DbInsert(h) \/ Respond(h)

\* register, from the request to its answer.
Register(h) == req[h].op = "register" /\ (DbGetActive(h) \/ Issue(h))

\* AssuranceLevel.fromWire refuses the level of the request (Java): 500,
\* before a serial is taken.
LevelRejected(h) ==
    /\ Levels = "parsed"
    /\ req[h].phase = "serial"
    /\ Drop(h)
    /\ UNCHANGED <<rows, clock, delivered, accepted, faults>>

\* register_x509: the level or the public key may be refused on the way.
RegisterX509(h) ==
    /\ req[h].op = "register_x509"
    /\ DbGetActive(h) \/ LevelRejected(h) \/ Issue(h) \/ SignRejects(h)

\* renew.
Renew(h) == req[h].op = "renew" /\ (DbGetActive(h) \/ CheckWindow(h) \/ Issue(h))

\* The runtime runs the task or thread that serves the request.
Serve(h) == Register(h) \/ RegisterX509(h) \/ Renew(h)

\* A task or thread takes up a new request.
AcceptRequest(h) == AcceptRenew(h) \/ \E op \in RegisterOps : AcceptRegister(h, op)

\* A step of an issuing handler, of the clock, or a crash.
Work == Background \/ \E h \in Handlers : AcceptRequest(h) \/ Serve(h)

\* revoke computes its date before it waits for the connection, so that the
\* date may lie behind the clock when the row is stamped.
Next == Work \/ \E nid \in Nids, at \in 1..clock : Revoke(nid, at)

Spec == Init /\ [][Next]_vars

\* The runtime polls every task, or runs every thread, that is ready.
FairSpec == Spec /\ \A h \in Handlers : WF_vars(Serve(h))

-----------------------------------------------------------------------------
(* What the threaded ports promise *)

\* The errors a handler has taken for an empty answer: none where they are raised.
FailedOpen == IF QueryErrors = "absent" THEN faults ELSE 0

\* What a NID is bound to: the entity types and keys of its active rows.
Subjects(nid) == {<<r.entity, r.key>> : r \in ActiveRows(nid)}

\* Registrations that race for one NID can all be admitted before any of them
\* has inserted its row, and an unreadable table admits one for a NID in use.
\* The damage is bounded: a NID is bound to at most as many subjects at once as
\* requests are served concurrently, plus one for every error taken for an
\* empty table.
SubjectsBounded ==
    \A nid \in Nids : Cardinality(Subjects(nid)) <= Cardinality(Handlers) + FailedOpen

\* Renewals that race can all find the same row in its window, and each adds
\* one outside.  The damage is bounded in the same way: per entity type a NID
\* never has more active certificates outside their window, because a handler
\* that has stored one refuses the next renewal.
OutsideWindowBounded ==
    \A nid \in Nids, entity \in Entities :
        Cardinality({r \in ActiveRows(nid) : r.entity = entity /\ TooEarly(r)})
            <= Cardinality(Handlers) + FailedOpen

\* The certificates clients hold under serials the table does not know.
Lost == {c \in delivered : c.serial \notin StoredSerials}

\* A database error loses at most one certificate: each one delivered under a
\* serial that is not in the table is accounted for by an error of its own.
LostOnlyByFault == Cardinality(Lost) <= faults

\* Every request taken up is answered, with a certificate or with an error.
RequestsEnd ==
    \A h \in Handlers : req[h].phase # "idle" ~> req[h].phase = "idle"

=============================================================================
