-------------------------------- MODULE Queries --------------------------------
(***************************************************************************)
(* The requests that issue nothing: revoke, verify and the revocation      *)
(* list, served by tasks of their own next to the issuing handlers of      *)
(* ThreadedCa.  A revocation takes its date before it waits for the        *)
(* connection; verify compares the expiry of the row it has read with a    *)
(* clock it reads later; between the two the table may change.  QueryErrors*)
(* covers revoke and verify as well (unwrap_or(false), unwrap_or(None)),   *)
(* CrlErrors the list, which Rust and Go answer although it is incomplete. *)
(***************************************************************************)
EXTENDS ThreadedCa

CONSTANTS
    Tasks,        \* the tasks that serve these requests
    CrlErrors,    \* of crl: "raised", or answered with what was read ("partial")
    MaxErrors     \* bound on the errors these tasks meet

ASSUME QueryAssumption ==
    /\ CrlErrors \in {"raised", "partial"}
    /\ MaxErrors \in Nat

VARIABLES
    task,         \* task[t]: the request task t is serving
    errors        \* the errors these tasks have met

qvars == <<vars, task, errors>>

\* What holds of each NID now, as verify would say it, and of which row.
Verdict == [nid \in Nids |-> Verdicts(nid)]
Verified == [nid \in Nids |-> MostRecent(nid)]

\* row is the row verify has read, which its answer names and quotes.  seen and
\* current are a history: the verdicts that have held of the NID since the
\* request came in, and the rows it was verified by; listed is the revocation
\* list of the moment the request came in.
NoTask == [phase |-> "idle", kind |-> "none", nid |-> None, at |-> 0, row |-> None,
           answer |-> "none", met |-> "nothing", seen |-> {}, current |-> {},
           listed |-> {}, list |-> {}]

Waiting(q) == q.phase \in {"asked", "read"}

\* Every task, after a step that may have changed the table or the clock.
Watched == [t \in Tasks |->
    IF Waiting(task[t]) /\ task[t].nid \in Nids
    THEN [task[t] EXCEPT !.seen = @ \cup Verdict'[task[t].nid],
                         !.current = @ \cup Verified'[task[t].nid]]
    ELSE task[t]]

QInit == Init /\ task = [t \in Tasks |-> NoTask] /\ errors = 0

\* The answer of t.
Tell(t, answer, list) ==
    task' = [Watched EXCEPT ![t].phase = "told", ![t].answer = answer, ![t].list = list,
                            ![t].at = 0]

\* An error of t's database call, which leaves the table as it is.
TellError(t, answer, list) ==
    /\ errors < MaxErrors
    /\ UNCHANGED vars
    /\ errors' = errors + 1
    /\ task' = [Watched EXCEPT ![t].phase = "told", ![t].answer = answer, ![t].list = list,
                               ![t].met = "error", ![t].at = 0]

\* A task takes up a request about a NID, or (None) for the list.
Ask(t, kind, nid, at) ==
    /\ task[t].phase = "idle"
    /\ UNCHANGED <<vars, errors>>
    /\ task' = [task EXCEPT ![t] =
            [NoTask EXCEPT !.phase = "asked", !.kind = kind, !.nid = nid, !.at = at,
                           !.seen = IF nid = None THEN {} ELSE Verdicts(nid),
                           !.current = IF nid = None THEN {} ELSE MostRecent(nid),
                           !.listed = IF nid = None THEN Crl ELSE {}]]

\* Mutant: the date is left to the UPDATE, which does not set it.
AskRevokeUndated(t) == \E nid \in Nids : Ask(t, "revoke", nid, 0)

\* revoke: its date is that of the moment, not of the UPDATE.
AskRevoke(t) == \E nid \in Nids : Ask(t, "revoke", nid, clock)
AskVerify(t) == \E nid \in Nids : Ask(t, "verify", nid, 0)
AskCrl(t) == Ask(t, "crl", None, 0)

\* Mutant: only the row get_active returns is updated.
DoRevokeRow(t) ==
    /\ task[t].phase = "asked" /\ task[t].kind = "revoke"
    /\ \/ RevokeMostRecent(task[t].nid, task[t].at) /\ Tell(t, "revoked", {})
       \/ ~Active(task[t].nid) /\ UNCHANGED vars /\ Tell(t, "not found", {})
    /\ UNCHANGED errors

\* The UPDATE: 200, or 404 when it changed no row.
DoRevoke(t) ==
    /\ task[t].phase = "asked" /\ task[t].kind = "revoke"
    /\ \/ Revoke(task[t].nid, task[t].at) /\ Tell(t, "revoked", {})
       \/ ~Active(task[t].nid) /\ UNCHANGED vars /\ Tell(t, "not found", {})
    /\ UNCHANGED errors

\* unwrap_or(false) answers 404 for an UPDATE that failed.
RevokeError(t) ==
    /\ task[t].phase = "asked" /\ task[t].kind = "revoke"
    /\ TellError(t, IF QueryErrors = "absent" THEN "not found" ELSE "error", {})

\* get_active for verify.
ReadVerify(t) ==
    /\ task[t].phase = "asked" /\ task[t].kind = "verify"
    /\ UNCHANGED <<vars, errors>>
    /\ \/ \E r \in MostRecent(task[t].nid) :
            task' = [task EXCEPT ![t].phase = "read", ![t].row = r]
       \/ ~Active(task[t].nid) /\ Tell(t, "not found", {})

\* unwrap_or(None) answers 404 for a SELECT that failed.
VerifyError(t) ==
    /\ task[t].phase = "asked" /\ task[t].kind = "verify"
    /\ TellError(t, IF QueryErrors = "absent" THEN "not found" ELSE "error", {})

\* Mutant: the comparison is the wrong way round.
TellVerifySwapped(t) ==
    /\ task[t].phase = "read"
    /\ UNCHANGED <<vars, errors>>
    /\ Tell(t, IF task[t].row.expires < clock THEN "valid" ELSE "expired", {})

\* The expiry is compared with the clock of the answer.
TellVerify(t) ==
    /\ task[t].phase = "read"
    /\ UNCHANGED <<vars, errors>>
    /\ Tell(t, IF task[t].row.expires > clock THEN "valid" ELSE "expired", {})

ReadCrl(t) ==
    /\ task[t].phase = "asked" /\ task[t].kind = "crl"
    /\ UNCHANGED <<vars, errors>>
    /\ Tell(t, "list", Crl)

\* unwrap_or_default, filter_map(ok): the rows read before the error, or none.
CrlError(t) ==
    /\ task[t].phase = "asked" /\ task[t].kind = "crl"
    /\ IF CrlErrors = "partial"
       THEN \E part \in SUBSET Crl : TellError(t, "list", part)
       ELSE TellError(t, "error", {})

\* The answer has been sent and the task is free.
Sent(t) ==
    /\ task[t].phase = "told"
    /\ UNCHANGED <<vars, errors>>
    /\ task' = [task EXCEPT ![t] = NoTask]

TaskStep(t) ==
    \/ AskRevoke(t) \/ DoRevoke(t) \/ RevokeError(t)
    \/ AskVerify(t) \/ ReadVerify(t) \/ VerifyError(t) \/ TellVerify(t)
    \/ AskCrl(t) \/ ReadCrl(t) \/ CrlError(t)
    \/ Sent(t)

\* The issuing handlers and the clock go on; a crash loses these requests too,
\* and may come when no issuing handler is busy.
Around ==
    /\ \/ Tick /\ task' = Watched
       \/ (\E h \in Handlers : AcceptRequest(h) \/ Serve(h)) /\ task' = Watched
       \/ (Crash \/ UNCHANGED vars) /\ task' = [t \in Tasks |-> NoTask]
    /\ UNCHANGED errors

QNext == Around \/ \E t \in Tasks : TaskStep(t)

QSpec == QInit /\ [][QNext]_qvars

-----------------------------------------------------------------------------
(* What an answer is worth *)

QTypeOK ==
    /\ errors \in Nat
    /\ \A t \in Tasks :
         /\ task[t].phase \in {"idle", "asked", "read", "told"}
         /\ task[t].at \in 0..clock
         /\ task[t].kind = "revoke" /\ task[t].phase = "asked" => task[t].at # NULL
         /\ task[t].kind \in {"revoke", "verify"} => task[t].nid \in Nids
         /\ task[t].seen \subseteq {"valid", "expired", "not found"}

\* The certificate the answer of verify quotes was the one the NID was verified
\* by at some instant of the request.
QuotesCurrent(q) == q.row \in q.current

\* A revocation or a renewal has overtaken the request: the row it has read is
\* no longer, or no longer alone, what the NID is verified by.
Overtaken(q) == "not found" \in q.seen \/ q.current # {q.row}

\* What the answer says held at some instant between the request and now.
\* "revoked" says that the NID has no active certificate, whatever was renewed
\* meanwhile.  "expired" is said of the certificate the answer quotes: it has
\* run out by now.  Of the NID it is true as well, unless the request was
\* overtaken: then the certificate may have run out only after it was revoked
\* or succeeded by another, and the NID never was without a valid one.
TrueOnce(q) ==
    CASE q.answer \in {"revoked", "not found"} -> "not found" \in q.seen
      [] q.answer = "valid" -> QuotesCurrent(q) /\ "valid" \in q.seen
      [] q.answer = "expired" -> /\ QuotesCurrent(q) /\ q.row.expires <= clock
                                 /\ "expired" \in q.seen \/ Overtaken(q)
      [] q.answer = "list" -> q.listed \subseteq q.list /\ q.list \subseteq Crl
      [] OTHER -> TRUE

\* The port takes an error of this request for an answer.
FailsOpen(kind) ==
    IF kind = "crl" THEN CrlErrors = "partial" ELSE QueryErrors = "absent"

\* What an answer says held during its request, in the sense of TrueOnce, however
\* revocations, renewals and the clock run between its steps, unless the task met
\* an error that the port reads as an answer: then a revocation that failed is
\* reported as "not found", a certificate in force as unknown, a revoked one as
\* not revoked.
AnswersTrue ==
    \A t \in Tasks : task[t].phase = "told" /\ ~TrueOnce(task[t]) =>
        task[t].met = "error" /\ FailsOpen(task[t].kind)

\* Next to the issuing handlers these requests do what ThreadedCa says of a
\* revocation, with a date that is not in the future, and nothing else.
KeepsThreaded == Spec

=============================================================================
