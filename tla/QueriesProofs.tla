----------------------------- MODULE QueriesProofs -----------------------------
(***************************************************************************)
(* The theorems about revoke, verify and the revocation list, for every    *)
(* policy and any number of tasks.  The invariant says of each request     *)
(* what its task may rely on: the verdicts of now are among those seen and *)
(* the rows of now among those it was verified by, the row verify has read *)
(* is one of these and was valid when it was read if it still is, and the  *)
(* list only grows.                                                        *)
(***************************************************************************)
EXTENDS Queries, ThreadedCaProofs

Says == {"valid", "expired", "not found"}
Entry == Serial \X Nids \X Nat
Answers == {"none", "revoked", "not found", "valid", "expired", "list", "error"}

QTask == [phase : {"idle", "asked", "read", "told"}, kind : {"none", "revoke", "verify", "crl"},
          nid : Nids \cup {None}, at : Nat, row : Row \cup {None}, answer : Answers,
          met : {"nothing", "error"},
          seen : SUBSET Says, current : SUBSET Row, listed : SUBSET Entry, list : SUBSET Entry]

\* TrueOnce, of a revocation list L, when now is the time.
TrueIn(q, L, now) ==
    /\ q.answer \in {"revoked", "not found"} => "not found" \in q.seen
    /\ q.answer = "valid" => QuotesCurrent(q) /\ "valid" \in q.seen
    /\ q.answer = "expired" => /\ QuotesCurrent(q) /\ q.row \in Row /\ q.row.expires <= now
                               /\ "expired" \in q.seen \/ Overtaken(q)
    /\ q.answer = "list" => q.listed \subseteq q.list /\ q.list \subseteq L

\* The request q, when V are the verdicts, M the rows they are about, L is the
\* list and now is the time.
TaskInv(q, V, M, L, now) ==
    /\ q \in QTask
    /\ q.at <= now
    /\ q.kind = "revoke" /\ q.phase = "asked" => q.at # NULL
    /\ q.kind \in {"revoke", "verify"} => q.nid \in Nids
    /\ Waiting(q) /\ q.nid \in Nids => V[q.nid] \subseteq q.seen /\ M[q.nid] \subseteq q.current
    /\ q.phase = "read" =>
         /\ q.kind = "verify"
         /\ q.row \in Row /\ QuotesCurrent(q)
         /\ q.row.expires > now => "valid" \in q.seen
    /\ q.kind = "crl" /\ q.phase = "asked" => q.listed \subseteq L
    /\ q.phase = "told" => TrueIn(q, L, now) \/ (q.met = "error" /\ FailsOpen(q.kind))

QInv ==
    /\ CoreInv
    /\ errors \in Nat
    /\ task = [t \in Tasks |-> task[t]]
    /\ \A t \in Tasks : TaskInv(task[t], Verdict, Verified, Crl, clock)

\* What a request becomes when the table or the clock goes on.
Seen(q, V1, M1) ==
    IF Waiting(q) /\ q.nid \in Nids
    THEN [q EXCEPT !.seen = @ \cup V1[q.nid], !.current = @ \cup M1[q.nid]]
    ELSE q

LEMMA SeenKeeps ==
    ASSUME NEW q, NEW V, NEW M, NEW L, NEW now \in Nat, TaskInv(q, V, M, L, now),
           NEW V1, \A n \in Nids : V1[n] \subseteq Says,
           NEW M1, \A n \in Nids : M1[n] \subseteq Row,
           NEW L1, L \subseteq L1, NEW now1 \in Nat, now <= now1
    PROVE  TaskInv(Seen(q, V1, M1), V1, M1, L1, now1)
PROOF
  <1>0. \A r \in Row : /\ r.expires > now1 => r.expires > now
                       /\ r.expires <= now => r.expires <= now1
    BY DEF Row
  <1>1. CASE Waiting(q) /\ q.nid \in Nids
    <2>1. PICK q1 : q1 = [q EXCEPT !.seen = @ \cup V1[q.nid], !.current = @ \cup M1[q.nid]]
      OBVIOUS
    <2>2. q \in QTask
      BY DEF TaskInv
    <2>3. /\ q1 \in QTask /\ q1.phase = q.phase /\ q1.kind = q.kind /\ q1.nid = q.nid
          /\ q1.at = q.at /\ q1.row = q.row /\ q1.listed = q.listed
          /\ q1.seen = q.seen \cup V1[q.nid] /\ q1.current = q.current \cup M1[q.nid]
      BY <1>1, <2>1, <2>2 DEF QTask
    <2>4. q.phase # "told" /\ q.at \in Nat /\ q.at <= now1
      BY <1>1, <2>2 DEF Waiting, QTask, TaskInv
    <2>5. q1.phase = "read" =>
            /\ q1.kind = "verify" /\ q1.row \in Row /\ QuotesCurrent(q1)
            /\ q1.row.expires > now1 => "valid" \in q1.seen
      BY <1>0, <2>3 DEF TaskInv, QuotesCurrent
    <2>6. TaskInv(q1, V1, M1, L1, now1)
      BY <2>3, <2>4, <2>5 DEF TaskInv, Waiting
    <2> QED BY <1>1, <2>1, <2>6 DEF Seen
  <1>2. CASE ~(Waiting(q) /\ q.nid \in Nids)
    <2>1. q.at <= now1 /\ q.phase # "read"
      BY <1>2 DEF TaskInv, QTask, Waiting
    <2>2. TrueIn(q, L, now) => TrueIn(q, L1, now1)
      BY <1>0 DEF TrueIn
    <2>3. /\ q \in QTask
          /\ q.kind = "revoke" /\ q.phase = "asked" => q.at # NULL
          /\ q.kind \in {"revoke", "verify"} => q.nid \in Nids
          /\ q.kind = "crl" /\ q.phase = "asked" => q.listed \subseteq L
          /\ q.phase = "told" => TrueIn(q, L, now) \/ (q.met = "error" /\ FailsOpen(q.kind))
      BY DEF TaskInv
    <2>4. /\ q.kind = "crl" /\ q.phase = "asked" => q.listed \subseteq L1
          /\ q.phase = "told" => TrueIn(q, L1, now1) \/ (q.met = "error" /\ FailsOpen(q.kind))
      BY <2>2, <2>3
    <2>5. TaskInv(q, V1, M1, L1, now1)
      BY ONLY <1>2, <2>1, <2>3, <2>4 DEF TaskInv
    <2> QED BY <1>2, <2>5 DEF Seen
  <1> QED BY <1>1, <1>2

LEMMA IdleTask == \A V, M, L : \A now \in Nat : TaskInv(NoTask, V, M, L, now)
PROOF
  <1>1. NoTask \in QTask
    BY DEF NoTask, QTask, Answers
  <1> QED BY <1>1 DEF TaskInv, NoTask, Waiting

LEMMA VerdictSays == \A n \in Nids : Verdict[n] \subseteq Says
PROOF BY DEF Verdict, Verdicts, Says

LEMMA VerifiedRows == CoreInv => \A n \in Nids : Verified[n] \subseteq Row
PROOF BY DEF Verified, MostRecent, ActiveRows, CoreInv, TypeOK

LEMMA CrlEntries == CoreInv => Crl \subseteq Entry
PROOF BY DEF Crl, Entry, CoreInv, TypeOK, Row

\* The list only grows and the clock does not go back.
LEMMA NothingComesBack ==
    ASSUME CoreInv, [Next]_vars
    PROVE  Crl \subseteq Crl' /\ clock \in Nat /\ clock' \in Nat /\ clock <= clock'
PROOF
  <1>0. clock \in Nat
    BY DEF CoreInv, TypeOK
  <1>1. rows \subseteq rows' => Crl \subseteq Crl'
    BY DEF Crl
  <1>2. ASSUME NEW h \in Handlers, Serve(h) PROVE rows \subseteq rows' /\ clock' = clock
    <2>1. rows \subseteq rows'
      BY <1>2, ServeKeepsLedger DEF Insert
    <2>2. DbGetActive(h) => clock' = clock
      BY DEF DbGetActive, LookupRegister, LookupRenew, LookupFails, FaultDrops,
             LookupErrorAsAbsent
    <2>3. Issue(h) => clock' = clock
      BY DEF Issue, DbNextSerial, TakeSerial, FaultDrops, Sign, DbInsert, Insert,
             InsertErrorRaised, InsertErrorDiscarded, InsertFails, Respond
    <2>4. LevelRejected(h) \/ SignRejects(h) \/ CheckWindow(h) => clock' = clock
      BY DEF LevelRejected, SignRejects, CheckWindow
    <2> QED BY <1>2, <2>1, <2>2, <2>3, <2>4 DEF Serve, Register, RegisterX509, Renew
  <1>3. ASSUME NEW h \in Handlers, AcceptRequest(h) PROVE rows' = rows /\ clock' = clock
    BY <1>3 DEF AcceptRequest, AcceptRenew, AcceptRegister, Accept
  <1>4. ASSUME Background \/ UNCHANGED vars
        PROVE  rows' = rows /\ (clock' = clock \/ clock' = clock + 1)
    BY <1>4 DEF Background, Tick, Crash, vars
  <1>5. ASSUME NEW nid \in Nids, NEW at \in 1..clock, Revoke(nid, at)
        PROVE  Crl \subseteq Crl' /\ clock' = clock
    <2>1. \A r \in rows : r.revoked # NULL => r \in rows'
      BY <1>5 DEF Revoke, ActiveRows
    <2> QED BY <1>5, <2>1 DEF Crl, Revoke
  <1> QED BY <1>0, <1>1, <1>2, <1>3, <1>4, <1>5 DEF Next, Work

-----------------------------------------------------------------------------
(* The refinement *)

\* Every step is a step of ThreadedCa or leaves its state alone.
LEMMA QStepThreaded == QInv /\ [QNext]_qvars => [Next]_vars
PROOF
  <1> SUFFICES ASSUME QInv, QNext \/ UNCHANGED qvars PROVE Next \/ UNCHANGED vars
    OBVIOUS
  <1>1. CASE UNCHANGED qvars
    BY <1>1 DEF qvars
  <1>2. CASE Around
    BY <1>2 DEF Around, Next, Work, Background
  <1>3. ASSUME NEW t \in Tasks, DoRevoke(t) PROVE Next \/ UNCHANGED vars
    <2>1. TaskInv(task[t], Verdict, Verified, Crl, clock)
      BY DEF QInv
    <2>2. task[t].nid \in Nids /\ task[t].at \in Nat /\ task[t].at # 0 /\ task[t].at <= clock
      BY <1>3, <2>1 DEF DoRevoke, TaskInv, QTask, NULL
    <2>3. task[t].at \in 1..clock
      BY <2>2 DEF QInv, CoreInv, TypeOK
    <2> QED BY <1>3, <2>2, <2>3 DEF DoRevoke, Next
  <1>4. ASSUME NEW t \in Tasks, TaskStep(t), ~DoRevoke(t) PROVE UNCHANGED vars
    BY <1>4 DEF TaskStep, AskRevoke, AskVerify, AskCrl, Ask, RevokeError, TellError,
                ReadVerify, VerifyError, TellVerify, ReadCrl, CrlError, Sent
  <1> QED BY <1>1, <1>2, <1>3, <1>4 DEF QNext

-----------------------------------------------------------------------------
(* What becomes of a request *)

LEMMA WatchedIsSeen == Watched = [u \in Tasks |-> Seen(task[u], Verdict', Verified')]
PROOF BY DEF Watched, Seen

\* The requests a step does not serve.
LEMMA OthersKeep ==
    ASSUME QInv, [Next]_vars, NEW u \in Tasks
    PROVE  TaskInv(Seen(task[u], Verdict', Verified'), Verdict', Verified', Crl', clock')
PROOF
  <1>1. CoreInv /\ TaskInv(task[u], Verdict, Verified, Crl, clock)
    BY DEF QInv
  <1>2. Crl \subseteq Crl' /\ clock \in Nat /\ clock' \in Nat /\ clock <= clock'
    BY <1>1, NothingComesBack
  <1>3. \A n \in Nids : Verdict'[n] \subseteq Says
    BY DEF Verdict, Verdicts, Says
  <1>4. CoreInv'
    BY <1>1, NextPreservesCore
  <1>5. \A n \in Nids : Verified'[n] \subseteq Row
    BY <1>4 DEF Verified, MostRecent, ActiveRows, CoreInv, TypeOK
  <1> QED BY <1>1, <1>2, <1>3, <1>5, SeenKeeps

\* A request that is answered.
Told(q, answer, list, met) ==
    [q EXCEPT !.phase = "told", !.answer = answer, !.list = list, !.met = met, !.at = 0]

\* What its answer says of the rest of the request.
Answering(q, answer, list) ==
    [seen |-> q.seen, current |-> q.current, row |-> q.row, listed |-> q.listed,
     answer |-> answer, list |-> list]

LEMMA ToldKeeps ==
    ASSUME NEW q, NEW V, NEW M, NEW L, NEW now \in Nat, TaskInv(q, V, M, L, now),
           NEW answer \in Answers, NEW list \in SUBSET Entry,
           NEW met \in {"nothing", "error"},
           \/ TrueIn(Answering(q, answer, list), L, now)
           \/ met = "error" /\ FailsOpen(q.kind)
    PROVE  TaskInv(Told(q, answer, list, met), V, M, L, now)
PROOF
  <1>1. PICK r : r = Told(q, answer, list, met)
    OBVIOUS
  <1>2. q \in QTask /\ (q.kind \in {"revoke", "verify"} => q.nid \in Nids)
    BY DEF TaskInv
  <1>3. /\ r \in QTask /\ r.phase = "told" /\ r.answer = answer /\ r.list = list /\ r.met = met
        /\ r.at = 0 /\ r.kind = q.kind /\ r.nid = q.nid /\ r.seen = q.seen
        /\ r.listed = q.listed /\ r.row = q.row /\ r.current = q.current
    BY <1>1, <1>2 DEF Told, QTask
  <1>4. TrueIn(r, L, now) \/ (r.met = "error" /\ FailsOpen(r.kind))
    BY <1>3 DEF TrueIn, Answering, QuotesCurrent, Overtaken
  <1>5. TaskInv(r, V, M, L, now)
    BY <1>2, <1>3, <1>4 DEF TaskInv, Waiting
  <1> QED BY <1>1, <1>5

\* One request changes in place, the table and the clock stay.
LEMMA InPlace ==
    ASSUME QInv, UNCHANGED vars, NEW t \in Tasks, NEW q,
           TaskInv(q, Verdict, Verified, Crl, clock), task' = [task EXCEPT ![t] = q]
    PROVE  /\ task' = [u \in Tasks |-> task'[u]]
           /\ \A u \in Tasks : TaskInv(task'[u], Verdict', Verified', Crl', clock')
PROOF
  <1>1. Verdict' = Verdict /\ Verified' = Verified /\ Crl' = Crl /\ clock' = clock
    BY DEF vars, Verdict, Verified, Verdicts, Active, MostRecent, ActiveRows, Crl
  <1>2. task = [u \in Tasks |-> task[u]]
    BY DEF QInv
  <1>3. task' = [u \in Tasks |-> IF u = t THEN q ELSE task[u]]
    BY <1>2
  <1>4. \A u \in Tasks : TaskInv(task[u], Verdict, Verified, Crl, clock)
    BY DEF QInv
  <1> QED BY <1>1, <1>3, <1>4

\* One request is answered, the others are watched.
LEMMA Answered ==
    ASSUME QInv, [Next]_vars, NEW t \in Tasks,
           NEW answer \in Answers, NEW list \in SUBSET Entry,
           NEW met \in {"nothing", "error"},
           task' = [Watched EXCEPT ![t] = Told(Watched[t], answer, list, met)],
           \/ TrueIn(Answering(Watched[t], answer, list), Crl', clock')
           \/ met = "error" /\ FailsOpen(Watched[t].kind)
    PROVE  /\ task' = [u \in Tasks |-> task'[u]]
           /\ \A u \in Tasks : TaskInv(task'[u], Verdict', Verified', Crl', clock')
PROOF
  <1>1. \A u \in Tasks : Watched[u] = Seen(task[u], Verdict', Verified')
    BY WatchedIsSeen
  <1>2. \A u \in Tasks : TaskInv(Watched[u], Verdict', Verified', Crl', clock')
    BY <1>1, OthersKeep
  <1>3. clock' \in Nat
    BY NothingComesBack DEF QInv
  <1>4. TaskInv(Told(Watched[t], answer, list, met), Verdict', Verified', Crl', clock')
    BY <1>2, <1>3, ToldKeeps
  <1>5. task' = [u \in Tasks |-> IF u = t THEN Told(Watched[t], answer, list, met)
                                          ELSE Watched[u]]
    BY WatchedIsSeen
  <1> QED BY <1>2, <1>4, <1>5

LEMMA TellIsTold ==
    ASSUME QInv, [Next]_vars, NEW t \in Tasks, NEW answer, NEW list, Tell(t, answer, list)
    PROVE  task' = [Watched EXCEPT ![t] = Told(Watched[t], answer, list, Watched[t].met)]
PROOF
  <1>1. Watched = [u \in Tasks |-> Seen(task[u], Verdict', Verified')]
    BY WatchedIsSeen
  <1>2. Watched[t] \in QTask
    BY <1>1, OthersKeep DEF TaskInv
  <1>3. task' = [u \in Tasks |-> IF u = t THEN task'[t] ELSE Watched[u]]
    BY <1>1 DEF Tell
  <1>4. PICK q : q = Watched[t]
    OBVIOUS
  <1>5. PICK r : r = task'[t]
    OBVIOUS
  <1>6. r = [q EXCEPT !.phase = "told", !.answer = answer, !.list = list, !.at = 0]
    BY <1>1, <1>4, <1>5 DEF Tell
  <1>7. r = Told(q, answer, list, q.met)
    BY <1>2, <1>4, <1>6 DEF Told, QTask
  <1> QED BY <1>1, <1>3, <1>4, <1>5, <1>7

\* A task that answers with what it has found.
LEMMA TellKeeps ==
    ASSUME QInv, [Next]_vars, NEW t \in Tasks, NEW answer \in Answers,
           NEW list \in SUBSET Entry, Tell(t, answer, list),
           TrueIn(Answering(Watched[t], answer, list), Crl', clock')
    PROVE  /\ task' = [u \in Tasks |-> task'[u]]
           /\ \A u \in Tasks : TaskInv(task'[u], Verdict', Verified', Crl', clock')
PROOF
  <1>1. Watched[t].met \in {"nothing", "error"}
    BY WatchedIsSeen, OthersKeep DEF TaskInv, QTask
  <1>2. task' = [Watched EXCEPT ![t] = Told(Watched[t], answer, list, Watched[t].met)]
    BY TellIsTold
  <1> QED BY <1>1, <1>2, Answered

\* A task whose call has failed.
LEMMA ErrorKeeps ==
    ASSUME QInv, [Next]_vars, NEW t \in Tasks, NEW answer \in Answers,
           NEW list \in SUBSET Entry, TellError(t, answer, list),
           answer = "error" \/ FailsOpen(task[t].kind)
    PROVE  /\ task' = [u \in Tasks |-> task'[u]]
           /\ \A u \in Tasks : TaskInv(task'[u], Verdict', Verified', Crl', clock')
PROOF
  <1>1. Watched = [u \in Tasks |-> Seen(task[u], Verdict', Verified')]
    BY WatchedIsSeen
  <1>2. Watched[t].kind = task[t].kind
    <2>1. task[t] \in QTask
      BY DEF QInv, TaskInv
    <2> QED BY <1>1, <2>1 DEF Seen, QTask
  <1>3. task' = [Watched EXCEPT ![t] = Told(Watched[t], answer, list, "error")]
    BY <1>1 DEF TellError, Told
  <1>4. \/ TrueIn(Answering(Watched[t], answer, list), Crl', clock')
        \/ FailsOpen(Watched[t].kind)
    BY <1>2 DEF TrueIn, Answering
  <1> QED BY <1>3, <1>4, Answered

\* What a watched request has seen.
LEMMA WatchedSeen ==
    ASSUME QInv, [Next]_vars, NEW t \in Tasks, Waiting(task[t])
    PROVE  /\ task[t].nid \in Nids =>
                 task[t].seen \cup Verdict'[task[t].nid] \subseteq Watched[t].seen
           /\ Watched[t].listed = task[t].listed /\ Watched[t].row = task[t].row
           /\ task[t].seen \subseteq Watched[t].seen
           /\ task[t].current \subseteq Watched[t].current
PROOF
  <1>1. Watched[t] = Seen(task[t], Verdict', Verified')
    BY WatchedIsSeen
  <1>2. task[t] \in QTask
    BY DEF QInv, TaskInv
  <1> QED BY <1>1, <1>2 DEF Seen, QTask

LEMMA AskKeeps ==
    ASSUME QInv, NEW t \in Tasks, NEW kind \in {"revoke", "verify", "crl"},
           NEW nid \in Nids \cup {None}, kind # "crl" => nid \in Nids, kind = "crl" => nid = None,
           NEW at \in Nat, at <= clock, kind = "revoke" => at # NULL, Ask(t, kind, nid, at)
    PROVE  /\ task' = [u \in Tasks |-> task'[u]]
           /\ \A u \in Tasks : TaskInv(task'[u], Verdict', Verified', Crl', clock')
PROOF
  <1>1. PICK q : q = [NoTask EXCEPT !.phase = "asked", !.kind = kind, !.nid = nid, !.at = at,
                           !.seen = IF nid = None THEN {} ELSE Verdicts(nid),
                           !.current = IF nid = None THEN {} ELSE MostRecent(nid),
                           !.listed = IF nid = None THEN Crl ELSE {}]
    OBVIOUS
  <1>2. q = [phase |-> "asked", kind |-> kind, nid |-> nid, at |-> at, row |-> None,
             answer |-> "none", met |-> "nothing",
             seen |-> IF nid = None THEN {} ELSE Verdicts(nid),
             current |-> IF nid = None THEN {} ELSE MostRecent(nid),
             listed |-> IF nid = None THEN Crl ELSE {}, list |-> {}]
    BY <1>1 DEF NoTask
  <1>3. None \notin Nids
    BY ConstantsAssumption
  <1>4. Crl \subseteq Entry /\ clock \in Nat
    BY CrlEntries DEF QInv, CoreInv, TypeOK
  <1>5. nid \in Nids => Verdicts(nid) = Verdict[nid] /\ Verdicts(nid) \subseteq Says
    BY VerdictSays DEF Verdict
  <1>6. nid \in Nids => MostRecent(nid) = Verified[nid] /\ MostRecent(nid) \subseteq Row
    BY VerifiedRows DEF Verified, QInv
  <1>7. q \in QTask
    BY <1>2, <1>3, <1>4, <1>5, <1>6 DEF QTask, Answers
  <1>8. TaskInv(q, Verdict, Verified, Crl, clock)
    BY <1>2, <1>3, <1>5, <1>6, <1>7 DEF TaskInv, Waiting
  <1> QED BY <1>1, <1>8, InPlace DEF Ask

LEMMA RevokedIsNotFound ==
    ASSUME CoreInv, NEW nid \in Nids, NEW at, at # NULL, Revoke(nid, at)
    PROVE  Verdict'[nid] = {"not found"}
PROOF
  <1>1. rows' = {IF r \in ActiveRows(nid) THEN [r EXCEPT !.revoked = at] ELSE r : r \in rows}
    BY DEF Revoke
  <1>2. rows \subseteq Row
    BY DEF CoreInv, TypeOK
  <1>3. ActiveRows(nid)' = {}
    BY <1>1, <1>2 DEF ActiveRows, Row, NULL
  <1> QED BY <1>3 DEF Verdict, Verdicts, Active

LEMMA DoRevokeKeeps ==
    ASSUME QInv, [Next]_vars, NEW t \in Tasks, DoRevoke(t)
    PROVE  /\ task' = [u \in Tasks |-> task'[u]]
           /\ \A u \in Tasks : TaskInv(task'[u], Verdict', Verified', Crl', clock')
PROOF
  <1>1. task[t].nid \in Nids /\ Waiting(task[t])
    BY DEF DoRevoke, QInv, TaskInv, Waiting
  <1>2. CASE Revoke(task[t].nid, task[t].at) /\ Tell(t, "revoked", {})
    <2>1. task[t].at # NULL
      BY DEF DoRevoke, QInv, TaskInv
    <2>2. CoreInv
      BY DEF QInv
    <2>3. Verdict'[task[t].nid] = {"not found"}
      BY <1>1, <1>2, <2>1, <2>2, RevokedIsNotFound
    <2>4. "not found" \in Watched[t].seen
      BY <1>1, <2>3, WatchedSeen
    <2>5. TrueIn(Answering(Watched[t], "revoked", {}), Crl', clock')
      BY <2>4 DEF TrueIn, Answering
    <2>6. "revoked" \in Answers /\ {} \in SUBSET Entry
      BY DEF Answers
    <2> QED BY <1>2, <2>5, <2>6, TellKeeps
  <1>3. CASE ~Active(task[t].nid) /\ UNCHANGED vars /\ Tell(t, "not found", {})
    <2>1. Verdict[task[t].nid] = {"not found"}
      BY <1>1, <1>3 DEF Verdict, Verdicts
    <2>2. "not found" \in task[t].seen
      BY <1>1, <2>1 DEF QInv, TaskInv
    <2>3. "not found" \in Watched[t].seen
      BY <1>1, <2>2, WatchedSeen
    <2>4. TrueIn(Answering(Watched[t], "not found", {}), Crl', clock')
      BY <2>3 DEF TrueIn, Answering
    <2>5. "not found" \in Answers /\ {} \in SUBSET Entry
      BY DEF Answers
    <2> QED BY <1>3, <2>4, <2>5, TellKeeps
  <1> QED BY <1>2, <1>3 DEF DoRevoke

LEMMA ReadVerifyKeeps ==
    ASSUME QInv, NEW t \in Tasks, ReadVerify(t)
    PROVE  /\ task' = [u \in Tasks |-> task'[u]]
           /\ \A u \in Tasks : TaskInv(task'[u], Verdict', Verified', Crl', clock')
PROOF
  <1>0. UNCHANGED vars
    BY DEF ReadVerify
  <1>1. TaskInv(task[t], Verdict, Verified, Crl, clock) /\ task[t].nid \in Nids /\ Waiting(task[t])
    BY DEF ReadVerify, QInv, TaskInv, Waiting
  <1>2. task[t] \in QTask /\ Verdict[task[t].nid] \subseteq task[t].seen
    BY <1>1 DEF TaskInv
  <1>3. ASSUME NEW r \in MostRecent(task[t].nid),
               task' = [task EXCEPT ![t].phase = "read", ![t].row = r]
        PROVE  /\ task' = [u \in Tasks |-> task'[u]]
               /\ \A u \in Tasks : TaskInv(task'[u], Verdict', Verified', Crl', clock')
    <2>1. PICK q : q = [task[t] EXCEPT !.phase = "read", !.row = r]
      OBVIOUS
    <2>2. r \in Row
      BY <1>1, <1>3, VerifiedRows DEF QInv, Verified
    <2>3. r.expires > clock => "valid" \in Verdict[task[t].nid]
      BY <1>1, <1>3 DEF Verdict, Verdicts, Active, MostRecent
    <2>4. r \in task[t].current
      BY <1>1, <1>3 DEF TaskInv, Verified
    <2>5. /\ q \in QTask /\ q.phase = "read" /\ q.row = r /\ q.seen = task[t].seen
          /\ q.kind = task[t].kind /\ q.nid = task[t].nid /\ q.at = task[t].at
          /\ q.current = task[t].current
      BY <1>2, <2>1, <2>2 DEF QTask
    <2>6. QuotesCurrent(q) /\ (q.row.expires > clock => "valid" \in q.seen)
      BY <1>2, <2>3, <2>4, <2>5 DEF QuotesCurrent
    <2>7. q.kind = "verify"
      BY <2>5 DEF ReadVerify
    <2>8. TaskInv(q, Verdict, Verified, Crl, clock)
      BY <1>1, <1>2, <2>2, <2>5, <2>6, <2>7 DEF TaskInv
    <2>9. task' = [task EXCEPT ![t] = q]
      BY <1>3, <2>1
    <2> QED BY <1>0, <2>8, <2>9, InPlace
  <1>4. CASE ~Active(task[t].nid) /\ Tell(t, "not found", {})
    <2>1. Verdict[task[t].nid] = {"not found"}
      BY <1>1, <1>4 DEF Verdict, Verdicts
    <2>2. "not found" \in Watched[t].seen
      BY <1>0, <1>1, <1>2, <2>1, WatchedSeen
    <2>3. TrueIn(Answering(Watched[t], "not found", {}), Crl', clock')
      BY <2>2 DEF TrueIn, Answering
    <2>4. "not found" \in Answers /\ {} \in SUBSET Entry
      BY DEF Answers
    <2> QED BY <1>0, <1>4, <2>3, <2>4, TellKeeps
  <1> QED BY <1>3, <1>4 DEF ReadVerify

\* Of the rows with serials up to k one is the latest, if there are any.
LatestUpTo(R, k) ==
    (\E r \in R : r.serial <= k) =>
        \E r \in R : r.serial <= k /\ \A o \in R : o.serial <= k => o.issued <= r.issued

LEMMA LatestStep ==
    ASSUME NEW R \in SUBSET Row, \A r1, r2 \in R : r1.serial = r2.serial => r1 = r2,
           NEW k \in Nat, LatestUpTo(R, k)
    PROVE  LatestUpTo(R, k + 1)
PROOF
  <1>1. \A r \in R : r.serial \in Nat /\ r.issued \in Nat
    BY DEF Row, Serial
  <1>2. \A r \in R : r.serial <= k + 1 <=> r.serial <= k \/ r.serial = k + 1
    BY <1>1
  <1>3. CASE \A r \in R : r.serial # k + 1
    BY <1>2, <1>3 DEF LatestUpTo
  <1>4. ASSUME NEW n \in R, n.serial = k + 1 PROVE LatestUpTo(R, k + 1)
    <2>1. \A o \in R : o.serial = k + 1 => o = n
      BY <1>4
    <2>2. CASE \A r \in R : ~(r.serial <= k)
      BY <1>1, <1>2, <1>4, <2>1, <2>2 DEF LatestUpTo
    <2>3. ASSUME NEW m \in R, m.serial <= k, \A o \in R : o.serial <= k => o.issued <= m.issued
          PROVE  LatestUpTo(R, k + 1)
      <3>1. CASE n.issued <= m.issued
        BY <1>2, <2>1, <2>3, <3>1 DEF LatestUpTo
      <3>2. CASE ~(n.issued <= m.issued)
        <4>1. \A o \in R : o.serial <= k + 1 => o.issued <= n.issued
          BY <1>1, <1>2, <2>1, <2>3, <3>2
        <4> QED BY <1>2, <1>4, <4>1 DEF LatestUpTo
      <3> QED BY <3>1, <3>2
    <2> QED BY <2>2, <2>3 DEF LatestUpTo
  <1> QED BY <1>3, <1>4

\* ORDER BY issued_at DESC LIMIT 1 finds a row if there is one.
LEMMA LatestFound ==
    ASSUME CoreInv, NEW nid, Active(nid)
    PROVE  MostRecent(nid) # {}
PROOF
  <1> DEFINE R == ActiveRows(nid)
  <1>1. R \in SUBSET Row /\ R # {}
    BY DEF CoreInv, TypeOK, ActiveRows, Active
  <1>2. \A r1, r2 \in R : r1.serial = r2.serial => r1 = r2
    BY DEF CoreInv, SerialsUnique, ActiveRows
  <1>3. \A r \in R : r.serial \in 1..10
    BY DEF CoreInv, SerialsDense, NoGapBelow, ActiveRows
  <1> HIDE DEF R
  <1>4. LatestUpTo(R, 0)
    BY <1>3 DEF LatestUpTo
  <1>5. \A k \in Nat : LatestUpTo(R, k) => LatestUpTo(R, k + 1)
    BY <1>1, <1>2, LatestStep
  <1>6. LatestUpTo(R, 1) /\ LatestUpTo(R, 2) /\ LatestUpTo(R, 3) /\ LatestUpTo(R, 4)
    <2>1. LatestUpTo(R, 0 + 1)
      BY <1>4, <1>5
    <2>2. LatestUpTo(R, 1 + 1)
      BY <1>5, <2>1
    <2>3. LatestUpTo(R, 2 + 1)
      BY <1>5, <2>2
    <2>4. LatestUpTo(R, 3 + 1)
      BY <1>5, <2>3
    <2> QED BY <2>1, <2>2, <2>3, <2>4
  <1>7. LatestUpTo(R, 5) /\ LatestUpTo(R, 6) /\ LatestUpTo(R, 7)
    <2>1. LatestUpTo(R, 4 + 1)
      BY <1>5, <1>6
    <2>2. LatestUpTo(R, 5 + 1)
      BY <1>5, <2>1
    <2>3. LatestUpTo(R, 6 + 1)
      BY <1>5, <2>2
    <2> QED BY <2>1, <2>2, <2>3
  <1>8. LatestUpTo(R, 10)
    <2>1. LatestUpTo(R, 7 + 1)
      BY <1>5, <1>7
    <2>2. LatestUpTo(R, 8 + 1)
      BY <1>5, <2>1
    <2>3. LatestUpTo(R, 9 + 1)
      BY <1>5, <2>2
    <2> QED BY <2>3
  <1>9. PICK r \in R : \A o \in R : o.issued <= r.issued
    BY <1>1, <1>3, <1>8 DEF LatestUpTo
  <1> QED BY <1>9 DEF R, MostRecent

\* A verify that says "expired" when it is overtaken by nothing is right about
\* the NID: the row it read is the one the NID is verified by now.
LEMMA ExpiredIsSeen ==
    ASSUME QInv, NEW t \in Tasks, task[t].phase = "read", ~(task[t].row.expires > clock),
           NEW S, task[t].seen \subseteq S, NEW C, task[t].current \subseteq C
    PROVE  "expired" \in S \/ "not found" \in S \/ C # {task[t].row}
PROOF
  <1>1. TaskInv(task[t], Verdict, Verified, Crl, clock) /\ CoreInv
    BY DEF QInv
  <1>2. task[t].nid \in Nids /\ Waiting(task[t])
    BY <1>1 DEF TaskInv, Waiting
  <1>3. /\ Verdicts(task[t].nid) \subseteq task[t].seen
        /\ MostRecent(task[t].nid) \subseteq task[t].current
    BY <1>1, <1>2 DEF TaskInv, Verdict, Verified
  <1>4. CASE ~Active(task[t].nid)
    BY <1>3, <1>4 DEF Verdicts
  <1>5. CASE task[t].row \in MostRecent(task[t].nid)
    BY <1>3, <1>5 DEF Verdicts, Active, MostRecent
  <1>6. CASE Active(task[t].nid) /\ task[t].row \notin MostRecent(task[t].nid)
    <2>1. PICK r : r \in MostRecent(task[t].nid)
      BY <1>1, <1>6, LatestFound
    <2> QED BY <1>3, <1>6, <2>1
  <1> QED BY <1>4, <1>5, <1>6

LEMMA TellVerifyKeeps ==
    ASSUME QInv, NEW t \in Tasks, TellVerify(t)
    PROVE  /\ task' = [u \in Tasks |-> task'[u]]
           /\ \A u \in Tasks : TaskInv(task'[u], Verdict', Verified', Crl', clock')
PROOF
  <1>0. UNCHANGED vars /\ Waiting(task[t]) /\ task[t].phase = "read" /\ clock' = clock
    BY DEF TellVerify, Waiting, vars
  <1>1. /\ task[t].row \in Row /\ task[t].row \in task[t].current
        /\ task[t].row.expires > clock => "valid" \in task[t].seen
    BY DEF TellVerify, QInv, TaskInv, QuotesCurrent
  <1>2. /\ task[t].seen \subseteq Watched[t].seen /\ Watched[t].row = task[t].row
        /\ task[t].current \subseteq Watched[t].current
    BY <1>0, WatchedSeen
  <1>3. CASE task[t].row.expires > clock
    <2>1. TrueIn(Answering(Watched[t], "valid", {}), Crl', clock')
      BY <1>1, <1>2, <1>3 DEF TrueIn, Answering, QuotesCurrent
    <2>2. "valid" \in Answers /\ {} \in SUBSET Entry /\ Tell(t, "valid", {})
      BY <1>3 DEF Answers, TellVerify
    <2> QED BY <1>0, <2>1, <2>2, TellKeeps
  <1>4. CASE ~(task[t].row.expires > clock)
    <2>1. \/ "expired" \in Watched[t].seen \/ "not found" \in Watched[t].seen
          \/ Watched[t].current # {task[t].row}
      BY <1>0, <1>2, <1>4, ExpiredIsSeen
    <2>2. task[t].row.expires <= clock'
      <3>1. task[t].row.expires \in Nat /\ clock \in Nat
        BY <1>1 DEF Row, QInv, CoreInv, TypeOK
      <3> QED BY <1>0, <1>4, <3>1
    <2>3. TrueIn(Answering(Watched[t], "expired", {}), Crl', clock')
      BY <1>1, <1>2, <2>1, <2>2 DEF TrueIn, Answering, QuotesCurrent, Overtaken
    <2>4. "expired" \in Answers /\ {} \in SUBSET Entry /\ Tell(t, "expired", {})
      BY <1>4 DEF Answers, TellVerify
    <2> QED BY <1>0, <2>3, <2>4, TellKeeps
  <1> QED BY <1>3, <1>4

LEMMA ReadCrlKeeps ==
    ASSUME QInv, NEW t \in Tasks, ReadCrl(t)
    PROVE  /\ task' = [u \in Tasks |-> task'[u]]
           /\ \A u \in Tasks : TaskInv(task'[u], Verdict', Verified', Crl', clock')
PROOF
  <1>0. UNCHANGED vars /\ Waiting(task[t])
    BY DEF ReadCrl, Waiting
  <1>1. task[t].listed \subseteq Crl /\ Crl \subseteq Entry /\ Crl' = Crl
    BY <1>0, CrlEntries DEF ReadCrl, QInv, TaskInv, Crl, vars
  <1>2. Watched[t].listed = task[t].listed
    BY <1>0, WatchedSeen
  <1> QED BY <1>0, <1>1, <1>2, TellKeeps DEF ReadCrl, TrueIn, Answering, Answers

LEMMA ErrorsKeep ==
    ASSUME QInv, NEW t \in Tasks, RevokeError(t) \/ VerifyError(t) \/ CrlError(t)
    PROVE  /\ task' = [u \in Tasks |-> task'[u]]
           /\ \A u \in Tasks : TaskInv(task'[u], Verdict', Verified', Crl', clock')
PROOF
  <1>0. UNCHANGED vars
    BY DEF RevokeError, VerifyError, CrlError, TellError
  <1>1. CASE RevokeError(t)
    <2>1. PICK answer : /\ answer = IF QueryErrors = "absent" THEN "not found" ELSE "error"
                        /\ TellError(t, answer, {})
      BY <1>1 DEF RevokeError
    <2>2. task[t].kind # "crl"
      BY <1>1 DEF RevokeError
    <2>3. answer \in Answers /\ (answer = "error" \/ FailsOpen(task[t].kind))
      BY <2>1, <2>2 DEF FailsOpen, Answers
    <2> QED BY <1>0, <2>1, <2>3, ErrorKeeps
  <1>2. CASE VerifyError(t)
    <2>1. PICK answer : /\ answer = IF QueryErrors = "absent" THEN "not found" ELSE "error"
                        /\ TellError(t, answer, {})
      BY <1>2 DEF VerifyError
    <2>2. task[t].kind # "crl"
      BY <1>2 DEF VerifyError
    <2>3. answer \in Answers /\ (answer = "error" \/ FailsOpen(task[t].kind))
      BY <2>1, <2>2 DEF FailsOpen, Answers
    <2> QED BY <1>0, <2>1, <2>3, ErrorKeeps
  <1>3. CASE CrlError(t)
    <2>1. Crl \subseteq Entry
      BY CrlEntries DEF QInv
    <2>2. "list" \in Answers /\ "error" \in Answers /\ {} \in SUBSET Entry
      BY DEF Answers
    <2>3. CASE CrlErrors = "partial"
      <3>1. PICK part \in SUBSET Crl : TellError(t, "list", part)
        BY <1>3, <2>3 DEF CrlError
      <3>2. FailsOpen(task[t].kind)
        BY <1>3, <2>3 DEF CrlError, FailsOpen
      <3>3. part \in SUBSET Entry
        BY <2>1
      <3> QED BY <1>0, <2>2, <3>1, <3>2, <3>3, ErrorKeeps
    <2>4. CASE CrlErrors # "partial"
      BY <1>0, <1>3, <2>2, <2>4, ErrorKeeps DEF CrlError
    <2> QED BY <2>3, <2>4
  <1> QED BY <1>1, <1>2, <1>3

-----------------------------------------------------------------------------
(* The invariant *)

LEMMA QInitInv == QInit => QInv
PROOF
  <1> SUFFICES ASSUME QInit PROVE QInv
    OBVIOUS
  <1>1. CoreInv
    BY InitInv DEF QInit
  <1>2. clock \in Nat
    BY <1>1 DEF CoreInv, TypeOK
  <1>3. \A t \in Tasks : TaskInv(task[t], Verdict, Verified, Crl, clock)
    BY <1>2, IdleTask DEF QInit
  <1> QED BY <1>1, <1>3 DEF QInit, QInv

LEMMA TasksKeep ==
    ASSUME QInv, QNext \/ UNCHANGED qvars
    PROVE  /\ task' = [u \in Tasks |-> task'[u]]
           /\ \A u \in Tasks : TaskInv(task'[u], Verdict', Verified', Crl', clock')
PROOF
  <1>0. [Next]_vars
    BY QStepThreaded
  <1>1. clock \in Nat /\ clock' \in Nat
    BY <1>0, NothingComesBack DEF QInv
  <1>2. CASE UNCHANGED qvars
    <2>1. /\ task' = task /\ Verdict' = Verdict /\ Verified' = Verified
          /\ Crl' = Crl /\ clock' = clock
      BY <1>2 DEF qvars, vars, Verdict, Verified, Verdicts, Active, MostRecent, ActiveRows, Crl
    <2> QED BY <2>1 DEF QInv
  <1>3. CASE Around
    <2>1. CASE task' = Watched
      BY <1>0, <2>1, WatchedIsSeen, OthersKeep
    <2>2. CASE task' = [t \in Tasks |-> NoTask]
      BY <1>1, <2>2, IdleTask
    <2> QED BY <1>3, <2>1, <2>2 DEF Around
  <1>4. ASSUME NEW t \in Tasks, TaskStep(t)
        PROVE  /\ task' = [u \in Tasks |-> task'[u]]
               /\ \A u \in Tasks : TaskInv(task'[u], Verdict', Verified', Crl', clock')
    <2>1. CASE AskRevoke(t)
      <3>1. PICK nid \in Nids : Ask(t, "revoke", nid, clock)
        BY <2>1 DEF AskRevoke
      <3>2. clock # NULL
        BY DEF QInv, CoreInv, TypeOK, NULL
      <3> QED BY <1>1, <3>1, <3>2, AskKeeps
    <2>2. CASE AskVerify(t)
      <3>1. PICK nid \in Nids : Ask(t, "verify", nid, 0)
        BY <2>2 DEF AskVerify
      <3> QED BY <1>1, <3>1, AskKeeps
    <2>3. CASE AskCrl(t)
      BY <1>1, <2>3, AskKeeps DEF AskCrl
    <2>4. CASE Sent(t)
      <3>1. TaskInv(NoTask, Verdict, Verified, Crl, clock)
        BY <1>1, IdleTask
      <3> QED BY <2>4, <3>1, InPlace DEF Sent
    <2> QED BY <1>0, <1>4, <2>1, <2>2, <2>3, <2>4, DoRevokeKeeps, ReadVerifyKeeps,
               TellVerifyKeeps, ReadCrlKeeps, ErrorsKeep DEF TaskStep
  <1> QED BY <1>2, <1>3, <1>4 DEF QNext

LEMMA QNextInv == QInv /\ [QNext]_qvars => QInv'
PROOF
  <1> SUFFICES ASSUME QInv, QNext \/ UNCHANGED qvars PROVE QInv'
    OBVIOUS
  <1>1. CoreInv'
    BY QStepThreaded, NextPreservesCore DEF QInv
  <1>2. errors' \in Nat
    <2>1. errors \in Nat
      BY DEF QInv
    <2>2. ASSUME NEW t \in Tasks, TaskStep(t) PROVE errors' = errors \/ errors' = errors + 1
      <3>1. AskRevoke(t) \/ AskVerify(t) \/ AskCrl(t) => errors' = errors
        BY DEF AskRevoke, AskVerify, AskCrl, Ask
      <3>2. RevokeError(t) \/ VerifyError(t) \/ CrlError(t) => errors' = errors + 1
        BY DEF RevokeError, VerifyError, CrlError, TellError
      <3>3. /\ DoRevoke(t) \/ ReadVerify(t) \/ TellVerify(t) => errors' = errors
            /\ ReadCrl(t) \/ Sent(t) => errors' = errors
        BY DEF DoRevoke, ReadVerify, TellVerify, ReadCrl, Sent
      <3> QED BY <2>2, <3>1, <3>2, <3>3 DEF TaskStep
    <2>3. Around \/ UNCHANGED qvars => errors' = errors
      BY DEF Around, qvars
    <2> QED BY <2>1, <2>2, <2>3 DEF QNext
  <1>3. /\ task' = [u \in Tasks |-> task'[u]]
        /\ \A u \in Tasks : TaskInv(task'[u], Verdict', Verified', Crl', clock')
    BY TasksKeep
  <1> QED BY <1>1, <1>2, <1>3 DEF QInv

LEMMA QInvHolds == QSpec => []QInv
PROOF BY QInitInv, QNextInv, PTL DEF QSpec

-----------------------------------------------------------------------------
(* The theorems *)

\* Every behaviour of the composition is one of ThreadedCa: revoke, verify and
\* the list, served by tasks of their own next to the issuing handlers, change
\* the table only in the way the handlers' own theorems allow for.
THEOREM QueriesRefine == QSpec => KeepsThreaded
PROOF
  <1>1. QInit => Init
    BY DEF QInit
  <1> QED BY <1>1, QInvHolds, QStepThreaded, PTL DEF QSpec, KeepsThreaded, Spec

\* What holds of the table holds also while tasks revoke, verify and list.
THEOREM QueriesKeepTable ==
    QSpec => [](TypeOK /\ SerialsDense /\ SerialsUnique /\ RevocationTotal)
PROOF
  <1>1. QSpec => Spec
    BY QueriesRefine DEF KeepsThreaded
  <1>2. CoreInv => TypeOK /\ SerialsDense /\ SerialsUnique /\ RevocationTotal
    BY DEF CoreInv
  <1> QED BY <1>1, <1>2, CoreInvariant, PTL

\* The revocations are those of the ledger when their date and their UPDATE are
\* two steps (revoke_handler).
THEOREM QueriesKeepLedger == QSpec => KeepsLedger
PROOF BY QueriesRefine, LedgerIsKept, PTL DEF KeepsThreaded

\* The types hold, and the date a revocation carries to its UPDATE is never in
\* the future and never the one of a row that is not revoked.
THEOREM QueriesTypes == QSpec => []QTypeOK
PROOF
  <1>1. ASSUME QInv PROVE QTypeOK
    <2>1. clock \in Nat
      BY <1>1 DEF QInv, CoreInv, TypeOK
    <2>2. ASSUME NEW t \in Tasks
          PROVE  /\ task[t].phase \in {"idle", "asked", "read", "told"}
                 /\ task[t].at \in 0..clock
                 /\ task[t].kind = "revoke" /\ task[t].phase = "asked" => task[t].at # NULL
                 /\ task[t].kind \in {"revoke", "verify"} => task[t].nid \in Nids
                 /\ task[t].seen \subseteq {"valid", "expired", "not found"}
      <3>1. TaskInv(task[t], Verdict, Verified, Crl, clock)
        BY <1>1 DEF QInv
      <3>2. /\ task[t].at \in Nat /\ task[t].at <= clock
            /\ task[t].phase \in {"idle", "asked", "read", "told"}
            /\ task[t].seen \subseteq {"valid", "expired", "not found"}
        BY <3>1 DEF TaskInv, QTask, Says
      <3>3. task[t].at \in 0..clock
        <4>1. \A a, c \in Nat : a <= c => a \in 0..c
          OBVIOUS
        <4> QED BY ONLY <2>1, <3>2, <4>1
      <3>4. /\ task[t].kind = "revoke" /\ task[t].phase = "asked" => task[t].at # NULL
            /\ task[t].kind \in {"revoke", "verify"} => task[t].nid \in Nids
        BY <3>1 DEF TaskInv
      <3> QED BY <3>2, <3>3, <3>4
    <2> QED BY <1>1, <2>2 DEF QInv, QTypeOK
  <1> QED BY <1>1, QInvHolds, PTL

\* What an answer says held during the request, in the sense of TrueOnce,
\* however many tasks and handlers run, unless the port has read an error as an
\* answer.
THEOREM AnswersStayTrue == QSpec => []AnswersTrue
PROOF
  <1>1. ASSUME QInv PROVE AnswersTrue
    <2>1. ASSUME NEW t \in Tasks, task[t].phase = "told", ~TrueOnce(task[t])
          PROVE  task[t].met = "error" /\ FailsOpen(task[t].kind)
      <3>1. TaskInv(task[t], Verdict, Verified, Crl, clock)
        BY <1>1 DEF QInv
      <3>2. TrueIn(task[t], Crl, clock) => TrueOnce(task[t])
        BY DEF TrueIn, TrueOnce
      <3> QED BY <2>1, <3>1, <3>2 DEF TaskInv
    <2> QED BY <2>1 DEF AnswersTrue
  <1> QED BY <1>1, QInvHolds, PTL

=============================================================================
