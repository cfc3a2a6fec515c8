------------------------------- MODULE Metrics -------------------------------
(***************************************************************************)
(* The three counters of the .NET host.  A middleware around the handlers  *)
(* of the external library NPS.NIP waits for a request to be handled, and  *)
(* counts it by its path and the status it finds.  What a handler does is  *)
(* external: it answers with a status, or an exception passes through the  *)
(* middleware, and only the handler knows whether a certificate was issued.*)
(* Paths are those of the README's table, spelled as there.                *)
(***************************************************************************)
EXTENDS Integers, FiniteSets

CONSTANTS
    Slots,         \* requests in flight at once
    MaxRequests    \* bound on the requests accepted

ASSUME MetricsAssumption == IsFiniteSet(Slots) /\ MaxRequests \in Nat

Methods == {"GET", "POST"}
Collections == {"agents", "nodes", "groups"}

\* A path: /v1/agents, /v1/nodes or /v1/orchestrators/groups and what follows.
Paths ==
    (Collections \X {"register", "revoke"})
        \cup ({"agents", "nodes"} \X {"register-x509", "renew", "verify"})
        \cup {<<"groups", "sessions/issue">>, <<"groups", "sessions">>}

Statuses == {200, 201, 400, 401, 404, 409, 500}

Kinds == {"issue", "revoke"}

VARIABLES
    flight,      \* flight[s]: the request in slot s
    arrived,     \* requests accepted so far
    issued, revoked, rejected,    \* the counters
    done,        \* history: what the handlers have issued and revoked
    lost,        \* history: the part of it that ended in an exception
    refused      \* history: signing requests answered without a certificate

mvars == <<flight, arrived, issued, revoked, rejected, done, lost, refused>>

Free == [phase |-> "free", method |-> "none", path |-> <<"none", "none">>, status |-> 0]

Init ==
    /\ flight = [s \in Slots |-> Free]
    /\ arrived = 0
    /\ issued = 0 /\ revoked = 0 /\ rejected = 0
    /\ done = [k \in Kinds |-> 0]
    /\ lost = [k \in Kinds |-> 0]
    /\ refused = 0

\* Mutant: the certificates issued to orchestrator sessions are forgotten.
ClassifyNoSessions(path) ==
    CASE path[2] = "revoke" -> "revoke"
      [] path[2] \in {"register", "register-x509", "renew"} -> "issue"
      [] OTHER -> "none"

\* Classify.
Classify(path) ==
    CASE path[2] = "revoke" -> "revoke"
      [] path[2] \in {"register", "register-x509", "renew", "sessions/issue"} -> "issue"
      [] OTHER -> "none"

\* What the README says a request asks for.
Asks(q) ==
    CASE q.method = "POST"
           /\ q.path[2] \in {"register", "register-x509", "renew", "sessions/issue"} -> "issue"
      [] q.method = "POST" /\ q.path[2] = "revoke" -> "revoke"
      [] OTHER -> "none"

Accept(s) ==
    /\ flight[s].phase = "free" /\ arrived < MaxRequests
    /\ \E method \in Methods, path \in Paths :
         flight' = [flight EXCEPT ![s] = [phase |-> "handling", method |-> method,
                                          path |-> path, status |-> 0]]
    /\ arrived' = arrived + 1
    /\ UNCHANGED <<issued, revoked, rejected, done, lost, refused>>

Success(status) == status \in {200, 201}

\* What the handler of q has done when it answers or gives up.
Does(q) ==
    IF Asks(q) \in Kinds THEN done' = [done EXCEPT ![Asks(q)] = @ + 1] ELSE UNCHANGED done

DoesNot(q) ==
    /\ UNCHANGED done
    /\ refused' = refused + IF Asks(q) = "issue" THEN 1 ELSE 0

\* The handler (external) issues, revokes, reads or refuses, and answers.
Handle(s) ==
    /\ flight[s].phase = "handling"
    /\ \E status \in Statuses :
         /\ flight' = [flight EXCEPT ![s].phase = "answered", ![s].status = status]
         /\ IF Success(status) THEN Does(flight[s]) /\ UNCHANGED refused
                               ELSE DoesNot(flight[s])
    /\ UNCHANGED <<arrived, issued, revoked, rejected, lost>>

\* An exception passes through the middleware, perhaps after the work was done.
Throw(s) ==
    /\ flight[s].phase = "handling"
    /\ flight' = [flight EXCEPT ![s] = Free]
    /\ \/ DoesNot(flight[s]) /\ UNCHANGED lost
       \/ /\ Asks(flight[s]) \in Kinds
          /\ Does(flight[s])
          /\ lost' = [lost EXCEPT ![Asks(flight[s])] = @ + 1]
          /\ UNCHANGED refused
    /\ UNCHANGED <<arrived, issued, revoked, rejected>>

Add(test) == IF test THEN 1 ELSE 0

\* The rest of InvokeAsync, after _next has returned.
Count(s) ==
    LET bucket == IF flight[s].method = "POST" THEN Classify(flight[s].path) ELSE "none"
        status == flight[s].status
    IN  /\ flight[s].phase = "answered"
        /\ issued' = issued + Add(bucket = "issue" /\ Success(status))
        /\ revoked' = revoked + Add(bucket = "revoke" /\ Success(status))
        /\ rejected' = rejected + Add(bucket # "none" /\ status \in 400..499)
        /\ flight' = [flight EXCEPT ![s] = Free]
        /\ UNCHANGED <<arrived, done, lost, refused>>

Next == \E s \in Slots : Accept(s) \/ Handle(s) \/ Throw(s) \/ Count(s)

Spec == Init /\ [][Next]_mvars

-----------------------------------------------------------------------------
(* What the counters are worth *)

\* The requests that were answered with success and are not counted yet.
Uncounted(kind) ==
    {s \in Slots : /\ flight[s].phase = "answered"
                   /\ Success(flight[s].status)
                   /\ Asks(flight[s]) = kind}

\* The two counters never run ahead of what was issued and revoked, and lag
\* behind it only by the answers the middleware has yet to count and by those
\* an exception took from it, however requests overlap.
CountersBalance ==
    /\ issued + Cardinality(Uncounted("issue")) + lost["issue"] = done["issue"]
    /\ revoked + Cardinality(Uncounted("revoke")) + lost["revoke"] = done["revoke"]

\* The description of the counter nip_ca_csr_rejected_total: it never counts
\* more than the signing requests that were rejected.
RejectedAreSigningRequests == rejected <= refused

=============================================================================
