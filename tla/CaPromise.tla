------------------------------ MODULE CaPromise ------------------------------
(***************************************************************************)
(* What a certificate authority promises its clients, without handlers,    *)
(* serial numbers read back from text, or errors: a table in which a NID   *)
(* is registered for one subject at a time, renewed for the same subject   *)
(* while it is registered, and revoked as a whole; and a client is given   *)
(* only certificates that are in the table.                                *)
(***************************************************************************)
EXTENDS Integers

CONSTANTS Nids,         \* the identifiers certificates are issued for
          DaySeconds,   \* units of time in a day
          RenewalDays   \* the renewal window, in days before expiry

VARIABLES rows, clock, delivered

vars == <<rows, clock, delivered>>

Active(nid) == {r \in rows : r.nid = nid /\ r.revoked = 0}

Init == rows = {} /\ clock = 1 /\ delivered = {}

\* The table gains the row c: not revoked, under a serial of its own.
Add(c) ==
    /\ c.revoked = 0
    /\ \A r \in rows : r.serial # c.serial
    /\ rows' = rows \cup {c}
    /\ UNCHANGED <<clock, delivered>>

Register(c) == Active(c.nid) = {} /\ Add(c)

Renew(c) ==
    /\ \E r \in Active(c.nid) :
         /\ r.entity = c.entity
         /\ r.key = c.key
         /\ (r.expires - clock) \div DaySeconds <= RenewalDays
    /\ Add(c)

\* A client is given a certificate that is in the table, revoked since or not.
Deliver(c) ==
    /\ \E r \in rows : [r EXCEPT !.revoked = 0] = c
    /\ delivered' = delivered \cup {c}
    /\ UNCHANGED <<rows, clock>>

Revoke(nid) ==
    /\ rows' = {IF r \in Active(nid) THEN [r EXCEPT !.revoked = clock] ELSE r : r \in rows}
    /\ UNCHANGED <<clock, delivered>>

Tick == clock' = clock + 1 /\ UNCHANGED <<rows, delivered>>

Next ==
    \/ \E c \in rows' \ rows : Register(c) \/ Renew(c)
    \/ \E c \in delivered' \ delivered : Deliver(c)
    \/ \E nid \in Nids : Revoke(nid)
    \/ Tick

Spec == Init /\ [][Next]_vars

=============================================================================
