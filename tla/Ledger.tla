-------------------------------- MODULE Ledger --------------------------------
(***************************************************************************)
(* The life of a certificate, which every port keeps to, however its       *)
(* requests race and whatever fails: it is granted under a serial that no  *)
(* certificate ever had, it is in force until its NID is revoked, a        *)
(* revocation takes all the certificates of the NID at once, and what is   *)
(* revoked stays revoked, with its first date.                             *)
(***************************************************************************)
EXTENDS Naturals

VARIABLES inForce,   \* the certificates that are not revoked
          revoked    \* pairs of a certificate and the date it was revoked

vars == <<inForce, revoked>>

\* Every certificate ever granted.
Granted == inForce \cup {e[1] : e \in revoked}

Init == inForce = {} /\ revoked = {}

Grant(c) ==
    /\ \A o \in Granted : o.serial # c.serial
    /\ inForce' = inForce \cup {c}
    /\ UNCHANGED revoked

RevokeAll(nid, at) ==
    LET taken == {c \in inForce : c.nid = nid}
    IN  /\ taken # {}
        /\ inForce' = inForce \ taken
        /\ revoked' = revoked \cup (taken \X {at})

Next ==
    \/ \E c \in inForce' : Grant(c)
    \/ \E e \in revoked' : RevokeAll(e[1].nid, e[2])

Spec == Init /\ [][Next]_vars

=============================================================================
