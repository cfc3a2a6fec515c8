---------------------------- MODULE MetricsProofs ----------------------------
(***************************************************************************)
(* The two counters that keep their promise, for any finite number of      *)
(* requests in flight.  The balance is kept because the middleware sorts   *)
(* the requests as the README does (SameSorting), and because each answer  *)
(* is among the uncounted ones from the handler's return to its count.     *)
(***************************************************************************)
EXTENDS Metrics, FiniteSetTheorems, TLAPS

Flight == [phase : {"free", "handling", "answered"}, method : Methods \cup {"none"},
           path : Paths \cup {<<"none", "none">>}, status : Nat]

Types ==
    /\ flight \in [Slots -> Flight]
    /\ \A s \in Slots : flight[s].phase # "free" => flight[s].method \in Methods
                                                   /\ flight[s].path \in Paths
    /\ issued \in Nat /\ revoked \in Nat
    /\ done \in [Kinds -> Nat] /\ lost \in [Kinds -> Nat]

MInv == Types /\ CountersBalance

\* The middleware's buckets are what the requests ask for.
Bucket(q) == IF q.method = "POST" THEN Classify(q.path) ELSE "none"

LEMMA SameSorting ==
    ASSUME NEW q
    PROVE  Bucket(q) = Asks(q)
PROOF BY DEF Bucket, Classify, Asks

\* Of a finite set, one element more or less.
LEMMA OneMore ==
    ASSUME NEW S, IsFiniteSet(S), NEW s
    PROVE  /\ Cardinality(S) \in Nat
           /\ IsFiniteSet(S \ {s}) /\ Cardinality(S \ {s}) \in Nat
           /\ Cardinality(S \cup {s}) = Cardinality(S \ {s}) + 1
           /\ s \in S => S \cup {s} = S
           /\ s \notin S => S \ {s} = S
PROOF
  <1>1. IsFiniteSet(S \ {s}) /\ Cardinality(S) \in Nat /\ Cardinality(S \ {s}) \in Nat
    BY FS_RemoveElement, FS_CardinalityType, FS_Subset
  <1>2. (S \ {s}) \cup {s} = S \cup {s} /\ s \notin S \ {s}
    OBVIOUS
  <1>3. Cardinality((S \ {s}) \cup {s}) = Cardinality(S \ {s}) + 1
    BY <1>1, <1>2, FS_AddElement
  <1> QED BY <1>1, <1>2, <1>3

LEMMA UncountedFinite ==
    ASSUME NEW kind
    PROVE  IsFiniteSet(Uncounted(kind))
PROOF
  <1>1. Uncounted(kind) \in SUBSET Slots
    BY DEF Uncounted
  <1> QED BY <1>1, FS_Subset, MetricsAssumption

\* What a step of one slot does to the uncounted answers.
Waits(q, kind) == q.phase = "answered" /\ Success(q.status) /\ Asks(q) = kind

LEMMA UncountedStep ==
    ASSUME NEW kind, NEW s \in Slots, NEW q, flight' = [flight EXCEPT ![s] = q], Types
    PROVE  Uncounted(kind)' = IF Waits(q, kind) THEN Uncounted(kind) \cup {s}
                                                ELSE Uncounted(kind) \ {s}
PROOF
  <1>1. \A t \in Slots : flight'[t] = IF t = s THEN q ELSE flight[t]
    BY DEF Types
  <1>2. Uncounted(kind)' = {t \in Slots : Waits(flight'[t], kind)}
    BY DEF Uncounted, Waits, Success, Asks
  <1>3. Uncounted(kind) = {t \in Slots : Waits(flight[t], kind)}
    BY DEF Uncounted, Waits
  <1> HIDE DEF Waits
  <1> QED BY <1>1, <1>2, <1>3
\* How the number of uncounted answers changes.
LEMMA CountStep ==
    ASSUME NEW kind, NEW s \in Slots, NEW q, flight' = [flight EXCEPT ![s] = q], Types
    PROVE  /\ Cardinality(Uncounted(kind)) \in Nat
           /\ Cardinality(Uncounted(kind)') \in Nat
           /\ Cardinality(Uncounted(kind)') + Add(Waits(flight[s], kind))
                = Cardinality(Uncounted(kind)) + Add(Waits(q, kind))
PROOF
  <1>1. PICK U : U = Uncounted(kind)
    OBVIOUS
  <1>2. s \in U <=> Waits(flight[s], kind)
    BY <1>1 DEF Uncounted, Waits
  <1>3. Uncounted(kind)' = IF Waits(q, kind) THEN U \cup {s} ELSE U \ {s}
    BY <1>1, UncountedStep
  <1>4. IsFiniteSet(U)
    BY <1>1, UncountedFinite
  <1> HIDE DEF Waits
  <1>5. /\ Cardinality(U) \in Nat /\ Cardinality(U \ {s}) \in Nat
        /\ Cardinality(U \cup {s}) = Cardinality(U \ {s}) + 1
        /\ s \in U => Cardinality(U) = Cardinality(U \ {s}) + 1
        /\ s \notin U => Cardinality(U) = Cardinality(U \ {s})
    BY <1>4, OneMore
  <1>7. CASE Waits(q, kind)
    BY <1>1, <1>2, <1>3, <1>5, <1>7 DEF Add
  <1>8. CASE ~Waits(q, kind)
    BY <1>1, <1>2, <1>3, <1>5, <1>8 DEF Add
  <1> QED BY <1>7, <1>8

\* Balance of one counter.
Balance(counter, kind) ==
    counter + Cardinality(Uncounted(kind)) + lost[kind] = done[kind]

LEMMA CountersAreBalances ==
    CountersBalance <=> Balance(issued, "issue") /\ Balance(revoked, "revoke")
PROOF BY DEF CountersBalance, Balance

\* A request that is not answered waits for no count.
LEMMA NotAnswered ==
    ASSUME NEW q, q.phase # "answered", NEW kind
    PROVE  ~Waits(q, kind)
PROOF BY DEF Waits

LEMMA AcceptBalance ==
    ASSUME MInv, NEW s \in Slots, Accept(s)
    PROVE  MInv'
PROOF
  <1>1. PICK method \in Methods, path \in Paths :
           flight' = [flight EXCEPT ![s] = [phase |-> "handling", method |-> method,
                                            path |-> path, status |-> 0]]
    BY DEF Accept
  <1> DEFINE q == [phase |-> "handling", method |-> method, path |-> path, status |-> 0]
  <1>2. /\ flight[s].phase = "free" /\ Types
        /\ UNCHANGED <<issued, revoked, rejected, done, lost, refused>>
    BY DEF Accept, MInv
  <1>3. q.phase = "handling" /\ q \in Flight /\ q.method \in Methods /\ q.path \in Paths
    BY DEF Flight
  <1> HIDE DEF q
  <1>4. flight' = [flight EXCEPT ![s] = q]
    BY <1>1 DEF q
  <1>5. Types'
    BY <1>2, <1>3, <1>4 DEF Types
  <1>6. ASSUME NEW kind PROVE Cardinality(Uncounted(kind)') = Cardinality(Uncounted(kind))
    <2>1. ~Waits(flight[s], kind) /\ ~Waits(q, kind)
      BY <1>2, <1>3, NotAnswered
    <2>2. /\ Cardinality(Uncounted(kind)) \in Nat
          /\ Cardinality(Uncounted(kind)') \in Nat
          /\ Cardinality(Uncounted(kind)') + Add(Waits(flight[s], kind))
               = Cardinality(Uncounted(kind)) + Add(Waits(q, kind))
      BY <1>2, <1>4, CountStep
    <2> QED BY <2>1, <2>2 DEF Add
  <1>7. CountersBalance'
    BY <1>2, <1>6 DEF MInv, CountersBalance
  <1> QED BY <1>5, <1>7 DEF MInv

\* What the handler of a request does to the histories.
LEMMA Histories ==
    ASSUME Types, NEW s \in Slots, Does(flight[s])
    PROVE  /\ done' \in [Kinds -> Nat]
           /\ \A kind \in Kinds :
                done'[kind] = done[kind] + Add(Asks(flight[s]) = kind)
PROOF
  <1>1. CASE Asks(flight[s]) \in Kinds
    BY <1>1 DEF Does, Types, Add
  <1>2. CASE Asks(flight[s]) \notin Kinds
    BY <1>2 DEF Does, Types, Add
  <1> QED BY <1>1, <1>2

LEMMA HandleBalance ==
    ASSUME MInv, NEW s \in Slots, Handle(s)
    PROVE  MInv'
PROOF
  <1>1. PICK status \in Statuses :
         /\ flight' = [flight EXCEPT ![s].phase = "answered", ![s].status = status]
         /\ IF Success(status) THEN Does(flight[s]) /\ UNCHANGED refused
                               ELSE DoesNot(flight[s])
    BY DEF Handle
  <1> DEFINE q == [flight[s] EXCEPT !.phase = "answered", !.status = status]
  <1>2. /\ flight[s].phase = "handling" /\ Types /\ flight[s] \in Flight
        /\ UNCHANGED <<arrived, issued, revoked, rejected, lost>>
    BY DEF Handle, MInv, Types
  <1>3. /\ q \in Flight /\ q.phase = "answered" /\ q.status = status
        /\ q.method = flight[s].method /\ q.path = flight[s].path
    <2> DEFINE r == flight[s]
    <2>1. r \in [phase : {"free", "handling", "answered"}, method : Methods \cup {"none"},
                 path : Paths \cup {<<"none", "none">>}, status : Nat]
      BY <1>2 DEF Flight
    <2>2. status \in Nat
      BY DEF Statuses
    <2> HIDE DEF r
    <2>3. /\ [r EXCEPT !.phase = "answered", !.status = status] \in Flight
          /\ [r EXCEPT !.phase = "answered", !.status = status].phase = "answered"
          /\ [r EXCEPT !.phase = "answered", !.status = status].status = status
          /\ [r EXCEPT !.phase = "answered", !.status = status].method = r.method
          /\ [r EXCEPT !.phase = "answered", !.status = status].path = r.path
      BY <2>1, <2>2 DEF Flight
    <2> QED BY <2>3 DEF r
  <1>4. flight' = [flight EXCEPT ![s] = q]
    BY <1>1, <1>2 DEF Types
  <1> HIDE DEF q
  <1>5. Asks(q) = Asks(flight[s])
    BY <1>3 DEF Asks
  <1>6. /\ done' \in [Kinds -> Nat]
        /\ \A kind \in Kinds :
             done'[kind] = done[kind] + Add(Success(status) /\ Asks(flight[s]) = kind)
    <2>1. CASE Success(status)
      BY <1>1, <1>2, <2>1, Histories
    <2>2. CASE ~Success(status)
      BY <1>1, <1>2, <2>2 DEF DoesNot, Add, Types
    <2> QED BY <2>1, <2>2
  <1>7. Types'
    BY <1>2, <1>3, <1>4, <1>6 DEF Types
  <1>8. ASSUME NEW kind \in Kinds
        PROVE  /\ Cardinality(Uncounted(kind)) \in Nat /\ Cardinality(Uncounted(kind)') \in Nat
               /\ Cardinality(Uncounted(kind)') - Cardinality(Uncounted(kind))
                    = done'[kind] - done[kind]
    <2>1. ~Waits(flight[s], kind)
      BY <1>2, NotAnswered
    <2>2. Waits(q, kind) <=> Success(status) /\ Asks(flight[s]) = kind
      BY <1>3, <1>5 DEF Waits
    <2>3. Add(Waits(flight[s], kind)) = 0
          /\ Add(Waits(q, kind)) = Add(Success(status) /\ Asks(flight[s]) = kind)
      BY <2>1, <2>2 DEF Add
    <2>4. Add(Success(status) /\ Asks(flight[s]) = kind) \in Nat /\ done[kind] \in Nat
      BY <1>2 DEF Add, Types
    <2>5. /\ Cardinality(Uncounted(kind)) \in Nat
          /\ Cardinality(Uncounted(kind)') \in Nat
          /\ Cardinality(Uncounted(kind)') + Add(Waits(flight[s], kind))
               = Cardinality(Uncounted(kind)) + Add(Waits(q, kind))
      BY <1>2, <1>4, CountStep
    <2> QED BY <1>6, <2>3, <2>4, <2>5
  <1>9. ASSUME NEW counter \in Nat, NEW kind \in Kinds, Balance(counter, kind)
        PROVE  counter + Cardinality(Uncounted(kind)') + lost[kind] = done'[kind]
    <2>1. lost[kind] \in Nat /\ done[kind] \in Nat /\ done'[kind] \in Nat
      BY <1>2, <1>6 DEF Types
    <2> QED BY <1>8, <1>9, <2>1 DEF Balance
  <1>10. CountersBalance'
    BY <1>2, <1>9, CountersAreBalances DEF MInv, Types, CountersBalance, Kinds
  <1> QED BY <1>7, <1>10 DEF MInv

\* An exception takes its part of the work from the counters, and says so.
LEMMA ThrowBalance ==
    ASSUME MInv, NEW s \in Slots, Throw(s)
    PROVE  MInv'
PROOF
  <1>1. /\ flight[s].phase = "handling" /\ Types
        /\ flight' = [flight EXCEPT ![s] = Free]
        /\ UNCHANGED <<arrived, issued, revoked, rejected>>
    BY DEF Throw, MInv
  <1>2. Free \in Flight /\ Free.phase = "free"
    BY DEF Free, Flight
  <1>3. /\ done' \in [Kinds -> Nat] /\ lost' \in [Kinds -> Nat]
        /\ \A kind \in Kinds : done'[kind] - done[kind] = lost'[kind] - lost[kind]
    <2>1. CASE DoesNot(flight[s]) /\ UNCHANGED lost
      BY <1>1, <2>1 DEF DoesNot, Types
    <2>2. CASE /\ Asks(flight[s]) \in Kinds
               /\ Does(flight[s])
               /\ lost' = [lost EXCEPT ![Asks(flight[s])] = @ + 1]
      BY <1>1, <2>2 DEF Does, Types
    <2> QED BY <2>1, <2>2 DEF Throw
  <1>4. Types'
    BY <1>1, <1>2, <1>3 DEF Types
  <1>5. ASSUME NEW kind
        PROVE  Cardinality(Uncounted(kind)') = Cardinality(Uncounted(kind))
               /\ Cardinality(Uncounted(kind)) \in Nat
    <2>1. ~Waits(flight[s], kind) /\ ~Waits(Free, kind)
      BY <1>1, <1>2, NotAnswered
    <2>2. /\ Cardinality(Uncounted(kind)) \in Nat
          /\ Cardinality(Uncounted(kind)') \in Nat
          /\ Cardinality(Uncounted(kind)') + Add(Waits(flight[s], kind))
               = Cardinality(Uncounted(kind)) + Add(Waits(Free, kind))
      BY <1>1, CountStep
    <2> QED BY <2>1, <2>2 DEF Add
  <1>6. ASSUME NEW counter \in Nat, NEW kind \in Kinds, Balance(counter, kind)
        PROVE  counter + Cardinality(Uncounted(kind)') + lost'[kind] = done'[kind]
    <2>1. lost[kind] \in Nat /\ done[kind] \in Nat /\ lost'[kind] \in Nat /\ done'[kind] \in Nat
      BY <1>1, <1>3 DEF Types
    <2> QED BY <1>3, <1>5, <1>6, <2>1 DEF Balance
  <1>7. CountersBalance'
    BY <1>1, <1>6, CountersAreBalances DEF MInv, Types, CountersBalance, Kinds
  <1> QED BY <1>4, <1>7 DEF MInv

\* The middleware counts the answer in the bucket it was waiting in.
LEMMA CountBalance ==
    ASSUME MInv, NEW s \in Slots, Count(s)
    PROVE  MInv'
PROOF
  <1>1. /\ flight[s].phase = "answered" /\ Types
        /\ flight' = [flight EXCEPT ![s] = Free]
        /\ UNCHANGED <<done, lost>>
    BY DEF Count, MInv
  <1>2. Free \in Flight /\ Free.phase = "free"
    BY DEF Free, Flight
  <1>3. ASSUME NEW kind
        PROVE  Waits(flight[s], kind)
                 <=> Bucket(flight[s]) = kind /\ Success(flight[s].status)
    BY <1>1, SameSorting DEF Waits
  <1>4. /\ issued' = issued + Add(Waits(flight[s], "issue"))
        /\ revoked' = revoked + Add(Waits(flight[s], "revoke"))
    <2>1. /\ issued' = issued + Add(Bucket(flight[s]) = "issue" /\ Success(flight[s].status))
          /\ revoked' = revoked + Add(Bucket(flight[s]) = "revoke" /\ Success(flight[s].status))
      BY DEF Count, Bucket
    <2> QED BY <1>3, <2>1 DEF Add
  <1>5. \A kind : Add(Waits(flight[s], kind)) \in Nat
    BY DEF Add
  <1>6. Types'
    BY <1>1, <1>2, <1>4, <1>5 DEF Types
  <1>7. ASSUME NEW kind
        PROVE  /\ Cardinality(Uncounted(kind)) \in Nat /\ Cardinality(Uncounted(kind)') \in Nat
               /\ Cardinality(Uncounted(kind)') + Add(Waits(flight[s], kind))
                    = Cardinality(Uncounted(kind))
    <2>1. ~Waits(Free, kind)
      BY <1>2, NotAnswered
    <2>2. Add(Waits(Free, kind)) = 0
      BY <2>1 DEF Add
    <2>3. /\ Cardinality(Uncounted(kind)) \in Nat
          /\ Cardinality(Uncounted(kind)') \in Nat
          /\ Cardinality(Uncounted(kind)') + Add(Waits(flight[s], kind))
               = Cardinality(Uncounted(kind)) + Add(Waits(Free, kind))
      BY <1>1, CountStep
    <2> QED BY <1>5, <2>2, <2>3
  <1>8. ASSUME NEW counter \in Nat, NEW kind \in Kinds, Balance(counter, kind)
        PROVE  (counter + Add(Waits(flight[s], kind))) + Cardinality(Uncounted(kind)')
                 + lost[kind] = done[kind]
    <2>1. lost[kind] \in Nat /\ done[kind] \in Nat
      BY <1>1 DEF Types
    <2> QED BY <1>5, <1>7, <1>8, <2>1 DEF Balance
  <1>9. CountersBalance'
    BY <1>1, <1>4, <1>8, CountersAreBalances DEF MInv, Types, CountersBalance, Kinds
  <1> QED BY <1>6, <1>9 DEF MInv

\* However requests overlap and whatever a handler throws, the counters of
\* issued and revoked certificates (InvokeAsync) agree with the work done.
THEOREM CountersStayBalanced == Spec => []CountersBalance
PROOF
  <1>1. Init => MInv
    <2> SUFFICES ASSUME Init PROVE MInv
      OBVIOUS
    <2>1. Types
      BY DEF Init, Types, Free, Flight
    <2>2. \A kind : Uncounted(kind) = {}
      BY DEF Init, Uncounted, Free
    <2>3. CountersBalance
      BY <2>2, FS_EmptySet DEF Init, CountersBalance, Kinds
    <2> QED BY <2>1, <2>3 DEF MInv
  <1>2. MInv /\ [Next]_mvars => MInv'
    <2>1. ASSUME MInv, UNCHANGED mvars PROVE MInv'
      BY <2>1 DEF MInv, Types, CountersBalance, Uncounted, mvars
    <2> QED BY <2>1, AcceptBalance, HandleBalance, ThrowBalance, CountBalance DEF Next
  <1>3. MInv => CountersBalance
    BY DEF MInv
  <1> QED BY <1>1, <1>2, <1>3, PTL DEF Spec

=============================================================================
