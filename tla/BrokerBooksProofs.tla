-------------------------- MODULE BrokerBooksProofs --------------------------
(***************************************************************************)
(* The admission gate and the books of Broker - what is in flight, what is *)
(* retried, what was sent - for every value of its constants.              *)
(***************************************************************************)
EXTENDS BrokerProofs

-----------------------------------------------------------------------------
(* Sizes. *)

\* There are finitely many deliveries.
LEMMA DeliveryFinite == IsFiniteSet(Delivery)
<1> DEFINE T == ((Subs \X Msgs) \X Origin) \X (1..(MaxAttempts - 1))
           f == [t \in T |-> [sub |-> t[1][1][1], msg |-> t[1][1][2],
                              origin |-> t[1][2], attempt |-> t[2]]]
<1>1. IsFiniteSet(Msgs)
  BY MsgsFinite
<1>2. IsFiniteSet(Origin)
  <2>1. IsFiniteSet({"live"}) /\ Origin = {"live"} \union {"history"}
    BY FS_Singleton DEF Origin
  <2>2. QED BY <2>1, FS_AddElement
<1>3. IsFiniteSet(1..(MaxAttempts - 1))
  BY FS_Interval, BudgetAssumption
<1>4. IsFiniteSet(Subs \X Msgs)
  BY <1>1, FS_Product, SubsAssumption
<1>5. IsFiniteSet((Subs \X Msgs) \X Origin)
  BY <1>2, <1>4, FS_Product
<1>6. IsFiniteSet(T)
  BY <1>3, <1>5, FS_Product
<1>7. f \in Surjection(T, Delivery)
  <2>1. f \in [T -> Delivery]
    BY DEF Delivery, Origin
  <2>2. ASSUME NEW d \in Delivery PROVE \E t \in T : f[t] = d
    <3> DEFINE t == <<<<<<d.sub, d.msg>>, d.origin>>, d.attempt>>
    <3>1. t \in T
      BY DEF Delivery, Origin
    <3>2. f[t] = [sub |-> d.sub, msg |-> d.msg, origin |-> d.origin,
                  attempt |-> d.attempt]
      BY <3>1
    <3>3. f[t] = d
      BY <3>2 DEF Delivery
    <3>4. QED BY <3>1, <3>3
  <2>3. QED BY <2>1, <2>2 DEF Surjection
<1>8. QED BY <1>6, <1>7, FS_Surjection

\* A set of deliveries has a size.
LEMMA DeliveriesCount ==
    ASSUME NEW S \in SUBSET Delivery
    PROVE  IsFiniteSet(S) /\ Cardinality(S) \in Nat
BY DeliveryFinite, FS_Subset, FS_CardinalityType

\* A set of subscriptions has a size.
LEMMA SubsCount ==
    ASSUME NEW S \in SUBSET Subs
    PROVE  IsFiniteSet(S) /\ Cardinality(S) \in Nat
BY SubsAssumption, FS_Subset, FS_CardinalityType

\* Backlog and watermark are integers.
LEMMA GateNumbers ==
    ASSUME TypeOK
    PROVE  Backlog \in Int /\ Watermark \in Int
<1>1. Cardinality(inflight) \in Nat /\ retryTotal \in Int
  BY DeliveriesCount DEF TypeOK
<1>2. Cardinality(Registered) \in Nat
  BY SubsCount DEF Registered
<1>3. QED BY <1>1, <1>2, CountsAssumption DEF Backlog, Watermark

\* Fewer registrations, no higher watermark.
LEMMA WatermarkFalls ==
    ASSUME TypeOK, TypeOK', Registered' \subseteq Registered
    PROVE  Watermark' <= Watermark
<1> DEFINE n == IF Registered = {} THEN 1 ELSE Cardinality(Registered)
           k == IF Registered' = {} THEN 1 ELSE Cardinality(Registered')
<1>1. IsFiniteSet(Registered) /\ Cardinality(Registered) \in Nat
  BY SubsCount DEF Registered
<1>2. IsFiniteSet(Registered') /\ Cardinality(Registered') \in Nat
      /\ Cardinality(Registered') <= Cardinality(Registered)
  BY <1>1, FS_Subset, FS_CardinalityType
<1>3. Registered # {} => Cardinality(Registered) # 0
  BY <1>1, FS_EmptySet
<1>4. n \in Nat /\ k \in Nat /\ k <= n
  BY <1>1, <1>2, <1>3
<1>5. Watermark = MaxPerSub * n /\ Watermark' = MaxPerSub * k
  BY DEF Watermark
<1> HIDE DEF n, k
<1>6. \A a, b, c \in Nat : b <= c => a * b <= a * c
  OBVIOUS
<1>7. QED BY <1>4, <1>5, <1>6, CountsAssumption

-----------------------------------------------------------------------------
(* NoLostWakeup. *)

\* A step that refreshes the gate may change the backlog as it likes.
LEMMA RefreshedGate ==
    ASSUME TypeOK, NoLostWakeup, RefreshAdmission
    PROVE  NoLostWakeup'
<1>1. CASE Open'
  BY <1>1 DEF TypeOK, RefreshAdmission, NoLostWakeup
<1>2. CASE ~Open'
  BY <1>2 DEF RefreshAdmission, NoLostWakeup, gateVars
<1>3. QED BY <1>1, <1>2

\* A step that does not must neither lower the backlog nor raise the watermark.
LEMMA HeldGate ==
    ASSUME TypeOK, TypeOK', NoLostWakeup, admit' = admit,
           \A m \in Msgs : pub'[m] = "parked" => pub[m] = "parked",
           Backlog' >= Backlog, Registered' \subseteq Registered
    PROVE  NoLostWakeup'
<1>1. Watermark' <= Watermark
  BY WatermarkFalls
<1>2. Backlog \in Int /\ Watermark \in Int
  BY GateNumbers
<1>3. Backlog' \in Int /\ Watermark' \in Int
  <2>1. TypeOK => Backlog \in Int /\ Watermark \in Int
    BY GateNumbers
  <2>2. (TypeOK => Backlog \in Int /\ Watermark \in Int)'
    BY GateNumbers, PTL
  <2>3. QED BY <2>2
<1>4. ~Open => ~Open'
  BY <1>1, <1>2, <1>3 DEF Open
<1>5. QED BY <1>4 DEF NoLostWakeup

\* Adding to a set of deliveries does not make it smaller.
LEMMA MoreDeliveries ==
    ASSUME NEW S \in SUBSET Delivery, NEW T \in SUBSET Delivery, S \subseteq T
    PROVE  Cardinality(S) <= Cardinality(T)
BY DeliveriesCount, FS_Subset

\* A publisher's step forgets no wakeup.
LEMMA PublisherGate ==
    ASSUME TypeOK, TypeOK', NoLostWakeup, NEW m \in Msgs, PublisherStep(m)
    PROVE  NoLostWakeup'
<1>1. CASE Publish(m) \/ Resume(m)
  <2>1. Gate(m) /\ UNCHANGED <<sub, inflight, retryTotal>>
    BY <1>1 DEF Publish, Resume, regVars, countVars
  <2>2. Open' = Open
    BY <2>1 DEF Open, Backlog, Watermark, Registered
  <2>3. CASE Open
    BY <2>1, <2>2, <2>3 DEF Gate, NoLostWakeup, TypeOK
  <2>4. CASE ~Open
    BY <2>1, <2>2, <2>4 DEF Gate, NoLostWakeup, TypeOK
  <2>5. QED BY <2>3, <2>4
<1>2. CASE Commit(m) \/ AppendFails(m) \/ CancelPublish(m)
  <2>1. UNCHANGED <<sub, inflight, retryTotal, admit>>
    BY <1>2 DEF Commit, AppendFails, CancelPublish, regVars, countVars
  <2>2. Open' = Open
    BY <2>1 DEF Open, Backlog, Watermark, Registered
  <2>3. \A k \in Msgs : pub'[k] = "parked" => pub[k] = "parked"
    BY <1>2 DEF Commit, AppendFails, CancelPublish, TypeOK
  <2>4. QED BY <2>1, <2>2, <2>3 DEF NoLostWakeup
<1>3. CASE Fanout(m)
  <2> DEFINE full == {s \in Matching(m) \ (Matching(m) \intersect Replaying) :
                          Len(queue[s]) >= QueueBound}
  <2>1. /\ retryTotal' = retryTotal + Cardinality(full)
        /\ inflight \subseteq inflight' /\ sub' = sub /\ admit' = admit
        /\ pub' = [pub EXCEPT ![m] = "done"]
    BY <1>3 DEF Fanout, EnterRetry
  <2>2. Cardinality(full) \in Nat
    BY SubsCount DEF Matching, Registered
  <2>3. Cardinality(inflight) <= Cardinality(inflight')
        /\ Cardinality(inflight) \in Nat /\ Cardinality(inflight') \in Nat
    BY <2>1, MoreDeliveries, DeliveriesCount DEF TypeOK
  <2> HIDE DEF full
  <2>4. Backlog' >= Backlog
    BY <2>1, <2>2, <2>3 DEF Backlog, TypeOK
  <2>5. QED BY <2>1, <2>4, HeldGate DEF Registered, TypeOK
<1>4. QED BY <1>1, <1>2, <1>3 DEF PublisherStep

\* A subscription's step forgets no wakeup.
LEMMA SubscriberGate ==
    ASSUME TypeOK, TypeOK', NoLostWakeup, NEW s \in Subs, SubscriberStep(s)
    PROVE  NoLostWakeup'
<1>1. CASE Subscribe(s) \/ Unsubscribe(s)
  BY <1>1, RefreshedGate DEF Subscribe, Unsubscribe, TearDown
<1>2. CASE ReplayDone(s)
  <2>1. PICK old \in Ordered(history[s] \intersect Selects[s]),
             new \in Ordered({buffer[s][i] : i \in DOMAIN buffer[s]}) :
             ReplayDone(s)!(old, new)
    BY <1>2 DEF ReplayDone
  <2> DEFINE a == Deliveries(s, old, new)
             room == QueueBound - Len(queue[s])
             kept == IF Len(a) <= room THEN Len(a) ELSE room
  <2>2. a \in Seq(Delivery) /\ kept \in 0..Len(a)
    BY ReplayArrivals
  <2>3. /\ retryTotal' = retryTotal + Len(a) - kept
        /\ inflight \subseteq inflight' /\ sub' = [sub EXCEPT ![s] = "live"]
        /\ sub[s] = "read" /\ admit' = admit /\ pub' = pub
    BY <2>1 DEF gateVars
  <2> HIDE DEF a, kept
  <2>4. Cardinality(inflight) <= Cardinality(inflight')
        /\ Cardinality(inflight) \in Nat /\ Cardinality(inflight') \in Nat
    BY <2>3, MoreDeliveries, DeliveriesCount DEF TypeOK
  <2>5. Backlog' >= Backlog
    BY <2>2, <2>3, <2>4 DEF Backlog, TypeOK
  <2>6. Registered' \subseteq Registered
    BY <2>3 DEF Registered, TypeOK
  <2>7. QED BY <2>3, <2>5, <2>6, HeldGate
<1>3. CASE ReadHistory(s) \/ ReplayFails(s) \/ Get(s) \/ CancelledGet(s)
           \/ StreamEnds(s)
  <2>1. UNCHANGED <<inflight, retryTotal, admit, pub>>
    BY <1>3 DEF ReadHistory, ReplayFails, Get, CancelledGet, StreamEnds,
                countVars, gateVars
  <2>2. Registered' \subseteq Registered
    BY <1>3 DEF ReadHistory, ReplayFails, Get, CancelledGet, StreamEnds,
                regVars, Registered, TypeOK
  <2>3. Backlog \in Int /\ Backlog' = Backlog
    BY <2>1, GateNumbers DEF Backlog
  <2>4. QED BY <2>1, <2>2, <2>3, HeldGate
<1>4. QED BY <1>1, <1>2, <1>3 DEF SubscriberStep

\* What is put back in flight was not in flight.
LEMMA RedeliveredIsNew ==
    ASSUME TypeOK, PlaceInv, NEW d \in backoff
    PROVE  Again(d) \notin inflight
<1> SUFFICES ASSUME Again(d) \in inflight PROVE FALSE
  OBVIOUS
<1>1. d \in Delivery
  BY DEF TypeOK
<1>2. Lineage(Again(d)) = Lineage(d)
  BY <1>1, AgainLineage
<1>3. \E x \in Spots : x[2] = Again(d) /\ x[1] # "backoff"
  <2>1. Again(d) \in Queued \union held \union abandoned
    BY DEF PlaceInv, InflightPlaced
  <2>2. CASE Again(d) \in Queued
    <3>1. <<"queue", Again(d)>> \in Spots
      BY <2>2 DEF Spots
    <3>2. QED BY <3>1
  <2>3. CASE Again(d) \in held
    <3>1. <<"held", Again(d)>> \in Spots
      BY <2>3 DEF Spots
    <3>2. QED BY <3>1
  <2>4. CASE Again(d) \in abandoned
    <3>1. <<"abandoned", Again(d)>> \in Spots
      BY <2>4 DEF Spots
    <3>2. QED BY <3>1
  <2>5. QED BY <2>1, <2>2, <2>3, <2>4
<1>4. <<"backoff", d>> \in Spots
  BY DEF Spots
<1>5. QED BY <1>2, <1>3, <1>4 DEF PlaceInv, SpotsUnique, Unique

\* A delivery's step forgets no wakeup.
LEMMA DeliveryGate ==
    ASSUME TypeOK, TypeOK', PlaceInv, NoLostWakeup, NEW d \in Delivery,
           DeliveryStep(d)
    PROVE  NoLostWakeup'
<1>1. CASE Ack(d) \/ DlqStored(d)
  BY <1>1, RefreshedGate DEF Ack, DlqStored, TearDown
<1>2. CASE Nack(d)
  <2>1. CASE NackGone(d)
    BY <2>1, RefreshedGate DEF NackGone
  <2>2. CASE NackRegistered(d)
    <3>1. /\ inflight' = inflight \ {d}
          /\ retryTotal' = retryTotal + Cardinality({d.sub})
          /\ UNCHANGED <<sub, admit, pub>>
      BY <1>2, <2>2 DEF Nack, NackRegistered, EnterRetry, gateVars
    <3>2. /\ Cardinality({d.sub}) = 1 /\ Cardinality(inflight) \in Nat
          /\ Cardinality(inflight') >= Cardinality(inflight) - 1
      <4>1. IsFiniteSet(inflight) /\ Cardinality(inflight) \in Nat
        BY DeliveriesCount DEF TypeOK
      <4>2. Cardinality(inflight') = IF d \in inflight THEN Cardinality(inflight) - 1
                                                       ELSE Cardinality(inflight)
        BY <3>1, <4>1, FS_RemoveElement
      <4>3. Cardinality({d.sub}) = 1
        BY FS_Singleton
      <4>4. QED BY <4>1, <4>2, <4>3
    <3>3. Cardinality(inflight') \in Nat
      BY DeliveriesCount DEF TypeOK
    <3>4. Backlog' >= Backlog
      BY <3>1, <3>2, <3>3 DEF Backlog, TypeOK
    <3>5. QED BY <3>1, <3>4, HeldGate DEF Registered
  <2>3. QED BY <1>2, <2>1, <2>2 DEF Nack
<1>3. CASE BackoffFires(d)
  <2>1. d \in backoff /\ UNCHANGED <<sub, admit, pub>>
    BY <1>3 DEF BackoffFires, regVars, gateVars
  <2>2. CASE Redeliver(d)
    <3>1. /\ inflight' = inflight \union {Again(d)}
          /\ retryTotal' \in {retryTotal, retryTotal - 1}
      BY <2>2 DEF Redeliver, LeaveRetry
    <3>2. /\ IsFiniteSet(inflight) /\ Cardinality(inflight) \in Nat
      BY DeliveriesCount DEF TypeOK
    <3>3. Cardinality(inflight') = Cardinality(inflight) + 1
      BY <2>1, <3>1, <3>2, RedeliveredIsNew, FS_AddElement
    <3>4. Backlog' >= Backlog
      BY <3>1, <3>2, <3>3 DEF Backlog, TypeOK
    <3>5. QED BY <2>1, <3>4, HeldGate DEF Registered
  <2>3. CASE Bounce(d)
    <3>1. Backlog' = Backlog /\ Backlog \in Int
      BY <2>3, GateNumbers DEF Bounce, countVars, Backlog
    <3>2. QED BY <2>1, <3>1, HeldGate DEF Registered
  <2>4. QED BY <1>3, <2>2, <2>3 DEF BackoffFires
<1>4. CASE DlqFails(d)
  <2>1. UNCHANGED <<sub, inflight, retryTotal, admit, pub>>
    BY <1>4 DEF DlqFails, regVars, countVars, gateVars
  <2>2. Backlog' = Backlog /\ Backlog \in Int
    BY <2>1, GateNumbers DEF Backlog
  <2>3. QED BY <2>1, <2>2, HeldGate DEF Registered
<1>5. QED BY <1>1, <1>2, <1>3, <1>4 DEF DeliveryStep

\* The gate is open initially.
LEMMA InitGate == Init => NoLostWakeup
BY DEF Init, NoLostWakeup

\* A stuttering step leaves the gate as it is.
LEMMA StutterGate ==
    ASSUME NoLostWakeup, UNCHANGED vars
    PROVE  NoLostWakeup'
BY DEF NoLostWakeup, Open, Backlog, Watermark, Registered, vars, regVars,
       countVars, gateVars

\* While a publisher is parked at the gate the backlog is at the watermark:
\* no step that makes room forgets to wake it (broker.py:247-280).
THEOREM GateNeverForgets == Spec => []NoLostWakeup
<1>1. TypeOK /\ TypeOK' /\ PlaceInv /\ NoLostWakeup /\ [Next]_vars => NoLostWakeup'
  BY PublisherGate, SubscriberGate, DeliveryGate, StutterGate DEF Next
<1>2. QED BY <1>1, InitGate, Placed, PTL DEF Spec

-----------------------------------------------------------------------------
(* Counting deliveries by subscription. *)

OfSubs(D, R) == {d \in D : d.sub \in R}

\* Some of a set of deliveries can be counted.
LEMMA OfSubsCount ==
    ASSUME NEW D \in SUBSET Delivery, NEW R
    PROVE  /\ OfSubs(D, R) \in SUBSET Delivery
           /\ IsFiniteSet(OfSubs(D, R)) /\ Cardinality(OfSubs(D, R)) \in Nat
<1>1. OfSubs(D, R) \in SUBSET Delivery
  BY DEF OfSubs
<1>2. QED BY <1>1, DeliveriesCount

\* Disjoint sets add up.
LEMMA CountDisjoint ==
    ASSUME NEW S, IsFiniteSet(S), NEW T, IsFiniteSet(T), S \intersect T = {}
    PROVE  Cardinality(S \union T) = Cardinality(S) + Cardinality(T)
<1>1. Cardinality(S \union T) =
          Cardinality(S) + Cardinality(T) - Cardinality(S \intersect T)
  BY FS_Union
<1>2. Cardinality(S \intersect T) = 0
  BY FS_EmptySet
<1>3. Cardinality(S) \in Nat /\ Cardinality(T) \in Nat
  BY FS_CardinalityType
<1>4. QED BY <1>1, <1>2, <1>3

\* Deliveries that were not there add up with those that were.
LEMMA CountMore ==
    ASSUME NEW D \in SUBSET Delivery, NEW N \in SUBSET Delivery,
           D \intersect N = {}, NEW R
    PROVE  Cardinality(OfSubs(D \union N, R)) =
               Cardinality(OfSubs(D, R)) + Cardinality(OfSubs(N, R))
<1>1. /\ IsFiniteSet(OfSubs(D, R)) /\ Cardinality(OfSubs(D, R)) \in Nat
      /\ IsFiniteSet(OfSubs(N, R)) /\ Cardinality(OfSubs(N, R)) \in Nat
  BY OfSubsCount
<1>2. /\ OfSubs(D \union N, R) = OfSubs(D, R) \union OfSubs(N, R)
      /\ OfSubs(D, R) \intersect OfSubs(N, R) = {}
  BY DEF OfSubs
<1>3. QED BY <1>1, <1>2, CountDisjoint

\* One delivery counts for its own subscription only.
LEMMA CountOne ==
    ASSUME NEW d \in Delivery, NEW R
    PROVE  Cardinality(OfSubs({d}, R)) = IF d.sub \in R THEN 1 ELSE 0
<1>1. CASE d.sub \in R
  <2>1. OfSubs({d}, R) = {d}
    BY <1>1 DEF OfSubs
  <2>2. QED BY <1>1, <2>1, FS_Singleton
<1>2. CASE d.sub \notin R
  <2>1. OfSubs({d}, R) = {}
    BY <1>2 DEF OfSubs
  <2>2. QED BY <1>2, <2>1, FS_EmptySet
<1>3. QED BY <1>1, <1>2

\* Taking one delivery out.
LEMMA CountLess ==
    ASSUME NEW D \in SUBSET Delivery, NEW d \in D, NEW R
    PROVE  Cardinality(OfSubs(D, R)) =
               Cardinality(OfSubs(D \ {d}, R)) + IF d.sub \in R THEN 1 ELSE 0
<1>1. /\ D \ {d} \in SUBSET Delivery /\ {d} \in SUBSET Delivery
      /\ (D \ {d}) \intersect {d} = {} /\ (D \ {d}) \union {d} = D
      /\ d \in Delivery
  OBVIOUS
<1>2. Cardinality(OfSubs((D \ {d}) \union {d}, R)) =
          Cardinality(OfSubs(D \ {d}, R)) + Cardinality(OfSubs({d}, R))
  BY <1>1, CountMore
<1>3. QED BY <1>1, <1>2, CountOne

\* One subscription's deliveries and those of the others.
LEMMA CountSplit ==
    ASSUME NEW D \in SUBSET Delivery, NEW R, NEW s \in R
    PROVE  Cardinality(OfSubs(D, R)) =
               Cardinality(OfSubs(D, R \ {s})) + Cardinality(OfSubs(D, {s}))
<1>1. /\ IsFiniteSet(OfSubs(D, R \ {s})) /\ Cardinality(OfSubs(D, R \ {s})) \in Nat
      /\ IsFiniteSet(OfSubs(D, {s})) /\ Cardinality(OfSubs(D, {s})) \in Nat
  BY OfSubsCount
<1>2. /\ OfSubs(D, R) = OfSubs(D, R \ {s}) \union OfSubs(D, {s})
      /\ OfSubs(D, R \ {s}) \intersect OfSubs(D, {s}) = {}
  BY DEF OfSubs
<1>3. QED BY <1>1, <1>2, CountDisjoint

\* As many first deliveries of a message as subscriptions they are made for.
LEMMA CountFanout ==
    ASSUME NEW S \in SUBSET Subs, NEW m \in Msgs, NEW R, S \subseteq R
    PROVE  Cardinality(OfSubs({First(s, m, "live") : s \in S}, R)) = Cardinality(S)
<1> DEFINE N == {First(s, m, "live") : s \in S}
           f == [s \in S |-> First(s, m, "live")]
<1>1. OfSubs(N, R) = N
  BY FirstLineage DEF OfSubs
<1>2. f \in Bijection(S, N)
  <2>1. f \in [S -> N] /\ \A x \in N : \E s \in S : f[s] = x
    OBVIOUS
  <2>2. \A r, s \in S : f[r] = f[s] => r = s
    BY FirstLineage
  <2>3. QED BY <2>1, <2>2 DEF Bijection, Injection, IsInjective, Surjection
<1>3. IsFiniteSet(S)
  BY SubsCount
<1>4. ExistsBijection(S, N)
  BY <1>2 DEF ExistsBijection
<1>5. Cardinality(N) = Cardinality(S)
  BY <1>3, <1>4, FS_Bijection
<1>6. QED BY <1>1, <1>5

\* As many deliveries as indices, when no two indices hold the same.
LEMMA CountIndexed ==
    ASSUME NEW a, NEW n \in Nat, NEW k \in 0..n,
           \A i, j \in 1..n : a[i] = a[j] => i = j
    PROVE  Cardinality({a[i] : i \in (k + 1)..n}) = n - k
<1> DEFINE I == (k + 1)..n
           N == {a[i] : i \in I}
           f == [i \in I |-> a[i]]
<1>1. f \in Bijection(I, N)
  <2>1. f \in [I -> N] /\ \A x \in N : \E i \in I : f[i] = x
    OBVIOUS
  <2>2. \A i \in I : i \in 1..n
    OBVIOUS
  <2>3. \A i, j \in I : f[i] = f[j] => i = j
    BY <2>2
  <2>4. QED BY <2>1, <2>3 DEF Bijection, Injection, IsInjective, Surjection
<1>2. IsFiniteSet(I) /\ Cardinality(I) = n - k
  <2>1. k + 1 \in Int /\ n \in Int
    OBVIOUS
  <2>2. IsFiniteSet(I) /\ Cardinality(I) = IF k + 1 > n THEN 0 ELSE n - (k + 1) + 1
    BY <2>1, FS_Interval
  <2>3. QED BY <2>2
<1>3. ExistsBijection(I, N)
  BY <1>1 DEF ExistsBijection
<1>4. Cardinality(N) = Cardinality(I)
  BY <1>2, <1>3, FS_Bijection
<1>5. QED BY <1>2, <1>4

-----------------------------------------------------------------------------
(* What each step does to what consumers were handed and what is retried. *)

Handed == Queued \union held \union abandoned

\* Both are sets of deliveries.
LEMMA HandedType ==
    ASSUME TypeOK
    PROVE  /\ Handed \in SUBSET Delivery /\ Retrying \in SUBSET Delivery
           /\ inflight \in SUBSET Delivery /\ OfSubs(inflight, Subs) = inflight
<1>1. Queued \in SUBSET Delivery
  BY SpotType
<1>2. \A d \in Delivery : d.sub \in Subs
  BY DEF Delivery
<1>3. QED BY <1>1, <1>2 DEF Handed, Retrying, TypeOK, OfSubs

\* Deliveries in places of different kinds have different lineages.
LEMMA SpotsApart ==
    ASSUME PlaceInv, NEW p \in Spots, NEW q \in Spots, p[1] # q[1]
    PROVE  Lineage(p[2]) # Lineage(q[2])
BY DEF PlaceInv, SpotsUnique, Unique

\* What is held is neither queued, nor abandoned, nor retried.
LEMMA HeldApart ==
    ASSUME PlaceInv, NEW d \in held
    PROVE  d \notin Queued \union abandoned \union Retrying
<1>1. <<"held", d>> \in Spots
  BY DEF Spots
<1>2. \A p \in Spots : p[1] # "held" => p[2] # d
  BY <1>1, SpotsApart
<1>3. /\ d \in Queued => <<"queue", d>> \in Spots
      /\ d \in abandoned => <<"abandoned", d>> \in Spots
      /\ d \in backoff => <<"backoff", d>> \in Spots
      /\ d \in dying => <<"dying", d>> \in Spots
      /\ d \in stuck => <<"stuck", d>> \in Spots
  BY DEF Spots
<1>4. QED BY <1>2, <1>3 DEF Retrying

\* No attempt of what waits in a backoff is on its way to the dead letters, and
\* no other attempt of it waits.
LEMMA BackoffApart ==
    ASSUME TypeOK, PlaceInv, NEW d \in backoff, NEW e, Lineage(e) = Lineage(d)
    PROVE  e \notin dying \union stuck /\ (e \in backoff => e = d)
<1>1. <<"backoff", d>> \in Spots
  BY DEF Spots
<1>2. \A p \in Spots : Lineage(p[2]) = Lineage(d) => p = <<"backoff", d>>
  BY <1>1 DEF PlaceInv, SpotsUnique, Unique
<1>3. /\ e \in backoff => <<"backoff", e>> \in Spots
      /\ e \in dying => <<"dying", e>> \in Spots
      /\ e \in stuck => <<"stuck", e>> \in Spots
  BY DEF Spots
<1>4. QED BY <1>2, <1>3

\* A step that touches neither queues, consumers nor the retry engine.
LEMMA QuietMoves ==
    ASSUME UNCHANGED <<queue, held, abandoned>>
    PROVE  Handed' = Handed
BY DEF Handed, Queued

\* A read leaves the delivery with its subscription.
LEMMA GetMoves ==
    ASSUME TypeOK, PlaceInv, NEW s \in Subs, Get(s) \/ CancelledGet(s)
    PROVE  Handed' = Handed /\ Retrying' = Retrying
<1> DEFINE h == Head(queue[s])
<1>1. /\ queue[s] # << >>
      /\ queue' = [queue EXCEPT ![s] = Tail(@)]
      /\ UNCHANGED retryVars
      /\ \/ held' = held \union {h} /\ abandoned' = abandoned
         \/ held' = held /\ abandoned' = abandoned \union {h}
  BY DEF Get, CancelledGet
<1>2. h \in Queued /\ Queued' \subseteq Queued /\ Queued \subseteq Queued' \union {h}
  BY <1>1, TailQueued DEF PlaceInv, SpotsUnique
<1> HIDE DEF h
<1>3. QED BY <1>1, <1>2 DEF Handed, Retrying, retryVars

\* A settled delivery leaves the consumer.
LEMMA SettleMoves ==
    ASSUME PlaceInv, NEW d \in held, held' = held \ {d},
           UNCHANGED <<queue, abandoned>>
    PROVE  Handed' = Handed \ {d}
<1>1. Queued' = Queued
  BY DEF Queued
<1>2. d \notin Queued \union abandoned
  BY HeldApart
<1>3. QED BY <1>1, <1>2 DEF Handed

\* A redelivery takes the next attempt from the backoff to the queue.
LEMMA RedeliverMoves ==
    ASSUME TypeOK, PlaceInv, NEW d \in Delivery, BackoffFires(d), Redeliver(d)
    PROVE  /\ Handed' = Handed \union {Again(d)} /\ Retrying' = Retrying \ {d}
           /\ d \in Retrying /\ Again(d) \in Delivery /\ Again(d).sub = d.sub
<1>1. /\ d \in backoff
      /\ queue' = [queue EXCEPT ![d.sub] = Append(@, Again(d))]
      /\ backoff' = backoff \ {d}
      /\ UNCHANGED <<held, abandoned, dying, stuck>>
  BY DEF BackoffFires, Redeliver
<1>2. Again(d) \in Delivery /\ Again(d).sub = d.sub /\ Lineage(Again(d)) = Lineage(d)
  BY <1>1, AgainType, AgainLineage DEF TypeOK
<1>3. \A x \in Queued : Lineage(x) # Lineage(Again(d))
  <2>1. <<"backoff", d>> \in Spots
    BY <1>1 DEF Spots
  <2>2. \A x \in Queued : <<"queue", x>> \in Spots
    BY DEF Spots
  <2>3. \A x \in Queued : <<"queue", x>>[1] # <<"backoff", d>>[1]
    OBVIOUS
  <2>4. QED BY <1>2, <2>1, <2>2, <2>3, SpotsApart
<1>4. Queued' = Queued \union {Again(d)}
  BY <1>1, <1>2, <1>3, AppendQueued DEF PlaceInv, SpotsUnique
<1>5. d \notin dying \union stuck
  BY <1>1, BackoffApart
<1>6. QED BY <1>1, <1>2, <1>4, <1>5 DEF Handed, Retrying

\* A bounce replaces an attempt by the next.
LEMMA BounceMoves ==
    ASSUME TypeOK, PlaceInv, NEW d \in Delivery, BackoffFires(d), Bounce(d)
    PROVE  /\ Handed' = Handed
           /\ Retrying' = (Retrying \ {d}) \union {Again(d)}
           /\ d \in Retrying /\ Again(d) \in Delivery /\ Again(d).sub = d.sub
           /\ Again(d) \notin Retrying \ {d}
<1>1. /\ d \in backoff
      /\ UNCHANGED <<queue, held, abandoned, stuck>>
      /\ \/ dying' = dying \union {Again(d)} /\ backoff' = backoff \ {d}
         \/ dying' = dying /\ backoff' = (backoff \ {d}) \union {Again(d)}
  BY DEF BackoffFires, Bounce, Schedule
<1>2. Again(d) \in Delivery /\ Again(d).sub = d.sub /\ Lineage(Again(d)) = Lineage(d)
  BY <1>1, AgainType, AgainLineage DEF TypeOK
<1>3. d \notin dying \union stuck
  BY <1>1, BackoffApart
<1>4. Again(d) \notin Retrying \ {d}
  BY <1>1, <1>2, BackoffApart DEF Retrying
<1>5. Retrying' = (Retrying \ {d}) \union {Again(d)}
  BY <1>1, <1>3 DEF Retrying
<1>6. QED BY <1>1, <1>2, <1>4, <1>5, QuietMoves DEF Retrying

\* What is stored as a dead letter is no longer retried.
LEMMA DlqMoves ==
    ASSUME TypeOK, PlaceInv, NEW d \in Delivery, DlqStored(d)
    PROVE  /\ Handed' = Handed /\ Retrying' = Retrying \ {d} /\ d \in Retrying
<1>1. /\ d \in dying /\ dying' = dying \ {d}
      /\ UNCHANGED <<queue, held, abandoned, backoff, stuck>>
  BY DEF DlqStored, streamVars
<1>2. d \notin backoff \union stuck
  <2>1. <<"dying", d>> \in Spots
    BY <1>1 DEF Spots
  <2>2. \A p \in Spots : p[1] # "dying" => p[2] # d
    BY <2>1, SpotsApart
  <2>3. /\ d \in backoff => <<"backoff", d>> \in Spots
        /\ d \in stuck => <<"stuck", d>> \in Spots
    BY DEF Spots
  <2>4. QED BY <2>2, <2>3
<1>3. QED BY <1>1, <1>2, QuietMoves DEF Retrying

\* A fanout hands out its message where there is room and has it retried where
\* the queue is full.
LEMMA FanoutMoves ==
    ASSUME TypeOK, PlaceInv, NEW m \in Msgs, Fanout(m)
    PROVE  LET staging == Matching(m) \intersect Replaying
               full == {s \in Matching(m) \ staging : Len(queue[s]) >= QueueBound}
               room == Matching(m) \ (staging \union full)
               new(S) == {First(s, m, "live") : s \in S}
           IN  /\ Handed' = Handed \union new(room)
               /\ Retrying' = Retrying \union new(full)
               /\ new(full) \in SUBSET Delivery /\ new(full) \intersect Retrying = {}
               /\ \A s \in room \union full : s \in Registered /\ sub[s] = "live"
<1> DEFINE staging == Matching(m) \intersect Replaying
           full == {s \in Matching(m) \ staging : Len(queue[s]) >= QueueBound}
           room == Matching(m) \ (staging \union full)
           new(S) == {First(s, m, "live") : s \in S}
<1>1. /\ pub[m] = "stored" /\ backoff' = backoff \union new(full)
      /\ UNCHANGED <<held, abandoned, dying, stuck>>
  BY DEF Fanout
<1>2. Queued' = Queued \union new(room)
  BY FanoutQueued
<1>3. \A s \in room \union full : s \in Registered /\ sub[s] = "live"
  BY DEF Matching, Replaying
<1>4. full \subseteq Subs
  BY DEF Matching, Registered
<1> HIDE DEF full, room
<1>5. new(full) \in SUBSET Delivery
  BY <1>4, FirstType DEF Origin
<1>6. ASSUME NEW s \in full PROVE First(s, m, "live") \notin Retrying
  <2>1. First(s, m, "live") \notin sent
    BY <1>1, FreshLive DEF PlaceInv
  <2>2. \A p \in Spots : p[2] # First(s, m, "live")
    <3>1. Lineage(First(s, m, "live")) = First(s, m, "live")
      BY FirstLineage
    <3>2. QED BY <2>1, <3>1 DEF PlaceInv, SentKnown
  <2>3. \A d \in Retrying : \E p \in Spots : p[2] = d
    <3> SUFFICES ASSUME NEW d \in Retrying PROVE \E p \in Spots : p[2] = d
      OBVIOUS
    <3>1. \/ <<"backoff", d>> \in Spots \/ <<"dying", d>> \in Spots
          \/ <<"stuck", d>> \in Spots
      BY DEF Retrying, Spots
    <3>2. QED BY <3>1
  <2>4. QED BY <2>2, <2>3
<1>7. new(full) \intersect Retrying = {}
  BY <1>6
<1>8. Handed' = Handed \union new(room) /\ Retrying' = Retrying \union new(full)
  BY <1>1, <1>2 DEF Handed, Retrying
<1>9. QED BY <1>3, <1>5, <1>7, <1>8 DEF full, room

\* An ordering of a set of messages has all of them.
LEMMA OrderedOnto ==
    ASSUME NEW S \in SUBSET Msgs, NEW q \in Ordered(S), NEW m \in S
    PROVE  \E i \in 1..Len(q) : q[i] = m
<1> DEFINE n == Cardinality(S)
<1>1. /\ Len(q) = n /\ \A i \in 1..n : q[i] \in S
      /\ \A i, j \in 1..n : i < j => q[i] < q[j]
  BY OrderedType
<1>2. q \in [1..n -> S]
  BY DEF Ordered
<1>3. IsFiniteSet(S) /\ n \in Nat
  BY MsgsFinite
<1> HIDE DEF n
<1>4. \A i, j \in 1..n : q[i] = q[j] => i = j
  <2>1. \A i \in 1..n : q[i] \in Int
    BY <1>1, MsgsInt
  <2>2. QED BY <1>1, <1>3, <2>1
<1>5. q \in Injection(1..n, S)
  BY <1>2, <1>4 DEF Injection, IsInjective
<1>6. Cardinality(1..n) = n
  <2>1. 1 \in Int /\ n \in Int
    BY <1>3
  <2>2. Cardinality(1..n) = IF 1 > n THEN 0 ELSE n - 1 + 1
    BY <2>1, FS_Interval
  <2>3. QED BY <1>3, <2>2
<1>7. q \in Surjection(1..n, S)
  BY <1>3, <1>5, <1>6, FS_Injection DEF n
<1>8. QED BY <1>1, <1>7 DEF Surjection

\* A replay leaves out nothing it read and nothing it staged.
LEMMA ArrivingAll ==
    ASSUME TypeOK, NEW s \in Subs,
           NEW old \in Ordered(history[s] \intersect Selects[s]),
           NEW new \in Ordered({buffer[s][i] : i \in DOMAIN buffer[s]})
    PROVE  LET a == Deliveries(s, old, new)
           IN  /\ \A m \in history[s] \intersect Selects[s] :
                      \E i \in 1..Len(a) : a[i] = First(s, m, "history")
               /\ \A j \in DOMAIN buffer[s] :
                      \E i \in 1..Len(a) : a[i] = First(s, buffer[s][j], "live")
<1> DEFINE a == Deliveries(s, old, new)
           H == history[s] \intersect Selects[s]
           B == {buffer[s][i] : i \in DOMAIN buffer[s]}
<1>1. H \in SUBSET Msgs /\ B \in SUBSET Msgs
  BY DEF TypeOK
<1>2. old \in Seq(Msgs) /\ new \in Seq(Msgs)
  BY <1>1, OrderedType
<1>3. /\ Len(a) = Len(old) + Len(new)
      /\ \A i \in 1..Len(old) : a[i] = First(s, old[i], "history")
      /\ \A i \in 1..Len(new) : a[Len(old) + i] = First(s, new[i], "live")
  BY <1>2, ArrivingType
<1>4. Len(old) \in Nat /\ Len(new) \in Nat
  BY <1>2
<1>5. \A m \in H : \E i \in 1..Len(old) : old[i] = m
  BY <1>1, OrderedOnto
<1>6. \A m \in B : \E i \in 1..Len(new) : new[i] = m
  BY <1>1, OrderedOnto
<1> HIDE DEF a
<1>7. ASSUME NEW m \in H
      PROVE  \E i \in 1..Len(a) : a[i] = First(s, m, "history")
  <2>1. PICK i \in 1..Len(old) : old[i] = m
    BY <1>5
  <2>2. i \in 1..Len(a) /\ a[i] = First(s, m, "history")
    BY <2>1, <1>3, <1>4
  <2>3. QED BY <2>2
<1>8. ASSUME NEW j \in DOMAIN buffer[s]
      PROVE  \E i \in 1..Len(a) : a[i] = First(s, buffer[s][j], "live")
  <2>1. PICK i \in 1..Len(new) : new[i] = buffer[s][j]
    BY <1>6
  <2>2. Len(old) + i \in 1..Len(a)
        /\ a[Len(old) + i] = First(s, buffer[s][j], "live")
    BY <2>1, <1>3, <1>4
  <2>3. QED BY <2>2
<1>9. QED BY <1>7, <1>8 DEF a

\* A replay's end hands out what fits (K), has the rest retried (O) and counts it.
HandsOver(s, K, O) ==
    /\ \A d \in K \union O : d.sub = s
    /\ Handed' = Handed \union K /\ inflight' = inflight \union K
    /\ Retrying' = Retrying \union O
    /\ retryPending' = [retryPending EXCEPT ![s] = @ + Cardinality(O)]
    /\ retryTotal' = retryTotal + Cardinality(O)
    /\ sent' = sent \union K \union O
    /\ Staged \subseteq Staged' \union K \union O
    /\ \A m \in history[s] \intersect Selects[s] : First(s, m, "history") \in K \union O
    /\ Queued' = Queued \union K /\ backoff' = backoff \union O
    /\ \A d \in K \union O : d \in Staged \/ \E m \in Msgs : d = First(s, m, "history")

\* A replay's end hands over what it read and what it staged.
LEMMA ReplayMoves ==
    ASSUME TypeOK, NEW s \in Subs, ReplayDone(s)
    PROVE  \E K, O \in SUBSET Delivery : HandsOver(s, K, O)
<1>1. PICK old \in Ordered(history[s] \intersect Selects[s]),
           new \in Ordered({buffer[s][i] : i \in DOMAIN buffer[s]}) :
           ReplayDone(s)!(old, new)
  BY DEF ReplayDone
<1> DEFINE a == Deliveries(s, old, new)
           room == QueueBound - Len(queue[s])
           kept == IF Len(a) <= room THEN Len(a) ELSE room
           K == {a[i] : i \in 1..kept}
           O == {a[i] : i \in (kept + 1)..Len(a)}
<1>2. /\ a \in Seq(Delivery) /\ kept \in 0..Len(a)
      /\ \A i \in 1..Len(a) : a[i] \in Delivery /\ a[i].sub = s
  BY ReplayArrivals
<1> DEFINE n == Len(a)
<1>2a. \A i, j \in 1..n : a[i] = a[j] => i = j
  BY ArrivingDistinct
<1>2c. \A i \in 1..n : \/ \E m \in Msgs : a[i] = First(s, m, "history")
                       \/ \E j \in DOMAIN buffer[s] : a[i] = First(s, buffer[s][j], "live")
  BY ArrivingDistinct
<1>3. /\ queue' = [queue EXCEPT ![s] = @ \o SubSeq(a, 1, kept)]
      /\ inflight' = inflight \union K /\ backoff' = backoff \union O
      /\ retryPending' = [retryPending EXCEPT ![s] = @ + Len(a) - kept]
      /\ retryTotal' = retryTotal + Len(a) - kept
      /\ sent' = sent \union {a[i] : i \in DOMAIN a}
      /\ buffer' = [buffer EXCEPT ![s] = << >>]
      /\ UNCHANGED <<held, abandoned, dying, stuck>>
  BY <1>1
<1>2b. /\ \A m \in history[s] \intersect Selects[s] :
              \E i \in 1..n : a[i] = First(s, m, "history")
       /\ \A j \in DOMAIN buffer[s] :
              \E i \in 1..n : a[i] = First(s, buffer[s][j], "live")
  BY ArrivingAll
<1> HIDE DEF a, kept, n
<1>4. Queued' = Queued \union K
  BY <1>2, <1>3, ReplayQueued
<1>5. Len(a) \in Nat /\ kept \in 0..Len(a) /\ kept \in Nat
  BY <1>2
<1>6. Cardinality(O) = Len(a) - kept
  <2>1. n \in Nat /\ kept \in 0..n
    BY <1>5 DEF n
  <2>2. Cardinality({a[i] : i \in (kept + 1)..n}) = n - kept
    BY <2>1, <1>2a, CountIndexed
  <2>3. QED BY <2>2 DEF n
<1>7. /\ \A i \in 1..kept : i \in 1..Len(a)
      /\ \A i \in (kept + 1)..Len(a) : i \in 1..Len(a)
  BY <1>5
<1>8. /\ K \in SUBSET Delivery /\ O \in SUBSET Delivery
      /\ \A d \in K \union O : d.sub = s
  BY <1>2, <1>7
<1>8a. \A i \in 1..n : a[i] \in K \union O
  <2> SUFFICES ASSUME NEW i \in 1..n PROVE i \in 1..kept \/ i \in (kept + 1)..Len(a)
    OBVIOUS
  <2>1. QED BY <1>5 DEF n
<1>8b. sent' = sent \union K \union O
  <2>1. DOMAIN a = 1..n
    BY <1>2 DEF n
  <2>2. {a[i] : i \in DOMAIN a} = K \union O
    BY <1>7, <1>8a, <2>1 DEF n
  <2> HIDE DEF K, O
  <2>3. QED BY <1>3, <2>2
<1> HIDE DEF K, O
<1>8c. Staged \subseteq Staged' \union K \union O
  <2> SUFFICES ASSUME NEW r \in Subs, NEW j \in DOMAIN buffer[r]
               PROVE  First(r, buffer[r][j], "live") \in Staged' \union K \union O
    BY DEF Staged
  <2>1. CASE r = s
    BY <2>1, <1>2b, <1>8a
  <2>2. CASE r # s
    <3>1. buffer'[r] = buffer[r]
      BY <2>2, <1>3 DEF TypeOK
    <3>2. QED BY <3>1 DEF Staged
  <2>3. QED BY <2>1, <2>2
<1>8d. \A m \in history[s] \intersect Selects[s] :
           First(s, m, "history") \in K \union O
  BY <1>2b, <1>8a
<1>8e. \A i \in 1..n : a[i] \in Staged \/ \E m \in Msgs : a[i] = First(s, m, "history")
  <2>1. \A j \in DOMAIN buffer[s] : First(s, buffer[s][j], "live") \in Staged
    BY DEF Staged
  <2>2. QED BY <1>2c, <2>1
<1>8f. \A d \in K \union O : d \in Staged \/ \E m \in Msgs : d = First(s, m, "history")
  BY <1>7, <1>8e DEF K, O, n
<1>9. Handed' = Handed \union K /\ Retrying' = Retrying \union O
  BY <1>3, <1>4 DEF Handed, Retrying
<1>10. retryPending[s] \in Int /\ retryTotal \in Int
  BY DEF TypeOK
<1>11. /\ retryPending[s] + Len(a) - kept = retryPending[s] + Cardinality(O)
       /\ retryTotal' = retryTotal + Cardinality(O)
  BY <1>3, <1>5, <1>6, <1>10
<1>12. retryPending' = [retryPending EXCEPT ![s] = @ + Cardinality(O)]
  BY <1>3, <1>11
<1>13. HandsOver(s, K, O)
  BY <1>3, <1>4, <1>8, <1>8b, <1>8c, <1>8d, <1>8f, <1>9, <1>11, <1>12 DEF HandsOver
<1>14. QED BY <1>8, <1>13

-----------------------------------------------------------------------------
(* What is in flight. *)

\* Only a subscription whose replay is over was handed anything.
Started == \A d \in Handed \union Retrying : sub[d.sub] \in {"live", "gone"}

\* Of a registered subscription, what is in flight is what it was handed.
FlightBooks ==
    \A d \in Delivery : d.sub \in Registered => (d \in inflight <=> d \in Handed)

FlightInv == Started /\ FlightBooks

\* What is in flight was handed out.
LEMMA InflightHanded ==
    ASSUME PlaceInv
    PROVE  inflight \subseteq Handed
BY DEF PlaceInv, InflightPlaced, Handed

\* A step that hands nothing to a subscription that had nothing.
LEMMA StartedStep ==
    ASSUME TypeOK, Started, SubForward,
           \A d \in Handed' \union Retrying' :
               /\ d.sub \in Subs
               /\ \/ sub'[d.sub] \in {"live", "gone"}
                  \/ \E e \in Handed \union Retrying : e.sub = d.sub
    PROVE  Started'
BY DEF Started, SubForward

\* A step that moves no delivery and registers nobody.
LEMMA FlightSame ==
    ASSUME TypeOK, FlightInv, SubForward, Handed' = Handed, Retrying' = Retrying,
           inflight' = inflight, Registered' \subseteq Registered
    PROVE  FlightInv'
<1>1. Started'
  BY HandedType, StartedStep DEF FlightInv, Delivery
<1>2. FlightBooks'
  BY DEF FlightInv, FlightBooks
<1>3. QED BY <1>1, <1>2 DEF FlightInv

\* A torn-down subscription is no longer counted, the others are as before.
LEMMA FlightTornDown ==
    ASSUME TypeOK, FlightInv, SubForward, NEW s \in Subs, TearDown(s),
           Handed' = Handed, Retrying' \subseteq Retrying
    PROVE  FlightInv'
<1>1. /\ inflight' = {d \in inflight : d.sub # s}
      /\ sub' = [sub EXCEPT ![s] = "gone"]
  BY DEF TearDown, DropInflight
<1>2. Registered' = Registered \ {s}
  BY <1>1 DEF Registered, TypeOK
<1>3. Started'
  BY HandedType, StartedStep DEF FlightInv, Delivery
<1>4. FlightBooks'
  BY <1>1, <1>2 DEF FlightInv, FlightBooks
<1>5. QED BY <1>3, <1>4 DEF FlightInv

\* A publisher's step keeps what is in flight accounted for.
LEMMA PublisherFlight ==
    ASSUME TypeOK, PlaceInv, FlightInv, NEW m \in Msgs, PublisherStep(m)
    PROVE  FlightInv'
<1>1. SubForward
  BY PublisherForward
<1>2. CASE Publish(m) \/ Resume(m) \/ Commit(m) \/ AppendFails(m) \/ CancelPublish(m)
  <2>1. UNCHANGED <<sub, queue, held, abandoned, backoff, dying, stuck, inflight>>
    BY <1>2 DEF Publish, Resume, Commit, AppendFails, CancelPublish, regVars,
                streamVars, retryVars, countVars
  <2>2. Retrying' = Retrying /\ Registered' = Registered
    BY <2>1 DEF Retrying, Registered
  <2>3. QED BY <1>1, <2>1, <2>2, QuietMoves, FlightSame
<1>3. CASE Fanout(m)
  <2> DEFINE staging == Matching(m) \intersect Replaying
             full == {s \in Matching(m) \ staging : Len(queue[s]) >= QueueBound}
             room == Matching(m) \ (staging \union full)
             new(S) == {First(s, m, "live") : s \in S}
  <2>1. /\ inflight' = inflight \union new(room) /\ sub' = sub
    BY <1>3 DEF Fanout
  <2>2. /\ Handed' = Handed \union new(room)
        /\ Retrying' = Retrying \union new(full)
        /\ \A s \in room \union full : s \in Registered /\ sub[s] = "live"
    BY <1>3, FanoutMoves
  <2> HIDE DEF full, room
  <2>3. ASSUME NEW d \in Handed' \union Retrying'
        PROVE  /\ d.sub \in Subs
               /\ \/ sub'[d.sub] \in {"live", "gone"}
                  \/ \E e \in Handed \union Retrying : e.sub = d.sub
    <3>1. CASE d \in Handed \union Retrying
      BY <3>1, HandedType DEF Delivery
    <3>2. CASE d \notin Handed \union Retrying
      <4>1. PICK s \in room \union full : d = First(s, m, "live")
        BY <3>2, <2>2
      <4>2. QED BY <4>1, <2>1, <2>2, FirstLineage DEF Registered
    <3>3. QED BY <3>1, <3>2
  <2>4. Started'
    BY <1>1, <2>3, StartedStep DEF FlightInv
  <2>5. FlightBooks'
    BY <2>1, <2>2 DEF FlightInv, FlightBooks, Registered
  <2>6. QED BY <2>4, <2>5 DEF FlightInv
<1>4. QED BY <1>2, <1>3 DEF PublisherStep

\* A subscription's step keeps what is in flight accounted for.
LEMMA SubscriberFlight ==
    ASSUME TypeOK, PlaceInv, FlightInv, NEW s \in Subs, SubscriberStep(s)
    PROVE  FlightInv'
<1>1. SubForward
  BY SubscriberForward
<1>2. CASE Subscribe(s)
  <2>1. /\ UNCHANGED <<queue, held, abandoned, backoff, dying, stuck, inflight>>
        /\ sub[s] = "new"
        /\ \A r \in Subs : r # s => sub'[r] = sub[r]
    BY <1>2 DEF Subscribe, TypeOK, retryVars, countVars
  <2>2. Handed' = Handed /\ Retrying' = Retrying
    BY <2>1, QuietMoves DEF Retrying
  <2>3. Started'
    BY <1>1, <2>2, HandedType, StartedStep DEF FlightInv, Delivery
  <2>4. \A d \in Handed : d.sub # s
    BY <2>1 DEF FlightInv, Started
  <2>5. FlightBooks'
    BY <2>1, <2>2, <2>4, InflightHanded
       DEF FlightInv, FlightBooks, Registered, Delivery
  <2>6. QED BY <2>3, <2>5 DEF FlightInv
<1>3. CASE ReadHistory(s) \/ ReplayFails(s) \/ StreamEnds(s)
  <2>1. UNCHANGED <<queue, held, abandoned, backoff, dying, stuck, inflight>>
    BY <1>3 DEF ReadHistory, ReplayFails, StreamEnds, streamVars, retryVars, countVars
  <2>2. Registered' \subseteq Registered
    BY <1>3 DEF ReadHistory, ReplayFails, StreamEnds, regVars, Registered, TypeOK
  <2>3. Retrying' = Retrying
    BY <2>1 DEF Retrying
  <2>4. QED BY <1>1, <2>1, <2>2, <2>3, QuietMoves, FlightSame
<1>4. CASE ReplayDone(s)
  <2>0. PICK K, O \in SUBSET Delivery : HandsOver(s, K, O)
    BY <1>4, ReplayMoves
  <2>1. /\ \A d \in K \union O : d.sub = s
        /\ Handed' = Handed \union K /\ inflight' = inflight \union K
        /\ Retrying' = Retrying \union O
    BY <2>0 DEF HandsOver
  <2>2. sub[s] = "read" /\ sub' = [sub EXCEPT ![s] = "live"]
    BY <1>4 DEF ReplayDone
  <2>3. sub'[s] = "live" /\ Registered' = Registered
    BY <2>2 DEF TypeOK, Registered
  <2>4. Started'
    BY <1>1, <2>1, <2>3, HandedType, StartedStep DEF FlightInv, Delivery
  <2>5. FlightBooks'
    BY <2>1, <2>3 DEF FlightInv, FlightBooks
  <2>6. QED BY <2>4, <2>5 DEF FlightInv
<1>5. CASE Unsubscribe(s)
  <2>1. TearDown(s) /\ UNCHANGED <<queue, held, abandoned, retryVars>>
    BY <1>5 DEF Unsubscribe
  <2>2. Retrying' = Retrying
    BY <2>1 DEF Retrying, retryVars
  <2>3. QED BY <1>1, <2>1, <2>2, QuietMoves, FlightTornDown
<1>6. CASE Get(s) \/ CancelledGet(s)
  <2>1. UNCHANGED <<sub, inflight>>
    BY <1>6 DEF Get, CancelledGet, regVars, countVars
  <2>2. Registered' = Registered
    BY <2>1 DEF Registered
  <2>3. QED BY <1>1, <1>6, <2>1, <2>2, GetMoves, FlightSame
<1>7. QED BY <1>2, <1>3, <1>4, <1>5, <1>6 DEF SubscriberStep

\* A delivery's step keeps what is in flight accounted for.
LEMMA DeliveryFlight ==
    ASSUME TypeOK, PlaceInv, FlightInv, NEW d \in Delivery, DeliveryStep(d)
    PROVE  FlightInv'
<1>1. SubForward
  BY DeliveryForward
<1>2. CASE Ack(d) \/ Nack(d)
  <2>1. /\ d \in held /\ held' = held \ {d} /\ inflight' = inflight \ {d}
        /\ UNCHANGED <<sub, queue, abandoned>>
    BY <1>2 DEF Ack, Nack, NackRegistered, NackGone
  <2>2. Handed' = Handed \ {d} /\ d \in Handed
    BY <2>1, SettleMoves DEF Handed
  <2>3. Retrying' \subseteq Retrying \union {d}
    BY <1>2 DEF Ack, Nack, NackRegistered, NackGone, Schedule, Retrying, retryVars
  <2>4. Started'
    BY <1>1, <2>2, <2>3, HandedType, StartedStep DEF FlightInv, Delivery
  <2>5. FlightBooks'
    BY <2>1, <2>2 DEF FlightInv, FlightBooks, Registered
  <2>6. QED BY <2>4, <2>5 DEF FlightInv
<1>3. CASE BackoffFires(d) /\ Redeliver(d)
  <2>1. inflight' = inflight \union {Again(d)} /\ sub' = sub
    BY <1>3 DEF BackoffFires, Redeliver, regVars
  <2>2. /\ Handed' = Handed \union {Again(d)} /\ Retrying' = Retrying \ {d}
        /\ d \in Retrying /\ Again(d).sub = d.sub
    BY <1>3, RedeliverMoves
  <2>3. Started'
    BY <1>1, <2>2, HandedType, StartedStep DEF FlightInv, Delivery
  <2>4. FlightBooks'
    BY <2>1, <2>2 DEF FlightInv, FlightBooks, Registered
  <2>5. QED BY <2>3, <2>4 DEF FlightInv
<1>4. CASE BackoffFires(d) /\ Bounce(d)
  <2>1. inflight' = inflight /\ sub' = sub
    BY <1>4 DEF BackoffFires, Bounce, regVars, countVars
  <2>2. /\ Handed' = Handed /\ Retrying' = (Retrying \ {d}) \union {Again(d)}
        /\ d \in Retrying /\ Again(d).sub = d.sub
    BY <1>4, BounceMoves
  <2>3. Started'
    BY <1>1, <2>2, HandedType, StartedStep DEF FlightInv, Delivery
  <2>4. FlightBooks'
    BY <2>1, <2>2 DEF FlightInv, FlightBooks, Registered
  <2>5. QED BY <2>3, <2>4 DEF FlightInv
<1>5. CASE DlqStored(d)
  <2>1. TearDown(d.sub) /\ d.sub \in Subs
    BY <1>5 DEF DlqStored, Delivery
  <2>2. QED BY <1>1, <1>5, <2>1, DlqMoves, FlightTornDown
<1>6. CASE DlqFails(d)
  <2>1. /\ UNCHANGED <<sub, queue, held, abandoned, backoff, inflight>>
        /\ d \in dying /\ dying' = dying \ {d} /\ stuck' = stuck \union {d}
    BY <1>6 DEF DlqFails, regVars, streamVars, countVars
  <2>2. Retrying' = Retrying /\ Registered' = Registered
    BY <2>1 DEF Retrying, Registered
  <2>3. QED BY <1>1, <2>1, <2>2, QuietMoves, FlightSame
<1>7. QED BY <1>2, <1>3, <1>4, <1>5, <1>6 DEF DeliveryStep, BackoffFires

\* Nothing was handed out initially.
LEMMA InitFlight == Init => FlightInv
<1> SUFFICES ASSUME Init PROVE FlightInv
  OBVIOUS
<1>1. Handed = {} /\ Retrying = {} /\ inflight = {}
  BY DEF Init, Handed, Queued, Retrying
<1>2. QED BY <1>1 DEF FlightInv, Started, FlightBooks

\* A stuttering step changes nothing.
LEMMA StutterFlight ==
    ASSUME FlightInv, UNCHANGED vars
    PROVE  FlightInv'
<1>1. /\ Handed' = Handed /\ Retrying' = Retrying /\ UNCHANGED <<sub, inflight>>
  BY QuietMoves DEF vars, regVars, streamVars, retryVars, countVars, Retrying
<1>2. QED BY <1>1 DEF FlightInv, Started, FlightBooks, Registered

\* Throughout, what was handed out is accounted for.
LEMMA Flown == Spec => []FlightInv
<1>1. TypeOK /\ PlaceInv /\ FlightInv /\ [Next]_vars => FlightInv'
  BY PublisherFlight, SubscriberFlight, DeliveryFlight, StutterFlight DEF Next
<1>2. QED BY <1>1, InitFlight, Placed, PTL DEF Spec

\* For a registered subscription _inflight is exactly what it was handed and has
\* not settled: queued, held, or lost by a cancelled read (broker.py:215-237,
\* 301-308, 332-354), however replays, evictions and late retries interleave.
THEOREM InflightIsExact == Spec => []InflightExact
<1>1. TypeOK /\ PlaceInv /\ FlightInv => InflightExact
  <2> SUFFICES ASSUME TypeOK, PlaceInv, FlightInv, NEW s \in Registered
               PROVE  {d \in inflight : d.sub = s} = Outstanding(s)
    BY DEF InflightExact
  <2>1. s \in Subs
    BY DEF Registered
  <2>2. \A d \in Handed : d.sub = s => d \in Outstanding(s)
    <3>1. \A d \in Queued : d.sub = s => d \in {queue[s][i] : i \in DOMAIN queue[s]}
      BY DEF Queued, PlaceInv, SpotsUnique, QueuesUnique
    <3>2. QED BY <3>1 DEF Handed, Outstanding
  <2>3. \A d \in Outstanding(s) : d \in Handed /\ d.sub = s
    <3>1. \A i \in DOMAIN queue[s] : queue[s][i] \in Queued /\ queue[s][i].sub = s
      BY <2>1 DEF Queued, PlaceInv, SpotsUnique, QueuesUnique
    <3>2. QED BY <3>1 DEF Handed, Outstanding
  <2>4. \A d \in Handed : d.sub = s => d \in inflight
    BY HandedType DEF FlightInv, FlightBooks
  <2>5. QED BY <2>2, <2>3, <2>4, InflightHanded
<1>2. QED BY <1>1, TypeCorrect, Placed, Flown, PTL

\* A replaying subscription has no backlog, so subscribe's except clause may
\* unregister it without dropping a share (broker.py:150-157).
THEOREM ReplayOwesNothing == Spec => []ReplayingHasNoBacklog
<1>1. PlaceInv /\ FlightInv => ReplayingHasNoBacklog
  BY InflightHanded DEF FlightInv, Started, ReplayingHasNoBacklog
<1>2. QED BY <1>1, Placed, Flown, PTL

-----------------------------------------------------------------------------
(* What is retried. *)

RetryBooks ==
    /\ \A s \in Subs : retryPending[s] =
           IF s \in Registered THEN Cardinality(OfSubs(Retrying, {s})) ELSE 0
    /\ retryTotal = Cardinality(OfSubs(Retrying, Registered))

\* A step after which the same deliveries are counted, for the same subscriptions.
LEMMA RetrySame ==
    ASSUME TypeOK, RetryBooks, UNCHANGED <<retryPending, retryTotal>>,
           Retrying' = Retrying,
           \A d \in Retrying : d.sub \in Registered' <=> d.sub \in Registered
    PROVE  RetryBooks'
<1>1. OfSubs(Retrying', Registered') = OfSubs(Retrying, Registered)
  BY DEF OfSubs
<1>2. ASSUME NEW s \in Subs
      PROVE  retryPending'[s] = IF s \in Registered'
                                THEN Cardinality(OfSubs(Retrying', {s})) ELSE 0
  <2>1. CASE s \in Registered' <=> s \in Registered
    BY <2>1 DEF RetryBooks
  <2>2. CASE ~(s \in Registered' <=> s \in Registered)
    <3>1. OfSubs(Retrying, {s}) = {}
      BY <2>2 DEF OfSubs
    <3>2. Cardinality(OfSubs(Retrying, {s})) = 0
      BY <3>1, FS_EmptySet
    <3>3. QED BY <3>2 DEF RetryBooks
  <2>3. QED BY <2>1, <2>2
<1>3. QED BY <1>1, <1>2 DEF RetryBooks

\* New deliveries of registered subscriptions are counted, each for its own.
LEMMA RetryAdds ==
    ASSUME TypeOK, RetryBooks, NEW N \in SUBSET Delivery, N \intersect Retrying = {},
           \A d \in N : d.sub \in Registered,
           Retrying' = Retrying \union N, Registered' = Registered,
           \A s \in Subs :
               retryPending'[s] = retryPending[s] + Cardinality(OfSubs(N, {s})),
           retryTotal' = retryTotal + Cardinality(OfSubs(N, Registered))
    PROVE  RetryBooks'
<1>1. \A R : Cardinality(OfSubs(Retrying \union N, R)) =
                 Cardinality(OfSubs(Retrying, R)) + Cardinality(OfSubs(N, R))
  BY HandedType, CountMore
<1>2. ASSUME NEW s \in Subs
      PROVE  retryPending'[s] = IF s \in Registered
                                THEN Cardinality(OfSubs(Retrying', {s})) ELSE 0
  <2>1. CASE s \in Registered
    <3>1. retryPending[s] = Cardinality(OfSubs(Retrying, {s}))
      BY <2>1 DEF RetryBooks
    <3>2. QED BY <2>1, <3>1, <1>1
  <2>2. CASE s \notin Registered
    <3>1. OfSubs(N, {s}) = {}
      BY <2>2 DEF OfSubs
    <3>2. Cardinality(OfSubs(N, {s})) = 0
      BY <3>1, FS_EmptySet
    <3>3. retryPending[s] = 0
      BY <2>2 DEF RetryBooks
    <3>4. QED BY <2>2, <3>2, <3>3
  <2>3. QED BY <2>1, <2>2
<1>3. retryTotal' = Cardinality(OfSubs(Retrying', Registered))
  BY <1>1 DEF RetryBooks
<1>4. QED BY <1>2, <1>3 DEF RetryBooks

\* A torn-down subscription's share is dropped from the total.
LEMMA RetryTornDown ==
    ASSUME TypeOK, RetryBooks, NEW s \in Subs, TearDown(s),
           Retrying' \subseteq Retrying,
           \A d \in Retrying : d.sub # s => d \in Retrying'
    PROVE  RetryBooks'
<1>1. /\ sub' = [sub EXCEPT ![s] = "gone"]
      /\ retryPending' = [retryPending EXCEPT ![s] = 0]
      /\ retryTotal' = retryTotal - retryPending[s]
  BY DEF TearDown, DropInflight
<1>2. Registered' = Registered \ {s}
  BY <1>1 DEF Registered, TypeOK
<1>3. ASSUME NEW r \in Subs
      PROVE  retryPending'[r] = IF r \in Registered'
                                THEN Cardinality(OfSubs(Retrying', {r})) ELSE 0
  <2>1. CASE r = s
    BY <2>1, <1>1, <1>2 DEF TypeOK
  <2>2. CASE r # s
    <3>1. OfSubs(Retrying', {r}) = OfSubs(Retrying, {r})
      BY <2>2 DEF OfSubs
    <3>2. retryPending'[r] = retryPending[r]
      BY <2>2, <1>1 DEF TypeOK
    <3>3. QED BY <2>2, <3>1, <3>2, <1>2 DEF RetryBooks
  <2>3. QED BY <2>1, <2>2
<1>4. OfSubs(Retrying', Registered \ {s}) = OfSubs(Retrying, Registered \ {s})
  BY DEF OfSubs
<1>5. retryTotal' = Cardinality(OfSubs(Retrying, Registered \ {s}))
  <2>1. CASE s \in Registered
    <3>1. Cardinality(OfSubs(Retrying, Registered)) =
              Cardinality(OfSubs(Retrying, Registered \ {s}))
                  + Cardinality(OfSubs(Retrying, {s}))
      BY <2>1, HandedType, CountSplit
    <3>2. retryPending[s] = Cardinality(OfSubs(Retrying, {s}))
      BY <2>1 DEF RetryBooks
    <3>3. /\ Cardinality(OfSubs(Retrying, Registered \ {s})) \in Nat
          /\ Cardinality(OfSubs(Retrying, {s})) \in Nat
      BY HandedType, OfSubsCount
    <3>4. QED BY <1>1, <3>1, <3>2, <3>3 DEF RetryBooks
  <2>2. CASE s \notin Registered
    <3>1. Registered \ {s} = Registered /\ retryPending[s] = 0
      BY <2>2 DEF RetryBooks
    <3>2. retryTotal' = retryTotal
      BY <1>1, <3>1 DEF TypeOK
    <3>3. QED BY <3>1, <3>2 DEF RetryBooks
  <2>3. QED BY <2>1, <2>2
<1>6. QED BY <1>2, <1>3, <1>4, <1>5 DEF RetryBooks

\* A redelivered one leaves the books, unless its subscription has left already.
LEMMA RetryLeaves ==
    ASSUME TypeOK, RetryBooks, NEW d \in Retrying, LeaveRetry(d.sub),
           Retrying' = Retrying \ {d}, Registered' = Registered
    PROVE  RetryBooks'
<1>1. Retrying \in SUBSET Delivery /\ d \in Delivery /\ d.sub \in Subs
  BY HandedType DEF Delivery
<1>2. \A R : Cardinality(OfSubs(Retrying, R)) =
          Cardinality(OfSubs(Retrying \ {d}, R)) + IF d.sub \in R THEN 1 ELSE 0
  BY <1>1, CountLess
<1>3. \A R : Cardinality(OfSubs(Retrying \ {d}, R)) \in Nat
  BY <1>1, OfSubsCount
<1>4. CASE d.sub \in Registered
  <2>1. retryPending[d.sub] = Cardinality(OfSubs(Retrying \ {d}, {d.sub})) + 1
    BY <1>1, <1>2, <1>4 DEF RetryBooks
  <2>2. retryPending[d.sub] # 0
    BY <2>1, <1>3
  <2>3. /\ retryPending' = [retryPending EXCEPT ![d.sub] = @ - 1]
        /\ retryTotal' = retryTotal - 1
    BY <2>2 DEF LeaveRetry
  <2>4. ASSUME NEW s \in Subs
        PROVE  retryPending'[s] = IF s \in Registered
                                  THEN Cardinality(OfSubs(Retrying', {s})) ELSE 0
    <3>1. CASE s = d.sub
      <4>1. retryPending'[s] = retryPending[s] - 1
        BY <3>1, <1>1, <2>3 DEF TypeOK
      <4>2. Cardinality(OfSubs(Retrying \ {d}, {s})) \in Nat
        BY <1>3
      <4>3. QED BY <3>1, <4>1, <4>2, <2>1, <1>4
    <3>2. CASE s # d.sub
      <4>1. retryPending'[s] = retryPending[s]
        BY <3>2, <2>3 DEF TypeOK
      <4>2. OfSubs(Retrying', {s}) = OfSubs(Retrying, {s})
        BY <3>2 DEF OfSubs
      <4>3. QED BY <4>1, <4>2 DEF RetryBooks
    <3>3. QED BY <3>1, <3>2
  <2>5. retryTotal' = Cardinality(OfSubs(Retrying', Registered))
    <3>1. retryTotal = Cardinality(OfSubs(Retrying \ {d}, Registered)) + 1
      BY <1>2, <1>4 DEF RetryBooks
    <3>2. QED BY <3>1, <1>3, <2>3
  <2>6. QED BY <2>4, <2>5 DEF RetryBooks
<1>5. CASE d.sub \notin Registered
  <2>1. UNCHANGED <<retryPending, retryTotal>>
    BY <1>1, <1>5 DEF LeaveRetry, RetryBooks
  <2>2. /\ OfSubs(Retrying', Registered) = OfSubs(Retrying, Registered)
        /\ \A s \in Registered : OfSubs(Retrying', {s}) = OfSubs(Retrying, {s})
    BY <1>5 DEF OfSubs
  <2>3. QED BY <2>1, <2>2 DEF RetryBooks
<1>6. QED BY <1>4, <1>5

\* A bounced one counts as before.
LEMMA RetryBounces ==
    ASSUME TypeOK, RetryBooks, NEW d \in Retrying, NEW e \in Delivery,
           e.sub = d.sub, e \notin Retrying \ {d},
           Retrying' = (Retrying \ {d}) \union {e}, Registered' = Registered,
           UNCHANGED <<retryPending, retryTotal>>
    PROVE  RetryBooks'
<1>1. Retrying \in SUBSET Delivery
  BY HandedType
<1>2. ASSUME NEW R
      PROVE  Cardinality(OfSubs((Retrying \ {d}) \union {e}, R)) =
                 Cardinality(OfSubs(Retrying, R))
  <2>1. /\ Retrying \ {d} \in SUBSET Delivery /\ {e} \in SUBSET Delivery
        /\ (Retrying \ {d}) \intersect {e} = {}
    BY <1>1
  <2>2. Cardinality(OfSubs((Retrying \ {d}) \union {e}, R)) =
            Cardinality(OfSubs(Retrying \ {d}, R)) + Cardinality(OfSubs({e}, R))
    BY <2>1, CountMore
  <2>3. Cardinality(OfSubs({e}, R)) = IF d.sub \in R THEN 1 ELSE 0
    BY CountOne
  <2>4. QED BY <1>1, <2>2, <2>3, CountLess
<1>3. QED BY <1>2 DEF RetryBooks

\* The registration a step of the publisher or of a delivery leaves alone.
LEMMA SameRegistered ==
    ASSUME sub' = sub
    PROVE  Registered' = Registered
BY DEF Registered

\* A publisher's step keeps the retry counters exact.
LEMMA PublisherRetry ==
    ASSUME TypeOK, PlaceInv, RetryBooks, NEW m \in Msgs, PublisherStep(m)
    PROVE  RetryBooks'
<1>1. CASE Publish(m) \/ Resume(m) \/ Commit(m) \/ AppendFails(m) \/ CancelPublish(m)
  <2>1. UNCHANGED <<sub, backoff, dying, stuck, retryPending, retryTotal>>
    BY <1>1 DEF Publish, Resume, Commit, AppendFails, CancelPublish, regVars,
                retryVars, countVars
  <2>2. Retrying' = Retrying
    BY <2>1 DEF Retrying
  <2>3. QED BY <2>1, <2>2, SameRegistered, RetrySame
<1>2. CASE Fanout(m)
  <2> DEFINE staging == Matching(m) \intersect Replaying
             full == {s \in Matching(m) \ staging : Len(queue[s]) >= QueueBound}
             room == Matching(m) \ (staging \union full)
             new(S) == {First(s, m, "live") : s \in S}
  <2>1. /\ EnterRetry(full) /\ sub' = sub
    BY <1>2 DEF Fanout
  <2>2. /\ Retrying' = Retrying \union new(full)
        /\ new(full) \in SUBSET Delivery /\ new(full) \intersect Retrying = {}
        /\ \A s \in room \union full : s \in Registered /\ sub[s] = "live"
    BY <1>2, FanoutMoves
  <2> HIDE DEF full, room
  <2>3. full \subseteq Registered /\ full \subseteq Subs
    BY <2>2 DEF Registered
  <2>4. \A d \in new(full) : d.sub \in Registered
    BY <2>3, FirstLineage
  <2>5. ASSUME NEW s \in Subs
        PROVE  Cardinality(OfSubs(new(full), {s})) = IF s \in full THEN 1 ELSE 0
    <3>1. CASE s \in full
      <4>1. OfSubs(new(full), {s}) = {First(s, m, "live")}
        BY <3>1, FirstLineage DEF OfSubs
      <4>2. QED BY <3>1, <4>1, FS_Singleton
    <3>2. CASE s \notin full
      <4>1. OfSubs(new(full), {s}) = {}
        BY <3>2, FirstLineage DEF OfSubs
      <4>2. QED BY <3>2, <4>1, FS_EmptySet
    <3>3. QED BY <3>1, <3>2
  <2>6. Cardinality(OfSubs(new(full), Registered)) = Cardinality(full)
    BY <2>3, CountFanout
  <2>7. /\ \A s \in Subs : retryPending'[s] =
               retryPending[s] + Cardinality(OfSubs(new(full), {s}))
        /\ retryTotal' = retryTotal + Cardinality(OfSubs(new(full), Registered))
    BY <2>1, <2>5, <2>6 DEF EnterRetry
  <2> HIDE DEF new
  <2>8. QED BY <2>1, <2>2, <2>4, <2>7, SameRegistered, RetryAdds
<1>3. QED BY <1>1, <1>2 DEF PublisherStep

\* A subscription's step keeps the retry counters exact.
LEMMA SubscriberRetry ==
    ASSUME TypeOK, PlaceInv, Started, RetryBooks, NEW s \in Subs, SubscriberStep(s)
    PROVE  RetryBooks'
<1>1. CASE Subscribe(s) \/ ReadHistory(s) \/ ReplayFails(s)
  <2>1. /\ UNCHANGED <<backoff, dying, stuck, retryPending, retryTotal>>
        /\ sub[s] \in {"new", "reading", "read"}
        /\ \A r \in Subs : r # s => sub'[r] = sub[r]
    BY <1>1 DEF Subscribe, ReadHistory, ReplayFails, TypeOK, retryVars, countVars
  <2>2. Retrying' = Retrying
    BY <2>1 DEF Retrying
  <2>3. \A d \in Retrying : d.sub \in Subs /\ d.sub # s
    BY <2>1, HandedType DEF Started, Delivery
  <2>4. \A d \in Retrying : d.sub \in Registered' <=> d.sub \in Registered
    BY <2>1, <2>3 DEF Registered
  <2>5. QED BY <2>1, <2>2, <2>4, RetrySame
<1>2. CASE ReplayDone(s)
  <2>0. PICK K, O \in SUBSET Delivery : HandsOver(s, K, O)
    BY <1>2, ReplayMoves
  <2>1. /\ \A d \in K \union O : d.sub = s
        /\ Retrying' = Retrying \union O
        /\ retryPending' = [retryPending EXCEPT ![s] = @ + Cardinality(O)]
        /\ retryTotal' = retryTotal + Cardinality(O)
    BY <2>0 DEF HandsOver
  <2>2. sub[s] = "read" /\ sub' = [sub EXCEPT ![s] = "live"]
    BY <1>2 DEF ReplayDone
  <2>3. s \in Registered /\ Registered' = Registered
    BY <2>2 DEF TypeOK, Registered
  <2>4. O \intersect Retrying = {}
    BY <2>1, <2>2 DEF Started
  <2>5. OfSubs(O, Registered) = O /\ OfSubs(O, {s}) = O
    BY <2>1, <2>3 DEF OfSubs
  <2>6. \A r \in Subs : r # s => Cardinality(OfSubs(O, {r})) = 0
    <3>1. \A r \in Subs : r # s => OfSubs(O, {r}) = {}
      BY <2>1 DEF OfSubs
    <3>2. QED BY <3>1, FS_EmptySet
  <2>7. \A r \in Subs : retryPending'[r] =
            retryPending[r] + Cardinality(OfSubs(O, {r}))
    <3>1. retryPending \in [Subs -> Int]
      BY DEF TypeOK
    <3>2. /\ retryPending'[s] = retryPending[s] + Cardinality(O)
          /\ \A r \in Subs : r # s => retryPending'[r] = retryPending[r]
      BY <2>1, <3>1
    <3>3. ASSUME NEW r \in Subs, r # s
          PROVE  retryPending'[r] = retryPending[r] + Cardinality(OfSubs(O, {r}))
      BY <2>6, <3>1, <3>2, <3>3
    <3>4. retryPending'[s] = retryPending[s] + Cardinality(OfSubs(O, {s}))
      BY <2>5, <3>2
    <3>5. QED BY <3>3, <3>4
  <2>8. \A d \in O : d.sub \in Registered
    BY <2>1, <2>3
  <2>9. QED BY <2>1, <2>3, <2>4, <2>5, <2>7, <2>8, RetryAdds
<1>3. CASE Unsubscribe(s)
  <2>1. TearDown(s) /\ UNCHANGED retryVars
    BY <1>3 DEF Unsubscribe
  <2>2. Retrying' = Retrying
    BY <2>1 DEF Retrying, retryVars
  <2>3. QED BY <2>1, <2>2, RetryTornDown
<1>4. CASE Get(s) \/ CancelledGet(s) \/ StreamEnds(s)
  <2>1. UNCHANGED <<sub, backoff, dying, stuck, retryPending, retryTotal>>
    BY <1>4 DEF Get, CancelledGet, StreamEnds, regVars, retryVars, countVars
  <2>2. Retrying' = Retrying
    BY <2>1 DEF Retrying
  <2>3. QED BY <2>1, <2>2, SameRegistered, RetrySame
<1>5. QED BY <1>1, <1>2, <1>3, <1>4 DEF SubscriberStep

\* A delivery's step keeps the retry counters exact.
LEMMA DeliveryRetry ==
    ASSUME TypeOK, PlaceInv, RetryBooks, NEW d \in Delivery, DeliveryStep(d)
    PROVE  RetryBooks'
<1>1. CASE Ack(d) \/ DlqFails(d) \/ (Nack(d) /\ NackGone(d))
  <2>1. UNCHANGED <<sub, retryPending, retryTotal>>
    BY <1>1 DEF Ack, DlqFails, NackGone, regVars, countVars
  <2>2. Retrying' = Retrying
    BY <1>1 DEF Ack, DlqFails, Nack, NackGone, retryVars, Retrying
  <2>3. QED BY <2>1, <2>2, SameRegistered, RetrySame
<1>2. CASE Nack(d) /\ NackRegistered(d)
  <2>1. /\ d \in held /\ d.sub \in Registered /\ sub' = sub
        /\ EnterRetry({d.sub}) /\ UNCHANGED stuck
        /\ \/ dying' = dying \union {d} /\ backoff' = backoff
           \/ dying' = dying /\ backoff' = backoff \union {d}
    BY <1>2 DEF Nack, NackRegistered, Schedule
  <2>2. Retrying' = Retrying \union {d}
    BY <2>1 DEF Retrying
  <2>3. {d} \intersect Retrying = {}
    BY <2>1, HeldApart
  <2>4. \A R : Cardinality(OfSubs({d}, R)) = IF d.sub \in R THEN 1 ELSE 0
    BY CountOne
  <2>5. Cardinality({d.sub}) = 1
    BY FS_Singleton
  <2>6. /\ \A s \in Subs : retryPending'[s] =
               retryPending[s] + Cardinality(OfSubs({d}, {s}))
        /\ retryTotal' = retryTotal + Cardinality(OfSubs({d}, Registered))
    BY <2>1, <2>4, <2>5 DEF EnterRetry
  <2>7. {d} \in SUBSET Delivery /\ \A e \in {d} : e.sub \in Registered
    BY <2>1
  <2>8. QED BY <2>1, <2>2, <2>3, <2>6, <2>7, SameRegistered, RetryAdds
<1>3. CASE BackoffFires(d) /\ Redeliver(d)
  <2>1. LeaveRetry(d.sub) /\ sub' = sub
    BY <1>3 DEF BackoffFires, Redeliver, regVars
  <2>2. Retrying' = Retrying \ {d} /\ d \in Retrying
    BY <1>3, RedeliverMoves
  <2>3. QED BY <2>1, <2>2, SameRegistered, RetryLeaves
<1>4. CASE BackoffFires(d) /\ Bounce(d)
  <2>1. UNCHANGED <<sub, retryPending, retryTotal>>
    BY <1>4 DEF BackoffFires, Bounce, regVars, countVars
  <2>2. /\ Retrying' = (Retrying \ {d}) \union {Again(d)}
        /\ d \in Retrying /\ Again(d) \in Delivery /\ Again(d).sub = d.sub
        /\ Again(d) \notin Retrying \ {d}
    BY <1>4, BounceMoves
  <2>3. QED BY <2>1, <2>2, SameRegistered, RetryBounces
<1>5. CASE DlqStored(d)
  <2>1. TearDown(d.sub) /\ d.sub \in Subs
    BY <1>5 DEF DlqStored, Delivery
  <2>2. Retrying' = Retrying \ {d}
    BY <1>5, DlqMoves
  <2>3. QED BY <2>1, <2>2, RetryTornDown
<1>6. QED BY <1>1, <1>2, <1>3, <1>4, <1>5 DEF DeliveryStep, BackoffFires, Nack

\* Nothing is retried initially.
LEMMA InitRetry == Init => RetryBooks
<1> SUFFICES ASSUME Init PROVE RetryBooks
  OBVIOUS
<1>1. Retrying = {} /\ \A s \in Subs : retryPending[s] = 0 /\ retryTotal = 0
  BY DEF Init, Retrying
<1>2. retryTotal = 0
  BY DEF Init
<1>3. \A R : OfSubs(Retrying, R) = {}
  BY <1>1 DEF OfSubs
<1>4. \A R : Cardinality(OfSubs(Retrying, R)) = 0
  BY <1>3, FS_EmptySet
<1>5. QED BY <1>1, <1>2, <1>4 DEF RetryBooks

\* A stuttering step changes no count.
LEMMA StutterRetry ==
    ASSUME RetryBooks, UNCHANGED vars
    PROVE  RetryBooks'
<1>1. Retrying' = Retrying /\ UNCHANGED <<sub, retryPending, retryTotal>>
  BY DEF vars, regVars, retryVars, countVars, Retrying
<1>2. QED BY <1>1, SameRegistered DEF RetryBooks

\* The two counters agree with the deliveries they count: a registered
\* subscription's share is what it has in backoff or on the way to the dead
\* letters, a torn-down one has none, and the total is the sum
\* (broker.py:282-321: _enter_retry, _leave_retry, _drop_inflight).
THEOREM RetryCountsAreExact == Spec => []RetryCountExact
<1>1. TypeOK /\ PlaceInv /\ Started /\ RetryBooks /\ [Next]_vars => RetryBooks'
  BY PublisherRetry, SubscriberRetry, DeliveryRetry, StutterRetry DEF Next
<1>2. FlightInv => Started
  BY DEF FlightInv
<1>3. RetryBooks => RetryCountExact
  <2>1. \A s : OfSubs(Retrying, {s}) = {d \in Retrying : d.sub = s}
    BY DEF OfSubs
  <2>2. OfSubs(Retrying, Registered) = {d \in Retrying : d.sub \in Registered}
    BY DEF OfSubs
  <2>3. QED BY <2>1, <2>2 DEF RetryBooks, RetryCountExact
<1>4. QED BY <1>1, <1>2, <1>3, InitRetry, Placed, Flown, PTL DEF Spec

-----------------------------------------------------------------------------
(* Who lowers a subscription's share of the backlog. *)

\* A share is a number, and so is the next one.
LEMMA ShareType ==
    ASSUME TypeOK, TypeOK', NEW s \in Subs
    PROVE  /\ {d \in inflight : d.sub = s} \in SUBSET Delivery
           /\ {d \in inflight' : d.sub = s} \in SUBSET Delivery
           /\ Cardinality({d \in inflight : d.sub = s}) \in Nat
           /\ Cardinality({d \in inflight' : d.sub = s}) \in Nat
           /\ retryPending[s] \in Int /\ retryPending'[s] \in Int
<1>1. /\ {d \in inflight : d.sub = s} \in SUBSET Delivery
      /\ {d \in inflight' : d.sub = s} \in SUBSET Delivery
  BY DEF TypeOK
<1>2. QED BY <1>1, DeliveriesCount DEF TypeOK

\* A share with nothing taken out is no smaller.
LEMMA ShareKept ==
    ASSUME TypeOK, TypeOK', NEW s \in Subs,
           \A d \in inflight : d.sub = s => d \in inflight',
           retryPending'[s] >= retryPending[s]
    PROVE  Share(s)' >= Share(s)
<1>1. {d \in inflight : d.sub = s} \subseteq {d \in inflight' : d.sub = s}
  OBVIOUS
<1>2. Cardinality({d \in inflight : d.sub = s})
          <= Cardinality({d \in inflight' : d.sub = s})
  BY <1>1, ShareType, MoreDeliveries
<1>3. QED BY <1>2, ShareType DEF Share

\* A publisher's step takes nothing out of a share.
LEMMA PublisherShare ==
    ASSUME TypeOK, TypeOK', NEW m \in Msgs, PublisherStep(m), NEW s \in Subs
    PROVE  Share(s)' >= Share(s)
<1>1. inflight \subseteq inflight'
  BY DEF PublisherStep, Publish, Resume, Commit, Fanout, AppendFails,
         CancelPublish, countVars
<1>2. retryPending'[s] >= retryPending[s]
  <2>1. CASE Fanout(m)
    BY <2>1 DEF Fanout, EnterRetry, TypeOK
  <2>2. CASE ~Fanout(m)
    BY <2>2 DEF PublisherStep, Publish, Resume, Commit, AppendFails,
                CancelPublish, countVars, TypeOK
  <2>3. QED BY <2>1, <2>2
<1>3. QED BY <1>1, <1>2, ShareKept

\* Nor does a subscription's, of one that stays registered.
LEMMA SubscriberShare ==
    ASSUME TypeOK, TypeOK', NEW r \in Subs, SubscriberStep(r),
           NEW s \in Subs, s \in Registered'
    PROVE  Share(s)' >= Share(s)
<1>1. CASE Unsubscribe(r)
  <2>1. /\ inflight' = {d \in inflight : d.sub # r}
        /\ retryPending' = [retryPending EXCEPT ![r] = 0]
        /\ sub' = [sub EXCEPT ![r] = "gone"]
    BY <1>1 DEF Unsubscribe, TearDown, DropInflight
  <2>2. r # s
    BY <2>1 DEF Registered, TypeOK
  <2>3. retryPending'[s] >= retryPending[s]
    BY <2>1, <2>2 DEF TypeOK
  <2>4. QED BY <2>1, <2>2, <2>3, ShareKept
<1>2. CASE ReplayDone(r)
  <2>0. PICK K, O \in SUBSET Delivery : HandsOver(r, K, O)
    BY <1>2, ReplayMoves
  <2>1. /\ inflight' = inflight \union K
        /\ retryPending' = [retryPending EXCEPT ![r] = @ + Cardinality(O)]
    BY <2>0 DEF HandsOver
  <2>2. Cardinality(O) \in Nat
    BY DeliveriesCount
  <2>3. retryPending'[s] >= retryPending[s]
    BY <2>1, <2>2 DEF TypeOK
  <2>4. QED BY <2>1, <2>3, ShareKept
<1>3. CASE ~Unsubscribe(r) /\ ~ReplayDone(r)
  <2>1. UNCHANGED <<inflight, retryPending>>
    BY <1>3 DEF SubscriberStep, Subscribe, ReadHistory, ReplayFails, Get,
                CancelledGet, StreamEnds, countVars
  <2>2. QED BY <2>1, ShareKept DEF TypeOK
<1>4. QED BY <1>1, <1>2, <1>3

\* A nack moves one delivery from in flight to retried, a redelivery one back.
LEMMA DeliveryShare ==
    ASSUME TypeOK, TypeOK', PlaceInv, NEW d \in Delivery, DeliveryStep(d), ~Ack(d),
           NEW s \in Subs, s \in Registered, s \in Registered'
    PROVE  Share(s)' >= Share(s)
<1> DEFINE F == {e \in inflight : e.sub = s}
           G == {e \in inflight' : e.sub = s}
<1>1. /\ F \in SUBSET Delivery /\ G \in SUBSET Delivery
      /\ IsFiniteSet(F) /\ Cardinality(F) \in Nat /\ Cardinality(G) \in Nat
      /\ retryPending[s] \in Int /\ retryPending'[s] \in Int
  BY ShareType, DeliveriesCount
<1>2. CASE Nack(d)
  <2>1. inflight' = inflight \ {d}
    BY <1>2 DEF Nack
  <2>2. CASE d.sub # s
    <3>1. retryPending'[s] >= retryPending[s]
      BY <1>2, <1>1 DEF Nack, NackRegistered, NackGone, EnterRetry
    <3>2. QED BY <2>1, <2>2, <3>1, ShareKept
  <2>3. CASE d.sub = s
    <3>1. retryPending'[s] = retryPending[s] + 1
      BY <1>2, <2>3 DEF Nack, NackRegistered, NackGone, EnterRetry
    <3>2. G = F \ {d}
      BY <2>1
    <3> HIDE DEF F, G
    <3>3. Cardinality(F \ {d}) = IF d \in F THEN Cardinality(F) - 1 ELSE Cardinality(F)
      BY <1>1, FS_RemoveElement
    <3>4. Cardinality(G) >= Cardinality(F) - 1
      BY <1>1, <3>2, <3>3
    <3>5. QED BY <1>1, <3>1, <3>4 DEF Share, F, G
  <2>4. QED BY <2>2, <2>3
<1>3. CASE BackoffFires(d) /\ Redeliver(d)
  <2>1. d \in backoff /\ inflight' = inflight \union {Again(d)} /\ LeaveRetry(d.sub)
    BY <1>3 DEF BackoffFires, Redeliver
  <2>2. Again(d).sub = d.sub /\ Again(d) \notin inflight
    BY <2>1, AgainLineage, RedeliveredIsNew
  <2>3. CASE d.sub # s
    <3>1. /\ retryPending \in [Subs -> Int]
          /\ \/ retryPending' = retryPending
             \/ retryPending' = [retryPending EXCEPT ![d.sub] = @ - 1]
      BY <2>1 DEF LeaveRetry, TypeOK
    <3>2. retryPending'[s] = retryPending[s]
      BY <2>3, <3>1
    <3>3. QED BY <2>1, <3>2, <1>1, ShareKept
  <2>4. CASE d.sub = s
    <3>1. retryPending'[s] >= retryPending[s] - 1
      <4>1. /\ retryPending \in [Subs -> Int]
            /\ \/ retryPending' = retryPending
               \/ retryPending' = [retryPending EXCEPT ![s] = @ - 1]
        BY <2>1, <2>4 DEF LeaveRetry, TypeOK
      <4>2. QED BY <4>1
    <3>2. G = F \union {Again(d)} /\ Again(d) \notin F
      BY <2>1, <2>2, <2>4
    <3>3. Cardinality(G) = Cardinality(F) + 1
      BY <1>1, <3>2, FS_AddElement
    <3>4. QED BY <1>1, <3>1, <3>3 DEF Share
  <2>5. QED BY <2>3, <2>4
<1>4. CASE (BackoffFires(d) /\ Bounce(d)) \/ DlqFails(d)
  <2>1. UNCHANGED <<inflight, retryPending>>
    BY <1>4 DEF BackoffFires, Bounce, DlqFails, countVars
  <2>2. QED BY <2>1, <1>1, ShareKept
<1>5. CASE DlqStored(d)
  <2>1. /\ inflight' = {e \in inflight : e.sub # d.sub}
        /\ retryPending' = [retryPending EXCEPT ![d.sub] = 0]
        /\ sub' = [sub EXCEPT ![d.sub] = "gone"]
    BY <1>5 DEF DlqStored, TearDown, DropInflight
  <2>2. d.sub # s
    BY <2>1 DEF Registered, TypeOK
  <2>3. retryPending'[s] >= retryPending[s]
    BY <2>1, <2>2, <1>1 DEF TypeOK
  <2>4. QED BY <2>1, <2>2, <2>3, ShareKept
<1>6. QED BY <1>2, <1>3, <1>4, <1>5 DEF DeliveryStep, BackoffFires

\* An ack records a lineage that was not recorded before.
LEMMA AckIsNew ==
    ASSUME TypeOK, PlaceInv, NEW d \in Delivery, Ack(d)
    PROVE  /\ Lineage(d) \in acked' \ acked /\ Lineage(d).sub = d.sub
           /\ inflight' = inflight \ {d} /\ retryPending' = retryPending
<1>1. /\ d \in held /\ acked' = acked \union {Lineage(d)}
      /\ inflight' = inflight \ {d} /\ retryPending' = retryPending
  BY DEF Ack
<1>2. <<"held", d>> \in Spots
  BY <1>1 DEF Spots
<1>3. Lineage(d) \in acked => <<"acked", Lineage(d)>> \in Spots
  BY DEF Spots
<1>4. Lineage(d) \notin acked
  BY <1>2, <1>3, SpotsApart, LineageAgain
<1>5. QED BY <1>1, <1>4, LineageAgain

\* As long as a subscription exists, only an ack lowers its share of the backlog;
\* a nack, a bounce off a full queue and a redelivery do not (broker.py:301-305,
\* 346-351, "net backlog unchanged").
THEOREM OnlyAcksRelease == Spec => OnlyAcksLowerShare
<1>1. TypeOK /\ TypeOK' /\ PlaceInv /\ Next =>
        \A s \in Registered \intersect Registered' :
            Share(s)' < Share(s) => \E d \in acked' \ acked : d.sub = s
  <2> SUFFICES ASSUME TypeOK, TypeOK', PlaceInv, Next,
                      NEW s \in Registered \intersect Registered',
                      Share(s)' < Share(s)
               PROVE  \E d \in acked' \ acked : d.sub = s
    OBVIOUS
  <2>1. s \in Subs /\ s \in Registered /\ s \in Registered'
    BY DEF Registered
  <2>2. ~(Share(s)' >= Share(s))
    BY <2>1, ShareType DEF Share
  <2>3. PICK d \in Delivery : Ack(d)
    BY <2>1, <2>2, PublisherShare, SubscriberShare, DeliveryShare DEF Next
  <2>4. CASE d.sub = s
    BY <2>3, <2>4, AckIsNew
  <2>5. CASE d.sub # s
    <3>1. inflight' = inflight \ {d} /\ retryPending'[s] = retryPending[s]
      BY <2>3, AckIsNew
    <3>2. retryPending[s] \in Int
      BY <2>1, ShareType
    <3>3. Share(s)' >= Share(s)
      BY <2>1, <2>5, <3>1, <3>2, ShareKept
    <3>4. QED BY <2>2, <3>3
  <2>6. QED BY <2>4, <2>5
<1>2. TypeOK /\ TypeOK' /\ PlaceInv /\ [Next]_vars =>
        [\A s \in Registered \intersect Registered' :
             Share(s)' < Share(s) => \E d \in acked' \ acked : d.sub = s]_vars
  BY <1>1
<1>3. QED BY <1>2, Placed, PTL DEF Spec, OnlyAcksLowerShare

-----------------------------------------------------------------------------
(* Nothing is dropped. *)

Located == Handed \union Staged \union Retrying \union acked \union dlq

\* Every delivery made to a registered subscription is somewhere, in some attempt.
Accounted ==
    \A l \in sent : l.sub \in Registered => \E d \in Located : Lineage(d) = l

\* Nothing was sent to a subscription before it was registered.
LEMMA RegisteredBefore ==
    ASSUME TypeOK, SentKnown, SubForward, NEW l \in sent, l.sub \in Registered',
           \A s \in Subs : sub'[s] \in {"reading", "read", "live"} =>
               sub[s] \in {"new", "reading", "read", "live"}
    PROVE  l.sub \in Registered
<1>1. l.sub \in Subs
  BY DEF TypeOK, Delivery
<1>2. QED BY <1>1 DEF SentKnown, Registered

\* A step that loses no lineage, other than of subscriptions it unregisters.
LEMMA AccountedStep ==
    ASSUME TypeOK, Accounted, \A l \in sent : l.sub \in Registered' => l.sub \in Registered,
           \A d \in Located : Lineage(d).sub \in Registered' =>
               \E e \in Located' : Lineage(e) = Lineage(d),
           \A l \in sent' : l \in sent \/ \E e \in Located' : Lineage(e) = l
    PROVE  Accounted'
<1> SUFFICES ASSUME NEW l \in sent', l.sub \in Registered'
             PROVE  \E e \in Located' : Lineage(e) = l
  BY DEF Accounted
<1>1. CASE l \in sent
  <2>1. PICK d \in Located : Lineage(d) = l
    BY <1>1 DEF Accounted
  <2>2. QED BY <2>1
<1>2. CASE l \notin sent
  BY <1>2
<1>3. QED BY <1>1, <1>2

\* Nobody who is gone registers again.
LEMMA NextRegistered ==
    ASSUME TypeOK, Next
    PROVE  \A s \in Subs : sub'[s] \in {"reading", "read", "live"} =>
               sub[s] \in {"new", "reading", "read", "live"}
<1>1. ASSUME NEW m \in Msgs, PublisherStep(m) PROVE sub' = sub
  BY <1>1 DEF PublisherStep, Publish, Resume, Commit, Fanout, AppendFails,
              CancelPublish, regVars
<1>2. ASSUME NEW r \in Subs, SubscriberStep(r)
      PROVE  \/ sub' = sub
             \/ sub[r] \in {"new", "reading", "read"}
                /\ \A s \in Subs : s # r => sub'[s] = sub[s]
             \/ sub' = [sub EXCEPT ![r] = "gone"]
  <2>1. CASE Subscribe(r) \/ ReadHistory(r) \/ ReplayFails(r)
    BY <2>1 DEF Subscribe, ReadHistory, ReplayFails, TypeOK
  <2>2. CASE ReplayDone(r)
    <3>1. sub[r] = "read" /\ sub' = [sub EXCEPT ![r] = "live"]
      BY <2>2 DEF ReplayDone
    <3>2. QED BY <3>1 DEF TypeOK
  <2>3. CASE Unsubscribe(r) \/ Get(r) \/ CancelledGet(r) \/ StreamEnds(r)
    BY <2>3 DEF Unsubscribe, TearDown, Get, CancelledGet, StreamEnds, regVars
  <2>4. QED BY <1>2, <2>1, <2>2, <2>3 DEF SubscriberStep
<1>3. ASSUME NEW d \in Delivery, DeliveryStep(d)
      PROVE  sub' = sub \/ sub' = [sub EXCEPT ![d.sub] = "gone"]
  BY <1>3 DEF DeliveryStep, Ack, Nack, NackRegistered, NackGone, BackoffFires,
              DlqStored, TearDown, DlqFails, regVars
<1>4. \A s \in Subs : sub[s] \in RegPhase
  BY DEF TypeOK
<1>5. CASE \E m \in Msgs : PublisherStep(m)
  BY <1>1, <1>4, <1>5
<1>6. CASE \E r \in Subs : SubscriberStep(r)
  <2>1. PICK r \in Subs : SubscriberStep(r)
    BY <1>6
  <2>2. QED BY <1>2, <1>4, <2>1 DEF TypeOK
<1>7. CASE \E d \in Delivery : DeliveryStep(d)
  <2>1. PICK d \in Delivery : DeliveryStep(d)
    BY <1>7
  <2>2. QED BY <1>3, <1>4, <2>1 DEF TypeOK
<1>8. QED BY <1>5, <1>6, <1>7 DEF Next

\* A fanout stages its message for those that replay.
LEMMA FanoutStaged ==
    ASSUME TypeOK, NEW m \in Msgs, Fanout(m)
    PROVE  LET staging == Matching(m) \intersect Replaying
           IN  Staged' = Staged \union {First(s, m, "live") : s \in staging}
<1> DEFINE staging == Matching(m) \intersect Replaying
<1>1. buffer' = [s \in Subs |-> IF s \in staging THEN Append(buffer[s], m)
                                                 ELSE buffer[s]]
  BY DEF Fanout
<1>2. staging \subseteq Subs
  BY DEF Matching, Registered
<1>3. \A s \in Subs : buffer[s] \in Seq(Msgs)
  BY DEF TypeOK
<1> HIDE DEF staging
<1>4. ASSUME NEW s \in staging
      PROVE  /\ Len(buffer[s]) + 1 \in DOMAIN buffer'[s]
             /\ buffer'[s][Len(buffer[s]) + 1] = m
  BY <1>1, <1>2, <1>3
<1>5. ASSUME NEW s \in Subs, NEW i \in DOMAIN buffer[s]
      PROVE  i \in DOMAIN buffer'[s] /\ buffer'[s][i] = buffer[s][i]
  BY <1>1, <1>3
<1>6. Staged \subseteq Staged'
  <2> SUFFICES ASSUME NEW s \in Subs, NEW i \in DOMAIN buffer[s]
               PROVE  First(s, buffer[s][i], "live") \in Staged'
    BY DEF Staged
  <2>1. QED BY <1>5 DEF Staged
<1>7. \A s \in staging : First(s, m, "live") \in Staged'
  <2> SUFFICES ASSUME NEW s \in staging PROVE First(s, m, "live") \in Staged'
    OBVIOUS
  <2>1. s \in Subs /\ First(s, buffer'[s][Len(buffer[s]) + 1], "live") \in Staged'
    BY <1>2, <1>4 DEF Staged
  <2>2. QED BY <2>1, <1>4
<1>8. Staged' \subseteq Staged \union {First(s, m, "live") : s \in staging}
  <2>1. ASSUME NEW s \in Subs, NEW i \in DOMAIN buffer'[s]
        PROVE  \/ i \in DOMAIN buffer[s] /\ buffer'[s][i] = buffer[s][i]
               \/ s \in staging /\ buffer'[s][i] = m
    BY <1>1, <1>3
  <2>2. QED BY <2>1 DEF Staged
<1>9. QED BY <1>6, <1>7, <1>8 DEF staging

\* A publisher's step drops nothing.
LEMMA PublisherAccounted ==
    ASSUME TypeOK, PlaceInv, Accounted, NEW m \in Msgs, PublisherStep(m)
    PROVE  Accounted'
<1>1. CASE Publish(m) \/ Resume(m) \/ Commit(m) \/ AppendFails(m) \/ CancelPublish(m)
  <2>1. UNCHANGED <<sub, queue, buffer, held, abandoned, backoff, dying, stuck,
                    acked, dlq, sent>>
    BY <1>1 DEF Publish, Resume, Commit, AppendFails, CancelPublish, regVars,
                streamVars, retryVars, logVars
  <2>2. Located' = Located /\ Registered' = Registered
    BY <2>1, QuietMoves, SameRegistered DEF Located, Staged, Retrying
  <2>3. QED BY <2>1, <2>2, AccountedStep
<1>2. CASE Fanout(m)
  <2> DEFINE staging == Matching(m) \intersect Replaying
             full == {s \in Matching(m) \ staging : Len(queue[s]) >= QueueBound}
             room == Matching(m) \ (staging \union full)
             new(S) == {First(s, m, "live") : s \in S}
  <2>1. /\ sent' = sent \union new(Matching(m)) /\ sub' = sub
        /\ UNCHANGED <<acked, dlq>>
    BY <1>2 DEF Fanout
  <2>2. /\ Handed' = Handed \union new(room)
        /\ Retrying' = Retrying \union new(full)
    BY <1>2, FanoutMoves
  <2>3. Staged \union new(staging) \subseteq Staged'
    BY <1>2, FanoutStaged
  <2>4. Matching(m) \subseteq staging \union full \union room
    OBVIOUS
  <2> HIDE DEF staging, full, room
  <2>5. Located \union new(Matching(m)) \subseteq Located'
    BY <2>1, <2>2, <2>3, <2>4 DEF Located
  <2>6. \A l \in new(Matching(m)) : Lineage(l) = l
    BY FirstLineage
  <2> HIDE DEF new
  <2>7. QED BY <2>1, <2>5, <2>6, SameRegistered, AccountedStep
<1>3. QED BY <1>1, <1>2 DEF PublisherStep

\* A subscription's step drops nothing, unless its replay failed.
LEMMA SubscriberAccounted ==
    ASSUME TypeOK, PlaceInv, Accounted, NEW s \in Subs, SubscriberStep(s)
    PROVE  Accounted'
<1>1. Next
  BY DEF Next
<1>2. \A l \in sent : l.sub \in Registered' => l.sub \in Registered
  BY <1>1, SubscriberForward, NextRegistered, RegisteredBefore DEF PlaceInv
<1>3. CASE Subscribe(s) \/ ReadHistory(s) \/ Unsubscribe(s) \/ StreamEnds(s)
  <2>1. UNCHANGED <<queue, buffer, held, abandoned, backoff, dying, stuck,
                    acked, dlq, sent>>
    BY <1>3 DEF Subscribe, ReadHistory, Unsubscribe, StreamEnds, regVars,
                streamVars, retryVars, logVars
  <2>2. Located' = Located
    BY <2>1, QuietMoves DEF Located, Staged, Retrying
  <2>3. QED BY <1>2, <2>1, <2>2, AccountedStep
<1>4. CASE ReplayDone(s)
  <2>0. PICK K, O \in SUBSET Delivery : HandsOver(s, K, O)
    BY <1>4, ReplayMoves
  <2>1. /\ Handed' = Handed \union K /\ Retrying' = Retrying \union O
        /\ sent' = sent \union K \union O
        /\ Staged \subseteq Staged' \union K \union O
    BY <2>0 DEF HandsOver
  <2>2. UNCHANGED <<acked, dlq>>
    BY <1>4 DEF ReplayDone
  <2>3. Located \union K \union O \subseteq Located'
    BY <2>1, <2>2 DEF Located
  <2>4. \A l \in K \union O : l \notin sent => Lineage(l) = l
    <3>1. PICK old \in Ordered(history[s] \intersect Selects[s]),
               new \in Ordered({buffer[s][i] : i \in DOMAIN buffer[s]}) :
               ReplayDone(s)!(old, new)
      BY <1>4 DEF ReplayDone
    <3> DEFINE a == Deliveries(s, old, new)
    <3>2. a \in Seq(Delivery)
      BY ReplayArrivals
    <3>3. \A i \in 1..Len(a) : Lineage(a[i]) = a[i]
      BY ArrivingDistinct
    <3>4. sent' = sent \union {a[i] : i \in DOMAIN a}
      BY <3>1
    <3> HIDE DEF a
    <3>5. QED BY <2>1, <3>2, <3>3, <3>4
  <2>5. QED BY <1>2, <2>1, <2>3, <2>4, AccountedStep
<1>5. CASE ReplayFails(s)
  <2>1. /\ sub' = [sub EXCEPT ![s] = "gone"]
        /\ buffer' = [buffer EXCEPT ![s] = << >>]
        /\ UNCHANGED <<queue, held, abandoned, backoff, dying, stuck, acked,
                       dlq, sent>>
    BY <1>5 DEF ReplayFails, streamVars, retryVars, logVars
  <2>2. Handed' = Handed /\ Retrying' = Retrying /\ s \notin Registered'
    BY <2>1, QuietMoves DEF Retrying, Registered, TypeOK
  <2>3. ASSUME NEW d \in Staged, Lineage(d).sub \in Registered'
        PROVE  d \in Staged'
    <3>1. PICK r \in Subs : \E i \in DOMAIN buffer[r] :
                   d = First(r, buffer[r][i], "live")
      BY DEF Staged
    <3>2. Lineage(d).sub = r
      BY <3>1, FirstLineage
    <3>3. buffer'[r] = buffer[r]
      BY <2>1, <2>2, <2>3, <3>2 DEF TypeOK
    <3>4. QED BY <3>1, <3>3 DEF Staged
  <2>4. \A d \in Located : Lineage(d).sub \in Registered' => d \in Located'
    BY <2>1, <2>2, <2>3 DEF Located
  <2>5. QED BY <1>2, <2>1, <2>4, AccountedStep
<1>6. CASE Get(s) \/ CancelledGet(s)
  <2>1. UNCHANGED <<buffer, acked, dlq, sent>>
    BY <1>6 DEF Get, CancelledGet, regVars, logVars
  <2>2. Located' = Located
    BY <1>6, <2>1, GetMoves DEF Located, Staged
  <2>3. QED BY <1>2, <2>1, <2>2, AccountedStep
<1>7. QED BY <1>3, <1>4, <1>5, <1>6 DEF SubscriberStep

\* A delivery's step drops nothing of a subscription that still exists.
LEMMA DeliveryAccounted ==
    ASSUME TypeOK, PlaceInv, Accounted, NEW d \in Delivery, DeliveryStep(d)
    PROVE  Accounted'
<1>1. Next
  BY DEF Next
<1>2. \A l \in sent : l.sub \in Registered' => l.sub \in Registered
  BY <1>1, DeliveryForward, NextRegistered, RegisteredBefore DEF PlaceInv
<1>3. sent' = sent /\ Staged' = Staged
  BY DEF DeliveryStep, Ack, Nack, BackoffFires, DlqStored, DlqFails, regVars,
         logVars, Staged
<1>4. Lineage(Lineage(d)) = Lineage(d) /\ Lineage(d).sub = d.sub
  BY LineageAgain
<1>5. SUFFICES ASSUME NEW e \in Located, Lineage(e).sub \in Registered'
               PROVE  \E x \in Located' : Lineage(x) = Lineage(e)
  BY <1>2, <1>3, AccountedStep
<1>6. CASE Ack(d)
  <2>1. /\ d \in held /\ held' = held \ {d} /\ acked' = acked \union {Lineage(d)}
        /\ UNCHANGED <<queue, abandoned, backoff, dying, stuck, dlq>>
    BY <1>6 DEF Ack, retryVars
  <2>2. Handed' = Handed \ {d} /\ Retrying' = Retrying
    BY <2>1, SettleMoves DEF Retrying
  <2>3. Located \subseteq Located' \union {d} /\ Lineage(d) \in Located'
    BY <1>3, <2>1, <2>2 DEF Located
  <2>4. QED BY <1>4, <2>3
<1>7. CASE Nack(d)
  <2>1. /\ d \in held /\ held' = held \ {d}
        /\ UNCHANGED <<queue, abandoned, stuck, acked, dlq, sub>>
    BY <1>7 DEF Nack, NackRegistered, NackGone, logVars
  <2>2. Handed' = Handed \ {d}
    BY <2>1, SettleMoves
  <2>3. CASE NackRegistered(d)
    <3>1. Retrying' = Retrying \union {d}
      BY <2>1, <2>3 DEF NackRegistered, Schedule, Retrying
    <3>2. Located \subseteq Located'
      BY <1>3, <2>1, <2>2, <3>1 DEF Located
    <3>3. QED BY <3>2
  <2>4. CASE NackGone(d)
    <3>1. Retrying' = Retrying /\ d.sub \notin Registered'
      BY <2>1, <2>4, SameRegistered DEF NackGone, Retrying
    <3>2. Located \subseteq Located' \union {d}
      BY <1>3, <2>1, <2>2, <3>1 DEF Located
    <3>3. QED BY <1>4, <1>5, <3>1, <3>2
  <2>5. QED BY <1>7, <2>3, <2>4 DEF Nack
<1>8. CASE BackoffFires(d) /\ Redeliver(d)
  <2>1. /\ Handed' = Handed \union {Again(d)} /\ Retrying' = Retrying \ {d}
    BY <1>8, RedeliverMoves
  <2>2. Located \subseteq Located' \union {d} /\ Again(d) \in Located'
    BY <1>3, <1>8, <2>1 DEF Located, BackoffFires, logVars
  <2>3. QED BY <2>2, AgainLineage
<1>9. CASE BackoffFires(d) /\ Bounce(d)
  <2>1. Handed' = Handed /\ Retrying' = (Retrying \ {d}) \union {Again(d)}
    BY <1>9, BounceMoves
  <2>2. Located \subseteq Located' \union {d} /\ Again(d) \in Located'
    BY <1>3, <1>9, <2>1 DEF Located, BackoffFires, logVars
  <2>3. QED BY <2>2, AgainLineage
<1>10. CASE DlqStored(d)
  <2>1. /\ Handed' = Handed /\ Retrying' = Retrying \ {d} /\ acked' = acked
        /\ dlq' = dlq \union {Lineage(d)}
    BY <1>10, DlqMoves DEF DlqStored
  <2>2. Located \subseteq Located' \union {d} /\ Lineage(d) \in Located'
    BY <1>3, <2>1 DEF Located
  <2>3. QED BY <1>4, <2>2
<1>11. CASE DlqFails(d)
  <2>1. /\ UNCHANGED <<queue, held, abandoned, backoff, acked, dlq>>
        /\ d \in dying /\ dying' = dying \ {d} /\ stuck' = stuck \union {d}
    BY <1>11 DEF DlqFails, streamVars, logVars
  <2>2. Retrying' = Retrying
    BY <2>1 DEF Retrying
  <2>3. Located' = Located
    BY <1>3, <2>1, <2>2, QuietMoves DEF Located
  <2>4. QED BY <2>3
<1>12. QED BY <1>6, <1>7, <1>8, <1>9, <1>10, <1>11 DEF DeliveryStep, BackoffFires

\* Nothing was sent initially.
LEMMA InitAccounted == Init => Accounted
BY DEF Init, Accounted

\* A stuttering step drops nothing.
LEMMA StutterAccounted ==
    ASSUME Accounted, UNCHANGED vars
    PROVE  Accounted'
<1>1. Located' = Located /\ sent' = sent /\ sub' = sub
  BY QuietMoves DEF vars, regVars, streamVars, retryVars, logVars, Located,
                    Staged, Retrying
<1>2. QED BY <1>1, SameRegistered DEF Accounted

\* A delivery located anywhere has a place.
LEMMA LocatedIsPlace ==
    ASSUME TypeOK, PlaceInv, NEW d \in Located
    PROVE  Places(Lineage(d)) # {}
<1> DEFINE l == Lineage(d)
<1>1. CASE d \in Queued
  <2>1. PICK s \in Subs : \E i \in DOMAIN queue[s] : d = queue[s][i]
    BY <1>1 DEF Queued
  <2>2. PICK i \in DOMAIN queue[s] : d = queue[s][i]
    BY <2>1
  <2>3. l.sub = s
    BY <2>2 DEF Lineage, First, PlaceInv, SpotsUnique, QueuesUnique
  <2>4. <<"queue", i>> \in Places(l)
    BY <2>2, <2>3 DEF Places
  <2>5. QED BY <2>4
<1>2. CASE d \in Staged
  <2>1. PICK s \in Subs : \E i \in DOMAIN buffer[s] : d = First(s, buffer[s][i], "live")
    BY <1>2 DEF Staged
  <2>2. PICK i \in DOMAIN buffer[s] : d = First(s, buffer[s][i], "live")
    BY <2>1
  <2>3. l = First(s, buffer[s][i], "live") /\ l.sub = s
    BY <2>2, FirstLineage
  <2>4. <<"buffer", i>> \in Places(l)
    BY <2>3 DEF Places
  <2>5. QED BY <2>4
<1>3. CASE d \in held
  <2>1. <<"held", d>> \in Places(l)
    BY <1>3 DEF Places
  <2>2. QED BY <2>1
<1>4. CASE d \in abandoned
  <2>1. <<"abandoned", d>> \in Places(l)
    BY <1>4 DEF Places
  <2>2. QED BY <2>1
<1>5. CASE d \in backoff
  <2>1. <<"backoff", d>> \in Places(l)
    BY <1>5 DEF Places
  <2>2. QED BY <2>1
<1>6. CASE d \in dying
  <2>1. <<"dying", d>> \in Places(l)
    BY <1>6 DEF Places
  <2>2. QED BY <2>1
<1>7. CASE d \in stuck
  <2>1. <<"stuck", d>> \in Places(l)
    BY <1>7 DEF Places
  <2>2. QED BY <2>1
<1>8. CASE d \in acked
  <2>1. <<"acked", d>> \in Places(l)
    BY <1>8 DEF Places
  <2>2. QED BY <2>1
<1>9. CASE d \in dlq
  <2>1. <<"dlq", d>> \in Places(l)
    BY <1>9 DEF Places
  <2>2. QED BY <2>1
<1>10. QED BY <1>1, <1>2, <1>3, <1>4, <1>5, <1>6, <1>7, <1>8, <1>9
           DEF Located, Handed, Retrying

\* A delivery to a subscription that still exists is never dropped: every one ever
\* made is staged, queued, held, waiting, acked or dead-lettered, whatever the
\* queues' bounds, the replays and the failures.
THEOREM NothingIsDropped == Spec => []NeverDropped
<1>1. TypeOK /\ PlaceInv /\ Accounted /\ [Next]_vars => Accounted'
  BY PublisherAccounted, SubscriberAccounted, DeliveryAccounted, StutterAccounted
     DEF Next
<1>2. TypeOK /\ PlaceInv /\ Accounted => NeverDropped
  <2> SUFFICES ASSUME TypeOK, PlaceInv, Accounted, NEW l \in sent, l.sub \in Registered
               PROVE  Places(l) # {}
    BY DEF NeverDropped
  <2>1. PICK d \in Located : Lineage(d) = l
    BY DEF Accounted
  <2>2. QED BY <2>1, LocatedIsPlace
<1>3. QED BY <1>1, <1>2, InitAccounted, Placed, PTL DEF Spec

-----------------------------------------------------------------------------
(* From the snapshot to the live flow. *)

\* A message that is fanned out, or about to be, has its row.
StoredFirst == \A m \in Msgs : pub[m] \in {"stored", "done"} => m \in stored

Wanted(s, m) == m \in Selects[s] \intersect Replayable /\ m >= Since[s]

\* Once the snapshot is taken, every wanted message that was fanned out is in it
\* or was staged.
Covered ==
    \A s \in Replays, m \in Msgs :
        pub[m] = "done" /\ Wanted(s, m) =>
            /\ sub[s] = "read" =>
                   m \in history[s] \/ \E l \in sent : l.sub = s /\ l.msg = m
            /\ sub[s] = "live" => \E l \in sent : l.sub = s /\ l.msg = m

ReplayInv == StoredFirst /\ Covered

\* A step that fans nothing out and reads no history.
LEMMA ReplaySame ==
    ASSUME ReplayInv, sent \subseteq sent', stored \subseteq stored',
           \A m \in Msgs : /\ pub'[m] = "stored" => pub[m] = "stored" \/ m \in stored'
                           /\ pub'[m] = "done" => pub[m] = "done",
           \A s \in Replays : sub'[s] \in {"read", "live"} =>
                                  sub'[s] = sub[s] /\ history'[s] = history[s]
    PROVE  ReplayInv'
<1>1. StoredFirst'
  BY DEF ReplayInv, StoredFirst
<1>2. Covered'
  BY DEF ReplayInv, Covered, Wanted
<1>3. QED BY <1>1, <1>2 DEF ReplayInv

\* Nobody's refreshing the gate stores or fans out a message.
LEMMA RefreshPhases ==
    ASSUME TypeOK, RefreshAdmission
    PROVE  \A m \in Msgs : pub'[m] \in {"stored", "done"} => pub'[m] = pub[m]
BY DEF TypeOK, RefreshAdmission, gateVars

\* A publisher's step leaves no gap.
LEMMA PublisherReplay ==
    ASSUME TypeOK, ReplayInv, NEW m \in Msgs, PublisherStep(m)
    PROVE  ReplayInv'
<1>1. CASE Publish(m) \/ Resume(m) \/ Commit(m) \/ AppendFails(m) \/ CancelPublish(m)
  <2>1. UNCHANGED <<sub, history, sent>> /\ stored \subseteq stored'
    BY <1>1 DEF Publish, Resume, Commit, AppendFails, CancelPublish, regVars, logVars
  <2>2. \A k \in Msgs : /\ pub'[k] = "stored" => pub[k] = "stored" \/ k \in stored'
                        /\ pub'[k] = "done" => pub[k] = "done"
    BY <1>1 DEF Publish, Resume, Gate, Commit, AppendFails, CancelPublish, TypeOK
  <2>3. QED BY <2>1, <2>2, ReplaySame
<1>2. CASE Fanout(m)
  <2>1. /\ UNCHANGED <<sub, history, stored>>
        /\ pub[m] = "stored" /\ pub' = [pub EXCEPT ![m] = "done"]
        /\ sent' = sent \union {First(s, m, "live") : s \in Matching(m)}
    BY <1>2 DEF Fanout
  <2>2. \A k \in Msgs : k # m => pub'[k] = pub[k]
    BY <2>1 DEF TypeOK
  <2>3. StoredFirst'
    BY <2>1, <2>2 DEF ReplayInv, StoredFirst
  <2>4. ASSUME NEW s \in Replays, sub[s] \in {"read", "live"}, m \in Selects[s]
        PROVE  \E l \in sent' : l.sub = s /\ l.msg = m
    <3>1. s \in Matching(m)
      BY <2>4, SubsAssumption DEF Matching, Registered
    <3>2. First(s, m, "live") \in sent'
      BY <2>1, <3>1
    <3>3. QED BY <3>2, FirstLineage
  <2>5. Covered'
    BY <2>1, <2>2, <2>4 DEF ReplayInv, Covered, Wanted
  <2>6. QED BY <2>3, <2>5 DEF ReplayInv
<1>3. QED BY <1>1, <1>2 DEF PublisherStep

\* A subscription's step leaves no gap: the snapshot has every row of a message
\* fanned out before it, and the replay hands over all of it.
LEMMA SubscriberReplay ==
    ASSUME TypeOK, ReplayInv, NEW s \in Subs, SubscriberStep(s)
    PROVE  ReplayInv'
<1>1. CASE Subscribe(s) \/ Unsubscribe(s)
  <2>1. /\ UNCHANGED <<history, sent, stored>> /\ RefreshAdmission
        /\ \A r \in Subs : r # s => sub'[r] = sub[r]
        /\ s \in Replays => sub'[s] \in {"reading", "gone"}
    BY <1>1 DEF Subscribe, Unsubscribe, TearDown, logVars, TypeOK
  <2>2. \A r \in Replays : r \in Subs
    BY SubsAssumption
  <2>3. QED BY <2>1, <2>2, RefreshPhases, ReplaySame
<1>2. CASE ReadHistory(s)
  <2>1. /\ sub' = [sub EXCEPT ![s] = "read"]
        /\ history' = [history EXCEPT
               ![s] = {m \in stored \intersect Replayable : m >= Since[s]}]
        /\ UNCHANGED <<pub, sent, stored>>
    BY <1>2 DEF ReadHistory, gateVars, logVars
  <2>2. /\ sub'[s] = "read"
        /\ history'[s] = {m \in stored \intersect Replayable : m >= Since[s]}
        /\ \A r \in Subs : r # s => sub'[r] = sub[r] /\ history'[r] = history[r]
    BY <2>1 DEF TypeOK
  <2>3. StoredFirst'
    BY <2>1 DEF ReplayInv, StoredFirst
  <2>4. Covered'
    BY <2>1, <2>2, SubsAssumption DEF ReplayInv, StoredFirst, Covered, Wanted
  <2>5. QED BY <2>3, <2>4 DEF ReplayInv
<1>3. CASE ReplayDone(s)
  <2>0. PICK K, O \in SUBSET Delivery : HandsOver(s, K, O)
    BY <1>3, ReplayMoves
  <2>1. /\ sent' = sent \union K \union O
        /\ \A m \in history[s] \intersect Selects[s] :
                 First(s, m, "history") \in K \union O
    BY <2>0 DEF HandsOver
  <2>2. /\ sub[s] = "read" /\ sub' = [sub EXCEPT ![s] = "live"]
        /\ history' = [history EXCEPT ![s] = {}] /\ UNCHANGED <<pub, stored>>
    BY <1>3 DEF ReplayDone, gateVars
  <2>3. /\ sub'[s] = "live"
        /\ \A r \in Subs : r # s => sub'[r] = sub[r] /\ history'[r] = history[r]
    BY <2>2 DEF TypeOK
  <2>4. StoredFirst'
    BY <2>2 DEF ReplayInv, StoredFirst
  <2>5. \A m \in history[s] \intersect Selects[s] :
            \E l \in sent' : l.sub = s /\ l.msg = m
    BY <2>1, FirstLineage
  <2>6. sent \subseteq sent'
    BY <2>1
  <2>7. Covered'
    BY <2>2, <2>3, <2>5, <2>6, SubsAssumption DEF ReplayInv, Covered, Wanted
  <2>8. QED BY <2>4, <2>7 DEF ReplayInv
<1>4. CASE ReplayFails(s)
  <2>1. /\ UNCHANGED <<pub, sent, stored>>
        /\ \A r \in Subs : r # s => sub'[r] = sub[r] /\ history'[r] = history[r]
        /\ sub'[s] = "gone"
    BY <1>4 DEF ReplayFails, gateVars, logVars, TypeOK
  <2>2. \A r \in Replays : r \in Subs
    BY SubsAssumption
  <2>3. QED BY <2>1, <2>2, ReplaySame
<1>5. CASE Get(s) \/ CancelledGet(s) \/ StreamEnds(s)
  <2>1. UNCHANGED <<sub, history, pub, sent, stored>>
    BY <1>5 DEF Get, CancelledGet, StreamEnds, regVars, gateVars, logVars
  <2>2. QED BY <2>1, ReplaySame
<1>6. QED BY <1>1, <1>2, <1>3, <1>4, <1>5 DEF SubscriberStep

\* A delivery's step leaves no gap.
LEMMA DeliveryReplay ==
    ASSUME TypeOK, ReplayInv, NEW d \in Delivery, DeliveryStep(d)
    PROVE  ReplayInv'
<1>1. UNCHANGED <<history, sent, stored>>
  BY DEF DeliveryStep, Ack, Nack, BackoffFires, DlqStored, DlqFails, regVars, logVars
<1>2. \A m \in Msgs : pub'[m] \in {"stored", "done"} => pub'[m] = pub[m]
  BY RefreshPhases DEF DeliveryStep, Ack, Nack, NackRegistered, NackGone,
                       BackoffFires, DlqStored, TearDown, DlqFails, gateVars
<1>3. sub' = sub \/ sub' = [sub EXCEPT ![d.sub] = "gone"]
  BY DEF DeliveryStep, Ack, Nack, NackRegistered, NackGone, BackoffFires,
         DlqStored, TearDown, DlqFails, regVars
<1>4. \A s \in Subs : sub'[s] \in {"read", "live"} => sub'[s] = sub[s]
  BY <1>3 DEF TypeOK
<1>5. QED BY <1>1, <1>2, <1>4, ReplaySame, SubsAssumption

\* Nothing is published initially.
LEMMA InitReplay == Init => ReplayInv
BY SubsAssumption DEF Init, ReplayInv, StoredFirst, Covered

\* A stuttering step leaves no gap.
LEMMA StutterReplay ==
    ASSUME ReplayInv, UNCHANGED vars
    PROVE  ReplayInv'
BY ReplaySame DEF vars, regVars, gateVars, logVars

\* Once its replay is over, a subscription has been sent every replayable message
\* from its timestamp on whose publish was accepted, live or as history
\* (broker.py:161-184): none falls between the snapshot and the live flow.
THEOREM NoGap == Spec => []NoReplayGap
<1>1. TypeOK /\ ReplayInv /\ [Next]_vars => ReplayInv'
  BY PublisherReplay, SubscriberReplay, DeliveryReplay, StutterReplay DEF Next
<1>2. ReplayInv => NoReplayGap
  BY DEF ReplayInv, Covered, Wanted, NoReplayGap
<1>3. QED BY <1>1, <1>2, InitReplay, TypeCorrect, PTL DEF Spec

-----------------------------------------------------------------------------
(* History before live. *)

\* A queue's first attempts are in order.
InOrder(q) ==
    \A i, j \in DOMAIN q :
        i < j /\ q[i].attempt = 1 /\ q[j].attempt = 1 /\ q[j].origin = "history"
            => q[i].origin = "history" /\ q[i].msg < q[j].msg

\* Putting anything but a first attempt of history at the end keeps the order.
LEMMA AppendInOrder ==
    ASSUME NEW q \in Seq(Delivery), NEW d \in Delivery, InOrder(q),
           d.attempt # 1 \/ d.origin # "history"
    PROVE  InOrder(Append(q, d))
<1>1. /\ DOMAIN Append(q, d) = 1..(Len(q) + 1) /\ Len(q) \in Nat
      /\ DOMAIN q = 1..Len(q)
      /\ \A i \in 1..Len(q) : Append(q, d)[i] = q[i]
      /\ Append(q, d)[Len(q) + 1] = d
  OBVIOUS
<1> DEFINE r == Append(q, d)
<1> HIDE DEF r
<1>2. SUFFICES ASSUME NEW i \in DOMAIN r, NEW j \in DOMAIN r, i < j,
                      r[i].attempt = 1, r[j].attempt = 1, r[j].origin = "history"
               PROVE  r[i].origin = "history" /\ r[i].msg < r[j].msg
  BY DEF InOrder, r
<1>3. j # Len(q) + 1
  BY <1>1, <1>2 DEF r
<1>4. i \in 1..Len(q) /\ j \in 1..Len(q)
  BY <1>1, <1>2, <1>3 DEF r
<1>5. r[i] = q[i] /\ r[j] = q[j]
  BY <1>1, <1>4 DEF r
<1>6. QED BY <1>1, <1>2, <1>4, <1>5 DEF InOrder

\* So does taking the head.
LEMMA TailInOrder ==
    ASSUME NEW q \in Seq(Delivery), q # << >>, InOrder(q)
    PROVE  InOrder(Tail(q))
<1>1. /\ DOMAIN Tail(q) = 1..(Len(q) - 1) /\ Len(q) \in Nat
      /\ DOMAIN q = 1..Len(q)
      /\ \A i \in 1..(Len(q) - 1) : Tail(q)[i] = q[i + 1] /\ i + 1 \in 1..Len(q)
  OBVIOUS
<1> DEFINE r == Tail(q)
<1> HIDE DEF r
<1>2. SUFFICES ASSUME NEW i \in DOMAIN r, NEW j \in DOMAIN r, i < j,
                      r[i].attempt = 1, r[j].attempt = 1, r[j].origin = "history"
               PROVE  r[i].origin = "history" /\ r[i].msg < r[j].msg
  BY DEF InOrder, r
<1>3. /\ r[i] = q[i + 1] /\ r[j] = q[j + 1] /\ i + 1 < j + 1
      /\ i + 1 \in DOMAIN q /\ j + 1 \in DOMAIN q
  BY <1>1, <1>2 DEF r
<1>4. QED BY <1>2, <1>3 DEF InOrder

\* A replay hands over in order.
LEMMA ArrivingInOrder ==
    ASSUME TypeOK, NEW s \in Subs,
           NEW old \in Ordered(history[s] \intersect Selects[s]),
           NEW new \in Ordered({buffer[s][i] : i \in DOMAIN buffer[s]})
    PROVE  InOrder(Deliveries(s, old, new))
<1> DEFINE a == Deliveries(s, old, new)
           H == history[s] \intersect Selects[s]
           B == {buffer[s][i] : i \in DOMAIN buffer[s]}
<1>1. H \in SUBSET Msgs /\ B \in SUBSET Msgs
  BY DEF TypeOK
<1>2. /\ old \in Seq(Msgs) /\ new \in Seq(Msgs)
      /\ \A i, j \in 1..Len(old) : i < j => old[i] < old[j]
  BY <1>1, OrderedType
<1>3. /\ a \in Seq(Delivery) /\ Len(a) = Len(old) + Len(new)
      /\ \A i \in 1..Len(old) : a[i] = First(s, old[i], "history")
      /\ \A i \in 1..Len(new) : a[Len(old) + i] = First(s, new[i], "live")
  BY <1>2, ArrivingType
<1>4. Len(old) \in Nat /\ Len(new) \in Nat
  BY <1>2
<1> HIDE DEF a
<1>5. SUFFICES ASSUME NEW i \in DOMAIN a, NEW j \in DOMAIN a, i < j,
                      a[j].origin = "history"
               PROVE  a[i].origin = "history" /\ a[i].msg < a[j].msg
  BY DEF InOrder, a
<1>6. i \in 1..Len(a) /\ j \in 1..Len(a)
  BY <1>3
<1>7. j \in 1..Len(old)
  <2> SUFFICES ASSUME j \notin 1..Len(old) PROVE FALSE
    OBVIOUS
  <2>1. j - Len(old) \in 1..Len(new) /\ j = Len(old) + (j - Len(old))
    BY <1>3, <1>4, <1>6
  <2>2. a[j] = First(s, new[j - Len(old)], "live")
    BY <1>3, <2>1
  <2>3. QED BY <2>2, <1>5, FirstLineage
<1>8. i \in 1..Len(old)
  BY <1>4, <1>5, <1>6, <1>7
<1>9. /\ a[i].origin = "history" /\ a[i].msg = old[i] /\ a[j].msg = old[j]
  BY <1>3, <1>7, <1>8, FirstLineage
<1>10. QED BY <1>2, <1>5, <1>7, <1>8, <1>9

Orderly == \A s \in Subs : InOrder(queue[s])

\* A fanout queues live messages.
LEMMA PublisherOrder ==
    ASSUME TypeOK, Orderly, NEW m \in Msgs, PublisherStep(m)
    PROVE  Orderly'
<1>1. CASE Fanout(m)
  <2> DEFINE staging == Matching(m) \intersect Replaying
             full == {s \in Matching(m) \ staging : Len(queue[s]) >= QueueBound}
             room == Matching(m) \ (staging \union full)
  <2>1. queue' = [s \in Subs |-> IF s \in room
                                 THEN Append(queue[s], First(s, m, "live"))
                                 ELSE queue[s]]
    BY <1>1 DEF Fanout
  <2> HIDE DEF room
  <2>2. ASSUME NEW s \in Subs
        PROVE  InOrder(Append(queue[s], First(s, m, "live")))
    <3>1. First(s, m, "live") \in Delivery /\ First(s, m, "live").origin # "history"
      BY FirstType, FirstLineage DEF Origin
    <3>2. queue[s] \in Seq(Delivery) /\ InOrder(queue[s])
      BY DEF TypeOK, Orderly
    <3>3. QED BY <3>1, <3>2, AppendInOrder
  <2>3. ASSUME NEW s \in Subs PROVE InOrder(queue'[s])
    BY <2>1, <2>2 DEF Orderly
  <2>4. QED BY <2>3 DEF Orderly
<1>2. CASE ~Fanout(m)
  <2>1. queue' = queue
    BY <1>2 DEF PublisherStep, Publish, Resume, Commit, AppendFails,
                CancelPublish, streamVars
  <2>2. QED BY <2>1 DEF Orderly
<1>3. QED BY <1>1, <1>2

\* A replay ends with an empty queue before it, so that its order is the queue's.
LEMMA SubscriberOrder ==
    ASSUME TypeOK, PlaceInv, Started, Orderly, NEW s \in Subs, SubscriberStep(s)
    PROVE  Orderly'
<1>1. queue[s] \in Seq(Delivery) /\ InOrder(queue[s])
  BY DEF TypeOK, Orderly
<1>2. CASE ReplayDone(s)
  <2>1. PICK old \in Ordered(history[s] \intersect Selects[s]),
             new \in Ordered({buffer[s][i] : i \in DOMAIN buffer[s]}) :
             ReplayDone(s)!(old, new)
    BY <1>2 DEF ReplayDone
  <2> DEFINE a == Deliveries(s, old, new)
             room == QueueBound - Len(queue[s])
             kept == IF Len(a) <= room THEN Len(a) ELSE room
  <2>2. a \in Seq(Delivery) /\ kept \in 0..Len(a)
    BY ReplayArrivals
  <2>3. InOrder(a)
    BY ArrivingInOrder
  <2>4. sub[s] = "read" /\ queue' = [queue EXCEPT ![s] = @ \o SubSeq(a, 1, kept)]
    BY <2>1
  <2> HIDE DEF a, kept
  <2>e. Extended(s, a, kept)
    BY <2>2, <2>4, ReplayQueue, Zenon
  <2>5. /\ DOMAIN queue'[s] = 1..(Len(queue[s]) + kept)
        /\ \A i \in 1..kept : queue'[s][Len(queue[s]) + i] = a[i]
        /\ \A r \in Subs : r # s => queue'[r] = queue[r]
    BY ONLY <2>e DEF Extended
  <2>6. Len(queue[s]) = 0
    <3> SUFFICES ASSUME Len(queue[s]) # 0 PROVE FALSE
      OBVIOUS
    <3>1. 1 \in DOMAIN queue[s]
      BY <1>1
    <3>2. queue[s][1] \in Queued
      BY <3>1 DEF Queued
    <3>3. queue[s][1].sub = s
      BY <3>1 DEF PlaceInv, SpotsUnique, QueuesUnique
    <3>4. QED BY <2>4, <3>2, <3>3 DEF Started, Handed
  <2>7. \A i \in DOMAIN queue'[s] : i \in DOMAIN a /\ queue'[s][i] = a[i]
    <3>1. DOMAIN a = 1..Len(a) /\ kept \in Nat /\ Len(a) \in Nat /\ kept <= Len(a)
      BY <2>2
    <3>2. DOMAIN queue'[s] = 1..kept /\ \A i \in 1..kept : queue'[s][i] = a[i]
      BY <2>5, <2>6, <3>1
    <3>3. QED BY <3>1, <3>2
  <2>8. InOrder(queue'[s])
    BY <2>3, <2>7 DEF InOrder
  <2>9. QED BY <2>5, <2>8 DEF Orderly
<1>3. CASE Get(s) \/ CancelledGet(s)
  <2>1. queue[s] # << >> /\ queue' = [queue EXCEPT ![s] = Tail(@)]
    BY <1>3 DEF Get, CancelledGet
  <2>2. InOrder(Tail(queue[s]))
    BY <1>1, <2>1, TailInOrder
  <2>3. queue'[s] = Tail(queue[s]) /\ \A r \in Subs : r # s => queue'[r] = queue[r]
    BY <2>1 DEF TypeOK
  <2>4. ASSUME NEW r \in Subs PROVE InOrder(queue'[r])
    BY <2>2, <2>3 DEF Orderly
  <2>5. QED BY <2>4 DEF Orderly
<1>4. CASE Subscribe(s) \/ ReadHistory(s) \/ ReplayFails(s) \/ Unsubscribe(s)
           \/ StreamEnds(s)
  <2>1. queue' = queue
    BY <1>4 DEF Subscribe, ReadHistory, ReplayFails, Unsubscribe, StreamEnds, streamVars
  <2>2. QED BY <2>1 DEF Orderly
<1>5. QED BY <1>2, <1>3, <1>4 DEF SubscriberStep

\* A redelivery is no first attempt.
LEMMA DeliveryOrder ==
    ASSUME TypeOK, Orderly, NEW d \in Delivery, DeliveryStep(d)
    PROVE  Orderly'
<1>1. CASE BackoffFires(d) /\ Redeliver(d)
  <2>1. d \in backoff /\ queue' = [queue EXCEPT ![d.sub] = Append(@, Again(d))]
    BY <1>1 DEF BackoffFires, Redeliver
  <2>2. Again(d) \in Delivery
    BY <2>1, AgainType DEF TypeOK
  <2>3. Again(d).attempt # 1
    <3>1. d.attempt \in 1..(MaxAttempts - 1) /\ Again(d).attempt = d.attempt + 1
      BY DEF Again, Delivery
    <3>2. QED BY <3>1, BudgetAssumption
  <2>4. d.sub \in Subs
    BY DEF Delivery
  <2>5. queue[d.sub] \in Seq(Delivery) /\ InOrder(queue[d.sub])
    BY <2>4 DEF TypeOK, Orderly
  <2>6. InOrder(Append(queue[d.sub], Again(d)))
    BY <2>2, <2>3, <2>5, AppendInOrder
  <2>7. /\ queue'[d.sub] = Append(queue[d.sub], Again(d))
        /\ \A r \in Subs : r # d.sub => queue'[r] = queue[r]
    BY <2>1, <2>4 DEF TypeOK
  <2>8. ASSUME NEW r \in Subs PROVE InOrder(queue'[r])
    BY <2>6, <2>7 DEF Orderly
  <2>9. QED BY <2>8 DEF Orderly
<1>2. CASE ~(BackoffFires(d) /\ Redeliver(d))
  <2>1. queue' = queue
    BY <1>2 DEF DeliveryStep, Ack, Nack, BackoffFires, Bounce, DlqStored, DlqFails,
                streamVars
  <2>2. QED BY <2>1 DEF Orderly
<1>3. QED BY <1>1, <1>2

\* Empty queues are in order.
LEMMA InitOrder == Init => Orderly
BY DEF Init, Orderly, InOrder

\* A stuttering step leaves the queues as they are.
LEMMA StutterOrder ==
    ASSUME Orderly, UNCHANGED vars
    PROVE  Orderly'
BY DEF Orderly, vars, streamVars

\* First attempts are queued history before live, history oldest first
\* (broker.py:161-184, "the replay->live handoff stays age-ordered").
THEOREM HistoryComesFirst == Spec => []HistoryFirst
<1>1. TypeOK /\ PlaceInv /\ FlightInv /\ Orderly /\ [Next]_vars => Orderly'
  BY PublisherOrder, SubscriberOrder, DeliveryOrder, StutterOrder DEF Next, FlightInv
<1>2. Orderly => HistoryFirst
  BY DEF Orderly, InOrder, HistoryFirst
<1>3. QED BY <1>1, <1>2, InitOrder, Placed, Flown, PTL DEF Spec

-----------------------------------------------------------------------------
(* Why a publisher is held. *)

\* A gate that is shut has some backlog, in flight or retried.
LEMMA ShutHasBacklog ==
    ASSUME TypeOK, ~Open
    PROVE  inflight # {} \/ retryTotal > 0
<1>1. /\ Cardinality(inflight) \in Nat /\ retryTotal \in Int
      /\ inflight = {} => Cardinality(inflight) = 0
  BY DeliveriesCount, FS_EmptySet DEF TypeOK
<1>2. Watermark >= 1
  <2>1. Registered \in SUBSET Subs
    BY DEF Registered
  <2>2. IsFiniteSet(Registered) /\ Cardinality(Registered) \in Nat
    BY <2>1, SubsCount
  <2>3. Registered # {} => Cardinality(Registered) # 0
    BY <2>2, FS_EmptySet
  <2>4. PICK n \in Nat \ {0} : Watermark = MaxPerSub * n
    BY <2>2, <2>3 DEF Watermark
  <2>5. MaxPerSub \in Nat \ {0}
    BY CountsAssumption
  <2>6. QED BY <2>4, <2>5
<1>3. Watermark \in Int /\ Cardinality(inflight) + retryTotal >= Watermark
  <2>1. Watermark \in Int /\ Backlog \in Int
    BY GateNumbers
  <2>2. QED BY <2>1 DEF Open, Backlog
<1>4. QED BY <1>1, <1>2, <1>3

\* While a publisher is held, some delivery of a subscription that exists is still to
\* be read, settled, retried or dead-lettered, but for the exceptions
\* (broker.py:247-280, 301-321): no backlog is left that nothing can lower.
THEOREM HeldByWork == Spec => []HeldForSomething
<1>1. TypeOK /\ InflightExact /\ RetryCountExact => HeldForSomething
  <2> SUFFICES ASSUME TypeOK, InflightExact, RetryCountExact, ~Open, ~Unsettleable
               PROVE  \E d \in Queued \union held \union backoff \union dying :
                          d.sub \in Registered
    BY DEF HeldForSomething
  <2>1. abandoned = {} /\ stuck = {} /\ \A d \in inflight : d.sub \in Registered
    BY DEF Unsettleable
  <2>2. CASE inflight # {}
    <3>1. PICK d \in inflight : d.sub \in Registered
      BY <2>1, <2>2
    <3>2. d \in Outstanding(d.sub)
      BY <3>1 DEF InflightExact
    <3>3. d.sub \in Subs
      BY <3>1 DEF Registered
    <3>4. d \in Queued \union held
      BY <2>1, <3>2, <3>3 DEF Outstanding, Queued
    <3>5. QED BY <3>1, <3>4
  <2>3. CASE retryTotal > 0
    <3> DEFINE R == {d \in Retrying : d.sub \in Registered}
    <3>1. Cardinality(R) > 0
      BY <2>3 DEF RetryCountExact
    <3>2. R # {}
      BY <3>1, FS_EmptySet
    <3>3. QED BY <2>1, <3>2 DEF Retrying
  <2>4. QED BY <2>2, <2>3, ShutHasBacklog
<1>2. QED BY <1>1, TypeCorrect, InflightIsExact, RetryCountsAreExact, PTL

-----------------------------------------------------------------------------
(* What becomes of a delivery: the broker keeps what Custody promises. *)

\* What waits for to_dlq has no attempt left.
DyingSpent == \A d \in dying : Exhausted(d)

\* Nothing that is owed is in two places.
LEMMA OwedOnce ==
    ASSUME PlaceInv
    PROVE  /\ Queued \intersect (Staged \union held \union backoff \union dying) = {}
           /\ held \intersect (Staged \union backoff \union dying) = {}
           /\ dying \intersect (Staged \union backoff) = {}
           /\ backoff \intersect Staged = {}
<1> DEFINE In(k, d) == <<k, d>> \in Spots
<1>1. ASSUME NEW k, NEW j, NEW d, In(k, d), In(j, d) PROVE k = j
  <2>1. /\ <<k, d>> \in Spots /\ <<j, d>> \in Spots
        /\ Lineage(<<k, d>>[2]) = Lineage(<<j, d>>[2])
    BY <1>1
  <2>2. <<k, d>> = <<j, d>>
    BY <2>1 DEF PlaceInv, SpotsUnique, Unique
  <2>3. QED BY <2>2
<1>2. \A d : /\ d \in Queued => In("queue", d)
             /\ d \in Staged => In("buffer", d)
             /\ d \in held => In("held", d)
             /\ d \in backoff => In("backoff", d)
             /\ d \in dying => In("dying", d)
  BY DEF Spots
<1> HIDE DEF In
<1>3. \A d : /\ In("queue", d) => ~In("buffer", d) /\ ~In("held", d)
                                  /\ ~In("backoff", d) /\ ~In("dying", d)
             /\ In("held", d) => ~In("buffer", d) /\ ~In("backoff", d) /\ ~In("dying", d)
             /\ In("dying", d) => ~In("buffer", d) /\ ~In("backoff", d)
             /\ In("backoff", d) => ~In("buffer", d)
  BY <1>1
<1>4. QED BY <1>2, <1>3

\* What is owed was sent, to a subscription that had subscribed.
LEMMA OwedSent ==
    ASSUME TypeOK, PlaceInv, NEW d \in Owed
    PROVE  d \in Delivery /\ Lineage(d) \in sent /\ sub[d.sub] # "new"
<1>1. \E p \in Spots : p[2] = d
  <2>1. \/ <<"queue", d>> \in Spots \/ <<"buffer", d>> \in Spots
        \/ <<"held", d>> \in Spots \/ <<"backoff", d>> \in Spots
        \/ <<"dying", d>> \in Spots
    BY DEF Owed, Spots
  <2>2. QED BY <2>1
<1>2. d \in Delivery /\ Lineage(d) \in sent
  BY <1>1, SpotType DEF PlaceInv, SentKnown
<1>3. Lineage(d).sub = d.sub
  BY <1>2, LineageAgain
<1>4. QED BY <1>2, <1>3 DEF PlaceInv, SentKnown

\* A step that registers nobody and unregisters nobody.
LEMMA PhaseKept ==
    ASSUME sub' = sub
    PROVE  Phase' = Phase
BY DEF Phase, Registered

\* A subscription closes, or was closed.
LEMMA PhaseCloses ==
    ASSUME NEW s \in Subs, sub' = [sub EXCEPT ![s] = "gone"], TypeOK
    PROVE  Phase' = [Phase EXCEPT ![s] = "closed"]
<1>1. \A r \in Subs : sub'[r] = IF r = s THEN "gone" ELSE sub[r]
  BY DEF TypeOK
<1>2. \A r \in Subs : r \in Registered' <=> r # s /\ r \in Registered
  BY <1>1 DEF Registered
<1>3. \A r \in Subs : Phase'[r] = IF r = s THEN "closed" ELSE Phase[r]
  BY <1>1, <1>2 DEF Phase
<1>4. /\ Phase = [r \in Subs |-> Phase[r]] /\ Phase' = [r \in Subs |-> Phase'[r]]
  BY DEF Phase
<1>5. QED BY <1>3, <1>4

\* A replay moves on: the subscription stays open.
LEMMA PhaseStays ==
    ASSUME TypeOK, NEW s \in Subs, sub[s] \in {"reading", "read"},
           NEW p \in {"read", "live"}, sub' = [sub EXCEPT ![s] = p]
    PROVE  Phase' = Phase
<1>1. \A r \in Subs : sub'[r] = IF r = s THEN p ELSE sub[r]
  BY DEF TypeOK
<1>2. \A r \in Subs : r \in Registered' <=> r \in Registered
  BY <1>1 DEF Registered
<1>3. QED BY <1>1, <1>2 DEF Phase

\* A step that changes nothing Custody speaks of.
LEMMA CareStutters ==
    ASSUME Phase' = Phase, Owed' = Owed, UNCHANGED <<sent, abandoned, stuck, acked, dlq>>
    PROVE  UNCHANGED Care!vars
BY DEF Care!vars, Care!fates

\* Custody's words for an attempt are the broker's.
LEMMA CareWords ==
    ASSUME NEW d \in Delivery
    PROVE  /\ Care!Start(d) = Lineage(d) /\ Care!Retried(d) = Again(d)
           /\ Care!Spent(d) <=> Exhausted(d)
BY DEF Care!Start, Care!Retried, Care!Spent, Lineage, First, Again, Exhausted, Delivery

\* Deliveries are made by a fanout: one for every subscription that matches.
LEMMA FanoutMakes ==
    ASSUME TypeOK, PlaceInv, NEW m \in Msgs, Fanout(m)
    PROVE  Care!Make
<1> DEFINE staging == Matching(m) \intersect Replaying
           full == {s \in Matching(m) \ staging : Len(queue[s]) >= QueueBound}
           room == Matching(m) \ (staging \union full)
           new(S) == {First(s, m, "live") : s \in S}
           N == new(Matching(m))
<1>1. /\ pub[m] = "stored" /\ sent' = sent \union N
      /\ backoff' = backoff \union new(full)
      /\ UNCHANGED <<sub, held, abandoned, dying, stuck, acked, dlq>>
  BY DEF Fanout
<1>2. Queued' = Queued \union new(room)
  BY FanoutQueued
<1>3. Staged' = Staged \union new(staging)
  BY FanoutStaged
<1>4. N = new(staging) \union new(full) \union new(room)
  <2>1. /\ staging \subseteq Matching(m) /\ full \subseteq Matching(m)
        /\ room \subseteq Matching(m) /\ Matching(m) \subseteq staging \union full \union room
    OBVIOUS
  <2> HIDE DEF staging, full, room
  <2>2. QED BY <2>1
<1> HIDE DEF staging, full, room
<1>5. ASSUME NEW d \in N
      PROVE  d \notin sent /\ d \notin Owed /\ Phase[d.sub] = "open" /\ d.attempt = 1
  <2>1. PICK s \in Matching(m) : d = First(s, m, "live")
    OBVIOUS
  <2>2. d.sub = s /\ d.attempt = 1 /\ Lineage(d) = d
    BY <2>1, FirstLineage
  <2>3. d \notin sent
    BY <1>1, <2>1, FreshLive DEF PlaceInv
  <2>4. d \notin Owed
    BY <2>2, <2>3, OwedSent
  <2>5. s \in Subs /\ s \in Registered /\ sub[s] # "new"
    BY <2>1 DEF Matching, Registered
  <2>6. QED BY <2>2, <2>3, <2>4, <2>5 DEF Phase
<1> HIDE DEF N, new
<1>6. Owed' = Owed \union N
  BY <1>1, <1>2, <1>3, <1>4 DEF Owed
<1>7. Owed' \ Owed = N
  BY <1>5, <1>6
<1>8. Phase' = Phase
  BY <1>1, PhaseKept
<1>9. QED BY <1>1, <1>5, <1>6, <1>7, <1>8 DEF Care!Make, Care!fates

\* Deliveries are made by the end of a replay: the history, the staged ones having
\* been made when they were staged.
LEMMA ReplayMakes ==
    ASSUME TypeOK, PlaceInv, NEW s \in Subs, ReplayDone(s)
    PROVE  Care!Make
<1>1. PICK K, O \in SUBSET Delivery : HandsOver(s, K, O)
  BY ReplayMoves
<1> DEFINE N == K \union O
<1>2. /\ \A d \in N : d.sub = s
      /\ \A d \in N : d \in Staged \/ \E m \in Msgs : d = First(s, m, "history")
      /\ Queued' = Queued \union K /\ backoff' = backoff \union O
      /\ sent' = sent \union N /\ Staged \subseteq Staged' \union N
  BY <1>1 DEF HandsOver
<1>3. /\ sub[s] = "read" /\ sub' = [sub EXCEPT ![s] = "live"]
      /\ buffer' = [buffer EXCEPT ![s] = << >>]
      /\ UNCHANGED <<held, abandoned, dying, stuck, acked, dlq>>
  BY DEF ReplayDone
<1>4. Staged' \subseteq Staged
  <2>1. \A r \in Subs : \A i \in DOMAIN buffer'[r] :
            i \in DOMAIN buffer[r] /\ buffer'[r][i] = buffer[r][i]
    BY <1>3 DEF TypeOK
  <2>2. QED BY <2>1 DEF Staged
<1>5. Owed' = Owed \union N
  BY <1>2, <1>3, <1>4 DEF Owed
<1>6. ASSUME NEW d \in N
      PROVE  /\ Lineage(d) = d /\ d.attempt = 1 /\ Phase[d.sub] = "open"
             /\ d \notin Owed => d \notin sent
  <2>1. Lineage(d) = d /\ d.attempt = 1
    <3>1. CASE d \in Staged
      BY <3>1, FirstLineage DEF Staged
    <3>2. CASE \E m \in Msgs : d = First(s, m, "history")
      BY <3>2, FirstLineage
    <3>3. QED BY <1>2, <3>1, <3>2
  <2>2. Phase[d.sub] = "open"
    BY <1>2, <1>3 DEF Phase, Registered
  <2>3. ASSUME d \notin Owed PROVE d \notin sent
    <3>1. PICK m \in Msgs : d = First(s, m, "history")
      BY <1>2, <2>3 DEF Owed
    <3>2. d.origin = "history" /\ d.sub = s
      BY <3>1, FirstLineage
    <3>3. QED BY <1>3, <3>2 DEF PlaceInv, SentKnown
  <2>4. QED BY <2>1, <2>2, <2>3
<1>7. sent' = sent \union (Owed' \ Owed)
  <2>1. \A d \in N : d \in Owed => d \in sent
    BY <1>6, OwedSent
  <2> HIDE DEF N
  <2>2. QED BY <1>2, <1>5, <2>1
<1>8. Phase' = Phase
  BY <1>3, PhaseStays
<1> HIDE DEF N
<1>9. \A d \in Owed' \ Owed : Phase[d.sub] = "open" /\ d.attempt = 1 /\ d \notin sent
  BY <1>5, <1>6
<1>10. QED BY <1>3, <1>5, <1>7, <1>8, <1>9 DEF Care!Make, Care!fates

\* A publisher's other steps make nothing.
LEMMA PublisherCares ==
    ASSUME TypeOK, PlaceInv, NEW m \in Msgs, PublisherStep(m)
    PROVE  Care!Make \/ UNCHANGED Care!vars
<1>1. CASE Fanout(m)
  BY <1>1, FanoutMakes
<1>2. CASE ~Fanout(m)
  <2>1. UNCHANGED <<sub, queue, buffer, held, abandoned, backoff, dying, stuck, acked,
                    dlq, sent>>
    BY <1>2 DEF PublisherStep, Publish, Resume, Commit, AppendFails, CancelPublish,
                regVars, streamVars, retryVars, logVars
  <2>2. Owed' = Owed
    BY <2>1 DEF Owed, Queued, Staged
  <2>3. QED BY <2>1, <2>2, PhaseKept, CareStutters
<1>3. QED BY <1>1, <1>2

\* A read keeps what is owed, a cancelled one strands it.
LEMMA GetCares ==
    ASSUME TypeOK, PlaceInv, NEW s \in Subs, Get(s) \/ CancelledGet(s)
    PROVE  (\E d \in Owed : Care!Strand(d)) \/ UNCHANGED Care!vars
<1> DEFINE h == Head(queue[s])
<1>1. /\ queue[s] # << >> /\ queue' = [queue EXCEPT ![s] = Tail(@)]
      /\ UNCHANGED <<sub, buffer, backoff, dying, stuck, acked, dlq, sent>>
      /\ \/ held' = held \union {h} /\ abandoned' = abandoned
         \/ held' = held /\ abandoned' = abandoned \union {h}
  BY DEF Get, CancelledGet, regVars, retryVars, logVars
<1>2. h \in Queued /\ Queued' \subseteq Queued \ {h} /\ Queued \subseteq Queued' \union {h}
  BY <1>1, TailQueued DEF PlaceInv, SpotsUnique
<1>3. Staged' = Staged /\ Phase' = Phase
  BY <1>1, PhaseKept DEF Staged
<1> HIDE DEF h
<1>4. h \in Owed /\ h \notin Staged \union held \union backoff \union dying
  BY <1>2, OwedOnce DEF Owed
<1>5. CASE held' = held \union {h} /\ abandoned' = abandoned
  <2>1. Owed' = Owed
    BY <1>1, <1>2, <1>3, <1>5 DEF Owed
  <2>2. QED BY <1>1, <1>3, <1>5, <2>1, CareStutters
<1>6. CASE held' = held /\ abandoned' = abandoned \union {h}
  <2>1. Owed' = Owed \ {h}
    BY <1>1, <1>2, <1>3, <1>4, <1>6 DEF Owed
  <2>2. abandoned' \union stuck' = (abandoned \union stuck) \union {h}
    BY <1>1, <1>6
  <2>3. Care!Strand(h)
    BY <1>1, <1>3, <1>4, <2>1, <2>2 DEF Care!Strand
  <2>4. QED BY <1>4, <2>3
<1>7. QED BY <1>1, <1>5, <1>6

\* A subscription's step opens it, closes it, hands over its replay or moves a
\* delivery to its consumer.
LEMMA SubscriberCares ==
    ASSUME TypeOK, PlaceInv, NEW s \in Subs, SubscriberStep(s)
    PROVE  \/ Care!Open(s) \/ Care!Close(s) \/ Care!Make \/ UNCHANGED Care!vars
           \/ \E d \in Owed : Care!Strand(d)
<1>1. CASE Subscribe(s)
  <2>1. /\ sub[s] = "new"
        /\ sub' = [sub EXCEPT ![s] = IF s \in Replays THEN "reading" ELSE "live"]
        /\ UNCHANGED <<buffer, queue, held, abandoned, backoff, dying, stuck, acked, dlq,
                       sent>>
    BY <1>1 DEF Subscribe, retryVars, logVars
  <2>2. Owed' = Owed
    BY <2>1 DEF Owed, Queued, Staged
  <2>3. /\ \A r \in Subs : r # s => sub'[r] = sub[r]
        /\ sub'[s] \in {"reading", "live"}
    BY <2>1 DEF TypeOK
  <2>4. \A r \in Subs : r \in Registered' <=> r = s \/ r \in Registered
    BY <2>3 DEF Registered
  <2>5. \A r \in Subs : Phase'[r] = IF r = s THEN "open" ELSE Phase[r]
    BY <2>3, <2>4 DEF Phase
  <2>6. /\ Phase = [r \in Subs |-> Phase[r]] /\ Phase' = [r \in Subs |-> Phase'[r]]
        /\ Phase[s] = "new"
    BY <2>1 DEF Phase
  <2>7. Phase' = [Phase EXCEPT ![s] = "open"]
    BY <2>5, <2>6
  <2>8. QED BY <2>1, <2>2, <2>6, <2>7 DEF Care!Open, Care!fates
<1>2. CASE ReadHistory(s) \/ StreamEnds(s)
  <2>1. UNCHANGED <<buffer, queue, held, abandoned, backoff, dying, stuck, acked, dlq,
                    sent>>
    BY <1>2 DEF ReadHistory, StreamEnds, regVars, streamVars, retryVars, logVars
  <2>2. Owed' = Owed
    BY <2>1 DEF Owed, Queued, Staged
  <2>3. Phase' = Phase
    <3>1. CASE ReadHistory(s)
      BY <3>1, PhaseStays DEF ReadHistory
    <3>2. CASE StreamEnds(s)
      BY <3>2, PhaseKept DEF StreamEnds, regVars
    <3>3. QED BY <1>2, <3>1, <3>2
  <2>4. QED BY <2>1, <2>2, <2>3, CareStutters
<1>3. CASE ReplayFails(s)
  <2>1. /\ sub[s] \in {"reading", "read"} /\ sub' = [sub EXCEPT ![s] = "gone"]
        /\ buffer' = [buffer EXCEPT ![s] = << >>]
        /\ UNCHANGED <<queue, held, abandoned, backoff, dying, stuck, acked, dlq, sent>>
    BY <1>3 DEF ReplayFails, streamVars, retryVars, logVars
  <2>2. /\ \A r \in Subs : r # s => buffer'[r] = buffer[r]
        /\ DOMAIN buffer'[s] = {}
    BY <2>1 DEF TypeOK
  <2>3. Staged' \subseteq Staged
    BY <2>2 DEF Staged
  <2>4. \A d \in Staged \ Staged' : d.sub = s
    <3> SUFFICES ASSUME NEW r \in Subs, NEW i \in DOMAIN buffer[r], r # s
                 PROVE  First(r, buffer[r][i], "live") \in Staged'
      BY FirstLineage DEF Staged
    <3>1. buffer'[r] = buffer[r]
      BY <2>2
    <3>2. QED BY <3>1 DEF Staged
  <2>5. Owed' \subseteq Owed /\ Owed \ Owed' \subseteq Staged \ Staged'
    BY <2>1, <2>3 DEF Owed, Queued
  <2>6. Phase' = [Phase EXCEPT ![s] = "closed"] /\ Phase[s] # "new"
    BY <2>1, PhaseCloses DEF Phase
  <2>7. QED BY <2>1, <2>4, <2>5, <2>6 DEF Care!Close, Care!fates
<1>4. CASE Unsubscribe(s)
  <2>1. /\ sub[s] \in {"live", "gone"} /\ sub' = [sub EXCEPT ![s] = "gone"]
        /\ UNCHANGED <<buffer, queue, held, abandoned, backoff, dying, stuck, acked, dlq,
                       sent>>
    BY <1>4 DEF Unsubscribe, TearDown, retryVars, logVars
  <2>2. Owed' = Owed
    BY <2>1 DEF Owed, Queued, Staged
  <2>3. Phase' = [Phase EXCEPT ![s] = "closed"] /\ Phase[s] # "new"
    BY <2>1, PhaseCloses DEF Phase
  <2>4. QED BY <2>1, <2>2, <2>3 DEF Care!Close, Care!fates
<1>5. QED BY <1>1, <1>2, <1>3, <1>4, ReplayMakes, GetCares DEF SubscriberStep

\* A settled delivery is acked, retried, or given up with its subscription gone.
LEMMA SettleCares ==
    ASSUME TypeOK, PlaceInv, NEW d \in Delivery, Ack(d) \/ Nack(d)
    PROVE  \/ d \in Owed /\ Care!Ack(d)
           \/ d.sub \in Subs /\ Care!Close(d.sub)
           \/ UNCHANGED Care!vars
<1>1. /\ d \in held /\ held' = held \ {d}
      /\ UNCHANGED <<sub, queue, buffer, abandoned, stuck, dlq, sent>>
  BY DEF Ack, Nack, NackRegistered, NackGone, streamVars, retryVars, logVars
<1>2. /\ Queued' = Queued /\ Staged' = Staged /\ Phase' = Phase
  BY <1>1, PhaseKept DEF Queued, Staged
<1>3. d \in Owed /\ d \notin Queued \union Staged \union backoff \union dying
  BY <1>1, OwedOnce DEF Owed
<1>4. CASE Ack(d)
  <2>1. acked' = acked \union {Lineage(d)} /\ backoff' = backoff /\ dying' = dying
    BY <1>4 DEF Ack, retryVars
  <2>2. Owed' = Owed \ {d}
    BY <1>1, <1>2, <1>3, <2>1 DEF Owed
  <2>3. QED BY <1>1, <1>2, <1>3, <2>1, <2>2, CareWords DEF Care!Ack
<1>5. CASE Nack(d) /\ NackRegistered(d)
  <2>1. /\ acked' = acked /\ backoff \subseteq backoff' /\ dying \subseteq dying'
        /\ backoff' \union dying' = (backoff \union dying) \union {d}
    BY <1>5 DEF Nack, NackRegistered, Schedule, logVars
  <2>2. Owed' = Owed
    BY <1>1, <1>2, <2>1 DEF Owed
  <2>3. QED BY <1>1, <1>2, <2>1, <2>2, CareStutters
<1>6. CASE Nack(d) /\ NackGone(d)
  <2>1. UNCHANGED <<acked, backoff, dying>> /\ d.sub \notin Registered /\ d.sub \in Subs
    BY <1>6 DEF Nack, NackGone, logVars, Delivery
  <2>2. Owed' = Owed \ {d}
    BY <1>1, <1>2, <1>3, <2>1 DEF Owed
  <2>3. Phase[d.sub] = "closed"
    BY <1>3, <2>1, OwedSent DEF Phase
  <2>4. Phase' = [Phase EXCEPT ![d.sub] = "closed"]
    <3>1. Phase = [r \in Subs |-> Phase[r]]
      BY DEF Phase
    <3>2. QED BY <1>2, <2>3, <3>1
  <2>5. QED BY <1>1, <2>1, <2>2, <2>3, <2>4 DEF Care!Close, Care!fates
<1>7. QED BY <1>4, <1>5, <1>6 DEF Nack

\* A backoff that ends takes its delivery to the next attempt.
LEMMA BackoffCares ==
    ASSUME TypeOK, PlaceInv, NEW d \in Delivery, BackoffFires(d)
    PROVE  d \in Owed /\ Care!Retry(d)
<1>1. /\ d \in backoff /\ ~Exhausted(d)
      /\ UNCHANGED <<sub, buffer, held, abandoned, stuck, acked, dlq, sent>>
  BY DEF BackoffFires, TypeOK, regVars, logVars
<1>2. Staged' = Staged /\ Phase' = Phase
  BY <1>1, PhaseKept DEF Staged
<1>3. d \in Owed /\ d \notin Queued \union Staged \union held \union dying
  BY <1>1, OwedOnce DEF Owed
<1>4. Owed' = (Owed \ {d}) \union {Again(d)}
  <2>1. CASE Redeliver(d)
    <3>1. /\ queue' = [queue EXCEPT ![d.sub] = Append(@, Again(d))]
          /\ backoff' = backoff \ {d} /\ dying' = dying
      BY <2>1 DEF Redeliver
    <3>2. /\ Again(d) \in Delivery /\ Again(d).sub = d.sub /\ Lineage(Again(d)) = Lineage(d)
      BY <1>1, AgainType, AgainLineage
    <3>3. \A x \in Queued : Lineage(x) # Lineage(Again(d))
      <4>1. <<"backoff", d>> \in Spots /\ \A x \in Queued : <<"queue", x>> \in Spots
        BY <1>1 DEF Spots
      <4>2. \A x \in Queued : <<"queue", x>>[1] # <<"backoff", d>>[1]
        OBVIOUS
      <4>3. QED BY <3>2, <4>1, <4>2, SpotsApart
    <3>4. Queued' = Queued \union {Again(d)}
      BY <3>1, <3>2, <3>3, AppendQueued DEF PlaceInv, SpotsUnique
    <3>5. QED BY <1>1, <1>2, <1>3, <3>1, <3>4 DEF Owed
  <2>2. CASE Bounce(d)
    <3>1. /\ queue' = queue
          /\ \/ dying' = dying \union {Again(d)} /\ backoff' = backoff \ {d}
             \/ dying' = dying /\ backoff' = (backoff \ {d}) \union {Again(d)}
      BY <2>2 DEF Bounce, Schedule
    <3>2. Queued' = Queued
      BY <3>1 DEF Queued
    <3>3. QED BY <1>1, <1>2, <1>3, <3>1, <3>2 DEF Owed
  <2>3. QED BY <2>1, <2>2 DEF BackoffFires
<1>5. QED BY <1>1, <1>2, <1>3, <1>4, CareWords DEF Care!Retry, Care!fates

\* A dead-lettered delivery had its budget spent, and its subscription is evicted; one
\* that to_dlq failed for is stranded.
LEMMA DlqCares ==
    ASSUME TypeOK, PlaceInv, DyingSpent, NEW d \in Delivery, DlqStored(d) \/ DlqFails(d)
    PROVE  d \in Owed /\ (Care!DeadLetter(d) \/ Care!Strand(d))
<1>1. /\ d \in dying /\ dying' = dying \ {d} /\ Exhausted(d)
      /\ UNCHANGED <<queue, buffer, held, abandoned, backoff, acked, sent>>
  BY DEF DlqStored, DlqFails, DyingSpent, regVars, streamVars, logVars
<1>2. Staged' = Staged /\ Queued' = Queued
  BY <1>1 DEF Staged, Queued
<1>3. d \in Owed /\ d \notin Queued \union Staged \union held \union backoff
  BY <1>1, OwedOnce DEF Owed
<1>4. Owed' = Owed \ {d}
  BY <1>1, <1>2, <1>3 DEF Owed
<1>5. CASE DlqStored(d)
  <2>1. /\ dlq' = dlq \union {Lineage(d)} /\ stuck' = stuck
        /\ sub' = [sub EXCEPT ![d.sub] = "gone"] /\ d.sub \in Subs
    BY <1>5 DEF DlqStored, TearDown, Delivery
  <2>2. Phase' = [Phase EXCEPT ![d.sub] = "closed"]
    BY <2>1, PhaseCloses
  <2>3. QED BY <1>1, <1>3, <1>4, <2>1, <2>2, CareWords DEF Care!DeadLetter
<1>6. CASE DlqFails(d)
  <2>1. /\ dlq' = dlq /\ Phase' = Phase
        /\ abandoned' \union stuck' = (abandoned \union stuck) \union {d}
    BY <1>1, <1>6, PhaseKept DEF DlqFails, logVars, regVars
  <2>2. QED BY <1>1, <1>3, <1>4, <2>1 DEF Care!Strand
<1>7. QED BY <1>5, <1>6

\* Only Schedule sends to the dead letters, and only what is exhausted.
LEMMA DyingStep ==
    ASSUME DyingSpent, [Next]_vars
    PROVE  DyingSpent'
<1>1. ASSUME NEW d, NEW W, Schedule(d, W) PROVE DyingSpent'
  BY <1>1 DEF Schedule, DyingSpent, Exhausted
<1>2. CASE \E d \in Delivery : Nack(d) \/ BackoffFires(d)
  <2>1. PICK d \in Delivery : Nack(d) \/ BackoffFires(d)
    BY <1>2
  <2>2. \/ \E e, W : Schedule(e, W)
        \/ dying' = dying
    BY <2>1 DEF Nack, NackRegistered, NackGone, BackoffFires, Redeliver, Bounce
  <2>3. QED BY <1>1, <2>2 DEF DyingSpent, Exhausted
<1>3. CASE ~\E d \in Delivery : Nack(d) \/ BackoffFires(d)
  <2>1. CASE \E m \in Msgs : PublisherStep(m)
    <3>1. dying' = dying
      BY <2>1 DEF PublisherStep, Publish, Resume, Commit, Fanout, AppendFails,
                  CancelPublish, retryVars
    <3>2. QED BY <3>1 DEF DyingSpent, Exhausted
  <2>2. CASE \E s \in Subs : SubscriberStep(s)
    <3>1. PICK s \in Subs : SubscriberStep(s)
      BY <2>2
    <3>2. CASE ReplayDone(s)
      BY <3>2 DEF ReplayDone, DyingSpent, Exhausted
    <3>3. CASE ~ReplayDone(s)
      <4>1. dying' = dying
        BY <3>1, <3>3 DEF SubscriberStep, Subscribe, ReadHistory, ReplayFails, Unsubscribe,
                          Get, CancelledGet, StreamEnds, retryVars
      <4>2. QED BY <4>1 DEF DyingSpent, Exhausted
    <3>4. QED BY <3>2, <3>3
  <2>3. CASE \E d \in Delivery : Ack(d) \/ DlqStored(d) \/ DlqFails(d)
    <3>1. dying' \subseteq dying
      BY <2>3 DEF Ack, DlqStored, DlqFails, retryVars
    <3>2. QED BY <3>1 DEF DyingSpent, Exhausted
  <2>4. CASE UNCHANGED vars
    BY <2>4 DEF vars, retryVars, DyingSpent, Exhausted
  <2>5. QED BY <1>3, <2>1, <2>2, <2>3, <2>4 DEF Next, DeliveryStep
<1>4. QED BY <1>2, <1>3

\* Initially nothing is promised.
LEMMA InitCares == Init => Care!Init /\ DyingSpent
<1> SUFFICES ASSUME Init PROVE Care!Init /\ DyingSpent
  OBVIOUS
<1>1. Queued = {} /\ Staged = {}
  BY DEF Init, Queued, Staged
<1>2. Phase = [s \in Subs |-> "new"]
  BY DEF Init, Phase
<1>3. QED BY <1>1, <1>2 DEF Init, Care!Init, Owed, DyingSpent

\* Every step of the broker is one of Custody's, or none.
LEMMA BrokerCares ==
    ASSUME TypeOK, PlaceInv, DyingSpent, [Next]_vars
    PROVE  [Care!Next]_Care!vars
<1>1. CASE \E m \in Msgs : PublisherStep(m)
  BY <1>1, PublisherCares DEF Care!Next
<1>2. CASE \E s \in Subs : SubscriberStep(s)
  BY <1>2, SubscriberCares DEF Care!Next
<1>3. CASE \E d \in Delivery : DeliveryStep(d)
  <2>1. PICK d \in Delivery : DeliveryStep(d)
    BY <1>3
  <2>2. \/ d \in Owed /\ (Care!Ack(d) \/ Care!Retry(d) \/ Care!DeadLetter(d) \/ Care!Strand(d))
        \/ d.sub \in Subs /\ Care!Close(d.sub)
        \/ UNCHANGED Care!vars
    BY <2>1, SettleCares, BackoffCares, DlqCares DEF DeliveryStep
  <2>3. QED BY <2>2 DEF Care!Next
<1>4. CASE UNCHANGED vars
  <2>1. UNCHANGED <<sub, queue, buffer, held, abandoned, backoff, dying, stuck, acked,
                    dlq, sent>>
    BY <1>4 DEF vars, regVars, streamVars, retryVars, logVars
  <2>2. Owed' = Owed
    BY <2>1 DEF Owed, Queued, Staged
  <2>3. QED BY <2>1, <2>2, PhaseKept, CareStutters
<1>5. QED BY <1>1, <1>2, <1>3, <1>4 DEF Next

\* The broker keeps what Custody promises of a delivery (broker.py:196-245, 332-354,
\* retry.py:88-144): one attempt after another within the budget, ended by an ack, by a
\* dead letter with the budget spent and the subscription evicted, by the end of the
\* subscription, or stranded by a fault; made once, settled once.
THEOREM BrokerKeepsCustody == Spec => ImplementsCustody
<1>1. Init => Care!Init /\ DyingSpent
  BY InitCares
<1>2. DyingSpent /\ [Next]_vars => DyingSpent'
  BY DyingStep
<1>3. TypeOK /\ PlaceInv /\ DyingSpent /\ [Next]_vars => [Care!Next]_Care!vars
  BY BrokerCares
<1>4. QED BY <1>1, <1>2, <1>3, Placed, PTL DEF Spec, ImplementsCustody, Care!Spec
=============================================================================
