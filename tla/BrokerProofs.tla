---------------------------- MODULE BrokerProofs ----------------------------
(***************************************************************************)
(* Theorems about Broker, for every value of its constants.                *)
(***************************************************************************)
EXTENDS Broker, FiniteSetTheorems, TLAPS

Origin == {"live", "history"}

-----------------------------------------------------------------------------
(* Deliveries. *)

\* A first delivery is a delivery, and its budget is not spent.
LEMMA FirstType ==
    ASSUME NEW s \in Subs, NEW m \in Msgs, NEW o \in Origin
    PROVE  First(s, m, o) \in Delivery /\ ~Exhausted(First(s, m, o))
BY BudgetAssumption DEF First, Delivery, Exhausted, Origin

\* The next attempt of a delivery whose budget is not spent is a delivery.
LEMMA AgainType ==
    ASSUME NEW d \in Delivery, ~Exhausted(d)
    PROVE  Again(d) \in Delivery
BY BudgetAssumption DEF Again, Delivery, Exhausted

\* A lineage is a delivery of the same subscription.
LEMMA LineageType ==
    ASSUME NEW d \in Delivery
    PROVE  Lineage(d) \in Delivery
BY FirstType DEF Lineage, Delivery, Origin

\* An attempt keeps the lineage.
LEMMA AgainLineage ==
    ASSUME NEW d \in Delivery
    PROVE  Lineage(Again(d)) = Lineage(d) /\ Again(d).sub = d.sub
BY DEF Again, Delivery, Lineage, First

-----------------------------------------------------------------------------
(* Type correctness. *)

\* RefreshAdmission writes values of their types.
LEMMA RefreshType ==
    ASSUME TypeOK, RefreshAdmission
    PROVE  admit' \in BOOLEAN /\ pub' \in [Msgs -> PubPhase]
<1>1. CASE Open'
  BY <1>1 DEF TypeOK, RefreshAdmission, PubPhase
<1>2. CASE ~Open'
  BY <1>2 DEF TypeOK, RefreshAdmission, gateVars
<1>3. QED BY <1>1, <1>2

\* Tearing a subscription down writes values of their types.
LEMMA TearDownType ==
    ASSUME TypeOK, NEW s \in Subs, TearDown(s)
    PROVE  /\ sub' \in [Subs -> RegPhase]
           /\ inflight' \in SUBSET Delivery
           /\ retryPending' \in [Subs -> Int] /\ retryTotal' \in Int
           /\ admit' \in BOOLEAN /\ pub' \in [Msgs -> PubPhase]
<1>1. admit' \in BOOLEAN /\ pub' \in [Msgs -> PubPhase]
  BY RefreshType DEF TearDown
<1>2. QED BY <1>1 DEF TearDown, DropInflight, TypeOK, RegPhase

\* The gate test writes a publisher's phase and the event's flag.
LEMMA GateType ==
    ASSUME TypeOK, NEW m \in Msgs, Gate(m)
    PROVE  admit' \in BOOLEAN /\ pub' \in [Msgs -> PubPhase]
BY DEF TypeOK, Gate, PubPhase

\* Entering retry keeps the counters integers.
LEMMA EnterRetryType ==
    ASSUME TypeOK, NEW S \in SUBSET Subs, EnterRetry(S)
    PROVE  retryPending' \in [Subs -> Int] /\ retryTotal' \in Int
<1>1. Cardinality(S) \in Nat
  BY FS_Subset, FS_CardinalityType, SubsAssumption
<1>2. QED BY <1>1 DEF TypeOK, EnterRetry

\* Scheduling keeps the retry engine's sets sets of deliveries.
LEMMA ScheduleType ==
    ASSUME TypeOK, NEW d \in Delivery, NEW W \in SUBSET backoff, Schedule(d, W)
    PROVE  /\ backoff' \in SUBSET {e \in Delivery : ~Exhausted(e)}
           /\ dying' \in SUBSET Delivery
BY DEF TypeOK, Schedule

\* Putting one delivery in a queue with room.
LEMMA AppendType ==
    ASSUME NEW q \in Seq(Delivery), NEW d \in Delivery, Len(q) < QueueBound
    PROVE  Append(q, d) \in Seq(Delivery) /\ Len(Append(q, d)) <= QueueBound
BY CountsAssumption

\* Taking the head of a queue.
LEMMA TailType ==
    ASSUME NEW q \in Seq(Delivery), Len(q) <= QueueBound, q # << >>
    PROVE  /\ Head(q) \in Delivery
           /\ Tail(q) \in Seq(Delivery) /\ Len(Tail(q)) <= QueueBound
BY CountsAssumption

\* A set of messages is finite.
LEMMA MsgsFinite ==
    ASSUME NEW S \in SUBSET Msgs
    PROVE  IsFiniteSet(S) /\ Cardinality(S) \in Nat
<1>1. IsFiniteSet(Msgs)
  BY FS_Interval, CountsAssumption DEF Msgs
<1>2. IsFiniteSet(S)
  BY <1>1, FS_Subset
<1>3. QED BY <1>2, FS_CardinalityType

\* Messages are integers, ordered by creation.
LEMMA MsgsInt == Msgs \subseteq Int
BY CountsAssumption DEF Msgs

\* An ordering of a set of messages is a sequence of messages.
LEMMA OrderedType ==
    ASSUME NEW S \in SUBSET Msgs, NEW q \in Ordered(S)
    PROVE  /\ q \in Seq(Msgs) /\ Len(q) = Cardinality(S)
           /\ \A i \in 1..Len(q) : q[i] \in S
           /\ \A i, j \in 1..Len(q) : i < j => q[i] < q[j]
<1>1. Cardinality(S) \in Nat
  BY MsgsFinite
<1>2. q \in [1..Cardinality(S) -> S]
  BY DEF Ordered
<1>3. q \in Seq(Msgs) /\ Len(q) = Cardinality(S)
  BY <1>1, <1>2
<1>4. QED BY <1>2, <1>3 DEF Ordered

\* What a replay hands over: first deliveries, history before live.
LEMMA ArrivingType ==
    ASSUME NEW s \in Subs, NEW old \in Seq(Msgs), NEW new \in Seq(Msgs)
    PROVE  LET a == Deliveries(s, old, new)
           IN  /\ a \in Seq(Delivery)
               /\ Len(a) = Len(old) + Len(new)
               /\ \A i \in 1..Len(old) : a[i] = First(s, old[i], "history")
               /\ \A i \in 1..Len(new) :
                      a[Len(old) + i] = First(s, new[i], "live")
               /\ \A i \in 1..Len(a) : a[i] \in Delivery /\ ~Exhausted(a[i])
                                       /\ a[i].sub = s
<1> DEFINE h == [i \in 1..Len(old) |-> First(s, old[i], "history")]
           l == [i \in 1..Len(new) |-> First(s, new[i], "live")]
           a == Deliveries(s, old, new)
<1>1. /\ \A i \in 1..Len(old) : h[i] \in Delivery /\ ~Exhausted(h[i]) /\ h[i].sub = s
      /\ \A i \in 1..Len(new) : l[i] \in Delivery /\ ~Exhausted(l[i]) /\ l[i].sub = s
  <2>1. \A m \in Msgs, o \in Origin : First(s, m, o).sub = s
    BY DEF First
  <2>2. \A i \in 1..Len(old) : old[i] \in Msgs
    OBVIOUS
  <2>3. \A i \in 1..Len(new) : new[i] \in Msgs
    OBVIOUS
  <2>4. QED BY <2>1, <2>2, <2>3, FirstType DEF Origin
<1>2. h \in Seq(Delivery) /\ Len(h) = Len(old)
  BY <1>1
<1>3. l \in Seq(Delivery) /\ Len(l) = Len(new)
  BY <1>1
<1>4. a = h \o l
  BY DEF Deliveries
<1> HIDE DEF a
<1>5. a \in Seq(Delivery) /\ Len(a) = Len(old) + Len(new)
  BY <1>2, <1>3, <1>4
<1>6. /\ \A i \in 1..Len(old) : a[i] = h[i]
      /\ \A i \in 1..Len(new) : a[Len(old) + i] = l[i]
  BY <1>2, <1>3, <1>4
<1>7. \A i \in 1..Len(a) : \/ i \in 1..Len(old)
                           \/ i - Len(old) \in 1..Len(new) /\ a[i] = l[i - Len(old)]
  BY <1>5, <1>6
<1>8. \A i \in 1..Len(a) : a[i] \in Delivery /\ ~Exhausted(a[i]) /\ a[i].sub = s
  <2> SUFFICES ASSUME NEW i \in 1..Len(a)
               PROVE  a[i] \in Delivery /\ ~Exhausted(a[i]) /\ a[i].sub = s
    OBVIOUS
  <2>1. CASE i \in 1..Len(old)
    <3>1. a[i] = h[i]
      BY <1>6, <2>1
    <3>2. QED BY <1>1, <2>1, <3>1
  <2>2. CASE i - Len(old) \in 1..Len(new) /\ a[i] = l[i - Len(old)]
    <3> DEFINE k == i - Len(old)
    <3>1. k \in 1..Len(new) /\ a[i] = l[k]
      BY <2>2
    <3> HIDE DEF k, l
    <3>2. QED BY <1>1, <3>1
  <2>3. QED BY <1>7, <2>1, <2>2
<1>9. \A i \in 1..Len(old) : a[i] = First(s, old[i], "history")
  BY <1>6
<1>10. \A i \in 1..Len(new) : a[Len(old) + i] = First(s, new[i], "live")
  BY <1>6
<1>11. QED BY <1>5, <1>8, <1>9, <1>10 DEF a

\* The part of an arriving sequence that fits.
LEMMA PrefixType ==
    ASSUME NEW q \in Seq(Delivery), NEW a \in Seq(Delivery), NEW k \in 0..Len(a)
    PROVE  /\ q \o SubSeq(a, 1, k) \in Seq(Delivery)
           /\ Len(q \o SubSeq(a, 1, k)) = Len(q) + k
           /\ \A i \in 1..Len(q) : (q \o SubSeq(a, 1, k))[i] = q[i]
           /\ \A i \in 1..k : (q \o SubSeq(a, 1, k))[Len(q) + i] = a[i]
<1> DEFINE b == SubSeq(a, 1, k)
<1>1. b \in Seq(Delivery) /\ Len(b) = k /\ \A i \in 1..k : b[i] = a[i]
  OBVIOUS
<1> HIDE DEF b
<1>2. /\ q \o b \in Seq(Delivery)
      /\ Len(q \o b) = Len(q) + k
      /\ \A i \in 1..Len(q) : (q \o b)[i] = q[i]
      /\ \A i \in 1..k : (q \o b)[Len(q) + i] = b[i]
  BY <1>1
<1>3. QED BY <1>1, <1>2 DEF b

\* What ReplayDone chooses, and the types of what it hands over.
LEMMA ReplayArrivals ==
    ASSUME TypeOK, NEW s \in Subs,
           NEW old \in Ordered(history[s] \intersect Selects[s]),
           NEW new \in Ordered({buffer[s][i] : i \in DOMAIN buffer[s]})
    PROVE  LET a == Deliveries(s, old, new)
               room == QueueBound - Len(queue[s])
               kept == IF Len(a) <= room THEN Len(a) ELSE room
           IN  /\ old \in Seq(Msgs) /\ new \in Seq(Msgs)
               /\ a \in Seq(Delivery)
               /\ \A i \in 1..Len(a) : a[i] \in Delivery /\ ~Exhausted(a[i])
                                       /\ a[i].sub = s
               /\ kept \in 0..Len(a)
               /\ Len(queue[s]) + kept <= QueueBound
               /\ queue[s] \in Seq(Delivery)
<1>1. /\ history[s] \intersect Selects[s] \in SUBSET Msgs
      /\ {buffer[s][i] : i \in DOMAIN buffer[s]} \in SUBSET Msgs
  BY DEF TypeOK
<1>2. old \in Seq(Msgs) /\ new \in Seq(Msgs)
  BY <1>1, OrderedType
<1> DEFINE a == Deliveries(s, old, new)
           room == QueueBound - Len(queue[s])
           kept == IF Len(a) <= room THEN Len(a) ELSE room
<1>3. /\ a \in Seq(Delivery)
      /\ \A i \in 1..Len(a) : a[i] \in Delivery /\ ~Exhausted(a[i]) /\ a[i].sub = s
  BY <1>2, ArrivingType
<1> HIDE DEF a
<1>4. queue[s] \in Seq(Delivery) /\ Len(queue[s]) <= QueueBound
  BY DEF TypeOK
<1>5. kept \in 0..Len(a) /\ Len(queue[s]) + kept <= QueueBound
  BY <1>3, <1>4, CountsAssumption
<1>6. QED BY <1>2, <1>3, <1>4, <1>5 DEF a

\* The initial state is typed.
LEMMA InitType == Init => TypeOK
BY CountsAssumption DEF Init, TypeOK, RegPhase, PubPhase

\* A publisher's step keeps the types.
LEMMA PublisherType ==
    ASSUME TypeOK, NEW m \in Msgs, PublisherStep(m)
    PROVE  TypeOK'
<1>1. CASE Publish(m)
  BY <1>1, GateType DEF Publish, TypeOK, regVars, streamVars, retryVars,
                        countVars, logVars
<1>2. CASE Resume(m)
  BY <1>2, GateType DEF Resume, TypeOK, regVars, streamVars, retryVars,
                        countVars, logVars
<1>3. CASE Commit(m)
  BY <1>3 DEF Commit, TypeOK, PubPhase, regVars, streamVars, retryVars, countVars
<1>4. CASE Fanout(m)
  <2> DEFINE staging == Matching(m) \intersect Replaying
             full == {s \in Matching(m) \ staging : Len(queue[s]) >= QueueBound}
             room == Matching(m) \ (staging \union full)
  <2>1. Matching(m) \subseteq Subs
    BY DEF Matching, Registered
  <2>2. \A s \in Subs : First(s, m, "live") \in Delivery
                        /\ ~Exhausted(First(s, m, "live"))
    BY FirstType DEF Origin
  <2>3. retryPending' \in [Subs -> Int] /\ retryTotal' \in Int
    BY <1>4, <2>1, EnterRetryType DEF Fanout
  <2>4. /\ queue' \in [Subs -> Seq(Delivery)]
        /\ \A s \in Subs : Len(queue'[s]) <= QueueBound
    <3>1. queue' = [s \in Subs |-> IF s \in room
                                   THEN Append(queue[s], First(s, m, "live"))
                                   ELSE queue[s]]
      BY <1>4 DEF Fanout
    <3>2. \A s \in room : s \in Subs /\ Len(queue[s]) < QueueBound
      BY <2>1, CountsAssumption DEF TypeOK
    <3> HIDE DEF room
    <3>3. ASSUME NEW s \in Subs
          PROVE  /\ queue'[s] \in Seq(Delivery)
                 /\ Len(queue'[s]) <= QueueBound
      BY <2>2, <3>1, <3>2, AppendType DEF TypeOK
    <3>4. QED BY <3>1, <3>3
  <2>5. buffer' \in [Subs -> Seq(Msgs)]
    BY <1>4 DEF Fanout, TypeOK
  <2>6. /\ inflight' \in SUBSET Delivery /\ sent' \in SUBSET Delivery
        /\ backoff' \in SUBSET {d \in Delivery : ~Exhausted(d)}
    <3>1. /\ inflight' = inflight \union {First(s, m, "live") : s \in room}
          /\ backoff' = backoff \union {First(s, m, "live") : s \in full}
          /\ sent' = sent \union {First(s, m, "live") : s \in Matching(m)}
      BY <1>4 DEF Fanout
    <3>2. room \subseteq Subs /\ full \subseteq Subs
      BY <2>1
    <3> HIDE DEF room, full
    <3>3. QED BY <2>1, <2>2, <3>1, <3>2 DEF TypeOK
  <2>7. QED BY <1>4, <2>3, <2>4, <2>5, <2>6 DEF Fanout, TypeOK, PubPhase
<1>5. CASE AppendFails(m)
  BY <1>5, CountsAssumption
     DEF AppendFails, TypeOK, PubPhase, regVars, streamVars, retryVars,
         countVars, logVars
<1>6. CASE CancelPublish(m)
  BY <1>6, CountsAssumption
     DEF CancelPublish, TypeOK, PubPhase, regVars, streamVars, retryVars,
         countVars, logVars
<1>7. QED BY <1>1, <1>2, <1>3, <1>4, <1>5, <1>6 DEF PublisherStep

\* A step of a subscription or of its stream keeps the types.
LEMMA SubscriberType ==
    ASSUME TypeOK, NEW s \in Subs, SubscriberStep(s)
    PROVE  TypeOK'
<1>1. CASE Subscribe(s)
  BY <1>1, RefreshType
     DEF Subscribe, TypeOK, RegPhase, retryVars, countVars, logVars
<1>2. CASE ReadHistory(s)
  BY <1>2 DEF ReadHistory, TypeOK, RegPhase, streamVars, retryVars, countVars,
              gateVars, logVars
<1>3. CASE ReplayDone(s)
  <2>1. PICK old \in Ordered(history[s] \intersect Selects[s]),
             new \in Ordered({buffer[s][i] : i \in DOMAIN buffer[s]}) :
             ReplayDone(s)!(old, new)
    BY <1>3 DEF ReplayDone
  <2> DEFINE a == Deliveries(s, old, new)
             room == QueueBound - Len(queue[s])
             kept == IF Len(a) <= room THEN Len(a) ELSE room
  <2>2. /\ a \in Seq(Delivery)
        /\ \A i \in 1..Len(a) : a[i] \in Delivery /\ ~Exhausted(a[i])
        /\ kept \in 0..Len(a)
        /\ Len(queue[s]) + kept <= QueueBound
        /\ queue[s] \in Seq(Delivery)
    BY ReplayArrivals
  <2>3. /\ queue' = [queue EXCEPT ![s] = @ \o SubSeq(a, 1, kept)]
        /\ inflight' = inflight \union {a[i] : i \in 1..kept}
        /\ backoff' = backoff \union {a[i] : i \in (kept + 1)..Len(a)}
        /\ retryPending' = [retryPending EXCEPT ![s] = @ + Len(a) - kept]
        /\ retryTotal' = retryTotal + Len(a) - kept
        /\ sent' = sent \union {a[i] : i \in DOMAIN a}
    BY <2>1
  <2> HIDE DEF a, kept
  <2>4. /\ queue' \in [Subs -> Seq(Delivery)]
        /\ \A r \in Subs : Len(queue'[r]) <= QueueBound
    BY <2>2, <2>3, PrefixType DEF TypeOK
  <2>5. /\ inflight' \in SUBSET Delivery /\ sent' \in SUBSET Delivery
        /\ backoff' \in SUBSET {d \in Delivery : ~Exhausted(d)}
    BY <2>2, <2>3 DEF TypeOK
  <2>6. retryPending' \in [Subs -> Int] /\ retryTotal' \in Int
    BY <2>2, <2>3 DEF TypeOK
  <2>7. sub' = [sub EXCEPT ![s] = "live"] /\ buffer' = [buffer EXCEPT ![s] = << >>]
        /\ history' = [history EXCEPT ![s] = {}] /\ attached' = [attached EXCEPT ![s] = TRUE]
        /\ UNCHANGED <<held, abandoned, dying, stuck, gateVars, stored, dlq,
                       acked, faults>>
    BY <2>1
  <2>8. sub' \in [Subs -> RegPhase] /\ buffer' \in [Subs -> Seq(Msgs)]
        /\ history' \in [Subs -> SUBSET Msgs] /\ attached' \in [Subs -> BOOLEAN]
    BY <2>7 DEF TypeOK, RegPhase
  <2>9. QED BY <2>4, <2>5, <2>6, <2>7, <2>8 DEF TypeOK, gateVars
<1>4. CASE ReplayFails(s)
  BY <1>4, CountsAssumption
     DEF ReplayFails, TypeOK, RegPhase, streamVars, retryVars, countVars,
         gateVars, logVars
<1>5. CASE Unsubscribe(s)
  <2>1. attached' \in [Subs -> BOOLEAN]
    BY <1>5 DEF Unsubscribe, TypeOK
  <2>2. QED BY <1>5, <2>1, TearDownType DEF Unsubscribe, TypeOK, retryVars, logVars
<1>6. CASE Get(s)
  BY <1>6, TailType DEF Get, TypeOK, regVars, retryVars, countVars, gateVars, logVars
<1>7. CASE CancelledGet(s)
  BY <1>7, TailType, CountsAssumption
     DEF CancelledGet, TypeOK, regVars, retryVars, countVars, gateVars, logVars
<1>8. CASE StreamEnds(s)
  BY <1>8 DEF StreamEnds, TypeOK, regVars, retryVars, countVars, gateVars, logVars
<1>9. QED BY <1>1, <1>2, <1>3, <1>4, <1>5, <1>6, <1>7, <1>8 DEF SubscriberStep

\* A step about one delivery keeps the types.
LEMMA DeliveryType ==
    ASSUME TypeOK, NEW d \in Delivery, DeliveryStep(d)
    PROVE  TypeOK'
<1>1. d.sub \in Subs
  BY DEF Delivery
<1>2. CASE Ack(d)
  BY <1>2, LineageType, RefreshType DEF Ack, TypeOK, streamVars, retryVars
<1>3. CASE Nack(d)
  <2>1. CASE NackRegistered(d)
    BY <1>1, <1>3, <2>1, EnterRetryType, ScheduleType
       DEF Nack, NackRegistered, TypeOK, gateVars, logVars
  <2>2. CASE NackGone(d)
    BY <1>3, <2>2, RefreshType DEF Nack, NackGone, TypeOK, logVars
  <2>3. QED BY <1>3, <2>1, <2>2 DEF Nack
<1>4. CASE BackoffFires(d)
  <2>1. d \in backoff /\ ~Exhausted(d) /\ Again(d) \in Delivery
    BY <1>4, AgainType DEF BackoffFires, TypeOK
  <2>2. CASE Redeliver(d)
    <3>1. /\ queue' \in [Subs -> Seq(Delivery)]
          /\ \A s \in Subs : Len(queue'[s]) <= QueueBound
      BY <1>1, <2>1, <2>2, AppendType DEF Redeliver, TypeOK
    <3>2. retryPending' \in [Subs -> Int] /\ retryTotal' \in Int
      BY <1>1, <2>2 DEF Redeliver, LeaveRetry, TypeOK
    <3>3. QED BY <1>4, <2>1, <2>2, <3>1, <3>2
              DEF BackoffFires, Redeliver, TypeOK, regVars, gateVars, logVars
  <2>3. CASE Bounce(d)
    BY <1>4, <2>1, <2>3, ScheduleType
       DEF BackoffFires, Bounce, TypeOK, regVars, countVars, gateVars, logVars
  <2>4. QED BY <1>4, <2>2, <2>3 DEF BackoffFires
<1>5. CASE DlqStored(d)
  BY <1>1, <1>5, LineageType, TearDownType DEF DlqStored, TypeOK, streamVars
<1>6. CASE DlqFails(d)
  BY <1>6, CountsAssumption
     DEF DlqFails, TypeOK, regVars, streamVars, countVars, gateVars, logVars
<1>7. QED BY <1>2, <1>3, <1>4, <1>5, <1>6 DEF DeliveryStep

\* A stuttering step keeps the types.
LEMMA StutterType ==
    ASSUME TypeOK, UNCHANGED vars
    PROVE  TypeOK'
BY DEF TypeOK, vars, regVars, streamVars, retryVars, countVars, gateVars, logVars

\* Every variable keeps its type; queues keep their bound and attempts their
\* budget (asyncio.Queue(maxsize), RetryPolicy.exhausted).
THEOREM TypeCorrect == Spec => []TypeOK
<1>1. TypeOK /\ [Next]_vars => TypeOK'
  BY PublisherType, SubscriberType, DeliveryType, StutterType DEF Next
<1>2. QED BY <1>1, InitType, PTL DEF Spec

-----------------------------------------------------------------------------
(* Where deliveries are.  The strengthening that makes the other invariants
   inductive: every delivery ever made is in at most one place. *)

Spots == ({"queue"} \X Queued) \union ({"buffer"} \X Staged)
         \union ({"held"} \X held) \union ({"abandoned"} \X abandoned)
         \union ({"backoff"} \X backoff) \union ({"dying"} \X dying)
         \union ({"stuck"} \X stuck)
         \union ({"acked"} \X acked) \union ({"dlq"} \X dlq)

Unique(A) == \A p, q \in A : Lineage(p[2]) = Lineage(q[2]) => p = q

\* No queue or buffer holds the same delivery twice, a queue only its own
\* subscription's.
QueuesUnique ==
    \A s \in Subs :
        /\ \A i, j \in DOMAIN queue[s] :
               Lineage(queue[s][i]) = Lineage(queue[s][j]) => i = j
        /\ \A i \in DOMAIN queue[s] : queue[s][i].sub = s

BuffersUnique ==
    \A s \in Subs : \A i, j \in DOMAIN buffer[s] :
        buffer[s][i] = buffer[s][j] => i = j

SpotsUnique == Unique(Spots) /\ QueuesUnique /\ BuffersUnique

\* What is placed was sent; what was sent came from a finished fanout or a
\* finished replay, to a subscription that had subscribed.
SentKnown ==
    /\ \A p \in Spots : Lineage(p[2]) \in sent
    /\ \A l \in sent : /\ l.attempt = 1
                       /\ sub[l.sub] # "new"
                       /\ l.origin = "live" => pub[l.msg] = "done"
                       /\ l.origin = "history" => sub[l.sub] \in {"live", "gone"}

\* _inflight holds nothing that is not queued, held or abandoned.
InflightPlaced ==
    \A e \in inflight : e \in Queued \union held \union abandoned

PlaceInv == SpotsUnique /\ SentKnown /\ InflightPlaced

\* Whatever is in a spot is a delivery.
LEMMA SpotType ==
    ASSUME TypeOK
    PROVE  /\ Queued \in SUBSET Delivery /\ Staged \in SUBSET Delivery
           /\ \A p \in Spots : p[2] \in Delivery
<1>1. \A s \in Subs : queue[s] \in Seq(Delivery) /\ buffer[s] \in Seq(Msgs)
  BY DEF TypeOK
<1>2. Queued \in SUBSET Delivery
  BY <1>1 DEF Queued
<1>3. Staged \in SUBSET Delivery
  BY <1>1, FirstType DEF Staged, Origin
<1>4. QED BY <1>2, <1>3 DEF Spots, TypeOK

\* Taking entries out and putting others in keeps a set unique if the new ones
\* are unique and share no lineage with those that stay.
LEMMA UniqueReplace ==
    ASSUME NEW A, NEW M, NEW N, NEW B,
           Unique(A), Unique(N), B \subseteq (A \ M) \union N,
           \A x \in N, y \in A \ M : Lineage(x[2]) # Lineage(y[2])
    PROVE  Unique(B)
BY DEF Unique

\* One delivery moves from place p to place q.
LEMMA MoveOne ==
    ASSUME SpotsUnique, SentKnown, NEW p \in Spots, NEW q,
           Lineage(q[2]) = Lineage(p[2]),
           Spots' \subseteq (Spots \ {p}) \union {q}, sent' = sent
    PROVE  /\ Unique(Spots)'
           /\ \A x \in Spots' : Lineage(x[2]) \in sent'
<1>1. Unique({q})
  BY DEF Unique
<1>2. \A x \in {q}, y \in Spots \ {p} : Lineage(x[2]) # Lineage(y[2])
  BY DEF SpotsUnique, Unique
<1>3. Unique(Spots')
  BY <1>1, <1>2, UniqueReplace DEF SpotsUnique
<1>4. \A x \in Spots' : Lineage(x[2]) \in sent'
  BY DEF SentKnown
<1>5. QED BY <1>3, <1>4 DEF Unique

\* A lineage is its own lineage, a first attempt of the same subscription.
LEMMA LineageAgain ==
    ASSUME NEW d \in Delivery
    PROVE  Lineage(Lineage(d)) = Lineage(d) /\ Lineage(d).attempt = 1
           /\ Lineage(d).sub = d.sub
BY DEF Lineage, First

\* Registration and publishing only move forward.
SubForward ==
    \A s \in Subs : /\ sub[s] # "new" => sub'[s] # "new"
                    /\ sub[s] \in {"live", "gone"} => sub'[s] \in {"live", "gone"}

PubForward == \A m \in Msgs : pub[m] = "done" => pub'[m] = "done"

\* Refreshing the gate finishes no publish.
LEMMA RefreshForward ==
    ASSUME TypeOK, RefreshAdmission
    PROVE  PubForward
BY DEF TypeOK, RefreshAdmission, gateVars, PubForward

\* A torn-down subscription has still been subscribed.
LEMMA TearDownForward ==
    ASSUME TypeOK, NEW s \in Subs, TearDown(s)
    PROVE  SubForward /\ PubForward
BY RefreshForward DEF TearDown, TypeOK, SubForward

\* A publisher's step undoes no publish and no subscription.
LEMMA PublisherForward ==
    ASSUME TypeOK, NEW m \in Msgs, PublisherStep(m)
    PROVE  SubForward /\ PubForward
<1>1. UNCHANGED sub
  BY DEF PublisherStep, Publish, Resume, Commit, Fanout, AppendFails,
         CancelPublish, regVars
<1>2. PubForward
  BY DEF PublisherStep, Publish, Resume, Gate, Commit, Fanout, AppendFails,
         CancelPublish, PubForward, TypeOK
<1>3. QED BY <1>1, <1>2 DEF SubForward

\* A subscription's step undoes no publish and no subscription.
LEMMA SubscriberForward ==
    ASSUME TypeOK, NEW s \in Subs, SubscriberStep(s)
    PROVE  SubForward /\ PubForward
<1>1. CASE Subscribe(s)
  BY <1>1, RefreshForward DEF Subscribe, TypeOK, SubForward
<1>2. CASE ReadHistory(s)
  BY <1>2 DEF ReadHistory, TypeOK, SubForward, PubForward, gateVars
<1>3. CASE ReplayDone(s)
  <2>1. sub' = [sub EXCEPT ![s] = "live"] /\ pub' = pub
    BY <1>3 DEF ReplayDone, gateVars
  <2>2. QED BY <2>1 DEF TypeOK, SubForward, PubForward
<1>4. CASE ReplayFails(s)
  BY <1>4 DEF ReplayFails, TypeOK, SubForward, PubForward, gateVars
<1>5. CASE Unsubscribe(s)
  BY <1>5, TearDownForward DEF Unsubscribe
<1>6. CASE Get(s) \/ CancelledGet(s) \/ StreamEnds(s)
  BY <1>6 DEF Get, CancelledGet, StreamEnds, SubForward, PubForward, regVars,
              gateVars
<1>7. QED BY <1>1, <1>2, <1>3, <1>4, <1>5, <1>6 DEF SubscriberStep

\* A delivery's step undoes no publish and no subscription.
LEMMA DeliveryForward ==
    ASSUME TypeOK, NEW d \in Delivery, DeliveryStep(d)
    PROVE  SubForward /\ PubForward
<1>1. CASE Ack(d)
  BY <1>1, RefreshForward DEF Ack, SubForward
<1>2. CASE Nack(d)
  BY <1>2, RefreshForward
     DEF Nack, NackRegistered, NackGone, SubForward, PubForward, gateVars
<1>3. CASE BackoffFires(d) \/ DlqFails(d)
  BY <1>3 DEF BackoffFires, DlqFails, SubForward, PubForward, regVars, gateVars
<1>4. CASE DlqStored(d)
  BY <1>4, TearDownForward DEF DlqStored, Delivery
<1>5. QED BY <1>1, <1>2, <1>3, <1>4 DEF DeliveryStep

\* What was sent before stays accounted for.
LEMMA SentForward ==
    ASSUME TypeOK, SentKnown, SubForward, PubForward, sent \in SUBSET Delivery,
           NEW l \in sent
    PROVE  /\ l.attempt = 1
           /\ sub'[l.sub] # "new"
           /\ l.origin = "live" => pub'[l.msg] = "done"
           /\ l.origin = "history" => sub'[l.sub] \in {"live", "gone"}
BY DEF SentKnown, SubForward, PubForward, Delivery

\* A step that moves no delivery.
LEMMA QuietStep ==
    ASSUME TypeOK, PlaceInv, SubForward, PubForward,
           UNCHANGED <<queue, buffer, held, abandoned, retryVars, acked, dlq, sent>>,
           inflight' \subseteq inflight
    PROVE  PlaceInv'
<1>1. Queued' = Queued /\ Staged' = Staged
  BY DEF Queued, Staged
<1>2. Spots' = Spots
  BY <1>1 DEF Spots, retryVars
<1>3. SpotsUnique'
  BY <1>2 DEF PlaceInv, SpotsUnique, QueuesUnique, BuffersUnique, Unique
<1>4. SentKnown'
  BY <1>2, SentForward DEF PlaceInv, SentKnown, TypeOK
<1>5. InflightPlaced'
  BY <1>1 DEF PlaceInv, InflightPlaced
<1>6. QED BY <1>3, <1>4, <1>5 DEF PlaceInv

\* Taking the head of a queue.
LEMMA TailQueued ==
    ASSUME TypeOK, QueuesUnique, NEW s \in Subs, queue[s] # << >>,
           queue' = [queue EXCEPT ![s] = Tail(@)]
    PROVE  /\ Head(queue[s]) \in Queued
           /\ Queued' \subseteq Queued \ {Head(queue[s])}
           /\ Queued \subseteq Queued' \union {Head(queue[s])}
           /\ QueuesUnique'
<1> DEFINE h == Head(queue[s])
<1>1. /\ \A r \in Subs : queue[r] \in Seq(Delivery)
      /\ queue \in [Subs -> Seq(Delivery)]
  BY DEF TypeOK
<1>2. /\ Len(queue[s]) \in Nat \ {0} /\ DOMAIN queue[s] = 1..Len(queue[s])
      /\ h = queue[s][1]
  BY <1>1
<1>3. /\ \A r \in Subs : r # s => queue'[r] = queue[r]
      /\ queue'[s] = Tail(queue[s])
  BY <1>1
<1>4. /\ DOMAIN queue'[s] = 1..(Len(queue[s]) - 1)
      /\ \A i \in DOMAIN queue'[s] : /\ i + 1 \in DOMAIN queue[s]
                                     /\ queue'[s][i] = queue[s][i + 1]
  BY <1>1, <1>2, <1>3
<1>5. h \in Queued
  BY <1>2 DEF Queued
<1>6. Queued' \subseteq Queued \ {h}
  <2> SUFFICES ASSUME NEW r \in Subs, NEW i \in DOMAIN queue'[r]
               PROVE  queue'[r][i] \in Queued /\ queue'[r][i] # h
    BY DEF Queued
  <2>1. CASE r = s
    <3>1. queue'[s][i] = queue[s][i + 1] /\ i + 1 \in DOMAIN queue[s] /\ i + 1 # 1
      BY <2>1, <1>4
    <3>2. 1 \in DOMAIN queue[s]
      BY <1>2
    <3>3. queue[s][i + 1] # h
      BY <1>2, <3>1, <3>2 DEF QueuesUnique
    <3>4. QED BY <2>1, <3>1, <3>3 DEF Queued
  <2>2. CASE r # s
    BY <2>2, <1>2, <1>3 DEF Queued, QueuesUnique
  <2>3. QED BY <2>1, <2>2
<1>7. Queued \subseteq Queued' \union {h}
  <2> SUFFICES ASSUME NEW r \in Subs, NEW i \in DOMAIN queue[r], queue[r][i] # h
               PROVE  \E k \in DOMAIN queue'[r] : queue'[r][k] = queue[r][i]
    BY DEF Queued
  <2>1. CASE r = s
    <3>1. i - 1 \in DOMAIN queue'[s] /\ queue'[s][i - 1] = queue[s][i]
      BY <2>1, <1>2, <1>4
    <3>2. QED BY <2>1, <3>1
  <2>2. CASE r # s
    BY <2>2, <1>3
  <2>3. QED BY <2>1, <2>2
<1>8. QueuesUnique'
  <2> SUFFICES ASSUME NEW r \in Subs
               PROVE  /\ \A i, j \in DOMAIN queue'[r] :
                          Lineage(queue'[r][i]) = Lineage(queue'[r][j]) => i = j
                      /\ \A i \in DOMAIN queue'[r] : queue'[r][i].sub = r
    BY DEF QueuesUnique
  <2>1. CASE r = s
    <3>1. \A i \in DOMAIN queue'[s] : i \in Int
      BY <1>4
    <3>2. QED BY <2>1, <3>1, <1>4 DEF QueuesUnique
  <2>2. CASE r # s
    BY <2>2, <1>3 DEF QueuesUnique
  <2>3. QED BY <2>1, <2>2
<1>9. QED BY <1>5, <1>6, <1>7, <1>8

\* Putting a delivery that is in no queue at the end of its own.
LEMMA AppendQueued ==
    ASSUME TypeOK, QueuesUnique, NEW d \in Delivery,
           \A x \in Queued : Lineage(x) # Lineage(d),
           queue' = [queue EXCEPT ![d.sub] = Append(@, d)]
    PROVE  Queued' = Queued \union {d} /\ QueuesUnique'
<1> DEFINE s == d.sub
           n == Len(queue[s])
<1>1. s \in Subs
  BY DEF Delivery
<1>2. \A r \in Subs : queue[r] \in Seq(Delivery)
  BY DEF TypeOK
<1>3. /\ \A r \in Subs : r # s => queue'[r] = queue[r]
      /\ queue'[s] = Append(queue[s], d)
  BY <1>1 DEF TypeOK
<1>4. /\ n \in Nat /\ DOMAIN queue[s] = 1..n /\ DOMAIN queue'[s] = 1..(n + 1)
      /\ \A i \in 1..n : queue'[s][i] = queue[s][i]
      /\ queue'[s][n + 1] = d
  BY <1>1, <1>2, <1>3
<1> HIDE DEF n
<1>5. Queued' \subseteq Queued \union {d}
  <2> SUFFICES ASSUME NEW r \in Subs, NEW i \in DOMAIN queue'[r]
               PROVE  queue'[r][i] \in Queued \union {d}
    BY DEF Queued
  <2>1. CASE r = s
    <3>1. i \in 1..n \/ i = n + 1
      BY <2>1, <1>4
    <3>2. QED BY <2>1, <3>1, <1>4 DEF Queued
  <2>2. CASE r # s
    BY <2>2, <1>3 DEF Queued
  <2>3. QED BY <2>1, <2>2
<1>6. Queued \union {d} \subseteq Queued'
  <2>1. d \in Queued'
    <3>1. n + 1 \in DOMAIN queue'[s]
      BY <1>4
    <3>2. QED BY <3>1, <1>1, <1>4 DEF Queued
  <2>2. ASSUME NEW r \in Subs, NEW i \in DOMAIN queue[r]
        PROVE  \E k \in DOMAIN queue'[r] : queue'[r][k] = queue[r][i]
    <3>1. CASE r = s
      <4>1. i \in 1..n /\ i \in DOMAIN queue'[s]
        BY <3>1, <1>4
      <4>2. QED BY <3>1, <4>1, <1>4
    <3>2. CASE r # s
      BY <3>2, <1>3
    <3>3. QED BY <3>1, <3>2
  <2>3. QED BY <2>1, <2>2 DEF Queued
<1>7. QueuesUnique'
  <2> SUFFICES ASSUME NEW r \in Subs
               PROVE  /\ \A i, j \in DOMAIN queue'[r] :
                          Lineage(queue'[r][i]) = Lineage(queue'[r][j]) => i = j
                      /\ \A i \in DOMAIN queue'[r] : queue'[r][i].sub = r
    BY DEF QueuesUnique
  <2>1. CASE r = s
    <3>1. \A i \in DOMAIN queue'[s] :
             \/ i \in DOMAIN queue[s] /\ queue'[s][i] = queue[s][i]
                /\ queue[s][i] \in Queued
             \/ i = n + 1 /\ queue'[s][i] = d
      BY <1>1, <1>4 DEF Queued
    <3>2. QED BY <2>1, <3>1 DEF QueuesUnique
  <2>2. CASE r # s
    BY <2>2, <1>3 DEF QueuesUnique
  <2>3. QED BY <2>1, <2>2
<1>8. QED BY <1>5, <1>6, <1>7

\* A step that moves one delivery.
LEMMA MoveStep ==
    ASSUME TypeOK, PlaceInv, SubForward, PubForward,
           NEW p \in Spots, NEW q, Lineage(q[2]) = Lineage(p[2]),
           Spots' \subseteq (Spots \ {p}) \union {q}, sent' = sent,
           QueuesUnique', buffer' = buffer, InflightPlaced'
    PROVE  PlaceInv'
<1>1. Unique(Spots)' /\ \A x \in Spots' : Lineage(x[2]) \in sent'
  BY MoveOne DEF PlaceInv
<1>2. BuffersUnique'
  BY DEF PlaceInv, SpotsUnique, BuffersUnique
<1>3. SentKnown'
  BY <1>1, SentForward DEF PlaceInv, SentKnown, TypeOK
<1>4. QED BY <1>1, <1>2, <1>3 DEF PlaceInv, SpotsUnique

\* A read moves the head of a queue to the consumer.
LEMMA GetPlace ==
    ASSUME TypeOK, PlaceInv, SubForward, PubForward, NEW s \in Subs,
           Get(s) \/ CancelledGet(s)
    PROVE  PlaceInv'
<1> DEFINE h == Head(queue[s])
<1>1. /\ queue[s] # << >>
      /\ queue' = [queue EXCEPT ![s] = Tail(@)]
      /\ UNCHANGED <<buffer, retryVars, acked, dlq, sent, inflight>>
      /\ \/ held' = held \union {h} /\ abandoned' = abandoned
         \/ held' = held /\ abandoned' = abandoned \union {h}
  BY DEF Get, CancelledGet, regVars, logVars, countVars
<1>2. /\ h \in Queued
      /\ Queued' \subseteq Queued \ {h} /\ Queued \subseteq Queued' \union {h}
      /\ QueuesUnique'
  BY <1>1, TailQueued DEF PlaceInv, SpotsUnique
<1>3. Staged' = Staged
  BY <1>1 DEF Staged
<1> HIDE DEF h
<1>4. InflightPlaced'
  BY <1>1, <1>2 DEF PlaceInv, InflightPlaced
<1>5. <<"queue", h>> \in Spots
  BY <1>2 DEF Spots
<1>6. CASE held' = held \union {h} /\ abandoned' = abandoned
  <2>1. Spots' \subseteq (Spots \ {<<"queue", h>>}) \union {<<"held", h>>}
    BY <1>1, <1>2, <1>3, <1>6 DEF Spots, retryVars
  <2>2. QED BY <2>1, <1>1, <1>2, <1>4, <1>5, MoveStep
<1>7. CASE held' = held /\ abandoned' = abandoned \union {h}
  <2>1. Spots' \subseteq (Spots \ {<<"queue", h>>}) \union {<<"abandoned", h>>}
    BY <1>1, <1>2, <1>3, <1>7 DEF Spots, retryVars
  <2>2. QED BY <2>1, <1>1, <1>2, <1>4, <1>5, MoveStep
<1>8. QED BY <1>1, <1>6, <1>7

\* An ack moves a delivery from its consumer to the acked ones.
LEMMA AckPlace ==
    ASSUME TypeOK, PlaceInv, SubForward, PubForward, NEW d \in Delivery, Ack(d)
    PROVE  PlaceInv'
<1>1. /\ d \in held /\ held' = held \ {d} /\ inflight' = inflight \ {d}
      /\ acked' = acked \union {Lineage(d)}
      /\ UNCHANGED <<queue, buffer, abandoned, retryVars, dlq, sent>>
  BY DEF Ack, streamVars
<1>2. Queued' = Queued /\ Staged' = Staged /\ QueuesUnique'
  BY <1>1 DEF Queued, Staged, PlaceInv, SpotsUnique, QueuesUnique
<1>3. InflightPlaced'
  BY <1>1, <1>2 DEF PlaceInv, InflightPlaced
<1>4. /\ <<"held", d>> \in Spots
      /\ Spots' \subseteq (Spots \ {<<"held", d>>}) \union {<<"acked", Lineage(d)>>}
  BY <1>1, <1>2 DEF Spots, retryVars
<1>5. QED BY <1>1, <1>2, <1>3, <1>4, LineageAgain, MoveStep

\* Schedule takes a delivery, in its next attempt or not, to one of two places.
LEMMA SchedulePlace ==
    ASSUME TypeOK, PlaceInv, SubForward, PubForward,
           NEW p \in Spots, NEW e, Lineage(e) = Lineage(p[2]),
           NEW W, Schedule(e, W), W \subseteq backoff,
           p[1] \in {"held", "backoff"},
           p[1] = "backoff" => p[2] \notin W,
           held' \subseteq held, p[1] = "held" => p[2] \notin held',
           UNCHANGED <<queue, buffer, abandoned, stuck, acked, dlq, sent>>,
           InflightPlaced'
    PROVE  PlaceInv'
<1>1. Queued' = Queued /\ Staged' = Staged /\ QueuesUnique'
  BY DEF Queued, Staged, PlaceInv, SpotsUnique, QueuesUnique
<1>2. CASE dying' = dying \union {e} /\ backoff' = W
  <2>1. Spots' \subseteq (Spots \ {p}) \union {<<"dying", e>>}
    BY <1>1, <1>2 DEF Spots
  <2>2. QED BY <2>1, <1>1, MoveStep
<1>3. CASE dying' = dying /\ backoff' = W \union {e}
  <2>1. Spots' \subseteq (Spots \ {p}) \union {<<"backoff", e>>}
    BY <1>1, <1>3 DEF Spots
  <2>2. QED BY <2>1, <1>1, MoveStep
<1>4. QED BY <1>2, <1>3 DEF Schedule

\* A nack moves a delivery to the retry engine, or out of the system.
LEMMA NackPlace ==
    ASSUME TypeOK, PlaceInv, SubForward, PubForward, NEW d \in Delivery, Nack(d)
    PROVE  PlaceInv'
<1>1. /\ d \in held /\ held' = held \ {d} /\ inflight' = inflight \ {d}
      /\ UNCHANGED <<queue, buffer, abandoned, stuck, acked, dlq, sent>>
  BY DEF Nack, logVars
<1>2. Queued' = Queued /\ Staged' = Staged /\ QueuesUnique'
  BY <1>1 DEF Queued, Staged, PlaceInv, SpotsUnique, QueuesUnique
<1>3. InflightPlaced'
  BY <1>1, <1>2 DEF PlaceInv, InflightPlaced
<1>4. <<"held", d>> \in Spots
  BY <1>1 DEF Spots
<1>5. CASE NackRegistered(d)
  <2>1. Schedule(d, backoff)
    BY <1>5 DEF NackRegistered
  <2>2. QED BY <1>1, <1>3, <1>4, <2>1, SchedulePlace
<1>6. CASE NackGone(d)
  <2>1. backoff' = backoff /\ dying' = dying
    BY <1>6 DEF NackGone
  <2>2. Spots' \subseteq (Spots \ {<<"held", d>>}) \union {<<"held", d>>}
    BY <1>1, <1>2, <2>1 DEF Spots
  <2>3. QED BY <1>1, <1>2, <1>3, <1>4, <2>2, MoveStep
<1>7. QED BY <1>5, <1>6 DEF Nack

\* A finished backoff moves a delivery to its queue or reschedules it.
LEMMA BackoffPlace ==
    ASSUME TypeOK, PlaceInv, SubForward, PubForward, NEW d \in Delivery,
           BackoffFires(d)
    PROVE  PlaceInv'
<1>1. /\ d \in backoff /\ Again(d) \in Delivery /\ Again(d).sub = d.sub
      /\ Lineage(Again(d)) = Lineage(d)
  BY AgainType, AgainLineage DEF BackoffFires, TypeOK
<1>2. UNCHANGED <<buffer, held, abandoned, stuck, acked, dlq, sent>>
  BY DEF BackoffFires, regVars, logVars
<1>3. Staged' = Staged
  BY <1>2 DEF Staged
<1>4. <<"backoff", d>> \in Spots
  BY <1>1 DEF Spots
<1>5. CASE Redeliver(d)
  <2>1. /\ queue' = [queue EXCEPT ![Again(d).sub] = Append(@, Again(d))]
        /\ inflight' = inflight \union {Again(d)}
        /\ backoff' = backoff \ {d} /\ dying' = dying
    BY <1>1, <1>5 DEF Redeliver
  <2>2. \A x \in Queued : Lineage(x) # Lineage(Again(d))
    <3> SUFFICES ASSUME NEW x \in Queued, Lineage(x) = Lineage(d) PROVE FALSE
      BY <1>1
    <3>1. <<"queue", x>> \in Spots
      BY DEF Spots
    <3>2. <<"queue", x>> = <<"backoff", d>>
      BY <1>4, <3>1 DEF PlaceInv, SpotsUnique, Unique
    <3>3. QED BY <3>2
  <2>3. Queued' = Queued \union {Again(d)} /\ QueuesUnique'
    BY <1>1, <2>1, <2>2, AppendQueued DEF PlaceInv, SpotsUnique
  <2>4. InflightPlaced'
    BY <1>2, <2>1, <2>3 DEF PlaceInv, InflightPlaced
  <2>5. Spots' \subseteq (Spots \ {<<"backoff", d>>}) \union {<<"queue", Again(d)>>}
    BY <1>2, <1>3, <2>1, <2>3 DEF Spots
  <2>6. QED BY <1>1, <1>2, <1>4, <2>3, <2>4, <2>5, MoveStep
<1>6. CASE Bounce(d)
  <2>1. /\ Schedule(Again(d), backoff \ {d})
        /\ queue' = queue /\ inflight' = inflight
    BY <1>6 DEF Bounce, countVars
  <2>2. InflightPlaced'
    BY <1>2, <2>1 DEF PlaceInv, InflightPlaced, Queued
  <2>3. QED BY <1>1, <1>2, <1>4, <2>1, <2>2, SchedulePlace
<1>7. QED BY <1>5, <1>6 DEF BackoffFires

\* Dead-lettering moves a delivery once, whether it succeeds or fails.
LEMMA DlqPlace ==
    ASSUME TypeOK, PlaceInv, SubForward, PubForward, NEW d \in Delivery,
           DlqStored(d) \/ DlqFails(d)
    PROVE  PlaceInv'
<1>1. /\ d \in dying /\ dying' = dying \ {d}
      /\ inflight' \subseteq inflight
      /\ UNCHANGED <<queue, buffer, held, abandoned, backoff, acked, sent>>
  BY DEF DlqStored, DlqFails, TearDown, DropInflight, regVars, streamVars,
         countVars, logVars
<1>2. Queued' = Queued /\ Staged' = Staged /\ QueuesUnique'
  BY <1>1 DEF Queued, Staged, PlaceInv, SpotsUnique, QueuesUnique
<1>3. InflightPlaced'
  BY <1>1, <1>2 DEF PlaceInv, InflightPlaced
<1>4. <<"dying", d>> \in Spots
  BY <1>1 DEF Spots
<1>5. CASE DlqStored(d)
  <2>1. dlq' = dlq \union {Lineage(d)} /\ stuck' = stuck
    BY <1>5 DEF DlqStored
  <2>2. Spots' \subseteq (Spots \ {<<"dying", d>>}) \union {<<"dlq", Lineage(d)>>}
    BY <1>1, <1>2, <2>1 DEF Spots
  <2>3. QED BY <1>1, <1>2, <1>3, <1>4, <2>2, LineageAgain, MoveStep
<1>6. CASE DlqFails(d)
  <2>1. dlq' = dlq /\ stuck' = stuck \union {d}
    BY <1>6 DEF DlqFails, logVars
  <2>2. Spots' \subseteq (Spots \ {<<"dying", d>>}) \union {<<"stuck", d>>}
    BY <1>1, <1>2, <2>1 DEF Spots
  <2>3. QED BY <1>1, <1>2, <1>3, <1>4, <2>2, MoveStep
<1>7. QED BY <1>5, <1>6

\* First deliveries are their own lineage and differ in what they were made of.
LEMMA FirstLineage ==
    ASSUME NEW s, NEW m, NEW o, NEW r, NEW k, NEW u
    PROVE  /\ Lineage(First(s, m, o)) = First(s, m, o)
           /\ First(s, m, o).attempt = 1 /\ First(s, m, o).sub = s
           /\ First(s, m, o).msg = m /\ First(s, m, o).origin = o
           /\ First(s, m, o) = First(r, k, u) => s = r /\ m = k /\ o = u
BY DEF First, Lineage

\* A delivery of a message that is not fanned out yet was never sent.
LEMMA FreshLive ==
    ASSUME SentKnown, NEW m \in Msgs, pub[m] # "done", NEW s
    PROVE  First(s, m, "live") \notin sent
BY FirstLineage DEF SentKnown

\* What is queued when every queue keeps what it has and gets more of N.
LEMMA QueuedGrows ==
    ASSUME NEW N,
           \A r \in Subs : \A i \in DOMAIN queue[r] :
               i \in DOMAIN queue'[r] /\ queue'[r][i] = queue[r][i],
           \A r \in Subs : \A i \in DOMAIN queue'[r] :
               \/ i \in DOMAIN queue[r] /\ queue'[r][i] = queue[r][i]
               \/ queue'[r][i] \in N,
           \A x \in N : \E r \in Subs : \E i \in DOMAIN queue'[r] : queue'[r][i] = x
    PROVE  Queued' = Queued \union N
BY DEF Queued

\* A fanout puts its message in the queues that have room.
LEMMA FanoutQueued ==
    ASSUME TypeOK, NEW m \in Msgs, Fanout(m)
    PROVE  LET staging == Matching(m) \intersect Replaying
               full == {s \in Matching(m) \ staging : Len(queue[s]) >= QueueBound}
               room == Matching(m) \ (staging \union full)
           IN  Queued' = Queued \union {First(s, m, "live") : s \in room}
<1> DEFINE staging == Matching(m) \intersect Replaying
           full == {s \in Matching(m) \ staging : Len(queue[s]) >= QueueBound}
           room == Matching(m) \ (staging \union full)
           f(s) == First(s, m, "live")
<1>1. queue' = [s \in Subs |-> IF s \in room THEN Append(queue[s], f(s))
                                             ELSE queue[s]]
  BY DEF Fanout
<1>2. room \subseteq Subs
  BY DEF Matching, Registered
<1> HIDE DEF room
<1>3. \A s \in Subs : queue[s] \in Seq(Delivery)
  BY DEF TypeOK
<1>4. ASSUME NEW s \in room
      PROVE  /\ DOMAIN queue'[s] = 1..(Len(queue[s]) + 1)
             /\ \A i \in DOMAIN queue[s] : queue'[s][i] = queue[s][i]
             /\ queue'[s][Len(queue[s]) + 1] = f(s)
             /\ DOMAIN queue[s] = 1..Len(queue[s]) /\ Len(queue[s]) \in Nat
  BY <1>1, <1>2, <1>3
<1>5. \A s \in Subs \ room : queue'[s] = queue[s]
  BY <1>1
<1>6. ASSUME NEW s \in Subs, NEW i \in DOMAIN queue[s]
      PROVE  i \in DOMAIN queue'[s] /\ queue'[s][i] = queue[s][i]
  BY <1>4, <1>5
<1>7. ASSUME NEW s \in Subs, NEW i \in DOMAIN queue'[s]
      PROVE  \/ i \in DOMAIN queue[s] /\ queue'[s][i] = queue[s][i]
             \/ s \in room /\ queue'[s][i] = f(s)
  BY <1>4, <1>5
<1>8. \A s \in room : \E i \in DOMAIN queue'[s] : queue'[s][i] = f(s)
  <2> SUFFICES ASSUME NEW s \in room
               PROVE  Len(queue[s]) + 1 \in DOMAIN queue'[s]
                      /\ queue'[s][Len(queue[s]) + 1] = f(s)
    OBVIOUS
  <2>1. QED BY <1>4
<1> HIDE DEF f
<1>9. Queued' = Queued \union {f(s) : s \in room}
  BY <1>6, <1>7, <1>8, <1>2 DEF Queued
<1>10. QED BY <1>9 DEF f, room

\* A fanout places new deliveries only, one per subscription.
LEMMA FanoutPlace ==
    ASSUME TypeOK, PlaceInv, SubForward, PubForward, NEW m \in Msgs, Fanout(m)
    PROVE  PlaceInv'
<1> DEFINE staging == Matching(m) \intersect Replaying
           full == {s \in Matching(m) \ staging : Len(queue[s]) >= QueueBound}
           room == Matching(m) \ (staging \union full)
           f(s) == First(s, m, "live")
           N == ({"buffer"} \X {f(s) : s \in staging})
                \union ({"queue"} \X {f(s) : s \in room})
                \union ({"backoff"} \X {f(s) : s \in full})
<1>1. /\ pub[m] = "stored" /\ pub' = [pub EXCEPT ![m] = "done"]
      /\ buffer' = [s \in Subs |-> IF s \in staging THEN Append(buffer[s], m)
                                                    ELSE buffer[s]]
      /\ queue' = [s \in Subs |-> IF s \in room THEN Append(queue[s], f(s))
                                                ELSE queue[s]]
      /\ inflight' = inflight \union {f(s) : s \in room}
      /\ backoff' = backoff \union {f(s) : s \in full}
      /\ sent' = sent \union {f(s) : s \in Matching(m)}
      /\ UNCHANGED <<sub, held, abandoned, dying, stuck, acked, dlq>>
  BY DEF Fanout
<1>2. /\ staging \subseteq Matching(m) /\ room \subseteq Matching(m)
      /\ full \subseteq Matching(m) /\ Matching(m) \subseteq Registered
      /\ Registered \subseteq Subs
      /\ room \intersect staging = {} /\ room \intersect full = {}
      /\ full \intersect staging = {}
  BY DEF Matching, Registered
<1> HIDE DEF staging, full, room
<1>3. \A s \in Subs : f(s) \notin sent
  BY <1>1, FreshLive DEF PlaceInv
<1>4. \A s \in Subs : queue[s] \in Seq(Delivery) /\ buffer[s] \in Seq(Msgs)
  BY DEF TypeOK
<1>5. \A p \in Spots : Lineage(p[2]) \in sent
  BY DEF PlaceInv, SentKnown
<1>6. ASSUME NEW s \in room
      PROVE  /\ DOMAIN queue'[s] = 1..(Len(queue[s]) + 1)
             /\ \A i \in DOMAIN queue[s] : queue'[s][i] = queue[s][i]
             /\ queue'[s][Len(queue[s]) + 1] = f(s)
             /\ DOMAIN queue[s] = 1..Len(queue[s]) /\ Len(queue[s]) \in Nat
  BY <1>1, <1>2, <1>4
<1>7. \A s \in Subs \ room : queue'[s] = queue[s]
  BY <1>1
<1>8. Queued' = Queued \union {f(s) : s \in room}
  BY FanoutQueued DEF staging, full, room
<1>9. Staged' \subseteq Staged \union {f(s) : s \in staging}
  <2>1. ASSUME NEW s \in Subs, NEW i \in DOMAIN buffer'[s]
        PROVE  \/ i \in DOMAIN buffer[s] /\ buffer'[s][i] = buffer[s][i]
               \/ s \in staging /\ buffer'[s][i] = m
    BY <1>1, <1>4
  <2>2. QED BY <2>1 DEF Staged
<1>10. Unique(Spots)'
  <2>1. Unique(N)
    BY <1>2, FirstLineage DEF Unique
  <2>2. Spots' \subseteq (Spots \ {}) \union N
    BY <1>1, <1>8, <1>9 DEF Spots
  <2>3. \A x \in N : Lineage(x[2]) \notin sent
    BY <1>2, <1>3, FirstLineage
  <2>4. \A x \in N, y \in Spots \ {} : Lineage(x[2]) # Lineage(y[2])
    BY <1>5, <2>3
  <2> HIDE DEF N
  <2>5. Unique(Spots')
    BY <2>1, <2>2, <2>4, UniqueReplace DEF PlaceInv, SpotsUnique
  <2>6. QED BY <2>5 DEF Unique
<1>11. QueuesUnique'
  <2> SUFFICES ASSUME NEW s \in Subs
               PROVE  /\ \A i, j \in DOMAIN queue'[s] :
                          Lineage(queue'[s][i]) = Lineage(queue'[s][j]) => i = j
                      /\ \A i \in DOMAIN queue'[s] : queue'[s][i].sub = s
    BY DEF QueuesUnique
  <2>1. CASE s \in room
    <3>1. \A i \in DOMAIN queue[s] : Lineage(queue[s][i]) # Lineage(f(s))
      <4> SUFFICES ASSUME NEW i \in DOMAIN queue[s]
                   PROVE  Lineage(queue[s][i]) \in sent
        BY <1>3, FirstLineage
      <4>1. <<"queue", queue[s][i]>> \in Spots
        BY DEF Spots, Queued
      <4>2. QED BY <4>1, <1>5
    <3>2. \A i \in DOMAIN queue'[s] :
              \/ i \in DOMAIN queue[s] /\ queue'[s][i] = queue[s][i]
              \/ i = Len(queue[s]) + 1 /\ queue'[s][i] = f(s)
      BY <2>1, <1>6
    <3>3. f(s).sub = s
      BY FirstLineage
    <3> HIDE DEF f
    <3>4. QED BY <3>1, <3>2, <3>3 DEF PlaceInv, SpotsUnique, QueuesUnique
  <2>2. CASE s \notin room
    BY <2>2, <1>7 DEF PlaceInv, SpotsUnique, QueuesUnique
  <2>3. QED BY <2>1, <2>2
<1>12. BuffersUnique'
  <2> SUFFICES ASSUME NEW s \in Subs
               PROVE  \A i, j \in DOMAIN buffer'[s] :
                          buffer'[s][i] = buffer'[s][j] => i = j
    BY DEF BuffersUnique
  <2>1. \A i \in DOMAIN buffer[s] : buffer[s][i] # m
    <3> SUFFICES ASSUME NEW i \in DOMAIN buffer[s]
                 PROVE  First(s, buffer[s][i], "live") \in sent
      BY <1>3
    <3>1. <<"buffer", First(s, buffer[s][i], "live")>> \in Spots
      BY DEF Spots, Staged
    <3>2. QED BY <3>1, <1>5, FirstLineage
  <2>2. /\ DOMAIN buffer[s] = 1..Len(buffer[s]) /\ Len(buffer[s]) \in Nat
        /\ \A i \in DOMAIN buffer'[s] :
              \/ i \in DOMAIN buffer[s] /\ buffer'[s][i] = buffer[s][i]
              \/ i = Len(buffer[s]) + 1 /\ buffer'[s][i] = m
    BY <1>1, <1>4
  <2>3. QED BY <2>1, <2>2 DEF PlaceInv, SpotsUnique, BuffersUnique
<1>13. SentKnown'
  <2>1. \A p \in Spots' : Lineage(p[2]) \in sent'
    <3>1. Spots' \subseteq Spots \union N
      BY <1>1, <1>8, <1>9 DEF Spots
    <3>2. \A x \in N : Lineage(x[2]) \in sent'
      BY <1>1, <1>2, FirstLineage
    <3>3. QED BY <3>1, <3>2, <1>1, <1>5
  <2>2. ASSUME NEW l \in sent'
        PROVE  /\ l.attempt = 1 /\ sub'[l.sub] # "new"
               /\ l.origin = "live" => pub'[l.msg] = "done"
               /\ l.origin = "history" => sub'[l.sub] \in {"live", "gone"}
    <3>1. CASE l \in sent
      BY <3>1, SentForward DEF PlaceInv, TypeOK
    <3>2. CASE \E s \in Matching(m) : l = f(s)
      <4>1. PICK s \in Matching(m) : l = f(s)
        BY <3>2
      <4>2. /\ l.attempt = 1 /\ l.sub = s /\ l.msg = m /\ l.origin = "live"
        BY <4>1, FirstLineage
      <4>3. sub'[s] # "new" /\ pub'[m] = "done"
        BY <1>1, <1>2 DEF Registered, TypeOK
      <4>4. QED BY <4>2, <4>3
    <3>3. QED BY <1>1, <3>1, <3>2
  <2>3. QED BY <2>1, <2>2 DEF SentKnown
<1>14. InflightPlaced'
  BY <1>1, <1>8 DEF PlaceInv, InflightPlaced
<1>15. QED BY <1>10, <1>11, <1>12, <1>13, <1>14 DEF PlaceInv, SpotsUnique

\* What a replay hands over is history of its own, or live and staged; no
\* message comes twice.
LEMMA ArrivingDistinct ==
    ASSUME TypeOK, NEW s \in Subs,
           NEW old \in Ordered(history[s] \intersect Selects[s]),
           NEW new \in Ordered({buffer[s][i] : i \in DOMAIN buffer[s]})
    PROVE  LET a == Deliveries(s, old, new)
           IN  /\ \A i \in 1..Len(a) :
                      \/ \E m \in Msgs : a[i] = First(s, m, "history")
                      \/ \E j \in DOMAIN buffer[s] :
                             a[i] = First(s, buffer[s][j], "live")
               /\ \A i, j \in 1..Len(a) : a[i] = a[j] => i = j
               /\ \A i \in 1..Len(a) : Lineage(a[i]) = a[i]
<1> DEFINE a == Deliveries(s, old, new)
           B == {buffer[s][i] : i \in DOMAIN buffer[s]}
           H == history[s] \intersect Selects[s]
<1>1. H \in SUBSET Msgs /\ B \in SUBSET Msgs
  BY DEF TypeOK
<1>2. /\ old \in Seq(Msgs) /\ \A i, j \in 1..Len(old) : i < j => old[i] < old[j]
      /\ new \in Seq(Msgs) /\ \A i, j \in 1..Len(new) : i < j => new[i] < new[j]
      /\ \A i \in 1..Len(new) : new[i] \in B
  BY <1>1, OrderedType
<1>3. /\ a \in Seq(Delivery) /\ Len(a) = Len(old) + Len(new)
      /\ \A i \in 1..Len(old) : a[i] = First(s, old[i], "history")
      /\ \A i \in 1..Len(new) : a[Len(old) + i] = First(s, new[i], "live")
  BY <1>2, ArrivingType
<1> HIDE DEF a
<1>4. \A i \in 1..Len(a) : \/ i \in 1..Len(old)
                           \/ i - Len(old) \in 1..Len(new)
                              /\ a[i] = First(s, new[i - Len(old)], "live")
  <2> SUFFICES ASSUME NEW i \in 1..Len(a), i \notin 1..Len(old)
               PROVE  i - Len(old) \in 1..Len(new)
                      /\ a[i] = First(s, new[i - Len(old)], "live")
    OBVIOUS
  <2>1. Len(old) \in Nat /\ Len(new) \in Nat
    BY <1>2
  <2>2. i - Len(old) \in 1..Len(new) /\ i = Len(old) + (i - Len(old))
    BY <1>3, <2>1
  <2>3. QED BY <1>3, <2>2
<1>5. \A i, j \in 1..Len(old) : old[i] = old[j] => i = j
  <2>1. \A i \in 1..Len(old) : old[i] \in Int
    <3>1. \A i \in 1..Len(old) : old[i] \in Msgs
      BY <1>2
    <3>2. QED BY <3>1, MsgsInt
  <2>2. QED BY <1>2, <2>1
<1>6. \A i, j \in 1..Len(new) : new[i] = new[j] => i = j
  <2>1. \A i \in 1..Len(new) : new[i] \in Int
    <3>1. \A i \in 1..Len(new) : new[i] \in Msgs
      BY <1>2
    <3>2. QED BY <3>1, MsgsInt
  <2>2. QED BY <1>2, <2>1
<1>7. ASSUME NEW i \in 1..Len(a), NEW j \in 1..Len(a), a[i] = a[j]
      PROVE  i = j
  <2>1. CASE i \in 1..Len(old) /\ j \in 1..Len(old)
    BY <2>1, <1>3, <1>5, <1>7, FirstLineage
  <2>2. CASE i \notin 1..Len(old) /\ j \notin 1..Len(old)
    <3>1. new[i - Len(old)] = new[j - Len(old)]
      BY <2>2, <1>4, <1>7, FirstLineage
    <3>2. i - Len(old) = j - Len(old)
      BY <2>2, <3>1, <1>4, <1>6
    <3>3. Len(old) \in Nat
      BY <1>2
    <3>4. QED BY <3>2, <3>3
  <2>3. CASE i \in 1..Len(old) /\ j \notin 1..Len(old)
    BY <2>3, <1>3, <1>4, <1>7, FirstLineage
  <2>4. CASE i \notin 1..Len(old) /\ j \in 1..Len(old)
    BY <2>4, <1>3, <1>4, <1>7, FirstLineage
  <2>5. QED BY <2>1, <2>2, <2>3, <2>4
<1>8. ASSUME NEW i \in 1..Len(a)
      PROVE  \/ \E m \in Msgs : a[i] = First(s, m, "history")
             \/ \E j \in DOMAIN buffer[s] : a[i] = First(s, buffer[s][j], "live")
  <2>1. CASE i \in 1..Len(old)
    <3>1. old[i] \in Msgs
      BY <1>2, <2>1
    <3>2. QED BY <2>1, <3>1, <1>3
  <2>2. CASE i \notin 1..Len(old)
    <3>1. /\ new[i - Len(old)] \in B
          /\ a[i] = First(s, new[i - Len(old)], "live")
      BY <2>2, <1>2, <1>4
    <3>2. QED BY <3>1
  <2>3. QED BY <2>1, <2>2
<1>9. \A i \in 1..Len(a) : Lineage(a[i]) = a[i]
  BY <1>8, FirstLineage
<1>10. QED BY <1>7, <1>8, <1>9 DEF a

\* The first kept elements of a go to the end of the queue of s.
Extended(s, a, kept) ==
    /\ queue'[s] \in Seq(Delivery)
    /\ queue[s] \in Seq(Delivery) /\ Len(queue[s]) \in Nat
    /\ DOMAIN queue[s] = 1..Len(queue[s])
    /\ DOMAIN queue'[s] = 1..(Len(queue[s]) + kept)
    /\ \A i \in 1..Len(queue[s]) : queue'[s][i] = queue[s][i]
    /\ \A i \in 1..kept : queue'[s][Len(queue[s]) + i] = a[i]
    /\ \A i \in DOMAIN queue'[s] :
           \/ i \in DOMAIN queue[s] /\ queue'[s][i] = queue[s][i]
           \/ i - Len(queue[s]) \in 1..kept /\ queue'[s][i] = a[i - Len(queue[s])]
    /\ \A r \in Subs : r # s => queue'[r] = queue[r]

\* What fits of a replay goes to the end of its subscription's queue.
LEMMA ReplayQueue ==
    ASSUME TypeOK, NEW s \in Subs, NEW a \in Seq(Delivery), NEW kept \in 0..Len(a),
           queue' = [queue EXCEPT ![s] = @ \o SubSeq(a, 1, kept)]
    PROVE  Extended(s, a, kept)
<1> DEFINE q == queue[s]
<1>1. /\ q \in Seq(Delivery) /\ DOMAIN q = 1..Len(q) /\ Len(q) \in Nat
      /\ kept \in Nat
  BY DEF TypeOK
<1>2. /\ queue'[s] \in Seq(Delivery)
      /\ DOMAIN queue'[s] = 1..(Len(q) + kept)
      /\ \A i \in 1..Len(q) : queue'[s][i] = q[i]
      /\ \A i \in 1..kept : queue'[s][Len(q) + i] = a[i]
  <2>1. queue'[s] = q \o SubSeq(a, 1, kept)
    BY DEF TypeOK
  <2>2. /\ q \o SubSeq(a, 1, kept) \in Seq(Delivery)
        /\ Len(q \o SubSeq(a, 1, kept)) = Len(q) + kept
        /\ \A i \in 1..Len(q) : (q \o SubSeq(a, 1, kept))[i] = q[i]
        /\ \A i \in 1..kept : (q \o SubSeq(a, 1, kept))[Len(q) + i] = a[i]
    BY <1>1, PrefixType
  <2> HIDE DEF q
  <2>3. DOMAIN queue'[s] = 1..(Len(q) + kept)
    BY <2>1, <2>2
  <2>4. QED BY <2>1, <2>2, <2>3
<1>3. \A r \in Subs : r # s => queue'[r] = queue[r]
  BY DEF TypeOK
<1>4. \A i \in DOMAIN queue'[s] :
          \/ i \in DOMAIN q /\ queue'[s][i] = q[i]
          \/ i - Len(q) \in 1..kept /\ queue'[s][i] = a[i - Len(q)]
  <2> SUFFICES ASSUME NEW i \in DOMAIN queue'[s], i \notin DOMAIN q
               PROVE  i - Len(q) \in 1..kept /\ queue'[s][i] = a[i - Len(q)]
    BY <1>1, <1>2
  <2>1. i - Len(q) \in 1..kept /\ i = Len(q) + (i - Len(q))
    BY <1>1, <1>2
  <2>2. QED BY <2>1, <1>2
<1> HIDE DEF q
<1>5. QED BY ONLY <1>1, <1>2, <1>3, <1>4 DEF q, Extended

\* So that much more is queued.
LEMMA ReplayQueued ==
    ASSUME TypeOK, NEW s \in Subs, NEW a \in Seq(Delivery), NEW kept \in 0..Len(a),
           queue' = [queue EXCEPT ![s] = @ \o SubSeq(a, 1, kept)]
    PROVE  Queued' = Queued \union {a[i] : i \in 1..kept}
<1>0. Extended(s, a, kept)
  BY ReplayQueue, Zenon
<1> DEFINE n == Len(queue[s])
<1>1. /\ DOMAIN queue[s] = 1..n /\ n \in Nat
      /\ DOMAIN queue'[s] = 1..(n + kept)
      /\ \A i \in 1..n : queue'[s][i] = queue[s][i]
      /\ \A i \in 1..kept : queue'[s][n + i] = a[i]
      /\ \A i \in DOMAIN queue'[s] :
             \/ i \in DOMAIN queue[s] /\ queue'[s][i] = queue[s][i]
             \/ i - n \in 1..kept /\ queue'[s][i] = a[i - n]
      /\ \A r \in Subs : r # s => queue'[r] = queue[r]
  BY ONLY <1>0 DEF Extended
<1>2. kept \in Nat
  OBVIOUS
<1> HIDE DEF n
<1>3. ASSUME NEW r \in Subs, NEW i \in DOMAIN queue[r]
      PROVE  i \in DOMAIN queue'[r] /\ queue'[r][i] = queue[r][i]
  <2>1. CASE r = s
    <3>1. i \in 1..n /\ i \in 1..(n + kept)
      BY <2>1, <1>1, <1>2
    <3>2. QED BY <2>1, <3>1, <1>1
  <2>2. CASE r # s
    BY <2>2, <1>1
  <2>3. QED BY <2>1, <2>2
<1>4. ASSUME NEW r \in Subs, NEW i \in DOMAIN queue'[r]
      PROVE  \/ i \in DOMAIN queue[r] /\ queue'[r][i] = queue[r][i]
             \/ queue'[r][i] \in {a[k] : k \in 1..kept}
  <2>1. CASE r = s
    BY <2>1, <1>1
  <2>2. CASE r # s
    BY <2>2, <1>1
  <2>3. QED BY <2>1, <2>2
<1>5. ASSUME NEW k \in 1..kept
      PROVE  \E r \in Subs : \E i \in DOMAIN queue'[r] : queue'[r][i] = a[k]
  <2>1. n + k \in 1..(n + kept)
    BY <1>1, <1>2
  <2>2. n + k \in DOMAIN queue'[s] /\ queue'[s][n + k] = a[k]
    BY <2>1, <1>1
  <2>3. QED BY <2>2
<1>6. ASSUME NEW x \in {a[k] : k \in 1..kept}
      PROVE  \E r \in Subs : \E i \in DOMAIN queue'[r] : queue'[r][i] = x
  <2>1. PICK k \in 1..kept : x = a[k]
    OBVIOUS
  <2>2. \E r \in Subs : \E i \in DOMAIN queue'[r] : queue'[r][i] = a[k]
    BY <1>5
  <2>3. QED BY <2>1, <2>2
<1>7. QED BY <1>3, <1>4, <1>6, QueuedGrows

\* The end of a replay places new deliveries only.
LEMMA ReplayDonePlace ==
    ASSUME TypeOK, PlaceInv, SubForward, PubForward, NEW s \in Subs, ReplayDone(s)
    PROVE  PlaceInv'
<1>1. PICK old \in Ordered(history[s] \intersect Selects[s]),
           new \in Ordered({buffer[s][i] : i \in DOMAIN buffer[s]}) :
           ReplayDone(s)!(old, new)
  BY DEF ReplayDone
<1> DEFINE a == Deliveries(s, old, new)
           rm == QueueBound - Len(queue[s])
           kept == IF Len(a) <= rm THEN Len(a) ELSE rm
           q == queue[s]
           M == {"buffer"} \X {First(s, buffer[s][i], "live") : i \in DOMAIN buffer[s]}
           N == ({"queue"} \X {a[i] : i \in 1..kept})
                \union ({"backoff"} \X {a[i] : i \in (kept + 1)..Len(a)})
<1>2. /\ a \in Seq(Delivery)
      /\ \A i \in 1..Len(a) : a[i] \in Delivery /\ a[i].sub = s
      /\ kept \in 0..Len(a)
      /\ q \in Seq(Delivery)
  BY ReplayArrivals
<1>3. /\ \A i \in 1..Len(a) : \/ \E m \in Msgs : a[i] = First(s, m, "history")
                              \/ \E j \in DOMAIN buffer[s] :
                                     a[i] = First(s, buffer[s][j], "live")
      /\ \A i, j \in 1..Len(a) : a[i] = a[j] => i = j
      /\ \A i \in 1..Len(a) : Lineage(a[i]) = a[i]
  BY ArrivingDistinct
<1>4. /\ sub[s] = "read" /\ sub' = [sub EXCEPT ![s] = "live"]
      /\ buffer' = [buffer EXCEPT ![s] = << >>]
      /\ queue' = [queue EXCEPT ![s] = @ \o SubSeq(a, 1, kept)]
      /\ inflight' = inflight \union {a[i] : i \in 1..kept}
      /\ backoff' = backoff \union {a[i] : i \in (kept + 1)..Len(a)}
      /\ sent' = sent \union {a[i] : i \in DOMAIN a}
      /\ UNCHANGED <<held, abandoned, dying, stuck, acked, dlq>>
  BY <1>1
<1> HIDE DEF a, kept
<1>5. DOMAIN a = 1..Len(a) /\ Len(a) \in Nat /\ kept \in Nat /\ kept <= Len(a)
  BY <1>2
<1>6. \A p \in Spots : Lineage(p[2]) \in sent
  BY DEF PlaceInv, SentKnown
\* What arrives is either staged already or new history.
<1>7. \A i \in 1..Len(a) : a[i] \notin sent \/ <<"buffer", a[i]>> \in M \intersect Spots
  <2> SUFFICES ASSUME NEW i \in 1..Len(a)
               PROVE  a[i] \notin sent \/ <<"buffer", a[i]>> \in M \intersect Spots
    OBVIOUS
  <2>1. CASE \E m \in Msgs : a[i] = First(s, m, "history")
    BY <2>1, <1>4, FirstLineage DEF PlaceInv, SentKnown
  <2>2. CASE \E j \in DOMAIN buffer[s] : a[i] = First(s, buffer[s][j], "live")
    BY <2>2 DEF Spots, Staged
  <2>3. QED BY <1>3, <2>1, <2>2
<1>8. ASSUME NEW i \in 1..Len(a), NEW y \in Spots \ M
      PROVE  Lineage(a[i]) # Lineage(y[2])
  <2>1. CASE a[i] \notin sent
    BY <2>1, <1>3, <1>6
  <2>2. CASE <<"buffer", a[i]>> \in M \intersect Spots
    BY <2>2 DEF PlaceInv, SpotsUnique, Unique
  <2>3. QED BY <1>7, <2>1, <2>2
<1>e. Extended(s, a, kept)
  BY <1>2, <1>4, ReplayQueue, Zenon
<1>9. /\ DOMAIN queue'[s] = 1..(Len(q) + kept)
      /\ DOMAIN q = 1..Len(q) /\ Len(q) \in Nat
      /\ \A i \in 1..Len(q) : queue'[s][i] = q[i]
      /\ \A i \in 1..kept : queue'[s][Len(q) + i] = a[i]
  BY ONLY <1>e DEF Extended
<1>10. \A r \in Subs : r # s => queue'[r] = queue[r] /\ buffer'[r] = buffer[r]
  BY <1>4 DEF TypeOK
<1>11. \A i \in DOMAIN queue'[s] :
           \/ i \in DOMAIN q /\ queue'[s][i] = q[i]
           \/ i - Len(q) \in 1..kept /\ queue'[s][i] = a[i - Len(q)]
  BY ONLY <1>e DEF Extended
<1>12. Queued' = Queued \union {a[i] : i \in 1..kept}
  BY <1>2, <1>4, ReplayQueued
<1>13. \A x \in Staged' : <<"buffer", x>> \in Spots \ M
  <2> SUFFICES ASSUME NEW r \in Subs, NEW i \in DOMAIN buffer'[r]
               PROVE  <<"buffer", First(r, buffer'[r][i], "live")>> \in Spots \ M
    BY DEF Staged
  <2>1. r # s
    <3>1. buffer'[s] = << >>
      BY <1>4 DEF TypeOK
    <3>2. QED BY <3>1
  <2>2. buffer'[r] = buffer[r]
    BY <2>1, <1>10
  <2>3. QED BY <2>1, <2>2, FirstLineage DEF Spots, Staged
<1>14. Spots' \subseteq (Spots \ M) \union N
  <2>1. \A x \in Queued : <<"queue", x>> \in Spots \ M
    BY DEF Spots
  <2>2. \A x \in backoff : <<"backoff", x>> \in Spots \ M
    BY DEF Spots
  <2>3. ({"held"} \X held) \union ({"abandoned"} \X abandoned)
        \union ({"dying"} \X dying) \union ({"stuck"} \X stuck)
        \union ({"acked"} \X acked) \union ({"dlq"} \X dlq) \subseteq Spots \ M
    BY DEF Spots
  <2>4. Spots' = ({"queue"} \X Queued') \union ({"buffer"} \X Staged')
         \union ({"held"} \X held) \union ({"abandoned"} \X abandoned)
         \union ({"backoff"} \X backoff') \union ({"dying"} \X dying)
         \union ({"stuck"} \X stuck)
         \union ({"acked"} \X acked) \union ({"dlq"} \X dlq)
    BY <1>4 DEF Spots
  <2>5. {"queue"} \X Queued' \subseteq (Spots \ M) \union N
    BY <1>12, <2>1
  <2>6. {"backoff"} \X backoff' \subseteq (Spots \ M) \union N
    BY <1>4, <2>2
  <2>7. {"buffer"} \X Staged' \subseteq Spots \ M
    BY <1>13
  <2> HIDE DEF N, M
  <2>8. QED BY <2>3, <2>4, <2>5, <2>6, <2>7
<1>15. Unique(Spots)'
  <2>1. \A x \in N : \E i \in 1..Len(a) : /\ x[2] = a[i]
                                          /\ x[1] = IF i <= kept THEN "queue" ELSE "backoff"
                                          /\ x = <<x[1], x[2]>>
    BY <1>5
  <2>2. Unique(N)
    <3> SUFFICES ASSUME NEW x \in N, NEW y \in N, Lineage(x[2]) = Lineage(y[2])
                 PROVE  x = y
      BY DEF Unique
    <3>1. PICK i \in 1..Len(a) : /\ x[2] = a[i]
                                 /\ x[1] = IF i <= kept THEN "queue" ELSE "backoff"
                                 /\ x = <<x[1], x[2]>>
      BY <2>1
    <3>2. PICK j \in 1..Len(a) : /\ y[2] = a[j]
                                 /\ y[1] = IF j <= kept THEN "queue" ELSE "backoff"
                                 /\ y = <<y[1], y[2]>>
      BY <2>1
    <3>3. i = j
      BY <1>3, <3>1, <3>2
    <3>4. QED BY <3>1, <3>2, <3>3
  <2>3. \A x \in N, y \in Spots \ M : Lineage(x[2]) # Lineage(y[2])
    BY <1>8, <2>1
  <2> HIDE DEF M, N
  <2>4. Unique(Spots')
    BY <1>14, <2>2, <2>3, UniqueReplace DEF PlaceInv, SpotsUnique
  <2>5. QED BY <2>4 DEF Unique
<1>16. QueuesUnique'
  <2> SUFFICES ASSUME NEW r \in Subs
               PROVE  /\ \A i, j \in DOMAIN queue'[r] :
                          Lineage(queue'[r][i]) = Lineage(queue'[r][j]) => i = j
                      /\ \A i \in DOMAIN queue'[r] : queue'[r][i].sub = r
    BY DEF QueuesUnique
  <2>1. CASE r # s
    BY <2>1, <1>10 DEF PlaceInv, SpotsUnique, QueuesUnique
  <2>2. CASE r = s
    <3>1. \A i \in DOMAIN q, k \in 1..kept : Lineage(q[i]) # Lineage(a[k])
      <4> SUFFICES ASSUME NEW i \in DOMAIN q, NEW k \in 1..kept
                   PROVE  Lineage(q[i]) # Lineage(a[k])
        OBVIOUS
      <4>1. <<"queue", q[i]>> \in Spots \ M
        BY DEF Spots, Queued
      <4>2. k \in 1..Len(a)
        BY <1>5
      <4>3. QED BY <4>1, <4>2, <1>8
    <3>2. \A i, j \in 1..kept : Lineage(a[i]) = Lineage(a[j]) => i = j
      BY <1>3, <1>5
    <3>3. \A i, j \in DOMAIN q : Lineage(q[i]) = Lineage(q[j]) => i = j
      BY DEF PlaceInv, SpotsUnique, QueuesUnique
    <3>4. ASSUME NEW i \in DOMAIN queue'[s], NEW j \in DOMAIN queue'[s],
                 Lineage(queue'[s][i]) = Lineage(queue'[s][j])
          PROVE  i = j
      <4>1. i \in Int /\ j \in Int /\ Len(q) \in Int
        BY <1>5, <1>9
      <4>2. CASE i \in DOMAIN q
        BY <4>2, <1>11, <3>1, <3>3, <3>4
      <4>3. CASE j \in DOMAIN q
        BY <4>3, <1>11, <3>1, <3>3, <3>4
      <4>4. CASE i \notin DOMAIN q /\ j \notin DOMAIN q
        <5>1. i - Len(q) = j - Len(q)
          BY <4>4, <1>11, <3>2, <3>4
        <5>2. QED BY <4>1, <5>1
      <4>5. QED BY <4>2, <4>3, <4>4
    <3>5. ASSUME NEW i \in DOMAIN queue'[s] PROVE queue'[s][i].sub = s
      <4>1. \A k \in 1..kept : a[k].sub = s
        BY <1>2, <1>5
      <4>2. QED BY <4>1, <1>11 DEF PlaceInv, SpotsUnique, QueuesUnique
    <3>6. QED BY <2>2, <3>4, <3>5
  <2>3. QED BY <2>1, <2>2
<1>17. BuffersUnique'
  <2>1. buffer'[s] = << >>
    BY <1>4 DEF TypeOK
  <2>2. QED BY <2>1, <1>10 DEF PlaceInv, SpotsUnique, BuffersUnique
<1>18. SentKnown'
  <2>1. \A p \in Spots' : Lineage(p[2]) \in sent'
    <3>1. \A x \in N : \E i \in 1..Len(a) : x[2] = a[i]
      BY <1>5
    <3>2. \A x \in N : Lineage(x[2]) \in sent'
      BY <3>1, <1>3, <1>4, <1>5
    <3> HIDE DEF N, M
    <3>3. QED BY <3>2, <1>4, <1>6, <1>14
  <2>2. ASSUME NEW l \in sent'
        PROVE  /\ l.attempt = 1 /\ sub'[l.sub] # "new"
               /\ l.origin = "live" => pub'[l.msg] = "done"
               /\ l.origin = "history" => sub'[l.sub] \in {"live", "gone"}
    <3>1. CASE l \in sent
      BY <3>1, SentForward DEF PlaceInv, TypeOK
    <3>2. CASE l \notin sent
      <4>1. PICK i \in 1..Len(a) : l = a[i]
        BY <3>2, <1>4, <1>5
      <4>2. <<"buffer", a[i]>> \notin Spots
        BY <3>2, <4>1, <1>3, <1>6
      <4>3. PICK m \in Msgs : l = First(s, m, "history")
        <5>1. \A j \in DOMAIN buffer[s] :
                  <<"buffer", First(s, buffer[s][j], "live")>> \in Spots
          BY DEF Spots, Staged
        <5>2. QED BY <4>1, <4>2, <5>1, <1>3
      <4>4. l.attempt = 1 /\ l.sub = s /\ l.origin = "history"
        BY <4>3, FirstLineage
      <4>5. sub'[s] = "live"
        BY <1>4 DEF TypeOK
      <4>6. QED BY <4>4, <4>5
    <3>3. QED BY <3>1, <3>2
  <2>3. QED BY <2>1, <2>2 DEF SentKnown
<1>19. InflightPlaced'
  BY <1>4, <1>12 DEF PlaceInv, InflightPlaced
<1>20. QED BY <1>15, <1>16, <1>17, <1>18, <1>19 DEF PlaceInv, SpotsUnique

\* A failed replay only forgets what was staged.
LEMMA ReplayFailsPlace ==
    ASSUME TypeOK, PlaceInv, SubForward, PubForward, NEW s \in Subs, ReplayFails(s)
    PROVE  PlaceInv'
<1>1. /\ buffer' = [buffer EXCEPT ![s] = << >>]
      /\ UNCHANGED <<queue, held, abandoned, retryVars, acked, dlq, sent, inflight>>
  BY DEF ReplayFails, streamVars, countVars, logVars
<1>2. /\ \A r \in Subs : r # s => buffer'[r] = buffer[r]
      /\ buffer'[s] = << >>
  BY <1>1 DEF TypeOK
<1>3. Queued' = Queued /\ Staged' \subseteq Staged
  <2>1. \A r \in Subs : \A i \in DOMAIN buffer'[r] :
            i \in DOMAIN buffer[r] /\ buffer'[r][i] = buffer[r][i]
    BY <1>2
  <2>2. QED BY <2>1, <1>1 DEF Queued, Staged
<1>4. Spots' \subseteq Spots
  BY <1>1, <1>3 DEF Spots, retryVars
<1>5. Unique(Spots)'
  BY <1>4 DEF PlaceInv, SpotsUnique, Unique
<1>6. QueuesUnique' /\ BuffersUnique'
  BY <1>1, <1>2 DEF PlaceInv, SpotsUnique, QueuesUnique, BuffersUnique
<1>7. SentKnown'
  BY <1>1, <1>4, SentForward DEF PlaceInv, SentKnown, TypeOK
<1>8. InflightPlaced'
  BY <1>1, <1>3 DEF PlaceInv, InflightPlaced
<1>9. QED BY <1>5, <1>6, <1>7, <1>8 DEF PlaceInv, SpotsUnique

\* A publisher's step keeps every delivery in one place.
LEMMA PublisherPlace ==
    ASSUME TypeOK, PlaceInv, NEW m \in Msgs, PublisherStep(m)
    PROVE  PlaceInv'
<1>1. SubForward /\ PubForward
  BY PublisherForward
<1>2. CASE Fanout(m)
  BY <1>1, <1>2, FanoutPlace
<1>3. CASE ~Fanout(m)
  <2>1. UNCHANGED <<queue, buffer, held, abandoned, retryVars, acked, dlq, sent,
                    inflight>>
    BY <1>3 DEF PublisherStep, Publish, Resume, Commit, AppendFails,
                CancelPublish, regVars, streamVars, countVars, logVars
  <2>2. QED BY <1>1, <2>1, QuietStep
<1>4. QED BY <1>2, <1>3

\* A subscription's step keeps every delivery in one place.
LEMMA SubscriberPlace ==
    ASSUME TypeOK, PlaceInv, NEW s \in Subs, SubscriberStep(s)
    PROVE  PlaceInv'
<1>1. SubForward /\ PubForward
  BY SubscriberForward
<1>2. CASE Get(s) \/ CancelledGet(s)
  BY <1>1, <1>2, GetPlace
<1>3. CASE ReplayDone(s)
  BY <1>1, <1>3, ReplayDonePlace
<1>4. CASE ReplayFails(s)
  BY <1>1, <1>4, ReplayFailsPlace
<1>5. CASE Subscribe(s) \/ ReadHistory(s) \/ Unsubscribe(s) \/ StreamEnds(s)
  <2>1. /\ UNCHANGED <<queue, buffer, held, abandoned, retryVars, acked, dlq, sent>>
        /\ inflight' \subseteq inflight
    BY <1>5 DEF Subscribe, ReadHistory, Unsubscribe, StreamEnds, TearDown,
                DropInflight, regVars, streamVars, countVars, logVars
  <2>2. QED BY <1>1, <2>1, QuietStep
<1>6. QED BY <1>2, <1>3, <1>4, <1>5 DEF SubscriberStep

\* A delivery's step keeps every delivery in one place.
LEMMA DeliveryPlace ==
    ASSUME TypeOK, PlaceInv, NEW d \in Delivery, DeliveryStep(d)
    PROVE  PlaceInv'
<1>1. SubForward /\ PubForward
  BY DeliveryForward
<1>2. QED BY <1>1, AckPlace, NackPlace, BackoffPlace, DlqPlace DEF DeliveryStep

\* Initially nothing is anywhere.
LEMMA InitPlace == Init => PlaceInv
<1> SUFFICES ASSUME Init PROVE PlaceInv
  OBVIOUS
<1>1. Queued = {} /\ Staged = {}
  BY DEF Init, Queued, Staged
<1>2. Spots = {}
  BY <1>1 DEF Init, Spots
<1>3. SpotsUnique
  BY <1>2 DEF Init, SpotsUnique, Unique, QueuesUnique, BuffersUnique
<1>4. QED BY <1>2, <1>3 DEF Init, PlaceInv, SentKnown, InflightPlaced

\* A stuttering step moves nothing.
LEMMA StutterPlace ==
    ASSUME TypeOK, PlaceInv, UNCHANGED vars
    PROVE  PlaceInv'
<1>1. /\ SubForward /\ PubForward
      /\ UNCHANGED <<queue, buffer, held, abandoned, retryVars, acked, dlq, sent,
                     inflight>>
  BY DEF vars, regVars, streamVars, countVars, gateVars, logVars, SubForward,
         PubForward
<1>2. QED BY <1>1, QuietStep

\* The inductive invariant: every delivery is in one place at most, what is in
\* a place was sent, and _inflight holds only what is queued, held or abandoned
\* (broker.py:196-237, 301-358, retry.py:104-170).
THEOREM Placed == Spec => [](TypeOK /\ PlaceInv)
<1>1. TypeOK /\ PlaceInv /\ [Next]_vars => PlaceInv'
  BY PublisherPlace, SubscriberPlace, DeliveryPlace, StutterPlace DEF Next
<1>2. QED BY <1>1, InitPlace, TypeCorrect, PTL DEF Spec

-----------------------------------------------------------------------------
(* NeverTwice. *)

\* What is found in a place is one of the spots.
LEMMA PlaceIsSpot ==
    ASSUME TypeOK, NEW l \in sent, NEW p \in Places(l)
    PROVE  \/ /\ p[1] = "queue" /\ p = <<"queue", p[2]>>
              /\ p[2] \in DOMAIN queue[l.sub]
              /\ Lineage(queue[l.sub][p[2]]) = l
              /\ <<"queue", queue[l.sub][p[2]]>> \in Spots
           \/ /\ p[1] = "buffer" /\ p = <<"buffer", p[2]>>
              /\ p[2] \in DOMAIN buffer[l.sub]
              /\ First(l.sub, buffer[l.sub][p[2]], "live") = l
              /\ <<"buffer", l>> \in Spots
           \/ /\ p[1] \notin {"queue", "buffer"} /\ p \in Spots
              /\ Lineage(p[2]) = l
<1>1. l.sub \in Subs
  BY DEF TypeOK, Delivery
<1>2. \A i \in DOMAIN queue[l.sub] : queue[l.sub][i] \in Queued
  BY <1>1 DEF Queued
<1>3. \A i \in DOMAIN buffer[l.sub] : First(l.sub, buffer[l.sub][i], "live") \in Staged
  BY <1>1 DEF Staged
<1>4. CASE \E i \in DOMAIN queue[l.sub] :
               Lineage(queue[l.sub][i]) = l /\ p = <<"queue", i>>
  BY <1>4, <1>2 DEF Spots
<1>5. CASE \E i \in DOMAIN buffer[l.sub] :
               First(l.sub, buffer[l.sub][i], "live") = l /\ p = <<"buffer", i>>
  BY <1>5, <1>3 DEF Spots
<1>6. CASE \/ \E d \in held : Lineage(d) = l /\ p = <<"held", d>>
           \/ \E d \in abandoned : Lineage(d) = l /\ p = <<"abandoned", d>>
           \/ \E d \in backoff : Lineage(d) = l /\ p = <<"backoff", d>>
           \/ \E d \in dying : Lineage(d) = l /\ p = <<"dying", d>>
           \/ \E d \in stuck : Lineage(d) = l /\ p = <<"stuck", d>>
           \/ \E d \in acked : Lineage(d) = l /\ p = <<"acked", d>>
           \/ \E d \in dlq : Lineage(d) = l /\ p = <<"dlq", d>>
  BY <1>6 DEF Spots
<1>7. QED BY <1>4, <1>5, <1>6 DEF Places

\* Unique spots leave a delivery one place.
LEMMA UniqueNeverTwice ==
    ASSUME TypeOK, PlaceInv
    PROVE  NeverTwice
<1> SUFFICES ASSUME NEW l \in sent, NEW p \in Places(l), NEW q \in Places(l)
             PROVE  p = q
  BY DEF NeverTwice
<1>1. l.sub \in Subs /\ Lineage(l) = l
  <2>1. l \in Delivery /\ l.attempt = 1
    BY DEF TypeOK, PlaceInv, SentKnown
  <2>2. QED BY <2>1 DEF Delivery, Lineage, First
<1> DEFINE spot(x) == IF x[1] = "queue" THEN <<"queue", queue[l.sub][x[2]]>>
                      ELSE IF x[1] = "buffer" THEN <<"buffer", l>>
                      ELSE x
<1>2. ASSUME NEW x \in Places(l)
      PROVE  /\ spot(x) \in Spots /\ Lineage(spot(x)[2]) = l /\ spot(x)[1] = x[1]
             /\ x[1] = "queue" => x = <<"queue", x[2]>> /\ x[2] \in DOMAIN queue[l.sub]
             /\ x[1] = "buffer" => /\ x = <<"buffer", x[2]>>
                                   /\ x[2] \in DOMAIN buffer[l.sub]
                                   /\ First(l.sub, buffer[l.sub][x[2]], "live") = l
  <2>1. CASE x[1] = "queue"
    BY <2>1, PlaceIsSpot
  <2>2. CASE x[1] = "buffer"
    BY <2>2, <1>1, PlaceIsSpot
  <2>3. CASE x[1] \notin {"queue", "buffer"}
    BY <2>3, PlaceIsSpot
  <2>4. QED BY <2>1, <2>2, <2>3
<1>3. spot(p) = spot(q) /\ p[1] = q[1]
  <2>1. /\ spot(p) \in Spots /\ Lineage(spot(p)[2]) = l /\ spot(p)[1] = p[1]
        /\ spot(q) \in Spots /\ Lineage(spot(q)[2]) = l /\ spot(q)[1] = q[1]
    BY <1>2
  <2> HIDE DEF spot
  <2>2. spot(p) = spot(q)
    BY <2>1 DEF PlaceInv, SpotsUnique, Unique
  <2>3. QED BY <2>1, <2>2
<1>4. CASE p[1] = "queue"
  <2>1. p = <<"queue", p[2]>> /\ q = <<"queue", q[2]>>
        /\ p[2] \in DOMAIN queue[l.sub] /\ q[2] \in DOMAIN queue[l.sub]
    BY <1>2, <1>3, <1>4
  <2>2. queue[l.sub][p[2]] = queue[l.sub][q[2]]
    BY <1>3, <1>4
  <2>3. p[2] = q[2]
    BY <1>1, <2>1, <2>2 DEF PlaceInv, SpotsUnique, QueuesUnique
  <2>4. QED BY <2>1, <2>3
<1>5. CASE p[1] = "buffer"
  <2>1. p = <<"buffer", p[2]>> /\ q = <<"buffer", q[2]>>
        /\ p[2] \in DOMAIN buffer[l.sub] /\ q[2] \in DOMAIN buffer[l.sub]
        /\ First(l.sub, buffer[l.sub][p[2]], "live") = l
        /\ First(l.sub, buffer[l.sub][q[2]], "live") = l
    BY <1>2, <1>3, <1>5
  <2>2. buffer[l.sub][p[2]] = buffer[l.sub][q[2]]
    BY <2>1, FirstLineage
  <2>3. p[2] = q[2]
    BY <1>1, <2>1, <2>2 DEF PlaceInv, SpotsUnique, BuffersUnique
  <2>4. QED BY <2>1, <2>3
<1>6. CASE p[1] \notin {"queue", "buffer"}
  BY <1>3, <1>6
<1>7. QED BY <1>4, <1>5, <1>6

\* A delivery is never in two places (broker.py:332-354, retry.py:117-144).
THEOREM DeliveredOnce == Spec => []NeverTwice
BY Placed, UniqueNeverTwice, PTL
=============================================================================
