-------------------------- MODULE ConnectionProofs --------------------------
(***************************************************************************)
(* What a connection owns is released with it, for every number of         *)
(* subscriptions, frames and deliveries.                                   *)
(***************************************************************************)
EXTENDS Connection, SequenceFacts, FiniteSetTheorems, SequenceTheorems, TLAPS

Running(s) == pump[s] \in {"waiting", "sending"}

\* The reader loop runs while the connection is up, and makes one subscription at a
\* time.
ReaderInv ==
    /\ reader = "stopped" <=> phase # "up"
    /\ asked # {} => reader = "replay"
    /\ \A s, t \in asked : s = t

\* What the broker has is what the connection knows of: a registration is in _subs or
\* being made, a subscription that was evicted has a pump and is not registered, and
\* only what is registered has unacked deliveries.
OwnerInv ==
    /\ NothingUnowned
    /\ asked \subseteq reg
    /\ \A s \in subs : pump[s] # "none"
    /\ \A s \in Subs : Running(s) => s \in subs
    /\ \A s \in evicted : s \notin reg /\ pump[s] # "none"
    /\ \A d \in held : d[1] \in reg

\* Before it is up a connection has nothing; teardown still has to release all that
\* is left; afterwards there is nothing.
PhaseInv ==
    /\ phase \in {"hello", "closed"} => reg = {} /\ subs = {}
    /\ phase \notin {"up", "ending"} => hb = "ended"
    /\ phase = "teardown" => reg \subseteq left /\ \A s \in Subs : Running(s) => s \in left

ConnInv == ReaderInv /\ OwnerInv /\ PhaseInv /\ AckableAlways

-----------------------------------------------------------------------------
(* Deliveries. *)

\* A delivery made is in the queue of its subscription, and the others stay there.
LEMMA DeliverQueued ==
    ASSUME ConnTypeOK, NEW S \in SUBSET Subs, Deliver(S)
    PROVE  /\ queue' \in [Subs -> Seq(Ids)] /\ made' \in [Subs -> 0..MaxDeliveries]
           /\ \A s \in Subs : ToSet(queue[s]) \subseteq ToSet(queue'[s])
           /\ \A s \in S : <<s, made'[s]>> \in Ids /\ <<s, made'[s]>> \in ToSet(queue'[s])
<1>1. made' \in [Subs -> 0..MaxDeliveries]
  BY ConnectionAssumption DEF ConnTypeOK, Deliver
<1>2. \A s \in S : <<s, made'[s]>> \in Ids
  BY ConnectionAssumption DEF ConnTypeOK, Deliver, Ids
<1>3. \A s \in Subs : queue[s] \in Seq(Ids)
  BY DEF ConnTypeOK
<1>4. \A s \in S : queue'[s] = Append(queue[s], <<s, made'[s]>>)
  BY DEF Deliver
<1>5. \A s \in Subs \ S : queue'[s] = queue[s]
  BY DEF Deliver
<1>6. \A s \in S : /\ queue'[s] \in Seq(Ids)
                   /\ ToSet(queue'[s]) = ToSet(queue[s]) \union {<<s, made'[s]>>}
  <2> TAKE s \in S
  <2>1. s \in Subs /\ queue[s] \in Seq(Ids) /\ <<s, made'[s]>> \in Ids
    BY <1>2, <1>3
  <2> DEFINE q == queue[s]
             x == <<s, made'[s]>>
  <2> HIDE DEF q, x
  <2>2. q \in Seq(Ids) /\ x \in Ids
    BY <2>1 DEF q, x
  <2>3. Append(q, x) \in Seq(Ids) /\ ToSet(Append(q, x)) = ToSet(q) \union {x}
    BY <2>2, AppendElements
  <2>4. queue'[s] = Append(q, x)
    BY <1>4 DEF q, x
  <2>5. QED BY <2>3, <2>4 DEF q, x
<1>7. queue' \in [Subs -> Seq(Ids)]
  BY <1>3, <1>5, <1>6 DEF Deliver
<1>8. QED BY <1>1, <1>2, <1>5, <1>6, <1>7

-----------------------------------------------------------------------------
(* Type correctness. *)

LEMMA InitConnType == Init => ConnTypeOK
BY ConnectionAssumption, EmptySeq DEF Init, ConnTypeOK

\* The reader loop stops, in the middle of a subscribe or not.
LEMMA StopType ==
    ASSUME ConnTypeOK, StopReader
    PROVE  /\ reader' = "stopped" /\ phase' = "ending" /\ asked' = {}
           /\ reg' \subseteq reg /\ held' \subseteq held
           /\ UNCHANGED <<queue, made, evicted, left>>
BY DEF StopReader, Unregister

LEMMA ReaderType ==
    ASSUME ConnTypeOK, ReadFrame
    PROVE  ConnTypeOK'
<1> DEFINE f == Head(inbox)
<1> SUFFICES ASSUME Dispatch(f) PROVE ConnTypeOK'
  BY DEF ReadFrame
<1>u. UNCHANGED <<link, frames, got, hb>> /\ beats' = 0
  BY DEF ReadFrame
<1> USE <1>u, ConnectionAssumption DEF ConnTypeOK, Goes, runVars, brokerVars, connVars
<1>1. CASE OnSubscribe
  BY <1>1 DEF OnSubscribe
<1>2. CASE OnUnsubscribe(f.about)
  <2>1. /\ reg' \subseteq reg /\ held' \subseteq held /\ subs' \subseteq subs
        /\ pump' \in [Subs -> {"none", "waiting", "sending", "ended"}]
    BY <1>2 DEF OnUnsubscribe, Unregister
  <2>2. UNCHANGED <<known, queue, made, evicted, phase, left, asked>> /\ reader' = "read"
    BY <1>2 DEF OnUnsubscribe
  <2>3. QED BY <2>1, <2>2
<1>3. CASE OnAck(f.about)
  BY <1>3 DEF OnAck
<1>4. CASE OnNack(f.about)
  <2> DEFINE d == f.about
  <2>0. /\ UNCHANGED <<reg, evicted, subs, pump, phase, left, asked>> /\ reader' = "read"
        /\ known' \subseteq known
    BY <1>4 DEF OnNack
  <2>1. CASE /\ d \in known /\ d[1] \in subs \intersect reg
             /\ Deliver({d[1]}) /\ held' = (held \ {d}) \union {<<d[1], made'[d[1]]>>}
    <3>1. {d[1]} \in SUBSET Subs
      BY <2>1
    <3>2. /\ queue' \in [Subs -> Seq(Ids)] /\ made' \in [Subs -> 0..MaxDeliveries]
          /\ <<d[1], made'[d[1]]>> \in Ids
      BY <2>1, <3>1, DeliverQueued
    <3>3. held' \subseteq Ids
      BY <2>1, <3>2
    <3>4. QED BY <2>0, <3>2, <3>3
  <2>2. CASE held' \subseteq held /\ UNCHANGED <<queue, made>>
    BY <2>0, <2>2
  <2>3. QED BY <1>4, <2>1, <2>2 DEF OnNack
<1>5. CASE Goes("gate") /\ UNCHANGED <<brokerVars, connVars>>
  BY <1>5
<1>6. CASE Goes("read") /\ UNCHANGED <<brokerVars, connVars>>
  BY <1>6
<1>7. CASE StopReader /\ UNCHANGED connVars
  BY <1>7, StopType
<1>8. QED BY <1>1, <1>2, <1>3, <1>4, <1>5, <1>6, <1>7 DEF Dispatch

LEMMA HandlerType ==
    ASSUME ConnTypeOK, GatePasses \/ HandlerEnds \/ ReaderEnds \/ Abort
                       \/ \E s \in Subs : ReplayEnds(s)
    PROVE  ConnTypeOK'
<1> USE ConnectionAssumption DEF ConnTypeOK, clientVars, hbVars, connVars
<1>1. CASE GatePasses
  <2>1. Fanout \in SUBSET Subs
    BY DEF Fanout
  <2>2. /\ queue' \in [Subs -> Seq(Ids)] /\ made' \in [Subs -> 0..MaxDeliveries]
        /\ \A s \in Fanout : <<s, made'[s]>> \in Ids
    BY <1>1, <2>1, DeliverQueued DEF GatePasses
  <2>3. held' \subseteq Ids
    BY <1>1, <2>2 DEF GatePasses
  <2>4. QED BY <1>1, <2>2, <2>3 DEF GatePasses, Goes, runVars
<1>2. CASE HandlerEnds
  BY <1>2 DEF HandlerEnds, Goes, runVars, brokerVars
<1>3. CASE ReaderEnds
  BY <1>3, StopType DEF ReaderEnds
<1>4. CASE Abort
  BY <1>4, StopType DEF Abort
<1>5. ASSUME NEW s \in Subs, ReplayEnds(s)
      PROVE  ConnTypeOK'
  <2>0. UNCHANGED <<evicted, known, clientVars, runVars, hbVars>>
        /\ asked' = {} /\ reader' = "reply"
    BY <1>5 DEF ReplayEnds
  <2>1. CASE Deliver({s}) /\ held' = held \union {<<s, made'[s]>>} /\ UNCHANGED reg
             /\ subs' = subs \union {s} /\ pump' = [pump EXCEPT ![s] = "waiting"]
    <3>1. /\ queue' \in [Subs -> Seq(Ids)] /\ made' \in [Subs -> 0..MaxDeliveries]
          /\ <<s, made'[s]>> \in Ids
      BY <2>1, DeliverQueued
    <3>2. held' \subseteq Ids
      BY <2>1, <3>1
    <3>3. QED BY <2>0, <2>1, <3>1, <3>2 DEF runVars
  <2>2. CASE UNCHANGED <<queue, made, held, reg>>
             /\ subs' = subs \union {s} /\ pump' = [pump EXCEPT ![s] = "waiting"]
    BY <2>0, <2>2 DEF runVars
  <2>3. CASE Unregister(s) /\ UNCHANGED <<subs, pump, queue, made>>
    BY <2>0, <2>3 DEF runVars, Unregister
  <2>4. QED BY <1>5, <2>1, <2>2, <2>3 DEF ReplayEnds
<1>6. QED BY <1>1, <1>2, <1>3, <1>4, <1>5

LEMMA OthersType ==
    ASSUME ConnTypeOK, Handshake \/ ClientSends \/ LinkLost \/ OtherPublish
                       \/ (\E s \in Subs : Evict(s))
    PROVE  ConnTypeOK'
<1> USE ConnectionAssumption DEF ConnTypeOK
<1>1. CASE Handshake
  BY <1>1 DEF Handshake, brokerVars, connVars
<1>2. CASE ClientSends
  BY <1>2 DEF ClientSends, runVars, hbVars, brokerVars, connVars
<1>3. CASE LinkLost
  BY <1>3 DEF LinkLost, runVars, hbVars, brokerVars, connVars
<1>4. CASE OtherPublish
  <2>1. Fanout \in SUBSET Subs
    BY DEF Fanout
  <2>2. /\ queue' \in [Subs -> Seq(Ids)] /\ made' \in [Subs -> 0..MaxDeliveries]
        /\ \A s \in Fanout : <<s, made'[s]>> \in Ids
    BY <1>4, <2>1, DeliverQueued DEF OtherPublish
  <2>3. held' \subseteq Ids
    BY <1>4, <2>2 DEF OtherPublish
  <2>4. QED BY <1>4, <2>2, <2>3 DEF OtherPublish, clientVars, runVars, hbVars, connVars
<1>5. ASSUME NEW s \in Subs, Evict(s)
      PROVE  ConnTypeOK'
  BY <1>5 DEF Evict, Unregister, clientVars, runVars, hbVars, connVars
<1>6. QED BY <1>1, <1>2, <1>3, <1>4, <1>5

LEMMA TasksType ==
    ASSUME ConnTypeOK, (\E s \in Subs : PumpStep(s)) \/ Beat \/ BeatSent \/ RunStep
    PROVE  ConnTypeOK'
<1> USE ConnectionAssumption DEF ConnTypeOK, clientVars
<1>1. ASSUME NEW s \in Subs, PumpTakes(s)
      PROVE  ConnTypeOK'
  <2>1. queue[s] \in Seq(Ids) /\ queue[s] # << >>
    BY <1>1 DEF PumpTakes
  <2>2. Head(queue[s]) \in Ids /\ Tail(queue[s]) \in Seq(Ids)
    BY <2>1, TailElements
  <2>3. queue' \in [Subs -> Seq(Ids)]
    BY <1>1, <2>2 DEF PumpTakes
  <2>4. known' \subseteq Ids /\ got' \subseteq Ids
    BY <1>1, <2>2 DEF PumpTakes, Entered
  <2>5. QED BY <1>1, <2>3, <2>4 DEF PumpTakes, runVars, hbVars
<1>2. ASSUME NEW s \in Subs, PumpSends(s) \/ PumpEnds(s)
      PROVE  ConnTypeOK'
  <2>1. CASE PumpSends(s)
    <3>1. pump' \in [Subs -> {"none", "waiting", "sending", "ended"}]
      BY <2>1 DEF PumpSends
    <3>2. QED BY <2>1, <3>1 DEF PumpSends, brokerVars, runVars, hbVars
  <2>2. CASE PumpEnds(s)
    <3>1. pump' \in [Subs -> {"none", "waiting", "sending", "ended"}] /\ subs' \subseteq Subs
      BY <2>2 DEF PumpEnds
    <3>2. QED BY <2>2, <3>1 DEF PumpEnds, brokerVars, runVars, hbVars
  <2>3. QED BY <1>2, <2>1, <2>2
<1>3. CASE Beat
  <2>1. CASE beats < Timeout /\ beats' = beats + 1 /\ hb' = "sending"
             /\ UNCHANGED <<runVars, reader, asked, brokerVars>>
    BY <1>3, <2>1 DEF Beat, connVars, runVars, brokerVars
  <2>2. CASE hb' = "ended" /\ beats' = beats
             /\ (StopReader \/ UNCHANGED <<runVars, reader, asked, brokerVars>>)
    BY <1>3, <2>2, StopType DEF Beat, connVars, runVars, brokerVars
  <2>3. QED BY <1>3, <2>1, <2>2 DEF Beat, Silent
<1>4. CASE BeatSent
  BY <1>4 DEF BeatSent, runVars, brokerVars, connVars
<1>5. CASE TeardownStarts
  BY <1>5 DEF TeardownStarts, HeartbeatCancelled, ToRelease, brokerVars, connVars
<1>6. CASE TeardownEnds
  BY <1>6 DEF TeardownEnds, brokerVars, hbVars
<1>7. ASSUME NEW s \in Subs, TeardownSub(s)
      PROVE  ConnTypeOK'
  BY <1>7 DEF TeardownSub, Unregister, hbVars
<1>8. QED BY <1>1, <1>2, <1>3, <1>4, <1>5, <1>6, <1>7 DEF PumpStep, RunStep

LEMMA ConnStepType ==
    ASSUME ConnTypeOK, [Next]_vars
    PROVE  ConnTypeOK'
<1>1. CASE UNCHANGED vars
  BY <1>1 DEF ConnTypeOK, vars, clientVars, runVars, hbVars, brokerVars, connVars
<1>2. QED BY <1>1, ReaderType, HandlerType, OthersType, TasksType DEF Next, ReaderStep

\* Every state of a connection is well typed (server.py:76-127).
THEOREM ConnTypeCorrect == Spec => []ConnTypeOK
<1>1. QED BY InitConnType, ConnStepType, PTL DEF Spec

-----------------------------------------------------------------------------
(* Ownership. *)

LEMMA InitConnInv == Init => ConnInv
BY DEF Init, ConnInv, ReaderInv, OwnerInv, PhaseInv, NothingUnowned, AckableAlways, Running

\* A subscription that is given up takes its backlog with it.
LEMMA UnregisterOwned ==
    ASSUME ConnTypeOK, NEW s, Unregister(s), \A d \in held : d[1] \in reg
    PROVE  /\ reg' = reg \ {s} /\ held' \subseteq held
           /\ \A d \in held' : d[1] \in reg'
<1>1. \A d \in held : d[1] = s => d \in Of(s)
  BY DEF Of, ConnTypeOK
<1>2. QED BY <1>1 DEF Unregister

\* When the reader loop stops, what was being made is undone.
LEMMA StopOwned ==
    ASSUME ConnTypeOK, ConnInv, StopReader, phase = "up",
           UNCHANGED <<subs, pump, known>>
    PROVE  ConnInv'
<1>1. /\ reader' = "stopped" /\ phase' = "ending" /\ asked' = {}
      /\ UNCHANGED <<queue, made, evicted, left>>
  BY StopType
<1>2. /\ reg' = reg \ asked /\ held' \subseteq held
      /\ \A d \in held' : d[1] \in reg'
  <2>1. CASE asked = {}
    BY <2>1 DEF StopReader, ConnInv, OwnerInv
  <2>2. ASSUME NEW s \in asked, Unregister(s)
        PROVE  /\ reg' = reg \ asked /\ held' \subseteq held
               /\ \A d \in held' : d[1] \in reg'
    <3>1. asked = {s}
      BY <2>2 DEF ConnInv, ReaderInv
    <3>2. QED BY <2>2, <3>1, UnregisterOwned DEF ConnInv, OwnerInv
  <2>3. QED BY <2>1, <2>2 DEF StopReader
<1>3. ReaderInv'
  BY <1>1 DEF ReaderInv
<1>4. OwnerInv'
  BY <1>1, <1>2 DEF ConnInv, OwnerInv, NothingUnowned, Running
<1>5. PhaseInv'
  BY <1>1 DEF PhaseInv
<1>6. AckableAlways'
  BY <1>1, <1>2 DEF ConnInv, AckableAlways
<1>7. QED BY <1>3, <1>4, <1>5, <1>6 DEF ConnInv

\* A publish, by whomever.
LEMMA PublishOwned ==
    ASSUME ConnTypeOK, ConnInv, Deliver(Fanout),
           held' = held \union {<<s, made'[s]>> : s \in Fanout},
           UNCHANGED <<reg, evicted, subs, pump, known, asked, phase, left, hb>>,
           reader' = reader \/ (reader = "gate" /\ reader' = "reply")
    PROVE  ConnInv'
<1>1. Fanout \in SUBSET Subs
  BY DEF Fanout, ConnTypeOK
<1>2. /\ \A s \in Subs : ToSet(queue[s]) \subseteq ToSet(queue'[s])
      /\ \A s \in Fanout : <<s, made'[s]>> \in ToSet(queue'[s])
  BY <1>1, DeliverQueued
<1>3. ReaderInv'
  BY DEF ConnInv, ReaderInv
<1>4. OwnerInv'
  <2>1. \A d \in held' : d[1] \in reg'
    BY DEF ConnInv, OwnerInv, Fanout
  <2>2. QED BY <2>1 DEF ConnInv, OwnerInv, NothingUnowned, Running
<1>5. PhaseInv'
  BY DEF ConnInv, PhaseInv, Running
<1>6. AckableAlways'
  <2>1. \A d \in held : d[1] \in Subs
    BY DEF ConnTypeOK, Ids
  <2>2. QED BY <1>2, <2>1 DEF ConnInv, AckableAlways
<1>7. QED BY <1>3, <1>4, <1>5, <1>6 DEF ConnInv

\* What a handler does before its first await.
LEMMA DispatchOwned ==
    ASSUME ConnTypeOK, ConnInv, ReadFrame
    PROVE  ConnInv'
<1> DEFINE f == Head(inbox)
<1>0. /\ phase = "up" /\ reader = "read" /\ asked = {} /\ hb' = hb
      /\ Dispatch(f) /\ reg \subseteq subs /\ \A d \in held : d[1] \in reg
  BY DEF ReadFrame, ConnInv, ReaderInv, OwnerInv, NothingUnowned
<1>1. CASE OnSubscribe
  <2>0. /\ UNCHANGED <<phase, left, queue, held, made, evicted, subs, pump, known>>
    BY <1>1 DEF OnSubscribe, runVars, connVars
  <2>1. CASE UNCHANGED <<reg, asked>> /\ reader' = "reply"
    BY <1>0, <2>0, <2>1 DEF ConnInv, ReaderInv, OwnerInv, PhaseInv, AckableAlways,
                            NothingUnowned, Running
  <2>2. ASSUME NEW s \in Subs, pump[s] = "none", reg' = reg \union {s}, asked' = {s},
               reader' = "replay"
        PROVE  ConnInv'
    BY <1>0, <2>0, <2>2 DEF ConnInv, ReaderInv, OwnerInv, PhaseInv, AckableAlways,
                            NothingUnowned, Running
  <2>3. QED BY <1>1, <2>1, <2>2 DEF OnSubscribe
<1>2. CASE OnUnsubscribe(f.about)
  <2> DEFINE s == f.about
  <2>0. UNCHANGED <<phase, left, asked, queue, made, evicted, known>> /\ reader' = "read"
    BY <1>2 DEF OnUnsubscribe, Goes, runVars
  <2>1. CASE s \in subs
    <3>1. Unregister(s) /\ subs' = subs \ {s} /\ pump' = [pump EXCEPT ![s] = "ended"]
      BY <1>2, <2>1 DEF OnUnsubscribe
    <3>2. /\ reg' = reg \ {s} /\ held' \subseteq held /\ \A d \in held' : d[1] \in reg'
      BY <1>0, <3>1, UnregisterOwned
    <3>3. \A t \in Subs : pump'[t] = IF t = s THEN "ended" ELSE pump[t]
      BY <3>1 DEF ConnTypeOK
    <3>4. subs \subseteq Subs /\ evicted \subseteq Subs
      BY DEF ConnTypeOK
    <3>5. OwnerInv'
      BY <1>0, <2>0, <3>1, <3>2, <3>3, <3>4 DEF ConnInv, OwnerInv, NothingUnowned, Running
    <3>6. QED BY <1>0, <2>0, <3>2, <3>5 DEF ConnInv, ReaderInv, PhaseInv, AckableAlways
  <2>2. CASE UNCHANGED <<subs, pump, reg, held>>
    BY <1>0, <2>0, <2>2 DEF ConnInv, ReaderInv, OwnerInv, PhaseInv, AckableAlways,
                            NothingUnowned, Running
  <2>3. QED BY <1>2, <2>1, <2>2 DEF OnUnsubscribe
<1>3. CASE OnAck(f.about)
  <2> DEFINE d == f.about
  <2>0. UNCHANGED <<phase, left, asked, queue, made, evicted, reg, subs, pump>>
        /\ reader' \in {"store", "read"} /\ known' = known \ {d}
    BY <1>3 DEF OnAck, Goes, runVars
  <2>1. held' \subseteq held /\ (d \in known => d \notin held')
    BY <1>0, <1>3 DEF OnAck
  <2>2. QED BY <1>0, <2>0, <2>1 DEF ConnInv, ReaderInv, OwnerInv, PhaseInv, AckableAlways,
                                    NothingUnowned, Running
<1>4. CASE OnNack(f.about)
  <2> DEFINE d == f.about
  <2>0. UNCHANGED <<phase, left, asked, evicted, reg, subs, pump>>
        /\ reader' = "read" /\ known' = known \ {d}
    BY <1>4 DEF OnNack, Goes, runVars
  <2>1. CASE /\ d \in known /\ d[1] \in subs \intersect reg /\ Deliver({d[1]})
             /\ held' = (held \ {d}) \union {<<d[1], made'[d[1]]>>}
    <3>1. {d[1]} \in SUBSET Subs
      BY <2>1 DEF ConnTypeOK
    <3>2. /\ \A s \in Subs : ToSet(queue[s]) \subseteq ToSet(queue'[s])
          /\ <<d[1], made'[d[1]]>> \in ToSet(queue'[d[1]])
      BY <2>1, <3>1, DeliverQueued
    <3>3. \A e \in held' : e[1] \in reg'
      BY <1>0, <2>0, <2>1
    <3>4. AckableAlways'
      <4>1. \A e \in held : e[1] \in Subs
        BY DEF ConnTypeOK, Ids
      <4>2. QED BY <2>0, <2>1, <3>2, <4>1 DEF ConnInv, AckableAlways
    <3>5. QED BY <1>0, <2>0, <3>3, <3>4 DEF ConnInv, ReaderInv, OwnerInv, PhaseInv,
                                           NothingUnowned, Running
  <2>2. CASE held' = held \ (IF d[1] \in subs THEN {d} ELSE {}) /\ UNCHANGED <<queue, made>>
    <3>1. held' \subseteq held /\ d \notin held'
      BY <1>0, <2>2
    <3>2. QED BY <1>0, <2>0, <2>2, <3>1 DEF ConnInv, ReaderInv, OwnerInv, PhaseInv,
                                            AckableAlways, NothingUnowned, Running
  <2>3. QED BY <1>4, <2>1, <2>2 DEF OnNack
<1>5. CASE reader' \in {"gate", "read"} /\ UNCHANGED <<runVars, asked, brokerVars, connVars>>
  BY <1>0, <1>5 DEF ConnInv, ReaderInv, OwnerInv, PhaseInv, AckableAlways, NothingUnowned,
                    Running, runVars, brokerVars, connVars
<1>6. CASE StopReader /\ UNCHANGED connVars
  BY <1>0, <1>6, StopOwned DEF connVars
<1>7. QED BY <1>0, <1>1, <1>2, <1>3, <1>4, <1>5, <1>6 DEF Dispatch, Goes

\* How a handler goes on after an await, and how the reader loop ends.
LEMMA HandlerOwned ==
    ASSUME ConnTypeOK, ConnInv,
           GatePasses \/ HandlerEnds \/ ReaderEnds \/ Abort
               \/ \E s \in Subs : ReplayEnds(s)
    PROVE  ConnInv'
<1>1. CASE GatePasses
  BY <1>1, PublishOwned DEF GatePasses, Goes, runVars, hbVars, connVars
<1>2. CASE HandlerEnds
  BY <1>2 DEF HandlerEnds, Goes, runVars, hbVars, connVars, brokerVars, ConnInv, ReaderInv,
              OwnerInv, PhaseInv, AckableAlways, NothingUnowned, Running
<1>3. CASE ReaderEnds \/ Abort
  BY <1>3, StopOwned DEF ReaderEnds, Abort, connVars
<1>4. ASSUME NEW s \in Subs, ReplayEnds(s)
      PROVE  ConnInv'
  <2>0. /\ UNCHANGED <<evicted, known, phase, left, hb>> /\ asked' = {} /\ reader' = "reply"
        /\ reader = "replay" /\ asked = {s} /\ s \in reg /\ phase = "up"
        /\ \A d \in held : d[1] \in reg
    BY <1>4 DEF ReplayEnds, runVars, hbVars, ConnInv, ReaderInv, OwnerInv
  <2>1. CASE /\ subs' = subs \union {s} /\ pump' = [pump EXCEPT ![s] = "waiting"]
             /\ reg' = reg
             /\ \/ Deliver({s}) /\ held' = held \union {<<s, made'[s]>>}
                \/ UNCHANGED <<queue, made, held>>
    <3>1. \A t \in Subs : pump'[t] = IF t = s THEN "waiting" ELSE pump[t]
      BY <2>1 DEF ConnTypeOK
    <3>2. subs \subseteq Subs /\ evicted \subseteq Subs
      BY DEF ConnTypeOK
    <3>3. (\A d \in held' : d[1] \in reg') /\ AckableAlways'
      <4>1. CASE Deliver({s}) /\ held' = held \union {<<s, made'[s]>>}
        <5>1. /\ \A t \in Subs : ToSet(queue[t]) \subseteq ToSet(queue'[t])
              /\ <<s, made'[s]>> \in ToSet(queue'[s])
          BY <4>1, DeliverQueued
        <5>2. \A d \in held : d[1] \in Subs
          BY DEF ConnTypeOK, Ids
        <5>3. QED BY <2>0, <2>1, <4>1, <5>1, <5>2 DEF ConnInv, AckableAlways
      <4>2. CASE UNCHANGED <<queue, made, held>>
        BY <2>0, <2>1, <4>2 DEF ConnInv, AckableAlways
      <4>3. QED BY <2>1, <4>1, <4>2
    <3>4. OwnerInv'
      BY <2>0, <2>1, <3>1, <3>2, <3>3 DEF ConnInv, OwnerInv, NothingUnowned, Running
    <3>5. QED BY <2>0, <3>3, <3>4 DEF ConnInv, ReaderInv, PhaseInv
  <2>2. CASE Unregister(s) /\ UNCHANGED <<subs, pump, queue, made>>
    <3>1. reg' = reg \ {s} /\ held' \subseteq held /\ \A d \in held' : d[1] \in reg'
      BY <2>0, <2>2, UnregisterOwned
    <3>2. QED BY <2>0, <2>2, <3>1 DEF ConnInv, ReaderInv, OwnerInv, PhaseInv, AckableAlways,
                                      NothingUnowned, Running
  <2>3. QED BY <1>4, <2>1, <2>2 DEF ReplayEnds
<1>5. QED BY <1>1, <1>2, <1>3, <1>4

LEMMA OthersOwned ==
    ASSUME ConnTypeOK, ConnInv, Handshake \/ ClientSends \/ LinkLost \/ OtherPublish
                                \/ (\E s \in Subs : Evict(s))
    PROVE  ConnInv'
<1> USE DEF ConnInv, ReaderInv, OwnerInv, PhaseInv, AckableAlways, NothingUnowned, Running
<1>1. CASE Handshake
  BY <1>1 DEF Handshake, brokerVars, connVars
<1>2. CASE ClientSends
  BY <1>2 DEF ClientSends, runVars, hbVars, brokerVars, connVars
<1>3. CASE LinkLost
  BY <1>3 DEF LinkLost, runVars, hbVars, brokerVars, connVars
<1>4. CASE OtherPublish
  BY <1>4, PublishOwned DEF OtherPublish, runVars, hbVars, connVars
<1>5. ASSUME NEW s \in Subs, Evict(s)
      PROVE  ConnInv'
  <2>1. /\ reg' = reg \ {s} /\ held' \subseteq held
        /\ \A d \in held' : d[1] \in reg'
    BY <1>5, UnregisterOwned DEF Evict
  <2>2. /\ s \in subs /\ s \notin asked /\ evicted' = evicted \union {s}
        /\ UNCHANGED <<queue, made, subs, pump, known, reader, asked, phase, left, hb>>
    BY <1>5 DEF Evict, Fanout, runVars, hbVars, connVars
  <2>3. QED BY <2>1, <2>2
<1>6. QED BY <1>1, <1>2, <1>3, <1>4, <1>5

\* The pumps, the heartbeat, and the teardown, which releases what is left.
LEMMA TasksOwned ==
    ASSUME ConnTypeOK, ConnInv,
           (\E s \in Subs : PumpStep(s)) \/ Beat \/ BeatSent \/ RunStep
    PROVE  ConnInv'
<1>1. ASSUME NEW s \in Subs, PumpTakes(s)
      PROVE  ConnInv'
  <2>1. queue[s] \in Seq(Ids) /\ queue[s] # << >>
    BY <1>1 DEF PumpTakes, ConnTypeOK
  <2>2. ToSet(queue[s]) = {Head(queue[s])} \union ToSet(Tail(queue[s]))
    BY <2>1, TailElements
  <2>3. /\ \A t \in Subs : queue'[t] = IF t = s THEN Tail(queue[s]) ELSE queue[t]
        /\ \A t \in Subs : pump'[t] = IF t = s THEN "sending" ELSE pump[t]
        /\ pump[s] = "waiting" /\ known' = known \union {Head(queue[s])}
        /\ UNCHANGED <<reg, held, evicted, phase, left, hb, subs, reader, asked>>
    BY <1>1 DEF PumpTakes, Entered, ConnTypeOK, runVars, hbVars
  <2>4. AckableAlways'
    <3>1. \A d \in held : d[1] \in Subs
      BY DEF ConnTypeOK, Ids
    <3>2. QED BY <2>2, <2>3, <3>1 DEF ConnInv, AckableAlways
  <2>5. ReaderInv' /\ PhaseInv'
    BY <2>3 DEF ConnInv, ReaderInv, PhaseInv, Running
  <2>6. OwnerInv'
    BY <2>3 DEF ConnInv, OwnerInv, NothingUnowned, Running, ConnTypeOK
  <2>7. QED BY <2>4, <2>5, <2>6 DEF ConnInv
<1>2. ASSUME NEW s \in Subs, PumpSends(s)
      PROVE  ConnInv'
  <2>1. /\ \A t \in Subs : pump'[t] = IF t = s THEN pump'[s] ELSE pump[t]
        /\ Running(s) /\ pump'[s] \in {"waiting", "ended"}
        /\ UNCHANGED <<reg, queue, held, evicted, phase, left, hb, subs, known, reader,
                       asked>>
    BY <1>2 DEF PumpSends, ConnTypeOK, Running, brokerVars, runVars, hbVars
  <2>2. QED BY <2>1 DEF ConnInv, ReaderInv, PhaseInv, OwnerInv, AckableAlways,
                        NothingUnowned, Running, ConnTypeOK
<1>3. ASSUME NEW s \in Subs, PumpEnds(s)
      PROVE  ConnInv'
  <2>1. /\ \A t \in Subs : pump'[t] = IF t = s THEN "ended" ELSE pump[t]
        /\ Running(s) /\ s \in evicted /\ subs' = subs \ {s}
        /\ UNCHANGED <<reg, queue, held, evicted, phase, left, hb, known, reader, asked>>
    BY <1>3 DEF PumpEnds, ConnTypeOK, Running, brokerVars, runVars, hbVars
  <2>2. QED BY <2>1 DEF ConnInv, ReaderInv, PhaseInv, OwnerInv, AckableAlways,
                        NothingUnowned, Running, ConnTypeOK
<1>4. CASE Beat
  <2>1. CASE StopReader /\ phase = "up" /\ hb' = "ended"
    BY <1>4, <2>1, StopOwned DEF Beat, connVars
  <2>2. CASE UNCHANGED <<runVars, reader, asked, brokerVars>>
    BY <1>4, <2>2 DEF Beat, runVars, brokerVars, connVars, ConnInv, ReaderInv, PhaseInv,
                      OwnerInv, AckableAlways, NothingUnowned, Running
  <2>3. QED BY <1>4, <2>1, <2>2 DEF Beat
<1>5. CASE BeatSent
  BY <1>5 DEF BeatSent, runVars, brokerVars, connVars, ConnInv, ReaderInv, PhaseInv,
              OwnerInv, AckableAlways, NothingUnowned, Running
<1>6. CASE TeardownStarts
  BY <1>6 DEF TeardownStarts, ToRelease, HeartbeatCancelled, brokerVars, connVars, ConnInv,
              ReaderInv, PhaseInv, OwnerInv, AckableAlways, NothingUnowned, Running
<1>7. CASE TeardownEnds
  <2>1. /\ reg = {} /\ held = {} /\ \A s \in Subs : ~Running(s)
    BY <1>7 DEF TeardownEnds, ConnInv, PhaseInv, OwnerInv
  <2>2. /\ UNCHANGED <<pump, reg, queue, held, evicted, hb, reader, asked>>
        /\ subs' = {} /\ phase = "teardown" /\ phase' = "closed" /\ asked = {}
    BY <1>7 DEF TeardownEnds, brokerVars, hbVars, ConnInv, ReaderInv
  <2>3. QED BY <2>1, <2>2 DEF ConnInv, ReaderInv, PhaseInv, OwnerInv, AckableAlways,
                              NothingUnowned, Running
<1>8. ASSUME NEW s \in Subs, TeardownSub(s)
      PROVE  ConnInv'
  <2>1. /\ reg' = reg \ {s} /\ held' \subseteq held
        /\ \A d \in held' : d[1] \in reg'
    BY <1>8, UnregisterOwned DEF TeardownSub, ConnInv, OwnerInv
  <2>2. /\ \A t \in Subs : pump'[t] = IF t = s THEN "ended" ELSE pump[t]
        /\ phase = "teardown" /\ left' = left \ {s} /\ asked = {}
        /\ UNCHANGED <<phase, queue, evicted, hb, subs, known, reader, asked>>
    BY <1>8 DEF TeardownSub, ConnTypeOK, hbVars, ConnInv, ReaderInv
  <2>3. QED BY <2>1, <2>2 DEF ConnInv, ReaderInv, PhaseInv, OwnerInv, AckableAlways,
                              NothingUnowned, Running, ConnTypeOK
<1>9. QED BY <1>1, <1>2, <1>3, <1>4, <1>5, <1>6, <1>7, <1>8 DEF PumpStep, RunStep

LEMMA ConnStepOwned ==
    ASSUME ConnTypeOK, ConnInv, [Next]_vars
    PROVE  ConnInv'
<1>1. CASE UNCHANGED vars
  BY <1>1 DEF vars, clientVars, runVars, hbVars, brokerVars, connVars, ConnInv, ReaderInv,
              PhaseInv, OwnerInv, AckableAlways, NothingUnowned, Running
<1>2. QED BY <1>1, DispatchOwned, HandlerOwned, OthersOwned, TasksOwned DEF Next, ReaderStep

\* The inductive invariant of the connection.
LEMMA ConnInvHolds == Spec => [](ConnTypeOK /\ ConnInv)
<1>1. Init => ConnTypeOK /\ ConnInv
  BY InitConnType, InitConnInv
<1>2. ConnTypeOK /\ ConnInv /\ [Next]_vars => (ConnTypeOK /\ ConnInv)'
  BY ConnStepType, ConnStepOwned
<1>3. QED BY <1>1, <1>2, PTL DEF Spec

\* Teardown finds every registration: what the broker has registered for the connection
\* is in _subs or is being made (server.py:236-239, 272-277).
THEOREM NothingIsUnowned == Spec => []NothingUnowned
<1>1. ConnInv => NothingUnowned
  BY DEF ConnInv, OwnerInv
<1>2. QED BY <1>1, ConnInvHolds, PTL

\* An unacked delivery can be acked: it is queued, or the connection's table has its id
\* (server.py:243-245, 254-260).
THEOREM AlwaysAckable == Spec => []AckableAlways
<1>1. ConnInv => AckableAlways
  BY DEF ConnInv
<1>2. QED BY <1>1, ConnInvHolds, PTL

\* A closed connection leaves no registration, delivery, pump or heartbeat behind
\* (server.py:294-307).
THEOREM ClosedLeavesNothing == Spec => []ClosedIsClean
<1>1. ConnTypeOK /\ ConnInv => ClosedIsClean
  <2> SUFFICES ASSUME ConnTypeOK, ConnInv, phase = "closed" PROVE ClosedIsClean
    BY DEF ClosedIsClean
  <2>1. reg = {} /\ held = {} /\ hb = "ended" /\ subs = {}
    BY DEF ConnInv, PhaseInv, OwnerInv
  <2>2. \A s \in Subs : pump[s] \in {"none", "ended"}
    BY <2>1 DEF ConnTypeOK, ConnInv, OwnerInv, Running
  <2>3. QED BY <2>1, <2>2 DEF ClosedIsClean
<1>2. QED BY <1>1, ConnInvHolds, PTL
=============================================================================
