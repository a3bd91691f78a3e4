----------------------------- MODULE Connection -----------------------------
(***************************************************************************)
(* One client connection of the TCP server, pubsub/transport/server.py     *)
(* (_Connection), with what it uses of the broker: the subscriptions it    *)
(* makes, their deliveries and the admission gate (see Broker).  Its tasks *)
(* are the reader loop, one pump per subscription and the heartbeat.       *)
(*                                                                         *)
(* The frames a client sends are arbitrary but legal.  A register request  *)
(* is left out: it awaits storage and replies, like a publish in an open   *)
(* gate.  So is a frame too large to send.                                 *)
(***************************************************************************)
EXTENDS Integers, Sequences, FiniteSets, SequencesExt

CONSTANTS
    Subs,          \* subscriptions the client may make; ids are never reused
    Limit,         \* max_inflight_per_subscriber
    Timeout,       \* heartbeat_timeout in heartbeats
    MaxFrames,     \* bound: frames the client sends
    MaxDeliveries  \* bound: deliveries made for a subscription

ASSUME ConnectionAssumption ==
    /\ IsFiniteSet(Subs)
    /\ Limit \in Nat \ {0} /\ Timeout \in Nat \ {0}
    /\ MaxFrames \in Nat /\ MaxDeliveries \in Nat

\* The n-th delivery to s has the id <<s, n>>; a retry has an id of its own.
Ids == Subs \X (1..MaxDeliveries)

VARIABLES
    phase,   \* run(): "hello", "up", "ending", "teardown", "closed"
    link,    \* the socket: "up" or "lost"
    inbox,   \* frames that arrived and are not read
    frames,  \* frames sent so far
    reader,  \* the reader loop: "read", or what its handler awaits, or "stopped"
    asked,   \* the subscription being made, in a set
    subs,    \* _subs
    pump,    \* pump[s]: "none", "waiting" for a delivery, "sending", "ended"
    known,   \* _inflight, the connection's own table
    left,    \* subscriptions teardown has still to release
    hb,      \* the heartbeat loop: "asleep", "sending", "ended"
    beats,   \* heartbeats since a frame was last read
    reg,     \* broker: subscriptions registered
    queue,   \* broker: queue[s], ids of the deliveries to be taken
    held,    \* broker: ids of the deliveries queued or unacked
    made,    \* broker: made[s], deliveries made so far
    evicted, \* broker: subscriptions it has closed
    got      \* ids of the deliveries written to the client

clientVars == <<link, inbox, frames, got>>
runVars    == <<phase, left>>
hbVars     == <<hb, beats>>
brokerVars == <<reg, queue, held, made, evicted>>
connVars   == <<subs, pump, known>>
vars == <<clientVars, runVars, hbVars, brokerVars, connVars, reader, asked>>

-----------------------------------------------------------------------------
(* The broker. *)

Of(s) == {d \in Ids : d[1] = s}

GateShut ==
    Cardinality(held) >= Limit * (IF reg = {} THEN 1 ELSE Cardinality(reg))

\* Every subscription of S gets one more delivery.
Deliver(S) ==
    /\ \A s \in S : made[s] < MaxDeliveries
    /\ made' = [s \in Subs |-> IF s \in S THEN made[s] + 1 ELSE made[s]]
    /\ queue' = [s \in Subs |-> IF s \in S THEN Append(queue[s], <<s, made'[s]>>)
                                           ELSE queue[s]]

Fanout == reg \ asked

\* Mutant: the registration stays behind.
KeepRegistered(s) == UNCHANGED <<reg, held>>

\* Broker._unsubscribe, and what subscribe undoes when it is cancelled.
Unregister(s) ==
    /\ reg' = reg \ {s}
    /\ held' = held \ Of(s)

\* Another connection publishes.
OtherPublish ==
    /\ Fanout # {} /\ ~GateShut
    /\ Deliver(Fanout)
    /\ held' = held \union {<<s, made'[s]>> : s \in Fanout}
    /\ UNCHANGED <<reg, evicted, clientVars, runVars, hbVars, connVars, reader, asked>>

\* The retry budget of a slow subscriber is spent: Broker._disconnect.
Evict(s) ==
    /\ s \in Fanout
    /\ Unregister(s)
    /\ evicted' = evicted \union {s}
    /\ UNCHANGED <<queue, made, clientVars, runVars, hbVars, connVars, reader, asked>>

-----------------------------------------------------------------------------
(* The client and the network. *)

Requests ==
    [op : {"subscribe", "publish", "heartbeat", "bad"}, about : {"nothing"}]
        \union [op : {"unsubscribe"}, about : {s \in Subs : pump[s] # "none"}]
        \union [op : {"ack", "nack"}, about : got]

ClientSends ==
    /\ link = "up" /\ phase = "up" /\ frames < MaxFrames
    /\ frames' = frames + 1
    /\ \E f \in Requests : inbox' = Append(inbox, f)
    /\ UNCHANGED <<link, got, runVars, hbVars, brokerVars, connVars, reader, asked>>

LinkLost ==
    /\ link = "up"
    /\ link' = "lost"
    /\ UNCHANGED <<inbox, frames, got, runVars, hbVars, brokerVars, connVars,
                   reader, asked>>

-----------------------------------------------------------------------------
(* The reader loop. *)

\* The reader task ends, by itself or cancelled, and run() goes on to teardown.  A
\* subscribe that awaits its history undoes its registration.
StopReader ==
    /\ reader' = "stopped"
    /\ phase' = "ending"
    /\ asked' = {}
    /\ IF asked = {} THEN UNCHANGED <<reg, held>>
       ELSE \E s \in asked : Unregister(s)
    /\ UNCHANGED <<queue, made, evicted, left>>

Goes(place) == reader' = place /\ UNCHANGED <<runVars, asked>>

\* _on_subscribe: the broker registers a subscription with a new id; a bad selector
\* is answered with an error.
OnSubscribe ==
    /\ \/ \E s \in {t \in Subs : pump[t] = "none"} :
          /\ reg' = reg \union {s}
          /\ asked' = {s}
          /\ reader' = "replay"
       \/ reader' = "reply" /\ UNCHANGED <<reg, asked>>
    /\ UNCHANGED <<runVars, queue, held, made, evicted, connVars>>

\* _on_ack: by the connection's table, for a subscription it still has.
OnAck(d) ==
    /\ known' = known \ {d}
    /\ IF d \in known /\ d[1] \in subs
       THEN held' = held \ {d} /\ Goes("store")
       ELSE Goes("read") /\ UNCHANGED held
    /\ UNCHANGED <<reg, queue, made, evicted, subs, pump>>

\* _on_nack: the broker makes a delivery anew, after a backoff.
OnNack(d) ==
    /\ known' = known \ {d}
    /\ IF d \in known /\ d[1] \in subs \intersect reg /\ made[d[1]] < MaxDeliveries
       THEN Deliver({d[1]}) /\ held' = (held \ {d}) \union {<<d[1], made'[d[1]]>>}
       ELSE held' = held \ (IF d[1] \in subs THEN {d} ELSE {}) /\ UNCHANGED <<queue, made>>
    /\ Goes("read")
    /\ UNCHANGED <<reg, evicted, subs, pump>>

OnUnsubscribe(s) ==
    /\ IF s \in subs
       THEN /\ subs' = subs \ {s}
            /\ pump' = [pump EXCEPT ![s] = "ended"]
            /\ Unregister(s)
       ELSE UNCHANGED <<subs, pump, reg, held>>
    /\ Goes("read")
    /\ UNCHANGED <<known, queue, made, evicted>>

Dispatch(f) ==
    \/ f.op = "subscribe" /\ OnSubscribe
    \/ f.op = "unsubscribe" /\ OnUnsubscribe(f.about)
    \/ f.op = "ack" /\ OnAck(f.about)
    \/ f.op = "nack" /\ OnNack(f.about)
    \/ f.op = "publish" /\ Goes("gate") /\ UNCHANGED <<brokerVars, connVars>>
    \/ f.op = "heartbeat" /\ Goes("read") /\ UNCHANGED <<brokerVars, connVars>>
    \/ f.op = "bad" /\ StopReader /\ UNCHANGED connVars

ReadFrame ==
    /\ phase = "up" /\ reader = "read" /\ inbox # <<>>
    /\ inbox' = Tail(inbox)
    /\ beats' = 0
    /\ Dispatch(Head(inbox))
    /\ UNCHANGED <<link, frames, got, hb>>

\* broker.publish: through the gate, then stored and fanned out.
GatePasses ==
    /\ reader = "gate" /\ ~GateShut
    /\ Deliver(Fanout)
    /\ held' = held \union {<<s, made'[s]>> : s \in Fanout}
    /\ Goes("reply")
    /\ UNCHANGED <<reg, evicted, clientVars, hbVars, connVars>>

\* broker.subscribe returns, with history queued or not; or it raises, having
\* undone the registration.  The pump task is created.
ReplayEnds(s) ==
    /\ reader = "replay" /\ s \in asked
    /\ asked' = {} /\ reader' = "reply"
    /\ \/ /\ subs' = subs \union {s}
          /\ pump' = [pump EXCEPT ![s] = "waiting"]
          /\ \/ /\ Deliver({s})
                /\ held' = held \union {<<s, made'[s]>>}
             \/ UNCHANGED <<queue, made, held>>
          /\ UNCHANGED reg
       \/ Unregister(s) /\ UNCHANGED <<subs, pump, queue, made>>
    /\ UNCHANGED <<evicted, known, clientVars, runVars, hbVars>>

\* An ack is recorded, a reply is sent.
HandlerEnds ==
    /\ reader \in {"store", "reply"}
    /\ Goes("read")
    /\ UNCHANGED <<brokerVars, clientVars, hbVars, connVars>>

\* The storage fails under a publish or an ack, a reply finds the peer gone, or the
\* reader finds the end of the stream: the reader loop ends.
ReaderEnds ==
    /\ \/ reader \in {"gate", "store"} /\ ~(reader = "gate" /\ GateShut)
       \/ reader \in {"read", "reply"} /\ link = "lost"
    /\ phase = "up"
    /\ StopReader
    /\ UNCHANGED <<clientVars, hbVars, connVars>>

\* abort(), when the server closes.
Abort ==
    /\ phase = "up"
    /\ StopReader
    /\ UNCHANGED <<clientVars, hbVars, connVars>>

-----------------------------------------------------------------------------
(* The pumps and the heartbeat. *)

\* Mutant: a delivery taken is not entered in the table.
NotEntered(d) == known

\* The table has the delivery before it is sent.
Entered(d) == known \union {d}

PumpTakes(s) ==
    /\ pump[s] = "waiting" /\ queue[s] # <<>>
    /\ queue' = [queue EXCEPT ![s] = Tail(@)]
    /\ pump' = [pump EXCEPT ![s] = "sending"]
    /\ known' = Entered(Head(queue[s]))
    /\ got' = got \union {Head(queue[s])}
    /\ UNCHANGED <<reg, held, made, evicted, link, inbox, frames, runVars, hbVars,
                   subs, reader, asked>>

\* The frame is sent; or the peer is gone and the pump returns.
PumpSends(s) ==
    /\ pump[s] = "sending"
    /\ \/ pump' = [pump EXCEPT ![s] = "waiting"]
       \/ link = "lost" /\ pump' = [pump EXCEPT ![s] = "ended"]
    /\ UNCHANGED <<brokerVars, clientVars, runVars, hbVars, subs, known, reader, asked>>

\* The stream of an evicted subscription ends once its queue is empty.
PumpEnds(s) ==
    /\ pump[s] = "waiting" /\ queue[s] = <<>> /\ s \in evicted
    /\ pump' = [pump EXCEPT ![s] = "ended"]
    /\ subs' = subs \ {s}
    /\ UNCHANGED <<brokerVars, clientVars, runVars, hbVars, known, reader, asked>>

\* Mutant: one interval too many.
SilentLate == beats > Timeout

Silent == beats >= Timeout

\* The interval is over: a silent client is dropped, another one gets a heartbeat.
Beat ==
    /\ hb = "asleep"
    /\ \/ /\ Silent
          /\ hb' = "ended"
          /\ IF phase = "up" THEN StopReader
             ELSE UNCHANGED <<runVars, reader, asked, brokerVars>>
          /\ UNCHANGED beats
       \/ /\ ~Silent
          /\ beats' = beats + 1
          /\ hb' = "sending"
          /\ UNCHANGED <<runVars, reader, asked, brokerVars>>
    /\ UNCHANGED <<clientVars, connVars>>

\* The heartbeat is sent; or the peer is gone and the loop returns.
BeatSent ==
    /\ hb = "sending"
    /\ hb' = "asleep" \/ (link = "lost" /\ hb' = "ended")
    /\ UNCHANGED <<beats, clientVars, runVars, brokerVars, connVars, reader, asked>>

-----------------------------------------------------------------------------
(* run() *)

Handshake ==
    /\ phase = "hello"
    /\ \/ phase' = "up" /\ reader' = "read" /\ hb' = "asleep" /\ UNCHANGED link
       \/ phase' = "closed" /\ link' = "lost" /\ UNCHANGED <<reader, hb>>
    /\ UNCHANGED <<left, beats, inbox, frames, got, brokerVars, connVars, asked>>

\* Mutant: teardown leaves the heartbeat alone.
HeartbeatKept == UNCHANGED hb

HeartbeatCancelled == hb' = "ended"

\* Mutant: only the subscriptions whose pump still runs.
RunningOnly == {s \in subs : pump[s] # "ended"}

ToRelease == subs

TeardownStarts ==
    /\ phase = "ending"
    /\ phase' = "teardown"
    /\ left' = ToRelease
    /\ HeartbeatCancelled
    /\ UNCHANGED <<beats, clientVars, brokerVars, connVars, reader, asked>>

\* A pump is cancelled and awaited, then its stream unsubscribed.
TeardownSub(s) ==
    /\ phase = "teardown" /\ s \in left
    /\ left' = left \ {s}
    /\ pump' = [pump EXCEPT ![s] = "ended"]
    /\ Unregister(s)
    /\ UNCHANGED <<phase, queue, made, evicted, clientVars, hbVars, subs, known,
                   reader, asked>>

TeardownEnds ==
    /\ phase = "teardown" /\ left = {}
    /\ phase' = "closed"
    /\ subs' = {} /\ known' = {}
    /\ link' = "lost"
    /\ UNCHANGED <<left, pump, inbox, frames, got, brokerVars, hbVars, reader, asked>>

-----------------------------------------------------------------------------

Init ==
    /\ phase = "hello" /\ link = "up" /\ inbox = <<>> /\ frames = 0
    /\ reader = "stopped" /\ asked = {}
    /\ subs = {} /\ known = {} /\ left = {} /\ got = {}
    /\ pump = [s \in Subs |-> "none"]
    /\ hb = "ended" /\ beats = 0
    /\ reg = {} /\ held = {} /\ evicted = {}
    /\ queue = [s \in Subs |-> <<>>]
    /\ made = [s \in Subs |-> 0]

ReaderStep ==
    \/ ReadFrame \/ GatePasses \/ HandlerEnds \/ ReaderEnds
    \/ \E s \in Subs : ReplayEnds(s)

PumpStep(s) == PumpTakes(s) \/ PumpSends(s) \/ PumpEnds(s)

RunStep == TeardownStarts \/ TeardownEnds \/ \E s \in Subs : TeardownSub(s)

Next ==
    \/ Handshake \/ ClientSends \/ LinkLost \/ Abort
    \/ OtherPublish \/ (\E s \in Subs : Evict(s))
    \/ ReaderStep \/ (\E s \in Subs : PumpStep(s)) \/ Beat \/ BeatSent \/ RunStep

Spec == Init /\ [][Next]_vars

\* Every task of the connection runs on, and timers fire.
FairSpec ==
    /\ Spec
    /\ WF_vars(ReaderStep) /\ WF_vars(RunStep)
    /\ WF_vars(Beat \/ BeatSent)
    /\ \A s \in Subs : WF_vars(PumpStep(s))

-----------------------------------------------------------------------------
(* Properties. *)

\* Every variable holds a value of its kind.
ConnTypeOK ==
    /\ phase \in {"hello", "up", "ending", "teardown", "closed"}
    /\ link \in {"up", "lost"} /\ frames \in 0..MaxFrames
    /\ reader \in {"read", "gate", "replay", "store", "reply", "stopped"}
    /\ asked \subseteq Subs /\ subs \subseteq Subs /\ left \subseteq Subs
    /\ pump \in [Subs -> {"none", "waiting", "sending", "ended"}]
    /\ known \subseteq Ids /\ got \subseteq Ids /\ held \subseteq Ids
    /\ hb \in {"asleep", "sending", "ended"} /\ beats \in 0..Timeout
    /\ reg \subseteq Subs /\ evicted \subseteq Subs
    /\ queue \in [Subs -> Seq(Ids)] /\ made \in [Subs -> 0..MaxDeliveries]

\* Whatever the broker has registered for this connection is in _subs, where
\* teardown finds it, or is still being made (server.py:236-239, 272-277).
NothingUnowned == reg \subseteq subs \union asked

\* An unacked delivery of a live subscription can always be acked: it is queued for
\* the pump, or its id is in the table before the client can know it
\* (server.py:243-245, 254-260).
AckableAlways ==
    \A d \in held : d \in known \/ d \in ToSet(queue[d[1]])

\* A closed connection leaves nothing behind: no registration, no unacked delivery,
\* no pump and no heartbeat (server.py:294-307).
ClosedIsClean ==
    phase = "closed" =>
        /\ reg = {} /\ held = {} /\ hb = "ended"
        /\ \A s \in Subs : pump[s] \in {"none", "ended"}

\* When the peer is gone its subscriptions are released, unless the reader awaits
\* the admission gate in a publish of that peer (server.py:164-166, 176-185).
ReleasedUnlessGated ==
    link = "lost" ~> (reg = {} \/ reader = "gate")

\* server.py:12 says "A dropped connection's subscriptions are torn down".
DroppedTornDown == link = "lost" ~> reg = {}
=============================================================================
