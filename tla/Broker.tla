------------------------------- MODULE Broker -------------------------------
(***************************************************************************)
(* The delivery core: pubsub/server/broker.py (Broker, _SubscriptionStream)*)
(* with pubsub/server/retry.py (RetryEngine) and pubsub/server/router.py   *)
(* (Router, Registration).  An action is the code between two suspension   *)
(* points of one asyncio task; every interleaving of tasks is explored.    *)
(*                                                                         *)
(* Message m is the m-th call of publish, so the order on Msgs is the      *)
(* order of Message.created_at.  Topic matching is the constant Selects,   *)
(* storage is the set `stored' of rows a read can see.                     *)
(***************************************************************************)
EXTENDS Integers, FiniteSets, Sequences

CONSTANTS
    Subs,         \* the subscriptions ever made; ids are never reused
    NumMsgs,      \* how many calls of publish are made
    MaxAttempts,  \* RetryPolicy.max_attempts
    QueueBound,   \* DEFAULT_QUEUE_BOUND
    MaxPerSub,    \* max_inflight_per_subscriber ...
    Gated,        \* ... FALSE when it is None
    Selects,      \* Selects[s]: the messages whose topic s's selector matches
    Replays,      \* the subscriptions made with FromUnixTimestamp
    Since,        \* Since[s]: the first message not older than its timestamp
    Replayable,   \* the messages on topics registered replayable
    MaxFaults     \* bound: storage failures and cancelled calls

Msgs == 1..NumMsgs

ASSUME CountsAssumption ==
    /\ NumMsgs \in Nat
    /\ QueueBound \in Nat \ {0}
    /\ MaxPerSub \in Nat \ {0}
    /\ MaxFaults \in Nat
    /\ Gated \in BOOLEAN

\* A budget of at least three: the first overflow of a queue then always owns a
\* backoff, and fanout and replay contain no dead-lettering await.
ASSUME BudgetAssumption == MaxAttempts \in Nat /\ MaxAttempts >= 3

ASSUME SubsAssumption ==
    /\ IsFiniteSet(Subs)
    /\ Selects \in [Subs -> SUBSET Msgs]
    /\ Replays \subseteq Subs
    /\ Since \in [Subs -> Nat]
    /\ Replayable \subseteq Msgs

Delivery == [sub : Subs, msg : Msgs, origin : {"live", "history"},
             attempt : 1..(MaxAttempts - 1)]

First(s, m, o) == [sub |-> s, msg |-> m, origin |-> o, attempt |-> 1]
Again(d) == [d EXCEPT !.attempt = @ + 1]
Lineage(d) == First(d.sub, d.msg, d.origin)

\* Mutant: the budget test forgets the attempt about to be made.
ExhaustedLate(d) == d.attempt >= MaxAttempts

Exhausted(d) == d.attempt + 1 >= MaxAttempts

VARIABLES
    sub,          \* a subscription's registration and replay phase
    history,      \* the rows its read_from returned
    buffer,       \* Registration.buffer: live messages staged while it replays
    queue,        \* Registration.queue
    attached,     \* its stream has a consumer calling __anext__
    held,         \* deliveries a consumer took and has not settled
    abandoned,    \* deliveries popped by an __anext__ that was cancelled
    inflight,     \* Broker._inflight
    backoff,      \* deliveries owned by a RetryEngine._delayed task
    dying,        \* deliveries suspended in RetryEngine._to_dlq
    stuck,        \* deliveries whose _to_dlq raised or was cancelled
    retryPending, \* Broker._retry_pending
    retryTotal,   \* Broker._retry_pending_total
    admit,        \* Broker._admit
    pub,          \* where each call of publish stands
    stored,       \* rows committed by durability.append
    dlq,          \* entries committed by durability.to_dlq
    sent,         \* first deliveries ever made (for the properties)
    acked,        \* deliveries acknowledged (record_ack keeps the latest)
    faults        \* failures injected so far

regVars   == <<sub, history, buffer>>
streamVars == <<queue, attached, held, abandoned>>
retryVars == <<backoff, dying, stuck>>
countVars == <<inflight, retryPending, retryTotal>>
gateVars  == <<admit, pub>>
logVars   == <<stored, dlq, sent, acked>>
vars == <<regVars, streamVars, retryVars, countVars, gateVars, logVars, faults>>

-----------------------------------------------------------------------------
(* Router and admission gate. *)

Registered == {s \in Subs : sub[s] \in {"reading", "read", "live"}}

\* Mutant: a subscription is registered for fanout only after its replay.
MatchingAfterReplay(m) == {s \in Subs : sub[s] = "live" /\ m \in Selects[s]}

\* Router.match and Registration.replaying.
Matching(m) == {s \in Registered : m \in Selects[s]}

\* Mutant: Registration.replaying is never set.
ReplayingNever == {}

Replaying == {s \in Registered : sub[s] # "live"}

Backlog == Cardinality(inflight) + retryTotal

Watermark ==
    MaxPerSub * (IF Registered = {} THEN 1 ELSE Cardinality(Registered))

Open == ~Gated \/ Backlog < Watermark

\* _refresh_admission, after the step's other changes: an Event.set wakes every
\* publisher waiting on it.
RefreshAdmission ==
    IF Open'
    THEN /\ admit' = TRUE
         /\ pub' = [m \in Msgs |-> IF pub[m] = "parked" THEN "woken" ELSE pub[m]]
    ELSE UNCHANGED gateVars

-----------------------------------------------------------------------------
(* Retry accounting. *)

EnterRetry(subs) ==
    /\ retryPending' = [s \in Subs |-> retryPending[s] + IF s \in subs THEN 1 ELSE 0]
    /\ retryTotal' = retryTotal + Cardinality(subs)

\* Mutant: no early return for a share already cleared in bulk.
LeaveRetryUnguarded(s) ==
    /\ retryPending' = [retryPending EXCEPT ![s] = @ - 1]
    /\ retryTotal' = retryTotal - 1

LeaveRetry(s) ==
    IF retryPending[s] = 0
    THEN UNCHANGED <<retryPending, retryTotal>>
    ELSE /\ retryPending' = [retryPending EXCEPT ![s] = @ - 1]
         /\ retryTotal' = retryTotal - 1

\* Mutant: the budget is taken for one attempt less.
ScheduleEager(d, waiting) ==
    IF Exhausted(Again(d))
    THEN dying' = dying \union {d} /\ backoff' = waiting
    ELSE dying' = dying /\ backoff' = waiting \union {d}

\* RetryEngine.schedule: the last attempt goes to the dead letters, any other
\* owns a backoff sleep.
Schedule(d, waiting) ==
    IF Exhausted(d)
    THEN dying' = dying \union {d} /\ backoff' = waiting
    ELSE dying' = dying /\ backoff' = waiting \union {d}

\* _drop_inflight: this subscription's share of the backlog.
DropInflight(s) ==
    /\ inflight' = {d \in inflight : d.sub # s}
    /\ retryPending' = [retryPending EXCEPT ![s] = 0]
    /\ retryTotal' = retryTotal - retryPending[s]

\* Mutant: _drop_inflight does not refresh the gate.
TearDownSilently(s) ==
    /\ sub' = [sub EXCEPT ![s] = "gone"]
    /\ DropInflight(s)
    /\ UNCHANGED gateVars

\* _disconnect and _unsubscribe.
TearDown(s) ==
    /\ sub' = [sub EXCEPT ![s] = "gone"]
    /\ DropInflight(s)
    /\ RefreshAdmission

-----------------------------------------------------------------------------
(* Publishing. *)

Gate(m) ==
    IF Open
    THEN pub' = [pub EXCEPT ![m] = "append"] /\ UNCHANGED admit
    ELSE pub' = [pub EXCEPT ![m] = "parked"] /\ admit' = FALSE

Publish(m) ==
    /\ pub[m] = "idle"
    /\ \A k \in Msgs : k < m => pub[k] # "idle"
    /\ Gate(m)
    /\ UNCHANGED <<regVars, streamVars, retryVars, countVars, logVars, faults>>

\* A woken publisher runs the gate's loop test again.
Resume(m) ==
    /\ pub[m] = "woken"
    /\ Gate(m)
    /\ UNCHANGED <<regVars, streamVars, retryVars, countVars, logVars, faults>>

\* The row commits; the publisher has not yet resumed.  A row whose publisher
\* was cancelled while it waited commits all the same.
Commit(m) ==
    /\ pub[m] \in {"append", "cancelled"}
    /\ pub' = [pub EXCEPT ![m] = IF @ = "append" THEN "stored" ELSE "failed"]
    /\ stored' = stored \union {m}
    /\ UNCHANGED <<regVars, streamVars, retryVars, countVars, admit, dlq, sent,
                   acked, faults>>

\* Fanout never suspends: a replaying subscription stages the message, one with
\* room in its queue gets it, a full one hands it to the retry engine.
Fanout(m) ==
    LET staging == Matching(m) \intersect Replaying
        full == {s \in Matching(m) \ staging : Len(queue[s]) >= QueueBound}
        room == Matching(m) \ (staging \union full)
        new(S) == {First(s, m, "live") : s \in S}
    IN  /\ pub[m] = "stored"
        /\ pub' = [pub EXCEPT ![m] = "done"]
        /\ buffer' = [s \in Subs |-> IF s \in staging THEN Append(buffer[s], m)
                                                      ELSE buffer[s]]
        /\ queue' = [s \in Subs |-> IF s \in room
                                    THEN Append(queue[s], First(s, m, "live"))
                                    ELSE queue[s]]
        /\ inflight' = inflight \union new(room)
        /\ backoff' = backoff \union new(full)
        /\ EnterRetry(full)
        /\ sent' = sent \union new(Matching(m))
        /\ UNCHANGED <<sub, history, attached, held, abandoned, dying, stuck,
                       admit, stored, dlq, acked, faults>>

AppendFails(m) ==
    /\ faults < MaxFaults
    /\ pub[m] = "append"
    /\ pub' = [pub EXCEPT ![m] = "failed"]
    /\ faults' = faults + 1
    /\ UNCHANGED <<regVars, streamVars, retryVars, countVars, admit, logVars>>

\* The task calling publish is cancelled at one of its awaits.
CancelPublish(m) ==
    /\ faults < MaxFaults
    /\ pub[m] \in {"parked", "woken", "append", "stored"}
    /\ pub' = [pub EXCEPT ![m] = IF @ = "append" THEN "cancelled" ELSE "failed"]
    /\ faults' = faults + 1
    /\ UNCHANGED <<regVars, streamVars, retryVars, countVars, admit, logVars>>

-----------------------------------------------------------------------------
(* Subscribing and replay. *)

Subscribe(s) ==
    /\ sub[s] = "new"
    /\ sub' = [sub EXCEPT ![s] = IF s \in Replays THEN "reading" ELSE "live"]
    /\ attached' = [attached EXCEPT ![s] = s \notin Replays]
    /\ UNCHANGED countVars
    /\ RefreshAdmission
    /\ UNCHANGED <<history, buffer, queue, held, abandoned, retryVars, logVars,
                   faults>>

\* The backend takes its snapshot; the subscribing task has not yet resumed.
ReadHistory(s) ==
    /\ sub[s] = "reading"
    /\ sub' = [sub EXCEPT ![s] = "read"]
    /\ history' = [history EXCEPT
           ![s] = {m \in stored \intersect Replayable : m >= Since[s]}]
    /\ UNCHANGED <<buffer, streamVars, retryVars, countVars, gateVars, logVars,
                   faults>>

\* The messages of S, oldest first (a set with that one sequence in it).
Ordered(S) == {q \in [1..Cardinality(S) -> S] :
                  \A i, j \in 1..Cardinality(S) : i < j => q[i] < q[j]}

\* Mutant: the staged live messages are flushed first.
DeliveriesLiveFirst(s, old, new) ==
    [i \in 1..Len(new) |-> First(s, new[i], "live")]
        \o [i \in 1..Len(old) |-> First(s, old[i], "history")]

Deliveries(s, old, new) ==
    [i \in 1..Len(old) |-> First(s, old[i], "history")]
        \o [i \in 1..Len(new) |-> First(s, new[i], "live")]

\* _replay after its await: history, then the staged live messages, each oldest
\* first, in one step.  The first ones fit; once the queue is full it stays so.
ReplayDone(s) ==
    \E old \in Ordered(history[s] \intersect Selects[s]),
       new \in Ordered({buffer[s][i] : i \in DOMAIN buffer[s]}) :
        LET arriving == Deliveries(s, old, new)
            room == QueueBound - Len(queue[s])
            kept == IF Len(arriving) <= room THEN Len(arriving) ELSE room
            over == (kept + 1)..Len(arriving)
        IN  /\ sub[s] = "read"
            /\ sub' = [sub EXCEPT ![s] = "live"]
            /\ attached' = [attached EXCEPT ![s] = TRUE]
            /\ history' = [history EXCEPT ![s] = {}]
            /\ buffer' = [buffer EXCEPT ![s] = << >>]
            /\ queue' = [queue EXCEPT ![s] = @ \o SubSeq(arriving, 1, kept)]
            /\ inflight' = inflight \union {arriving[i] : i \in 1..kept}
            /\ backoff' = backoff \union {arriving[i] : i \in over}
            /\ retryPending' = [retryPending EXCEPT ![s] = @ + Len(arriving) - kept]
            /\ retryTotal' = retryTotal + Len(arriving) - kept
            /\ sent' = sent \union {arriving[i] : i \in DOMAIN arriving}
            /\ UNCHANGED <<held, abandoned, dying, stuck, gateVars, stored, dlq,
                           acked, faults>>

\* read_from raises or subscribe is cancelled: subscribe's except clause
\* unregisters, and leaves the backlog and the gate as they are.
ReplayFails(s) ==
    /\ faults < MaxFaults
    /\ sub[s] \in {"reading", "read"}
    /\ sub' = [sub EXCEPT ![s] = "gone"]
    /\ history' = [history EXCEPT ![s] = {}]
    /\ buffer' = [buffer EXCEPT ![s] = << >>]
    /\ faults' = faults + 1
    /\ UNCHANGED <<streamVars, retryVars, countVars, gateVars, logVars>>

\* Hard unsubscribe, also of a subscription that was evicted meanwhile.  The
\* consumer may go on draining the queue or leave at once.
Unsubscribe(s) ==
    /\ sub[s] \in {"live", "gone"}
    /\ \E stays \in BOOLEAN :
           attached' = [attached EXCEPT ![s] = @ /\ stays]
    /\ TearDown(s)
    /\ UNCHANGED <<history, buffer, queue, held, abandoned, retryVars, logVars,
                   faults>>

-----------------------------------------------------------------------------
(* Consuming. *)

Get(s) ==
    /\ attached[s]
    /\ queue[s] # << >>
    /\ held' = held \union {Head(queue[s])}
    /\ queue' = [queue EXCEPT ![s] = Tail(@)]
    /\ UNCHANGED <<regVars, attached, abandoned, retryVars, countVars, gateVars,
                   logVars, faults>>

\* __anext__ is cancelled after its helper task took the delivery.
CancelledGet(s) ==
    /\ faults < MaxFaults
    /\ attached[s]
    /\ queue[s] # << >>
    /\ abandoned' = abandoned \union {Head(queue[s])}
    /\ queue' = [queue EXCEPT ![s] = Tail(@)]
    /\ faults' = faults + 1
    /\ UNCHANGED <<regVars, attached, held, retryVars, countVars, gateVars,
                   logVars>>

\* A closed stream ends once it has drained.
StreamEnds(s) ==
    /\ attached[s]
    /\ sub[s] = "gone"
    /\ queue[s] = << >>
    /\ attached' = [attached EXCEPT ![s] = FALSE]
    /\ UNCHANGED <<regVars, queue, held, abandoned, retryVars, countVars,
                   gateVars, logVars, faults>>

\* Mutant: the transport leaves a delivery in its table after the ack.
AckKeepsHeld(d) ==
    /\ d \in held
    /\ inflight' = inflight \ {d}
    /\ UNCHANGED <<sub, retryPending, retryTotal>>
    /\ RefreshAdmission
    /\ acked' = acked \union {Lineage(d)}
    /\ UNCHANGED <<history, buffer, streamVars, retryVars, stored, dlq, sent,
                   faults>>

Ack(d) ==
    /\ d \in held
    /\ held' = held \ {d}
    /\ inflight' = inflight \ {d}
    /\ UNCHANGED <<sub, retryPending, retryTotal>>
    /\ RefreshAdmission
    /\ acked' = acked \union {Lineage(d)}
    /\ UNCHANGED <<history, buffer, queue, attached, abandoned, retryVars,
                   stored, dlq, sent, faults>>

\* Mutant: a nacked delivery is not counted as retry backlog.
NackUncounted(d) ==
    /\ d.sub \in Registered
    /\ Schedule(d, backoff)
    /\ UNCHANGED <<sub, gateVars, retryPending, retryTotal>>

NackRegistered(d) ==
    /\ d.sub \in Registered
    /\ EnterRetry({d.sub})
    /\ Schedule(d, backoff)
    /\ UNCHANGED <<sub, gateVars>>

NackGone(d) ==
    /\ d.sub \notin Registered
    /\ UNCHANGED <<sub, retryPending, retryTotal, backoff, dying>>
    /\ RefreshAdmission

\* A delivery is settled once: the transport pops it from its table first.
Nack(d) ==
    /\ d \in held
    /\ held' = held \ {d}
    /\ inflight' = inflight \ {d}
    /\ NackRegistered(d) \/ NackGone(d)
    /\ UNCHANGED <<history, buffer, queue, attached, abandoned, stuck, logVars,
                   faults>>

-----------------------------------------------------------------------------
(* The retry engine. *)

\* Mutant: a redelivery is not recorded in flight.
RedeliverUnrecorded(d) ==
    /\ Len(queue[d.sub]) < QueueBound
    /\ queue' = [queue EXCEPT ![d.sub] = Append(@, Again(d))]
    /\ LeaveRetry(d.sub)
    /\ backoff' = backoff \ {d}
    /\ UNCHANGED <<inflight, dying>>

\* Mutant: a redelivery stays counted as retry backlog.
RedeliverKeepsCount(d) ==
    /\ Len(queue[d.sub]) < QueueBound
    /\ queue' = [queue EXCEPT ![d.sub] = Append(@, Again(d))]
    /\ inflight' = inflight \union {Again(d)}
    /\ backoff' = backoff \ {d}
    /\ UNCHANGED <<dying, retryPending, retryTotal>>

\* A backoff ends.  The task holds the queue object, so the delivery is put
\* there, and recorded in flight, whether or not its subscription still exists.
Redeliver(d) ==
    /\ Len(queue[d.sub]) < QueueBound
    /\ queue' = [queue EXCEPT ![d.sub] = Append(@, Again(d))]
    /\ LeaveRetry(d.sub)
    /\ inflight' = inflight \union {Again(d)}
    /\ backoff' = backoff \ {d}
    /\ UNCHANGED dying

\* Mutant: a redelivery that finds the queue full is given up.
BounceDrops(d) ==
    /\ Len(queue[d.sub]) >= QueueBound
    /\ backoff' = backoff \ {d}
    /\ UNCHANGED <<queue, countVars, dying>>

\* Its queue is still full: the attempt is spent, the count stays.
Bounce(d) ==
    /\ Len(queue[d.sub]) >= QueueBound
    /\ Schedule(Again(d), backoff \ {d})
    /\ UNCHANGED <<queue, countVars>>

BackoffFires(d) ==
    /\ d \in backoff
    /\ Redeliver(d) \/ Bounce(d)
    /\ UNCHANGED <<regVars, attached, held, abandoned, stuck, gateVars, logVars,
                   faults>>

\* to_dlq returns; on_exhausted evicts the subscription, whose stream drains.
DlqStored(d) ==
    /\ d \in dying
    /\ dying' = dying \ {d}
    /\ dlq' = dlq \union {Lineage(d)}
    /\ TearDown(d.sub)
    /\ UNCHANGED <<history, buffer, streamVars, backoff, stuck, stored, sent,
                   acked, faults>>

\* to_dlq raises, or its task is cancelled: nothing after it runs.
DlqFails(d) ==
    /\ faults < MaxFaults
    /\ d \in dying
    /\ dying' = dying \ {d}
    /\ stuck' = stuck \union {d}
    /\ faults' = faults + 1
    /\ UNCHANGED <<regVars, streamVars, backoff, countVars, gateVars, logVars>>

-----------------------------------------------------------------------------
Init ==
    /\ sub = [s \in Subs |-> "new"]
    /\ history = [s \in Subs |-> {}]
    /\ buffer = [s \in Subs |-> << >>]
    /\ queue = [s \in Subs |-> << >>]
    /\ attached = [s \in Subs |-> FALSE]
    /\ held = {} /\ abandoned = {} /\ inflight = {}
    /\ backoff = {} /\ dying = {} /\ stuck = {}
    /\ retryPending = [s \in Subs |-> 0]
    /\ retryTotal = 0
    /\ admit = TRUE
    /\ pub = [m \in Msgs |-> "idle"]
    /\ stored = {} /\ dlq = {} /\ sent = {} /\ acked = {}
    /\ faults = 0

PublisherStep(m) ==
    \/ Publish(m) \/ Resume(m) \/ Commit(m) \/ Fanout(m)
    \/ AppendFails(m) \/ CancelPublish(m)

SubscriberStep(s) ==
    \/ Subscribe(s) \/ ReadHistory(s) \/ ReplayDone(s) \/ ReplayFails(s)
    \/ Unsubscribe(s) \/ Get(s) \/ CancelledGet(s) \/ StreamEnds(s)

DeliveryStep(d) ==
    \/ Ack(d) \/ Nack(d) \/ BackoffFires(d) \/ DlqStored(d) \/ DlqFails(d)

Next ==
    \/ \E m \in Msgs : PublisherStep(m)
    \/ \E s \in Subs : SubscriberStep(s)
    \/ \E d \in Delivery : DeliveryStep(d)

Spec == Init /\ [][Next]_vars

\* The event loop runs every ready task and the backend answers every call.
ServerFairness ==
    /\ \A m \in Msgs : WF_vars(Resume(m)) /\ WF_vars(Commit(m)) /\ WF_vars(Fanout(m))
    /\ \A s \in Subs : WF_vars(ReadHistory(s)) /\ WF_vars(ReplayDone(s))
    /\ \A d \in Delivery : WF_vars(BackoffFires(d)) /\ WF_vars(DlqStored(d))

\* Every attached consumer keeps reading and settles what it took.
ConsumerFairness ==
    /\ \A s \in Subs : WF_vars(Get(s))
    /\ \A d \in Delivery : WF_vars(Ack(d) \/ Nack(d))

FairSpec == Spec /\ ServerFairness /\ ConsumerFairness

-----------------------------------------------------------------------------
(* Properties. *)

RegPhase == {"new", "reading", "read", "live", "gone"}
PubPhase == {"idle", "parked", "woken", "append", "stored", "done", "cancelled",
             "failed"}

\* Every variable holds a value of its kind; in particular no queue exceeds its
\* bound and no attempt that is queued, held or waiting exceeds the budget.
TypeOK ==
    /\ sub \in [Subs -> RegPhase]
    /\ history \in [Subs -> SUBSET Msgs]
    /\ buffer \in [Subs -> Seq(Msgs)]
    /\ queue \in [Subs -> Seq(Delivery)]
    /\ \A s \in Subs : Len(queue[s]) <= QueueBound
    /\ attached \in [Subs -> BOOLEAN]
    /\ held \in SUBSET Delivery /\ abandoned \in SUBSET Delivery
    /\ inflight \in SUBSET Delivery
    /\ backoff \in SUBSET {d \in Delivery : ~Exhausted(d)}
    /\ dying \in SUBSET Delivery
    /\ stuck \in SUBSET Delivery
    /\ retryPending \in [Subs -> Int] /\ retryTotal \in Int
    /\ admit \in BOOLEAN
    /\ pub \in [Msgs -> PubPhase]
    /\ stored \in SUBSET Msgs
    /\ dlq \in SUBSET Delivery /\ sent \in SUBSET Delivery
    /\ acked \in SUBSET Delivery
    /\ faults \in 0..MaxFaults

\* No lost wakeup: while a publisher is parked in _gate, or the admission event
\* is clear, the backlog really is at the watermark (broker.py:247-280).  Every
\* step that lowers the backlog or raises the watermark must refresh the gate.
NoLostWakeup ==
    /\ \A m \in Msgs : pub[m] = "parked" => ~admit
    /\ ~admit => ~Open

\* The two counters agree with the deliveries they count: a registered
\* subscription's share is what it has in backoff or on the way to the dead
\* letters, a torn-down one has none, and the total is the sum
\* (broker.py:282-321: _enter_retry, _leave_retry, _drop_inflight).
Retrying == backoff \union dying \union stuck

RetryCountExact ==
    /\ \A s \in Subs : retryPending[s] =
           IF s \in Registered THEN Cardinality({d \in Retrying : d.sub = s}) ELSE 0
    /\ retryTotal = Cardinality({d \in Retrying : d.sub \in Registered})

\* For a registered subscription _inflight is exactly what it was handed and has
\* not settled: queued, held, or lost by a cancelled read (broker.py:215-237,
\* 301-308, 332-354).
Outstanding(s) ==
    {queue[s][i] : i \in DOMAIN queue[s]}
        \union {d \in held \union abandoned : d.sub = s}

InflightExact ==
    \A s \in Registered : {d \in inflight : d.sub = s} = Outstanding(s)

\* Where a delivery, in whatever attempt, can be found.
Places(l) ==
    {<<"queue", i>> : i \in {i \in DOMAIN queue[l.sub] : Lineage(queue[l.sub][i]) = l}}
    \union {<<"buffer", i>> : i \in {i \in DOMAIN buffer[l.sub] :
                                        First(l.sub, buffer[l.sub][i], "live") = l}}
    \union {<<"held", d>> : d \in {d \in held : Lineage(d) = l}}
    \union {<<"abandoned", d>> : d \in {d \in abandoned : Lineage(d) = l}}
    \union {<<"backoff", d>> : d \in {d \in backoff : Lineage(d) = l}}
    \union {<<"dying", d>> : d \in {d \in dying : Lineage(d) = l}}
    \union {<<"stuck", d>> : d \in {d \in stuck : Lineage(d) = l}}
    \union {<<"acked", d>> : d \in {d \in acked : Lineage(d) = l}}
    \union {<<"dlq", d>> : d \in {d \in dlq : Lineage(d) = l}}

\* A delivery is never in two places: it is not retried while a consumer still
\* has it, not redelivered after its ack, not acked and dead-lettered
\* (broker.py:332-354, retry.py:117-144).
NeverTwice == \A l \in sent : \A p, q \in Places(l) : p = q

\* A delivery to a subscription that still exists is never dropped: every one
\* ever made is staged, queued, held, waiting, acked or dead-lettered.
NeverDropped == \A l \in sent : l.sub \in Registered => Places(l) # {}

Queued == UNION {{queue[s][i] : i \in DOMAIN queue[s]} : s \in Subs}

Staged == UNION {{First(s, buffer[s][i], "live") : i \in DOMAIN buffer[s]} : s \in Subs}

\* What becomes of a delivery (broker.py:196-245, 332-354, retry.py:88-144): it goes
\* through its attempts until it is acked or, with its budget spent, dead-lettered
\* with the eviction of its subscription; nothing else ends it while the
\* subscription exists, and what has ended does not come back.
Phase == [s \in Subs |-> IF sub[s] = "new" THEN "new"
                         ELSE IF s \in Registered THEN "open" ELSE "closed"]

Owed == Queued \union Staged \union held \union backoff \union dying

Care == INSTANCE Custody WITH
            phase <- Phase, made <- sent, owed <- Owed,
            stranded <- abandoned \union stuck, dead <- dlq

ImplementsCustody == Care!Spec

\* Once its replay is over, a subscription has been sent every replayable
\* message from its timestamp on whose publish was accepted, live or as history
\* (broker.py:161-184): none falls between the snapshot and the live flow.
NoReplayGap ==
    \A s \in Replays, m \in Msgs :
        /\ sub[s] = "live"
        /\ pub[m] = "done"
        /\ m \in Selects[s] \intersect Replayable /\ m >= Since[s]
        => \E l \in sent : l.sub = s /\ l.msg = m

\* What subscribe's except clause relies on when it unregisters without dropping
\* the backlog share (broker.py:150-157): a replaying subscription has none.
ReplayingHasNoBacklog ==
    \A s \in Subs : sub[s] \in {"reading", "read"} =>
        {d \in inflight \union Retrying : d.sub = s} = {}

\* First attempts are queued history before live, history oldest first
\* (broker.py:161-184, "the replay->live handoff stays age-ordered").
HistoryFirst ==
    \A s \in Subs : \A i, j \in DOMAIN queue[s] :
        LET d == queue[s][i]
            e == queue[s][j]
        IN  i < j /\ d.attempt = 1 /\ e.attempt = 1 /\ e.origin = "history"
            => d.origin = "history" /\ d.msg < e.msg

\* Retrying keeps the books: as long as a subscription exists, only an ack
\* lowers its share of the backlog; a nack, a bounce off a full queue and a
\* redelivery do not (broker.py:301-305, 346-351, "net backlog unchanged").
Share(s) == Cardinality({d \in inflight : d.sub = s}) + retryPending[s]

OnlyAcksLowerShare ==
    [][\A s \in Registered \intersect Registered' :
           Share(s)' < Share(s) => \E d \in acked' \ acked : d.sub = s]_vars

Waiting(m) == pub[m] \in {"parked", "woken"}

Unsettleable ==
    \/ abandoned # {} \/ stuck # {}
    \/ \E d \in inflight : d.sub \notin Registered

\* While a publisher is held there is something that will be settled or retried
\* for a subscription that exists, but for the same exceptions: the gate is never
\* shut by a backlog that nothing can lower.
HeldForSomething ==
    \A m \in Msgs : Waiting(m) /\ ~Open /\ ~Unsettleable =>
        \E d \in Queued \union held \union backoff \union dying : d.sub \in Registered

\* A publisher held at the gate is admitted in the end if every consumer keeps
\* settling what it takes, unless a fault or a late retry has left backlog that
\* nobody is there to settle (broker.py:247-258).
PublisherAdmitted ==
    \A m \in Msgs : Waiting(m) ~> (~Waiting(m) \/ []Unsettleable)

\* Every delivery made is settled in the end: acked, dead-lettered, or given up
\* with its subscription (broker.py:196-245, retry.py:88-144).  The exceptions are
\* the one a cancelled __anext__ took and the one to_dlq failed for.
DeliverySettled ==
    \A s \in Subs, m \in Msgs, o \in {"live", "history"} :
        First(s, m, o) \in sent ~>
            \/ First(s, m, o) \in acked \union dlq
            \/ s \notin Registered
            \/ \E d \in abandoned \union stuck : Lineage(d) = First(s, m, o)

\* broker.py:250-252 says "the gate always eventually reopens (dead subscribers
\* are evicted, releasing their backlog)".
GateReopens == \A m \in Msgs : Waiting(m) ~> ~Waiting(m)
=============================================================================
