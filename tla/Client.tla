------------------------------- MODULE Client -------------------------------
(***************************************************************************)
(* The TCP client of pubsub/transport/client.py: requests whose futures    *)
(* one read loop resolves, subscription handles that outlive a connection, *)
(* and the task that reconnects and subscribes them anew.                  *)
(*                                                                         *)
(* Connections are numbered.  A request is named <<caller, connection>>,   *)
(* and the subscription the server makes for it has the same name: no two  *)
(* requests share a rid, no two subscriptions an id.  The server is what   *)
(* Connection shows a client of it.  The event loop runs what is ready in  *)
(* order: an answered call resumes before the read loop can see the end of *)
(* its connection, and before a timer that has still to fire.              *)
(***************************************************************************)
EXTENDS Integers, Sequences, FiniteSets, SequencesExt

CONSTANTS
    Handles,      \* subscription handles, one per subscribe call
    Publisher,    \* the caller of publish and register_topic
    MaxReconnect, \* max_reconnect_attempts
    MaxEvents,    \* bound: subscribe calls, lost connections and error replies
    MaxWire       \* bound: frames under way when a subscription delivers

ASSUME ClientAssumption ==
    /\ IsFiniteSet(Handles) /\ Publisher \notin Handles
    /\ MaxReconnect \in Nat \ {0} /\ MaxEvents \in Nat /\ MaxWire \in Nat \ {0}

\* Each connection but the first follows a loss or an error reply.
Conns == 1..(MaxEvents + 1)
Sids == Handles \X Conns
Requests == Sids \union ({Publisher} \X Conns)
Frames == [kind : {"ok", "error"}, of : Requests]
              \union [kind : {"delivery", "closed"}, of : Sids]

VARIABLES
    current,   \* the connection of _writer and _read_task
    connected, \* _connected
    reading,   \* connections whose read loop runs
    link,      \* link[c]: "none", "up", "lost", or "closed" by this side
    wire,      \* wire[c]: frames the server has sent and the loop has not read
    made,      \* the server's subscriptions
    stage,     \* stage[r]: "none" before and after, "sent" while it is in _pending,
               \* "ok", "error" or "failed" when its future is done
    call,      \* call[h]: "new", "asking", "held", "raised", "left"
    first,     \* first[h]: the connection subscribe uses, 0 before and after;
               \* the other requests for h are _resume_all's
    subs,      \* _subs
    byServer,  \* _by_server: the name says which handle
    sid,       \* sid[h]: connection of _server_sid, 0 for None
    ended,     \* handles whose _closed is set
    recon,     \* the reconnect task: "none" (or done), "waiting", "resuming"
    attempt,   \* its attempt counter
    todo,      \* handles _resume_all has still to subscribe
    closed,    \* _closed
    events     \* events counted so far

connVars == <<current, connected, reading, link, wire>>
subVars == <<subs, byServer, sid, ended>>
reconVars == <<recon, attempt, todo>>
vars == <<connVars, subVars, reconVars, made, stage, call, first, closed, events>>

Count == events < MaxEvents /\ events' = events + 1

-----------------------------------------------------------------------------
(* The server and the network. *)

Send(f) == wire' = [wire EXCEPT ![f.of[2]] = Append(@, f)]

\* A request is answered; a subscribe that succeeds makes a subscription.  An error
\* reply to register_topic, which only its caller sees, is left out.
Answer(r) ==
    /\ stage[r] = "sent" /\ link[r[2]] = "up"
    /\ \A i \in DOMAIN wire[r[2]] : wire[r[2]][i].of # r
    /\ \/ /\ Send([kind |-> "ok", of |-> r])
          /\ made' = IF r \in Sids THEN made \union {r} ELSE made
          /\ UNCHANGED events
       \/ /\ r \in Sids /\ Count
          /\ Send([kind |-> "error", of |-> r])
          /\ UNCHANGED made
    /\ UNCHANGED <<current, connected, reading, link, subVars, reconVars, stage,
                   call, first, closed>>

\* A subscription delivers, or the broker closes it.
Push(s) ==
    /\ s \in made /\ Len(wire[s[2]]) < MaxWire
    /\ \/ Send([kind |-> "delivery", of |-> s]) /\ UNCHANGED made
       \/ Send([kind |-> "closed", of |-> s]) /\ made' = made \ {s}
    /\ UNCHANGED <<current, connected, reading, link, subVars, reconVars, stage,
                   call, first, closed, events>>

\* Connection c comes to an end: some of what is on its way arrives, and the server
\* gives its subscriptions up.
Cut(c, how) ==
    /\ link' = [link EXCEPT ![c] = how]
    /\ \E n \in 0..Len(wire[c]) : wire' = [wire EXCEPT ![c] = SubSeq(@, 1, n)]
    /\ made' = {s \in made : s[2] # c}

LinkLost(c) ==
    /\ link[c] = "up"
    /\ Cut(c, "lost")
    /\ Count
    /\ UNCHANGED <<current, connected, reading, subVars, reconVars, stage, call, first,
                   closed>>

-----------------------------------------------------------------------------
(* The reconnect task. *)

\* Mutant: the handles are forgotten and not closed.
HandlesLeft == subs' = {} /\ UNCHANGED ended

\* Every handle is closed and forgotten.
EndAll ==
    /\ ended' = ended \union subs
    /\ subs' = {}

\* Mutant: one attempt too many.
MayTryOnceMore(n) == n <= MaxReconnect

MayTry(n) == n < MaxReconnect

\* The loop test of _reconnect_loop after n attempts.
Again(n) ==
    /\ todo' = {}
    /\ IF MayTry(n)
       THEN recon' = "waiting" /\ attempt' = n /\ UNCHANGED <<subs, ended>>
       ELSE recon' = "none" /\ attempt' = 0 /\ EndAll

\* _resume_all goes on to the next of the handles left, on a connection that is up.
\* st is the stage of the requests so far, n the number of attempts.
ResumeNext(left, c, st, n) ==
    \/ /\ left = {}
       /\ recon' = "none" /\ attempt' = 0 /\ todo' = {} /\ stage' = st
    \/ \E h \in left :
          /\ recon' = "resuming" /\ attempt' = n /\ todo' = left \ {h}
          /\ stage' = [st EXCEPT ![<<h, c>>] = "sent"]

\* What is ready runs before a timer fires, and a connection this side closed has
\* ended by then.
TimersMayFire ==
    /\ \A r \in Requests : stage[r] \notin {"ok", "error", "failed"}
    /\ \A c \in reading : link[c] # "closed"

\* _open succeeds.
Open ==
    /\ recon = "waiting" /\ TimersMayFire
    /\ current' = current + 1
    /\ connected' = TRUE
    /\ reading' = reading \union {current'}
    /\ link' = [link EXCEPT ![current'] = "up"]
    /\ ResumeNext(subs, current', stage, attempt + 1)
    /\ UNCHANGED <<wire, subVars, made, call, first, closed, events>>

OpenFails ==
    /\ recon = "waiting" /\ TimersMayFire
    /\ Again(attempt + 1)
    /\ UNCHANGED <<connVars, byServer, sid, made, stage, call, first, closed, events>>

-----------------------------------------------------------------------------
(* The read loop. *)

\* _on_frame.  A reply to a request that is over is ignored, and so are a delivery and
\* a closure of a subscription that is not in _by_server.
ReadFrame(c) ==
    /\ c \in reading /\ wire[c] # <<>>
    /\ wire' = [wire EXCEPT ![c] = Tail(@)]
    /\ LET f == Head(wire[c]) IN
       /\ stage' = IF f.kind \in {"ok", "error"} /\ stage[f.of] = "sent"
                   THEN [stage EXCEPT ![f.of] = f.kind] ELSE stage
       /\ IF f.kind = "closed" /\ f.of \in byServer
          THEN /\ byServer' = byServer \ {f.of}
               /\ subs' = subs \ {f.of[1]}
               /\ ended' = ended \union {f.of[1]}
          ELSE UNCHANGED <<byServer, subs, ended>>
    /\ UNCHANGED <<current, connected, reading, link, sid, reconVars, made, call,
                   first, closed, events>>

\* Mutant: only the requests of the connection that is now current fail.
FailCurrent ==
    [r \in Requests |->
        IF stage[r] = "sent" /\ r[2] = current THEN "failed" ELSE stage[r]]

\* _fail_pending.
FailPending == [r \in Requests |-> IF stage[r] = "sent" THEN "failed" ELSE stage[r]]

\* Mutant: a disconnect keeps the server's ids.
KeepServerIds == byServer

NoServerIds == {}

\* Mutant: the reconnect task is created once.
OnlyOnce ==
    IF recon = "none" /\ current = 1
    THEN recon' = "waiting" /\ UNCHANGED <<attempt, todo>>
    ELSE UNCHANGED reconVars

Reconnect ==
    IF recon = "none"
    THEN recon' = "waiting" /\ UNCHANGED <<attempt, todo>>
    ELSE UNCHANGED reconVars

\* The read loop of c ends, and _on_disconnect closes whatever connection is current.
Disconnect(c) ==
    /\ c \in reading /\ link[c] # "up" /\ wire[c] = <<>>
    /\ \A r \in Requests : r[2] = c => stage[r] \notin {"ok", "error"}
    /\ reading' = reading \ {c}
    /\ connected' = FALSE
    /\ byServer' = NoServerIds
    /\ IF link[current] = "up" THEN Cut(current, "closed")
                               ELSE UNCHANGED <<link, wire, made>>
    /\ stage' = FailPending
    /\ IF closed THEN ended' = ended \union subs /\ UNCHANGED reconVars
                 ELSE Reconnect /\ UNCHANGED ended
    /\ UNCHANGED <<current, subs, sid, call, first, closed, events>>

-----------------------------------------------------------------------------
(* The calls of the application. *)

\* subscribe: the handle enters _subs before the request is made.
Subscribe(h) ==
    /\ call[h] = "new" /\ Count
    /\ subs' = subs \union {h}
    /\ IF connected
       THEN /\ stage' = [stage EXCEPT ![<<h, current>>] = "sent"]
            /\ call' = [call EXCEPT ![h] = "asking"]
            /\ first' = [first EXCEPT ![h] = current]
       ELSE call' = [call EXCEPT ![h] = "raised"] /\ UNCHANGED <<stage, first>>
    /\ UNCHANGED <<connVars, byServer, sid, ended, reconVars, made, closed>>

Publish ==
    /\ connected /\ stage[<<Publisher, current>>] = "none"
    /\ stage' = [stage EXCEPT ![<<Publisher, current>>] = "sent"]
    /\ UNCHANGED <<connVars, subVars, reconVars, made, call, first, closed, events>>

\* Mutant: the new id is noted in the handle alone.
NotMapped(s) == byServer

Mapped(s) == byServer \union {s}

\* _activate has its SUBSCRIBE_OK.
Activated(s) ==
    /\ sid' = [sid EXCEPT ![s[1]] = s[2]]
    /\ byServer' = Mapped(s)

\* The caller of r resumes with its reply or exception: publish or subscribe returns
\* or raises, or _resume_all goes on.
Resume(r) ==
    LET over == [stage EXCEPT ![r] = "none"]
        done == stage[r] = "ok"
    IN
    /\ stage[r] \in {"ok", "error", "failed"}
    /\ \/ /\ r[1] = Publisher
          /\ stage' = over
          /\ UNCHANGED <<subVars, reconVars, call, first>>
       \/ /\ r[1] \in Handles /\ first[r[1]] = r[2]
          /\ stage' = over
          /\ call' = [call EXCEPT ![r[1]] = IF done THEN "held" ELSE "raised"]
          /\ first' = [first EXCEPT ![r[1]] = 0]
          /\ IF done THEN Activated(r) ELSE UNCHANGED <<sid, byServer>>
          /\ UNCHANGED <<subs, ended, reconVars>>
       \/ /\ r[1] \in Handles /\ first[r[1]] # r[2]
          /\ IF done THEN Activated(r) ELSE UNCHANGED <<sid, byServer>>
          /\ IF done /\ (connected \/ todo = {})
             THEN ResumeNext(todo, current, over, attempt) /\ UNCHANGED <<subs, ended>>
             ELSE Again(attempt) /\ stage' = over
          /\ UNCHANGED <<call, first>>
    /\ UNCHANGED <<connVars, made, closed, events>>

\* The frame reaches the server if the connection is the one the id is of.
Unsubscribe(h) ==
    /\ call[h] = "held"
    /\ call' = [call EXCEPT ![h] = "left"]
    /\ subs' = subs \ {h}
    /\ byServer' = byServer \ {<<h, sid[h]>>}
    /\ made' = IF sid[h] = current THEN made \ {<<h, sid[h]>>} ELSE made
    /\ ended' = ended \union {h}
    /\ UNCHANGED <<connVars, sid, reconVars, stage, first, closed, events>>

\* The reconnect task is cancelled with the request it awaits.  The read loop is
\* cancelled too and ends in Disconnect; a call that has its answer resumes first.
Close ==
    /\ ~closed
    /\ closed' = TRUE
    /\ recon' = "none" /\ attempt' = 0 /\ todo' = {}
    /\ EndAll
    /\ byServer' = {}
    /\ stage' = [r \in Requests |->
          IF r[1] \in Handles /\ first[r[1]] # r[2] THEN "none" ELSE FailPending[r]]
    /\ link' = [link EXCEPT ![current] = "closed"]
    /\ wire' = [wire EXCEPT ![current] = <<>>]
    /\ made' = {s \in made : s[2] # current}
    /\ UNCHANGED <<current, connected, reading, sid, call, first, events>>

-----------------------------------------------------------------------------

\* connect() has opened the first connection.
Init ==
    /\ current = 1 /\ connected = TRUE /\ reading = {1}
    /\ link = [c \in Conns |-> IF c = 1 THEN "up" ELSE "none"]
    /\ wire = [c \in Conns |-> <<>>]
    /\ made = {} /\ byServer = {} /\ subs = {} /\ ended = {}
    /\ stage = [r \in Requests |-> "none"]
    /\ call = [h \in Handles |-> "new"]
    /\ sid = [h \in Handles |-> 0] /\ first = [h \in Handles |-> 0]
    /\ recon = "none" /\ attempt = 0 /\ todo = {}
    /\ closed = FALSE /\ events = 0

Next ==
    \/ \E r \in Requests : Answer(r) \/ Resume(r)
    \/ \E s \in Sids : Push(s)
    \/ \E c \in Conns : LinkLost(c) \/ ReadFrame(c) \/ Disconnect(c)
    \/ Open \/ OpenFails
    \/ \E h \in Handles : Subscribe(h) \/ Unsubscribe(h)
    \/ Publish \/ Close

Spec == Init /\ [][Next]_vars

\* The event loop runs what is ready and timers fire; the server, which never waits
\* in a subscribe, answers it.
FairSpec ==
    /\ Spec
    /\ SF_vars(Open)
    /\ \A c \in Conns : WF_vars(ReadFrame(c)) /\ WF_vars(Disconnect(c))
    /\ \A r \in Requests : WF_vars(Resume(r))
    /\ \A s \in Sids : WF_vars(Answer(s))

-----------------------------------------------------------------------------
(* Properties. *)

\* Every variable holds a value of its kind.
ClientTypeOK ==
    /\ current \in Conns /\ connected \in BOOLEAN /\ reading \subseteq Conns
    /\ link \in [Conns -> {"none", "up", "lost", "closed"}]
    /\ wire \in [Conns -> Seq(Frames)]
    /\ made \subseteq Sids /\ byServer \subseteq Sids
    /\ stage \in [Requests -> {"none", "sent", "ok", "error", "failed"}]
    /\ call \in [Handles -> {"new", "asking", "held", "raised", "left"}]
    /\ subs \subseteq Handles /\ ended \subseteq Handles /\ todo \subseteq Handles
    /\ sid \in [Handles -> {0} \union Conns] /\ first \in [Handles -> {0} \union Conns]
    /\ recon \in {"none", "waiting", "resuming"} /\ attempt \in 0..MaxReconnect
    /\ closed \in BOOLEAN /\ events \in 0..MaxEvents

\* A request that waits has a read loop that will resolve or fail it, also when two
\* connections are open (client.py:224-230, 247-248).
NoHungRequest == \A r \in Requests : stage[r] = "sent" => r[2] \in reading

\* An id in _by_server is of a connection that is still read: no handle looks
\* subscribed on a connection that is gone (client.py:195, 240).
MappedIsLive == \A s \in byServer : s[2] \in reading

\* After close() no subscription handed out goes on waiting (client.py:150-152).
ClosedEnds == closed => \A h \in Handles : call[h] = "held" => h \in ended

\* The read loop takes a delivery of s.
Takes(s) ==
    /\ wire[s[2]] # <<>> /\ wire'[s[2]] = Tail(wire[s[2]])
    /\ Head(wire[s[2]]) = [kind |-> "delivery", of |-> s]

\* Once _activate has returned, a delivery of a live handle that comes over the
\* connection in use is never dropped (client.py:232-236).  A connection that a failed
\* resume left behind (client.py:271-272) is another matter.
RoutedOnceActive ==
    [][\A s \in Sids :
          Takes(s) /\ s[1] \in subs /\ sid[s[1]] = s[2]
                   /\ s[2] = current /\ link[current] = "up"
              => s \in byServer]_vars

\* client.py:6-8 says one reader "avoids a race between a subscribe reply and the
\* deliveries that follow it".
RoutedFromReply ==
    [][\A s \in Sids :
          Takes(s) /\ s[1] \in subs /\ link[s[2]] = "up"
              => s \in byServer]_vars

\* client.py:19-21 says in-flight subscribe calls "are *not* resumed" and "Only
\* established subscriptions auto-resume".
OnlyEstablishedResume == \A s \in byServer : call[s[1]] # "raised"

\* A handle handed out is subscribed again on the connection in use, or its consumer
\* is told that it ended: no order of losses, refused connections and errors leaves
\* it silent (client.py:254-255, 257-278).
Recovers ==
    \A h \in Handles : call[h] = "held" ~>
        h \in ended \/ (<<h, current>> \in byServer /\ connected)
=============================================================================
