------------------------------- MODULE Custody -------------------------------
(***************************************************************************)
(* What the broker promises of a delivery it has made.  The delivery is    *)
(* owed in one attempt after another, never more of them than the budget   *)
(* has, until it is acked, or dead-lettered with its budget spent, which   *)
(* closes its subscription.  Otherwise it is given up only after its       *)
(* subscription was closed, or stranded by a fault.  Nothing is made       *)
(* twice, nothing settled is owed again, no closed subscription opens.     *)
(***************************************************************************)
EXTENDS Naturals

CONSTANTS
    Subs,
    MaxAttempts

VARIABLES
    phase,     \* phase[s]: a subscription is "new", "open" or "closed"
    made,      \* deliveries ever made, in their first attempt
    owed,      \* deliveries to be settled, each in the attempt it is at
    stranded,  \* deliveries that a fault left where nobody settles them
    acked,     \* deliveries acknowledged, in their first attempt
    dead       \* dead letters, in their first attempt

fates == <<stranded, acked, dead>>
vars == <<phase, made, owed, fates>>

Start(d) == [d EXCEPT !.attempt = 1]
Retried(d) == [d EXCEPT !.attempt = @ + 1]
Spent(d) == d.attempt + 1 >= MaxAttempts

Init ==
    /\ phase = [s \in Subs |-> "new"]
    /\ made = {} /\ owed = {} /\ stranded = {} /\ acked = {} /\ dead = {}

Open(s) ==
    /\ phase[s] = "new"
    /\ phase' = [phase EXCEPT ![s] = "open"]
    /\ UNCHANGED <<made, owed, fates>>

Make ==
    /\ owed \subseteq owed' /\ made' = made \union (owed' \ owed)
    /\ \A d \in owed' \ owed : /\ phase[d.sub] = "open"
                               /\ d.attempt = 1 /\ d \notin made
    /\ UNCHANGED <<phase, fates>>

Retry(d) ==
    /\ d \in owed /\ ~Spent(d)
    /\ owed' = (owed \ {d}) \union {Retried(d)}
    /\ UNCHANGED <<phase, made, fates>>

Ack(d) ==
    /\ d \in owed
    /\ owed' = owed \ {d}
    /\ acked' = acked \union {Start(d)}
    /\ UNCHANGED <<phase, made, stranded, dead>>

DeadLetter(d) ==
    /\ d \in owed /\ Spent(d)
    /\ owed' = owed \ {d}
    /\ dead' = dead \union {Start(d)}
    /\ phase' = [phase EXCEPT ![d.sub] = "closed"]
    /\ UNCHANGED <<made, stranded, acked>>

Strand(d) ==
    /\ d \in owed
    /\ owed' = owed \ {d}
    /\ stranded' = stranded \union {d}
    /\ UNCHANGED <<phase, made, acked, dead>>

\* A subscription closes, or some of what is owed to it is given up afterwards.
Close(s) ==
    /\ phase[s] # "new"
    /\ phase' = [phase EXCEPT ![s] = "closed"]
    /\ owed' \subseteq owed /\ \A d \in owed \ owed' : d.sub = s
    /\ UNCHANGED <<made, fates>>

Next ==
    \/ Make
    \/ \E s \in Subs : Open(s) \/ Close(s)
    \/ \E d \in owed : Retry(d) \/ Ack(d) \/ DeadLetter(d) \/ Strand(d)

Spec == Init /\ [][Next]_vars
=============================================================================
