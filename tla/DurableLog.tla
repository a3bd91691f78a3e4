----------------------------- MODULE DurableLog -----------------------------
(***************************************************************************)
(* What append of a durability backend promises a publisher                *)
(* (pubsub/server/durability/abc.py): it is told "stored" only once its    *)
(* message is in the log, it is answered at most once, and the log only    *)
(* gains messages that were handed in.                                     *)
(***************************************************************************)
CONSTANT Messages

VARIABLES
    answer,  \* answer[m]: what the publisher of m knows
    log      \* messages stored

Answers == {"stored", "failed", "cancelled"}

Init ==
    /\ answer = [m \in Messages |-> "unsent"]
    /\ log = {}

Accept(m) ==
    /\ answer[m] = "unsent"
    /\ answer' = [answer EXCEPT ![m] = "waiting"]
    /\ UNCHANGED log

\* Some messages are stored, some publishers are answered, or both.
Settle ==
    /\ log \subseteq log'
    /\ \A m \in log' \ log : answer[m] # "unsent"
    /\ answer' \in [Messages -> Answers \union {"unsent", "waiting"}]
    /\ \A m \in Messages :
          answer'[m] # answer[m] =>
              /\ answer[m] = "waiting" /\ answer'[m] \in Answers
              /\ answer'[m] = "stored" => m \in log'

Next == Settle \/ \E m \in Messages : Accept(m)

Spec == Init /\ [][Next]_<<answer, log>>
=============================================================================
