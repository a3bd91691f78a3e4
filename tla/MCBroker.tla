------------------------------ MODULE MCBroker ------------------------------
(***************************************************************************)
(* Small instances of Broker for TLC.  Selects comes from patterns and a   *)
(* topic, through Topic.                                                   *)
(***************************************************************************)
EXTENDS Broker, Topic, TLC

CONSTANTS s1, s2

\* s1 selects "a.>" and s2 "*.>"; the topics are "a.b" and "a.b.b".
MCSelector == [s \in Subs |-> IF s = s1 THEN <<"a", ">">> ELSE <<"*", ">">>]
MCTopic == [m \in Msgs |-> IF m = 1 THEN <<"a", "b">> ELSE <<"a", "b", "b">>]
MCSelects == [s \in Subs |-> {m \in Msgs : MatchesTokens(MCSelector[s], MCTopic[m])}]

MCNoReplay == {}
MCReplayOne == {s1}

MCSince == [s \in Subs |-> 1]
MCAllReplayable == Msgs

Published == {m \in Msgs : pub[m] # "idle"}
Denoted == [p \in Patterns |-> Denotes(p, Subjects)]

\* Whatever pattern a subscription had, the loop of matches_tokens with its early
\* returns (topic.py:59-69) would select of the messages published exactly those
\* whose topic the pattern stands for.
SelectsExactly ==
    \A p \in Patterns, m \in Published :
        MatchesTokens(p, MCTopic[m]) <=> MCTopic[m] \in Denoted[p]
=============================================================================
