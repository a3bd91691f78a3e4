-------------------------------- MODULE Topic --------------------------------
(***************************************************************************)
(* Subjects and subscription patterns, pubsub/shared/topic.py.  A subject  *)
(* or pattern is the sequence of its tokens; an empty text is <<"">>.      *)
(***************************************************************************)
EXTENDS Integers, Sequences

CONSTANTS
    Words,     \* tokens without a wildcard
    Mixed,     \* tokens with a wildcard among other characters
    MaxTokens  \* bound: length of the subjects and patterns compared

ASSUME TopicAssumption ==
    /\ Words \intersect {"", "*", ">"} = {}
    /\ Mixed \intersect (Words \union {"", "*", ">"}) = {}
    /\ MaxTokens \in Nat

\* _split refuses an empty token.
Split(p) == \A i \in DOMAIN p : p[i] # ""

\* validate_subject returns.
ValidSubject(p) ==
    Split(p) /\ \A i \in DOMAIN p : p[i] \notin {"*", ">"} \union Mixed

\* validate_pattern returns.
ValidPattern(p) ==
    /\ Split(p)
    /\ \A i \in DOMAIN p : (p[i] = ">" => i = Len(p)) /\ p[i] \notin Mixed

\* The loop of matches_tokens goes past the i-th token.
Continues(p, s, i) ==
    p[i] # ">" /\ i <= Len(s) /\ (p[i] = "*" \/ p[i] = s[i])

\* Mutant: the tail may be empty.
MatchesEmptyTail(p, s) ==
    \/ \E i \in DOMAIN p : /\ \A j \in 1..(i - 1) : Continues(p, s, j)
                           /\ p[i] = ">" /\ Len(s) >= i - 1
    \/ (\A i \in DOMAIN p : Continues(p, s, i)) /\ Len(p) = Len(s)

\* matches_tokens: the loop meets the tail wildcard, or goes to the end.
MatchesTokens(p, s) ==
    \/ \E i \in DOMAIN p : /\ \A j \in 1..(i - 1) : Continues(p, s, j)
                           /\ p[i] = ">" /\ Len(s) >= i
    \/ (\A i \in DOMAIN p : Continues(p, s, i)) /\ Len(p) = Len(s)

-----------------------------------------------------------------------------

\* The subjects a pattern stands for: each wildcard is replaced by words, "*" by one
\* and ">" by one or more (topic.py:3-5, 56-57).
Denotes(p, subjects) ==
    LET tail == p[Len(p)] = ">"
        head == IF tail THEN Len(p) - 1 ELSE Len(p)
    IN {s \in subjects :
          /\ IF tail THEN Len(s) > head ELSE Len(s) = head
          /\ \A i \in 1..head : p[i] \in {"*", s[i]}}

Texts == UNION {[1..n -> Words \union Mixed \union {"", "*", ">"}] : n \in 1..MaxTokens}
Subjects == {s \in Texts : ValidSubject(s)}
Patterns == {p \in Texts : ValidPattern(p)}
=============================================================================
