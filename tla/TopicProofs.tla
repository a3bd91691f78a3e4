----------------------------- MODULE TopicProofs -----------------------------
(***************************************************************************)
(* The matching loop of Topic, for subjects and patterns of every length   *)
(* over every set of words.                                                *)
(***************************************************************************)
EXTENDS MCBroker, SequenceTheorems, TLAPS

\* A function on 1..n is a sequence of length n.
LEMMA TupleIsSeq ==
    ASSUME NEW T, NEW n \in Nat, NEW p \in [1..n -> T]
    PROVE  Len(p) = n
<1>1. p \in Seq(T)
  BY SeqDef
<1>2. DOMAIN p = 1..n /\ DOMAIN p = 1..Len(p) /\ Len(p) \in Nat
  BY <1>1, LenProperties
<1>3. QED BY <1>2

\* A text is a sequence of one token or more.
LEMMA TextType ==
    ASSUME NEW p \in Texts
    PROVE  /\ Len(p) \in Nat \ {0} /\ DOMAIN p = 1..Len(p)
<1> DEFINE T == Words \union Mixed \union {"", "*", ">"}
<1>1. MaxTokens \in Nat
  BY TopicAssumption
<1>2. PICK n \in 1..MaxTokens : p \in [1..n -> T]
  BY DEF Texts
<1> HIDE DEF T
<1>3. n \in Nat \ {0}
  BY ONLY <1>1
<1>4. Len(p) = n
  BY <1>2, <1>3, TupleIsSeq
<1>5. QED BY <1>2, <1>3, <1>4

\* The loop of matches_tokens with its early returns (topic.py:59-69) accepts
\* exactly the subjects the pattern stands for, whatever their lengths.
THEOREM MatchingIsExact ==
    \A p \in Patterns, s \in Subjects :
        MatchesTokens(p, s) <=> s \in Denotes(p, Subjects)
<1> SUFFICES ASSUME NEW p \in Patterns, NEW s \in Subjects
             PROVE  MatchesTokens(p, s) <=> s \in Denotes(p, Subjects)
  OBVIOUS
<1> DEFINE n == Len(p)
           k == Len(s)
<1>1. /\ n \in Nat \ {0} /\ DOMAIN p = 1..n
      /\ k \in Nat \ {0} /\ DOMAIN s = 1..k
  BY TextType DEF Patterns, Subjects
<1>2. \A i \in 1..n : p[i] = ">" => i = n
  BY <1>1 DEF Patterns, ValidPattern
<1> HIDE DEF n, k
\* A pattern with a tail wildcard is met there or not at all.
<1>3. CASE p[n] = ">"
  <2>1. s \in Denotes(p, Subjects) <=>
            k > n - 1 /\ \A i \in 1..(n - 1) : p[i] \in {"*", s[i]}
    BY <1>3 DEF Denotes, n, k
  <2>2. ASSUME MatchesTokens(p, s)
        PROVE  k > n - 1 /\ \A i \in 1..(n - 1) : p[i] \in {"*", s[i]}
    <3>1. ~ \A i \in DOMAIN p : Continues(p, s, i)
      BY <1>1, <1>3 DEF Continues
    <3>2. PICK i \in DOMAIN p : /\ \A j \in 1..(i - 1) : Continues(p, s, j)
                                /\ p[i] = ">" /\ Len(s) >= i
      BY <2>2, <3>1 DEF MatchesTokens
    <3>3. i = n
      BY <1>1, <1>2, <3>2
    <3>4. QED BY <1>1, <3>2, <3>3 DEF Continues, k
  <2>3. ASSUME k > n - 1, \A i \in 1..(n - 1) : p[i] \in {"*", s[i]}
        PROVE  MatchesTokens(p, s)
    <3>1. ASSUME NEW j \in 1..(n - 1) PROVE Continues(p, s, j)
      <4>1. j \in 1..n /\ j # n /\ j <= Len(s)
        BY <1>1, <2>3 DEF k
      <4>2. p[j] # ">"
        BY <1>2, <4>1
      <4>3. QED BY <2>3, <4>1, <4>2 DEF Continues
    <3>2. n \in DOMAIN p /\ Len(s) >= n
      BY <1>1, <2>3 DEF k
    <3>3. QED BY <1>3, <3>1, <3>2 DEF MatchesTokens
  <2>4. QED BY <2>1, <2>2, <2>3
\* Any other pattern is gone through to its end.
<1>4. CASE p[n] # ">"
  <2>1. s \in Denotes(p, Subjects) <=> k = n /\ \A i \in 1..n : p[i] \in {"*", s[i]}
    BY <1>4 DEF Denotes, n, k
  <2>2. \A i \in 1..n : p[i] # ">"
    BY <1>2, <1>4
  <2>3. MatchesTokens(p, s) <=> (\A i \in 1..n : Continues(p, s, i)) /\ n = k
    BY <1>1, <2>2 DEF MatchesTokens, n, k
  <2>4. k = n => \A i \in 1..n : Continues(p, s, i) <=> p[i] \in {"*", s[i]}
    BY <1>1, <2>2 DEF Continues, k
  <2>5. QED BY <2>1, <2>3, <2>4
<1>5. QED BY <1>3, <1>4

\* Whatever pattern a subscription had, it would be selected for exactly those of
\* the messages published whose topic the pattern stands for (topic.py:59-69).
THEOREM SelectionIsExact ==
    ASSUME {"a", "b"} \subseteq Words, MaxTokens >= 3
    PROVE  Spec => []SelectsExactly
<1>1. MaxTokens \in Nat
  BY TopicAssumption
<1>2. ASSUME NEW n \in {2, 3}, NEW t \in [1..n -> {"a", "b"}]
      PROVE  t \in Subjects
  <2>1. n \in 1..MaxTokens
    BY <1>1
  <2>2. t \in [1..n -> Words \union Mixed \union {"", "*", ">"}]
    OBVIOUS
  <2>3. t \in Texts
    BY <2>1, <2>2 DEF Texts
  <2>4. ASSUME NEW i \in DOMAIN t
        PROVE  t[i] # "" /\ t[i] \notin {"*", ">"} \union Mixed
    <3>1. t[i] \in Words
      OBVIOUS
    <3>2. QED BY <3>1, TopicAssumption
  <2>5. QED BY <2>3, <2>4 DEF Subjects, ValidSubject, Split
<1>3. \A m \in Msgs : MCTopic[m] \in Subjects
  <2>1. <<"a", "b">> \in [1..2 -> {"a", "b"}] /\ <<"a", "b", "b">> \in [1..3 -> {"a", "b"}]
    OBVIOUS
  <2>2. <<"a", "b">> \in Subjects /\ <<"a", "b", "b">> \in Subjects
    BY <1>2, <2>1
  <2>3. QED BY <2>2 DEF MCTopic
<1>4. SelectsExactly
  <2>1. \A m \in Published : m \in Msgs
    BY DEF Published
  <2>2. QED BY <1>3, <2>1, MatchingIsExact DEF SelectsExactly, Denoted
<1>5. QED BY <1>4, PTL
=============================================================================
