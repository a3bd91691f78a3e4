---------------------------- MODULE ClientProofs ----------------------------
(***************************************************************************)
(* No request of a client hangs, whatever connections it loses, and every  *)
(* subscription it hands out is routed or ended: for every number of       *)
(* handles, reconnect attempts and losses.                                 *)
(***************************************************************************)
EXTENDS Client, SequenceFacts, FiniteSetTheorems, SequenceTheorems, TLAPS

\* r is a request of _resume_all.
Resuming(r) == r \in Sids /\ stage[r] # "none" /\ first[r[1]] # r[2]

ErrorComing(r) == [kind |-> "error", of |-> r] \in ToSet(wire[r[2]])

\* A request that is not over, and an id that is mapped, are of a connection that is
\* read; a connection this side closed is the current one.
ReadInv ==
    /\ connected => current \in reading
    /\ \A r \in Requests : stage[r] \in {"sent", "ok", "error"} => r[2] \in reading
    /\ MappedIsLive
    /\ \A c \in reading : link[c] # "none" /\ (link[c] = "closed" => c = current)

\* What is of a connection is on that connection, and nothing is of one not yet open.
FreshInv ==
    /\ \A c \in Conns : \A f \in ToSet(wire[c]) : f.of[2] = c
    /\ \A c \in Conns : c > current => wire[c] = << >>
    /\ \A r \in Requests : r[2] > current => stage[r] = "none"
    /\ \A s \in made : s[2] <= current /\ link[s[2]] = "up"
    /\ \A h \in Handles : sid[h] <= current

\* A handle whose call is not made has nothing; one whose call waits or has returned is
\* in _subs or has ended.
HandleInv ==
    /\ \A h \in Handles : call[h] = "new" =>
          /\ h \notin subs /\ h \notin todo /\ first[h] = 0 /\ sid[h] = 0
          /\ \A c \in Conns : stage[<<h, c>>] = "none"
    /\ \A h \in Handles : first[h] # 0 => call[h] = "asking"
    /\ \A h \in Handles : call[h] \in {"asking", "held"} => h \in subs \union ended

\* _resume_all has one request under way, on the connection in use.
ResumeInv ==
    /\ \A r \in Sids : Resuming(r) => recon = "resuming" /\ r[2] = current
    /\ \A q, r \in Sids : Resuming(q) /\ Resuming(r) => q = r
    /\ \A h \in todo : stage[<<h, current>>] = "none" /\ ~ErrorComing(<<h, current>>)
    /\ recon # "resuming" => todo = {}
    /\ recon = "none" => attempt = 0
    /\ recon = "waiting" => attempt < MaxReconnect

\* A subscription on the connection in use is mapped.
ActiveMapped ==
    \A h \in subs : sid[h] = current /\ link[current] = "up" => <<h, current>> \in byServer

\* After close() the connection is closed, and what was handed out has ended.
ClosedInv ==
    closed =>
        /\ recon = "none" /\ link[current] = "closed" /\ wire[current] = << >>
        /\ \A h \in Handles : call[h] = "held" => h \in ended
        /\ \A h \in Handles : call[h] = "asking" /\ h \notin ended =>
              first[h] = current /\ stage[<<h, current>>] \in {"sent", "failed"}

\* A connection will be made for a loss or an error reply that was counted.
Owed ==
    \/ recon = "waiting"
    \/ /\ recon = "resuming"
       /\ \/ ~connected
          \/ \E h \in Handles :
                /\ Resuming(<<h, current>>)
                /\ \/ stage[<<h, current>>] \in {"error", "failed"}
                   \/ stage[<<h, current>>] = "sent" /\ ErrorComing(<<h, current>>)
    \/ link[current] = "closed" /\ current \in reading

LostUnread == {c \in reading : link[c] = "lost"}

\* Every connection but the first is paid for by an event, and so is the next one.
PaidInv ==
    ~closed => current + Cardinality(LostUnread) + (IF Owed THEN 1 ELSE 0) <= events + 1

ClientInv ==
    /\ ReadInv /\ FreshInv /\ HandleInv /\ ResumeInv /\ ActiveMapped /\ ClosedInv /\ PaidInv

-----------------------------------------------------------------------------
(* Requests, frames and connections. *)

LEMMA RequestParts ==
    /\ \A r \in Requests : r = <<r[1], r[2]>> /\ r[2] \in Conns
    /\ \A r \in Requests : r \in Sids \/ r[1] = Publisher
    /\ \A r \in Requests : r[1] \in Handles => r \in Sids
    /\ \A s \in Sids : s \in Requests /\ s = <<s[1], s[2]>> /\ s[1] \in Handles /\ s[2] \in Conns
    /\ \A c \in Conns : <<Publisher, c>> \in Requests
    /\ \A h \in Handles, c \in Conns : <<h, c>> \in Sids /\ <<h, c>> \in Requests
BY ClientAssumption DEF Requests, Sids

LEMMA ConnNumbers ==
    /\ 1 \in Conns /\ \A c \in Conns : c \in Nat /\ 1 <= c /\ c <= MaxEvents + 1
    /\ \A c \in Nat : 1 <= c /\ c <= MaxEvents + 1 => c \in Conns
BY ClientAssumption DEF Conns

\* A frame is the last on the wire of its connection.
LEMMA SendWire ==
    ASSUME ClientTypeOK, NEW f \in Frames, Send(f)
    PROVE  /\ f.of \in Requests /\ f.of[2] \in Conns
           /\ wire' \in [Conns -> Seq(Frames)]
           /\ \A c \in Conns : c # f.of[2] => wire'[c] = wire[c]
           /\ ToSet(wire'[f.of[2]]) = ToSet(wire[f.of[2]]) \union {f}
<1>1. f.of \in Requests /\ f.of[2] \in Conns
  BY RequestParts DEF Frames
<1> DEFINE c == f.of[2]
           q == wire[c]
<1>2. q \in Seq(Frames) /\ wire \in [Conns -> Seq(Frames)]
  BY <1>1 DEF ClientTypeOK
<1>3. wire' = [wire EXCEPT ![c] = Append(q, f)]
  BY DEF Send
<1>4. Append(q, f) \in Seq(Frames) /\ ToSet(Append(q, f)) = ToSet(q) \union {f}
  <2> HIDE DEF q
  <2>1. QED BY <1>2, AppendElements
<1>5. /\ wire'[c] = Append(q, f)
      /\ \A d \in Conns : d # c => wire'[d] = wire[d]
  BY <1>1, <1>2, <1>3
<1>6. wire' \in [Conns -> Seq(Frames)]
  BY <1>1, <1>2, <1>3, <1>4
<1>7. QED BY <1>1, <1>4, <1>5, <1>6

\* Nothing comes that was not on its way.
WireShrinks ==
    /\ wire' \in [Conns -> Seq(Frames)]
    /\ \A c \in Conns : ToSet(wire'[c]) \subseteq ToSet(wire[c])
    /\ \A c \in Conns : wire[c] = << >> => wire'[c] = << >>

LEMMA CutWire ==
    ASSUME ClientTypeOK, NEW c \in Conns, NEW how, Cut(c, how)
    PROVE  /\ WireShrinks
           /\ link' = [link EXCEPT ![c] = how] /\ made' = {s \in made : s[2] # c}
<1>1. PICK n \in 0..Len(wire[c]) : wire' = [wire EXCEPT ![c] = SubSeq(wire[c], 1, n)]
  BY DEF Cut
<1>2. wire[c] \in Seq(Frames) /\ wire \in [Conns -> Seq(Frames)]
  BY DEF ClientTypeOK
<1>3. /\ SubSeq(wire[c], 1, n) \in Seq(Frames)
      /\ ToSet(SubSeq(wire[c], 1, n)) \subseteq ToSet(wire[c])
      /\ wire[c] = << >> => SubSeq(wire[c], 1, n) = << >>
  BY <1>2, PrefixElements
<1>4. \A d \in Conns : wire'[d] = IF d = c THEN SubSeq(wire[c], 1, n) ELSE wire[d]
  BY <1>1, <1>2
<1>5. wire' \in [Conns -> Seq(Frames)]
  BY <1>1, <1>2, <1>3
<1>6. QED BY <1>3, <1>4, <1>5 DEF WireShrinks, Cut

LEMMA ReadWire ==
    ASSUME ClientTypeOK, NEW c \in Conns, wire[c] # << >>,
           wire' = [wire EXCEPT ![c] = Tail(@)]
    PROVE  /\ WireShrinks
           /\ Head(wire[c]) \in Frames /\ Head(wire[c]) \in ToSet(wire[c])
<1>1. wire[c] \in Seq(Frames) /\ wire \in [Conns -> Seq(Frames)]
  BY DEF ClientTypeOK
<1>2. /\ Head(wire[c]) \in Frames /\ Tail(wire[c]) \in Seq(Frames)
      /\ ToSet(wire[c]) = {Head(wire[c])} \union ToSet(Tail(wire[c]))
  BY <1>1, TailElements
<1>3. \A d \in Conns : wire'[d] = IF d = c THEN Tail(wire[c]) ELSE wire[d]
  BY <1>1
<1>4. wire' \in [Conns -> Seq(Frames)]
  BY <1>1, <1>2
<1>5. QED BY <1>2, <1>3, <1>4 DEF WireShrinks

\* How many connections were lost and are still read.
LEMMA LostCount ==
    ASSUME ClientTypeOK
    PROVE  IsFiniteSet(LostUnread) /\ Cardinality(LostUnread) \in Nat
<1>1. IsFiniteSet(Conns)
  BY ClientAssumption, FS_Interval DEF Conns
<1>2. LostUnread \subseteq Conns
  BY DEF LostUnread, ClientTypeOK
<1>3. IsFiniteSet(LostUnread)
  BY <1>1, <1>2, FS_Subset
<1>4. QED BY <1>3, FS_CardinalityType

\* A step that loses and opens no connection.
LEMMA PaidStep ==
    ASSUME ClientTypeOK, PaidInv, events' \in Nat, events' >= events,
           UNCHANGED <<current, closed>>, LostUnread' = LostUnread,
           ~closed /\ Owed' => Owed \/ events' >= events + 1
    PROVE  PaidInv'
<1>1. Cardinality(LostUnread) \in Nat /\ current \in Nat /\ events \in Nat
  BY LostCount, ConnNumbers, ClientAssumption DEF ClientTypeOK
<1>2. QED BY <1>1 DEF PaidInv

\* A request that is under way is on a connection that was opened.
LEMMA SentOnOpened ==
    ASSUME ClientTypeOK, ClientInv, NEW r \in Requests, stage[r] # "none"
    PROVE  r[2] \in Nat /\ current \in Nat /\ r[2] <= current
<1>1. r[2] \in Conns /\ current \in Conns
  BY RequestParts DEF ClientTypeOK
<1>2. r[2] \in Nat /\ current \in Nat
  BY <1>1, ConnNumbers
<1>3. ~(r[2] > current)
  BY DEF ClientInv, FreshInv
<1>4. QED BY <1>2, <1>3

LEMMA InitClient == Init => ClientTypeOK /\ ClientInv
<1> SUFFICES ASSUME Init PROVE ClientTypeOK /\ ClientInv
  OBVIOUS
<1>1. ClientTypeOK
  <2>1. << >> \in Seq(Frames)
    BY EmptySeq
  <2>2. wire \in [Conns -> Seq(Frames)]
    BY <2>1 DEF Init
  <2>3. /\ link \in [Conns -> {"none", "up", "lost", "closed"}]
        /\ stage \in [Requests -> {"none", "sent", "ok", "error", "failed"}]
        /\ call \in [Handles -> {"new", "asking", "held", "raised", "left"}]
        /\ sid \in [Handles -> {0} \union Conns] /\ first \in [Handles -> {0} \union Conns]
    BY DEF Init
  <2>4. /\ current \in Conns /\ connected \in BOOLEAN /\ reading \subseteq Conns
        /\ made = {} /\ byServer = {} /\ subs = {} /\ ended = {} /\ todo = {}
        /\ recon = "none" /\ attempt = 0 /\ closed = FALSE /\ events = 0
    BY ConnNumbers DEF Init
  <2>5. 0 \in 0..MaxReconnect /\ 0 \in 0..MaxEvents
    BY ClientAssumption
  <2>6. QED BY <2>2, <2>3, <2>4, <2>5 DEF ClientTypeOK
<1>2. \A c \in Conns : ToSet(wire[c]) = {}
  BY EmptySeq DEF Init, ToSet
<1>3. LostUnread = {}
  BY ConnNumbers DEF Init, LostUnread
<1>4. PaidInv
  BY <1>3, ConnNumbers, FS_EmptySet, ClientAssumption DEF PaidInv, Owed, Init
<1>5. ReadInv
  BY RequestParts, ConnNumbers DEF Init, ReadInv, MappedIsLive
<1>6. FreshInv
  BY <1>2, ConnNumbers DEF Init, FreshInv
<1>7. HandleInv /\ ResumeInv /\ ActiveMapped /\ ClosedInv
  BY RequestParts, ClientAssumption DEF Init, HandleInv, ResumeInv, ActiveMapped, ClosedInv, Resuming
<1>8. QED BY <1>1, <1>4, <1>5, <1>6, <1>7 DEF ClientInv

-----------------------------------------------------------------------------
(* The server and the network. *)

LEMMA AnswerKeeps ==
    ASSUME ClientTypeOK, ClientInv, NEW r \in Requests, Answer(r)
    PROVE  ClientTypeOK' /\ ClientInv'
<1> PICK f \in Frames :
       /\ f.of = r /\ f.kind \in {"ok", "error"} /\ Send(f)
       /\ f.kind = "ok" => events' = events
       /\ f.kind = "error" => events' = events + 1 /\ events < MaxEvents
       /\ f = [kind |-> f.kind, of |-> r]
       /\ made' \subseteq made \union {r} /\ made' \subseteq Sids
  <2> DEFINE f(k) == [kind |-> k, of |-> r]
  <2>1. f("ok") \in Frames /\ f("error") \in Frames
    BY DEF Frames
  <2>2. CASE Send(f("ok")) /\ made' = (IF r \in Sids THEN made \union {r} ELSE made)
             /\ UNCHANGED events
    BY <2>1, <2>2 DEF ClientTypeOK
  <2>3. CASE Count /\ Send(f("error")) /\ UNCHANGED made
    BY <2>1, <2>3 DEF ClientTypeOK, Count
  <2>4. QED BY <2>2, <2>3 DEF Answer
<1>u. /\ UNCHANGED <<current, connected, reading, link, subs, byServer, sid, ended, recon,
                     attempt, todo, stage, call, first, closed>>
      /\ stage[r] = "sent" /\ link[r[2]] = "up"
  BY DEF Answer, subVars, reconVars
<1>w. /\ r[2] \in Conns
      /\ wire' \in [Conns -> Seq(Frames)]
      /\ \A c \in Conns : c # r[2] => wire'[c] = wire[c]
      /\ ToSet(wire'[r[2]]) = ToSet(wire[r[2]]) \union {f}
  BY SendWire
<1>e. events' \in 0..MaxEvents /\ events' >= events
  BY ClientAssumption DEF ClientTypeOK
<1>c. r[2] \in Nat /\ current \in Nat /\ r[2] <= current
  BY <1>u, SentOnOpened
<1>1. ClientTypeOK'
  BY <1>u, <1>w, <1>e DEF ClientTypeOK
<1>2. ReadInv' /\ HandleInv' /\ ActiveMapped'
  BY <1>u DEF ClientInv, ReadInv, MappedIsLive, HandleInv, ActiveMapped
<1>3. FreshInv'
  <2>1. \A c \in Conns : c > current => wire'[c] = << >>
    BY <1>w, <1>c, ConnNumbers DEF ClientInv, FreshInv
  <2>2. \A c \in Conns : \A g \in ToSet(wire'[c]) : g.of[2] = c
    <3>1. ASSUME NEW c \in Conns, c # r[2], NEW g \in ToSet(wire'[c])
          PROVE  g.of[2] = c
      BY <1>w, <3>1 DEF ClientInv, FreshInv
    <3>2. ASSUME NEW g \in ToSet(wire'[r[2]]) PROVE g.of[2] = r[2]
      BY <1>w DEF ClientInv, FreshInv
    <3>3. QED BY ONLY <3>1, <3>2
  <2>3. QED BY <1>u, <1>c, <2>1, <2>2 DEF ClientInv, FreshInv
<1>s. \A s \in Sids : Resuming(s)' <=> Resuming(s)
  BY <1>u DEF Resuming
<1>r. \A s \in Sids : s # r \/ f.kind = "ok" => (ErrorComing(s)' <=> ErrorComing(s))
  <2> TAKE s \in Sids
  <2> DEFINE e == [kind |-> "error", of |-> s]
  <2>1. s # r \/ f.kind = "ok" => e # f
    OBVIOUS
  <2>2. s[2] \in Conns
    BY RequestParts
  <2>3. e # f => (e \in ToSet(wire'[s[2]]) <=> e \in ToSet(wire[s[2]]))
    <3> HIDE DEF e
    <3>1. QED BY <2>2, <1>w
  <2>4. QED BY <2>1, <2>3 DEF ErrorComing
<1>4. ResumeInv'
  <2>1. \A h \in todo : <<h, current>> \in Sids /\ <<h, current>> # r
    BY <1>u, RequestParts DEF ClientInv, ResumeInv, ClientTypeOK
  <2>2. QED BY <1>u, <1>s, <1>r, <2>1 DEF ClientInv, ResumeInv
<1>5. ClosedInv'
  BY <1>u, <1>w DEF ClientInv, ClosedInv, ClientTypeOK
<1>6. PaidInv'
  <2>1. f.kind = "ok" /\ Owed' => Owed
    BY <1>u, <1>s, <1>r, RequestParts DEF Owed, ClientTypeOK
  <2>2. LostUnread' = LostUnread
    BY <1>u DEF LostUnread
  <2>3. events' \in Nat
    BY <1>e, ClientAssumption
  <2>4. QED BY <1>u, <1>e, <2>1, <2>2, <2>3, PaidStep DEF ClientInv
<1>7. QED BY <1>1, <1>2, <1>3, <1>4, <1>5, <1>6 DEF ClientInv

LEMMA PushKeeps ==
    ASSUME ClientTypeOK, ClientInv, NEW s \in Sids, Push(s)
    PROVE  ClientTypeOK' /\ ClientInv'
<1> PICK f \in Frames : f.of = s /\ f.kind \in {"delivery", "closed"} /\ Send(f)
  <2> DEFINE f(k) == [kind |-> k, of |-> s]
  <2>1. f("delivery") \in Frames /\ f("closed") \in Frames
    BY DEF Frames
  <2>2. QED BY <2>1 DEF Push
<1>u. /\ UNCHANGED <<current, connected, reading, link, subs, byServer, sid, ended, recon,
                     attempt, todo, stage, call, first, closed, events>>
      /\ s \in made /\ made' \subseteq made
  BY DEF Push, subVars, reconVars
<1>w. /\ s[2] \in Conns
      /\ wire' \in [Conns -> Seq(Frames)]
      /\ \A c \in Conns : c # s[2] => wire'[c] = wire[c]
      /\ ToSet(wire'[s[2]]) = ToSet(wire[s[2]]) \union {f}
  BY SendWire
<1>1. ClientTypeOK'
  BY <1>u, <1>w DEF ClientTypeOK
<1>2. ReadInv' /\ HandleInv' /\ ActiveMapped'
  BY <1>u DEF ClientInv, ReadInv, MappedIsLive, HandleInv, ActiveMapped
<1>c. s[2] \in Nat /\ current \in Nat /\ s[2] <= current
  BY <1>u, <1>w, ConnNumbers DEF ClientTypeOK, ClientInv, FreshInv
<1>3. FreshInv'
  <2>1. \A c \in Conns : c > current => wire'[c] = << >>
    BY <1>w, <1>c, ConnNumbers DEF ClientInv, FreshInv
  <2>2. \A c \in Conns : \A g \in ToSet(wire'[c]) : g.of[2] = c
    BY <1>w DEF ClientInv, FreshInv
  <2>3. QED BY <1>u, <1>c, <2>1, <2>2 DEF ClientInv, FreshInv
<1>s. \A r \in Sids : Resuming(r)' <=> Resuming(r)
  BY <1>u DEF Resuming
<1>r. \A r \in Sids : ErrorComing(r)' <=> ErrorComing(r)
  <2> TAKE r \in Sids
  <2> DEFINE e == [kind |-> "error", of |-> r]
  <2>1. e # f
    OBVIOUS
  <2>2. r[2] \in Conns
    BY RequestParts
  <2>3. e \in ToSet(wire'[r[2]]) <=> e \in ToSet(wire[r[2]])
    <3> HIDE DEF e
    <3>1. QED BY <2>1, <2>2, <1>w
  <2>4. QED BY <2>3 DEF ErrorComing
<1>4. ResumeInv'
  <2>1. \A h \in todo : <<h, current>> \in Sids
    BY <1>u, RequestParts DEF ClientTypeOK
  <2>2. QED BY <1>u, <1>s, <1>r, <2>1 DEF ClientInv, ResumeInv
<1>5. ClosedInv'
  BY <1>u, <1>w DEF ClientInv, ClosedInv, FreshInv, ClientTypeOK
<1>6. PaidInv'
  <2>1. Owed' => Owed
    BY <1>u, <1>s, <1>r, RequestParts DEF Owed, ClientTypeOK
  <2>2. LostUnread' = LostUnread
    BY <1>u DEF LostUnread
  <2>3. events \in Nat
    BY ClientAssumption DEF ClientTypeOK
  <2>4. QED BY <1>u, <2>1, <2>2, <2>3, PaidStep DEF ClientInv
<1>7. QED BY <1>1, <1>2, <1>3, <1>4, <1>5, <1>6 DEF ClientInv

LEMMA ShrinkFrames ==
    ASSUME ClientTypeOK, ClientInv, WireShrinks
    PROVE  /\ \A c \in Conns : \A f \in ToSet(wire'[c]) : f.of[2] = c
           /\ \A c \in Conns : c > current => wire'[c] = << >>
           /\ \A r \in Sids : ErrorComing(r)' => ErrorComing(r)
<1>1. \A r \in Sids : r[2] \in Conns
  BY RequestParts
<1>2. \A r \in Sids : ErrorComing(r)' => ErrorComing(r)
  <2> TAKE r \in Sids
  <2> DEFINE e == [kind |-> "error", of |-> r]
  <2>1. e \in ToSet(wire'[r[2]]) => e \in ToSet(wire[r[2]])
    BY <1>1 DEF WireShrinks
  <2>2. QED BY <2>1 DEF ErrorComing
<1>3. QED BY <1>2 DEF WireShrinks, ClientInv, FreshInv

LEMMA LinkLostKeeps ==
    ASSUME ClientTypeOK, ClientInv, NEW c \in Conns, LinkLost(c)
    PROVE  ClientTypeOK' /\ ClientInv'
<1>u. /\ UNCHANGED <<current, connected, reading, subs, byServer, sid, ended, recon,
                     attempt, todo, stage, call, first, closed>>
      /\ link[c] = "up" /\ events' = events + 1 /\ events < MaxEvents
  BY DEF LinkLost, Count, subVars, reconVars
<1>w. WireShrinks /\ link' = [link EXCEPT ![c] = "lost"] /\ made' = {s \in made : s[2] # c}
  BY CutWire DEF LinkLost
<1>l. \A d \in Conns : link'[d] = IF d = c THEN "lost" ELSE link[d]
  BY <1>w DEF ClientTypeOK
<1>e. events \in Nat /\ current \in Nat /\ current \in Conns /\ reading \subseteq Conns
  BY ConnNumbers, ClientAssumption DEF ClientTypeOK
<1>1. ClientTypeOK'
  <2>1. events' \in 0..MaxEvents
    BY <1>u, <1>e, ClientAssumption
  <2>2. link' \in [Conns -> {"none", "up", "lost", "closed"}]
    BY <1>w DEF ClientTypeOK
  <2>3. QED BY <1>u, <1>w, <2>1, <2>2 DEF ClientTypeOK, WireShrinks
<1>2. ReadInv' /\ HandleInv'
  BY <1>u, <1>l, <1>e DEF ClientInv, ReadInv, MappedIsLive, HandleInv
<1>3. FreshInv'
  <2>1. \A s \in made' : s[2] \in Conns /\ s[2] # c /\ s \in made
    BY <1>w, RequestParts DEF ClientTypeOK
  <2>2. \A s \in made' : s[2] <= current /\ link'[s[2]] = "up"
    BY <2>1, <1>l DEF ClientInv, FreshInv
  <2>3. QED BY <1>u, <1>w, <2>2, ShrinkFrames DEF ClientInv, FreshInv
<1>s. \A s \in Sids : Resuming(s)' <=> Resuming(s)
  BY <1>u DEF Resuming
<1>4. ResumeInv'
  <2>1. \A h \in todo : <<h, current>> \in Sids
    BY <1>u, RequestParts DEF ClientTypeOK
  <2>2. QED BY <1>u, <1>s, <1>w, <2>1, ShrinkFrames DEF ClientInv, ResumeInv
<1>5. ClosedInv' /\ ActiveMapped'
  BY <1>u, <1>w, <1>l, <1>e DEF ClientInv, ClosedInv, ActiveMapped, WireShrinks
<1>6. PaidInv'
  <2>1. Owed' => Owed
    BY <1>u, <1>s, <1>w, <1>l, <1>e, RequestParts, ShrinkFrames DEF Owed
  <2>2. LostUnread' \subseteq LostUnread \union {c}
    BY <1>u, <1>l, <1>e DEF LostUnread
  <2>3. IsFiniteSet(LostUnread) /\ Cardinality(LostUnread) \in Nat
    BY LostCount
  <2>4. /\ IsFiniteSet(LostUnread \union {c})
        /\ Cardinality(LostUnread \union {c}) <= Cardinality(LostUnread) + 1
    BY <2>3, FS_AddElement
  <2>5. /\ Cardinality(LostUnread') \in Nat
        /\ Cardinality(LostUnread') <= Cardinality(LostUnread \union {c})
    BY <2>2, <2>4, FS_Subset, FS_CardinalityType
  <2>6. Cardinality(LostUnread \union {c}) \in Nat
    BY <2>4, FS_CardinalityType
  <2>7. QED BY <1>u, <1>e, <2>1, <2>3, <2>4, <2>5, <2>6 DEF ClientInv, PaidInv
<1>7. QED BY <1>1, <1>2, <1>3, <1>4, <1>5, <1>6 DEF ClientInv

-----------------------------------------------------------------------------
(* The read loop. *)

LEMMA ReadFrameKeeps ==
    ASSUME ClientTypeOK, ClientInv, NEW c \in Conns, ReadFrame(c)
    PROVE  ClientTypeOK' /\ ClientInv'
<1> DEFINE f == Head(wire[c])
<1>u. /\ UNCHANGED <<current, connected, reading, link, sid, recon, attempt, todo, made, call,
                     first, closed, events>>
      /\ wire[c] # << >> /\ c \in reading
  BY DEF ReadFrame, reconVars
<1>w. WireShrinks /\ f \in Frames /\ f \in ToSet(wire[c])
  BY ReadWire DEF ReadFrame
<1>f. f.of \in Requests /\ f.of[2] = c /\ f.of[2] \in Conns
      /\ f = [kind |-> f.kind, of |-> f.of]
  <2>1. f.of[2] = c
    BY <1>w DEF ClientInv, FreshInv
  <2>2. f.of \in Requests /\ f = [kind |-> f.kind, of |-> f.of]
    BY <1>w, RequestParts DEF Frames
  <2>3. QED BY <2>1, <2>2, RequestParts
<1>g. \/ stage' = stage
      \/ /\ stage[f.of] = "sent" /\ f.kind \in {"ok", "error"}
         /\ stage' = [stage EXCEPT ![f.of] = f.kind]
  BY DEF ReadFrame
<1>h. /\ stage' \in [Requests -> {"none", "sent", "ok", "error", "failed"}]
      /\ \A r \in Requests : stage'[r] = "none" <=> stage[r] = "none"
      /\ \A r \in Requests : \/ stage'[r] = stage[r]
                             \/ r = f.of /\ stage[r] = "sent" /\ stage'[r] = f.kind
                                         /\ f.kind \in {"ok", "error"}
  <2> HIDE DEF f
  <2>1. QED BY <1>g, <1>f DEF ClientTypeOK
<1>b. /\ byServer' \subseteq byServer /\ ended \subseteq ended' /\ subs' \subseteq subs
      /\ subs \subseteq subs' \union ended' /\ ended' \subseteq ended \union subs \union Handles
      /\ \A s \in Sids : s \in byServer /\ s[1] \in subs' => s \in byServer'
  <2>1. CASE UNCHANGED <<byServer, subs, ended>>
    BY <2>1
  <2>2. CASE /\ byServer' = byServer \ {f.of} /\ f.of \in byServer
             /\ subs' = subs \ {f.of[1]} /\ ended' = ended \union {f.of[1]}
    BY <2>2, RequestParts DEF ClientTypeOK
  <2>3. QED BY <2>1, <2>2 DEF ReadFrame
<1> HIDE DEF f
<1>1. ClientTypeOK'
  BY <1>u, <1>w, <1>h, <1>b DEF ClientTypeOK, WireShrinks
<1>2. ReadInv'
  BY <1>u, <1>h, <1>b DEF ClientInv, ReadInv, MappedIsLive
<1>3. HandleInv'
  BY <1>u, <1>h, <1>b, RequestParts DEF ClientInv, HandleInv
<1>4. FreshInv'
  BY <1>u, <1>w, <1>h, ShrinkFrames DEF ClientInv, FreshInv
<1>s. \A s \in Sids : Resuming(s)' <=> Resuming(s)
  BY <1>u, <1>h, RequestParts DEF Resuming
<1>i. current \in Conns /\ \A h \in Handles : <<h, current>> \in Sids /\ <<h, current>> \in Requests
  BY RequestParts DEF ClientTypeOK
<1>5. ResumeInv'
  BY <1>u, <1>s, <1>w, <1>h, <1>i, ShrinkFrames DEF ClientInv, ResumeInv, ClientTypeOK
<1>6. ActiveMapped'
  BY <1>u, <1>b, <1>i DEF ClientInv, ActiveMapped, ClientTypeOK
<1>7. ClosedInv'
  <2>1. closed => c # current /\ wire'[current] = << >>
    BY <1>u, <1>w, <1>i DEF ClientInv, ClosedInv, WireShrinks
  <2>2. closed => \A h \in Handles : stage'[<<h, current>>] = stage[<<h, current>>]
    BY <2>1, <1>h, <1>i, <1>f
  <2>3. QED BY <1>u, <1>b, <2>1, <2>2 DEF ClientInv, ClosedInv
<1>8. PaidInv'
  <2>1. Owed' => Owed
    <3>1. ASSUME NEW h \in Handles, Resuming(<<h, current>>),
                 \/ stage'[<<h, current>>] \in {"error", "failed"}
                 \/ stage'[<<h, current>>] = "sent" /\ ErrorComing(<<h, current>>)'
          PROVE  \/ stage[<<h, current>>] \in {"error", "failed"}
                 \/ stage[<<h, current>>] = "sent" /\ ErrorComing(<<h, current>>)
      <4> DEFINE r == <<h, current>>
      <4>1. CASE stage'[r] = stage[r]
        BY <3>1, <4>1, <1>i, <1>u, <1>w, ShrinkFrames
      <4>2. CASE r = f.of /\ stage[r] = "sent" /\ stage'[r] = f.kind /\ f.kind \in {"ok", "error"}
        <5>1. f.kind = "error"
          BY <3>1, <4>2
        <5>2. f \in ToSet(wire[r[2]]) /\ f = [kind |-> "error", of |-> r]
          BY <5>1, <4>2, <1>w, <1>f
        <5>3. QED BY <5>2, <4>2 DEF ErrorComing
      <4>3. QED BY <4>1, <4>2, <1>h, <1>i
    <3>2. QED BY <3>1, <1>u, <1>s, <1>i DEF Owed
  <2>2. LostUnread' = LostUnread
    BY <1>u DEF LostUnread
  <2>3. events \in Nat
    BY ClientAssumption DEF ClientTypeOK
  <2>4. QED BY <1>u, <2>1, <2>2, <2>3, PaidStep DEF ClientInv
<1>9. QED BY <1>1, <1>2, <1>3, <1>4, <1>5, <1>6, <1>7, <1>8 DEF ClientInv

\* The loop of c ends: all that waits fails, and the next connection is owed.
LEMMA DisconnectKeeps ==
    ASSUME ClientTypeOK, ClientInv, NEW c \in Conns, Disconnect(c)
    PROVE  ClientTypeOK' /\ ClientInv'
<1>u. /\ UNCHANGED <<current, subs, sid, call, first, closed, events, attempt, todo>>
      /\ c \in reading /\ link[c] # "up" /\ wire[c] = << >>
      /\ reading' = reading \ {c} /\ connected' = FALSE /\ byServer' = {}
  BY DEF Disconnect, NoServerIds, Reconnect, reconVars
<1>i. /\ current \in Conns /\ reading \subseteq Conns
      /\ \A h \in Handles : <<h, current>> \in Sids /\ <<h, current>> \in Requests
  BY RequestParts DEF ClientTypeOK
<1>w. /\ WireShrinks /\ made' \subseteq made
      /\ \A d \in Conns : link'[d] = IF d = current /\ link[d] = "up" THEN "closed" ELSE link[d]
      /\ \A s \in made' : link[s[2]] = "up" => s[2] # current
      /\ link' \in [Conns -> {"none", "up", "lost", "closed"}]
  <2>1. CASE link[current] = "up" /\ Cut(current, "closed")
    <3>1. WireShrinks /\ link' = [link EXCEPT ![current] = "closed"]
             /\ made' = {s \in made : s[2] # current}
      BY <2>1, <1>i, CutWire
    <3>2. QED BY <2>1, <3>1, <1>i DEF ClientTypeOK
  <2>2. CASE link[current] # "up" /\ UNCHANGED <<link, wire, made>>
    BY <2>2, <1>i DEF ClientTypeOK, WireShrinks, ClientInv, FreshInv
  <2>3. QED BY <2>1, <2>2 DEF Disconnect
<1>h. /\ stage' \in [Requests -> {"none", "sent", "ok", "error", "failed"}]
      /\ \A r \in Requests : stage'[r] = IF stage[r] = "sent" THEN "failed" ELSE stage[r]
      /\ \A r \in Requests : r[2] = c => stage[r] \notin {"ok", "error"}
  BY DEF Disconnect, FailPending, ClientTypeOK
<1>r. /\ closed => recon' = recon /\ ended' = ended \union subs
      /\ ~closed => /\ ended' = ended
                    /\ recon' = IF recon = "none" THEN "waiting" ELSE recon
  BY DEF Disconnect, Reconnect, reconVars
<1>1. ClientTypeOK'
  BY <1>u, <1>w, <1>h, <1>r DEF ClientTypeOK, WireShrinks
<1>2. ReadInv'
  BY <1>u, <1>w, <1>h, <1>i DEF ClientInv, ReadInv, MappedIsLive
<1>3. HandleInv'
  <2>1. \A h \in Handles, d \in Conns : stage[<<h, d>>] = "none" => stage'[<<h, d>>] = "none"
    BY <1>h, RequestParts
  <2>2. ended \subseteq ended'
    BY <1>r
  <2>3. QED BY <1>u, <2>1, <2>2 DEF ClientInv, HandleInv
<1>4. FreshInv'
  <2>1. \A s \in made' : s \in made /\ link'[s[2]] = "up"
    BY <1>w, RequestParts DEF ClientInv, FreshInv, ClientTypeOK
  <2>2. QED BY <1>u, <1>w, <1>h, <2>1, ShrinkFrames DEF ClientInv, FreshInv
<1>s. \A s \in Sids : Resuming(s)' <=> Resuming(s)
  BY <1>u, <1>h, RequestParts DEF Resuming
<1>5. ResumeInv'
  <2>1. \A h \in todo : stage'[<<h, current>>] = "none" /\ ~ErrorComing(<<h, current>>)'
    BY <1>u, <1>w, <1>h, <1>i, ShrinkFrames DEF ClientInv, ResumeInv, ClientTypeOK
  <2>2. \A s \in Sids : Resuming(s) => recon' = "resuming" /\ s[2] = current
    BY <1>r DEF ClientInv, ResumeInv
  <2>3. /\ recon' # "resuming" => todo = {}
        /\ recon' = "none" => attempt = 0
        /\ recon' = "waiting" => attempt < MaxReconnect
    BY <1>r, ClientAssumption DEF ClientInv, ResumeInv, ClientTypeOK
  <2>4. QED BY <1>u, <1>s, <2>1, <2>2, <2>3 DEF ClientInv, ResumeInv
<1>6. ActiveMapped'
  BY <1>u, <1>w, <1>i DEF ActiveMapped
<1>7. ClosedInv'
  <2> SUFFICES ASSUME closed PROVE ClosedInv'
    BY <1>u DEF ClosedInv
  <2>1. /\ recon' = "none" /\ link'[current] = "closed" /\ wire'[current] = << >>
        /\ ended \subseteq ended'
    BY <1>w, <1>i, <1>r DEF ClientInv, ClosedInv, WireShrinks
  <2>2. \A h \in Handles : stage[<<h, current>>] \in {"sent", "failed"}
                              => stage'[<<h, current>>] \in {"sent", "failed"}
    BY <1>h, <1>i
  <2>3. QED BY <1>u, <2>1, <2>2 DEF ClientInv, ClosedInv
<1>8. PaidInv'
  <2> SUFFICES ASSUME ~closed PROVE PaidInv'
    BY <1>u DEF PaidInv
  <2> DEFINE n == Cardinality(LostUnread)
  <2>1. IsFiniteSet(LostUnread) /\ n \in Nat /\ current \in Nat /\ events \in Nat
    BY <1>i, LostCount, ConnNumbers, ClientAssumption DEF ClientTypeOK
  <2>2. LostUnread' = LostUnread \ {c}
    BY <1>u, <1>w, <1>i DEF LostUnread
  <2>3. CASE link[c] = "lost"
    <3>1. c \in LostUnread
      BY <2>3, <1>u DEF LostUnread
    <3>2. Cardinality(LostUnread') = n - 1
      BY <2>1, <2>2, <3>1, FS_RemoveElement
    <3>3. QED BY <1>u, <2>1, <3>2 DEF ClientInv, PaidInv
  <2>4. CASE link[c] = "closed"
    <3>1. c = current /\ Owed
      BY <2>4, <1>u DEF ClientInv, ReadInv, Owed
    <3>2. LostUnread' = LostUnread
      BY <2>2, <2>4 DEF LostUnread
    <3>3. QED BY <1>u, <2>1, <3>1, <3>2 DEF ClientInv, PaidInv
  <2>5. QED BY <2>3, <2>4, <1>u DEF ClientInv, ReadInv, ClientTypeOK
<1>9. QED BY <1>1, <1>2, <1>3, <1>4, <1>5, <1>6, <1>7, <1>8 DEF ClientInv

-----------------------------------------------------------------------------
(* The calls of the application. *)

LEMMA CloseKeeps ==
    ASSUME ClientTypeOK, ClientInv, Close
    PROVE  ClientTypeOK' /\ ClientInv'
<1>u. /\ UNCHANGED <<current, connected, reading, sid, call, first, events>>
      /\ closed' = TRUE /\ recon' = "none" /\ attempt' = 0 /\ todo' = {}
      /\ ended' = ended \union subs /\ subs' = {} /\ byServer' = {}
      /\ link' = [link EXCEPT ![current] = "closed"]
      /\ wire' = [wire EXCEPT ![current] = << >>]
      /\ made' = {s \in made : s[2] # current}
  BY DEF Close, EndAll
<1>i. /\ current \in Conns /\ reading \subseteq Conns
      /\ \A h \in Handles : <<h, current>> \in Sids /\ <<h, current>> \in Requests
  BY RequestParts DEF ClientTypeOK
<1>l. /\ \A d \in Conns : link'[d] = IF d = current THEN "closed" ELSE link[d]
      /\ \A d \in Conns : wire'[d] = IF d = current THEN << >> ELSE wire[d]
  BY <1>u, <1>i DEF ClientTypeOK
<1>w. WireShrinks
  <2>1. << >> \in Seq(Frames) /\ ToSet(<< >>) = {}
    BY EmptySeq DEF ToSet
  <2>2. wire' \in [Conns -> Seq(Frames)]
    BY <1>u, <2>1 DEF ClientTypeOK
  <2>3. \A d \in Conns : ToSet(wire'[d]) \subseteq ToSet(wire[d])
    BY <1>l, <2>1
  <2>4. QED BY <1>l, <2>2, <2>3 DEF WireShrinks
<1>h. /\ stage' \in [Requests -> {"none", "sent", "ok", "error", "failed"}]
      /\ \A r \in Requests : stage'[r] \in {stage[r], "none", "failed"}
      /\ \A r \in Requests : stage[r] = "none" => stage'[r] = "none"
      /\ \A r \in Requests : stage'[r] # "sent"
      /\ \A r \in Sids : first[r[1]] # r[2] => stage'[r] = "none"
  <2>1. /\ stage' = [r \in Requests |->
                       IF r[1] \in Handles /\ first[r[1]] # r[2] THEN "none" ELSE FailPending[r]]
        /\ \A r \in Requests :
              FailPending[r] = IF stage[r] = "sent" THEN "failed" ELSE stage[r]
    BY DEF Close, FailPending
  <2>2. \A r \in Requests :
          stage'[r] = IF r[1] \in Handles /\ first[r[1]] # r[2] THEN "none"
                      ELSE IF stage[r] = "sent" THEN "failed" ELSE stage[r]
    BY <2>1
  <2>3. \A r \in Requests : stage[r] \in {"none", "sent", "ok", "error", "failed"}
    BY DEF ClientTypeOK
  <2>4. QED BY <2>1, <2>2, <2>3, RequestParts
<1>1. ClientTypeOK'
  <2>1. link' \in [Conns -> {"none", "up", "lost", "closed"}]
    BY <1>u DEF ClientTypeOK
  <2>2. QED BY <1>u, <1>w, <1>h, <2>1, ClientAssumption DEF ClientTypeOK, WireShrinks
<1>2. ReadInv'
  BY <1>u, <1>l, <1>h, <1>i DEF ClientInv, ReadInv, MappedIsLive
<1>3. HandleInv'
  <2>1. \A h \in Handles, d \in Conns : stage[<<h, d>>] = "none" => stage'[<<h, d>>] = "none"
    BY <1>h, RequestParts
  <2>2. QED BY <1>u, <2>1 DEF ClientInv, HandleInv
<1>4. FreshInv'
  <2>1. \A s \in made' : s \in made /\ link'[s[2]] = "up"
    BY <1>u, <1>l, RequestParts DEF ClientInv, FreshInv, ClientTypeOK
  <2>2. QED BY <1>u, <1>w, <1>h, <2>1, ShrinkFrames DEF ClientInv, FreshInv
<1>5. ResumeInv'
  <2>1. \A r \in Sids : ~Resuming(r)'
    BY <1>u, <1>h DEF Resuming
  <2>2. QED BY <1>u, <2>1 DEF ResumeInv
<1>6. ActiveMapped'
  BY <1>u DEF ActiveMapped
<1>7. ClosedInv'
  BY <1>u, <1>l, <1>i DEF ClientInv, ClosedInv, HandleInv
<1>8. PaidInv'
  BY <1>u DEF PaidInv
<1>9. QED BY <1>1, <1>2, <1>3, <1>4, <1>5, <1>6, <1>7, <1>8 DEF ClientInv

LEMMA SubscribeKeeps ==
    ASSUME ClientTypeOK, ClientInv, NEW h \in Handles, Subscribe(h)
    PROVE  ClientTypeOK' /\ ClientInv'
<1> DEFINE r == <<h, current>>
<1>u. /\ UNCHANGED <<current, connected, reading, link, wire, byServer, sid, ended, recon,
                     attempt, todo, made, closed>>
      /\ call[h] = "new" /\ subs' = subs \union {h}
      /\ events' = events + 1 /\ events < MaxEvents
  BY DEF Subscribe, Count, connVars, reconVars
<1>i. /\ current \in Conns /\ current \in Nat /\ current >= 1 /\ events \in Nat
      /\ \A x \in Handles : <<x, current>> \in Sids /\ <<x, current>> \in Requests
  BY RequestParts, ConnNumbers, ClientAssumption DEF ClientTypeOK
<1>n. /\ h \notin subs /\ h \notin todo /\ first[h] = 0 /\ sid[h] = 0
      /\ \A c \in Conns : stage[<<h, c>>] = "none"
  BY <1>u DEF ClientInv, HandleInv
<1>h. \/ /\ connected
         /\ stage' = [stage EXCEPT ![r] = "sent"] /\ call' = [call EXCEPT ![h] = "asking"]
         /\ first' = [first EXCEPT ![h] = current]
      \/ /\ ~connected
         /\ UNCHANGED <<stage, first>> /\ call' = [call EXCEPT ![h] = "raised"]
  BY DEF Subscribe
<1>c. /\ \A x \in Handles : x # h => call'[x] = call[x] /\ first'[x] = first[x]
      /\ \A q \in Requests : q # r => stage'[q] = stage[q]
      /\ \/ connected /\ call'[h] = "asking" /\ first'[h] = current /\ stage'[r] = "sent"
         \/ call'[h] = "raised" /\ first'[h] = 0 /\ stage'[r] = "none"
  BY <1>h, <1>i, <1>n DEF ClientTypeOK
<1>1. ClientTypeOK'
  <2>1. events' \in 0..MaxEvents
    BY <1>u, <1>i, ClientAssumption
  <2>2. /\ stage' \in [Requests -> {"none", "sent", "ok", "error", "failed"}]
        /\ call' \in [Handles -> {"new", "asking", "held", "raised", "left"}]
        /\ first' \in [Handles -> {0} \union Conns]
    <3>1. /\ stage \in [Requests -> {"none", "sent", "ok", "error", "failed"}]
          /\ call \in [Handles -> {"new", "asking", "held", "raised", "left"}]
          /\ first \in [Handles -> {0} \union Conns]
      BY DEF ClientTypeOK
    <3>2. QED BY <1>h, <1>i, <3>1
  <2>3. QED BY <1>u, <2>1, <2>2 DEF ClientTypeOK
<1>2. ReadInv'
  BY <1>u, <1>c, <1>i DEF ClientInv, ReadInv, MappedIsLive
<1>3. HandleInv'
  <2>1. \A x \in Handles, d \in Conns : x # h => stage'[<<x, d>>] = stage[<<x, d>>]
    BY <1>c, RequestParts
  <2>2. QED BY <1>u, <1>c, <1>i, <2>1 DEF ClientInv, HandleInv
<1>4. FreshInv'
  BY <1>u, <1>c, <1>i DEF ClientInv, FreshInv
<1>s. \A s \in Sids : Resuming(s)' <=> Resuming(s)
  <2> TAKE s \in Sids
  <2>1. CASE s[1] = h
    BY <2>1, <1>n, <1>c, <1>i, RequestParts DEF Resuming
  <2>2. CASE s[1] # h
    BY <2>2, <1>c, RequestParts DEF Resuming
  <2>3. QED BY <2>1, <2>2
<1>e. \A q : ErrorComing(q)' <=> ErrorComing(q)
  BY <1>u DEF ErrorComing
<1>5. ResumeInv'
  BY <1>u, <1>s, <1>c, <1>i, <1>n, <1>e DEF ClientInv, ResumeInv, ClientTypeOK
<1>6. ActiveMapped'
  BY <1>u, <1>n, <1>i DEF ClientInv, ActiveMapped
<1>7. ClosedInv'
  BY <1>u, <1>c, <1>i, RequestParts DEF ClientInv, ClosedInv
<1>8. PaidInv'
  <2>1. LostUnread' = LostUnread
    BY <1>u DEF LostUnread
  <2>2. QED BY <1>u, <1>i, <2>1, PaidStep DEF ClientInv
<1>9. QED BY <1>1, <1>2, <1>3, <1>4, <1>5, <1>6, <1>7, <1>8 DEF ClientInv

LEMMA PublishKeeps ==
    ASSUME ClientTypeOK, ClientInv, Publish
    PROVE  ClientTypeOK' /\ ClientInv'
<1> DEFINE r == <<Publisher, current>>
<1>u. /\ UNCHANGED <<current, connected, reading, link, wire, subs, byServer, sid, ended, recon,
                     attempt, todo, made, call, first, closed, events>>
      /\ connected /\ stage' = [stage EXCEPT ![r] = "sent"]
  BY DEF Publish, connVars, subVars, reconVars
<1>i. /\ current \in Conns /\ current \in Nat /\ events \in Nat /\ r \in Requests
      /\ r[2] = current
      /\ \A h \in Handles : <<h, current>> \in Sids
  BY RequestParts, ConnNumbers, ClientAssumption DEF ClientTypeOK
<1>c. /\ stage' \in [Requests -> {"none", "sent", "ok", "error", "failed"}]
      /\ \A q \in Requests : q # r => stage'[q] = stage[q]
      /\ \A s \in Sids : stage'[s] = stage[s]
  <2>1. \A s \in Sids : s # r /\ s \in Requests
    BY RequestParts, ClientAssumption
  <2>2. QED BY <1>u, <1>i, <2>1 DEF ClientTypeOK
<1>1. ClientTypeOK'
  BY <1>u, <1>c DEF ClientTypeOK
<1>2. ReadInv'
  BY <1>u, <1>c, <1>i DEF ClientInv, ReadInv, MappedIsLive
<1>3. HandleInv' /\ ActiveMapped' /\ ClosedInv'
  BY <1>u, <1>c, <1>i, RequestParts DEF ClientInv, HandleInv, ActiveMapped, ClosedInv
<1>4. FreshInv'
  BY <1>u, <1>c, <1>i DEF ClientInv, FreshInv
<1>s. \A s \in Sids : Resuming(s)' <=> Resuming(s)
  BY <1>u, <1>c DEF Resuming
<1>e. \A q : ErrorComing(q)' <=> ErrorComing(q)
  BY <1>u DEF ErrorComing
<1>5. ResumeInv'
  BY <1>u, <1>s, <1>c, <1>i, <1>e DEF ClientInv, ResumeInv, ClientTypeOK
<1>6. PaidInv'
  <2>1. LostUnread' = LostUnread
    BY <1>u DEF LostUnread
  <2>2. Owed' => Owed
    BY <1>u, <1>s, <1>c, <1>i, <1>e DEF Owed
  <2>3. QED BY <1>u, <1>i, <2>1, <2>2, PaidStep DEF ClientInv
<1>7. QED BY <1>1, <1>2, <1>3, <1>4, <1>5, <1>6 DEF ClientInv

LEMMA UnsubscribeKeeps ==
    ASSUME ClientTypeOK, ClientInv, NEW h \in Handles, Unsubscribe(h)
    PROVE  ClientTypeOK' /\ ClientInv'
<1>u. /\ UNCHANGED <<current, connected, reading, link, wire, sid, recon, attempt, todo, stage,
                     first, closed, events>>
      /\ call[h] = "held" /\ call' = [call EXCEPT ![h] = "left"]
      /\ subs' = subs \ {h} /\ byServer' = byServer \ {<<h, sid[h]>>} /\ made' \subseteq made
      /\ ended' = ended \union {h}
  BY DEF Unsubscribe, connVars, reconVars
<1>c. \A x \in Handles : call'[x] = IF x = h THEN "left" ELSE call[x]
  BY <1>u DEF ClientTypeOK
<1>1. ClientTypeOK'
  BY <1>u DEF ClientTypeOK
<1>2. ReadInv' /\ FreshInv' /\ HandleInv' /\ ActiveMapped' /\ ClosedInv'
  BY <1>u, <1>c DEF ClientInv, ReadInv, MappedIsLive, FreshInv, HandleInv, ActiveMapped, ClosedInv
<1>s. (\A s : Resuming(s)' <=> Resuming(s)) /\ (\A q : ErrorComing(q)' <=> ErrorComing(q))
  BY <1>u DEF Resuming, ErrorComing
<1>3. ResumeInv'
  BY <1>u, <1>s DEF ClientInv, ResumeInv
<1>4. PaidInv'
  <2>1. LostUnread' = LostUnread /\ (Owed' => Owed)
    BY <1>u, <1>s DEF LostUnread, Owed
  <2>2. events \in Nat
    BY ClientAssumption DEF ClientTypeOK
  <2>3. QED BY <1>u, <2>1, <2>2, PaidStep DEF ClientInv
<1>5. QED BY <1>1, <1>2, <1>3, <1>4 DEF ClientInv

-----------------------------------------------------------------------------
(* The reconnect task. *)

\* The next connection was paid for.
LEMMA OpenRoom ==
    ASSUME ClientTypeOK, ClientInv, recon = "waiting"
    PROVE  /\ ~closed /\ current \in Nat /\ current >= 1 /\ current + 1 \in Conns
           /\ current + Cardinality(LostUnread) + 1 <= events + 1 /\ events \in Nat
           /\ Cardinality(LostUnread) \in Nat
<1>1. ~closed /\ Owed
  BY DEF ClientInv, ClosedInv, Owed
<1>2. /\ Cardinality(LostUnread) \in Nat /\ current \in Nat /\ current >= 1
      /\ events \in Nat /\ events <= MaxEvents
  BY LostCount, ConnNumbers, ClientAssumption DEF ClientTypeOK
<1>3. current + Cardinality(LostUnread) + 1 <= events + 1
  BY <1>1 DEF ClientInv, PaidInv
<1>4. current + 1 \in Conns
  <2>1. current + 1 \in Nat /\ current + 1 <= MaxEvents + 1
    BY <1>2, <1>3, ClientAssumption
  <2>2. QED BY <2>1, <1>2, ConnNumbers
<1>5. QED BY <1>1, <1>2, <1>3, <1>4

LEMMA OpenKeeps ==
    ASSUME ClientTypeOK, ClientInv, Open
    PROVE  ClientTypeOK' /\ ClientInv'
<1>o. recon = "waiting"
  BY DEF Open
<1>p. PICK c \in Conns : c = current + 1
  BY <1>o, OpenRoom
<1>u. /\ UNCHANGED <<wire, subs, byServer, sid, ended, made, call, first, closed, events>>
      /\ recon = "waiting" /\ current' = c /\ connected' = TRUE
      /\ reading' = reading \union {c} /\ link' = [link EXCEPT ![c] = "up"]
  BY <1>p DEF Open, subVars
<1>i. /\ ~closed /\ current \in Nat /\ current >= 1 /\ c \in Conns /\ c \in Nat /\ c > current
      /\ current \in Conns
      /\ \A h \in Handles : <<h, c>> \in Sids /\ <<h, c>> \in Requests
  BY <1>u, <1>p, OpenRoom, RequestParts DEF ClientTypeOK
<1>t. /\ \A r \in Requests : stage[r] \in {"none", "sent"}
      /\ \A d \in reading : link[d] # "closed"
  BY DEF Open, TimersMayFire, ClientTypeOK
<1>l. \A d \in Conns : link'[d] = IF d = c THEN "up" ELSE link[d]
  BY <1>u, <1>i DEF ClientTypeOK
<1>n. /\ \A x \in Requests : x[2] >= c => stage[x] = "none"
      /\ \A s \in Sids : ~Resuming(s)
      /\ wire[c] = << >> /\ ToSet(wire[c]) = {}
  <2>1. wire[c] = << >> /\ ToSet(<< >>) = {}
    BY <1>i, EmptySeq DEF ClientInv, FreshInv, ToSet
  <2>2. \A s \in Sids : ~Resuming(s)
    BY <1>u DEF ClientInv, ResumeInv
  <2>3. \A x \in Requests : x[2] \in Nat /\ (x[2] >= c => x[2] > current)
    BY <1>i, RequestParts, ConnNumbers
  <2>4. QED BY <2>1, <2>2, <2>3 DEF ClientInv, FreshInv
<1>r. \/ /\ subs = {}
         /\ recon' = "none" /\ attempt' = 0 /\ todo' = {} /\ stage' = stage
      \/ \E h \in subs :
            /\ recon' = "resuming" /\ attempt' = attempt + 1 /\ todo' = subs \ {h}
            /\ stage' = [stage EXCEPT ![<<h, c>>] = "sent"]
  BY <1>u, <1>p DEF Open, ResumeNext
<1>h. /\ stage' \in [Requests -> {"none", "sent", "ok", "error", "failed"}]
      /\ \A q \in Requests : \/ stage'[q] = stage[q]
                             \/ q[1] \in subs /\ q[2] = c /\ q[1] \notin todo'
                                /\ recon' = "resuming" /\ stage'[q] = "sent"
      /\ \A q, p \in Requests : stage'[q] # stage[q] /\ stage'[p] # stage[p] => q = p
      /\ todo' \subseteq subs /\ recon' \in {"none", "resuming"}
      /\ recon' = "none" => todo' = {} /\ attempt' = 0
      /\ attempt' \in 0..MaxReconnect
  <2>1. attempt + 1 \in 0..MaxReconnect /\ 0 \in 0..MaxReconnect
    BY <1>u, ClientAssumption DEF ClientInv, ResumeInv, ClientTypeOK
  <2>2. CASE stage' = stage /\ recon' = "none" /\ attempt' = 0 /\ todo' = {}
    BY <2>1, <2>2 DEF ClientTypeOK
  <2>3. ASSUME NEW h \in subs, recon' = "resuming", attempt' = attempt + 1,
               todo' = subs \ {h}, stage' = [stage EXCEPT ![<<h, c>>] = "sent"]
        PROVE  <1>h!:
    <3>1. h \in Handles /\ <<h, c>> \in Requests
      BY <1>i DEF ClientTypeOK
    <3>2. stage' \in [Requests -> {"none", "sent", "ok", "error", "failed"}]
      BY <2>3, <3>1 DEF ClientTypeOK
    <3>3. \A q \in Requests : stage'[q] = IF q = <<h, c>> THEN "sent" ELSE stage[q]
      BY <2>3, <3>1 DEF ClientTypeOK
    <3>4. QED BY <2>1, <2>3, <3>2, <3>3
  <2>4. QED BY <1>r, <2>2, <2>3
<1>1. ClientTypeOK'
  <2>1. link' \in [Conns -> {"none", "up", "lost", "closed"}]
    BY <1>u DEF ClientTypeOK
  <2>2. QED BY <1>u, <1>i, <1>h, <2>1 DEF ClientTypeOK
<1>2. ReadInv'
  <2>1. \A q \in Requests : stage'[q] \in {"sent", "ok", "error"} => q[2] \in reading'
    BY <1>u, <1>h DEF ClientInv, ReadInv
  <2>2. \A d \in reading' : link'[d] # "none" /\ link'[d] # "closed"
    BY <1>u, <1>l, <1>i, <1>t DEF ClientInv, ReadInv, ClientTypeOK
  <2>3. QED BY <1>u, <2>1, <2>2 DEF ClientInv, ReadInv, MappedIsLive
<1>3. HandleInv'
  <2>1. \A h \in Handles : call[h] = "new" => \A d \in Conns : stage'[<<h, d>>] = "none"
    <3> SUFFICES ASSUME NEW h \in Handles, call[h] = "new", NEW d \in Conns
                 PROVE  stage'[<<h, d>>] = "none"
      OBVIOUS
    <3>1. h \notin subs /\ stage[<<h, d>>] = "none" /\ <<h, d>> \in Requests
      BY RequestParts DEF ClientInv, HandleInv
    <3>2. QED BY <3>1, <1>h
  <2>2. QED BY <1>u, <1>h, <2>1 DEF ClientInv, HandleInv
<1>4. FreshInv'
  <2>1. \A q \in Requests : q[2] > c => stage'[q] = "none"
    <3> SUFFICES ASSUME NEW q \in Requests, q[2] > c PROVE stage'[q] = "none"
      OBVIOUS
    <3>1. q[2] \in Nat /\ q[2] >= c /\ q[2] # c
      BY <1>i, RequestParts, ConnNumbers
    <3>2. QED BY <3>1, <1>h, <1>n
  <2>2. \A d \in Conns : d > c => wire[d] = << >>
    BY <1>i, ConnNumbers DEF ClientInv, FreshInv
  <2>3. \A s \in made : s[2] <= c /\ link'[s[2]] = "up"
    <3> TAKE s \in made
    <3>1. s[2] \in Conns /\ s[2] \in Nat /\ s[2] <= current /\ link[s[2]] = "up"
      BY RequestParts, ConnNumbers DEF ClientInv, FreshInv, ClientTypeOK
    <3>2. QED BY <3>1, <1>i, <1>l
  <2>4. \A h \in Handles : sid[h] <= c
    <3> TAKE h \in Handles
    <3>1. sid[h] \in Nat /\ sid[h] <= current
      BY ConnNumbers DEF ClientInv, FreshInv, ClientTypeOK
    <3>2. QED BY <3>1, <1>i
  <2>5. QED BY <1>u, <2>1, <2>2, <2>3, <2>4 DEF ClientInv, FreshInv
<1>s. /\ \A q \in Sids : Resuming(q)' => stage'[q] = "sent" /\ stage[q] # "sent"
                              /\ q[2] = c /\ recon' = "resuming" /\ q[1] \notin todo'
      /\ \A h \in Handles : ~ErrorComing(<<h, c>>)'
  <2>1. \A q \in Sids : Resuming(q)' => stage'[q] # stage[q]
    BY <1>u, <1>n DEF Resuming
  <2>2. \A q \in Sids : q[2] = c => stage[q] = "none"
    BY <1>n, <1>i, RequestParts
  <2>3. \A h \in Handles : ~ErrorComing(<<h, c>>)'
    BY <1>n, <1>u DEF ErrorComing
  <2>4. QED BY <2>1, <2>2, <2>3, <1>h, RequestParts
<1>5. ResumeInv'
  <2>1. \A q, p \in Sids : Resuming(q)' /\ Resuming(p)' => q = p
    BY <1>s, <1>h, RequestParts
  <2>2. \A h \in todo' : h \in Handles /\ stage'[<<h, c>>] = "none"
    <3> TAKE h \in todo'
    <3>1. h \in Handles /\ <<h, c>> \in Requests
      BY <1>h, <1>i DEF ClientTypeOK
    <3>2. stage[<<h, c>>] = "none"
      BY <3>1, <1>n, <1>i
    <3>3. QED BY <3>1, <3>2, <1>h
  <2>3. QED BY <1>u, <1>h, <1>s, <2>1, <2>2 DEF ResumeInv
<1>6. ActiveMapped'
  <2>1. \A h \in subs : sid[h] # c
    <3> TAKE h \in subs
    <3>1. sid[h] \in Nat /\ sid[h] <= current
      BY ConnNumbers DEF ClientInv, FreshInv, ClientTypeOK
    <3>2. QED BY <3>1, <1>i
  <2>2. QED BY <1>u, <2>1 DEF ActiveMapped
<1>7. ClosedInv'
  BY <1>u, <1>i DEF ClosedInv
<1>8. PaidInv'
  <2>1. ~Owed'
    <3>1. link'[c] = "up" /\ recon' # "waiting"
      BY <1>l, <1>h
    <3>2. \A h \in Handles : Resuming(<<h, c>>)' => stage'[<<h, c>>] = "sent"
      BY <1>s, <1>i
    <3>3. QED BY <3>1, <3>2, <1>u, <1>s DEF Owed
  <2>2. LostUnread' \subseteq LostUnread
    BY <1>u, <1>l, <1>i DEF LostUnread, ClientTypeOK
  <2>3. /\ Cardinality(LostUnread') \in Nat
        /\ Cardinality(LostUnread') <= Cardinality(LostUnread)
    BY <2>2, LostCount, FS_Subset, FS_CardinalityType
  <2>4. QED BY <1>u, <1>p, <1>i, <2>1, <2>3, OpenRoom DEF PaidInv
<1>9. QED BY <1>1, <1>2, <1>3, <1>4, <1>5, <1>6, <1>7, <1>8 DEF ClientInv

\* The loop test, after n attempts: another wait, or every handle is closed.
LEMMA AgainFacts ==
    ASSUME ClientTypeOK, NEW n \in 0..MaxReconnect, Again(n)
    PROVE  /\ todo' = {} /\ subs' \subseteq subs /\ ended \subseteq ended'
           /\ subs \subseteq subs' \union ended' /\ ended' \subseteq Handles
           /\ \/ recon' = "waiting" /\ attempt' = n /\ n < MaxReconnect
              \/ recon' = "none" /\ attempt' = 0
BY DEF Again, MayTry, EndAll, ClientTypeOK

LEMMA OpenFailsKeeps ==
    ASSUME ClientTypeOK, ClientInv, OpenFails
    PROVE  ClientTypeOK' /\ ClientInv'
<1>u. /\ UNCHANGED <<current, connected, reading, link, wire, byServer, sid, made, stage, call,
                     first, closed, events>>
      /\ recon = "waiting"
  BY DEF OpenFails, connVars
<1>a. attempt + 1 \in 0..MaxReconnect
  BY <1>u, ClientAssumption DEF ClientInv, ResumeInv, ClientTypeOK
<1>r. /\ todo' = {} /\ subs' \subseteq subs /\ ended \subseteq ended'
      /\ subs \subseteq subs' \union ended' /\ ended' \subseteq Handles
      /\ \/ recon' = "waiting" /\ attempt' = attempt + 1 /\ attempt + 1 < MaxReconnect
         \/ recon' = "none" /\ attempt' = 0
  BY <1>a, AgainFacts DEF OpenFails
<1>1. ClientTypeOK'
  BY <1>u, <1>r, <1>a, ClientAssumption DEF ClientTypeOK
<1>2. ReadInv' /\ FreshInv' /\ HandleInv' /\ ActiveMapped'
  BY <1>u, <1>r DEF ClientInv, ReadInv, MappedIsLive, FreshInv, HandleInv, ActiveMapped
<1>s. \A q \in Sids : ~Resuming(q)'
  BY <1>u DEF ClientInv, ResumeInv, Resuming
<1>3. ResumeInv' /\ ClosedInv'
  BY <1>u, <1>r, <1>s DEF ClientInv, ResumeInv, ClosedInv
<1>4. PaidInv'
  <2>1. LostUnread' = LostUnread /\ Owed
    BY <1>u DEF LostUnread, Owed
  <2>2. events \in Nat
    BY ClientAssumption DEF ClientTypeOK
  <2>3. QED BY <1>u, <2>1, <2>2, PaidStep DEF ClientInv
<1>5. QED BY <1>1, <1>2, <1>3, <1>4 DEF ClientInv

-----------------------------------------------------------------------------
(* An answered call resumes. *)

\* The request is over.
LEMMA OverFacts ==
    ASSUME ClientTypeOK, ClientInv, NEW r \in Requests,
           stage' = [stage EXCEPT ![r] = "none"]
    PROVE  /\ stage' \in [Requests -> {"none", "sent", "ok", "error", "failed"}]
           /\ \A q \in Requests : stage'[q] = IF q = r THEN "none" ELSE stage[q]
           /\ \A h \in Handles, d \in Conns : stage[<<h, d>>] = "none" => stage'[<<h, d>>] = "none"
<1>1. /\ stage' \in [Requests -> {"none", "sent", "ok", "error", "failed"}]
      /\ \A q \in Requests : stage'[q] = IF q = r THEN "none" ELSE stage[q]
  BY DEF ClientTypeOK
<1>2. QED BY <1>1, RequestParts

LEMMA PublishResumes ==
    ASSUME ClientTypeOK, ClientInv, NEW r \in Requests, r[1] = Publisher,
           stage' = [stage EXCEPT ![r] = "none"],
           UNCHANGED <<connVars, subVars, reconVars, made, call, first, closed, events>>
    PROVE  ClientTypeOK' /\ ClientInv'
<1>u. UNCHANGED <<current, connected, reading, link, wire, subs, byServer, sid, ended, recon,
                  attempt, todo, made, call, first, closed, events>>
  BY DEF connVars, subVars, reconVars
<1>h. /\ stage' \in [Requests -> {"none", "sent", "ok", "error", "failed"}]
      /\ \A q \in Requests : stage'[q] = IF q = r THEN "none" ELSE stage[q]
  BY <1>u, OverFacts
<1>c. \A s \in Sids : stage'[s] = stage[s]
  BY <1>h, RequestParts, ClientAssumption
<1>i. /\ \A h \in Handles : <<h, current>> \in Sids
      /\ events \in Nat
  BY RequestParts, ClientAssumption DEF ClientTypeOK
<1>1. ClientTypeOK'
  BY <1>u, <1>h DEF ClientTypeOK
<1>2. ReadInv' /\ FreshInv'
  BY <1>u, <1>h DEF ClientInv, ReadInv, MappedIsLive, FreshInv
<1>3. HandleInv' /\ ActiveMapped' /\ ClosedInv'
  BY <1>u, <1>c, <1>i, RequestParts DEF ClientInv, HandleInv, ActiveMapped, ClosedInv
<1>s. \A s \in Sids : Resuming(s)' <=> Resuming(s)
  BY <1>u, <1>c DEF Resuming
<1>e. \A q : ErrorComing(q)' <=> ErrorComing(q)
  BY <1>u DEF ErrorComing
<1>4. ResumeInv'
  BY <1>u, <1>s, <1>c, <1>i, <1>e DEF ClientInv, ResumeInv, ClientTypeOK
<1>5. PaidInv'
  <2>1. LostUnread' = LostUnread
    BY <1>u DEF LostUnread
  <2>2. Owed' => Owed
    BY <1>u, <1>s, <1>c, <1>i, <1>e DEF Owed
  <2>3. QED BY <1>u, <1>i, <2>1, <2>2, PaidStep DEF ClientInv
<1>6. QED BY <1>1, <1>2, <1>3, <1>4, <1>5 DEF ClientInv

\* A new id is of a connection that is read.
LEMMA ActivatedFacts ==
    ASSUME ClientTypeOK, ClientInv, NEW r \in Sids, stage[r] # "none",
           IF stage[r] = "ok" THEN Activated(r) ELSE UNCHANGED <<sid, byServer>>,
           UNCHANGED <<current, reading>>
    PROVE  /\ sid' \in [Handles -> {0} \union Conns] /\ byServer' \subseteq Sids
           /\ MappedIsLive'
           /\ \A h \in Handles : sid'[h] <= current
           /\ \A h \in Handles : \/ sid'[h] = sid[h]
                                 \/ h = r[1] /\ <<h, sid'[h]>> \in byServer'
           /\ byServer \subseteq byServer'
<1>1. r[1] \in Handles /\ r[2] \in Conns /\ r = <<r[1], r[2]>> /\ r \in Requests
  BY RequestParts
<1>2. r[2] <= current
  BY <1>1, SentOnOpened
<1>3. CASE stage[r] = "ok"
  <2>1. sid' = [sid EXCEPT ![r[1]] = r[2]] /\ byServer' = byServer \union {r}
    BY <1>3 DEF Activated, Mapped
  <2>2. \A h \in Handles : sid'[h] = IF h = r[1] THEN r[2] ELSE sid[h]
    BY <1>1, <2>1 DEF ClientTypeOK
  <2>3. r[2] \in reading
    BY <1>1, <1>3 DEF ClientInv, ReadInv
  <2>4. sid' \in [Handles -> {0} \union Conns] /\ byServer' \subseteq Sids
    BY <1>1, <2>1 DEF ClientTypeOK
  <2>5. QED BY <1>1, <1>2, <2>1, <2>2, <2>3, <2>4 DEF ClientInv, ReadInv, MappedIsLive, FreshInv
<1>4. CASE UNCHANGED <<sid, byServer>>
  BY <1>4 DEF ClientTypeOK, ClientInv, ReadInv, MappedIsLive, FreshInv
<1>5. QED BY <1>3, <1>4

\* subscribe returns or raises.
LEMMA SubscribeResumes ==
    ASSUME ClientTypeOK, ClientInv, NEW r \in Sids, first[r[1]] = r[2],
           stage[r] \in {"ok", "error", "failed"},
           stage' = [stage EXCEPT ![r] = "none"],
           call' = [call EXCEPT ![r[1]] = IF stage[r] = "ok" THEN "held" ELSE "raised"],
           first' = [first EXCEPT ![r[1]] = 0],
           IF stage[r] = "ok" THEN Activated(r) ELSE UNCHANGED <<sid, byServer>>,
           UNCHANGED <<connVars, subs, ended, reconVars, made, closed, events>>
    PROVE  ClientTypeOK' /\ ClientInv'
<1>u. UNCHANGED <<current, connected, reading, link, wire, subs, ended, recon,
                  attempt, todo, made, closed, events>>
  BY DEF connVars, reconVars
<1>i. /\ r[1] \in Handles /\ r[2] \in Conns /\ r = <<r[1], r[2]>> /\ r \in Requests
      /\ \A h \in Handles : <<h, current>> \in Sids /\ <<h, current>> \in Requests
      /\ current \in Conns /\ events \in Nat
      /\ r[2] # 0
  BY RequestParts, ConnNumbers, ClientAssumption DEF ClientTypeOK
<1>h. /\ stage' \in [Requests -> {"none", "sent", "ok", "error", "failed"}]
      /\ \A q \in Requests : stage'[q] = IF q = r THEN "none" ELSE stage[q]
      /\ \A h \in Handles, d \in Conns : stage[<<h, d>>] = "none" => stage'[<<h, d>>] = "none"
  BY <1>i, OverFacts
<1>a. /\ sid' \in [Handles -> {0} \union Conns] /\ byServer' \subseteq Sids
      /\ MappedIsLive'
      /\ \A h \in Handles : sid'[h] <= current
      /\ \A h \in Handles : \/ sid'[h] = sid[h]
                            \/ h = r[1] /\ <<h, sid'[h]>> \in byServer'
      /\ byServer \subseteq byServer'
  BY <1>u, ActivatedFacts
<1>c. /\ \A h \in Handles : call'[h] = IF h # r[1] THEN call[h]
                                       ELSE IF stage[r] = "ok" THEN "held" ELSE "raised"
      /\ \A h \in Handles : first'[h] = IF h = r[1] THEN 0 ELSE first[h]
      /\ call' \in [Handles -> {"new", "asking", "held", "raised", "left"}]
      /\ first' \in [Handles -> {0} \union Conns]
  BY <1>i DEF ClientTypeOK
<1>k. call[r[1]] = "asking" /\ r[1] \in subs \union ended
  BY <1>i DEF ClientInv, HandleInv
<1>1. ClientTypeOK'
  BY <1>u, <1>h, <1>a, <1>c DEF ClientTypeOK
<1>2. ReadInv' /\ FreshInv'
  BY <1>u, <1>h, <1>a DEF ClientInv, ReadInv, FreshInv
<1>3. HandleInv'
  <2>1. \A h \in Handles : call'[h] = "new" =>
           /\ h \notin subs /\ h \notin todo /\ first'[h] = 0 /\ sid'[h] = 0
           /\ \A d \in Conns : stage'[<<h, d>>] = "none"
    <3> SUFFICES ASSUME NEW h \in Handles, call'[h] = "new"
                 PROVE  /\ h \notin subs /\ h \notin todo /\ first'[h] = 0 /\ sid'[h] = 0
                        /\ \A d \in Conns : stage'[<<h, d>>] = "none"
      OBVIOUS
    <3>1. h # r[1] /\ call[h] = "new"
      BY <1>c
    <3>2. /\ h \notin subs /\ h \notin todo /\ first[h] = 0 /\ sid[h] = 0
          /\ \A d \in Conns : stage[<<h, d>>] = "none"
      BY <3>1 DEF ClientInv, HandleInv
    <3>3. \A d \in Conns : stage'[<<h, d>>] = "none"
      BY <3>2, <1>h
    <3>4. first'[h] = 0 /\ sid'[h] = 0
      BY <3>1, <3>2, <1>a, <1>c
    <3>5. QED BY <3>2, <3>3, <3>4
  <2>2. /\ \A h \in Handles : first'[h] # 0 => call'[h] = "asking"
        /\ \A h \in Handles : call'[h] \in {"asking", "held"} => h \in subs \union ended
    BY <1>c, <1>k DEF ClientInv, HandleInv
  <2>3. QED BY <1>u, <2>1, <2>2 DEF HandleInv
<1>4. ActiveMapped'
  BY <1>u, <1>a DEF ClientInv, ActiveMapped, ClientTypeOK
<1>5. ClosedInv'
  <2> SUFFICES ASSUME closed PROVE ClosedInv'
    BY <1>u DEF ClosedInv
  <2>1. stage[r] = "ok" => r[1] \in ended
    BY <1>i, <1>k DEF ClientInv, ClosedInv
  <2>2. \A h \in Handles : h # r[1] => stage'[<<h, current>>] = stage[<<h, current>>]
    BY <1>h, <1>i
  <2>3. QED BY <1>u, <1>c, <2>1, <2>2 DEF ClientInv, ClosedInv
<1>s. \A s \in Sids : Resuming(s)' => Resuming(s)
  BY <1>h, <1>c, RequestParts DEF Resuming
<1>e. \A q : ErrorComing(q)' <=> ErrorComing(q)
  BY <1>u DEF ErrorComing
<1>6. ResumeInv'
  BY <1>u, <1>s, <1>h, <1>i, <1>e DEF ClientInv, ResumeInv, ClientTypeOK
<1>7. PaidInv'
  <2>1. LostUnread' = LostUnread
    BY <1>u DEF LostUnread
  <2>2. Owed' => Owed
    BY <1>u, <1>s, <1>h, <1>i, <1>e DEF Owed
  <2>3. QED BY <1>u, <1>i, <2>1, <2>2, PaidStep DEF ClientInv
<1>8. QED BY <1>1, <1>2, <1>3, <1>4, <1>5, <1>6, <1>7 DEF ClientInv

\* _resume_all goes on, or the reconnect task waits again or gives up.
LEMMA ResumeAllResumes ==
    ASSUME ClientTypeOK, ClientInv, NEW r \in Sids, first[r[1]] # r[2],
           stage[r] \in {"ok", "error", "failed"},
           IF stage[r] = "ok" THEN Activated(r) ELSE UNCHANGED <<sid, byServer>>,
           IF stage[r] = "ok" /\ (connected \/ todo = {})
           THEN /\ ResumeNext(todo, current, [stage EXCEPT ![r] = "none"], attempt)
                /\ UNCHANGED <<subs, ended>>
           ELSE Again(attempt) /\ stage' = [stage EXCEPT ![r] = "none"],
           UNCHANGED <<connVars, made, call, first, closed, events>>
    PROVE  ClientTypeOK' /\ ClientInv'
<1>u. UNCHANGED <<current, connected, reading, link, wire, made, call, first, closed, events>>
  BY DEF connVars
<1>i. /\ r[1] \in Handles /\ r[2] \in Conns /\ r = <<r[1], r[2]>> /\ r \in Requests
      /\ \A h \in Handles : <<h, current>> \in Sids /\ <<h, current>> \in Requests
      /\ current \in Conns /\ events \in Nat
  BY RequestParts, ClientAssumption DEF ClientTypeOK
<1>r. /\ Resuming(r) /\ recon = "resuming" /\ r[2] = current /\ ~closed
      /\ \A q \in Sids : Resuming(q) => q = r
      /\ r[1] \notin todo /\ call[r[1]] # "new"
  <2>1. Resuming(r)
    BY DEF Resuming
  <2>2. recon = "resuming" /\ r[2] = current /\ \A q \in Sids : Resuming(q) => q = r
    BY <2>1 DEF ClientInv, ResumeInv
  <2>3. r[1] \notin todo
    BY <2>2, <1>i DEF ClientInv, ResumeInv
  <2>4. call[r[1]] # "new"
    BY <1>i DEF ClientInv, HandleInv
  <2>5. ~closed
    BY <2>2 DEF ClientInv, ClosedInv
  <2>6. QED BY <2>1, <2>2, <2>3, <2>4, <2>5
<1>a. /\ sid' \in [Handles -> {0} \union Conns] /\ byServer' \subseteq Sids
      /\ MappedIsLive'
      /\ \A h \in Handles : sid'[h] <= current
      /\ \A h \in Handles : \/ sid'[h] = sid[h]
                            \/ h = r[1] /\ <<h, sid'[h]>> \in byServer'
      /\ byServer \subseteq byServer'
  BY <1>u, ActivatedFacts
<1>b. /\ subs' \subseteq subs /\ ended \subseteq ended' /\ subs \subseteq subs' \union ended'
      /\ ended' \subseteq Handles /\ todo' \subseteq todo
      /\ attempt' \in 0..MaxReconnect /\ recon' \in {"none", "waiting", "resuming"}
      /\ recon' # "resuming" => todo' = {}
      /\ recon' = "none" => attempt' = 0
      /\ recon' = "waiting" => attempt' < MaxReconnect /\ ~(stage[r] = "ok" /\ connected)
  <2>1. CASE /\ ResumeNext(todo, current, [stage EXCEPT ![r] = "none"], attempt)
             /\ UNCHANGED <<subs, ended>>
    <3>1. /\ attempt \in 0..MaxReconnect /\ 0 \in 0..MaxReconnect
          /\ subs \subseteq Handles /\ ended \subseteq Handles
      BY ClientAssumption DEF ClientTypeOK
    <3>2. \/ recon' = "none" /\ attempt' = 0 /\ todo' = {}
          \/ recon' = "resuming" /\ attempt' = attempt /\ todo' \subseteq todo
      BY <2>1 DEF ResumeNext
    <3>3. QED BY <2>1, <3>1, <3>2
  <2>2. CASE Again(attempt) /\ ~(stage[r] = "ok" /\ connected)
    <3>1. attempt \in 0..MaxReconnect /\ 0 \in 0..MaxReconnect
      BY ClientAssumption DEF ClientTypeOK
    <3>2. QED BY <2>2, <3>1, AgainFacts
  <2>3. QED BY <2>1, <2>2
<1> DEFINE New(q) == /\ q[1] \in todo /\ q[1] \notin todo' /\ q[2] = current
                     /\ recon' = "resuming" /\ connected /\ stage'[q] = "sent"
<1>h. /\ stage' \in [Requests -> {"none", "sent", "ok", "error", "failed"}]
      /\ \A q \in Requests : \/ stage'[q] = "none"
                             \/ q # r /\ stage'[q] = stage[q]
                             \/ q \in Sids /\ New(q)
      /\ \A q, p \in Sids : New(q) /\ New(p) => q = p
  <2> DEFINE over == [stage EXCEPT ![r] = "none"]
  <2>0. /\ over \in [Requests -> {"none", "sent", "ok", "error", "failed"}]
        /\ \A q \in Requests : over[q] = IF q = r THEN "none" ELSE stage[q]
    BY <1>i DEF ClientTypeOK
  <2> HIDE DEF over
  <2>1. CASE stage' = over /\ recon' # "resuming"
    BY <2>0, <2>1
  <2>2. ASSUME NEW h \in todo, recon' = "resuming", connected, todo' = todo \ {h},
               stage' = [over EXCEPT ![<<h, current>>] = "sent"]
        PROVE  <1>h!:
    <3>1. h \in Handles /\ <<h, current>> \in Requests /\ <<h, current>> \in Sids
      BY <1>i DEF ClientTypeOK
    <3>2. stage' \in [Requests -> {"none", "sent", "ok", "error", "failed"}]
      BY <2>0, <2>2, <3>1
    <3>3. \A q \in Requests : stage'[q] = IF q = <<h, current>> THEN "sent" ELSE over[q]
      BY <2>0, <2>2, <3>1
    <3>4. \A q \in Requests : q = <<h, current>> => q \in Sids /\ New(q)
      BY <2>2, <3>1, <3>3
    <3>5. \A q \in Sids : New(q) => q = <<h, current>>
      BY <2>2, RequestParts
    <3>6. QED BY <2>0, <3>2, <3>3, <3>4, <3>5
  <2>3. CASE /\ ResumeNext(todo, current, over, attempt)
             /\ connected \/ todo = {}
    <3>1. \/ stage' = over /\ recon' # "resuming"
          \/ \E h \in todo : /\ recon' = "resuming" /\ todo' = todo \ {h}
                             /\ stage' = [over EXCEPT ![<<h, current>>] = "sent"]
      BY <2>3 DEF ResumeNext
    <3>2. QED BY <2>1, <2>2, <2>3, <3>1
  <2>4. CASE Again(attempt) /\ stage' = over
    <3>1. recon' # "resuming"
      BY <2>4 DEF Again
    <3>2. QED BY <2>1, <2>4, <3>1
  <2>5. QED BY <2>3, <2>4 DEF over
<1>1. ClientTypeOK'
  BY <1>u, <1>h, <1>a, <1>b DEF ClientTypeOK
<1>2. ReadInv'
  <2>1. \A q \in Requests : stage'[q] \in {"sent", "ok", "error"} => q[2] \in reading
    BY <1>h DEF ClientInv, ReadInv
  <2>2. QED BY <1>u, <1>a, <2>1 DEF ClientInv, ReadInv
<1>3. FreshInv'
  <2>1. \A q \in Requests : q[2] > current => stage'[q] = "none"
    <3>1. ~(current > current)
      BY <1>i, ConnNumbers
    <3>2. QED BY <1>h, <3>1 DEF ClientInv, FreshInv
  <2>2. QED BY <1>u, <1>a, <2>1 DEF ClientInv, FreshInv
<1>4. HandleInv'
  <2>1. \A h \in Handles : call[h] = "new" =>
           /\ h \notin subs' /\ h \notin todo' /\ first[h] = 0 /\ sid'[h] = 0
           /\ \A d \in Conns : stage'[<<h, d>>] = "none"
    <3> SUFFICES ASSUME NEW h \in Handles, call[h] = "new"
                 PROVE  /\ h \notin subs' /\ h \notin todo' /\ first[h] = 0 /\ sid'[h] = 0
                        /\ \A d \in Conns : stage'[<<h, d>>] = "none"
      OBVIOUS
    <3>1. /\ h # r[1] /\ h \notin subs /\ h \notin todo /\ first[h] = 0 /\ sid[h] = 0
          /\ \A d \in Conns : stage[<<h, d>>] = "none"
      BY <1>r DEF ClientInv, HandleInv
    <3>2. \A d \in Conns : stage'[<<h, d>>] = "none"
      BY <3>1, <1>h, RequestParts
    <3>3. QED BY <3>1, <3>2, <1>a, <1>b
  <2>2. QED BY <1>u, <1>b, <2>1 DEF ClientInv, HandleInv
<1>5. ActiveMapped'
  BY <1>u, <1>a, <1>b DEF ClientInv, ActiveMapped, ClientTypeOK
<1>6. ClosedInv'
  BY <1>u, <1>r DEF ClosedInv
<1>s. \A q \in Sids : Resuming(q)' => New(q)
  <2> SUFFICES ASSUME NEW q \in Sids, Resuming(q)' PROVE New(q)
    OBVIOUS
  <2>1. q \in Requests /\ stage'[q] # "none" /\ first[q[1]] # q[2]
    BY <1>u, RequestParts DEF Resuming
  <2>2. q # r /\ stage'[q] = stage[q] => FALSE
    BY <2>1, <1>r DEF Resuming
  <2>3. QED BY <2>1, <2>2, <1>h
<1>e. \A q : ErrorComing(q)' <=> ErrorComing(q)
  BY <1>u DEF ErrorComing
<1>n. \A h \in todo : h \in Handles /\ stage[<<h, current>>] = "none"
                         /\ ~ErrorComing(<<h, current>>)
  BY DEF ClientInv, ResumeInv, ClientTypeOK
<1>7. ResumeInv'
  <2>1. \A h \in todo' : stage'[<<h, current>>] = "none" /\ ~ErrorComing(<<h, current>>)
    <3> TAKE h \in todo'
    <3>1. h \in todo /\ <<h, current>> \in Requests /\ <<h, current>>[1] = h
      BY <1>b, <1>n, <1>i
    <3>2. QED BY <3>1, <1>h, <1>n
  <2>2. \A q \in Sids : Resuming(q)' => recon' = "resuming" /\ q[2] = current
    BY <1>s
  <2>3. \A q, p \in Sids : Resuming(q)' /\ Resuming(p)' => q = p
    BY <1>s, <1>h
  <2>4. QED BY <1>u, <1>b, <1>e, <2>1, <2>2, <2>3 DEF ResumeInv
<1>8. PaidInv'
  <2>1. LostUnread' = LostUnread
    BY <1>u DEF LostUnread
  <2>2. Owed' => Owed
    <3>1. CASE recon' = "waiting"
      <4>1. \/ ~connected \/ stage[r] \in {"error", "failed"}
        BY <3>1, <1>b
      <4>2. QED BY <4>1, <1>r, <1>i DEF Owed
    <3>2. CASE recon' # "waiting"
      <4>1. \A h \in Handles : Resuming(<<h, current>>)' =>
               stage'[<<h, current>>] = "sent" /\ ~ErrorComing(<<h, current>>)
        <5> SUFFICES ASSUME NEW h \in Handles, Resuming(<<h, current>>)'
                     PROVE  stage'[<<h, current>>] = "sent" /\ ~ErrorComing(<<h, current>>)
          OBVIOUS
        <5>1. <<h, current>> \in Sids /\ Resuming(<<h, current>>)'
          BY <1>i, <1>u
        <5>2. New(<<h, current>>)
          BY <5>1, <1>s, <1>u
        <5>3. QED BY <5>2, <1>n
      <4>2. QED BY <3>2, <4>1, <1>u, <1>r, <1>e DEF Owed
    <3>3. QED BY <3>1, <3>2
  <2>3. QED BY <1>u, <1>i, <2>1, <2>2, PaidStep DEF ClientInv
<1>9. QED BY <1>1, <1>2, <1>3, <1>4, <1>5, <1>6, <1>7, <1>8 DEF ClientInv

LEMMA ResumeKeeps ==
    ASSUME ClientTypeOK, ClientInv, NEW r \in Requests, Resume(r)
    PROVE  ClientTypeOK' /\ ClientInv'
<1>1. CASE r[1] = Publisher /\ stage' = [stage EXCEPT ![r] = "none"]
           /\ UNCHANGED <<subVars, reconVars, call, first>>
  BY <1>1, PublishResumes DEF Resume
<1>2. CASE r[1] \in Handles /\ first[r[1]] = r[2]
  <2>1. r \in Sids /\ r[1] # Publisher
    BY <1>2, RequestParts, ClientAssumption
  <2>2. QED BY <1>2, <2>1, SubscribeResumes DEF Resume
<1>3. CASE r[1] \in Handles /\ first[r[1]] # r[2]
  <2>1. r \in Sids /\ r[1] # Publisher
    BY <1>3, RequestParts, ClientAssumption
  <2>2. QED BY <1>3, <2>1, ResumeAllResumes DEF Resume
<1>4. QED BY <1>1, <1>2, <1>3 DEF Resume

-----------------------------------------------------------------------------

LEMMA ClientStep ==
    ASSUME ClientTypeOK, ClientInv, [Next]_vars
    PROVE  ClientTypeOK' /\ ClientInv'
<1>1. CASE UNCHANGED vars
  <2>1. UNCHANGED <<current, connected, reading, link, wire, subs, byServer, sid, ended, recon,
                    attempt, todo, made, stage, call, first, closed, events>>
    BY <1>1 DEF vars, connVars, subVars, reconVars
  <2>2. ClientTypeOK'
    BY <2>1 DEF ClientTypeOK
  <2>3. ReadInv' /\ FreshInv' /\ HandleInv' /\ ActiveMapped' /\ ClosedInv'
    BY <2>1 DEF ClientInv, ReadInv, MappedIsLive, FreshInv, HandleInv, ActiveMapped, ClosedInv
  <2>4. ResumeInv' /\ PaidInv'
    BY <2>1 DEF ClientInv, ResumeInv, Resuming, ErrorComing, PaidInv, LostUnread, Owed
  <2>5. QED BY <2>2, <2>3, <2>4 DEF ClientInv
<1>2. QED
  BY <1>1, RequestParts, AnswerKeeps, ResumeKeeps, PushKeeps, LinkLostKeeps, ReadFrameKeeps,
     DisconnectKeeps, OpenKeeps, OpenFailsKeeps, SubscribeKeeps, UnsubscribeKeeps,
     PublishKeeps, CloseKeeps DEF Next

\* The inductive invariant of the client.
LEMMA ClientInvHolds == Spec => [](ClientTypeOK /\ ClientInv)
<1>1. Init => ClientTypeOK /\ ClientInv
  BY InitClient
<1>2. ClientTypeOK /\ ClientInv /\ [Next]_vars => (ClientTypeOK /\ ClientInv)'
  BY ClientStep
<1>3. QED BY <1>1, <1>2, PTL DEF Spec

\* Every state of the client is well typed: no more connections are made than losses
\* and error replies call for, and the attempts stay within max_reconnect_attempts
\* (client.py:257-278).
THEOREM ClientTypeCorrect == Spec => []ClientTypeOK
<1>1. QED BY ClientInvHolds, PTL

\* Every request that waits is of a connection whose read loop runs, and will answer
\* it or fail it (client.py:224-230, 247-248).
THEOREM NoRequestHangs == Spec => []NoHungRequest
<1>1. ClientInv => NoHungRequest
  BY DEF ClientInv, ReadInv, NoHungRequest
<1>2. QED BY <1>1, ClientInvHolds, PTL

\* No id of a connection that is gone is mapped (client.py:195, 240).
THEOREM MappedIdsAreLive == Spec => []MappedIsLive
<1>1. ClientInv => MappedIsLive
  BY DEF ClientInv, ReadInv
<1>2. QED BY <1>1, ClientInvHolds, PTL

\* After close() every subscription that was handed out has ended, those whose call
\* was under way included (client.py:150-152).
THEOREM CloseEndsAll == Spec => []ClosedEnds
<1>1. ClientInv => ClosedEnds
  BY DEF ClientInv, ClosedInv, ClosedEnds
<1>2. QED BY <1>1, ClientInvHolds, PTL

\* A delivery of a subscription that is active on the connection in use is never
\* dropped for want of its id (client.py:232-236).
THEOREM ActiveIsRouted == Spec => RoutedOnceActive
<1> DEFINE Routed ==
      \A s \in Sids :
          Takes(s) /\ s[1] \in subs /\ sid[s[1]] = s[2]
                   /\ s[2] = current /\ link[current] = "up"
              => s \in byServer
<1>1. ClientTypeOK /\ ClientInv /\ [Next]_vars => [Routed]_vars
  BY RequestParts DEF ClientInv, ActiveMapped
<1> HIDE DEF Routed
<1>2. Spec => [][Routed]_vars
  BY <1>1, ClientInvHolds, PTL DEF Spec
<1>3. QED BY <1>2 DEF Routed, RoutedOnceActive
=============================================================================
