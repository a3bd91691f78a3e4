---------------------------- MODULE SQLiteProofs ----------------------------
(***************************************************************************)
(* What is written in a transaction, told to a publisher and handed back   *)
(* by an ack of the SQLite backend, for every number of messages, single   *)
(* writers and readers, and every bound on cancellations and failures.     *)
(***************************************************************************)
EXTENDS SQLiteDurability, SequenceFacts, FiniteSetTheorems, SequenceTheorems, TLAPS

Kinds == {"begin", "insert", "commit", "rollback", "close"}
Job == [task : Writers, kind : Kinds, row : Messages \union Callers, awaited : BOOLEAN]
J == ToSet(jobs)

Outside == {"idle", "asking", "ok", "failed"}
Inside(t) ==
    IF t \in Batchers THEN {"begin", "insert", "commit", "rollback"}
    ELSE IF t \in Singles THEN {"write"} ELSE {"pool", "read"}

Typed ==
    /\ SQLTypeOK
    /\ jobs \in Seq(Job)
    /\ todo \in [Callers -> Seq(Messages)]
    /\ queue \in Seq(Messages) /\ batch \in Seq(Messages)
    /\ buffer + lost <= MaxRecords

\* Whoever is inside a call has the lock, a writer alone; results wait for writers
\* inside.
PlaceInv ==
    /\ \A t \in Callers : pc[t] \in IF t \in holders THEN Inside(t) ELSE Outside
    /\ \A w \in holders \intersect Writers : holders = {w}
    /\ \A t \in Callers : result[t] # "none" => t \in holders \intersect Writers

\* The read connections are in the pool or with a reader.
Reading == {t \in Scanners : pc[t] = "read"}
PoolInv == free \in Nat /\ free + Cardinality(Reading) = PoolSize

\* Only the first statement may be one that nobody awaits, besides the close, and
\* behind a statement that is awaited there is at most the close.
Ordered(q) ==
    \A i, j \in DOMAIN q : i < j =>
        /\ q[j].awaited \/ q[j].kind = "close"
        /\ q[i].awaited => q[j].kind = "close"

\* A statement is of the drain task, or the insert of a single writer; one that is
\* awaited is the one its task stands at.
JobFits(j) ==
    /\ j.kind # "insert" => j.task = Drainer
    /\ j.kind = "insert" =>
        IF j.task \in Singles THEN j.row = j.task ELSE j.row \in Messages
    /\ j.awaited =>
        /\ j.kind # "close" /\ result[j.task] = "none"
        /\ pc[j.task] = IF j.task \in Singles THEN "write" ELSE j.kind
        /\ j.task = Drainer /\ j.kind = "insert" => j.row \in ToSet(batch)

JobInv == Ordered(jobs) /\ \A j \in J : JobFits(j)

\* A transaction the drain task stands in holds rows of its batch alone, and no
\* statement left over from another call can run in it.
BodyInv ==
    /\ opener = {} => uncommitted = {}
    /\ InBody(Drainer) =>
        /\ opener # {} => uncommitted \subseteq ToSet(batch)
        /\ \A j \in J :
              \/ j.awaited \/ j.kind = "close"
              \/ pc[Drainer] = "rollback" /\ j.kind = "insert" /\ j.row \in ToSet(batch)
    /\ Got(Drainer, "begin", "ok") => \A j \in J : j.kind = "close"

\* Every row of the batch is still to insert, being inserted, or in the transaction,
\* until the transaction is committed.
TodoInv ==
    /\ pc[Drainer] \in {"asking", "begin"} => todo[Drainer] = batch
    /\ ToSet(todo[Drainer]) \subseteq ToSet(batch)
    /\ Got(Drainer, "begin", "ok") => opener = {Drainer}
    /\ pc[Drainer] = "insert" /\ result[Drainer] # "error" =>
        /\ opener = {Drainer}
        /\ \A m \in ToSet(batch) :
              \/ m \in uncommitted \/ m \in ToSet(todo[Drainer])
              \/ \E j \in J : j.awaited /\ j.kind = "insert" /\ j.row = m
    /\ Got(Drainer, "commit", "none") => opener = {Drainer} /\ ToSet(batch) \subseteq uncommitted
    /\ Got(Drainer, "commit", "ok") \/ pc[Drainer] = "ok" => ToSet(batch) \subseteq committed

\* The write of a single that came back is in the log, or in a transaction that was
\* left open.
WriteInv ==
    \A s \in Singles : Got(s, "write", "ok") =>
        /\ \A j \in J : j.kind = "close"
        /\ s \in committed \/ \E t \in opener : ~InBody(t)

\* Rows are of messages handed in; those queued or in the batch are not answered.
ToldInv ==
    /\ drain = "on" <=> pc[Drainer] # "idle"
    /\ \A m \in ToSet(queue) \union ToSet(batch) : answer[m] \in {"waiting", "cancelled"}
    /\ ToSet(queue) \intersect ToSet(batch) = {}
    /\ \A m \in Messages :
          (m \in committed \union uncommitted \/ \E j \in J : j.row = m) => answer[m] # "unsent"

\* Unless a drain task was cancelled, nothing of it runs that it does not await, and
\* what is in the log has been told stored or is about to be.
AbsentInv ==
    ~interrupted =>
        /\ \A j \in J : j.task = Drainer /\ j.kind # "close" => j.awaited
        /\ \A m \in committed \intersect Messages :
              \/ answer[m] \in {"stored", "cancelled"}
              \/ m \in ToSet(batch) /\ (pc[Drainer] = "ok" \/ Got(Drainer, "commit", "ok"))

SQLInv ==
    /\ Typed /\ PlaceInv /\ PoolInv /\ JobInv /\ BodyInv /\ TodoInv /\ WriteInv
    /\ ToldInv /\ AbsentInv /\ FailedIsAbsent /\ NoOrphanAppend

-----------------------------------------------------------------------------
(* The tasks, and the statements given to the worker. *)

LEMMA Who ==
    /\ Batchers = {Drainer} /\ Drainer \in Callers /\ Drainer \in Writers
    /\ Drainer \notin Singles /\ Drainer \notin Scanners
    /\ Writers = {Drainer} \union Singles /\ Callers = Writers \union Scanners
    /\ Singles \intersect Scanners = {} /\ Writers \intersect Scanners = {}
    /\ Messages \intersect Callers = {}
BY SQLiteAssumption, BackendAssumption DEF Callers, Writers

LEMMA JobsAre == Typed => J \subseteq Job
<1> SUFFICES ASSUME Typed PROVE J \subseteq Job
  OBVIOUS
<1>1. jobs \in Seq(Job)
  BY DEF Typed
<1>2. \A i \in DOMAIN jobs : jobs[i] \in Job
  BY <1>1, ElementOfSeq, LenProperties
<1>3. QED BY <1>2 DEF J, ToSet

LEMMA BatchMessages ==
    Typed => ToSet(batch) \subseteq Messages /\ ToSet(queue) \subseteq Messages
<1> SUFFICES ASSUME Typed PROVE ToSet(batch) \subseteq Messages /\ ToSet(queue) \subseteq Messages
  OBVIOUS
<1>1. batch \in Seq(Messages) /\ queue \in Seq(Messages)
  BY DEF Typed
<1>2. /\ \A i \in DOMAIN batch : batch[i] \in Messages
      /\ \A i \in DOMAIN queue : queue[i] \in Messages
  BY <1>1, ElementOfSeq, LenProperties
<1>3. QED BY <1>2 DEF ToSet

LEMMA StatementFields ==
    ASSUME NEW t \in Writers, NEW k \in Kinds, NEW r \in Messages \union Callers
    PROVE  LET x == Statement(t, k, r) IN
           x \in Job /\ x.task = t /\ x.kind = k /\ x.row = r /\ x.awaited = TRUE
BY DEF Statement, Job

\* A statement may be given to the worker when nothing there is awaited.
LEMMA OrderedAppend ==
    ASSUME NEW q \in Seq(Job), NEW x \in Job, Ordered(q),
           x.kind = "close" \/ (x.awaited /\ \A j \in ToSet(q) : ~j.awaited)
    PROVE  Ordered(Append(q, x))
<1>1. /\ Len(q) \in Nat /\ DOMAIN q = 1..Len(q) /\ DOMAIN Append(q, x) = 1..(Len(q) + 1)
      /\ \A i \in 1..Len(q) : Append(q, x)[i] = q[i]
      /\ Append(q, x)[Len(q) + 1] = x
  <2>1. /\ Append(q, x) \in Seq(Job) /\ Len(Append(q, x)) = Len(q) + 1
        /\ \A i \in 1..Len(q) : Append(q, x)[i] = q[i]
        /\ Append(q, x)[Len(q) + 1] = x
    BY AppendProperties
  <2>2. DOMAIN Append(q, x) = 1..Len(Append(q, x)) /\ Len(q) \in Nat /\ DOMAIN q = 1..Len(q)
    BY <2>1, LenProperties
  <2>3. QED BY <2>1, <2>2
<1> DEFINE p == Append(q, x)
<1> SUFFICES ASSUME NEW i \in DOMAIN p, NEW j \in DOMAIN p, i < j
             PROVE  /\ p[j].awaited \/ p[j].kind = "close"
                    /\ p[i].awaited => p[j].kind = "close"
  BY DEF Ordered
<1> HIDE DEF p
<1>2. i \in DOMAIN q /\ p[i] = q[i]
  BY <1>1 DEF p
<1>3. CASE j \in DOMAIN q
  BY <1>1, <1>2, <1>3 DEF Ordered, p
<1>4. CASE j \notin DOMAIN q
  <2>1. p[j] = x
    BY <1>1, <1>4 DEF p
  <2>2. q[i] \in ToSet(q)
    BY <1>2, Zenon DEF ToSet
  <2>3. QED BY <1>2, <2>1, <2>2
<1>5. QED BY <1>3, <1>4

\* Behind the first statement nothing runs unawaited, besides the close; if it is
\* awaited there is at most the close.
LEMMA OrderedTail ==
    ASSUME NEW q \in Seq(Job), q # << >>, Ordered(q)
    PROVE  /\ Ordered(Tail(q))
           /\ \A j \in ToSet(Tail(q)) :
                 /\ j.awaited \/ j.kind = "close"
                 /\ Head(q).awaited => j.kind = "close"
<1> DEFINE p == Tail(q)
<1>1. /\ Head(q) = q[1] /\ Len(q) \in Nat \ {0} /\ DOMAIN q = 1..Len(q)
      /\ DOMAIN p = 1..(Len(q) - 1)
      /\ \A i \in 1..(Len(q) - 1) : p[i] = q[i + 1]
  <2>1. /\ p \in Seq(Job) /\ Head(q) = q[1] /\ Len(p) = Len(q) - 1
        /\ \A i \in 1..(Len(q) - 1) : p[i] = q[i + 1]
    BY HeadTailProperties
  <2>2. DOMAIN p = 1..Len(p) /\ Len(q) \in Nat \ {0} /\ DOMAIN q = 1..Len(q)
    BY <2>1, LenProperties, EmptySeq
  <2>3. QED BY <2>1, <2>2
<1> HIDE DEF p
<1>2. \A i \in DOMAIN p : i + 1 \in DOMAIN q /\ 1 \in DOMAIN q /\ 1 < i + 1 /\ i \in Int
  BY <1>1
<1>3. Ordered(p)
  BY <1>1, <1>2 DEF Ordered
<1>4. \A i \in DOMAIN p :
         /\ p[i].awaited \/ p[i].kind = "close"
         /\ Head(q).awaited => p[i].kind = "close"
  BY <1>1, <1>2 DEF Ordered
<1>5. \A j \in ToSet(p) : \E i \in DOMAIN p : j = p[i]
  BY Zenon DEF ToSet
<1>6. \A j \in ToSet(p) :
         /\ j.awaited \/ j.kind = "close"
         /\ Head(q).awaited => j.kind = "close"
  BY <1>4, <1>5
<1>7. QED BY <1>3, <1>6 DEF p

\* What a task withdraws is the statement it awaits: it is gone, or nobody awaits it.
LEMMA WithdrawnOrdered ==
    ASSUME jobs \in Seq(Job), Ordered(jobs), \A j \in J : j.awaited => j.kind # "close",
           NEW t, NEW rest \in Withdrawn(t)
    PROVE  /\ rest \in Seq(Job) /\ Ordered(rest)
           /\ \A j \in ToSet(rest) :
                 \/ j \in J /\ ~(j.awaited /\ j.task = t)
                 \/ \E k \in J : /\ k.awaited /\ k.task = t
                                 /\ j = [k EXCEPT !.awaited = FALSE]
<1> DEFINE own == {i \in DOMAIN jobs : jobs[i].task = t /\ jobs[i].awaited}
           n == Len(jobs)
<1>1. n \in Nat /\ DOMAIN jobs = 1..n /\ \A i \in 1..n : jobs[i] \in Job /\ jobs[i] \in J
  BY LenProperties, ElementOfSeq, Zenon DEF J, ToSet
<1>2. \A i, k \in DOMAIN jobs : jobs[i].awaited /\ jobs[k].awaited => i = k
  <2>1. \A i, k \in DOMAIN jobs : jobs[i].awaited /\ jobs[k].awaited => ~(i < k)
    BY <1>1 DEF Ordered
  <2>2. QED BY <1>1, <2>1
<1>3. CASE own = {}
  <2>1. rest = jobs
    BY <1>3 DEF Withdrawn
  <2>2. \A j \in J : \E i \in DOMAIN jobs : j = jobs[i]
    BY Zenon DEF J, ToSet
  <2>3. \A j \in J : ~(j.awaited /\ j.task = t)
    BY <1>3, <2>2
  <2>4. QED BY <2>1, <2>3 DEF J
<1>4. ASSUME NEW i \in own, rest = RemoveAt(jobs, i)
      PROVE  /\ rest \in Seq(Job) /\ Ordered(rest)
             /\ \A j \in ToSet(rest) : j \in J /\ ~(j.awaited /\ j.task = t)
  <2>0. i \in 1..n /\ jobs[i].awaited
    BY <1>1
  <2>1. /\ rest \in Seq(Job) /\ DOMAIN rest = 1..(n - 1)
        /\ \A k \in 1..(n - 1) : rest[k] = jobs[IF k < i THEN k ELSE k + 1]
    BY <1>4, RemovedElement
  <2> DEFINE at(k) == IF k < i THEN k ELSE k + 1
  <2>2. \A k \in 1..(n - 1) : at(k) \in 1..n /\ at(k) # i /\ rest[k] = jobs[at(k)]
    BY <1>1, <2>0, <2>1
  <2>3. \A k, l \in 1..(n - 1) : k < l => at(k) < at(l)
    BY <1>1, <2>0
  <2> HIDE DEF at
  <2>4. Ordered(rest)
    BY <1>1, <2>1, <2>2, <2>3 DEF Ordered
  <2>5. \A k \in 1..(n - 1) : rest[k] \in J /\ ~rest[k].awaited
    BY <1>1, <1>2, <2>0, <2>2
  <2>6. \A j \in ToSet(rest) : \E k \in DOMAIN rest : j = rest[k]
    BY Zenon DEF ToSet
  <2>7. QED BY <2>1, <2>4, <2>5, <2>6
<1>5. ASSUME NEW i \in own \intersect {1}, rest = [jobs EXCEPT ![i].awaited = FALSE]
      PROVE  /\ rest \in Seq(Job) /\ Ordered(rest)
             /\ \A j \in ToSet(rest) :
                   \/ j \in J /\ ~(j.awaited /\ j.task = t)
                   \/ \E k \in J : /\ k.awaited /\ k.task = t
                                   /\ j = [k EXCEPT !.awaited = FALSE]
  <2>0. i = 1 /\ 1 \in 1..n /\ jobs[1].awaited /\ jobs[1].task = t
    BY <1>1
  <2> DEFINE x == [jobs[1] EXCEPT !.awaited = FALSE]
  <2>1. x \in Job /\ x.awaited = FALSE /\ x.kind = jobs[1].kind
    BY <1>1, <2>0 DEF Job
  <2>2. rest = [k \in 1..n |-> IF k = 1 THEN x ELSE jobs[k]]
    BY <1>1, <1>5, <2>0
  <2> HIDE DEF x
  <2>3. rest \in Seq(Job)
    <3>1. \A k \in 1..n : (IF k = 1 THEN x ELSE jobs[k]) \in Job
      BY <1>1, <2>1
    <3>2. QED BY <1>1, <2>2, <3>1
  <2>4. DOMAIN rest = 1..n /\ \A k \in 1..n : rest[k] = IF k = 1 THEN x ELSE jobs[k]
    BY <2>2
  <2>5. Ordered(rest)
    BY <1>1, <2>1, <2>4 DEF Ordered
  <2>6. \A k \in 1..n : k # 1 => rest[k] \in J /\ ~rest[k].awaited
    BY <1>1, <1>2, <2>0, <2>4
  <2>7. \A j \in ToSet(rest) : \E k \in DOMAIN rest : j = rest[k]
    BY Zenon DEF ToSet
  <2>8. jobs[1] \in J
    BY <1>1, <2>0
  <2>9. QED BY <2>0, <2>3, <2>4, <2>5, <2>6, <2>7, <2>8 DEF x
<1>6. own # {} => \/ \E i \in own : rest = RemoveAt(jobs, i)
                  \/ \E i \in own \intersect {1} : rest = [jobs EXCEPT ![i].awaited = FALSE]
  BY DEF Withdrawn
<1>7. QED BY <1>3, <1>4, <1>5, <1>6

\* A task that awaits nothing withdraws nothing.
LEMMA NothingWithdrawn ==
    ASSUME NEW t, \A j \in J : ~(j.awaited /\ j.task = t), NEW rest \in Withdrawn(t)
    PROVE  rest = jobs
<1>1. \A i \in DOMAIN jobs : jobs[i] \in J
  BY Zenon DEF J, ToSet
<1>2. QED BY <1>1 DEF Withdrawn

-----------------------------------------------------------------------------
(* The worker thread. *)

\* The worker is done with statement h, and its task, if it waits, has been told res.
Served(h, res) ==
    /\ h \in J /\ J = {h} \union J'
    /\ jobs' \in Seq(Job) /\ Ordered(jobs')
    /\ \A j \in J' :
          /\ j.awaited \/ j.kind = "close"
          /\ h.awaited => j.kind = "close"
    /\ result' \in [Callers -> {"none", "ok", "error"}]
    /\ \A t \in Callers : result'[t] = IF h.awaited /\ t = h.task THEN res ELSE result[t]
    /\ UNCHANGED <<pc, holders, todo, free, groupVars, logVars>>

\* What the statement h has done to the database.
Ran(h, res) ==
    \/ /\ h.kind = "begin" /\ res = "ok" /\ opener = {}
       /\ opener' = {h.task} /\ UNCHANGED <<uncommitted, committed>>
    \/ /\ h.kind = "insert" /\ res = "ok" /\ opener = {}
       /\ committed' = committed \union {h.row} /\ UNCHANGED <<opener, uncommitted>>
    \/ /\ h.kind = "insert" /\ res = "ok" /\ opener # {}
       /\ uncommitted' = uncommitted \union {h.row} /\ UNCHANGED <<opener, committed>>
    \/ /\ h.kind = "commit" /\ res = "ok"
       /\ committed' = committed \union uncommitted /\ uncommitted' = {} /\ opener' = {}
    \/ /\ h.kind = "rollback" /\ res = "ok"
       /\ uncommitted' = {} /\ opener' = {} /\ UNCHANGED committed
    \/ /\ h.kind \in {"insert", "commit"} /\ res = "error" /\ UNCHANGED committed
       /\ uncommitted' = {} /\ opener' = {}
    \/ /\ res = "error" \/ h.kind = "close"
       /\ UNCHANGED <<opener, uncommitted, committed>>

LEMMA WorkerServes ==
    ASSUME Typed, JobInv, Worker, UNCHANGED <<groupVars, logVars>>
    PROVE  \E h \in Job : \E res \in {"ok", "error"} : Served(h, res) /\ Ran(h, res)
<1> DEFINE h == Head(jobs)
<1>1. jobs \in Seq(Job) /\ Ordered(jobs) /\ result \in [Callers -> {"none", "ok", "error"}]
  BY DEF Typed, JobInv, SQLTypeOK
<1>2. jobs # << >> /\ jobs' = Tail(jobs)
  BY DEF Worker, RunBegin, RunInsert, RunCommit, RunRollback, RunFails, RunClose,
         RunRefused, First, Finish
<1>3. /\ h \in Job /\ Tail(jobs) \in Seq(Job)
      /\ ToSet(jobs) = {h} \union ToSet(Tail(jobs))
  BY <1>1, <1>2, TailElements
<1>4. /\ Ordered(Tail(jobs))
      /\ \A j \in ToSet(Tail(jobs)) : /\ j.awaited \/ j.kind = "close"
                                      /\ h.awaited => j.kind = "close"
  BY <1>1, <1>2, OrderedTail
<1>5. h \in J /\ J = {h} \union J' /\ jobs' \in Seq(Job) /\ Ordered(jobs')
  BY <1>2, <1>3, <1>4 DEF J
<1>6. \A j \in J' : /\ j.awaited \/ j.kind = "close"
                    /\ h.awaited => j.kind = "close"
  BY <1>2, <1>4 DEF J
<1>7. h.kind = "close" => ~h.awaited
  BY <1>5 DEF JobInv, JobFits
<1> HIDE DEF h
<1>8. ASSUME NEW res \in {"ok", "error"},
             \/ result' = IF h.awaited THEN [result EXCEPT ![h.task] = res] ELSE result
             \/ UNCHANGED result /\ ~h.awaited,
             UNCHANGED <<pc, holders, todo, free>>
      PROVE  Served(h, res)
  <2>0. h.task \in Callers
    BY <1>3, Who DEF Job
  <2>1. /\ result' \in [Callers -> {"none", "ok", "error"}]
        /\ \A t \in Callers : result'[t] = IF h.awaited /\ t = h.task THEN res ELSE result[t]
    BY <1>1, <1>8, <2>0
  <2>2. QED BY <1>5, <1>6, <1>8, <2>1 DEF Served
<1>9. CASE RunBegin
  <2> DEFINE res == IF opener = {} THEN "ok" ELSE "error"
  <2>1. Ran(h, res) /\ res \in {"ok", "error"}
    BY <1>9 DEF RunBegin, First, Ran, h
  <2>2. Served(h, res)
    BY <1>8, <1>9 DEF RunBegin, Finish, h
  <2>3. QED BY <1>3, <2>1, <2>2 DEF h
<1>10. CASE RunInsert
  <2>1. Ran(h, "ok")
    BY <1>10 DEF RunInsert, First, Ran, h
  <2>2. Served(h, "ok")
    BY <1>8, <1>10 DEF RunInsert, Finish, h
  <2>3. QED BY <1>3, <2>1, <2>2 DEF h
<1>11. CASE RunCommit
  <2>1. Ran(h, "ok")
    BY <1>11 DEF RunCommit, First, Ran, h
  <2>2. Served(h, "ok")
    BY <1>8, <1>11 DEF RunCommit, Finish, h
  <2>3. QED BY <1>3, <2>1, <2>2 DEF h
<1>12. CASE RunRollback
  <2>1. Ran(h, "ok")
    BY <1>12 DEF RunRollback, First, Ran, h
  <2>2. Served(h, "ok")
    BY <1>8, <1>12 DEF RunRollback, Finish, h
  <2>3. QED BY <1>3, <2>1, <2>2 DEF h
<1>13. CASE RunFails
  <2>1. Ran(h, "error")
    BY <1>13 DEF RunFails, First, Ran, h
  <2>2. Served(h, "error")
    BY <1>8, <1>13 DEF RunFails, Finish, h
  <2>3. QED BY <1>3, <2>1, <2>2 DEF h
<1>14. CASE RunClose
  <2>1. Ran(h, "ok") /\ h.kind = "close"
    BY <1>14 DEF RunClose, First, Ran, h
  <2>2. Served(h, "ok")
    BY <1>7, <1>8, <1>14, <2>1 DEF RunClose
  <2>3. QED BY <1>3, <2>1, <2>2 DEF h
<1>15. CASE RunRefused
  <2>1. Ran(h, "error")
    BY <1>15 DEF RunRefused, Ran, data
  <2>2. Served(h, "error")
    BY <1>8, <1>15 DEF RunRefused, Finish, h
  <2>3. QED BY <1>3, <2>1, <2>2 DEF h
<1>16. QED BY <1>9, <1>10, <1>11, <1>12, <1>13, <1>14, <1>15 DEF Worker

LEMMA WorkerTyped ==
    ASSUME Typed, JobInv, NEW h \in Job, NEW res \in {"ok", "error"}, Served(h, res), Ran(h, res)
    PROVE  Typed'
<1>1. /\ opener' \in SUBSET Batchers
      /\ uncommitted' \subseteq Messages \union Singles
      /\ committed' \subseteq Messages \union Singles
  <2>1. JobFits(h) /\ h.task \in Writers /\ h.kind \in Kinds
    BY DEF Served, JobInv, Job
  <2>2. h.kind = "begin" => h.task \in Batchers
    BY <2>1, Who DEF JobFits
  <2>3. h.kind = "insert" => h.row \in Messages \union Singles
    BY <2>1, Who DEF JobFits
  <2>4. QED BY <2>2, <2>3 DEF Typed, SQLTypeOK, Ran
<1>2. QED BY <1>1 DEF Typed, SQLTypeOK, Served, groupVars, logVars

LEMMA WorkerPlaces ==
    ASSUME Typed, PlaceInv, PoolInv, JobInv, NEW h \in Job, NEW res \in {"ok", "error"},
           Served(h, res)
    PROVE  PlaceInv' /\ PoolInv'
<1>1. h.awaited => h.task \in holders \intersect Writers
  BY Who DEF Served, JobInv, JobFits, PlaceInv, Job, Kinds, Outside
<1>2. UNCHANGED <<pc, holders, free>>
      /\ \A t \in Callers : result'[t] # "none" =>
             result[t] # "none" \/ (h.awaited /\ t = h.task)
  BY DEF Served
<1>3. PlaceInv'
  BY <1>1, <1>2 DEF PlaceInv
<1>4. PoolInv'
  BY <1>2 DEF PoolInv, Reading
<1>5. QED BY <1>3, <1>4

LEMMA WorkerJobs ==
    ASSUME Typed, JobInv, NEW h \in Job, NEW res \in {"ok", "error"}, Served(h, res)
    PROVE  JobInv'
<1>1. ASSUME NEW j \in J' PROVE JobFits(j)'
  <2>1. j \in J /\ JobFits(j) /\ j \in Job /\ (h.awaited => j.kind = "close")
    BY JobsAre DEF Served, JobInv
  <2>2. j.task \in Callers
    BY <2>1, Who DEF Job
  <2>3. j.awaited => result'[j.task] = result[j.task]
    BY <2>1, <2>2 DEF Served, JobFits
  <2>4. UNCHANGED <<pc, batch>>
    BY DEF Served, groupVars
  <2>5. QED BY <2>1, <2>3, <2>4 DEF JobFits
<1>2. QED BY <1>1 DEF JobInv, Served

\* A statement that runs while the drain task is in the body of its transaction is
\* the one it awaits, the close, or, when it rolls back, an insert of its batch.
LEMMA RunsInBody ==
    ASSUME PlaceInv, JobInv, BodyInv, NEW h \in Job, NEW res \in {"ok", "error"},
           Served(h, res), InBody(Drainer)
    PROVE  /\ h.awaited => h.task = Drainer /\ h.kind = pc[Drainer]
           /\ Got(Drainer, "begin", "ok") => h.kind = "close"
           /\ \/ h.awaited \/ h.kind = "close"
              \/ pc[Drainer] = "rollback" /\ h.kind = "insert" /\ h.row \in ToSet(batch)
<1>1. Drainer \in holders
  BY Who DEF PlaceInv, InBody, Got, Outside
<1>2. h \in J /\ JobFits(h) /\ h.task \in Callers /\ h.task \in Writers
  BY Who DEF Served, JobInv, Job
<1>3. h.awaited => h.task \in holders
  BY <1>2, Who DEF PlaceInv, JobFits, Outside, Job, Kinds
<1>4. h.awaited => h.task = Drainer
  BY <1>1, <1>2, <1>3, Who DEF PlaceInv
<1>5. QED BY <1>2, <1>4, Who DEF JobFits, BodyInv

LEMMA WorkerBody ==
    ASSUME Typed, PlaceInv, JobInv, BodyInv, TodoInv, NEW h \in Job,
           NEW res \in {"ok", "error"}, Served(h, res), Ran(h, res)
    PROVE  BodyInv'
<1>0. UNCHANGED <<pc, batch>> /\ h \in J /\ JobFits(h) /\ J' \subseteq J
  BY DEF Served, groupVars, JobInv
<1>1. (opener = {} => uncommitted = {})'
  BY DEF Ran, BodyInv
<1>2. CASE InBody(Drainer)
  <2>1. InBody(Drainer)'
    <3>1. pc[Drainer] = "begin" => result'[Drainer] = "ok"
      BY <1>2, RunsInBody, <1>0, Who DEF Served, InBody, Got, JobFits
    <3>2. QED BY <1>0, <1>2, <3>1 DEF InBody, Got
  <2>2. h.kind = "insert" => h.row \in ToSet(batch)
    <3>1. CASE h.awaited
      BY <1>0, <1>2, <3>1, RunsInBody DEF JobFits
    <3>2. CASE ~h.awaited
      BY <1>2, <3>2, RunsInBody
    <3>3. QED BY <3>1, <3>2
  <2>3. (opener # {} => uncommitted \subseteq ToSet(batch))'
    <3>1. opener # {} => uncommitted \subseteq ToSet(batch)
      BY <1>2 DEF BodyInv
    <3>2. h.kind # "begin"
      BY <1>2, RunsInBody DEF InBody, Got, Served, JobInv, JobFits
    <3>3. QED BY <1>0, <2>2, <3>1, <3>2 DEF Ran
  <2>4. QED BY <1>0, <1>1, <1>2, <2>1, <2>3 DEF BodyInv, InBody, Got
<1>3. CASE ~InBody(Drainer)
  <2>1. CASE InBody(Drainer)'
    <3>1. h.awaited /\ h.task = Drainer /\ res = "ok" /\ h.kind = "begin"
      BY <1>0, <1>3, <2>1, Who DEF Served, InBody, Got, JobFits
    <3>2. uncommitted' = {} /\ \A j \in J' : j.kind = "close"
      BY <3>1, <1>1 DEF Ran, BodyInv, Served
    <3>3. QED BY <1>1, <3>2 DEF BodyInv
  <2>2. CASE ~InBody(Drainer)'
    BY <1>1, <2>2 DEF BodyInv, InBody
  <2>3. QED BY <2>1, <2>2
<1>4. QED BY <1>2, <1>3

LEMMA WorkerTodo ==
    ASSUME Typed, PlaceInv, JobInv, BodyInv, TodoInv, NEW h \in Job,
           NEW res \in {"ok", "error"}, Served(h, res), Ran(h, res)
    PROVE  TodoInv'
<1>0. /\ UNCHANGED <<pc, batch, todo>> /\ h \in J /\ JobFits(h) /\ J = {h} \union J'
      /\ Drainer \in Callers /\ committed \subseteq committed'
  BY Who DEF Served, groupVars, JobInv, Ran
<1>1. (Got(Drainer, "begin", "ok") => opener = {Drainer})'
  <2> SUFFICES ASSUME Got(Drainer, "begin", "ok")'
               PROVE  opener' = {Drainer}
    OBVIOUS
  <2>1. CASE Got(Drainer, "begin", "ok")
    <3>1. h.kind = "close" /\ opener = {Drainer} /\ InBody(Drainer)
      BY <2>1, RunsInBody DEF TodoInv, InBody
    <3>2. ~h.awaited
      BY <3>1, <1>0 DEF JobFits
    <3>3. QED BY <1>0, <3>1 DEF Ran, JobFits, Served
  <2>2. CASE ~Got(Drainer, "begin", "ok")
    <3>1. h.awaited /\ h.task = Drainer /\ res = "ok" /\ h.kind = "begin"
      BY <1>0, <2>2 DEF Served, Got, JobFits
    <3>2. QED BY <3>1 DEF Ran
  <2>3. QED BY <2>1, <2>2
<1>2. ASSUME pc[Drainer] = "insert", result'[Drainer] # "error"
      PROVE  /\ opener' = {Drainer}
             /\ \A m \in ToSet(batch) :
                   \/ m \in uncommitted' \/ m \in ToSet(todo[Drainer])
                   \/ \E j \in J' : j.awaited /\ j.kind = "insert" /\ j.row = m
  <2>1. InBody(Drainer)
    BY <1>2 DEF InBody
  <2>2. (h.awaited => h.task = Drainer /\ h.kind = "insert") /\ (h.awaited \/ h.kind = "close")
    BY <1>2, <2>1, RunsInBody
  <2>3. result[Drainer] # "error"
    BY <1>0, <1>2, <2>2 DEF JobFits, Served
  <2>4. /\ opener = {Drainer}
        /\ \A m \in ToSet(batch) :
              \/ m \in uncommitted \/ m \in ToSet(todo[Drainer])
              \/ \E j \in J : j.awaited /\ j.kind = "insert" /\ j.row = m
    BY <1>2, <2>3 DEF TodoInv
  <2>5. CASE h.awaited
    <3>1. res = "ok" /\ h.kind = "insert"
      BY <1>0, <1>2, <2>2, <2>5 DEF Served
    <3>2. uncommitted' = uncommitted \union {h.row} /\ opener' = opener
      BY <2>4, <3>1 DEF Ran
    <3>3. QED BY <1>0, <2>4, <3>2
  <2>6. CASE ~h.awaited
    <3>1. h.kind = "close"
      BY <2>2, <2>6
    <3>2. UNCHANGED <<opener, uncommitted>>
      BY <3>1 DEF Ran
    <3>3. QED BY <1>0, <2>4, <2>6, <3>2
  <2>7. QED BY <2>5, <2>6
<1>3. ASSUME Got(Drainer, "commit", "none")'
      PROVE  opener' = {Drainer} /\ ToSet(batch) \subseteq uncommitted'
  <2>1. InBody(Drainer) /\ pc[Drainer] = "commit"
    BY <1>0, <1>3 DEF InBody, Got
  <2>2. (h.awaited => h.task = Drainer) /\ (h.awaited \/ h.kind = "close")
    BY <2>1, RunsInBody
  <2>3. ~h.awaited /\ Got(Drainer, "commit", "none")
    BY <1>0, <1>3, <2>1, <2>2 DEF Served, Got
  <2>4. opener = {Drainer} /\ ToSet(batch) \subseteq uncommitted
    BY <2>3 DEF TodoInv
  <2>5. UNCHANGED <<opener, uncommitted>>
    BY <2>2, <2>3 DEF Ran
  <2>6. QED BY <2>4, <2>5
<1>4. ASSUME (Got(Drainer, "commit", "ok") \/ pc[Drainer] = "ok")'
      PROVE  ToSet(batch) \subseteq committed'
  <2>1. CASE Got(Drainer, "commit", "ok") \/ pc[Drainer] = "ok"
    BY <1>0, <2>1 DEF TodoInv
  <2>2. CASE ~(Got(Drainer, "commit", "ok") \/ pc[Drainer] = "ok")
    <3>1. pc[Drainer] = "commit" /\ h.awaited /\ h.task = Drainer /\ res = "ok"
      BY <1>0, <1>4, <2>2 DEF Served, Got
    <3>2. h.kind = "commit" /\ Got(Drainer, "commit", "none")
      BY <1>0, <3>1, Who DEF JobFits, Got
    <3>3. ToSet(batch) \subseteq uncommitted /\ committed' = committed \union uncommitted
      BY <3>1, <3>2 DEF TodoInv, Ran
    <3>4. QED BY <3>3
  <2>3. QED BY <2>1, <2>2
<1>5. (pc[Drainer] \in {"asking", "begin"} => todo[Drainer] = batch)'
      /\ (ToSet(todo[Drainer]) \subseteq ToSet(batch))'
  BY <1>0 DEF TodoInv
<1>6. QED BY <1>0, <1>1, <1>2, <1>3, <1>4, <1>5 DEF TodoInv

LEMMA WorkerWrite ==
    ASSUME Typed, PlaceInv, JobInv, WriteInv, NEW h \in Job,
           NEW res \in {"ok", "error"}, Served(h, res), Ran(h, res)
    PROVE  WriteInv'
<1> SUFFICES ASSUME NEW s \in Singles, Got(s, "write", "ok")'
             PROVE  /\ \A j \in J' : j.kind = "close"
                    /\ s \in committed' \/ \E t \in opener' : ~InBody(t)'
  BY DEF WriteInv
<1>0. /\ pc' = pc /\ h \in J /\ JobFits(h) /\ J' \subseteq J
      /\ s \in Callers /\ s \in Writers /\ s # Drainer
  BY Who DEF Served, JobInv
<1>1. pc[s] = "write" /\ holders = {s} /\ Drainer \notin holders
  BY <1>0, Who DEF Got, PlaceInv, Outside
<1>2. pc[Drainer] \notin {"begin", "insert", "commit", "rollback"}
  BY <1>1, Who DEF PlaceInv, Outside
<1>3. ~InBody(Drainer)'
  BY <1>0, <1>2 DEF InBody, Got
<1>4. CASE Got(s, "write", "ok")
  <2>1. h.kind = "close" /\ \A j \in J' : j.kind = "close"
    BY <1>0, <1>4 DEF WriteInv
  <2>2. UNCHANGED <<opener, committed>>
    BY <2>1 DEF Ran
  <2>3. opener \subseteq {Drainer}
    BY Who DEF Typed, SQLTypeOK
  <2>4. QED BY <1>3, <1>4, <2>1, <2>2, <2>3 DEF WriteInv
<1>5. CASE ~Got(s, "write", "ok")
  <2>1. h.awaited /\ h.task = s /\ res = "ok" /\ h.kind = "insert" /\ h.row = s
    <3>1. h.awaited /\ h.task = s /\ res = "ok"
      BY <1>0, <1>5 DEF Served, Got
    <3>2. QED BY <1>0, <3>1 DEF JobFits
  <2>2. \A j \in J' : j.kind = "close"
    BY <2>1 DEF Served
  <2>3. opener \subseteq {Drainer}
    BY Who DEF Typed, SQLTypeOK
  <2>4. s \in committed' \/ opener' = {Drainer}
    BY <2>1, <2>3 DEF Ran
  <2>5. QED BY <1>3, <2>2, <2>4
<1>6. QED BY <1>4, <1>5

LEMMA WorkerTold ==
    ASSUME Typed, PlaceInv, JobInv, BodyInv, TodoInv, ToldInv, AbsentInv, FailedIsAbsent,
           NoOrphanAppend, NEW h \in Job, NEW res \in {"ok", "error"}, Served(h, res), Ran(h, res)
    PROVE  ToldInv' /\ AbsentInv' /\ FailedIsAbsent' /\ NoOrphanAppend'
<1>0. /\ UNCHANGED <<pc, queue, batch, drain, answer, closing, interrupted>>
      /\ h \in J /\ JobFits(h) /\ J' \subseteq J /\ Drainer \in Callers
  BY Who DEF Served, groupVars, JobInv
<1>1. ToldInv'
  <2>1. committed' \union uncommitted' \subseteq committed \union uncommitted \union {h.row}
    BY DEF Ran
  <2>2. \A m \in Messages :
          (m \in committed' \union uncommitted' \/ \E j \in J' : j.row = m) =>
             m \in committed \union uncommitted \/ \E j \in J : j.row = m
    BY <1>0, <2>1
  <2>3. QED BY <1>0, <2>2 DEF ToldInv
<1>2. NoOrphanAppend'
  BY <1>0 DEF NoOrphanAppend
<1>3. AbsentInv'
  <2> SUFFICES ASSUME ~interrupted, NEW m \in Messages, m \in committed'
               PROVE  \/ answer[m] \in {"stored", "cancelled"}
                      \/ /\ m \in ToSet(batch)
                         /\ pc[Drainer] = "ok" \/ Got(Drainer, "commit", "ok")'
    BY <1>0 DEF AbsentInv
  <2>1. CASE m \in committed
    <3>1. Got(Drainer, "commit", "ok") => Got(Drainer, "commit", "ok")'
      <4> SUFFICES ASSUME Got(Drainer, "commit", "ok") PROVE ~(h.awaited /\ h.task = Drainer)
        BY <1>0 DEF Served, Got
      <4>1. QED BY <1>0 DEF JobFits, Got
    <3>2. QED BY <2>1, <3>1 DEF AbsentInv
  <2>2. CASE m \notin committed
    <3>1. h.task = Drainer /\ h.awaited
      <4>1. h.kind \in {"insert", "commit"} /\ (h.kind = "insert" => h.row = m)
        BY <2>2 DEF Ran
      <4>2. h.task \notin Singles
        BY <4>1, <1>0, Who DEF JobFits, Job
      <4>3. h.task = Drainer
        BY <4>2, Who DEF Job
      <4>4. QED BY <1>0, <4>1, <4>3 DEF AbsentInv
    <3>2. h.kind = pc[Drainer] /\ result[Drainer] = "none"
      BY <1>0, <3>1, Who DEF JobFits
    <3>3. h.kind # "insert"
      <4> SUFFICES ASSUME h.kind = "insert" PROVE FALSE
        OBVIOUS
      <4>1. opener = {Drainer}
        BY <3>2 DEF TodoInv
      <4>2. QED BY <2>2, <4>1 DEF Ran
    <3>4. h.kind = "commit" /\ res = "ok" /\ m \in uncommitted
      BY <2>2, <3>3 DEF Ran
    <3>5. InBody(Drainer) /\ Got(Drainer, "commit", "none")
      BY <3>2, <3>4 DEF InBody, Got
    <3>6. m \in ToSet(batch)
      BY <3>4, <3>5 DEF BodyInv, TodoInv
    <3>7. Got(Drainer, "commit", "ok")'
      BY <1>0, <3>1, <3>2, <3>4 DEF Served, Got
    <3>8. QED BY <3>6, <3>7
  <2>3. QED BY <2>1, <2>2
<1>4. FailedIsAbsent'
  <2> SUFFICES ASSUME ~interrupted, NEW m \in Messages, answer[m] = "failed", m \in committed'
               PROVE  FALSE
    BY <1>0 DEF FailedIsAbsent
  <2>1. m \notin committed
    BY DEF FailedIsAbsent
  <2>2. m \in ToSet(batch)
    BY <1>0, <1>3 DEF AbsentInv
  <2>3. QED BY <2>2 DEF ToldInv
<1>5. QED BY <1>1, <1>2, <1>3, <1>4

LEMMA WorkerKeeps ==
    ASSUME SQLInv, Worker, UNCHANGED <<groupVars, logVars>>
    PROVE  SQLInv'
<1>1. PICK h \in Job : \E res \in {"ok", "error"} : Served(h, res) /\ Ran(h, res)
  BY WorkerServes DEF SQLInv
<1>2. PICK res \in {"ok", "error"} : Served(h, res) /\ Ran(h, res)
  BY <1>1
<1>3. Typed' /\ PlaceInv' /\ PoolInv' /\ JobInv'
  BY <1>2, WorkerTyped, WorkerPlaces, WorkerJobs DEF SQLInv
<1>4. BodyInv' /\ TodoInv' /\ WriteInv'
  BY <1>2, WorkerBody, WorkerTodo, WorkerWrite DEF SQLInv
<1>5. ToldInv' /\ AbsentInv' /\ FailedIsAbsent' /\ NoOrphanAppend'
  BY <1>2, WorkerTold DEF SQLInv
<1>6. QED BY <1>3, <1>4, <1>5 DEF SQLInv

-----------------------------------------------------------------------------
(* The calls. *)

\* A task waits for the worker only while it is inside.
LEMMA AwaitedInside ==
    ASSUME Typed, PlaceInv, JobInv, NEW j \in J, j.awaited
    PROVE  j.task \in holders \intersect Writers
BY JobsAre, Who DEF JobInv, JobFits, PlaceInv, Job, Kinds, Outside

\* A single writer that waits for the worker stands at its write.
LEMMA AwaitedAt ==
    ASSUME JobInv, Typed, NEW j \in J, j.awaited, j.task # Drainer
    PROVE  pc[j.task] = "write"
BY JobsAre, Who DEF JobInv, JobFits, Job

\* A statement x is given to the worker when it is not waited for by anybody.
LEMMA Submitted ==
    ASSUME Typed, JobInv, NEW x \in Job, jobs' = Append(jobs, x),
           x.kind = "close" \/ (x.awaited /\ \A j \in J : ~j.awaited)
    PROVE  jobs' \in Seq(Job) /\ Ordered(jobs') /\ J' = J \union {x}
<1>1. jobs \in Seq(Job) /\ Ordered(jobs)
  BY DEF Typed, JobInv
<1>2. Append(jobs, x) \in Seq(Job) /\ ToSet(Append(jobs, x)) = ToSet(jobs) \union {x}
  BY <1>1, AppendElements
<1>3. Ordered(Append(jobs, x))
  BY <1>1, OrderedAppend DEF J
<1>4. QED BY <1>2, <1>3 DEF J

LEMMA EnterWriteKeeps ==
    ASSUME SQLInv, NEW t \in Writers, EnterWrite(t), UNCHANGED <<groupVars, logVars>>
    PROVE  SQLInv'
<1> USE DEF SQLInv
<1> DEFINE k == IF t \in Batchers THEN "begin" ELSE "insert"
           p == IF t \in Batchers THEN "begin" ELSE "write"
           x == Statement(t, k, t)
<1>1. /\ pc[t] = "asking" /\ pc' = [pc EXCEPT ![t] = p] /\ jobs' = Append(jobs, x)
      /\ holders = {} /\ holders' = {t}
      /\ UNCHANGED <<result, todo, free, data, groupVars, logVars>>
  BY DEF EnterWrite, LockWrite, Lock!EnterAlone, SetPc
<1>2. x \in Job /\ x.task = t /\ x.kind = k /\ x.row = t /\ x.awaited = TRUE
  <2>1. k \in Kinds /\ t \in Messages \union Callers
    BY Who DEF Kinds
  <2> HIDE DEF k
  <2>2. QED BY <2>1, StatementFields
<1> HIDE DEF x
<1>3. \A j \in J : ~j.awaited
  BY <1>1, AwaitedInside
<1>4. jobs' \in Seq(Job) /\ Ordered(jobs') /\ J' = J \union {x}
  BY <1>1, <1>2, <1>3, Submitted
<1>5. /\ t \in Callers
      /\ \A c \in Callers : pc'[c] = IF c = t THEN p ELSE pc[c]
      /\ \A c \in Callers : pc[c] \in Outside /\ result[c] = "none"
  <2>1. t \in Callers /\ DOMAIN pc = Callers
    BY Who DEF Typed, SQLTypeOK
  <2>2. \A c \in Callers : pc[c] \in Outside /\ result[c] = "none"
    BY <1>1 DEF PlaceInv
  <2>3. QED BY <1>1, <2>1, <2>2
<1>6. Typed'
  BY <1>1, <1>4, Who DEF Typed, SQLTypeOK, data, groupVars, logVars
<1>7. PlaceInv'
  BY <1>1, <1>5, Who DEF PlaceInv, Inside, Outside
<1>8. PoolInv'
  <2>1. Reading' = Reading
    BY <1>5, Who DEF Reading
  <2>2. QED BY <1>1, <2>1 DEF PoolInv
<1>9. JobInv'
  <2>1. \A j \in J : JobFits(j)'
    BY <1>3 DEF JobInv, JobFits
  <2>2. JobFits(x)'
    BY <1>1, <1>2, <1>5, Who DEF JobFits
  <2>3. QED BY <1>4, <2>1, <2>2 DEF JobInv
<1>10. BodyInv'
  <2>1. ~InBody(Drainer)'
    BY <1>1, <1>5, Who DEF InBody, Got, Outside
  <2>2. QED BY <1>1, <2>1 DEF BodyInv, InBody, data
<1>11. TodoInv'
  BY <1>1, <1>5, Who DEF TodoInv, Got, data, groupVars, Outside
<1>12. WriteInv'
  BY <1>1, <1>5, Who DEF WriteInv, Got
<1>13. ToldInv'
  <2>1. \A m \in Messages : x.row # m
    BY <1>2, Who
  <2>2. pc'[Drainer] = "idle" <=> pc[Drainer] = "idle"
    BY <1>1, <1>5, Who
  <2>3. QED BY <1>1, <1>4, <2>1, <2>2 DEF ToldInv, data, groupVars
<1>14. AbsentInv'
  BY <1>1, <1>2, <1>4, <1>5, Who DEF AbsentInv, Got, data, groupVars
<1>15. FailedIsAbsent' /\ NoOrphanAppend'
  BY <1>1 DEF FailedIsAbsent, NoOrphanAppend, data, groupVars
<1>16. QED BY <1>6, <1>7, <1>8, <1>9, <1>10, <1>11, <1>12, <1>13, <1>14, <1>15

\* The drain task, in the body of its transaction, asks for its next statement.
LEMMA SubmitKeeps ==
    ASSUME SQLInv, NEW k \in {"insert", "commit", "rollback"}, NEW r \in Messages \union Callers,
           Submit(Drainer, k, r, k),
           k = "insert" => r \in ToSet(batch), k # "insert" => r \in Callers,
           Got(Drainer, "begin", "ok") \/ (pc[Drainer] = "insert" /\ result[Drainer] # "none"),
           todo' \in [Callers -> Seq(Messages)], TodoInv',
           UNCHANGED <<free, data, groupVars, logVars>>
    PROVE  SQLInv'
<1> USE DEF SQLInv
<1> DEFINE x == Statement(Drainer, k, r)
<1>1. /\ jobs' = Append(jobs, x) /\ pc' = [pc EXCEPT ![Drainer] = k]
      /\ result' = [result EXCEPT ![Drainer] = "none"] /\ UNCHANGED holders
  BY DEF Submit, SetPc
<1>2. x \in Job /\ x.task = Drainer /\ x.kind = k /\ x.row = r /\ x.awaited = TRUE
  <2>1. k \in Kinds /\ Drainer \in Writers
    BY Who DEF Kinds
  <2>2. QED BY <2>1, StatementFields
<1> HIDE DEF x
<1>3. /\ \A c \in Callers : pc'[c] = IF c = Drainer THEN k ELSE pc[c]
      /\ \A c \in Callers : result'[c] = IF c = Drainer THEN "none" ELSE result[c]
      /\ Drainer \in Callers
  BY <1>1, Who DEF Typed, SQLTypeOK
<1>4. Drainer \in holders /\ holders = {Drainer} /\ InBody(Drainer)
  BY Who DEF PlaceInv, Got, InBody, Outside
<1>5. \A j \in J : ~j.awaited
  <2> SUFFICES ASSUME NEW j \in J, j.awaited PROVE FALSE
    OBVIOUS
  <2>1. j.task = Drainer
    BY <1>4, AwaitedInside
  <2>2. QED BY <2>1 DEF JobInv, JobFits, Got
<1>6. \A j \in J : j.kind = "close"
  BY <1>4, <1>5 DEF BodyInv, Got
<1>7. jobs' \in Seq(Job) /\ Ordered(jobs') /\ J' = J \union {x}
  BY <1>1, <1>2, <1>5, Submitted
<1>8. Typed'
  <2>1. /\ pc' \in [Callers -> {"idle", "asking", "begin", "insert", "commit", "write",
                                "rollback", "pool", "read", "ok", "failed"}]
        /\ result' \in [Callers -> {"none", "ok", "error"}]
    BY <1>1, Who DEF Typed, SQLTypeOK
  <2>2. QED BY <1>1, <1>7, <2>1 DEF Typed, SQLTypeOK, data, groupVars, logVars
<1>9. PlaceInv'
  BY <1>1, <1>3, <1>4, Who DEF PlaceInv, Inside
<1>10. PoolInv'
  <2>1. Reading' = Reading
    BY <1>3, Who DEF Reading
  <2>2. QED BY <2>1 DEF PoolInv
<1>11. JobInv'
  <2>1. \A j \in J : JobFits(j)'
    BY <1>5 DEF JobInv, JobFits
  <2>2. x.kind = "insert" => x.row \in Messages /\ x.row \in ToSet(batch)
    <3>1. ToSet(batch) \subseteq Messages
      BY BatchMessages
    <3>2. QED BY <1>2, <3>1
  <2>3. JobFits(x)'
    BY <1>2, <1>3, <2>2, Who DEF JobFits, groupVars
  <2>4. QED BY <1>7, <2>1, <2>3 DEF JobInv
<1>12. BodyInv'
  BY <1>2, <1>3, <1>4, <1>6, <1>7 DEF BodyInv, Got, data, groupVars
<1>13. WriteInv'
  <2>1. \A s \in Singles : ~Got(s, "write", "ok")'
    BY <1>3, <1>4, Who DEF PlaceInv, Got, Outside
  <2>2. QED BY <2>1 DEF WriteInv, Got
<1>14. ToldInv'
  <2>1. \A m \in Messages : x.row = m => answer[m] # "unsent"
    BY <1>2, Who DEF ToldInv
  <2>2. pc'[Drainer] # "idle" /\ pc[Drainer] # "idle"
    BY <1>3 DEF Got
  <2>3. QED BY <1>7, <2>1, <2>2 DEF ToldInv, data, groupVars
<1>15. AbsentInv'
  <2>1. ~(pc[Drainer] = "ok" \/ Got(Drainer, "commit", "ok"))
    BY DEF Got
  <2>2. QED BY <1>2, <1>7, <2>1 DEF AbsentInv, data, groupVars
<1>16. FailedIsAbsent' /\ NoOrphanAppend'
  BY DEF FailedIsAbsent, NoOrphanAppend, data, groupVars
<1>17. QED BY <1>8, <1>9, <1>10, <1>11, <1>12, <1>13, <1>14, <1>15, <1>16

LEMMA NoElements == ToSet(<< >>) = {}
BY DEF ToSet

LEMMA NextKeeps ==
    ASSUME SQLInv, NextStatement(Drainer),
           Got(Drainer, "begin", "ok") \/ Got(Drainer, "insert", "ok"),
           UNCHANGED <<free, data, groupVars, logVars>>
    PROVE  SQLInv'
<1> DEFINE left == todo[Drainer]
<1>1. /\ left \in Seq(Messages) /\ batch \in Seq(Messages) /\ ToSet(left) \subseteq ToSet(batch)
      /\ Drainer \in Callers /\ opener = {Drainer}
      /\ result[Drainer] = "ok" /\ DOMAIN todo = Callers
  BY Who DEF SQLInv, Typed, TodoInv, Got
<1>2. \A m \in ToSet(batch) : m \in uncommitted \/ m \in ToSet(left)
  <2>1. CASE Got(Drainer, "begin", "ok")
    BY <2>1 DEF SQLInv, TodoInv, Got
  <2>2. CASE Got(Drainer, "insert", "ok")
    <3>1. holders = {Drainer}
      BY <2>2, Who DEF SQLInv, PlaceInv, Got, Outside
    <3>2. \A j \in J : ~j.awaited
      BY <2>2, <3>1, AwaitedInside DEF SQLInv, JobInv, JobFits, Got
    <3>3. QED BY <2>2, <3>2 DEF SQLInv, TodoInv, Got
  <2>3. QED BY <2>1, <2>2
<1>3. CASE left = << >>
  <2>1. Submit(Drainer, "commit", Drainer, "commit") /\ UNCHANGED todo
    BY <1>3 DEF NextStatement
  <2>2. pc'[Drainer] = "commit" /\ result'[Drainer] = "none"
    BY <1>1, <2>1 DEF Submit, SetPc, SQLInv, Typed, SQLTypeOK
  <2>3. ToSet(batch) \subseteq uncommitted
    BY <1>2, <1>3, NoElements
  <2>4. TodoInv'
    BY <1>1, <2>1, <2>2, <2>3 DEF TodoInv, Got, data, groupVars
  <2>5. todo' \in [Callers -> Seq(Messages)]
    BY <2>1 DEF SQLInv, Typed
  <2>6. QED BY <1>1, <2>1, <2>4, <2>5, SubmitKeeps DEF Got
<1>4. CASE left # << >>
  <2> DEFINE m == Head(left)
  <2>1. Submit(Drainer, "insert", m, "insert") /\ todo' = [todo EXCEPT ![Drainer] = Tail(left)]
    BY <1>4 DEF NextStatement
  <2>2. m \in Messages /\ Tail(left) \in Seq(Messages) /\ ToSet(left) = {m} \union ToSet(Tail(left))
    BY <1>1, <1>4, TailElements
  <2>3. todo' \in [Callers -> Seq(Messages)] /\ todo'[Drainer] = Tail(left)
    BY <1>1, <2>1, <2>2 DEF SQLInv, Typed
  <2>4. pc'[Drainer] = "insert" /\ result'[Drainer] = "none"
    BY <1>1, <2>1 DEF Submit, SetPc, SQLInv, Typed, SQLTypeOK
  <2>5. PICK x \in Job : /\ jobs' = Append(jobs, x)
                         /\ x.awaited = TRUE /\ x.kind = "insert" /\ x.row = m
    <3>1. "insert" \in Kinds /\ m \in Messages \union Callers /\ Drainer \in Writers
      BY <2>2, Who DEF Kinds
    <3>2. jobs' = Append(jobs, Statement(Drainer, "insert", m))
      BY <2>1 DEF Submit
    <3> DEFINE x == Statement(Drainer, "insert", m)
    <3> HIDE DEF m
    <3>3. x \in Job /\ x.kind = "insert" /\ x.row = m /\ x.awaited = TRUE
      BY <3>1 DEF Statement, Job
    <3> HIDE DEF x
    <3>4. jobs' = Append(jobs, x)
      BY <3>2 DEF x
    <3>5. QED BY <3>3, <3>4
  <2>6. x \in J'
    <3>1. jobs \in Seq(Job)
      BY DEF SQLInv, Typed
    <3>2. QED BY <2>5, <3>1, AppendElements DEF J
  <2>7. TodoInv'
    <3>1. \A n \in ToSet(batch) :
             \/ n \in uncommitted \/ n \in ToSet(Tail(left))
             \/ \E j \in J' : j.awaited /\ j.kind = "insert" /\ j.row = n
      BY <1>2, <2>2, <2>5, <2>6
    <3>2. QED BY <1>1, <2>2, <2>3, <2>4, <3>1 DEF TodoInv, Got, data, groupVars
  <2>8. m \in ToSet(batch)
    BY <1>1, <2>2
  <2>9. QED BY <1>1, <2>1, <2>2, <2>3, <2>7, <2>8, SubmitKeeps DEF Got
<1>5. QED BY <1>3, <1>4

LEMMA UndoKeeps ==
    ASSUME SQLInv, Undo(Drainer), Got(Drainer, "insert", "error"),
           UNCHANGED <<free, data, groupVars, logVars>>
    PROVE  SQLInv'
<1>1. Submit(Drainer, "rollback", Drainer, "rollback") /\ UNCHANGED todo /\ Drainer \in Callers
  BY Who DEF Undo
<1>2. pc'[Drainer] = "rollback"
  BY <1>1 DEF Submit, SetPc, SQLInv, Typed, SQLTypeOK
<1>3. TodoInv' /\ todo' \in [Callers -> Seq(Messages)]
  BY <1>1, <1>2 DEF SQLInv, Typed, TodoInv, Got, data, groupVars
<1>4. QED BY <1>1, <1>3, SubmitKeeps DEF Got

\* A writer that was told what became of its last statement leaves.
LEMMA LeaveKeeps ==
    ASSUME SQLInv, NEW t \in Writers, NEW outcome \in {"ok", "failed"},
           result[t] # "none", Leave(t, outcome),
           t = Drainer => (outcome = "ok" <=> Got(Drainer, "commit", "ok")),
           UNCHANGED <<todo, free, data, groupVars, logVars>>
    PROVE  SQLInv'
<1> USE DEF SQLInv
<1>1. /\ pc' = [pc EXCEPT ![t] = outcome] /\ result' = [result EXCEPT ![t] = "none"]
      /\ holders' = holders \ {t} /\ UNCHANGED jobs
  BY DEF Leave, SetPc, Lock!Leave
<1>2. t \in Callers /\ holders = {t} /\ holders' = {}
  BY <1>1, Who DEF PlaceInv
<1>3. /\ \A c \in Callers : pc'[c] = IF c = t THEN outcome ELSE pc[c]
      /\ \A c \in Callers : result'[c] = IF c = t THEN "none" ELSE result[c]
  BY <1>1, <1>2 DEF Typed, SQLTypeOK
<1>4. /\ \A c \in Callers \ {t} : pc[c] \in Outside /\ result[c] = "none"
      /\ \A c \in Callers : pc'[c] \in Outside /\ result'[c] = "none"
      /\ pc[t] \in Inside(t)
  BY <1>2, <1>3 DEF PlaceInv, Outside
<1>5. J' = J /\ \A j \in J : ~j.awaited
  <2>1. J' = J
    BY <1>1 DEF J
  <2> SUFFICES ASSUME NEW j \in J, j.awaited PROVE FALSE
    BY <2>1
  <2>2. j.task = t
    BY <1>2, AwaitedInside
  <2>3. QED BY <2>2 DEF JobInv, JobFits
<1>6. Typed'
  BY <1>1, <1>2 DEF Typed, SQLTypeOK, data, groupVars, logVars
<1>7. PlaceInv'
  BY <1>2, <1>4 DEF PlaceInv
<1>8. PoolInv'
  <2>1. Reading' = Reading
    BY <1>2, <1>3, <1>4, Who DEF Reading, Inside, Outside
  <2>2. QED BY <2>1 DEF PoolInv
<1>9. JobInv'
  BY <1>1, <1>5 DEF JobInv, JobFits
<1>10. BodyInv'
  <2>1. ~InBody(Drainer)' /\ ~Got(Drainer, "begin", "ok")'
    BY <1>4, Who DEF InBody, Got, Outside
  <2>2. QED BY <2>1 DEF BodyInv, data
<1>11. TodoInv'
  <2>1. pc'[Drainer] \notin {"begin", "insert", "commit"}
    BY <1>4, Who DEF Outside
  <2>2. pc'[Drainer] = "ok" => pc[Drainer] = "ok" \/ Got(Drainer, "commit", "ok")
    BY <1>3, Who
  <2>3. pc'[Drainer] = "asking" => pc[Drainer] = "asking"
    BY <1>3, Who
  <2>4. UNCHANGED <<todo, batch, committed>>
    BY DEF groupVars, data
  <2>5. QED BY <2>1, <2>2, <2>3, <2>4 DEF TodoInv, Got
<1>12. WriteInv'
  <2>1. \A s \in Singles : ~Got(s, "write", "ok")'
    BY <1>4, Who DEF Got
  <2>2. QED BY <2>1 DEF WriteInv, Got
<1>13. ToldInv'
  <2>1. pc'[Drainer] = "idle" <=> pc[Drainer] = "idle"
    BY <1>3, <1>4, Who DEF Inside
  <2>2. QED BY <1>5, <2>1 DEF ToldInv, data, groupVars
<1>14. AbsentInv'
  <2>1. (pc[Drainer] = "ok" \/ Got(Drainer, "commit", "ok")) => pc'[Drainer] = "ok"
    BY <1>3, <1>4, Who DEF Inside, Got, Outside
  <2>2. QED BY <1>5, <2>1 DEF AbsentInv, data, groupVars
<1>15. FailedIsAbsent' /\ NoOrphanAppend'
  BY DEF FailedIsAbsent, NoOrphanAppend, data, groupVars
<1>16. QED BY <1>6, <1>7, <1>8, <1>9, <1>10, <1>11, <1>12, <1>13, <1>14, <1>15

LEMMA AfterKeeps ==
    ASSUME SQLInv, NEW t \in Callers, AfterBegin(t) \/ AfterInsert(t) \/ AfterLast(t),
           UNCHANGED <<groupVars, logVars>>
    PROVE  SQLInv'
<1>1. result[t] # "none" => t \in holders \intersect Writers /\ pc[t] \in Inside(t)
  BY DEF SQLInv, PlaceInv
<1>2. UNCHANGED <<free, data>>
  BY DEF AfterBegin, AfterInsert, AfterLast
<1>3. CASE AfterBegin(t) \/ AfterInsert(t)
  <2>1. t = Drainer
    BY <1>1, <1>3, Who DEF AfterBegin, AfterInsert, Got, Inside
  <2>2. CASE (Got(t, "begin", "ok") \/ Got(t, "insert", "ok")) /\ NextStatement(t)
    BY <1>2, <2>1, <2>2, NextKeeps
  <2>3. CASE Got(t, "insert", "error") /\ Undo(t)
    BY <1>2, <2>1, <2>3, UndoKeeps
  <2>4. CASE Got(t, "begin", "error") /\ Leave(t, "failed") /\ UNCHANGED todo
    BY <1>1, <1>2, <2>1, <2>4, LeaveKeeps DEF Got
  <2>5. QED BY <1>3, <2>2, <2>3, <2>4 DEF AfterBegin, AfterInsert
<1>4. CASE AfterLast(t)
  <2> DEFINE outcome == IF pc[t] # "rollback" /\ result[t] = "ok" THEN "ok" ELSE "failed"
  <2>1. /\ Leave(t, outcome) /\ UNCHANGED todo /\ t \in Writers /\ result[t] # "none"
        /\ pc[t] \in {"commit", "rollback", "write"}
    BY <1>1, <1>4 DEF AfterLast
  <2>2. t = Drainer => (outcome = "ok" <=> Got(Drainer, "commit", "ok"))
    BY <1>1, <2>1, Who DEF Got, Inside
  <2>3. outcome \in {"ok", "failed"}
    OBVIOUS
  <2> HIDE DEF outcome
  <2>4. QED BY <1>2, <2>1, <2>2, <2>3, LeaveKeeps
<1>5. QED BY <1>3, <1>4

-----------------------------------------------------------------------------
(* The readers, and calls that start or give up before they write. *)

\* A call of another task than the drain task moves, and gives the worker nothing.
LEMMA MoveKeeps ==
    ASSUME SQLInv, NEW t \in Callers, t # Drainer, NEW p,
           pc[t] \notin {"write"}, p \in {"asking", "pool", "read", "ok", "failed"},
           pc' = [pc EXCEPT ![t] = p], holders' \subseteq Callers,
           PlaceInv', PoolInv',
           result' = result, todo' \in [Callers -> Seq(Messages)],
           todo'[Drainer] = todo[Drainer],
           UNCHANGED <<jobs, data, groupVars, logVars>>
    PROVE  SQLInv'
<1> USE DEF SQLInv
<1>1. /\ \A c \in Callers : pc'[c] = IF c = t THEN p ELSE pc[c]
      /\ Drainer \in Callers /\ pc'[Drainer] = pc[Drainer]
  BY Who DEF Typed, SQLTypeOK
<1>2. Typed'
  <2>1. free' \in 0..PoolSize
    <3>1. IsFiniteSet(Reading') /\ Reading' \subseteq Scanners
      BY SQLiteAssumption, FS_Subset DEF Reading
    <3>2. Cardinality(Reading') \in Nat
      BY <3>1, FS_CardinalityType
    <3>3. free' + Cardinality(Reading') = PoolSize /\ free' \in Nat
      BY DEF PoolInv, Reading
    <3>4. QED BY <3>2, <3>3, SQLiteAssumption
  <2>2. pc' \in [Callers -> {"idle", "asking", "begin", "insert", "commit", "write",
                             "rollback", "pool", "read", "ok", "failed"}]
    BY DEF Typed, SQLTypeOK
  <2>3. QED BY <2>1, <2>2 DEF Typed, SQLTypeOK, data, groupVars, logVars
<1>3. J' = J
  BY DEF J
<1>4. JobInv'
  <2> SUFFICES ASSUME NEW j \in J, JobFits(j) PROVE JobFits(j)'
    BY <1>3 DEF JobInv
  <2>1. j.task \in Callers
    BY JobsAre, Who DEF Job
  <2>2. j.awaited => j.task # t
    BY AwaitedAt
  <2>3. j.awaited => pc'[j.task] = pc[j.task]
    BY <1>1, <2>1, <2>2
  <2>4. QED BY <2>3 DEF JobFits, groupVars
<1>5. BodyInv' /\ TodoInv'
  BY <1>1, <1>3 DEF BodyInv, TodoInv, InBody, Got, data, groupVars
<1>6. WriteInv'
  <2> SUFFICES ASSUME NEW s \in Singles, Got(s, "write", "ok")'
               PROVE  /\ \A j \in J : j.kind = "close"
                      /\ s \in committed \/ \E c \in opener : ~InBody(c)'
    BY <1>3 DEF WriteInv, data
  <2>1. Got(s, "write", "ok")
    BY <1>1, Who DEF Got
  <2>2. opener \subseteq {Drainer}
    BY Who DEF Typed, SQLTypeOK
  <2>3. InBody(Drainer)' <=> InBody(Drainer)
    BY <1>1 DEF InBody, Got
  <2>4. QED BY <2>1, <2>2, <2>3 DEF WriteInv
<1>7. ToldInv' /\ AbsentInv'
  BY <1>1, <1>3 DEF ToldInv, AbsentInv, Got, data, groupVars
<1>8. FailedIsAbsent' /\ NoOrphanAppend'
  BY DEF FailedIsAbsent, NoOrphanAppend, data, groupVars
<1>9. QED BY <1>2, <1>4, <1>5, <1>6, <1>7, <1>8

LEMMA FewRead == IsFiniteSet(Reading) /\ Cardinality(Reading) \in Nat
BY SQLiteAssumption, FS_Subset, FS_CardinalityType DEF Reading

LEMMA CallKeeps ==
    ASSUME SQLInv, NEW t \in Callers, Call(t)
    PROVE  SQLInv'
<1>1. /\ t \in Singles \union Scanners /\ t # Drainer /\ pc[t] = "idle"
      /\ pc' = [pc EXCEPT ![t] = "asking"] /\ todo' = [todo EXCEPT ![t] = << >>]
      /\ UNCHANGED <<holders, jobs, result, free, data, groupVars, logVars>>
  BY Who DEF Call, Ask, SetPc
<1>2. \A c \in Callers : pc'[c] = IF c = t THEN "asking" ELSE pc[c]
  BY <1>1 DEF SQLInv, Typed, SQLTypeOK
<1>3. PlaceInv'
  <2>1. t \notin holders
    BY <1>1, Who DEF SQLInv, PlaceInv, Inside
  <2>2. QED BY <1>1, <1>2, <2>1 DEF SQLInv, PlaceInv, Outside
<1>4. PoolInv'
  <2>1. Reading' = Reading
    BY <1>1, <1>2, Who DEF Reading
  <2>2. QED BY <1>1, <2>1 DEF SQLInv, PoolInv
<1>5. todo' \in [Callers -> Seq(Messages)] /\ todo'[Drainer] = todo[Drainer] /\ holders' \subseteq Callers
  BY <1>1, EmptySeq DEF SQLInv, Typed, SQLTypeOK
<1>6. QED BY <1>1, <1>3, <1>4, <1>5, MoveKeeps

LEMMA ReadersKeep ==
    ASSUME SQLInv, NEW t \in Scanners, EnterRead(t) \/ CheckOut(t) \/ Read(t),
           UNCHANGED <<groupVars, logVars>>
    PROVE  SQLInv'
<1> DEFINE R == Reading
<1>0. /\ t \in Callers /\ t # Drainer /\ t \notin Writers
      /\ todo \in [Callers -> Seq(Messages)] /\ holders \subseteq Callers
      /\ result[t] = "none" /\ result \in [Callers -> {"none", "ok", "error"}]
  BY Who DEF SQLInv, Typed, SQLTypeOK, PlaceInv
<1>a. ASSUME NEW p, pc' = [pc EXCEPT ![t] = p]
      PROVE  \A c \in Callers : pc'[c] = IF c = t THEN p ELSE pc[c]
  BY <1>a DEF SQLInv, Typed, SQLTypeOK
<1>1. CASE EnterRead(t)
  <2>1. /\ pc[t] = "asking" /\ pc' = [pc EXCEPT ![t] = "pool"]
        /\ holders \intersect Writers = {} /\ holders' = holders \union {t}
        /\ UNCHANGED <<jobs, result, todo, free, data>>
    BY <1>1 DEF EnterRead, Lock!EnterShared, SetPc
  <2>2. \A c \in Callers : pc'[c] = IF c = t THEN "pool" ELSE pc[c]
    BY <1>a, <2>1
  <2>3. PlaceInv'
    BY <1>0, <2>1, <2>2, Who DEF SQLInv, PlaceInv, Inside
  <2>4. Reading' = Reading
    BY <2>1, <2>2 DEF Reading
  <2>5. PoolInv'
    BY <2>1, <2>4 DEF SQLInv, PoolInv
  <2>6. QED BY <1>0, <2>1, <2>3, <2>5, MoveKeeps
<1>2. CASE CheckOut(t)
  <2>1. /\ pc[t] = "pool" /\ pc' = [pc EXCEPT ![t] = "read"] /\ free > 0 /\ free' = free - 1
        /\ UNCHANGED <<holders, jobs, result, todo, data>>
    BY <1>2 DEF CheckOut, SetPc
  <2>2. \A c \in Callers : pc'[c] = IF c = t THEN "read" ELSE pc[c]
    BY <1>a, <2>1
  <2>3. PlaceInv'
    BY <1>0, <2>1, <2>2, Who DEF SQLInv, PlaceInv, Inside, Outside
  <2>4. Reading' = Reading \union {t} /\ t \notin Reading
    BY <2>1, <2>2, Who DEF Reading
  <2>5. PoolInv'
    <3>1. Cardinality(R \union {t}) = Cardinality(R) + 1
      BY <2>4, FewRead, FS_AddElement
    <3>2. QED BY <2>1, <2>4, <3>1, FewRead, SQLiteAssumption DEF SQLInv, PoolInv
  <2>6. QED BY <1>0, <2>1, <2>3, <2>5, MoveKeeps
<1>3. CASE Read(t)
  <2>1. /\ pc[t] = "read" /\ pc' = [pc EXCEPT ![t] = "ok"] /\ free' = free + 1
        /\ holders' = holders \ {t} /\ result' = [result EXCEPT ![t] = "none"]
        /\ UNCHANGED <<jobs, todo, data>>
    BY <1>3 DEF Read, Leave, Lock!Leave, SetPc, Returned
  <2>2. \A c \in Callers : pc'[c] = IF c = t THEN "ok" ELSE pc[c]
    BY <1>a, <2>1
  <2>3. result' = result
    BY <1>0, <2>1
  <2>4. PlaceInv'
    BY <1>0, <2>1, <2>2, <2>3, Who DEF SQLInv, PlaceInv, Outside
  <2>5. Reading' = Reading \ {t} /\ t \in Reading
    BY <2>1, <2>2, Who DEF Reading
  <2>6. PoolInv'
    <3>1. Cardinality(R \ {t}) = Cardinality(R) - 1
      BY <2>5, FewRead, FS_RemoveElement
    <3>2. QED BY <2>1, <2>5, <3>1, FewRead, SQLiteAssumption DEF SQLInv, PoolInv
  <2>7. QED BY <1>0, <2>1, <2>3, <2>4, <2>6, MoveKeeps
<1>4. QED BY <1>1, <1>2, <1>3

-----------------------------------------------------------------------------
(* Cancellation. *)

\* What a writer leaves to the worker when it stops waiting is awaited by nobody.
LEMMA WithdrawnKeeps ==
    ASSUME SQLInv, NEW t \in Writers, t \in holders, NEW rest \in Withdrawn(t)
    PROVE  /\ rest \in Seq(Job) /\ Ordered(rest)
           /\ \A j \in ToSet(rest) :
                 /\ ~j.awaited
                 /\ \E k \in J : /\ j.task = k.task /\ j.kind = k.kind /\ j.row = k.row
                                 /\ j = k \/ (k.awaited /\ k.task = t)
<1>0. holders = {t} /\ J \subseteq Job /\ jobs \in Seq(Job) /\ Ordered(jobs)
  BY JobsAre DEF SQLInv, PlaceInv, Typed, JobInv
<1>1. \A j \in J : j.awaited => j.kind # "close" /\ j.task = t
  BY <1>0, AwaitedInside DEF SQLInv, JobInv, JobFits
<1>2. /\ rest \in Seq(Job) /\ Ordered(rest)
      /\ \A j \in ToSet(rest) :
            \/ j \in J /\ ~(j.awaited /\ j.task = t)
            \/ \E k \in J : /\ k.awaited /\ k.task = t
                            /\ j = [k EXCEPT !.awaited = FALSE]
  BY <1>0, <1>1, WithdrawnOrdered
<1>3. ASSUME NEW j \in ToSet(rest)
      PROVE  /\ ~j.awaited
             /\ \E k \in J : /\ j.task = k.task /\ j.kind = k.kind /\ j.row = k.row
                             /\ j = k \/ (k.awaited /\ k.task = t)
  <2>1. CASE j \in J /\ ~(j.awaited /\ j.task = t)
    BY <1>1, <2>1
  <2>2. ASSUME NEW k \in J, k.awaited, k.task = t, j = [k EXCEPT !.awaited = FALSE]
        PROVE  ~j.awaited /\ j.task = k.task /\ j.kind = k.kind /\ j.row = k.row
    BY <1>0, <2>2 DEF Job
  <2>3. QED BY <1>2, <2>1, <2>2
<1>4. QED BY <1>2, <1>3

\* A writer stops waiting and leaves at once.
LEMMA GiveUpKeeps ==
    ASSUME SQLInv, NEW t \in Writers, t \in holders,
           jobs' \in Withdrawn(t), Lock!Leave(t),
           pc' = [pc EXCEPT ![t] = "failed"], result' = [result EXCEPT ![t] = "none"],
           interrupted' = TRUE \/ (t # Drainer /\ UNCHANGED interrupted),
           UNCHANGED <<todo, free, data, queue, batch, drain, answer, closing, logVars>>
    PROVE  SQLInv'
<1> USE DEF SQLInv
<1>0. /\ jobs' \in Seq(Job) /\ Ordered(jobs')
      /\ \A j \in J' :
            /\ ~j.awaited
            /\ \E k \in J : /\ j.task = k.task /\ j.kind = k.kind /\ j.row = k.row
                            /\ j = k \/ (k.awaited /\ k.task = t)
  BY WithdrawnKeeps DEF J
<1>1. t \in Callers /\ holders = {t} /\ holders' = {}
  BY Who DEF PlaceInv, Lock!Leave
<1>2. /\ \A c \in Callers : pc'[c] = IF c = t THEN "failed" ELSE pc[c]
      /\ \A c \in Callers : result'[c] = IF c = t THEN "none" ELSE result[c]
  BY <1>1 DEF Typed, SQLTypeOK
<1>3. /\ \A c \in Callers \ {t} : pc[c] \in Outside /\ result[c] = "none"
      /\ \A c \in Callers : pc'[c] \in Outside /\ result'[c] = "none"
      /\ pc[t] \in Inside(t)
  BY <1>1, <1>2 DEF PlaceInv, Outside
<1>4. Typed'
  BY <1>0, <1>1 DEF Typed, SQLTypeOK, data, logVars
<1>5. PlaceInv'
  BY <1>1, <1>3 DEF PlaceInv
<1>6. PoolInv'
  <2>1. Reading' = Reading
    BY <1>1, <1>2, <1>3, Who DEF Reading, Inside, Outside
  <2>2. QED BY <2>1 DEF PoolInv
<1>7. JobInv'
  <2>1. ASSUME NEW j \in J' PROVE JobFits(j)'
    <3>1. PICK k \in J : j.task = k.task /\ j.kind = k.kind /\ j.row = k.row
      BY <1>0
    <3>2. ~j.awaited /\ JobFits(k)
      BY <1>0 DEF JobInv
    <3>3. QED BY <3>1, <3>2 DEF JobFits
  <2>2. QED BY <1>0, <2>1 DEF JobInv
<1>8. BodyInv'
  <2>1. ~InBody(Drainer)' /\ ~Got(Drainer, "begin", "ok")'
    BY <1>3, Who DEF InBody, Got, Outside
  <2>2. QED BY <2>1 DEF BodyInv, data
<1>9. TodoInv'
  <2>1. pc'[Drainer] \notin {"begin", "insert", "commit"}
    BY <1>3, Who DEF Outside
  <2>2. pc'[Drainer] \in {"ok", "asking"} => pc[Drainer] = pc'[Drainer]
    BY <1>2, Who
  <2>3. UNCHANGED <<todo, batch, committed>>
    BY DEF data
  <2>4. QED BY <2>1, <2>2, <2>3 DEF TodoInv, Got
<1>10. WriteInv'
  <2>1. \A s \in Singles : ~Got(s, "write", "ok")'
    BY <1>3, Who DEF Got
  <2>2. QED BY <2>1 DEF WriteInv, Got
<1>11. ToldInv'
  <2>1. pc'[Drainer] = "idle" <=> pc[Drainer] = "idle"
    BY <1>2, <1>3, Who DEF Inside
  <2>2. \A m \in Messages : (\E j \in J' : j.row = m) => \E k \in J : k.row = m
    BY <1>0
  <2>3. QED BY <2>1, <2>2 DEF ToldInv, data
<1>12. AbsentInv'
  <2> SUFFICES ASSUME t # Drainer, UNCHANGED interrupted, ~interrupted PROVE AbsentInv'
    BY DEF AbsentInv
  <2>1. pc'[Drainer] = pc[Drainer] /\ result'[Drainer] = result[Drainer]
    BY <1>2, Who
  <2>2. \A j \in J' : j.task = Drainer /\ j.kind # "close" => j.awaited
    <3> SUFFICES ASSUME NEW j \in J', j.task = Drainer, j.kind # "close" PROVE FALSE
      BY DEF AbsentInv
    <3>1. PICK k \in J : j.task = k.task /\ (j = k \/ (k.awaited /\ k.task = t))
      BY <1>0
    <3>2. QED BY <1>0, <3>1 DEF AbsentInv
  <2>3. QED BY <2>1, <2>2 DEF AbsentInv, Got, data
<1>13. FailedIsAbsent' /\ NoOrphanAppend'
  BY DEF FailedIsAbsent, NoOrphanAppend, data
<1>14. QED BY <1>4, <1>5, <1>6, <1>7, <1>8, <1>9, <1>10, <1>11, <1>12, <1>13

\* The drain task is cancelled in the body of its transaction: it rolls back.
LEMMA RollBackKeeps ==
    ASSUME SQLInv, pc[Drainer] = "insert", NEW rest \in Withdrawn(Drainer),
           jobs' = Append(rest, Statement(Drainer, "rollback", Drainer)),
           pc' = [pc EXCEPT ![Drainer] = "rollback"],
           result' = [result EXCEPT ![Drainer] = "none"], interrupted' = TRUE,
           UNCHANGED <<holders, todo, free, data, queue, batch, drain, answer, closing, logVars>>
    PROVE  SQLInv'
<1> USE DEF SQLInv
<1> DEFINE x == Statement(Drainer, "rollback", Drainer)
<1>1. x \in Job /\ x.task = Drainer /\ x.kind = "rollback" /\ x.row = Drainer /\ x.awaited = TRUE
  BY Who DEF Statement, Job, Kinds
<1> HIDE DEF x
<1>2. jobs' = Append(rest, x)
  BY DEF x
<1>3. Drainer \in Callers /\ Drainer \in Writers /\ holders = {Drainer} /\ InBody(Drainer)
  BY Who DEF PlaceInv, InBody, Outside
<1>4. /\ rest \in Seq(Job) /\ Ordered(rest)
      /\ \A j \in ToSet(rest) :
            /\ ~j.awaited
            /\ \E k \in J : /\ j.task = k.task /\ j.kind = k.kind /\ j.row = k.row
                            /\ j = k \/ (k.awaited /\ k.task = Drainer)
  BY <1>3, WithdrawnKeeps
<1>5. jobs' \in Seq(Job) /\ Ordered(jobs') /\ J' = ToSet(rest) \union {x}
  <2>1. Append(rest, x) \in Seq(Job) /\ ToSet(Append(rest, x)) = ToSet(rest) \union {x}
    BY <1>1, <1>4, AppendElements
  <2>2. Ordered(Append(rest, x))
    BY <1>1, <1>4, OrderedAppend
  <2>3. QED BY <1>2, <2>1, <2>2 DEF J
<1>6. /\ \A c \in Callers : pc'[c] = IF c = Drainer THEN "rollback" ELSE pc[c]
      /\ \A c \in Callers : result'[c] = IF c = Drainer THEN "none" ELSE result[c]
  BY <1>3 DEF Typed, SQLTypeOK
<1>7. Typed'
  BY <1>3, <1>5 DEF Typed, SQLTypeOK, data, logVars
<1>8. PlaceInv'
  BY <1>3, <1>6, Who DEF PlaceInv, Inside
<1>9. PoolInv'
  <2>1. Reading' = Reading
    BY <1>6, Who DEF Reading
  <2>2. QED BY <2>1 DEF PoolInv
<1>10. JobInv'
  <2>1. ASSUME NEW j \in ToSet(rest) PROVE JobFits(j)'
    <3>1. PICK k \in J : j.task = k.task /\ j.kind = k.kind /\ j.row = k.row
      BY <1>4
    <3>2. ~j.awaited /\ JobFits(k)
      BY <1>4 DEF JobInv
    <3>3. QED BY <3>1, <3>2 DEF JobFits
  <2>2. JobFits(x)'
    BY <1>1, <1>6, Who DEF JobFits
  <2>3. QED BY <1>5, <2>1, <2>2 DEF JobInv
<1>11. BodyInv'
  <2>1. ASSUME NEW j \in ToSet(rest)
        PROVE  j.kind = "close" \/ (j.kind = "insert" /\ j.row \in ToSet(batch))
    <3>1. PICK k \in J : /\ j.task = k.task /\ j.kind = k.kind /\ j.row = k.row
                         /\ j = k \/ (k.awaited /\ k.task = Drainer)
      BY <1>4
    <3>2. CASE k.awaited /\ k.task = Drainer
      BY <3>1, <3>2, Who DEF JobInv, JobFits
    <3>3. CASE ~k.awaited
      BY <1>3, <3>1, <3>3 DEF BodyInv
    <3>4. QED BY <1>4, <3>1, <3>2, <3>3
  <2>2. pc'[Drainer] = "rollback"
    BY <1>3, <1>6
  <2>3. QED BY <1>1, <1>3, <1>5, <2>1, <2>2 DEF BodyInv, Got, data
<1>12. TodoInv'
  BY <1>3, <1>6 DEF TodoInv, Got
<1>13. WriteInv'
  <2>1. \A s \in Singles : ~Got(s, "write", "ok")'
    BY <1>3, <1>6, Who DEF PlaceInv, Got, Outside
  <2>2. QED BY <2>1 DEF WriteInv, Got
<1>14. ToldInv'
  <2>1. pc'[Drainer] # "idle" /\ pc[Drainer] # "idle"
    BY <1>3, <1>6
  <2>2. \A m \in Messages : (\E j \in J' : j.row = m) => \E k \in J : k.row = m
    BY <1>1, <1>4, <1>5, Who
  <2>3. QED BY <2>1, <2>2 DEF ToldInv, data
<1>15. AbsentInv' /\ FailedIsAbsent' /\ NoOrphanAppend'
  BY DEF AbsentInv, FailedIsAbsent, NoOrphanAppend, data
<1>16. QED BY <1>7, <1>8, <1>9, <1>10, <1>11, <1>12, <1>13, <1>14, <1>15

\* The drain task is cancelled before it has the lock.
LEMMA GiveUpAskingKeeps ==
    ASSUME SQLInv, pc[Drainer] = "asking", pc' = [pc EXCEPT ![Drainer] = "failed"],
           result' = result, interrupted' = TRUE,
           UNCHANGED <<holders, jobs, todo, free, data, queue, batch, drain, answer,
                       closing, logVars>>
    PROVE  SQLInv'
<1> USE DEF SQLInv
<1>1. /\ \A c \in Callers : pc'[c] = IF c = Drainer THEN "failed" ELSE pc[c]
      /\ Drainer \in Callers /\ pc' \in [Callers -> {"idle", "asking", "begin", "insert",
              "commit", "write", "rollback", "pool", "read", "ok", "failed"}]
      /\ J' = J
  BY Who DEF Typed, SQLTypeOK, J
<1>2. Typed'
  BY <1>1 DEF Typed, SQLTypeOK, data, logVars
<1>3. PlaceInv'
  BY <1>1, Who DEF PlaceInv, Inside, Outside
<1>4. PoolInv'
  <2>1. Reading' = Reading
    BY <1>1, Who DEF Reading
  <2>2. QED BY <2>1 DEF PoolInv
<1>5. JobInv'
  <2> SUFFICES ASSUME NEW j \in J, JobFits(j) PROVE JobFits(j)'
    BY <1>1 DEF JobInv
  <2>1. j.task \in Callers /\ j.kind \in Kinds
    BY JobsAre, Who DEF Job
  <2>2. j.awaited => j.task # Drainer
    BY <2>1, Who DEF JobFits, Kinds
  <2>3. j.awaited => pc'[j.task] = pc[j.task]
    BY <1>1, <2>1, <2>2
  <2>4. QED BY <2>3 DEF JobFits
<1>6. BodyInv' /\ TodoInv'
  BY <1>1 DEF BodyInv, TodoInv, InBody, Got, data
<1>7. WriteInv'
  <2>1. ~InBody(Drainer)' /\ opener \subseteq {Drainer}
    BY <1>1, Who DEF InBody, Got, Typed, SQLTypeOK
  <2>2. \A s \in Singles : Got(s, "write", "ok")' => Got(s, "write", "ok")
    BY <1>1, Who DEF Got
  <2>3. QED BY <1>1, <2>1, <2>2 DEF WriteInv, data
<1>8. ToldInv' /\ AbsentInv' /\ FailedIsAbsent' /\ NoOrphanAppend'
  BY <1>1 DEF ToldInv, AbsentInv, FailedIsAbsent, NoOrphanAppend, data
<1>9. QED BY <1>2, <1>3, <1>4, <1>5, <1>6, <1>7, <1>8

\* A reader that is cancelled gives back the lock, and its connection if it has one.
LEMMA ReaderCancelKeeps ==
    ASSUME SQLInv, NEW t \in Scanners, Cancel(t), UNCHANGED <<groupVars, logVars>>
    PROVE  SQLInv'
<1> DEFINE R == Reading
<1>0. /\ t \in Callers /\ t # Drainer /\ t \notin Writers /\ holders \subseteq Callers
      /\ result[t] = "none" /\ todo \in [Callers -> Seq(Messages)]
      /\ pc[t] \in Outside \union {"pool", "read"}
      /\ UNCHANGED <<todo, data>> /\ free' = Returned(t)
  BY Who DEF SQLInv, Typed, SQLTypeOK, PlaceInv, Cancel, Inside
<1>1. result' = result
  BY <1>0 DEF Cancel, SQLInv, Typed, SQLTypeOK
<1>2. \A rest \in Withdrawn(t) : rest = jobs
  BY <1>0, AwaitedAt, NothingWithdrawn DEF SQLInv, Outside
<1>3. /\ pc[t] \in {"asking", "pool", "read"} /\ UNCHANGED jobs
      /\ pc' = [pc EXCEPT ![t] = "failed"]
      /\ IF pc[t] = "asking" THEN UNCHANGED holders ELSE holders' = holders \ {t}
  BY <1>0, <1>2 DEF Cancel, SetPc, Lock!Leave, Outside
<1>4. \A c \in Callers : pc'[c] = IF c = t THEN "failed" ELSE pc[c]
  BY <1>3 DEF SQLInv, Typed, SQLTypeOK
<1>5. PlaceInv'
  BY <1>0, <1>1, <1>3, <1>4, Who DEF SQLInv, PlaceInv, Inside, Outside
<1>6. PoolInv'
  <2>1. CASE pc[t] = "read"
    <3>1. Reading' = Reading \ {t} /\ t \in Reading
      BY <1>4, <2>1, Who DEF Reading
    <3>2. Cardinality(R \ {t}) = Cardinality(R) - 1
      BY <3>1, FewRead, FS_RemoveElement
    <3>3. free' = free + 1
      BY <1>0, <2>1 DEF Returned
    <3>4. QED BY <3>1, <3>2, <3>3, FewRead, SQLiteAssumption DEF SQLInv, PoolInv
  <2>2. CASE pc[t] # "read"
    <3>1. Reading' = Reading
      BY <1>4, <2>2, Who DEF Reading
    <3>2. free' = free
      BY <1>0, <2>2 DEF Returned
    <3>3. QED BY <3>1, <3>2 DEF SQLInv, PoolInv
  <2>3. QED BY <2>1, <2>2
<1>7. holders' \subseteq Callers /\ UNCHANGED <<jobs, todo>>
  BY <1>0, <1>3
<1>8. QED BY <1>0, <1>1, <1>3, <1>5, <1>6, <1>7, MoveKeeps

\* A call that is cancelled, the drain task's only by a cancelled close.
LEMMA CancelKeeps ==
    ASSUME SQLInv, NEW t \in Callers, Cancel(t),
           UNCHANGED <<queue, batch, drain, answer, closing, logVars>>,
           IF t = Drainer THEN interrupted' = TRUE ELSE UNCHANGED interrupted
    PROVE  SQLInv'
<1>1. CASE t \in Scanners
  BY <1>1, ReaderCancelKeeps, Who DEF groupVars
<1>2. CASE t \in Writers
  <2>1. /\ UNCHANGED <<todo, data>> /\ free' = Returned(t)
        /\ result' = [result EXCEPT ![t] = "none"]
        /\ pc[t] \in IF t \in holders THEN Inside(t) ELSE Outside
    BY DEF Cancel, SQLInv, PlaceInv
  <2>2. UNCHANGED free
    BY <1>2, <2>1, Who DEF Returned, Inside, Outside
  <2>3. CASE pc[t] = "asking"
    <3>1. pc' = [pc EXCEPT ![t] = "failed"] /\ UNCHANGED <<holders, jobs>>
      BY <2>3 DEF Cancel, SetPc
    <3>2. t \notin holders /\ result[t] = "none"
      BY <2>1, <2>3, Who DEF Inside, SQLInv, PlaceInv
    <3>3. result' = result
      BY <2>1, <3>2 DEF SQLInv, Typed, SQLTypeOK
    <3>4. CASE t = Drainer
      BY <2>1, <2>2, <2>3, <3>1, <3>3, <3>4, GiveUpAskingKeeps
    <3>5. CASE t # Drainer
      <4>1. \A c \in Callers : pc'[c] = IF c = t THEN "failed" ELSE pc[c]
        BY <3>1 DEF SQLInv, Typed, SQLTypeOK
      <4>2. PlaceInv'
        BY <3>1, <3>2, <3>3, <4>1 DEF SQLInv, PlaceInv, Outside
      <4>3. Reading' = Reading
        BY <1>2, <4>1, Who DEF Reading
      <4>4. PoolInv'
        BY <2>2, <4>3 DEF SQLInv, PoolInv
      <4>5. /\ holders' \subseteq Callers /\ todo' \in [Callers -> Seq(Messages)]
            /\ todo'[Drainer] = todo[Drainer] /\ UNCHANGED <<groupVars, interrupted>>
        BY <2>1, <3>1, <3>5 DEF SQLInv, Typed, SQLTypeOK, groupVars
      <4>6. QED BY <2>1, <2>3, <3>1, <3>3, <3>5, <4>2, <4>4, <4>5, MoveKeeps
    <3>6. QED BY <3>4, <3>5
  <2>4. CASE pc[t] = "insert"
    <3>1. t = Drainer
      BY <1>2, <2>1, <2>4, Who DEF Inside, Outside
    <3>2. PICK rest \in Withdrawn(Drainer) :
             jobs' = Append(rest, Statement(Drainer, "rollback", Drainer))
      BY <2>4, <3>1 DEF Cancel
    <3>3. pc' = [pc EXCEPT ![Drainer] = "rollback"] /\ UNCHANGED holders
      BY <2>4, <3>1 DEF Cancel, SetPc
    <3>4. QED BY <2>1, <2>2, <2>4, <3>1, <3>2, <3>3, RollBackKeeps
  <2>5. CASE pc[t] \in {"begin", "commit", "rollback", "write", "pool", "read"}
    <3>1. jobs' \in Withdrawn(t) /\ Lock!Leave(t) /\ pc' = [pc EXCEPT ![t] = "failed"]
      BY <2>5 DEF Cancel, SetPc
    <3>2. t \in holders
      BY <3>1 DEF Lock!Leave
    <3>3. QED BY <1>2, <2>1, <2>2, <3>1, <3>2, GiveUpKeeps
  <2>6. QED BY <2>3, <2>4, <2>5 DEF Cancel
<1>3. QED BY <1>1, <1>2, Who

-----------------------------------------------------------------------------
(* Group commit. *)

LEMMA AppendKeeps ==
    ASSUME SQLInv, NEW m \in Messages, AppendMessage(m)
    PROVE  SQLInv'
<1> USE DEF SQLInv
<1>1. /\ answer[m] = "unsent" /\ queue' = Append(queue, m)
      /\ \A n \in Messages : answer'[n] = IF n = m THEN "waiting" ELSE answer[n]
      /\ UNCHANGED <<pc, holders, jobs, result, todo, free, opener, uncommitted, committed,
                     batch, closing, interrupted, logVars>>
  BY DEF AppendMessage, Typed, SQLTypeOK, sqlVars, data
<1>2. queue' \in Seq(Messages) /\ ToSet(queue') = ToSet(queue) \union {m}
  BY <1>1, AppendElements DEF Typed
<1>3. drain' \in {"ready", "on"} /\ (drain' = "on" <=> drain = "on")
  BY DEF AppendMessage, Woken, Typed, SQLTypeOK
<1>4. Typed'
  <2>1. answer' \in [Messages -> {"unsent", "waiting", "stored", "failed", "cancelled"}]
    BY DEF AppendMessage, Typed, SQLTypeOK
  <2>2. QED BY <1>1, <1>2, <1>3, <2>1 DEF Typed, SQLTypeOK, logVars
<1>5. J' = J
  BY <1>1 DEF J
<1>6. PlaceInv' /\ PoolInv'
  BY <1>1 DEF PlaceInv, PoolInv, Reading
<1>7. JobInv' /\ BodyInv' /\ TodoInv' /\ WriteInv'
  BY <1>1, <1>5 DEF JobInv, JobFits, BodyInv, TodoInv, WriteInv, InBody, Got
<1>8. m \notin committed /\ m \notin ToSet(batch)
  BY <1>1 DEF ToldInv
<1>9. ToldInv'
  <2>1. ToSet(queue) \subseteq Messages /\ ToSet(batch) \subseteq Messages
    BY BatchMessages
  <2>2. QED BY <1>1, <1>2, <1>3, <1>5, <1>8, <2>1 DEF ToldInv
<1>10. AbsentInv' /\ FailedIsAbsent'
  BY <1>1, <1>5, <1>8 DEF AbsentInv, FailedIsAbsent, Got
<1>11. NoOrphanAppend'
  BY <1>1, <1>2, <1>3 DEF NoOrphanAppend
<1>12. QED BY <1>4, <1>6, <1>7, <1>9, <1>10, <1>11

LEMMA AbandonKeeps ==
    ASSUME SQLInv, NEW m \in Messages, Abandon(m)
    PROVE  SQLInv'
<1> USE DEF SQLInv
<1>1. /\ answer[m] = "waiting" /\ answer' = [answer EXCEPT ![m] = "cancelled"]
      /\ \A n \in Messages : answer'[n] = IF n = m THEN "cancelled" ELSE answer[n]
      /\ UNCHANGED <<pc, holders, jobs, result, todo, free, opener, uncommitted, committed,
                     queue, batch, drain, closing, interrupted, logVars>>
  BY DEF Abandon, Typed, SQLTypeOK, data
<1>2. Typed'
  BY <1>1 DEF Typed, SQLTypeOK, logVars
<1>3. J' = J
  BY <1>1 DEF J
<1>4. PlaceInv' /\ PoolInv'
  BY <1>1 DEF PlaceInv, PoolInv, Reading
<1>5. JobInv' /\ BodyInv' /\ TodoInv' /\ WriteInv'
  BY <1>1, <1>3 DEF JobInv, JobFits, BodyInv, TodoInv, WriteInv, InBody, Got
<1>6. ToldInv'
  <2>1. ToSet(queue) \subseteq Messages /\ ToSet(batch) \subseteq Messages
    BY BatchMessages
  <2>2. QED BY <1>1, <1>3, <2>1 DEF ToldInv
<1>7. AbsentInv' /\ FailedIsAbsent' /\ NoOrphanAppend'
  BY <1>1, <1>3 DEF AbsentInv, FailedIsAbsent, NoOrphanAppend, Got
<1>8. QED BY <1>2, <1>4, <1>5, <1>6, <1>7

\* The drain task takes the queue for its next batch, or ends; whoever waited for the
\* batch before has been told.
LEMMA TakeBatchKeeps ==
    ASSUME SQLInv, TakeBatch(pc), pc[Drainer] \in {"idle", "ok", "failed"}, drain # "off",
           closing # "failing" \/ drain = "on",
           closing' \in {"no", "awaiting", "failing", "done"}, closing = "failing" => closing' = "failing",
           answer' \in [Messages -> {"unsent", "waiting", "stored", "failed", "cancelled"}],
           \/ UNCHANGED answer /\ pc[Drainer] = "idle"
           \/ /\ Told(batch, IF pc[Drainer] = "ok" THEN "stored" ELSE "failed")
              /\ pc[Drainer] # "idle"
    PROVE  SQLInv'
<1> USE DEF SQLInv
<1>1. /\ queue' = << >> /\ batch' = queue /\ todo' = [todo EXCEPT ![Drainer] = queue]
      /\ \/ queue = << >> /\ drain' = "off" /\ pc' = [pc EXCEPT ![Drainer] = "idle"]
         \/ queue # << >> /\ drain' = "on" /\ pc' = [pc EXCEPT ![Drainer] = "asking"]
      /\ UNCHANGED <<holders, jobs, result, free, opener, uncommitted, committed,
                     interrupted, logVars>>
  BY DEF TakeBatch, data
<1>2. /\ Drainer \in Callers /\ Drainer \in Writers /\ J' = J
      /\ \A c \in Callers : c # Drainer => pc'[c] = pc[c]
      /\ pc'[Drainer] = IF queue = << >> THEN "idle" ELSE "asking"
      /\ todo'[Drainer] = queue
  BY <1>1, Who DEF Typed, SQLTypeOK, J
<1>3. Drainer \notin holders
  BY <1>2, Who DEF PlaceInv, Inside
<1>4. ToSet(queue') = {}
  BY <1>1, NoElements
<1>5. Typed'
  <2>1. pc' \in [Callers -> {"idle", "asking", "begin", "insert", "commit", "write",
                             "rollback", "pool", "read", "ok", "failed"}]
    BY <1>1 DEF Typed, SQLTypeOK
  <2>2. queue' \in Seq(Messages) /\ batch' \in Seq(Messages)
        /\ todo' \in [Callers -> Seq(Messages)]
    BY <1>1, EmptySeq DEF Typed
  <2>3. QED BY <1>1, <2>1, <2>2 DEF Typed, SQLTypeOK, logVars
<1>6. PlaceInv'
  BY <1>1, <1>2, <1>3 DEF PlaceInv, Outside
<1>7. PoolInv'
  <2>1. Reading' = Reading
    BY <1>2, Who DEF Reading
  <2>2. QED BY <1>1, <2>1 DEF PoolInv
<1>8. JobInv'
  <2> SUFFICES ASSUME NEW j \in J, JobFits(j) PROVE JobFits(j)'
    BY <1>1, <1>2 DEF JobInv
  <2>1. j.task \in Callers
    BY JobsAre, Who DEF Job
  <2>2. j.awaited => j.task # Drainer
    BY <1>3, AwaitedInside
  <2>3. j.awaited => pc'[j.task] = pc[j.task]
    BY <1>2, <2>1, <2>2
  <2>4. QED BY <1>1, <2>2, <2>3 DEF JobFits
<1>9. ~InBody(Drainer)' /\ ~Got(Drainer, "begin", "ok")'
  BY <1>2 DEF InBody, Got
<1>10. BodyInv'
  BY <1>1, <1>9 DEF BodyInv
<1>11. TodoInv'
  BY <1>1, <1>2 DEF TodoInv, Got
<1>12. WriteInv'
  <2>1. \A s \in Singles : Got(s, "write", "ok")' => Got(s, "write", "ok")
    BY <1>1, <1>2, Who DEF Got
  <2>2. opener \subseteq {Drainer}
    BY Who DEF Typed, SQLTypeOK
  <2>3. QED BY <1>1, <1>2, <1>9, <2>1, <2>2 DEF WriteInv
<1>13. /\ \A m \in Messages : m \notin ToSet(batch) => answer'[m] = answer[m]
       /\ \A m \in ToSet(queue) : answer'[m] = answer[m]
       /\ \A m \in Messages : answer'[m] = "unsent" => answer[m] = "unsent"
       /\ \A m \in Messages : answer[m] # "waiting" => answer'[m] = answer[m]
  <2>1. \A m \in Messages : m \notin ToSet(batch) => answer'[m] = answer[m]
    BY DEF Told
  <2>2. ToSet(queue) \subseteq Messages /\ ToSet(queue) \intersect ToSet(batch) = {}
    BY BatchMessages DEF ToldInv
  <2>3. QED BY <2>1, <2>2 DEF Told
<1>14. ToldInv'
  <2>1. drain' = "on" <=> pc'[Drainer] # "idle"
    BY <1>1, <1>2
  <2>2. QED BY <1>1, <1>2, <1>4, <1>13, <2>1 DEF ToldInv
<1>15. ASSUME ~interrupted, NEW m \in Messages, m \in committed
       PROVE  answer'[m] \in {"stored", "cancelled"}
  <2>1. CASE answer[m] \in {"stored", "cancelled"}
    BY <1>13, <1>15, <2>1
  <2>2. CASE answer[m] \notin {"stored", "cancelled"}
    <3>1. m \in ToSet(batch) /\ pc[Drainer] = "ok"
      BY <1>15, <2>2 DEF AbsentInv, Got
    <3>2. answer[m] = "waiting"
      BY <2>2, <3>1 DEF ToldInv
    <3>3. QED BY <3>1, <3>2 DEF Told
  <2>3. QED BY <2>1, <2>2
<1>16. AbsentInv' /\ FailedIsAbsent'
  BY <1>1, <1>2, <1>15 DEF AbsentInv, FailedIsAbsent
<1>17. NoOrphanAppend'
  <2> SUFFICES ASSUME NEW m \in Messages, answer'[m] = "waiting"
               PROVE  m \in ToSet(queue) /\ drain' = "on"
    BY <1>1 DEF NoOrphanAppend
  <2>1. answer[m] = "waiting"
    BY <1>13
  <2>2. m \in ToSet(queue)
    <3>1. CASE pc[Drainer] = "idle"
      BY <2>1, <3>1 DEF NoOrphanAppend, ToldInv
    <3>2. CASE pc[Drainer] # "idle"
      BY <2>1, <3>2 DEF NoOrphanAppend, Told
    <3>3. QED BY <3>1, <3>2
  <2>3. QED BY <1>1, <2>2, NoElements
<1>18. QED BY <1>5, <1>6, <1>7, <1>8, <1>10, <1>11, <1>12, <1>14, <1>16, <1>17

LEMMA DrainKeeps ==
    ASSUME SQLInv, DrainStarts \/ BatchEnds
    PROVE  SQLInv'
<1>1. CASE DrainStarts
  <2>1. /\ drain = "ready" /\ closing # "failing" /\ TakeBatch(pc) /\ UNCHANGED <<answer, closing>>
        /\ pc[Drainer] = "idle"
    BY <1>1 DEF DrainStarts, SQLInv, ToldInv
  <2>2. QED BY <2>1, TakeBatchKeeps DEF SQLInv, Typed, SQLTypeOK
<1>2. CASE BatchEnds
  <2>1. /\ drain = "on" /\ pc[Drainer] \in {"ok", "failed"} /\ TakeBatch(pc)
        /\ Told(batch, IF pc[Drainer] = "ok" THEN "stored" ELSE "failed")
        /\ closing' = IF drain' = "off" /\ closing = "awaiting" THEN "failing" ELSE closing
    BY <1>2 DEF BatchEnds
  <2>2. answer' \in [Messages -> {"unsent", "waiting", "stored", "failed", "cancelled"}]
    BY <2>1 DEF Told, SQLInv, Typed, SQLTypeOK
  <2>3. closing' \in {"no", "awaiting", "failing", "done"} /\ (closing = "failing" => closing' = "failing")
    BY <2>1 DEF SQLInv, Typed, SQLTypeOK
  <2>4. QED BY <2>1, <2>2, <2>3, TakeBatchKeeps
<1>3. QED BY <1>1, <1>2

-----------------------------------------------------------------------------
(* close, and the audit log. *)

LEMMA CloseStartsKeeps ==
    ASSUME SQLInv, CloseStarts \/ (CloseCancelled /\ drain = "ready")
    PROVE  SQLInv'
<1> USE DEF SQLInv
<1>1. /\ UNCHANGED <<pc, holders, jobs, result, todo, free, opener, uncommitted, committed,
                     queue, batch, answer, logVars>>
      /\ closing' \in {"awaiting", "failing"}
      /\ \/ drain' = drain /\ drain # "off" /\ interrupted' = interrupted
         \/ drain = "ready" /\ drain' = "off" /\ closing' = "failing" /\ interrupted' = TRUE
  BY DEF CloseStarts, CloseCancelled, sqlVars, data
<1>2. Typed' /\ J' = J
  BY <1>1 DEF Typed, SQLTypeOK, logVars, J
<1>3. PlaceInv' /\ PoolInv'
  BY <1>1 DEF PlaceInv, PoolInv, Reading
<1>4. JobInv' /\ BodyInv' /\ TodoInv' /\ WriteInv'
  BY <1>1, <1>2 DEF JobInv, JobFits, BodyInv, TodoInv, WriteInv, InBody, Got
<1>5. ToldInv'
  BY <1>1, <1>2 DEF ToldInv
<1>6. AbsentInv' /\ FailedIsAbsent'
  BY <1>1, <1>2 DEF AbsentInv, FailedIsAbsent, Got
<1>7. NoOrphanAppend'
  BY <1>1 DEF NoOrphanAppend
<1>8. QED BY <1>2, <1>3, <1>4, <1>5, <1>6, <1>7

LEMMA CloseFailsKeeps ==
    ASSUME SQLInv, CloseFails
    PROVE  SQLInv'
<1> USE DEF SQLInv
<1> DEFINE x == [Statement(Drainer, "close", Drainer) EXCEPT !.awaited = FALSE]
<1>1. /\ closing' = "done" /\ Told(queue, "failed") /\ queue' = << >>
      /\ jobs' = Append(jobs, x)
      /\ UNCHANGED <<pc, holders, result, todo, free, opener, uncommitted, committed,
                     batch, drain, interrupted, logVars>>
  BY DEF CloseFails, data
<1>2. x \in Job /\ x.task = Drainer /\ x.kind = "close" /\ x.row = Drainer /\ x.awaited = FALSE
  BY Who DEF Statement, Job, Kinds
<1> HIDE DEF x
<1>3. jobs' \in Seq(Job) /\ Ordered(jobs') /\ J' = J \union {x}
  BY <1>1, <1>2, Submitted
<1>4. ToSet(queue') = {} /\ queue' \in Seq(Messages)
  BY <1>1, NoElements, EmptySeq
<1>5. Typed'
  <2>1. answer' \in [Messages -> {"unsent", "waiting", "stored", "failed", "cancelled"}]
    BY <1>1 DEF Told, Typed, SQLTypeOK
  <2>2. QED BY <1>1, <1>3, <1>4, <2>1 DEF Typed, SQLTypeOK, logVars
<1>6. PlaceInv' /\ PoolInv'
  BY <1>1 DEF PlaceInv, PoolInv, Reading
<1>7. JobInv'
  BY <1>1, <1>2, <1>3 DEF JobInv, JobFits
<1>8. BodyInv' /\ TodoInv' /\ WriteInv'
  BY <1>1, <1>2, <1>3 DEF BodyInv, TodoInv, WriteInv, InBody, Got
<1>9. \A m \in Messages :
         IF m \in ToSet(queue) /\ answer[m] = "waiting" THEN answer'[m] = "failed"
         ELSE answer'[m] = answer[m]
  BY <1>1 DEF Told
<1>10. ToldInv'
  <2>1. ToSet(batch) \subseteq Messages
    BY BatchMessages
  <2>2. \A m \in ToSet(batch) : answer'[m] = answer[m]
    BY <1>9, <2>1 DEF ToldInv
  <2>3. \A m \in Messages : x.row # m
    BY <1>2, Who
  <2>4. QED BY <1>1, <1>3, <1>4, <1>9, <2>2, <2>3 DEF ToldInv
<1>11. ASSUME ~interrupted, NEW m \in Messages, m \in committed
       PROVE  ~(m \in ToSet(queue) /\ answer[m] = "waiting")
  BY <1>11 DEF AbsentInv, ToldInv
<1>12. AbsentInv' /\ FailedIsAbsent'
  BY <1>1, <1>2, <1>3, <1>9, <1>11 DEF AbsentInv, FailedIsAbsent, Got
<1>13. NoOrphanAppend'
  BY <1>1, <1>9 DEF NoOrphanAppend
<1>14. QED BY <1>5, <1>6, <1>7, <1>8, <1>10, <1>12, <1>13

LEMMA LogKeeps ==
    ASSUME SQLInv, \/ Emit \/ Flush \/ FinalFlush \/ UNCHANGED vars
    PROVE  SQLInv'
<1> USE DEF SQLInv
<1>1. UNCHANGED <<sqlVars, groupVars>>
  BY DEF Emit, Flush, FinalFlush, vars
<1>2. UNCHANGED <<pc, holders, jobs, result, todo, free, opener, uncommitted, committed,
                  queue, batch, drain, answer, closing, interrupted>>
  BY <1>1 DEF sqlVars, data, groupVars
<1>3. /\ buffer \in 0..MaxRecords /\ lost \in 0..MaxRecords /\ buffer + lost <= MaxRecords
      /\ MaxRecords \in Nat
  BY BackendAssumption DEF Typed, SQLTypeOK
<1>4. buffer' \in 0..MaxRecords /\ lost' \in 0..MaxRecords /\ buffer' + lost' <= MaxRecords
  BY <1>3 DEF Emit, Flush, FinalFlush, vars, logVars
<1>5. Typed' /\ J' = J
  BY <1>2, <1>4 DEF Typed, SQLTypeOK, J
<1>6. PlaceInv' /\ PoolInv'
  BY <1>2 DEF PlaceInv, PoolInv, Reading
<1>7. JobInv' /\ BodyInv' /\ TodoInv' /\ WriteInv'
  BY <1>2, <1>5 DEF JobInv, JobFits, BodyInv, TodoInv, WriteInv, InBody, Got
<1>8. ToldInv' /\ AbsentInv' /\ FailedIsAbsent' /\ NoOrphanAppend'
  BY <1>2, <1>5 DEF ToldInv, AbsentInv, FailedIsAbsent, NoOrphanAppend, Got
<1>9. QED BY <1>5, <1>6, <1>7, <1>8

-----------------------------------------------------------------------------
(* The backend. *)

LEMMA InitSQL == Init => SQLInv
<1> SUFFICES ASSUME Init PROVE SQLInv
  OBVIOUS
<1>1. /\ pc = [t \in Callers |-> "idle"] /\ holders = {} /\ jobs = << >>
      /\ result = [t \in Callers |-> "none"] /\ todo = [t \in Callers |-> << >>]
      /\ opener = {} /\ uncommitted = {} /\ committed = {} /\ free = PoolSize
      /\ queue = << >> /\ batch = << >> /\ drain = "off"
      /\ answer = [m \in Messages |-> "unsent"] /\ closing = "no" /\ buffer = 0 /\ lost = 0
  BY DEF Init, SQLInit, Lock!Init
<1>2. J = {} /\ ToSet(queue) = {} /\ ToSet(batch) = {}
  BY <1>1, NoElements DEF J
<1>3. Drainer \in Callers /\ pc[Drainer] = "idle"
  BY <1>1, Who
<1>4. Typed
  BY <1>1, SQLiteAssumption, BackendAssumption, EmptySeq DEF Typed, SQLTypeOK
<1>5. PlaceInv
  BY <1>1 DEF PlaceInv, Outside
<1>6. PoolInv
  <2>1. Reading = {}
    BY <1>1, Who DEF Reading
  <2>2. QED BY <1>1, <2>1, FS_EmptySet, SQLiteAssumption DEF PoolInv
<1>7. JobInv
  BY <1>1, <1>2 DEF JobInv, Ordered
<1>8. BodyInv /\ TodoInv /\ WriteInv
  <2>1. ToSet(todo[Drainer]) = {}
    BY <1>1, <1>3, NoElements
  <2>2. \A s \in Singles : pc[s] # "write"
    BY <1>1, Who
  <2>3. QED BY <1>1, <1>2, <1>3, <2>1, <2>2 DEF BodyInv, TodoInv, WriteInv, InBody, Got
<1>9. ToldInv /\ AbsentInv /\ FailedIsAbsent /\ NoOrphanAppend
  BY <1>1, <1>2, <1>3 DEF ToldInv, AbsentInv, FailedIsAbsent, NoOrphanAppend
<1>10. QED BY <1>4, <1>5, <1>6, <1>7, <1>8, <1>9 DEF SQLInv

LEMMA StepKeeps == SQLInv /\ [Next]_vars => SQLInv'
<1> SUFFICES ASSUME SQLInv, [Next]_vars PROVE SQLInv'
  OBVIOUS
<1>1. CASE Running
  <2>1. UNCHANGED <<groupVars, logVars>>
    BY <1>1 DEF Running
  <2>2. CASE Worker
    BY <2>1, <2>2, WorkerKeeps
  <2>3. ASSUME NEW t \in Callers, Advance(t) PROVE SQLInv'
    BY <2>1, <2>3, EnterWriteKeeps, AfterKeeps, ReadersKeep DEF Advance
  <2>4. ASSUME NEW t \in Singles \union Scanners, Cancel(t) PROVE SQLInv'
    <3>1. t \in Callers /\ t # Drainer
      BY Who
    <3>2. QED BY <2>1, <2>4, <3>1, CancelKeeps DEF groupVars
  <2>5. QED BY <1>1, <2>2, <2>3, <2>4 DEF Running
<1>2. ASSUME NEW m \in Messages, AppendMessage(m) \/ Abandon(m) PROVE SQLInv'
  BY <1>2, AppendKeeps, AbandonKeeps
<1>3. ASSUME NEW t \in Callers, Call(t) PROVE SQLInv'
  BY <1>3, CallKeeps
<1>4. CASE DrainStarts \/ BatchEnds
  BY <1>4, DrainKeeps
<1>5. CASE CloseStarts
  BY <1>5, CloseStartsKeeps
<1>6. CASE CloseCancelled
  <2>1. CASE drain = "ready"
    BY <1>6, <2>1, CloseStartsKeeps
  <2>2. CASE drain # "ready"
    <3>1. /\ Cancel(Drainer) /\ interrupted' = TRUE
          /\ UNCHANGED <<queue, batch, drain, answer, closing, logVars>>
      BY <1>6, <2>2 DEF CloseCancelled
    <3>2. QED BY <3>1, CancelKeeps, Who
  <2>3. QED BY <2>1, <2>2
<1>7. CASE CloseFails
  BY <1>7, CloseFailsKeeps
<1>8. CASE Emit \/ Flush \/ FinalFlush \/ UNCHANGED vars
  BY <1>8, LogKeeps
<1>9. QED BY <1>1, <1>2, <1>3, <1>4, <1>5, <1>6, <1>7, <1>8 DEF Next

LEMMA SQLAlways == Spec => []SQLInv
BY InitSQL, StepKeeps, PTL DEF Spec

\* Every variable of the backend keeps its type: the read connections are counted
\* right, and only rows of messages and single writes are ever written.
THEOREM SQLTypeCorrect == Spec => []SQLTypeOK
<1>1. SQLInv => SQLTypeOK
  BY DEF SQLInv, Typed
<1>2. QED BY <1>1, SQLAlways, PTL

\* A statement of one task never lands in the transaction of another.
THEOREM OwnRows == Spec => []OwnRowsOnly
<1>1. SQLInv => OwnRowsOnly
  <2> SUFFICES ASSUME SQLInv, NEW t \in opener, InBody(t)
               PROVE  uncommitted \subseteq ToSet(batch)
    BY DEF OwnRowsOnly
  <2>1. t = Drainer
    BY Who DEF SQLInv, Typed, SQLTypeOK
  <2>2. QED BY <2>1 DEF SQLInv, BodyInv
<1>2. QED BY <1>1, SQLAlways, PTL

\* Without a cancelled drain task no message whose publisher was told it failed is
\* ever in the log.
THEOREM FailedNeverStored == Spec => []FailedIsAbsent
<1>1. SQLInv => FailedIsAbsent
  BY DEF SQLInv
<1>2. QED BY <1>1, SQLAlways, PTL

\* Every append that waits is in the hands of a drain task or of close().
THEOREM AppendsAreOwned == Spec => []NoOrphanAppend
<1>1. SQLInv => NoOrphanAppend
  BY DEF SQLInv
<1>2. QED BY <1>1, SQLAlways, PTL

-----------------------------------------------------------------------------
(* An ack that came back, and the abstract backend. *)

\* Only the end of its write lets a single write come back.
LEMMA OkAfterWrite ==
    ASSUME SQLInv, Next, NEW s \in Singles, pc[s] # "ok", pc'[s] = "ok"
    PROVE  Got(s, "write", "ok") /\ UNCHANGED committed
<1>0. s \in Callers /\ s # Drainer /\ s \notin Scanners /\ DOMAIN pc = Callers
  BY Who DEF SQLInv, Typed, SQLTypeOK
<1>1. CASE Worker
  <2>1. UNCHANGED pc
    BY <1>1 DEF Worker, RunBegin, RunInsert, RunCommit, RunRollback, RunFails, RunClose,
                RunRefused, Finish
  <2>2. QED BY <2>1
<1>2. ASSUME NEW t \in Callers, Advance(t)
      PROVE  Got(s, "write", "ok") /\ UNCHANGED committed
  <2>1. ASSUME NEW p, pc' = [pc EXCEPT ![t] = p]
        PROVE  s = t /\ p = "ok"
    BY <1>0, <2>1
  <2>2. CASE t \in Writers /\ EnterWrite(t)
    BY <2>1, <2>2 DEF EnterWrite, SetPc
  <2>3. CASE AfterBegin(t)
    BY <2>1, <2>3 DEF AfterBegin, NextStatement, Submit, Leave, SetPc
  <2>4. CASE AfterInsert(t)
    BY <2>1, <2>4 DEF AfterInsert, NextStatement, Undo, Submit, SetPc
  <2>5. CASE AfterLast(t)
    <3> DEFINE p == IF pc[t] # "rollback" /\ result[t] = "ok" THEN "ok" ELSE "failed"
    <3>1. pc' = [pc EXCEPT ![t] = p] /\ result[t] # "none" /\ UNCHANGED committed
      BY <2>5 DEF AfterLast, Leave, SetPc, data
    <3>2. s = t /\ p = "ok"
      BY <2>1, <3>1
    <3>3. pc[s] = "write"
      BY <1>0, <3>1, <3>2, Who DEF SQLInv, PlaceInv, Inside
    <3>4. QED BY <3>1, <3>2, <3>3 DEF Got
  <2>6. CASE t \in Scanners /\ (EnterRead(t) \/ CheckOut(t) \/ Read(t))
    BY <1>0, <2>1, <2>6 DEF EnterRead, CheckOut, Read, Leave, SetPc
  <2>7. QED BY <1>2, <2>2, <2>3, <2>4, <2>5, <2>6 DEF Advance
<1>3. ASSUME NEW t \in Callers, Cancel(t)
      PROVE  FALSE
  BY <1>0, <1>3 DEF Cancel, SetPc
<1>4. ASSUME NEW t \in Callers, Call(t)
      PROVE  FALSE
  BY <1>0, <1>4 DEF Call, Ask, SetPc
<1>5. ASSUME NEW m \in Messages, AppendMessage(m) \/ Abandon(m)
      PROVE  FALSE
  BY <1>5 DEF AppendMessage, Abandon, sqlVars
<1>6. CASE DrainStarts \/ BatchEnds
  <2>1. pc' = [pc EXCEPT ![Drainer] = "idle"] \/ pc' = [pc EXCEPT ![Drainer] = "asking"]
    BY <1>6 DEF DrainStarts, BatchEnds, TakeBatch
  <2>2. QED BY <1>0, <2>1
<1>7. CASE CloseCancelled /\ ~Cancel(Drainer)
  BY <1>7 DEF CloseCancelled
<1>8. CASE CloseStarts \/ CloseFails \/ Emit \/ Flush \/ FinalFlush
  BY <1>8 DEF CloseStarts, CloseFails, Emit, Flush, FinalFlush, sqlVars
<1>9. QED BY <1>1, <1>2, <1>3, <1>4, <1>5, <1>6, <1>7, <1>8, Who DEF Next, Running

\* An ack comes back only when its row is committed, or when a transaction was left
\* half open for it to fall into.
THEOREM AcksAreCommitted == Spec => AckedIsCommitted
<1>1. ASSUME SQLInv, [Next]_vars, NEW s \in Singles, pc[s] # "ok", pc'[s] = "ok"
      PROVE  s \in committed' \/ HalfOpen
  <2>1. Next
    BY <1>1 DEF vars, sqlVars
  <2>2. Got(s, "write", "ok") /\ UNCHANGED committed
    BY <1>1, <2>1, OkAfterWrite
  <2>3. /\ \A j \in J : j.kind = "close"
        /\ s \in committed \/ \E t \in opener : ~InBody(t)
    BY <1>1, <2>2 DEF SQLInv, WriteInv
  <2>4. \A i \in DOMAIN jobs : jobs[i] \in J
    BY Zenon DEF J, ToSet
  <2>5. \A i \in DOMAIN jobs : jobs[i].kind \notin {"commit", "rollback"}
    BY <2>3, <2>4
  <2>6. QED BY <2>2, <2>3, <2>5 DEF HalfOpen
<1>2. SQLInv /\ [Next]_vars =>
        [\A s \in Singles :
           pc[s] # "ok" /\ pc'[s] = "ok" => s \in committed' \/ HalfOpen]_vars
  BY <1>1
<1>3. QED BY <1>2, SQLAlways, PTL DEF Spec, AckedIsCommitted

LEMMA BackendStutters ==
    ASSUME UNCHANGED <<answer, committed>>
    PROVE  [Backend!Next]_<<answer, committed \intersect Messages>>
OBVIOUS

\* The log only grows, and by messages handed in.
LEMMA LogGrows ==
    ASSUME SQLInv, Worker, UNCHANGED groupVars, UNCHANGED logVars
    PROVE  Backend!Settle
<1>1. PICK h \in Job : \E res \in {"ok", "error"} : Served(h, res) /\ Ran(h, res)
  BY WorkerServes DEF SQLInv
<1>2. PICK res \in {"ok", "error"} : Served(h, res) /\ Ran(h, res)
  BY <1>1
<1>3. h \in J /\ UNCHANGED answer
  BY <1>2 DEF Served, groupVars
<1>4. committed \subseteq committed' /\ committed' \subseteq committed \union uncommitted \union {h.row}
  BY <1>2 DEF Ran
<1>5. \A m \in Messages : m \in committed' => m \in committed \/ answer[m] # "unsent"
  BY <1>3, <1>4 DEF SQLInv, ToldInv
<1>6. answer' \in [Messages -> Backend!Answers \union {"unsent", "waiting"}]
  BY <1>3 DEF SQLInv, Typed, SQLTypeOK, Backend!Answers
<1>7. QED BY <1>3, <1>4, <1>5, <1>6 DEF Backend!Settle

\* Who is told is told once, and told stored only when the message is in the log.
LEMMA TellsOnce ==
    ASSUME SQLInv, BatchEnds \/ CloseFails \/ \E m \in Messages : Abandon(m)
    PROVE  Backend!Settle
<1>1. UNCHANGED committed
  BY DEF BatchEnds, TakeBatch, CloseFails, Abandon, data
<1>2. answer' \in [Messages -> Backend!Answers \union {"unsent", "waiting"}]
  BY DEF SQLInv, Typed, SQLTypeOK, BatchEnds, CloseFails, Abandon, Told, Backend!Answers
<1>3. ASSUME NEW m \in Messages, answer'[m] # answer[m]
      PROVE  /\ answer[m] = "waiting" /\ answer'[m] \in Backend!Answers
             /\ answer'[m] = "stored" => m \in committed
  <2>1. CASE BatchEnds
    <3>1. /\ m \in ToSet(batch) /\ answer[m] = "waiting"
          /\ answer'[m] = IF pc[Drainer] = "ok" THEN "stored" ELSE "failed"
      BY <1>3, <2>1 DEF BatchEnds, Told
    <3>2. QED BY <3>1 DEF SQLInv, TodoInv, Backend!Answers
  <2>2. CASE CloseFails
    BY <1>3, <2>2 DEF CloseFails, Told, Backend!Answers
  <2>3. CASE \E n \in Messages : Abandon(n)
    BY <1>3, <2>3 DEF Abandon, SQLInv, Typed, SQLTypeOK, Backend!Answers
  <2>4. QED BY <2>1, <2>2, <2>3
<1>4. QED BY <1>1, <1>2, <1>3 DEF Backend!Settle

LEMMA BackendSteps ==
    SQLInv /\ [Next]_vars => [Backend!Next]_<<answer, committed \intersect Messages>>
<1> SUFFICES ASSUME SQLInv, [Next]_vars
             PROVE  [Backend!Next]_<<answer, committed \intersect Messages>>
  OBVIOUS
<1>1. CASE Running
  <2>1. CASE Worker
    BY <1>1, <2>1, LogGrows DEF Running, Backend!Next
  <2>2. CASE ~Worker
    <3>1. UNCHANGED <<data, answer>>
      BY <1>1, <2>2 DEF Running, groupVars, Advance, EnterWrite, AfterBegin, AfterInsert,
                        AfterLast, EnterRead, CheckOut, Read, Cancel
    <3>2. QED BY <3>1, BackendStutters DEF data
  <2>3. QED BY <2>1, <2>2
<1>2. ASSUME NEW m \in Messages, AppendMessage(m)
      PROVE  Backend!Next
  BY <1>2 DEF AppendMessage, sqlVars, data, Backend!Next, Backend!Accept
<1>3. CASE BatchEnds \/ CloseFails \/ \E m \in Messages : Abandon(m)
  BY <1>3, TellsOnce DEF Backend!Next
<1>4. CASE \/ \E t \in Callers : Call(t)
           \/ DrainStarts \/ CloseStarts \/ CloseCancelled
           \/ Emit \/ Flush \/ FinalFlush \/ UNCHANGED vars
  <2>1. UNCHANGED <<answer, committed>>
    BY <1>4 DEF Call, Ask, DrainStarts, TakeBatch, CloseStarts, CloseCancelled, Cancel, Emit,
                Flush, FinalFlush, vars, sqlVars, data, groupVars
  <2>2. QED BY <2>1, BackendStutters
<1>5. QED BY <1>1, <1>2, <1>3, <1>4 DEF Next

\* The backend implements the append of the abstract one: told stored only once the
\* message is in the log, answered once, and the log only gains what was handed in.
THEOREM BackendIsDurableLog == Spec => ImplementsBackend
<1>1. Init => Backend!Init
  BY DEF Init, SQLInit, Backend!Init
<1>2. QED BY <1>1, BackendSteps, SQLAlways, PTL DEF Spec, ImplementsBackend, Backend!Spec

-----------------------------------------------------------------------------
(* What leaves a transaction half open. *)

\* No statement of the drain task stands in front of the close.
InFront(q) ==
    \A i, j \in DOMAIN q :
        i < j /\ q[j].kind = "close" => q[i].task # Drainer \/ q[i].kind = "close"

\* A transaction is open only while the drain task stands in its body; it is over when
\* the last statement is, before the close, and on a closed connection.
Sound ==
    /\ InFront(jobs)
    /\ opener # {} => InBody(Drainer)
    /\ ~open \/ (\E j \in J : j.kind = "close") => opener = {}
    /\ pc[Drainer] \in {"commit", "rollback"} /\ result[Drainer] # "none" => opener = {}

SoundInv ==
    /\ faults \in Nat
    /\ closing = "failing" => drain # "on"
    /\ ~interrupted /\ faults = 0 => Sound

LEMMA FrontAppend ==
    ASSUME NEW q \in Seq(Job), NEW x \in Job, InFront(q),
           \/ x.kind # "close"
           \/ \A j \in ToSet(q) : j.task # Drainer \/ j.kind = "close"
    PROVE  InFront(Append(q, x))
<1> DEFINE p == Append(q, x)
<1>1. /\ Len(q) \in Nat /\ DOMAIN q = 1..Len(q) /\ DOMAIN p = 1..(Len(q) + 1)
      /\ \A i \in 1..Len(q) : p[i] = q[i]
      /\ p[Len(q) + 1] = x
  <2>1. /\ p \in Seq(Job) /\ Len(p) = Len(q) + 1
        /\ \A i \in 1..Len(q) : p[i] = q[i]
        /\ p[Len(q) + 1] = x
    BY AppendProperties
  <2>2. DOMAIN p = 1..Len(p) /\ Len(q) \in Nat /\ DOMAIN q = 1..Len(q)
    BY <2>1, LenProperties
  <2>3. QED BY <2>1, <2>2
<1> HIDE DEF p
<1> SUFFICES ASSUME NEW i \in DOMAIN p, NEW j \in DOMAIN p, i < j, p[j].kind = "close"
             PROVE  p[i].task # Drainer \/ p[i].kind = "close"
  BY DEF InFront, p
<1>2. i \in DOMAIN q /\ p[i] = q[i]
  BY <1>1
<1>3. CASE j \in DOMAIN q
  BY <1>1, <1>2, <1>3 DEF InFront
<1>4. CASE j \notin DOMAIN q
  <2>1. p[j] = x
    BY <1>1, <1>4
  <2>2. q[i] \in ToSet(q)
    BY <1>2, Zenon DEF ToSet
  <2>3. QED BY <1>2, <2>1, <2>2
<1>5. QED BY <1>3, <1>4

LEMMA FrontTail ==
    ASSUME NEW q \in Seq(Job), q # << >>, InFront(q)
    PROVE  /\ InFront(Tail(q))
           /\ Head(q).task = Drainer /\ Head(q).kind # "close" =>
                \A j \in ToSet(Tail(q)) : j.kind # "close"
<1> DEFINE p == Tail(q)
<1>1. /\ Head(q) = q[1] /\ Len(q) \in Nat \ {0} /\ DOMAIN q = 1..Len(q)
      /\ DOMAIN p = 1..(Len(q) - 1)
      /\ \A i \in 1..(Len(q) - 1) : p[i] = q[i + 1]
  <2>1. /\ p \in Seq(Job) /\ Head(q) = q[1] /\ Len(p) = Len(q) - 1
        /\ \A i \in 1..(Len(q) - 1) : p[i] = q[i + 1]
    BY HeadTailProperties
  <2>2. DOMAIN p = 1..Len(p) /\ Len(q) \in Nat \ {0} /\ DOMAIN q = 1..Len(q)
    BY <2>1, LenProperties, EmptySeq
  <2>3. QED BY <2>1, <2>2
<1> HIDE DEF p
<1>2. \A i \in DOMAIN p : i + 1 \in DOMAIN q /\ 1 \in DOMAIN q /\ 1 < i + 1 /\ i \in Int
  BY <1>1
<1>3. InFront(p)
  BY <1>1, <1>2 DEF InFront
<1>4. Head(q).task = Drainer /\ Head(q).kind # "close" =>
         \A i \in DOMAIN p : p[i].kind # "close"
  BY <1>1, <1>2 DEF InFront
<1>5. \A j \in ToSet(p) : \E i \in DOMAIN p : j = p[i]
  BY Zenon DEF ToSet
<1>6. QED BY <1>3, <1>4, <1>5 DEF p

\* A withdrawn statement leaves the order of the others, and the close, as they were.
LEMMA FrontWithdrawn ==
    ASSUME jobs \in Seq(Job), InFront(jobs), NEW t, NEW rest \in Withdrawn(t)
    PROVE  /\ InFront(rest)
           /\ (\E j \in ToSet(rest) : j.kind = "close") => \E j \in J : j.kind = "close"
<1> DEFINE own == {i \in DOMAIN jobs : jobs[i].task = t /\ jobs[i].awaited}
           n == Len(jobs)
<1>1. n \in Nat /\ DOMAIN jobs = 1..n /\ \A i \in 1..n : jobs[i] \in Job /\ jobs[i] \in J
  BY LenProperties, ElementOfSeq, Zenon DEF J, ToSet
<1>2. \A j \in ToSet(rest) : \E i \in DOMAIN rest : j = rest[i]
  BY Zenon DEF ToSet
<1>3. CASE rest = jobs
  BY <1>3 DEF J
<1>4. ASSUME NEW i \in own, rest = RemoveAt(jobs, i)
      PROVE  /\ InFront(rest)
             /\ \A k \in DOMAIN rest : rest[k] \in J
  <2>1. /\ DOMAIN rest = 1..(n - 1)
        /\ \A k \in 1..(n - 1) : rest[k] = jobs[IF k < i THEN k ELSE k + 1]
    BY <1>4, RemovedElement
  <2> DEFINE at(k) == IF k < i THEN k ELSE k + 1
  <2>2. \A k \in 1..(n - 1) : at(k) \in 1..n /\ rest[k] = jobs[at(k)]
    BY <1>1, <2>1
  <2>3. \A k, l \in 1..(n - 1) : k < l => at(k) < at(l)
    BY <1>1
  <2> HIDE DEF at
  <2>4. QED BY <1>1, <2>1, <2>2, <2>3 DEF InFront
<1>5. ASSUME NEW i \in own \intersect {1}, rest = [jobs EXCEPT ![i].awaited = FALSE]
      PROVE  /\ InFront(rest)
             /\ \A k \in DOMAIN rest : \E j \in J : rest[k].kind = j.kind
  <2>1. i \in 1..n /\ jobs[i] \in Job
    BY <1>1
  <2>2. /\ DOMAIN rest = 1..n
        /\ \A k \in 1..n : rest[k] = IF k = i THEN [jobs[i] EXCEPT !.awaited = FALSE] ELSE jobs[k]
    BY <1>1, <1>5, <2>1
  <2>3. \A k \in 1..n : rest[k].task = jobs[k].task /\ rest[k].kind = jobs[k].kind
    BY <1>1, <2>1, <2>2 DEF Job
  <2>4. QED BY <1>1, <2>2, <2>3 DEF InFront
<1>6. \/ rest = jobs
      \/ \E i \in own : rest = RemoveAt(jobs, i)
      \/ \E i \in own \intersect {1} : rest = [jobs EXCEPT ![i].awaited = FALSE]
  BY DEF Withdrawn
<1>7. QED BY <1>2, <1>3, <1>4, <1>5, <1>6

\* What the statement h, the first, does to the transaction and tells its task, if
\* nothing fails.
Worked(h) ==
    \/ /\ h.kind = "begin" /\ open' /\ opener' = IF opener = {} THEN {h.task} ELSE opener
       /\ h.awaited => result' = [result EXCEPT ![h.task] = IF opener = {} THEN "ok" ELSE "error"]
    \/ h.kind \in {"commit", "rollback"} /\ open' = open /\ opener' = {}
    \/ h.kind = "insert" /\ open' = open /\ opener' = opener
    \/ h.kind = "close" /\ opener' = opener
    \/ ~open /\ opener' = opener

LEMMA WorkerSound ==
    ASSUME SQLInv, SoundInv, Worker, UNCHANGED <<groupVars, logVars>>
    PROVE  SoundInv'
<1> USE DEF SQLInv
<1> DEFINE h == Head(jobs)
<1>1. jobs # << >> /\ jobs' = Tail(jobs) /\ UNCHANGED <<pc, closing, drain, interrupted>>
  BY DEF Worker, RunBegin, RunInsert, RunCommit, RunRollback, RunFails, RunClose,
         RunRefused, First, Finish, groupVars
<1>2. faults' \in Nat /\ (faults' = 0 => faults = 0 /\ ~RunFails)
  BY DEF Worker, RunBegin, RunInsert, RunCommit, RunRollback, RunFails, RunClose,
         RunRefused, data, SoundInv
<1> SUFFICES ASSUME ~interrupted, faults' = 0
             PROVE  Sound'
  BY <1>1, <1>2 DEF SoundInv
<1>3. Sound /\ faults = 0 /\ ~RunFails
  BY <1>2 DEF SoundInv
<1>4. Worked(h)
  <2>1. ASSUME NEW v
        PROVE  Finish(v) /\ h.awaited => result' = [result EXCEPT ![h.task] = v]
    BY DEF Finish
  <2>2. CASE RunBegin
    BY <2>1, <2>2, Zenon DEF RunBegin, First, Worked
  <2>3. CASE RunInsert \/ RunCommit \/ RunRollback
    BY <2>3 DEF RunInsert, RunCommit, RunRollback, First, Worked
  <2>4. CASE RunClose \/ RunRefused
    BY <2>4 DEF RunClose, RunRefused, First, Worked, data
  <2>5. QED BY <1>3, <2>2, <2>3, <2>4 DEF Worker
<1>5. /\ h \in Job /\ h \in J /\ J = {h} \union J' /\ JobFits(h)
      /\ InFront(jobs')
      /\ h.task = Drainer /\ h.kind # "close" => \A j \in J' : j.kind # "close"
  <2>1. jobs \in Seq(Job) /\ InFront(jobs)
    BY <1>3 DEF Typed, Sound
  <2>2. h \in Job /\ ToSet(jobs) = {h} \union ToSet(Tail(jobs))
    BY <1>1, <2>1, TailElements
  <2>3. /\ InFront(Tail(jobs))
        /\ h.task = Drainer /\ h.kind # "close" => \A j \in ToSet(Tail(jobs)) : j.kind # "close"
    BY <1>1, <2>1, FrontTail
  <2>4. QED BY <1>1, <2>2, <2>3 DEF J, JobInv
<1> HIDE DEF h
<1>6. h.awaited /\ h.task = Drainer => pc[Drainer] = h.kind /\ result[Drainer] = "none"
  BY <1>5, Who DEF JobFits
<1>7. ~(h.awaited /\ h.task = Drainer) => result'[Drainer] = result[Drainer]
  <2>1. \/ UNCHANGED result
        \/ h.awaited /\ \E v : result' = [result EXCEPT ![h.task] = v]
    BY DEF Worker, RunBegin, RunInsert, RunCommit, RunRollback, RunFails, RunClose,
           RunRefused, Finish, h
  <2>2. QED BY <2>1, Who DEF Typed, SQLTypeOK
<1>8. h.kind # "insert" /\ h.kind # "close" => h.task = Drainer /\ h.awaited
  BY <1>5 DEF JobFits, AbsentInv
<1>9. opener # {} => h.kind # "begin"
  BY <1>3, <1>6, <1>8 DEF Sound, InBody, Got
<1>10. opener' # {} => InBody(Drainer)'
  <2>1. CASE h.kind = "begin" /\ opener = {}
    <3>1. opener' # {} => result' = [result EXCEPT ![Drainer] = "ok"]
      BY <1>4, <1>8, <2>1 DEF Worked
    <3>2. pc'[Drainer] = "begin"
      BY <1>1, <1>6, <1>8, <2>1
    <3>3. QED BY <3>1, <3>2, Who DEF InBody, Got, Typed, SQLTypeOK
  <2>2. CASE opener # {}
    <3>1. InBody(Drainer)
      BY <1>3, <2>2 DEF Sound
    <3>2. Got(Drainer, "begin", "ok") => result'[Drainer] = "ok"
      BY <1>6, <1>7 DEF Got
    <3>3. QED BY <1>1, <3>1, <3>2 DEF InBody, Got
  <2>3. CASE h.kind # "begin" /\ opener = {}
    BY <1>4, <2>3 DEF Worked
  <2>4. QED BY <2>1, <2>2, <2>3
<1>11. ~open' \/ (\E j \in J' : j.kind = "close") => opener' = {}
  <2>1. CASE h.kind = "begin"
    <3>1. \A j \in J' : j.kind # "close"
      BY <1>5, <1>8, <2>1
    <3>2. CASE open'
      BY <3>1, <3>2
    <3>3. CASE ~open'
      BY <1>3, <1>4, <2>1, <3>3 DEF Worked, Sound
    <3>4. QED BY <3>2, <3>3
  <2>2. CASE h.kind = "close"
    BY <1>3, <1>4, <1>5, <2>2 DEF Worked, Sound
  <2>3. CASE h.kind \notin {"begin", "close"}
    <3>1. opener = {} => opener' = {}
      BY <1>4, <2>3 DEF Worked
    <3>2. opener' # {} => open
      BY <1>3, <3>1 DEF Sound
    <3>3. opener' # {} => open' = open
      BY <1>4, <2>3, <3>2 DEF Worked
    <3>4. QED BY <1>3, <1>5, <3>1, <3>3 DEF Sound
  <2>4. QED BY <2>1, <2>2, <2>3
<1>12. pc'[Drainer] \in {"commit", "rollback"} /\ result'[Drainer] # "none" => opener' = {}
  <2> SUFFICES ASSUME pc[Drainer] \in {"commit", "rollback"}, result'[Drainer] # "none"
               PROVE  opener' = {}
    BY <1>1
  <2>1. h.kind # "begin"
    BY <1>6, <1>8
  <2>2. opener = {} => opener' = {}
    BY <1>4, <2>1 DEF Worked
  <2>3. CASE h.awaited /\ h.task = Drainer
    <3>1. h.kind \in {"commit", "rollback"}
      BY <1>6, <2>3
    <3>2. QED BY <1>3, <1>4, <2>2, <3>1 DEF Worked, Sound
  <2>4. CASE ~(h.awaited /\ h.task = Drainer)
    BY <1>3, <1>7, <2>2, <2>4 DEF Sound
  <2>5. QED BY <2>3, <2>4
<1>13. QED BY <1>5, <1>10, <1>11, <1>12 DEF Sound

\* A step of another task gives the worker nothing but its own statements.
LEMMA OthersSound ==
    ASSUME SoundInv, Sound, UNCHANGED <<open, opener, faults, closing, drain>>,
           UNCHANGED <<pc[Drainer], result[Drainer]>>, InFront(jobs'),
           (\E j \in J' : j.kind = "close") => \E j \in J : j.kind = "close"
    PROVE  SoundInv'
<1>1. InBody(Drainer) => InBody(Drainer)'
  BY DEF InBody, Got
<1>2. QED BY <1>1 DEF SoundInv, Sound

\* The drain task goes on with a statement, or leaves when no transaction is open.
LEMMA DrainerSound ==
    ASSUME SoundInv, Sound, UNCHANGED <<open, opener, faults, closing, drain>>,
           InFront(jobs'),
           (\E j \in J' : j.kind = "close") => \E j \in J : j.kind = "close",
           \/ pc'[Drainer] \in {"insert", "commit", "rollback"} /\ result'[Drainer] = "none"
           \/ opener = {} /\ pc'[Drainer] \notin {"commit", "rollback"}
    PROVE  SoundInv'
BY DEF SoundInv, Sound, InBody, Got

\* A statement that is given to the worker is no close.
LEMMA SubmitSound ==
    ASSUME Typed, Sound, NEW t \in Writers, NEW k \in Kinds, NEW r \in Messages \union Callers,
           k # "close", jobs' = Append(jobs, Statement(t, k, r))
    PROVE  /\ InFront(jobs')
           /\ (\E j \in J' : j.kind = "close") => \E j \in J : j.kind = "close"
<1> DEFINE x == Statement(t, k, r)
<1>1. x \in Job /\ x.kind = k
  BY DEF Statement, Job
<1>2. jobs \in Seq(Job) /\ InFront(jobs)
  BY DEF Typed, Sound
<1> HIDE DEF x
<1>3. InFront(Append(jobs, x)) /\ ToSet(Append(jobs, x)) = ToSet(jobs) \union {x}
  BY <1>1, <1>2, FrontAppend, AppendElements
<1>4. QED BY <1>1, <1>3 DEF J, x

\* The next statement of the transaction, or the rollback, keeps the drain task in it.
LEMMA NextSound ==
    ASSUME SQLInv, SoundInv, Sound, NEW t \in Writers, NextStatement(t) \/ Undo(t),
           t = Drainer, UNCHANGED <<open, opener, faults, closing, drain>>
    PROVE  SoundInv'
<1>1. PICK k \in {"insert", "commit", "rollback"}, r \in Messages \union Callers :
         /\ jobs' = Append(jobs, Statement(t, k, r))
         /\ pc' = [pc EXCEPT ![t] = k] /\ result' = [result EXCEPT ![t] = "none"]
  <2>1. CASE todo[t] # << >> /\ NextStatement(t)
    <3>1. todo[t] \in Seq(Messages)
      BY Who DEF SQLInv, Typed
    <3>2. Head(todo[t]) \in Messages
      BY <2>1, <3>1, TailElements
    <3>3. QED BY <2>1, <3>2 DEF NextStatement, Submit, SetPc
  <2>2. CASE ~(todo[t] # << >> /\ NextStatement(t))
    BY <2>2, Who DEF NextStatement, Undo, Submit, SetPc
  <2>3. QED BY <2>1, <2>2
<1>2. pc'[Drainer] = k /\ result'[Drainer] = "none"
  BY <1>1, Who DEF SQLInv, Typed, SQLTypeOK
<1>3. /\ InFront(jobs')
      /\ (\E j \in J' : j.kind = "close") => \E j \in J : j.kind = "close"
  BY <1>1, SubmitSound DEF SQLInv, Kinds
<1>4. QED BY <1>2, <1>3, DrainerSound

LEMMA AdvanceSound ==
    ASSUME SQLInv, SoundInv, Sound, NEW t \in Callers, Advance(t),
           UNCHANGED <<groupVars, logVars>>
    PROVE  SoundInv'
<1> USE DEF SQLInv
<1>0. /\ UNCHANGED <<open, opener, faults, closing, drain>>
      /\ pc \in [Callers -> {"idle", "asking", "begin", "insert", "commit", "write",
                             "rollback", "pool", "read", "ok", "failed"}]
      /\ result \in [Callers -> {"none", "ok", "error"}] /\ Drainer \in Callers
  <2>1. UNCHANGED data
    BY DEF Advance, EnterWrite, AfterBegin, AfterInsert, AfterLast, EnterRead, CheckOut, Read
  <2>2. QED BY <2>1, Who DEF data, groupVars, Typed, SQLTypeOK
<1>1. CASE t \in Writers /\ EnterWrite(t)
  <2> DEFINE k == IF t \in Batchers THEN "begin" ELSE "insert"
  <2>1. jobs' = Append(jobs, Statement(t, k, t)) /\ UNCHANGED result
    BY <1>1 DEF EnterWrite
  <2>2. /\ InFront(jobs')
        /\ (\E j \in J' : j.kind = "close") => \E j \in J : j.kind = "close"
    BY <1>1, <2>1, SubmitSound DEF Kinds
  <2>3. CASE t = Drainer
    <3>1. pc[Drainer] = "asking" /\ pc'[Drainer] = "begin"
      BY <1>0, <1>1, <2>3, Who DEF EnterWrite, SetPc
    <3>2. opener = {}
      BY <3>1 DEF Sound, InBody, Got
    <3>3. QED BY <1>0, <2>2, <3>1, <3>2, DrainerSound
  <2>4. CASE t # Drainer
    <3>1. UNCHANGED <<pc[Drainer], result[Drainer]>>
      BY <1>0, <1>1, <2>1, <2>4 DEF EnterWrite, SetPc
    <3>2. QED BY <1>0, <2>2, <3>1, OthersSound
  <2>5. QED BY <2>3, <2>4
<1>2. CASE AfterBegin(t)
  <2>1. pc[t] = "begin" /\ t = Drainer /\ t \in Writers
    BY <1>2, Who DEF AfterBegin, Got, PlaceInv, Inside, Outside
  <2>2. CASE NextStatement(t)
    BY <1>0, <2>1, <2>2, NextSound
  <2>3. CASE Got(t, "begin", "error") /\ Leave(t, "failed")
    <3>1. opener = {}
      BY <2>1, <2>3 DEF Sound, InBody, Got
    <3>2. pc'[Drainer] = "failed" /\ UNCHANGED jobs
      BY <1>0, <2>1, <2>3 DEF Leave, SetPc
    <3>3. QED BY <1>0, <3>1, <3>2, DrainerSound DEF Sound, J
  <2>4. QED BY <1>2, <2>2, <2>3 DEF AfterBegin
<1>3. CASE AfterInsert(t)
  <2>1. t = Drainer /\ t \in Writers
    BY <1>3, Who DEF AfterInsert, Got, PlaceInv, Inside, Outside
  <2>2. QED BY <1>0, <1>3, <2>1, NextSound DEF AfterInsert
<1>4. CASE AfterLast(t)
  <2>1. UNCHANGED jobs /\ result[t] # "none" /\ pc[t] \in {"commit", "rollback", "write"}
        /\ \E p \in {"ok", "failed"} :
              pc' = [pc EXCEPT ![t] = p] /\ result' = [result EXCEPT ![t] = "none"]
    BY <1>4 DEF AfterLast, Leave, SetPc
  <2>2. CASE t = Drainer
    <3>1. pc[t] # "write"
      BY <2>2, Who DEF PlaceInv, Inside, Outside
    <3>2. opener = {}
      BY <2>1, <2>2, <3>1 DEF Sound
    <3>3. pc'[Drainer] \in {"ok", "failed"}
      BY <1>0, <2>1, <2>2
    <3>4. QED BY <1>0, <2>1, <3>2, <3>3, DrainerSound DEF Sound, J
  <2>3. CASE t # Drainer
    <3>1. UNCHANGED <<pc[Drainer], result[Drainer]>>
      BY <1>0, <2>1, <2>3
    <3>2. QED BY <1>0, <2>1, <3>1, OthersSound DEF Sound, J
  <2>4. QED BY <2>2, <2>3
<1>5. CASE t \in Scanners /\ (EnterRead(t) \/ CheckOut(t) \/ Read(t))
  <2>1. UNCHANGED jobs /\ t # Drainer
    BY <1>5, Who DEF EnterRead, CheckOut, Read, Leave
  <2>2. UNCHANGED <<pc[Drainer], result[Drainer]>>
    BY <1>0, <1>5, <2>1 DEF EnterRead, CheckOut, Read, Leave, SetPc
  <2>3. QED BY <1>0, <2>1, <2>2, OthersSound DEF Sound, J
<1>6. QED BY <1>1, <1>2, <1>3, <1>4, <1>5 DEF Advance

LEMMA CancelSound ==
    ASSUME SQLInv, SoundInv, Sound, NEW t \in Singles \union Scanners, Cancel(t),
           UNCHANGED <<groupVars, logVars>>
    PROVE  SoundInv'
<1>1. t # Drainer /\ t \in Callers /\ t \notin Batchers
  BY Who
<1>2. pc[t] # "insert"
  BY <1>1 DEF SQLInv, PlaceInv, Inside, Outside
<1>3. jobs' = jobs \/ jobs' \in Withdrawn(t)
  BY <1>2 DEF Cancel
<1>4. /\ InFront(jobs')
      /\ (\E j \in J' : j.kind = "close") => \E j \in J : j.kind = "close"
  <2>1. jobs \in Seq(Job) /\ InFront(jobs)
    BY DEF SQLInv, Typed, Sound
  <2>2. CASE jobs' = jobs
    BY <2>1, <2>2 DEF J
  <2>3. CASE jobs' \in Withdrawn(t)
    BY <2>1, <2>3, FrontWithdrawn DEF J
  <2>4. QED BY <1>3, <2>2, <2>3
<1>5. UNCHANGED <<pc[Drainer], result[Drainer]>>
  <2>1. (\E p : pc' = [pc EXCEPT ![t] = p]) /\ result' = [result EXCEPT ![t] = "none"]
    BY <1>2 DEF Cancel, SetPc
  <2>2. QED BY <1>1, <2>1, Who DEF SQLInv, Typed, SQLTypeOK
<1>6. UNCHANGED <<open, opener, faults, closing, drain>>
  BY DEF Cancel, data, groupVars
<1>7. QED BY <1>4, <1>5, <1>6, OthersSound

\* The connection is closed when the drain task stands in no transaction.
LEMMA CloseSound ==
    ASSUME SQLInv, SoundInv, CloseFails
    PROVE  SoundInv'
<1> USE DEF SQLInv
<1>0. UNCHANGED <<open, opener, faults, pc, result, interrupted, drain>> /\ closing' = "done"
  BY DEF CloseFails, data
<1> SUFFICES ASSUME ~interrupted, faults = 0
             PROVE  Sound'
  BY <1>0 DEF SoundInv
<1>1. Sound
  BY DEF SoundInv
<1>2. pc[Drainer] = "idle"
  BY DEF CloseFails, SoundInv, ToldInv
<1>3. opener = {}
  BY <1>1, <1>2 DEF Sound, InBody, Got
<1>4. \A j \in J : j.task # Drainer \/ j.kind = "close"
  <2> SUFFICES ASSUME NEW j \in J, j.task = Drainer, j.kind # "close" PROVE FALSE
    OBVIOUS
  <2>1. j.kind \in Kinds /\ JobFits(j) /\ j.awaited
    BY JobsAre DEF Job, JobInv, AbsentInv
  <2>2. QED BY <1>2, <2>1, Who DEF JobFits, Kinds
<1> DEFINE x == [Statement(Drainer, "close", Drainer) EXCEPT !.awaited = FALSE]
<1>5. x \in Job /\ jobs' = Append(jobs, x)
  BY Who DEF Statement, Job, Kinds, CloseFails
<1> HIDE DEF x
<1>6. InFront(jobs')
  BY <1>1, <1>4, <1>5, FrontAppend DEF Typed, Sound, J
<1>7. QED BY <1>0, <1>2, <1>3, <1>6 DEF Sound, InBody, Got

LEMMA InitSound == Init => SoundInv
<1> SUFFICES ASSUME Init PROVE SoundInv
  OBVIOUS
<1>1. jobs = << >> /\ opener = {} /\ faults = 0 /\ closing = "no"
  BY DEF Init, SQLInit
<1>2. InFront(jobs)
  BY <1>1 DEF InFront
<1>3. QED BY <1>1, <1>2 DEF SoundInv, Sound

LEMMA SoundSteps == SQLInv /\ SoundInv /\ [Next]_vars => SoundInv'
<1> SUFFICES ASSUME SQLInv, SoundInv, [Next]_vars PROVE SoundInv'
  OBVIOUS
<1> USE DEF SQLInv
<1>1. CASE Running
  <2>1. UNCHANGED <<groupVars, logVars>>
    BY <1>1 DEF Running
  <2>2. CASE Worker
    BY <2>1, <2>2, WorkerSound
  <2>3. CASE ~Worker /\ Sound
    BY <1>1, <2>1, <2>3, AdvanceSound, CancelSound DEF Running
  <2>4. CASE ~Worker /\ ~Sound
    <3>1. UNCHANGED data
      BY <1>1, <2>4 DEF Running, Advance, EnterWrite, AfterBegin, AfterInsert, AfterLast,
                        EnterRead, CheckOut, Read, Cancel
    <3>2. QED BY <2>1, <2>4, <3>1 DEF SoundInv, data, groupVars
  <2>5. QED BY <2>2, <2>3, <2>4
<1>2. ASSUME NEW m \in Messages, AppendMessage(m) \/ Abandon(m) PROVE SoundInv'
  <2>1. UNCHANGED <<pc, jobs, result, data, closing, interrupted>>
    BY <1>2 DEF AppendMessage, Abandon, sqlVars
  <2>2. drain' = "on" => drain = "on"
    BY <1>2 DEF AppendMessage, Abandon, Woken
  <2>3. QED BY <2>1, <2>2 DEF SoundInv, Sound, InBody, Got, J, data
<1>3. ASSUME NEW t \in Callers, Call(t) PROVE SoundInv'
  <2>1. /\ pc' = [pc EXCEPT ![t] = "asking"] /\ t # Drainer
        /\ UNCHANGED <<jobs, result, data, closing, interrupted, drain>>
    BY <1>3, Who DEF Call, Ask, SetPc, groupVars
  <2>2. pc'[Drainer] = pc[Drainer]
    BY <2>1, Who DEF Typed, SQLTypeOK
  <2>3. QED BY <2>1, <2>2 DEF SoundInv, Sound, InBody, Got, J, data
<1>4. CASE DrainStarts \/ BatchEnds
  <2>1. /\ UNCHANGED <<jobs, result, data, interrupted>>
        /\ pc' = [pc EXCEPT ![Drainer] = "idle"] \/ pc' = [pc EXCEPT ![Drainer] = "asking"]
        /\ closing' = "failing" => drain' # "on"
    BY <1>4 DEF DrainStarts, BatchEnds, TakeBatch, SoundInv
  <2>2. pc'[Drainer] \in {"idle", "asking"}
    BY <2>1, Who DEF Typed, SQLTypeOK
  <2>3. pc[Drainer] \in {"idle", "ok", "failed"}
    BY <1>4 DEF DrainStarts, BatchEnds, ToldInv
  <2>4. Sound => opener = {}
    BY <2>3 DEF Sound, InBody, Got
  <2>5. Sound => Sound'
    BY <2>1, <2>2, <2>4 DEF Sound, J, data
  <2>6. QED BY <2>1, <2>5 DEF SoundInv, data
<1>5. CASE CloseCancelled
  <2>1. interrupted' = TRUE /\ UNCHANGED faults
    BY <1>5 DEF CloseCancelled, Cancel, data
  <2>2. closing' = "failing" => drain' # "on"
    BY <1>5 DEF CloseCancelled, SoundInv
  <2>3. QED BY <2>1, <2>2 DEF SoundInv
<1>6. CASE CloseFails
  BY <1>6, CloseSound
<1>7. CASE CloseStarts \/ Emit \/ Flush \/ FinalFlush \/ UNCHANGED vars
  <2>1. /\ UNCHANGED <<pc, jobs, result, data, drain, interrupted>>
        /\ closing' = "failing" => closing = "failing"
    BY <1>7 DEF CloseStarts, Emit, Flush, FinalFlush, vars, sqlVars, groupVars
  <2>2. QED BY <2>1 DEF SoundInv, Sound, InBody, Got, J, data
<1>8. QED BY <1>1, <1>2, <1>3, <1>4, <1>5, <1>6, <1>7 DEF Next

\* _asqlite.py:330-333 keeps its word, that a task leaves no half-open transaction,
\* unless a drain task was cancelled or a statement failed: without either, whatever
\* other calls are cancelled and whenever the backend is closed, no transaction is
\* open that its task has left, and none on a connection that is closed.
THEOREM HalfOpenOnlyByFault ==
    Spec => [](~interrupted /\ faults = 0 => ~HalfOpen /\ (~open => opener = {}))
<1>1. SQLInv /\ SoundInv => (~interrupted /\ faults = 0 => ~HalfOpen /\ (~open => opener = {}))
  <2> SUFFICES ASSUME SQLInv, Sound PROVE ~HalfOpen /\ (~open => opener = {})
    BY DEF SoundInv
  <2>1. \A t \in opener : t = Drainer
    BY Who DEF SQLInv, Typed, SQLTypeOK
  <2>2. QED BY <2>1 DEF Sound, HalfOpen
<1>2. Spec => []SoundInv
  BY InitSound, SoundSteps, SQLAlways, PTL DEF Spec
<1>3. QED BY <1>1, <1>2, SQLAlways, PTL

-----------------------------------------------------------------------------
(* The lock. *)

\* The calls of the wrapper touch the lock only through what SharedLock, which RWLock
\* implements, lets its users do: a task enters once it may, and only a task that has
\* the lock gives it back (_asqlite.py:211-226, 274-286, 340-358).
THEOREM CallsKeepToLock == Spec => Lock!Spec
<1>1. Init => Lock!Init
  BY DEF Init, SQLInit
<1>2. [Next]_vars => [Lock!Next]_holders
  <2> SUFFICES ASSUME [Next]_vars, holders' # holders PROVE Lock!Next
    OBVIOUS
  <2>1. ~Worker
    BY DEF Worker, RunBegin, RunInsert, RunCommit, RunRollback, RunFails, RunClose,
           RunRefused, Finish
  <2>2. ASSUME NEW t \in Callers, Advance(t) PROVE Lock!Next
    <3>1. CASE t \in Writers /\ EnterWrite(t)
      BY <3>1 DEF EnterWrite, LockWrite, Lock!Next
    <3>2. CASE AfterBegin(t) \/ AfterInsert(t)
      BY <3>2 DEF AfterBegin, AfterInsert, NextStatement, Undo, Submit, Leave, Lock!Next, Callers
    <3>3. CASE AfterLast(t) \/ Read(t)
      BY <3>3 DEF AfterLast, Read, Leave, Lock!Next, Callers
    <3>4. CASE t \in Scanners /\ (EnterRead(t) \/ CheckOut(t))
      BY <3>4 DEF EnterRead, CheckOut, Lock!Next
    <3>5. QED BY <2>2, <3>1, <3>2, <3>3, <3>4 DEF Advance
  <2>3. ASSUME NEW t \in Callers, Cancel(t) PROVE Lock!Next
    BY <2>3 DEF Cancel, Lock!Next, Callers
  <2>4. UNCHANGED holders \/ Running \/ (CloseCancelled /\ Cancel(Drainer))
    BY DEF Next, AppendMessage, Abandon, Call, Ask, DrainStarts, BatchEnds, TakeBatch,
           CloseStarts, CloseCancelled, CloseFails, Emit, Flush, FinalFlush, vars, sqlVars
  <2>5. QED BY <2>1, <2>2, <2>3, <2>4, Who DEF Running
<1>3. QED BY <1>1, <1>2, PTL DEF Spec, Lock!Spec
=============================================================================
