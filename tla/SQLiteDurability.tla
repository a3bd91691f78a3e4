--------------------------- MODULE SQLiteDurability -------------------------
(***************************************************************************)
(* The SQLite backend of pubsub/server/durability/sqlite.py over the       *)
(* wrapper of AsyncSQLite: appends queue up and one drain task commits     *)
(* them in batches; acks and dead letters are single writes, replay reads. *)
(* With it goes the audit log of pubsub/server/log.py, which              *)
(* transport/runner.py keeps in the same database file.                    *)
(***************************************************************************)
EXTENDS AsyncSQLite

CONSTANTS
    Messages,    \* messages published, one append each
    Drainer,     \* the drain task, _drain_task
    MaxRecords   \* bound: how many audit records are emitted

ASSUME BackendAssumption ==
    /\ Batchers = {Drainer} /\ Messages \intersect Callers = {}
    /\ MaxRecords \in Nat

VARIABLES
    queue,        \* _append_queue
    batch,        \* the batch the drain task is committing
    drain,        \* the drain task: "off" (none, or done), "ready", "on"
    answer,       \* answer[m]: what append has told the publisher of m
    closing,      \* close(): "no", "awaiting" the drain task, "failing", "done"
    interrupted,  \* the drain task was cancelled
    buffer,       \* audit records emitted and not flushed
    lost,         \* audit records that are in neither the buffer nor the table
    flusher       \* _flush_loop is alive

groupVars == <<queue, batch, drain, answer, closing, interrupted>>
logVars == <<buffer, lost, flusher>>
vars == <<sqlVars, groupVars, logVars>>

\* Mutant: only success is told.
ToldSuccess(s, outcome) ==
    answer' = [m \in Messages |->
        IF m \in ToSet(s) /\ answer[m] = "waiting" /\ outcome = "stored"
        THEN outcome ELSE answer[m]]

\* The futures of the messages of s get an outcome, those not done already.
Told(s, outcome) ==
    answer' = [m \in Messages |->
        IF m \in ToSet(s) /\ answer[m] = "waiting" THEN outcome ELSE answer[m]]

-----------------------------------------------------------------------------
(* Group commit. *)

\* Mutant: a drain task is created once, and not again when it is done.
WokenOnce == IF \A n \in Messages : answer[n] = "unsent" THEN "ready" ELSE drain

\* The drain task after an append: a new one, if there is none or it is done.
Woken == IF drain = "off" THEN "ready" ELSE drain

AppendMessage(m) ==
    /\ answer[m] = "unsent"
    /\ answer' = [answer EXCEPT ![m] = "waiting"]
    /\ queue' = Append(queue, m)
    /\ drain' = Woken
    /\ UNCHANGED <<batch, closing, interrupted, sqlVars, logVars>>

\* The publisher's wait is cancelled; its row is written all the same.
Abandon(m) ==
    /\ answer[m] = "waiting"
    /\ cancels < MaxCancels
    /\ cancels' = cancels + 1
    /\ answer' = [answer EXCEPT ![m] = "cancelled"]
    /\ UNCHANGED <<pc, holders, jobs, result, todo, free, data, queue, batch,
                   drain, closing, interrupted, logVars>>

\* The loop test of _drain_appends: everything queued is the next batch.
TakeBatch(from) ==
    /\ queue' = <<>>
    /\ batch' = queue
    /\ todo' = [todo EXCEPT ![Drainer] = queue]
    /\ \/ queue = <<>> /\ drain' = "off" /\ pc' = [from EXCEPT ![Drainer] = "idle"]
       \/ queue # <<>> /\ drain' = "on" /\ pc' = [from EXCEPT ![Drainer] = "asking"]
    /\ UNCHANGED <<holders, jobs, result, free, cancels, data, interrupted, logVars>>

\* The event loop wakes close() before a drain task created after the awaited one.
DrainStarts ==
    /\ drain = "ready" /\ closing # "failing"
    /\ TakeBatch(pc)
    /\ UNCHANGED <<answer, closing>>

BatchEnds ==
    /\ drain = "on" /\ pc[Drainer] \in {"ok", "failed"}
    /\ Told(batch, IF pc[Drainer] = "ok" THEN "stored" ELSE "failed")
    /\ TakeBatch(pc)
    /\ closing' = IF drain' = "off" /\ closing = "awaiting" THEN "failing" ELSE closing

\* A single write or a read: record_ack, to_dlq, register_topic; read_from.
Call(t) ==
    /\ t \in Singles \union Scanners
    /\ Ask(t, <<>>)
    /\ UNCHANGED <<groupVars, logVars>>

-----------------------------------------------------------------------------
(* close. *)

\* close() waits for a drain task that is not done.
CloseStarts ==
    /\ closing = "no" /\ drain # "off"
    /\ closing' = "awaiting"
    /\ UNCHANGED <<queue, batch, drain, answer, interrupted, sqlVars, logVars>>

\* A cancelled close() cancels the drain task it awaits.  One that runs tells its
\* batch and goes on, so close() waits on; one that has not started ends.
CloseCancelled ==
    /\ closing = "awaiting"
    /\ \/ drain = "on" /\ Cancel(Drainer) /\ UNCHANGED <<drain, closing>>
       \/ /\ drain = "ready" /\ cancels < MaxCancels
          /\ cancels' = cancels + 1
          /\ drain' = "off" /\ closing' = "failing"
          /\ UNCHANGED <<pc, holders, jobs, result, todo, free, data>>
    /\ interrupted' = TRUE
    /\ UNCHANGED <<queue, batch, answer, logVars>>

\* close(), once the drain task is done: whatever is queued is refused, and the
\* connection closed.
CloseFails ==
    /\ closing = "failing" \/ (closing = "no" /\ drain = "off")
    /\ closing' = "done"
    /\ Told(queue, "failed")
    /\ queue' = <<>>
    /\ jobs' = Append(jobs, [Statement(Drainer, "close", Drainer) EXCEPT !.awaited = FALSE])
    /\ UNCHANGED <<pc, holders, result, todo, free, cancels, data, batch, drain,
                   interrupted, logVars>>

-----------------------------------------------------------------------------
(* The audit log. *)

Emit ==
    /\ buffer + lost < MaxRecords
    /\ buffer' = buffer + 1
    /\ UNCHANGED <<lost, flusher, sqlVars, groupVars>>

\* The write lock of the file is held by the open transaction, and nothing that
\* the worker still has to do ends it.  flush_to_storage blocks the event loop,
\* so no task can: the insert waits for the busy timeout and fails.
FileBusy ==
    /\ uncommitted # {}
    /\ \A i \in DOMAIN jobs : jobs[i].kind \notin {"commit", "rollback", "close"}

\* flush_to_storage empties the buffer first.  An insert that fails raises out of
\* _flush_loop, which ends.
Flush ==
    /\ flusher /\ closing = "no" /\ buffer > 0
    /\ buffer' = 0
    /\ IF FileBusy THEN lost' = lost + buffer /\ flusher' = FALSE
                   ELSE UNCHANGED <<lost, flusher>>
    /\ UNCHANGED <<sqlVars, groupVars>>

\* serve() flushes once more after the broker is closed.
FinalFlush ==
    /\ closing = "done" /\ ~open /\ buffer > 0
    /\ buffer' = 0
    /\ flusher' = FALSE
    /\ UNCHANGED <<lost, sqlVars, groupVars>>

-----------------------------------------------------------------------------

Init ==
    /\ SQLInit
    /\ queue = <<>> /\ batch = <<>> /\ drain = "off"
    /\ answer = [m \in Messages |-> "unsent"]
    /\ closing = "no" /\ interrupted = FALSE
    /\ buffer = 0 /\ lost = 0 /\ flusher = TRUE

Running ==
    /\ \/ Worker
       \/ \E t \in Callers : Advance(t)
       \/ \E t \in Singles \union Scanners : Cancel(t)
    /\ UNCHANGED <<groupVars, logVars>>

Next ==
    \/ Running
    \/ \E m \in Messages : AppendMessage(m) \/ Abandon(m)
    \/ \E t \in Callers : Call(t)
    \/ DrainStarts \/ BatchEnds
    \/ CloseStarts \/ CloseCancelled \/ CloseFails
    \/ Emit \/ Flush \/ FinalFlush

Spec == Init /\ [][Next]_vars

\* The worker runs, the event loop resumes whoever can go on.
FairSpec ==
    /\ Spec /\ SQLFairness
    /\ WF_vars(DrainStarts) /\ WF_vars(BatchEnds) /\ WF_vars(closing = "failing" /\ CloseFails)

-----------------------------------------------------------------------------
(* Properties. *)

\* Every variable holds a value of its kind.
SQLTypeOK ==
    /\ pc \in [Callers -> {"idle", "asking", "begin", "insert", "commit", "write",
                           "rollback", "pool", "read", "ok", "failed"}]
    /\ holders \subseteq Callers
    /\ result \in [Callers -> {"none", "ok", "error"}]
    /\ opener \in SUBSET Batchers
    /\ uncommitted \subseteq Messages \union Singles
    /\ committed \subseteq Messages \union Singles
    /\ free \in 0..PoolSize
    /\ answer \in [Messages -> {"unsent", "waiting", "stored", "failed", "cancelled"}]
    /\ drain \in {"off", "ready", "on"}
    /\ closing \in {"no", "awaiting", "failing", "done"}
    /\ buffer \in 0..MaxRecords /\ lost \in 0..MaxRecords

\* The drain task stands in the body of the transaction it opened.
InBody(t) == pc[t] \in {"insert", "commit", "rollback"} \/ Got(t, "begin", "ok")

\* A transaction is open that its task has left and that no job is about to end.
HalfOpen ==
    /\ \E t \in opener : ~InBody(t)
    /\ \A i \in DOMAIN jobs : jobs[i].kind \notin {"commit", "rollback"}

\* _asqlite.py:330-333 says a transaction rolls back on any exception "so a
\* cancelled task leaves no half-open transaction".
NoHalfOpen == ~HalfOpen

\* "Each waiter still resolves only after its row is durably committed"
\* (sqlite.py:117-118), and so does an ack or a dead letter, unless a transaction was
\* left half open for its write to fall into.
AckedIsCommitted ==
    [][\A s \in Singles :
          pc[s] # "ok" /\ pc'[s] = "ok" => s \in committed' \/ HalfOpen]_vars

\* A batch is all or nothing: without a cancelled drain task no message whose
\* publisher was told it failed is ever in the log (sqlite.py:153-157).
FailedIsAbsent ==
    interrupted \/ \A m \in Messages : answer[m] = "failed" => m \notin committed

\* A statement of one task never lands in the transaction of another: what is
\* written there belongs to the batch (_asqlite.py:27-28).
OwnRowsOnly ==
    (\E t \in opener : InBody(t)) => uncommitted \subseteq ToSet(batch)

\* An append that waits is in somebody's hands: queued for a drain task that will
\* run or for close() to refuse, or in the batch being committed (sqlite.py:133-136).
NoOrphanAppend ==
    \A m \in Messages : answer[m] = "waiting" =>
        \/ m \in ToSet(queue) /\ (drain # "off" \/ closing = "failing")
        \/ m \in ToSet(batch) /\ drain = "on"

\* The lock and the read connections are always given back, and every append is
\* answered, whatever fails, is cancelled or is closed (_asqlite.py:333).
EveryCallEnds ==
    /\ \A t \in Callers : pc[t] = "asking" ~> pc[t] \in {"idle", "ok", "failed"}
    /\ \A m \in Messages : answer[m] = "waiting" ~> answer[m] # "waiting"

\* The backend implements the append of the abstract one.
Backend == INSTANCE DurableLog WITH log <- committed \intersect Messages
ImplementsBackend == Backend!Spec

\* runner.py:30-31 says the buffer is written every few seconds "so a crash loses
\* at most one interval of audit history": a record leaves the buffer for the table.
AuditKept == lost = 0
=============================================================================
