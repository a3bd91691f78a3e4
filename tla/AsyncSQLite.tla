----------------------------- MODULE AsyncSQLite ----------------------------
(***************************************************************************)
(* The SQLite wrapper of pubsub/server/_asqlite.py: calls take the         *)
(* read/write lock (SharedLock, which RWLock implements), hand statements  *)
(* to the worker thread that owns the write connection, and await them.    *)
(* Left out: the mode without read connections, in which reads run on the  *)
(* write connection, and executescript, used before anything else runs.    *)
(***************************************************************************)
EXTENDS Integers, Sequences, FiniteSets, SequencesExt

CONSTANTS
    Batchers,    \* tasks that write a batch of rows in a transaction
    Singles,     \* tasks that write one row, themselves, in autocommit
    Scanners,    \* tasks that read
    PoolSize,    \* number of read connections
    MaxCancels,  \* bound: how many calls are cancelled
    MaxFaults    \* bound: how many statements fail

ASSUME SQLiteAssumption ==
    /\ IsFiniteSet(Batchers) /\ IsFiniteSet(Singles) /\ IsFiniteSet(Scanners)
    /\ Batchers \intersect (Singles \union Scanners) = {}
    /\ Singles \intersect Scanners = {}
    /\ PoolSize \in Nat \ {0} /\ MaxCancels \in Nat /\ MaxFaults \in Nat

Writers == Batchers \union Singles
Callers == Writers \union Scanners

VARIABLES
    pc,           \* where each caller stands
    holders,      \* callers that have the read/write lock
    jobs,         \* the writer's worker thread: statements it has been given
    result,       \* result[t]: what became of t's statement, until t resumes
    todo,         \* todo[t]: rows of its batch t has not asked to insert yet
    opener,       \* {t} when t's BEGIN opened the transaction now open, or {}
    uncommitted,  \* rows written in that transaction
    committed,    \* rows every other connection sees
    free,         \* _read_pool: read connections not checked out
    open,         \* the write connection is open
    cancels,      \* calls cancelled so far
    faults        \* statements failed so far

data == <<opener, uncommitted, committed, open, faults>>
sqlVars == <<pc, holders, jobs, result, todo, free, cancels, data>>

Lock == INSTANCE SharedLock WITH Readers <- Scanners

SetPc(t, p) == pc' = [pc EXCEPT ![t] = p]

\* A job of the worker: a statement that task t awaits.
Statement(t, kind, row) ==
    [task |-> t, kind |-> kind, row |-> row, awaited |-> TRUE]

\* Task t hands a statement to the worker and awaits it at place p.
Submit(t, kind, row, p) ==
    /\ jobs' = Append(jobs, Statement(t, kind, row))
    /\ result' = [result EXCEPT ![t] = "none"]
    /\ SetPc(t, p)
    /\ UNCHANGED holders

\* Task t releases the lock, and its call returns or raises.
Leave(t, outcome) ==
    /\ Lock!Leave(t)
    /\ SetPc(t, outcome)
    /\ result' = [result EXCEPT ![t] = "none"]
    /\ UNCHANGED jobs

-----------------------------------------------------------------------------
(* The worker thread takes the jobs in turn. *)

\* The first job is over; its task, if it still waits, resumes with res later.
Finish(res) ==
    /\ jobs' = Tail(jobs)
    /\ result' = IF Head(jobs).awaited
                 THEN [result EXCEPT ![Head(jobs).task] = res] ELSE result
    /\ UNCHANGED <<pc, holders, todo, free, cancels>>

First(kind) == jobs # <<>> /\ Head(jobs).kind = kind /\ open

\* A transaction within a transaction is refused.
RunBegin ==
    /\ First("begin")
    /\ opener' = IF opener = {} THEN {Head(jobs).task} ELSE opener
    /\ Finish(IF opener = {} THEN "ok" ELSE "error")
    /\ UNCHANGED <<uncommitted, committed, open, faults>>

\* Outside a transaction a row is committed at once.
RunInsert ==
    /\ First("insert")
    /\ IF opener = {}
       THEN /\ committed' = committed \union {Head(jobs).row}
            /\ UNCHANGED uncommitted
       ELSE /\ uncommitted' = uncommitted \union {Head(jobs).row}
            /\ UNCHANGED committed
    /\ Finish("ok")
    /\ UNCHANGED <<opener, open, faults>>

RunCommit ==
    /\ First("commit")
    /\ committed' = committed \union uncommitted
    /\ uncommitted' = {} /\ opener' = {}
    /\ Finish("ok")
    /\ UNCHANGED <<open, faults>>

RunRollback ==
    /\ First("rollback")
    /\ uncommitted' = {} /\ opener' = {}
    /\ Finish("ok")
    /\ UNCHANGED <<committed, open, faults>>

\* An insert or a commit fails: a constraint, a full disk, a busy database.  The
\* transaction stays open, or SQLite has rolled it back.
RunFails ==
    /\ First("insert") \/ First("commit")
    /\ faults < MaxFaults
    /\ faults' = faults + 1
    /\ \/ UNCHANGED <<opener, uncommitted>>
       \/ uncommitted' = {} /\ opener' = {}
    /\ Finish("error")
    /\ UNCHANGED <<committed, open>>

\* The connection closes; what it had not committed is lost.
RunClose ==
    /\ First("close")
    /\ open' = FALSE
    /\ jobs' = Tail(jobs)
    /\ UNCHANGED <<pc, holders, result, todo, free, cancels, opener,
                   uncommitted, committed, faults>>

\* A closed connection and a worker that was shut down refuse every statement.
RunRefused ==
    /\ jobs # <<>> /\ ~open
    /\ Finish("error")
    /\ UNCHANGED data

Worker ==
    \/ RunBegin \/ RunInsert \/ RunCommit \/ RunRollback \/ RunFails
    \/ RunClose \/ RunRefused

-----------------------------------------------------------------------------
(* The calls. *)

\* A call starts and asks for the lock; a batch brings its rows.
Ask(t, rows) ==
    /\ pc[t] = "idle"
    /\ SetPc(t, "asking")
    /\ todo' = [todo EXCEPT ![t] = rows]
    /\ UNCHANGED <<holders, jobs, result, free, cancels, data>>

\* Mutant: a write goes to the worker without the lock.
LockUnguarded(t) == holders' = holders \union {t}

\* acquire_write.
LockWrite(t) == Lock!EnterAlone(t)

\* _write and _Transaction.__aenter__, once they have the lock.
EnterWrite(t) ==
    /\ pc[t] = "asking"
    /\ LockWrite(t)
    /\ IF t \in Batchers
       THEN jobs' = Append(jobs, Statement(t, "begin", t)) /\ SetPc(t, "begin")
       ELSE jobs' = Append(jobs, Statement(t, "insert", t)) /\ SetPc(t, "write")
    /\ UNCHANGED <<result, todo, free, cancels, data>>

\* The next statement of a transaction: a row of the batch, or the commit.
NextStatement(t) ==
    IF todo[t] = <<>>
    THEN Submit(t, "commit", t, "commit") /\ UNCHANGED todo
    ELSE /\ Submit(t, "insert", Head(todo[t]), "insert")
         /\ todo' = [todo EXCEPT ![t] = Tail(@)]

Got(t, p, res) == pc[t] = p /\ result[t] = res

\* __aenter__ gives the lock back when BEGIN fails.
AfterBegin(t) ==
    /\ \/ Got(t, "begin", "ok") /\ NextStatement(t)
       \/ Got(t, "begin", "error") /\ Leave(t, "failed") /\ UNCHANGED todo
    /\ UNCHANGED <<free, cancels, data>>

\* Mutant: __aexit__ commits whatever happened in the body.
UndoCommits(t) == Submit(t, "commit", t, "rollback") /\ UNCHANGED todo

\* Mutant: a failed insert is skipped.
UndoNothing(t) == NextStatement(t)

\* __aexit__ after an exception in the body.
Undo(t) == Submit(t, "rollback", t, "rollback") /\ UNCHANGED todo

AfterInsert(t) ==
    /\ \/ Got(t, "insert", "ok") /\ NextStatement(t)
       \/ Got(t, "insert", "error") /\ Undo(t)
    /\ UNCHANGED <<free, cancels, data>>

\* The last statement is over: __aexit__ and _write release the lock whatever it
\* came to.  A call whose body was rolled back raises.
AfterLast(t) ==
    /\ pc[t] \in {"commit", "rollback", "write"} /\ result[t] # "none"
    /\ Leave(t, IF pc[t] # "rollback" /\ result[t] = "ok" THEN "ok" ELSE "failed")
    /\ UNCHANGED <<todo, free, cancels, data>>

\* _read: the lock, then a connection of the pool, then the rows.
EnterRead(t) ==
    /\ pc[t] = "asking"
    /\ Lock!EnterShared(t)
    /\ SetPc(t, "pool")
    /\ UNCHANGED <<jobs, result, todo, free, cancels, data>>

CheckOut(t) ==
    /\ pc[t] = "pool" /\ free > 0
    /\ free' = free - 1
    /\ SetPc(t, "read")
    /\ UNCHANGED <<holders, jobs, result, todo, cancels, data>>

\* Mutant: a cancelled read returns the connection it was still waiting for.
ReturnedAlways(t) == IF pc[t] \in {"pool", "read"} THEN free + 1 ELSE free

\* The pool after the finally clause of _read.
Returned(t) == IF pc[t] = "read" THEN free + 1 ELSE free

Read(t) ==
    /\ pc[t] = "read"
    /\ free' = Returned(t)
    /\ Leave(t, "ok")
    /\ UNCHANGED <<todo, cancels, data>>

\* What the worker may be left with when task t stops waiting: a job that has not
\* started is dropped, one that has goes on for nobody.  Only the first can have.
Withdrawn(t) ==
    LET own == {i \in DOMAIN jobs : jobs[i].task = t /\ jobs[i].awaited} IN
    IF own = {} THEN {jobs}
    ELSE {RemoveAt(jobs, i) : i \in own} \union
         {[jobs EXCEPT ![i].awaited = FALSE] : i \in own \intersect {1}}

\* CancelledError in a call.  In the body of a transaction __aexit__ rolls back;
\* anywhere else the lock, and the read connection, are given back at once.
Cancel(t) ==
    /\ cancels < MaxCancels
    /\ cancels' = cancels + 1
    /\ result' = [result EXCEPT ![t] = "none"]
    /\ \/ /\ pc[t] = "asking"
          /\ UNCHANGED <<holders, jobs>>
          /\ SetPc(t, "failed")
       \/ /\ pc[t] = "insert"
          /\ \E rest \in Withdrawn(t) : jobs' = Append(rest, Statement(t, "rollback", t))
          /\ SetPc(t, "rollback")
          /\ UNCHANGED holders
       \/ /\ pc[t] \in {"begin", "commit", "rollback", "write", "pool", "read"}
          /\ jobs' \in Withdrawn(t)
          /\ Lock!Leave(t)
          /\ SetPc(t, "failed")
    /\ free' = Returned(t)
    /\ UNCHANGED <<todo, data>>

-----------------------------------------------------------------------------

SQLInit ==
    /\ pc = [t \in Callers |-> "idle"]
    /\ Lock!Init
    /\ jobs = <<>>
    /\ result = [t \in Callers |-> "none"]
    /\ todo = [t \in Callers |-> <<>>]
    /\ opener = {} /\ uncommitted = {} /\ committed = {}
    /\ free = PoolSize
    /\ open = TRUE
    /\ cancels = 0 /\ faults = 0

\* A step of a call that has started, without what the caller may do to it.
Advance(t) ==
    \/ t \in Writers /\ EnterWrite(t)
    \/ AfterBegin(t) \/ AfterInsert(t) \/ AfterLast(t)
    \/ t \in Scanners /\ (EnterRead(t) \/ CheckOut(t) \/ Read(t))

SQLFairness ==
    /\ WF_sqlVars(Worker)
    /\ \A t \in Callers : WF_sqlVars(Advance(t))
=============================================================================
