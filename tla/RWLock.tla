------------------------------- MODULE RWLock -------------------------------
(***************************************************************************)
(* The read/write lock of pubsub/server/_asqlite.py (_RWLock) with the     *)
(* tasks that use it.  The condition's own lock is never held across a     *)
(* suspension, so each stretch of acquire_* and release_* between two      *)
(* waits is one step.  asyncio.Condition is modelled from Python 3.14, the *)
(* oldest the project runs on: a waiter that is cancelled, notified or     *)
(* not, notifies another one.                                              *)
(***************************************************************************)
EXTENDS Integers, FiniteSets

CONSTANTS
    Readers,    \* tasks that take the lock shared, again and again
    Writers,    \* tasks that take it alone, again and again
    MaxCancels  \* bound: how many waits are cancelled

ASSUME LockAssumption ==
    /\ IsFiniteSet(Readers) /\ IsFiniteSet(Writers)
    /\ Readers \intersect Writers = {}
    /\ MaxCancels \in Nat

Tasks == Readers \union Writers

VARIABLES
    at,              \* where each task stands
    readers,         \* _readers
    writerActive,    \* _writer_active
    waitingReaders,  \* _waiting_readers
    waitingWriters,  \* _waiting_writers
    readerTurn,      \* _reader_turn
    ahead,           \* ahead[t]: ready tasks the event loop runs before t is done
    owed,            \* readers that were waiting when the last write ended
    cancels          \* waits cancelled so far

counters == <<readers, writerActive, waitingReaders, waitingWriters, readerTurn>>
vars == <<at, counters, ahead, owed, cancels>>

\* A waiter is asleep, notified, or cancelled; the last two are about to run.
Waiting == {t \in Tasks : at[t] \in {"asleep", "woken", "cancelled"}}
Asleep  == {t \in Tasks : at[t] = "asleep"}
Ready   == {t \in Tasks : at[t] \in {"woken", "cancelled"}}
Holding == {t \in Tasks : at[t] = "holding"}

\* Condition.notify_all, with task t going to place p.
NotifyAll(t, p) ==
    at' = [u \in Tasks |-> IF u = t THEN p
                           ELSE IF at[u] = "asleep" THEN "woken" ELSE at[u]]

\* The loop tests of acquire_read and acquire_write.
ReaderBlocked == writerActive \/ (waitingWriters > 0 /\ ~readerTurn)

\* Mutant: a writer does not wait for the readers inside.
WriterBlockedByWriters == writerActive \/ (readerTurn /\ waitingReaders > 0)

\* Mutant: a writer does not stand down for the readers' turn.
WriterBlockedNoTurn == writerActive \/ readers > 0

WriterBlocked ==
    writerActive \/ readers > 0 \/ (readerTurn /\ waitingReaders > 0)

\* Task t has the lock.  It then waits for a worker thread, so whatever is ready
\* now runs before t is done: the event loop is first in, first out.
Enter(t) ==
    /\ at' = [at EXCEPT ![t] = "holding"]
    /\ ahead' = [u \in Tasks |-> IF u = t THEN Ready \ {t} ELSE ahead[u] \ {t}]
    /\ owed' = owed \ {t}

\* Task t waits on the condition (again).
Sleep(t) ==
    /\ at' = [at EXCEPT ![t] = "asleep"]
    /\ ahead' = [u \in Tasks |-> ahead[u] \ {t}]
    /\ UNCHANGED owed

AcquireRead(r) ==
    /\ at[r] = "idle"
    /\ \/ /\ ReaderBlocked
          /\ Sleep(r)
          /\ waitingReaders' = waitingReaders + 1
          /\ UNCHANGED readers
       \/ /\ ~ReaderBlocked
          /\ Enter(r)
          /\ readers' = readers + 1
          /\ UNCHANGED waitingReaders
    /\ UNCHANGED <<writerActive, waitingWriters, readerTurn, cancels>>

ResumeRead(r) ==
    /\ at[r] = "woken"
    /\ \/ /\ ReaderBlocked
          /\ Sleep(r)
          /\ UNCHANGED <<readers, waitingReaders>>
       \/ /\ ~ReaderBlocked
          /\ Enter(r)
          /\ waitingReaders' = waitingReaders - 1
          /\ readers' = readers + 1
    /\ UNCHANGED <<writerActive, waitingWriters, readerTurn, cancels>>

\* Mutant: the last reader leaves without a notification.
ReleaseReadSilently(r) ==
    /\ at[r] = "holding" /\ ahead[r] = {}
    /\ readers' = readers - 1
    /\ at' = [at EXCEPT ![r] = "idle"]
    /\ readerTurn' = (readerTurn /\ readers' > 0)
    /\ UNCHANGED <<writerActive, waitingReaders, waitingWriters, ahead, owed,
                   cancels>>

ReleaseRead(r) ==
    /\ at[r] = "holding" /\ ahead[r] = {}
    /\ readers' = readers - 1
    /\ \/ /\ readers' = 0
          /\ readerTurn' = FALSE
          /\ NotifyAll(r, "idle")
       \/ /\ readers' # 0
          /\ UNCHANGED readerTurn
          /\ at' = [at EXCEPT ![r] = "idle"]
    /\ UNCHANGED <<writerActive, waitingReaders, waitingWriters, ahead, owed,
                   cancels>>

AcquireWrite(w) ==
    /\ at[w] = "idle"
    /\ \/ /\ WriterBlocked
          /\ Sleep(w)
          /\ waitingWriters' = waitingWriters + 1
          /\ UNCHANGED writerActive
       \/ /\ ~WriterBlocked
          /\ Enter(w)
          /\ writerActive' = TRUE
          /\ UNCHANGED waitingWriters
    /\ UNCHANGED <<readers, waitingReaders, readerTurn, cancels>>

ResumeWrite(w) ==
    /\ at[w] = "woken"
    /\ \/ /\ WriterBlocked
          /\ Sleep(w)
          /\ UNCHANGED <<writerActive, waitingWriters>>
       \/ /\ ~WriterBlocked
          /\ Enter(w)
          /\ waitingWriters' = waitingWriters - 1
          /\ writerActive' = TRUE
    /\ UNCHANGED <<readers, waitingReaders, readerTurn, cancels>>

\* Mutant: a finished write does not give the waiting readers their turn.
ReleaseWriteNoTurn(w) ==
    /\ at[w] = "holding" /\ ahead[w] = {}
    /\ writerActive' = FALSE
    /\ readerTurn' = FALSE
    /\ NotifyAll(w, "idle")
    /\ owed' = Waiting \intersect Readers
    /\ UNCHANGED <<readers, waitingReaders, waitingWriters, ahead, cancels>>

ReleaseWrite(w) ==
    /\ at[w] = "holding" /\ ahead[w] = {}
    /\ writerActive' = FALSE
    /\ readerTurn' = (waitingReaders > 0)
    /\ NotifyAll(w, "idle")
    /\ owed' = Waiting \intersect Readers
    /\ UNCHANGED <<readers, waitingReaders, waitingWriters, ahead, cancels>>

\* A waiter's task is cancelled, asleep or already notified; it runs later.
Cancel(t) ==
    /\ cancels < MaxCancels
    /\ at[t] \in {"asleep", "woken"}
    /\ at' = [at EXCEPT ![t] = "cancelled"]
    /\ cancels' = cancels + 1
    /\ UNCHANGED <<counters, ahead, owed>>

\* Condition.wait passes a notification on to one sleeper, if there is one; then
\* the finally clauses of acquire_* stop counting the waiter.
PassOn(t) ==
    \/ /\ Asleep = {}
       /\ at' = [at EXCEPT ![t] = "idle"]
    \/ \E u \in Asleep : at' = [at EXCEPT ![t] = "idle", ![u] = "woken"]

\* Mutant: there is no finally clause.
StopWaitingUncounted(t) == UNCHANGED <<waitingReaders, waitingWriters>>

StopWaiting(t) ==
    /\ waitingReaders' = waitingReaders - IF t \in Readers THEN 1 ELSE 0
    /\ waitingWriters' = waitingWriters - IF t \in Writers THEN 1 ELSE 0

Abandon(t) ==
    /\ at[t] = "cancelled"
    /\ PassOn(t)
    /\ StopWaiting(t)
    /\ ahead' = [u \in Tasks |-> ahead[u] \ {t}]
    /\ owed' = owed \ {t}
    /\ UNCHANGED <<readers, writerActive, readerTurn, cancels>>

Init ==
    /\ at = [t \in Tasks |-> "idle"]
    /\ readers = 0 /\ writerActive = FALSE
    /\ waitingReaders = 0 /\ waitingWriters = 0 /\ readerTurn = FALSE
    /\ ahead = [t \in Tasks |-> {}]
    /\ owed = {}
    /\ cancels = 0

Next ==
    \/ \E r \in Readers : AcquireRead(r) \/ ResumeRead(r) \/ ReleaseRead(r)
    \/ \E w \in Writers : AcquireWrite(w) \/ ResumeWrite(w) \/ ReleaseWrite(w)
    \/ \E t \in Tasks : Cancel(t) \/ Abandon(t)

Spec == Init /\ [][Next]_vars

\* The loop runs ready tasks, and whoever has the lock is done some time.
Fairness ==
    /\ \A r \in Readers : WF_vars(ResumeRead(r)) /\ WF_vars(ReleaseRead(r))
    /\ \A w \in Writers : WF_vars(ResumeWrite(w)) /\ WF_vars(ReleaseWrite(w))
    /\ \A t \in Tasks : WF_vars(Abandon(t))

FairSpec == Spec /\ Fairness

-----------------------------------------------------------------------------
(* Properties. *)

\* Every variable holds a value of its kind; no counter exceeds its tasks.
LockTypeOK ==
    /\ at \in [Tasks -> {"idle", "asleep", "woken", "cancelled", "holding"}]
    /\ readers \in 0..Cardinality(Readers)
    /\ waitingReaders \in 0..Cardinality(Readers)
    /\ waitingWriters \in 0..Cardinality(Writers)
    /\ writerActive \in BOOLEAN /\ readerTurn \in BOOLEAN
    /\ ahead \in [Tasks -> SUBSET Tasks]
    /\ owed \in SUBSET Readers
    /\ cancels \in 0..MaxCancels

\* The four counters agree with the tasks they count, also after waits that were
\* cancelled (_asqlite.py:73-106).
CountsExact ==
    /\ readers = Cardinality(Holding \intersect Readers)
    /\ writerActive <=> Holding \intersect Writers # {}
    /\ waitingReaders = Cardinality(Waiting \intersect Readers)
    /\ waitingWriters = Cardinality(Waiting \intersect Writers)

\* "Many readers may hold it concurrently; a writer holds it exclusively"
\* (_asqlite.py:55).
Exclusive ==
    \A w \in Holding \intersect Writers : Holding = {w}

\* No lost wakeup: in a free lock nobody sleeps unless somebody is about to run
\* (_asqlite.py:86-114), whichever waits were cancelled.
NobodyStuck == Holding = {} /\ Asleep # {} => Ready # {}

\* "A completed write grants the readers already waiting at its release one turn
\* ahead of the next writer" (_asqlite.py:59-60).
ReadersFirst == writerActive => owed = {}

\* Without cancelled waits no reader starves (_asqlite.py:53): each one that waits
\* gets the lock, however the writers come and go.
ReaderServed ==
    \A r \in Readers : r \in Waiting ~> at[r] \in {"holding", "idle"} \/ cancels > 0

\* The lock implements a shared/exclusive lock.
Shared == INSTANCE SharedLock WITH holders <- Holding
ImplementsShared == Shared!Spec
=============================================================================
