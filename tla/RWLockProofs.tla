---------------------------- MODULE RWLockProofs ----------------------------
(***************************************************************************)
(* The read/write lock, for any number of readers, writers and cancelled   *)
(* waits: its counters are exact, a writer is alone, nobody is stuck, the  *)
(* readers that wait when a write ends come before the next writer, and    *)
(* the lock implements SharedLock.                                         *)
(***************************************************************************)
EXTENDS RWLock, FiniteSetTheorems, TLAPS

Places == {"idle", "asleep", "woken", "cancelled", "holding"}

\* What LockTypeOK says of everything but the counts.
Typed ==
    /\ at \in [Tasks -> Places]
    /\ writerActive \in BOOLEAN /\ readerTurn \in BOOLEAN
    /\ ahead \in [Tasks -> SUBSET Tasks]
    /\ owed \in SUBSET Readers
    /\ cancels \in 0..MaxCancels

\* In a free lock, those whose turn it is have been woken.
StuckInv ==
    Holding = {} =>
        /\ ~readerTurn => Asleep \intersect Writers = {}
        /\ readerTurn => Asleep \intersect Readers = {}
        /\ Asleep # {} => Ready # {}

\* Readers that are owed the lock are about to run, before whoever has it is done.
TurnInv ==
    owed # {} =>
        /\ readerTurn /\ ~writerActive
        /\ owed \subseteq Ready \intersect Readers
        /\ \A h \in Holding : owed \subseteq ahead[h]

LockInv == Typed /\ CountsExact /\ Exclusive /\ StuckInv /\ TurnInv

-----------------------------------------------------------------------------
(* Who holds, waits, sleeps and is ready after a step. *)

\* A task that enters moves from wherever it was to the holders.
LEMMA EnterMoves ==
    ASSUME Typed, NEW t \in Tasks, at[t] # "holding", Enter(t)
    PROVE  /\ Holding' = Holding \union {t} /\ t \notin Holding
           /\ Waiting' = Waiting \ {t}
           /\ Ready' = Ready \ {t}
BY DEF Typed, Places, Enter, Holding, Waiting, Ready

\* A task that waits becomes a sleeper.
LEMMA SleepMoves ==
    ASSUME Typed, NEW t \in Tasks, at[t] # "holding", Sleep(t)
    PROVE  /\ Holding' = Holding
           /\ Waiting' = Waiting \union {t}
           /\ Asleep' = Asleep \union {t}
           /\ Ready' = Ready \ {t}
BY DEF Typed, Places, Sleep, Holding, Waiting, Asleep, Ready

\* A holder that leaves and notifies wakes every sleeper.
LEMMA NotifyMoves ==
    ASSUME Typed, NEW t \in Tasks, at[t] = "holding", NotifyAll(t, "idle")
    PROVE  /\ Holding' = Holding \ {t} /\ t \in Holding
           /\ Waiting' = Waiting
           /\ Asleep' = {}
           /\ Ready' = Waiting
BY DEF Typed, Places, NotifyAll, Holding, Waiting, Asleep, Ready

\* A holder that leaves without notifying wakes nobody.
LEMMA LeaveMoves ==
    ASSUME Typed, NEW t \in Tasks, at[t] = "holding",
           at' = [at EXCEPT ![t] = "idle"]
    PROVE  /\ Holding' = Holding \ {t} /\ t \in Holding
           /\ Waiting' = Waiting /\ Asleep' = Asleep /\ Ready' = Ready
BY DEF Typed, Places, Holding, Waiting, Asleep, Ready

\* A cancelled waiter still waits, and is ready.
LEMMA CancelMoves ==
    ASSUME Typed, NEW t \in Tasks, Cancel(t)
    PROVE  /\ Holding' = Holding /\ Waiting' = Waiting
           /\ Asleep' = Asleep \ {t}
           /\ Ready' = Ready \union {t}
BY DEF Typed, Places, Cancel, Holding, Waiting, Asleep, Ready

\* A waiter that gives up wakes one sleeper if there is any.
LEMMA AbandonMoves ==
    ASSUME Typed, NEW t \in Tasks, Abandon(t)
    PROVE  /\ Holding' = Holding
           /\ Waiting' = Waiting \ {t} /\ t \in Waiting
           /\ Asleep' \subseteq Asleep
           /\ Ready \ {t} \subseteq Ready'
           /\ Asleep # {} => Ready' # {}
<1>1. at[t] = "cancelled" /\ PassOn(t)
  BY DEF Abandon
<1>2. CASE Asleep = {} /\ at' = [at EXCEPT ![t] = "idle"]
  BY <1>1, <1>2 DEF Typed, Places, Holding, Waiting, Asleep, Ready
<1>3. CASE \E u \in Asleep : at' = [at EXCEPT ![t] = "idle", ![u] = "woken"]
  <2>1. PICK u \in Asleep : at' = [at EXCEPT ![t] = "idle", ![u] = "woken"]
    BY <1>3
  <2>2. u \in Tasks /\ at[u] = "asleep" /\ u # t
    BY <1>1 DEF Asleep
  <2>3. /\ at'[t] = "idle" /\ at'[u] = "woken"
        /\ \A s \in Tasks \ {t, u} : at'[s] = at[s]
    BY <2>1, <2>2 DEF Typed
  <2>4. QED BY <1>1, <2>2, <2>3 DEF Holding, Waiting, Asleep, Ready
<1>4. QED BY <1>1, <1>2, <1>3 DEF PassOn

\* A waiter is asleep or ready; nobody who waits holds the lock.
LEMMA WaitersSplit ==
    /\ Waiting = Asleep \union Ready
    /\ Waiting \intersect Holding = {} /\ Asleep \intersect Ready = {}
    /\ Waiting \subseteq Tasks /\ Holding \subseteq Tasks
    /\ Tasks = Readers \union Writers /\ Readers \intersect Writers = {}
BY LockAssumption DEF Waiting, Asleep, Ready, Holding, Tasks

-----------------------------------------------------------------------------
(* Counting readers and writers. *)

\* The part of a set of tasks that is readers, or writers, has a size.
LEMMA GroupCount ==
    ASSUME NEW S \in SUBSET Tasks, NEW G \in {Readers, Writers}
    PROVE  /\ IsFiniteSet(S \intersect G)
           /\ Cardinality(S \intersect G) \in Int
           /\ Cardinality(S \intersect G) \in 0..Cardinality(G)
           /\ Cardinality(S \intersect G) = 0 <=> S \intersect G = {}
<1>1. IsFiniteSet(G) /\ S \intersect G \in SUBSET G
  BY LockAssumption
<1>2. IsFiniteSet(S \intersect G)
      /\ Cardinality(S \intersect G) <= Cardinality(G)
  BY <1>1, FS_Subset
<1>3. Cardinality(S \intersect G) \in Nat /\ Cardinality(G) \in Nat
  BY <1>1, <1>2, FS_CardinalityType
<1>4. QED BY <1>2, <1>3, FS_EmptySet

\* One more task in a set counts in its own group only.
LEMMA GroupGrows ==
    ASSUME NEW S \in SUBSET Tasks, NEW G \in {Readers, Writers},
           NEW t, t \notin S
    PROVE  /\ t \in G => Cardinality((S \union {t}) \intersect G) =
                               Cardinality(S \intersect G) + 1
           /\ t \notin G => (S \union {t}) \intersect G = S \intersect G
<1>1. IsFiniteSet(S \intersect G) /\ t \notin S \intersect G
  BY GroupCount
<1>2. Cardinality((S \intersect G) \union {t}) = Cardinality(S \intersect G) + 1
  BY <1>1, FS_AddElement
<1>3. t \in G => (S \union {t}) \intersect G = (S \intersect G) \union {t}
  OBVIOUS
<1>4. QED BY <1>2, <1>3

\* One task less, likewise.
LEMMA GroupShrinks ==
    ASSUME NEW S \in SUBSET Tasks, NEW G \in {Readers, Writers}, NEW t \in S
    PROVE  /\ t \in G => Cardinality((S \ {t}) \intersect G) =
                               Cardinality(S \intersect G) - 1
           /\ t \notin G => (S \ {t}) \intersect G = S \intersect G
<1>1. IsFiniteSet(S \intersect G)
  BY GroupCount
<1>2. t \in G => Cardinality((S \intersect G) \ {t}) =
                      Cardinality(S \intersect G) - 1
  BY <1>1, FS_RemoveElement
<1>3. (S \ {t}) \intersect G = (S \intersect G) \ {t}
  OBVIOUS
<1>4. QED BY <1>2, <1>3

\* With exact counts, the counters are as large as their tasks allow, and zero
\* means that there is none.
LEMMA CountsMean ==
    ASSUME CountsExact
    PROVE  /\ readers \in 0..Cardinality(Readers)
           /\ waitingReaders \in 0..Cardinality(Readers)
           /\ waitingWriters \in 0..Cardinality(Writers)
           /\ readers = 0 <=> Holding \intersect Readers = {}
           /\ waitingReaders = 0 <=> Waiting \intersect Readers = {}
           /\ waitingWriters = 0 <=> Waiting \intersect Writers = {}
BY GroupCount, WaitersSplit DEF CountsExact

-----------------------------------------------------------------------------
(* The invariant. *)

\* Nobody waits, holds or is owed anything at the start.
LEMMA LockInit == Init => LockInv
<1> SUFFICES ASSUME Init PROVE LockInv
  OBVIOUS
<1>1. Typed
  <2>1. at \in [Tasks -> Places] /\ ahead \in [Tasks -> SUBSET Tasks]
    BY DEF Init, Places
  <2>2. cancels \in 0..MaxCancels
    BY LockAssumption DEF Init
  <2>3. QED BY <2>1, <2>2 DEF Init, Typed
<1>2. Holding = {} /\ Waiting = {} /\ Asleep = {}
  BY DEF Init, Holding, Waiting, Asleep
<1>3. CountsExact
  BY <1>2, FS_EmptySet DEF Init, CountsExact
<1>4. Exclusive /\ StuckInv /\ TurnInv
  BY <1>2 DEF Init, Exclusive, StuckInv, TurnInv
<1>5. QED BY <1>1, <1>3, <1>4 DEF LockInv

\* A reader that finds the way free, at once or when it is woken, enters.
LEMMA ReaderEnters ==
    ASSUME LockInv, NEW r \in Readers, ~ReaderBlocked, Enter(r),
           at[r] = "idle" \/ at[r] = "woken",
           readers' = readers + 1,
           at[r] = "idle" => waitingReaders' = waitingReaders,
           at[r] = "woken" => waitingReaders' = waitingReaders - 1,
           UNCHANGED <<writerActive, waitingWriters, readerTurn, cancels>>
    PROVE  LockInv'
<1>1. Typed /\ CountsExact /\ Exclusive /\ TurnInv
  BY DEF LockInv
<1>2. r \in Tasks /\ r \notin Writers
  BY LockAssumption DEF Tasks
<1>3. /\ Holding' = Holding \union {r} /\ r \notin Holding
      /\ Waiting' = Waiting \ {r} /\ Ready' = Ready \ {r}
  BY <1>1, <1>2, EnterMoves
<1>4. r \in Waiting <=> at[r] = "woken"
  BY <1>2 DEF Waiting
<1>5. Holding \intersect Writers = {}
  BY <1>1 DEF CountsExact, ReaderBlocked
<1>6. Typed'
  BY <1>1, <1>2 DEF Typed, Places, Enter, Ready
<1>7. CountsExact'
  <2>1. Cardinality(Holding' \intersect Readers) =
            Cardinality(Holding \intersect Readers) + 1
        /\ Holding' \intersect Writers = Holding \intersect Writers
    BY <1>2, <1>3, GroupGrows, WaitersSplit
  <2>2. Waiting' \intersect Writers = Waiting \intersect Writers
    BY <1>2, <1>3
  <2>3. CASE at[r] = "idle"
    <3>1. Waiting' = Waiting
      BY <1>3, <1>4, <2>3
    <3>2. QED BY <1>1, <2>1, <2>3, <3>1 DEF CountsExact
  <2>4. CASE at[r] = "woken"
    <3>1. Cardinality(Waiting' \intersect Readers) =
              Cardinality(Waiting \intersect Readers) - 1
      BY <1>2, <1>3, <1>4, <2>4, GroupShrinks, WaitersSplit
    <3>2. QED BY <1>1, <2>1, <2>2, <2>4, <3>1 DEF CountsExact
  <2>5. QED BY <2>3, <2>4
<1>8. Exclusive'
  BY <1>2, <1>3, <1>5 DEF Exclusive
<1>9. StuckInv'
  BY <1>3 DEF StuckInv
<1>10. TurnInv'
  <2>1. owed' = owed \ {r} /\ ahead'[r] = Ready \ {r}
        /\ \A h \in Holding : ahead'[h] = ahead[h] \ {r}
    BY <1>1, <1>2, <1>3 DEF Enter, Typed, Holding
  <2>2. QED BY <1>1, <1>3, <2>1 DEF TurnInv
<1>11. QED BY <1>6, <1>7, <1>8, <1>9, <1>10 DEF LockInv

\* So does a writer; nobody is owed anything then.
LEMMA WriterEnters ==
    ASSUME LockInv, NEW w \in Writers, ~WriterBlocked, Enter(w),
           at[w] = "idle" \/ at[w] = "woken",
           writerActive' = TRUE,
           at[w] = "idle" => waitingWriters' = waitingWriters,
           at[w] = "woken" => waitingWriters' = waitingWriters - 1,
           UNCHANGED <<readers, waitingReaders, readerTurn, cancels>>
    PROVE  LockInv'
<1>1. Typed /\ CountsExact /\ Exclusive /\ TurnInv
  BY DEF LockInv
<1>2. w \in Tasks /\ w \notin Readers
  BY LockAssumption DEF Tasks
<1>3. /\ Holding' = Holding \union {w} /\ w \notin Holding
      /\ Waiting' = Waiting \ {w} /\ Ready' = Ready \ {w}
  BY <1>1, <1>2, EnterMoves
<1>4. w \in Waiting <=> at[w] = "woken"
  BY <1>2 DEF Waiting
<1>5. Holding = {}
  <2>1. readers = 0 /\ ~writerActive
    BY <1>1, CountsMean DEF WriterBlocked
  <2>2. QED BY <1>1, <2>1, CountsMean, WaitersSplit DEF CountsExact
<1>6. owed = {}
  <2>1. ~(readerTurn /\ Waiting \intersect Readers # {})
    BY <1>1, CountsMean DEF WriterBlocked
  <2>2. QED BY <1>1, <2>1, WaitersSplit DEF TurnInv
<1>7. Typed'
  BY <1>1, <1>2 DEF Typed, Places, Enter, Ready
<1>8. CountsExact'
  <2>1. Holding' \intersect Readers = Holding \intersect Readers
        /\ w \in Holding' \intersect Writers
    BY <1>2, <1>3
  <2>2. Waiting' \intersect Readers = Waiting \intersect Readers
    BY <1>2, <1>3
  <2>3. CASE at[w] = "idle"
    <3>1. Waiting' = Waiting
      BY <1>3, <1>4, <2>3
    <3>2. QED BY <1>1, <2>1, <2>3, <3>1 DEF CountsExact
  <2>4. CASE at[w] = "woken"
    <3>1. Cardinality(Waiting' \intersect Writers) =
              Cardinality(Waiting \intersect Writers) - 1
      BY <1>2, <1>3, <1>4, <2>4, GroupShrinks, WaitersSplit
    <3>2. QED BY <1>1, <2>1, <2>2, <2>4, <3>1 DEF CountsExact
  <2>5. QED BY <2>3, <2>4
<1>9. Exclusive'
  BY <1>3, <1>5 DEF Exclusive
<1>10. StuckInv'
  BY <1>3 DEF StuckInv
<1>11. TurnInv'
  BY <1>6 DEF TurnInv, Enter
<1>12. QED BY <1>7, <1>8, <1>9, <1>10, <1>11 DEF LockInv

\* A task that finds the way blocked waits, or waits on.  What blocks it will
\* wake it: a holder, or another waiter that is ready.
LEMMA TaskSleeps ==
    ASSUME LockInv, NEW t \in Tasks, Sleep(t),
           at[t] = "idle" \/ at[t] = "woken",
           t \in Readers => ReaderBlocked, t \in Writers => WriterBlocked,
           at[t] = "woken" => UNCHANGED <<waitingReaders, waitingWriters>>,
           at[t] = "idle" /\ t \in Readers =>
               waitingReaders' = waitingReaders + 1 /\ UNCHANGED waitingWriters,
           at[t] = "idle" /\ t \in Writers =>
               waitingWriters' = waitingWriters + 1 /\ UNCHANGED waitingReaders,
           UNCHANGED <<readers, writerActive, readerTurn, cancels>>
    PROVE  LockInv'
<1>1. Typed /\ CountsExact /\ Exclusive /\ StuckInv /\ TurnInv
  BY DEF LockInv
<1>2. /\ Holding' = Holding /\ Waiting' = Waiting \union {t}
      /\ Asleep' = Asleep \union {t} /\ Ready' = Ready \ {t}
  BY <1>1, SleepMoves
<1>3. t \in Waiting <=> at[t] = "woken"
  BY DEF Waiting
<1>4. Typed'
  BY <1>1 DEF Typed, Places, Sleep
<1>5. CountsExact'
  <2>1. CASE at[t] = "woken"
    BY <1>1, <1>2, <1>3, <2>1 DEF CountsExact
  <2>2. CASE at[t] = "idle" /\ t \in Readers
    <3>1. Cardinality(Waiting' \intersect Readers) =
              Cardinality(Waiting \intersect Readers) + 1
          /\ Waiting' \intersect Writers = Waiting \intersect Writers
      BY <1>2, <1>3, <2>2, GroupGrows, WaitersSplit
    <3>2. QED BY <1>1, <1>2, <2>2, <3>1 DEF CountsExact
  <2>3. CASE at[t] = "idle" /\ t \in Writers
    <3>1. Cardinality(Waiting' \intersect Writers) =
              Cardinality(Waiting \intersect Writers) + 1
          /\ Waiting' \intersect Readers = Waiting \intersect Readers
      BY <1>2, <1>3, <2>3, GroupGrows, WaitersSplit
    <3>2. QED BY <1>1, <1>2, <2>3, <3>1 DEF CountsExact
  <2>4. QED BY <2>1, <2>2, <2>3, WaitersSplit
<1>6. Exclusive'
  BY <1>1, <1>2 DEF Exclusive
<1>7. StuckInv'
  <2> SUFFICES ASSUME Holding = {}
               PROVE  /\ ~readerTurn => Asleep' \intersect Writers = {}
                      /\ readerTurn => Asleep' \intersect Readers = {}
                      /\ Ready' # {}
    BY <1>2 DEF StuckInv
  <2>1. readers = 0 /\ ~writerActive
    BY <1>1, CountsMean DEF CountsExact
  <2>2. CASE t \in Readers
    <3>1. ~readerTurn /\ Waiting \intersect Writers # {}
      BY <1>1, <2>1, <2>2, CountsMean DEF ReaderBlocked
    <3>2. Ready \intersect Writers # {} /\ Asleep \intersect Writers = {}
      BY <1>1, <3>1, WaitersSplit DEF StuckInv
    <3>3. QED BY <1>2, <2>2, <3>1, <3>2, WaitersSplit
  <2>3. CASE t \in Writers
    <3>1. readerTurn /\ Waiting \intersect Readers # {}
      BY <1>1, <2>1, <2>3, CountsMean DEF WriterBlocked
    <3>2. Ready \intersect Readers # {} /\ Asleep \intersect Readers = {}
      BY <1>1, <3>1, WaitersSplit DEF StuckInv
    <3>3. QED BY <1>2, <2>3, <3>1, <3>2, WaitersSplit
  <2>4. QED BY <2>2, <2>3, WaitersSplit
<1>8. TurnInv'
  <2>1. owed' = owed /\ \A h \in Holding : ahead'[h] = ahead[h] \ {t}
    BY <1>1 DEF Sleep, Typed, Holding
  <2>2. owed # {} => t \notin owed
    <3>1. owed # {} /\ t \in Readers => readerTurn /\ ~writerActive
      BY <1>1 DEF TurnInv
    <3>2. QED BY <1>1, <3>1, WaitersSplit DEF ReaderBlocked, Typed
  <2>3. QED BY <1>1, <1>2, <2>1, <2>2 DEF TurnInv
<1>9. QED BY <1>4, <1>5, <1>6, <1>7, <1>8 DEF LockInv

\* The last reader out hands the lock to everybody who waits.
LEMMA ReaderLeaves ==
    ASSUME LockInv, NEW r \in Readers, ReleaseRead(r)
    PROVE  LockInv'
<1>1. Typed /\ CountsExact /\ Exclusive /\ StuckInv /\ TurnInv
  BY DEF LockInv
<1>2. r \in Tasks /\ r \notin Writers /\ at[r] = "holding" /\ r \in Holding
  BY LockAssumption DEF Tasks, ReleaseRead, Holding
<1>3. owed = {} /\ owed' = {}
  BY <1>1, <1>2 DEF TurnInv, ReleaseRead
<1>4. /\ Holding' = Holding \ {r} /\ Waiting' = Waiting
      /\ \/ readers' = 0 /\ ~readerTurn' /\ Asleep' = {}
         \/ readers' # 0
  <2>1. CASE NotifyAll(r, "idle") /\ readers' = 0 /\ readerTurn' = FALSE
    BY <1>1, <1>2, <2>1, NotifyMoves
  <2>2. CASE at' = [at EXCEPT ![r] = "idle"] /\ readers' # 0
    BY <1>1, <1>2, <2>2, LeaveMoves
  <2>3. QED BY <2>1, <2>2 DEF ReleaseRead
<1>5. Typed'
  BY <1>1, <1>2 DEF Typed, Places, ReleaseRead, NotifyAll
<1>6. CountsExact'
  <2>1. Cardinality(Holding' \intersect Readers) =
            Cardinality(Holding \intersect Readers) - 1
        /\ Holding' \intersect Writers = Holding \intersect Writers
    BY <1>2, <1>4, GroupShrinks, WaitersSplit
  <2>2. readers' = readers - 1
        /\ UNCHANGED <<writerActive, waitingReaders, waitingWriters>>
    BY DEF ReleaseRead
  <2>3. QED BY <1>1, <1>4, <2>1, <2>2 DEF CountsExact
<1>7. Exclusive'
  BY <1>1, <1>2, <1>4 DEF Exclusive
<1>8. StuckInv'
  <2>1. readers' = 0 <=> Holding' \intersect Readers = {}
    <3>1. CountsExact => (readers = 0 <=> Holding \intersect Readers = {})
      BY CountsMean
    <3>2. (CountsExact => (readers = 0 <=> Holding \intersect Readers = {}))'
      BY <3>1, CountsMean, PTL
    <3>3. QED BY <1>6, <3>2
  <2>2. QED BY <1>4, <2>1 DEF StuckInv
<1>9. TurnInv'
  BY <1>3 DEF TurnInv
<1>10. QED BY <1>5, <1>6, <1>7, <1>8, <1>9 DEF LockInv

\* A finished write wakes everybody and owes the waiting readers the lock.
LEMMA WriterLeaves ==
    ASSUME LockInv, NEW w \in Writers, ReleaseWrite(w)
    PROVE  LockInv'
<1>1. Typed /\ CountsExact /\ Exclusive
  BY DEF LockInv
<1>2. w \in Tasks /\ at[w] = "holding" /\ w \in Holding
  BY DEF Tasks, ReleaseWrite, Holding
<1>3. /\ Holding' = {} /\ Waiting' = Waiting
      /\ Asleep' = {} /\ Ready' = Waiting
  <2>1. Holding = {w}
    BY <1>1, <1>2 DEF Exclusive
  <2>2. QED BY <1>1, <1>2, <2>1, NotifyMoves DEF ReleaseWrite
<1>4. Typed'
  <2>1. at' \in [Tasks -> Places]
    BY <1>1, <1>2 DEF Typed, Places, ReleaseWrite, NotifyAll
  <2>2. readerTurn' \in BOOLEAN
    <3> DEFINE more == waitingReaders > 0
    <3>1. more \in BOOLEAN
      BY <1>1, CountsMean
    <3>2. readerTurn' = more
      BY DEF ReleaseWrite
    <3> HIDE DEF more
    <3>3. QED BY <3>1, <3>2
  <2>3. QED BY <1>1, <2>1, <2>2 DEF Typed, ReleaseWrite
<1>5. CountsExact'
  <2>1. Holding = {w} /\ Holding \intersect Readers = {}
    BY <1>1, <1>2, LockAssumption DEF Exclusive
  <2>2. Holding' \intersect Readers = Holding \intersect Readers
        /\ Holding' \intersect Writers = {}
    BY <1>3, <2>1
  <2>3. UNCHANGED <<readers, waitingReaders, waitingWriters>>
        /\ writerActive' = FALSE
    BY DEF ReleaseWrite
  <2>4. QED BY <1>1, <1>3, <2>2, <2>3 DEF CountsExact
<1>6. Exclusive'
  BY <1>3 DEF Exclusive
<1>7. StuckInv'
  BY <1>3 DEF StuckInv
<1>8. TurnInv'
  <2>1. Waiting \intersect Readers # {} => readerTurn'
    <3>1. waitingReaders \in Nat
          /\ (waitingReaders = 0 <=> Waiting \intersect Readers = {})
      BY <1>1, CountsMean
    <3>2. waitingReaders > 0 <=> Waiting \intersect Readers # {}
      BY <3>1
    <3>3. QED BY <3>2, Zenon DEF ReleaseWrite
  <2>2. QED BY <1>3, <2>1 DEF TurnInv, ReleaseWrite
<1>9. QED BY <1>4, <1>5, <1>6, <1>7, <1>8 DEF LockInv

\* A wait that is cancelled makes the waiter ready.
LEMMA WaitCancelled ==
    ASSUME LockInv, NEW t \in Tasks, Cancel(t)
    PROVE  LockInv'
<1>1. Typed /\ CountsExact /\ Exclusive /\ StuckInv /\ TurnInv
  BY DEF LockInv
<1>2. /\ Holding' = Holding /\ Waiting' = Waiting
      /\ Asleep' = Asleep \ {t} /\ Ready' = Ready \union {t}
  BY <1>1, CancelMoves
<1>3. Typed'
  BY <1>1, LockAssumption DEF Typed, Places, Cancel, counters
<1>4. CountsExact' /\ Exclusive'
  BY <1>1, <1>2 DEF CountsExact, Exclusive, Cancel, counters
<1>5. StuckInv'
  BY <1>1, <1>2 DEF StuckInv, Cancel, counters
<1>6. TurnInv'
  BY <1>1, <1>2 DEF TurnInv, Cancel, counters
<1>7. QED BY <1>3, <1>4, <1>5, <1>6 DEF LockInv

\* A waiter that gives up passes the notification on.
LEMMA WaitAbandoned ==
    ASSUME LockInv, NEW t \in Tasks, Abandon(t)
    PROVE  LockInv'
<1>1. Typed /\ CountsExact /\ Exclusive /\ StuckInv /\ TurnInv
  BY DEF LockInv
<1>2. /\ Holding' = Holding /\ Waiting' = Waiting \ {t} /\ t \in Waiting
      /\ Asleep' \subseteq Asleep
      /\ Ready \ {t} \subseteq Ready'
      /\ Asleep # {} => Ready' # {}
  BY <1>1, AbandonMoves
<1>3. Typed'
  <2>1. at' \in [Tasks -> Places]
    BY <1>1 DEF Typed, Places, Abandon, PassOn
  <2>2. QED BY <1>1, <2>1 DEF Typed, Abandon
<1>4. CountsExact'
  <2>1. CASE t \in Readers
    <3>1. t \notin Writers
          /\ Waiting' \intersect Writers = Waiting \intersect Writers
          /\ Cardinality(Waiting' \intersect Readers) =
                 Cardinality(Waiting \intersect Readers) - 1
      BY <1>2, <2>1, GroupShrinks, WaitersSplit
    <3>2. waitingReaders' = waitingReaders - 1 /\ waitingWriters' = waitingWriters
      BY <1>1, <2>1, <3>1, CountsMean DEF Abandon, StopWaiting
    <3>3. QED BY <1>1, <1>2, <3>1, <3>2 DEF CountsExact, Abandon
  <2>2. CASE t \in Writers
    <3>1. t \notin Readers
          /\ Waiting' \intersect Readers = Waiting \intersect Readers
          /\ Cardinality(Waiting' \intersect Writers) =
                 Cardinality(Waiting \intersect Writers) - 1
      BY <1>2, <2>2, GroupShrinks, WaitersSplit
    <3>2. waitingWriters' = waitingWriters - 1 /\ waitingReaders' = waitingReaders
      BY <1>1, <2>2, <3>1, CountsMean DEF Abandon, StopWaiting
    <3>3. QED BY <1>1, <1>2, <3>1, <3>2 DEF CountsExact, Abandon
  <2>3. QED BY <2>1, <2>2, WaitersSplit
<1>5. Exclusive'
  BY <1>1, <1>2 DEF Exclusive
<1>6. StuckInv'
  BY <1>1, <1>2 DEF StuckInv, Abandon
<1>7. TurnInv'
  <2>1. owed' = owed \ {t} /\ \A h \in Holding : ahead'[h] = ahead[h] \ {t}
    BY <1>1 DEF Abandon, Typed, Holding
  <2>2. QED BY <1>1, <1>2, <2>1 DEF TurnInv, Abandon
<1>8. QED BY <1>3, <1>4, <1>5, <1>6, <1>7 DEF LockInv

\* Every step of the lock keeps the invariant.
LEMMA LockStep == LockInv /\ [Next]_vars => LockInv'
<1> SUFFICES ASSUME LockInv, [Next]_vars PROVE LockInv'
  OBVIOUS
<1>0. \A t \in Readers \union Writers : t \in Tasks
  BY DEF Tasks
<1>1. ASSUME NEW r \in Readers, AcquireRead(r) PROVE LockInv'
  BY <1>0, <1>1, LockAssumption, ReaderEnters, TaskSleeps DEF AcquireRead
<1>2. ASSUME NEW r \in Readers, ResumeRead(r) PROVE LockInv'
  BY <1>0, <1>2, LockAssumption, ReaderEnters, TaskSleeps DEF ResumeRead
<1>3. ASSUME NEW w \in Writers, AcquireWrite(w) PROVE LockInv'
  BY <1>0, <1>3, LockAssumption, WriterEnters, TaskSleeps DEF AcquireWrite
<1>4. ASSUME NEW w \in Writers, ResumeWrite(w) PROVE LockInv'
  BY <1>0, <1>4, LockAssumption, WriterEnters, TaskSleeps DEF ResumeWrite
<1>5. ASSUME UNCHANGED vars PROVE LockInv'
  BY <1>5 DEF LockInv, Typed, CountsExact, Exclusive, StuckInv, TurnInv,
     Holding, Waiting, Asleep, Ready, vars, counters
<1>6. QED
  BY <1>1, <1>2, <1>3, <1>4, <1>5, ReaderLeaves, WriterLeaves, WaitCancelled,
     WaitAbandoned DEF Next

-----------------------------------------------------------------------------
(* Results. *)

\* The invariant holds of every behaviour.
LEMMA LockAlways == Spec => []LockInv
BY LockInit, LockStep, PTL DEF Spec

\* Type correctness: the variables keep their types and the counters stay within
\* the number of tasks (_asqlite.py:64-71).
THEOREM LockTypeCorrect == Spec => []LockTypeOK
<1>1. LockInv => LockTypeOK
  BY CountsMean DEF LockInv, Typed, Places, LockTypeOK
<1>2. QED BY <1>1, LockAlways, PTL

\* The counters are exact whatever is cancelled (_asqlite.py:73-106).
THEOREM CountsAlwaysExact == Spec => []CountsExact
<1>1. LockInv => CountsExact
  BY DEF LockInv
<1>2. QED BY <1>1, LockAlways, PTL

\* A writer holds the lock alone (_asqlite.py:55).
THEOREM WriterAlone == Spec => []Exclusive
<1>1. LockInv => Exclusive
  BY DEF LockInv
<1>2. QED BY <1>1, LockAlways, PTL

\* No wakeup of the condition is lost (_asqlite.py:86-114).
THEOREM NeverStuck == Spec => []NobodyStuck
<1>1. LockInv => NobodyStuck
  BY DEF LockInv, StuckInv, NobodyStuck
<1>2. QED BY <1>1, LockAlways, PTL

\* Readers that waited when a write ended precede the next writer
\* (_asqlite.py:59-60).
THEOREM ReadersComeFirst == Spec => []ReadersFirst
<1>1. LockInv => ReadersFirst
  BY DEF LockInv, TurnInv, ReadersFirst
<1>2. QED BY <1>1, LockAlways, PTL

\* Each step of the lock is a step of SharedLock or leaves its holders alone.
LEMMA LockRefines == LockInv /\ [Next]_vars => [Shared!Next]_Holding
<1> SUFFICES ASSUME LockInv, Next PROVE Shared!Next \/ Holding' = Holding
  BY DEF vars, Holding
<1>1. Typed /\ CountsExact /\ Exclusive
  BY DEF LockInv
<1>0. \A t \in Readers \union Writers : t \in Tasks
  BY DEF Tasks
<1>2. ASSUME NEW r \in Readers, AcquireRead(r) \/ ResumeRead(r)
      PROVE  Shared!EnterShared(r) \/ Holding' = Holding
  <2>1. CASE ~ReaderBlocked /\ Enter(r) /\ at[r] # "holding"
    <3>1. Holding \intersect Writers = {}
      BY <1>1, <2>1 DEF CountsExact, ReaderBlocked
    <3>2. QED BY <1>0, <1>1, <2>1, <3>1, EnterMoves DEF Shared!EnterShared
  <2>2. CASE Sleep(r) /\ at[r] # "holding"
    BY <1>0, <1>1, <2>2, SleepMoves
  <2>3. QED BY <1>2, <2>1, <2>2 DEF AcquireRead, ResumeRead
<1>3. ASSUME NEW w \in Writers, AcquireWrite(w) \/ ResumeWrite(w)
      PROVE  Shared!EnterAlone(w) \/ Holding' = Holding
  <2>1. CASE ~WriterBlocked /\ Enter(w) /\ at[w] # "holding"
    <3>1. readers = 0 /\ ~writerActive
      BY <1>1, <2>1, CountsMean DEF WriterBlocked
    <3>2. Holding = {}
      BY <1>1, <3>1, CountsMean, WaitersSplit DEF CountsExact
    <3>3. QED BY <1>0, <1>1, <2>1, <3>2, EnterMoves DEF Shared!EnterAlone
  <2>2. CASE Sleep(w) /\ at[w] # "holding"
    BY <1>0, <1>1, <2>2, SleepMoves
  <2>3. QED BY <1>3, <2>1, <2>2 DEF AcquireWrite, ResumeWrite
<1>4. ASSUME NEW t \in Readers, ReleaseRead(t) PROVE Shared!Leave(t)
  BY <1>0, <1>1, <1>4, NotifyMoves, LeaveMoves DEF ReleaseRead, Shared!Leave
<1>5. ASSUME NEW t \in Writers, ReleaseWrite(t) PROVE Shared!Leave(t)
  BY <1>0, <1>1, <1>5, NotifyMoves DEF ReleaseWrite, Shared!Leave
<1>6. ASSUME NEW t \in Tasks, Cancel(t) \/ Abandon(t) PROVE Holding' = Holding
  BY <1>1, <1>6, CancelMoves, AbandonMoves
<1>7. QED
  BY <1>2, <1>3, <1>4, <1>5, <1>6 DEF Next, Shared!Next

\* The lock is a shared/exclusive lock: its holders are the holders of SharedLock.
THEOREM LockIsShared == Spec => ImplementsShared
<1>1. Init => Shared!Init
  BY DEF Init, Holding, Shared!Init
<1>2. QED
  BY <1>1, LockRefines, LockAlways, PTL DEF Spec, ImplementsShared, Shared!Spec
=============================================================================
