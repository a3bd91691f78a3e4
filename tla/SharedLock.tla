----------------------------- MODULE SharedLock -----------------------------
(***************************************************************************)
(* What a shared/exclusive lock promises: any number of readers hold it at *)
(* once, or one writer alone.  Who enters when is left open.               *)
(***************************************************************************)
CONSTANTS
    Readers,  \* tasks that hold it shared
    Writers   \* tasks that hold it alone

VARIABLE holders

Init == holders = {}

EnterShared(r) ==
    /\ r \notin holders
    /\ holders \intersect Writers = {}
    /\ holders' = holders \union {r}

EnterAlone(w) ==
    /\ holders = {}
    /\ holders' = {w}

Leave(t) ==
    /\ t \in holders
    /\ holders' = holders \ {t}

Next ==
    \/ \E r \in Readers : EnterShared(r)
    \/ \E w \in Writers : EnterAlone(w)
    \/ \E t \in Readers \union Writers : Leave(t)

Spec == Init /\ [][Next]_holders
=============================================================================
