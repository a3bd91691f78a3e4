CONSTANTS
    r1 = r1
    r2 = r2
    r3 = r3
    w1 = w1
    w2 = w2
    Readers = {r1, r2, r3}
    Writers = {w1, w2}
    MaxCancels = 3
SPECIFICATION FairSpec
INVARIANTS
    LockTypeOK
    CountsExact
    Exclusive
    NobodyStuck
    ReadersFirst
PROPERTIES
    ImplementsShared
    ReaderServed
