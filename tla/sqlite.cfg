CONSTANTS
    m1 = m1
    m2 = m2
    ack = ack
    scan = scan
    Drainer = Drainer
    Messages = {m1, m2}
    Batchers = {Drainer}
    Singles = {ack}
    Scanners = {scan}
    PoolSize = 1
    MaxCancels = 1
    MaxFaults = 1
    MaxRecords = 1
SPECIFICATION FairSpec
INVARIANTS
    SQLTypeOK
    FailedIsAbsent
    OwnRowsOnly
    NoOrphanAppend
PROPERTIES
    AckedIsCommitted
    ImplementsBackend
    
CHECK_DEADLOCK FALSE
