CONSTANTS
    m1 = m1
    m2 = m2
    ack = ack
    scan = scan
    Drainer = Drainer
    Messages = {m1, m2}
    Batchers = {Drainer}
    Singles = {ack}
    Scanners = {scan}
    PoolSize = 1
    MaxCancels = 0
    MaxFaults = 0
    MaxRecords = 1
SPECIFICATION Spec
INVARIANTS
    AuditKept
CHECK_DEADLOCK FALSE
