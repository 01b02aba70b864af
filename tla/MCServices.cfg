SPECIFICATION ServicesSpec
CONSTANTS
    None = None
    Item = {i1, i2}
    MaxAttempts = 2
    MaxStreak = 2
    FaultKind = {"crash", "load", "save", "append", "sync", "torn", "acknowledge"}
    MaxFaults = 3
    Streams = {"book"}
    QueueCap = 1
    MaxBatch = 2
    TicksPerDay = 1
    MaxTs = 2
    MaxEvents = 3
    MaxConns = 2
    MaxRuns = 2
    MaxCapFaults = 1
INVARIANTS
    AuditIsTrue
    StoredIsReadBack
PROPERTIES
    ImplementsDecisions
    Settles
    ShutdownEnds
CHECK_DEADLOCK FALSE
