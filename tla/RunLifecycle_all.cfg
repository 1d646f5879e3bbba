SPECIFICATION Spec
CONSTANTS
    r1 = r1
    r2 = r2
    Runs = {r1, r2}
    Workers = {w1, w2}
    Resumers = {s1}
    Clients = {c1}
    Msgs = {m1}
    Approvals = {a1, a2}
    Plan <- MixedPlan
    MaxDeliver = 2
    MaxResumes = 2
    StartedAt <- EpochSeconds
    Monotonic <- HostUptime
    None = None
SYMMETRY Symmetry
INVARIANTS
    TypeOK
    CompletedRanAllSteps
    RunningIsOwned
    QueuedIsReachable
    GateHolds
PROPERTIES
    SettledIsFinal
    ImplementsRow
CHECK_DEADLOCK FALSE
