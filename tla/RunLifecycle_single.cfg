SPECIFICATION FairSpec
CONSTANTS
    r1 = r1
    r2 = r2
    Runs = {r1}
    Workers = {w1}
    Resumers = {}
    Clients = {c1}
    Msgs = {m1, m2}
    Approvals = {a1, a2}
    Plan <- ToolPlan
    MaxDeliver = 3
    MaxResumes = 0
    StartedAt <- EpochSeconds
    Monotonic <- HostUptime
    None = None
INVARIANTS
    StepsAtMostOnce
PROPERTIES
    EnqueuedRunStarts
CHECK_DEADLOCK FALSE
