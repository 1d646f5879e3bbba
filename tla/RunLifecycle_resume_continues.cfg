SPECIFICATION Spec
CONSTANTS
    r1 = r1
    r2 = r2
    Runs = {r1}
    Workers = {w1}
    Resumers = {s1}
    Clients = {c1}
    Msgs = {m1}
    Approvals = {a1, a2}
    Plan <- GatedPlan
    MaxDeliver = 2
    MaxResumes = 1
    StartedAt <- EpochSeconds
    Monotonic <- HostUptime
    None = None
INVARIANT ResumeContinues
CHECK_DEADLOCK FALSE
