SPECIFICATION Spec
CONSTANTS
    r1 = r1
    r2 = r2
    Runs = {r1}
    Workers = {w1}
    Resumers = {}
    Clients = {c1}
    Msgs = {m1}
    Approvals = {a1}
    Plan <- ToolPlan
    MaxDeliver = 2
    MaxResumes = 0
    StartedAt <- EpochSeconds
    Monotonic <- HostUptime
    None = None
INVARIANT AckedRunIsSettled
CHECK_DEADLOCK FALSE
