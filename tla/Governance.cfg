SPECIFICATION PartsSpec
CONSTANTS
    h1 = h1
    h2 = h2
    Handlers = {h1, h2}
    a1 = a1
    w1 = w1
    read = read
    o1 = o1
    Agents = {a1}
    Workflows = {w1}
    Scopes = {read}
    Orgs = {o1}
    Keys <- AgentIds
    Payloads <- Evaluations
    Requests <- ScopedRequests
    MaxRequests = 2
    Window = 1
    MaxReceived = 3
    MaxCount = 3
    MaxEvents = 3
    LimiterTime = 4
    MaxTime = 2
    MaxRestarts = 1
    MaxStores = 1
    None = None
    Size = 6
    MarkerLength <- Markers
    MaxMatches = 2
SYMMETRY HandlerSymmetry
INVARIANTS
    TwiceAtMost
    ChainValid
    AuditedOnce
    LetThroughInScope
    OrderedIsExact
PROPERTIES
    RefusedOnlyWhenBusy
\* The bounds on events and requests, and a detector that has returned.
CHECK_DEADLOCK FALSE
