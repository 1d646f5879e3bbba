SPECIFICATION FairProxySpec
CONSTANTS
    h1 = h1
    h2 = h2
    Handlers = {h1, h2}
    a1 = a1
    w1 = w1
    read = read
    o1 = o1
    Agents = {a1}
    Workflows = {w1}
    Scopes = {read}
    Orgs = {o1}
    Keys <- AgentIds
    Payloads <- Evaluations
    Requests <- MixedRequests
    MaxRequests = 1
    Window = 1
    MaxReceived = 2
    MaxCount = 2
    MaxEvents = 2
    LimiterTime = 4
    MaxTime = 1
    MaxRestarts = 0
    MaxStores = 0
    None = None
    Size = 6
    MarkerLength <- Markers
    MaxMatches = 2
PROPERTY EveryRequestAnswered
\* The bounds on events and requests.
CHECK_DEADLOCK FALSE
