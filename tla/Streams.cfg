SPECIFICATION StreamsSpec
CONSTANTS
    Clients = {c1, c2}
    RoutePool = 3
    KeepsSession = TRUE
    MaxSteps = 1
    MaxResumes = 1
    Followers = {f1, f2}
    Listeners = {l1}
    EventPool = 2
    MaxEvents = 2
    MaxOpens = 1
    MaxFaults = 1
    Params = {p1, p2}
    None = None
    MaxRequests = 3
    MaxWrites = 2
INVARIANTS
    FramesInOrder
    NewestIsShown
PROPERTIES
    SettledStreamsEnd
\* The bounds on events, streams and requests stop the system.
CHECK_DEADLOCK FALSE
