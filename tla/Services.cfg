SPECIFICATION ServicesSpec
CONSTANTS
    Ids = {1, 2, 3, 4}
    Limit = 2
    MaxTime = 2
    ChunkSize = 4
    Overlap = 1
    Lengths <- TextLengths
    Procs = {p1, p2}
    Clients = {k1, k2}
    Docs = {d1}
    Domains = {"a-b", "a_b"}
    Collections = {"a_b"}
    CollectionOf <- TwoShared
    Sizes = {64, 96}
    MaxOutages = 1
    MaxRestarts = 1
    Keys = {m1}
    Vals = {v1, v2}
    None = None
    Absent = Absent
    MaxRedisFaults = 1
    MaxPgFaults = 1
    Calls = {q1, q2}
    Roles = {"planner", "worker"}
    Providers = {"anthropic", "openai", "ollama"}
    NoProvider = NoProvider
    Modes = {"single", "hybrid"}
    Prices <- RouterPrices
    Priced = {"anthropic", "openai"}
SYMMETRY RequestSymmetry
INVARIANTS
    WalkIsExact
    ChunksTile
    CompletedIsDurable
    DeletedGoneHere
    AnswersAreCurrent
    FallbackIsLastResort
