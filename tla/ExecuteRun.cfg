SPECIFICATION EngineSpec
CONSTANTS
    StepIds <- LoopIds
    Kind <- LoopKind
    Adjacency <- LoopAdjacency
    Labelled <- LoopLabelled
    Labels <- LoopLabels
    Actions = {"x", "y", "z", "bad"}
    PlanKind <- PlanKinds
    MaxPlan = 5
    TokenCosts = {0, 2, 3}
    CallCounts = {0, 2}
    Durations = {0, 2}
    MaxSteps = 6
    MaxTokens = 4
    MaxToolCalls = 2
    MaxWallTime = 7
    StepTimes = {1, 100}
    Window = 2
    Threshold = 2
INVARIANTS
    LimitsHold
    NoRepetition
    TriageInOrder
PROPERTIES
    ImplementsWalk
    Terminates
\* A run ends.
CHECK_DEADLOCK FALSE
