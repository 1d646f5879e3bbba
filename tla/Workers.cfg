SPECIFICATION WorkersSpec
CONSTANTS
    AloneRuns = {r1, r2}
    SharedRuns = {r1, r2}
    TheWorker = k1
    KpiWorkers = {k1, k2}
    MaxEvents = 2
    MaxDeliver = 2
    SampleSize = 3
    MaxFaults = 2
    SharedFaults = 1
    MaxStarts = 2
    Stoppers = {s1, s2}
    Calls = {c1, c2}
    Connectors = {jira}
    Shell = Shell
    Delay = Delay
    None = None
    Seconds = {1, 3, 6}
    MaxTime = 4
INVARIANTS
    TypeOK
    NothingCountedTwice
    SnapshotIsCurrent
    NoBusyLoop
PROPERTIES
    StopReturns
\* The runs have settled, every event is handled, the manager stays stopped,
\* and the calls have returned.
CHECK_DEADLOCK FALSE
