SPECIFICATION RequestsSpec
CONSTANTS
    Clients = {c1, c2}
    Editor = c1
    Latest = 2
    Contents = {x1}
    MaxVersion = 3
    None = None
    Events = {e1}
    Posts <- SomePosts
    Lineage = "it-triage"
    MaxTries = 2
    CommitsFirst = TRUE
    Names = {jira, shared}
    SystemTools = {shared}
    Connectors = {jira}
    Orgs = {o1, o2}
    Fields = {f1, f2}
    Nullable = {}
    Bodies <- SomeBodies
    f1 = f1
    f2 = f2
    MaxChanges = 3
INVARIANTS
    ProductionWasStaged
    RunsAreOfReleased
    ChangesAreAudited
PROPERTIES
    ImplementsInbox
\* Requests and posts are bounded in number.
CHECK_DEADLOCK FALSE
