\* Two tasks scheduled with one trigger.
CONSTANTS
    t1 = t1
    t2 = t2
    Tasks <- MCTasks
    NoTask = NoTask
    Triggers <- MCTriggers
    Kind <- MCKind
    Malformed = {"garbled"}
    InvalidCron = {"never"}
    Events <- MCEvents
    EventOf <- MCEventOf
    Paths <- MCPaths
    PathOf <- MCPathOf
    NormalPath <- MCNormalPath
    Reports <- MCReports
    HasPrefix <- MCHasPrefix
    WorkingDir = "/d"
    Definitions <- SharedDefinitions
    MaxVersions = 4
    MaxCallbacks = 1
SPECIFICATION Spec
INVARIANT
    TriggerScheduledOnce
CHECK_DEADLOCK FALSE
