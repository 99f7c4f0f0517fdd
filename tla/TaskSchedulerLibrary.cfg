\* The task scheduler, any operation of the package, no trigger shared.
\* No callback is under way: one changes nothing that these properties look at.
CONSTANTS
    t1 = t1
    t2 = t2
    Tasks <- MCTasks
    NoTask = NoTask
    Triggers <- MCTriggers
    Kind <- MCKind
    Malformed = {"garbled"}
    InvalidCron = {"never"}
    Events <- MCEvents
    EventOf <- MCEventOf
    Paths <- MCPaths
    PathOf <- MCPathOf
    NormalPath <- MCNormalPath
    Reports <- MCReports
    HasPrefix <- MCHasPrefix
    WorkingDir = "/d"
    Definitions <- OwnDefinitions
    MaxVersions = 4
    MaxCallbacks = 0
SPECIFICATION LibrarySpec
INVARIANTS
    NoTriggerOutlivesItsTask
    ScheduledTaskIsCalled
    TriggerScheduledOnce
CHECK_DEADLOCK FALSE
