\* Events on their way to the triggers, and the shutdown.
CONSTANTS
    Events = {pushed, built}
    Spellings = {plain, escaped}
    MaxConnections = 2
    MaxCalls = 2
    MaxEvents = 2
    MaxStale = 1
SPECIFICATION FairSpec
INVARIANTS
    TypeOK
    OneChannelPerEvent
    TriggersSubscribed
    OneLateEvent
PROPERTIES
    DrainComesBack
    ShutdownEnds
CHECK_DEADLOCK FALSE
