\* The websocket client: losing a connection and making the next one.
CONSTANTS
    Senders = {run1, run2}
    Events = {pushed}
    MaxConnections = 2
    ReadErrLimit = 2
SPECIFICATION FairSpec
INVARIANTS
    TypeOK
    OneConnection
    SubscriptionsInSync
PROPERTIES
    ImplementsSession
    LossIsNoticed
    RetriesAfterDisconnect
    SendCompletes
CHECK_DEADLOCK FALSE
