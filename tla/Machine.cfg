\* The processes of one machine: two started by hand, and the service.
CONSTANTS
    Service = service
    Shells = {shell1, shell2}
    NoProcess = NoProcess
    Identifiers = {1, 2, 3, 4}
    MaxLaunches = 2
    MaxKills = 2
    MaxKeys = 2
SPECIFICATION FairSpec
INVARIANTS
    TypeOK
    OneAgent
    KeySaved
PROPERTIES
    IdentityKept
    ServiceComesBack
CHECK_DEADLOCK FALSE
