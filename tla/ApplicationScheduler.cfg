\* The tasks of the backend, the configuration file and the schedule.
CONSTANTS
    Tasks = {backup, mail}
    CanExecute = {backup}
    MaxVersions = 3
SPECIFICATION FairSpec
INVARIANTS
    TypeOK
    ConfigFollowsBackend
    ScheduleFollowsBackend
PROPERTIES
    NeverGoesBack
    CatchesUp
CHECK_DEADLOCK FALSE
