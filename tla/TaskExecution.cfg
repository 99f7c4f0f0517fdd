\* One execution of a task, its output and its sequence.
CONSTANTS
    PipeSize = 2
    MaxChunks = 3
SPECIFICATION FairSpec
INVARIANTS
    TypeOK
    OneStreamInOrder
    OneStreamIsSafe
    NothingSentAfterFinish
PROPERTIES
    ExecutionEnds
CHECK_DEADLOCK FALSE
