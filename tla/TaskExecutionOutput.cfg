\* What is left in the pipes when cmd.Run has returned.
CONSTANTS
    PipeSize = 2
    MaxChunks = 3
SPECIFICATION Spec
INVARIANT
    OutputIsRead
CHECK_DEADLOCK FALSE
