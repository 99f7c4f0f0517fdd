\* What stays scheduled when the backend has deleted a task.
CONSTANTS
    Tasks = {backup, mail}
    CanExecute = {backup}
    MaxVersions = 3
SPECIFICATION Spec
INVARIANT
    TasksSynchronized
CHECK_DEADLOCK FALSE
