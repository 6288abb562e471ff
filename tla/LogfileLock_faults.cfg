\* Two processes; alarms ring, waits time out, processes leave and die.
SPECIFICATION Spec
CONSTANTS
    Pid = {1, 2}
    Alarms = TRUE
    MaxAttempts = 5
    MaxTimeouts = 1
    MaxDetach = 1
    MaxCrash = 1
INVARIANT IInv
INVARIANT NobodyIsStale
PROPERTY ImplementsNotifiedLock
CHECK_DEADLOCK FALSE
