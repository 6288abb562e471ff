\* Two processes that stay: every wait ends.
SPECIFICATION FairSpec
CONSTANTS
    Pid = {1, 2}
    Alarms = FALSE
    MaxAttempts = 0
    MaxTimeouts = 0
    MaxDetach = 0
    MaxCrash = 0
PROPERTY LockAttemptEnds
PROPERTY HandlerReturns
