\* Three processes that stay: the whole protocol, without the alarm.
SPECIFICATION Spec
CONSTANTS
    Pid = {1, 2, 3}
    Alarms = FALSE
    MaxAttempts = 0
    MaxTimeouts = 0
    MaxDetach = 0
    MaxCrash = 0
INVARIANT WriterIsAlone
INVARIANT AnswerIsComing
INVARIANT EveryUnlockIsMatched
