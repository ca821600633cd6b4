SPECIFICATION CallsSpec
CONSTANTS
    Tasks = {t1, t2}
    NoTask = NoTask
    FailureThreshold = 2
    SuccessThreshold = 2
PROPERTY
    TriedBeforeClosing
CHECK_DEADLOCK FALSE
