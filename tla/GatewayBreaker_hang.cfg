SPECIFICATION FairCalls
CONSTANTS
    Tasks = {t1, t2}
    NoTask = NoTask
    FailureThreshold = 1
    SuccessThreshold = 1
PROPERTY
    EveryCallReturns
CHECK_DEADLOCK FALSE
