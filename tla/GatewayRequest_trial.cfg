SPECIFICATION RequestSpec
CONSTANTS
    Tasks = {t1, t2, t3}
    NoTask = NoTask
    FailureThreshold = 2
    SuccessThreshold = 2
PROPERTY
    ClosesAfterFullTrial
