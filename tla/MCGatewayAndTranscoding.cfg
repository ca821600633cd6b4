SPECIFICATION PartsSpec
CONSTANTS
    Tasks = {t1, t2, t3}
    NoTask = NoTask
    FailureThreshold = 2
    SuccessThreshold = 2
    Jobs = {"j1", "j2"}
    Workers = {"w1", "w2"}
    MaxRetries = 2
    None = None
    Gone = Gone
INVARIANTS
    AnsweredHoldsNothing
    JobsAccounted
PROPERTIES
    OpensOnThreshold
    EveryRequestAnswered
    RoutesConverge
    EveryJobEnds
    JobRefinement
CHECK_DEADLOCK FALSE
