SPECIFICATION ContentServiceSpec
CONSTANTS
    None = None
    Gone = Gone
    ResourceIds = {"r1"}
    Managers = {"g1", "g2"}
    Names = {"a", "b"}
    Copyrights = {"no_download"}
    WithSearch = TRUE
    Students = {"s1"}
    Viewers = {"v1"}
    Videos = {"r1"}
    Duration = 10
    Positions = {5, 9}
    Events = {"e1", "e2"}
    MaxBatchSize = 2
    MaxRetryAttempts = 2
    MaxCrashes = 1
    Tasks = {"t1", "t2", "t3"}
    FailureThreshold = 2
    SuccessThreshold = 2
    NoTask = NoTask
    Courses = {"k1"}
    Modules = {"m1", "m2"}
    Lessons = {"l1", "l2"}
    Resources = {"r1"}
    Writers = {"w1", "w2"}
    MaxPosition = 2
    MaxItems = 2
    Absent = Absent
    Deleted = Deleted
INVARIANTS
    StructureIsWhole
    IndexSettles
    ViewedWasAllowed
    EventsAccounted
    TripsAreCarriedOut
PROPERTIES
    GaplessStaysPut
CHECK_DEADLOCK FALSE
