SPECIFICATION AccessSpec
SYMMETRY Symmetry
CONSTANTS
    Attempts = {1, 2, 3}
    MaxAttempts = 2
    Window = 2
    LastTick = 2
    MaxLosses = 1
    NoKey = NoKey
    Checks = {1, 2, 3, 4}
    From <- TwoClients
    Capacity = 1
    RequestsPerMinute = 1
    WindowSeconds = 1
    EndOfTime = 3
    NoCleanup = NoCleanup
    Callers = {c1, c2}
    Passwords = {"p"}
    Roles = {"user"}
    AccessTTL = 2
    RefreshTTL = 2
    MarkTTL = 2
    MaxTime = 2
    None = None
    SignIns = {c1, c2}
    States = {"s1"}
    RoleNames = {"user", "g"}
    JITProvisioning = TRUE
    Nobody = Nobody
    Tasks = {t1, t2, t3, t4}
    NoTask = NoTask
    FailureThreshold = 3
    SuccessThreshold = 2
    Requests = {q1, q2}
    Service = "user.UserService"
    Methods = {"Login", "Logout", "DeleteUser", "GetUser"}
    EmptyAnswer = {"Logout", "DeleteUser"}
    Versions = {"v1", "v2"}
    Offered <- OfferedByVersion
    Changed = {"GetUser"}
    MaxChanges = 2
    Order <- TwoServices
    RpcMethods = {"m1", "m2"}
    Pattern <- SamePath
    Static = {"/x", "/z"}
    Overrides <- OneOverride
    AdminPath = "/z"
    MaxEdits = 1
    Absent = Absent
    Arrivals = {"q1"}
    Public = {"/z"}
    Claims <- StudentToken
    Policies <- OpenOrAdmin
INVARIANTS
    GateTypeOK
    RevokedStaysRefused
    DeletedStaysInactive
    StateUsedOnce
    SyncGivesGroups
    BudgetsHold
    AdmittedByPolicy
    StatusTellsEffect
    BelowThresholds
PROPERTY
    BreakerRefinement
CHECK_DEADLOCK FALSE
