SPECIFICATION GradingSpec
CONSTANTS
    Calls = {c1, c2}
    Students = {s1}
    Terms <- MCTerms
    Scores = {2}
    HoursPerDay = 1
    LastHour = 0
    MaxFiles = 1
    MaxAstray = 0
    None = None
    Deleted = Deleted
PROPERTY
    OnlyDraftsChange
CHECK_DEADLOCK FALSE
