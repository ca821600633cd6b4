SPECIFICATION GradingSpec
CONSTANTS
    Calls = {c1, c2}
    Students = {s1}
    Terms <- MCTerms
    Scores = {2}
    HoursPerDay = 1
    LastHour = 0
    MaxFiles = 2
    MaxAstray = 0
    None = None
    Deleted = Deleted
INVARIANT
    NewestSubmissionKept
CHECK_DEADLOCK FALSE
