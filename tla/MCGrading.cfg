SPECIFICATION GradingSpec
SYMMETRY Symmetry
CONSTANTS
    Calls = {c1, c2}
    Students = {s1}
    Terms <- MCTerms
    Scores = {2}
    HoursPerDay = 1
    LastHour = 2
    MaxFiles = 2
    MaxAstray = 1
    None = None
    Deleted = Deleted
INVARIANTS
    TypeOK
    RowsHaveFiles
    FilesAccounted
    RowIsOneSubmission
    StatusFollowsGrade
    EventsTellPublished
CHECK_DEADLOCK FALSE
