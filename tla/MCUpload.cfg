SPECIFICATION UploadSpec
SYMMETRY Symmetry
CONSTANTS
    Sessions = {s1}
    TotalChunks = 2
    Calls = {c1, c2}
    None = None
    Gone = Gone
    MaxCount = 3
INVARIANTS
    AckedAreCounted
    AckedAreKept
    FilesAreWhole
    CompletedHasResource
    NothingLeftBehind
    OneResourceEach
CHECK_DEADLOCK FALSE
