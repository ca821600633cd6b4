SPECIFICATION CourseServiceSpec
SYMMETRY Symmetry
CONSTANTS
    Handlers = {h1, h2}
    Calls = {h1, h2}
    Students = {s1, s2, s3}
    FewStudents = {s1, s2}
    FewCalls = {h1}
    Sections = {x1}
    Capacities = {0, 1}
    NoSection = NoSection
    None = None
    Gone = Gone
    MaxEnrollments = 3
    MaxFailures = 1
    Courses = {s1, s2, s3}
    Spellings <- MCSpellings
    CourseOf <- MCCourseOf
INVARIANTS
    NeverOvercounts
    CountsEven
    SeatsHold
    AcyclicUnlessCrossed
CHECK_DEADLOCK FALSE
