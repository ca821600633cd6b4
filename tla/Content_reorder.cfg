SPECIFICATION OutlineSpec
CONSTANTS
    Courses = {k1}
    Modules = {m1, m2}
    Lessons = {l1}
    Resources = {r1}
    Writers = {w1}
    MaxPosition = 1
    MaxItems = 2
    Absent = Absent
    Deleted = Deleted
INVARIANTS
    ReorderSucceeds
CHECK_DEADLOCK FALSE
