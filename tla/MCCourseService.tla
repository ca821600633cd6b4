-------------------------- MODULE MCCourseService --------------------------
(* The course-service for TLC: enrollments in the sections of one course, and *)
(* the prerequisites between courses.  They share no state here, so a         *)
(* behaviour runs one of them, chosen in its first state.  Overselling needs  *)
(* three students, but one limit and no failures; everything else happens     *)
(* with two.  Three courses are named in one way each, or two in two ways.    *)
(* Handlers, students and courses are interchangeable; handlers and calls,    *)
(* and students and courses, have the same names, so that there are fewer     *)
(* permutations to try.                                                       *)
EXTENDS Enrollment, Prerequisites, TLC

CONSTANTS FewStudents, FewCalls
VARIABLE part

Few == INSTANCE Enrollment WITH Students <- FewStudents
Seats == INSTANCE Enrollment WITH Capacities <- {1}, MaxFailures <- 0

MCSpellings == Courses \X {"lower", "upper"}
MCCourseOf == [i \in MCSpellings |-> i[1]]

Plain == INSTANCE Prerequisites WITH Spellings <- Courses \X {"lower"}
Spelled == INSTANCE Prerequisites WITH Courses <- FewStudents,
                                       Calls <- FewCalls,
                                       Spellings <- FewStudents \X {"lower", "upper"}

PartsInit == part \in {"enrollment", "seats", "prerequisites", "spellings"} /\ EnrollmentInit /\ Init

PartsNext ==
    /\ UNCHANGED part
    /\ \/ part = "enrollment" /\ Few!EnrollmentNext /\ UNCHANGED vars
       \/ part = "seats" /\ Seats!EnrollmentNext /\ UNCHANGED vars
       \/ part = "prerequisites" /\ Plain!Next /\ UNCHANGED enrolling
       \/ part = "spellings" /\ Spelled!Next /\ UNCHANGED enrolling

CourseServiceSpec == PartsInit /\ [][PartsNext]_<<part, enrolling, vars>>

Symmetry == Permutations(Handlers) \cup Permutations(Students)
=============================================================================
