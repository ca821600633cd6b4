----------------------------- MODULE Enrollment -----------------------------
(***************************************************************************)
(* Enrollment in the sections of one course of the course-service          *)
(* (src/enrollment/enrollment.service.ts and the section operations of     *)
(* src/course/course.service.ts over their MongoDB repositories).          *)
(*                                                                         *)
(* A handler loses control at every await of a MongoDB command, and other  *)
(* handlers run in between; one command on one document is atomic.  An     *)
(* action is one command with the code up to the next.  A command can      *)
(* fail, and then the handler throws and undoes nothing.                   *)
(*                                                                         *)
(* A section keeps its own enrolledCount beside the enrollments that name  *)
(* it; nothing else ties the two together.                                 *)
(***************************************************************************)
EXTENDS Integers, FiniteSets

CONSTANTS
    Handlers,         \* the handlers in flight
    Students,
    Sections,         \* section ids
    Capacities,       \* values of maxStudents; 0 is no limit
    NoSection,        \* an enrollment that names no section
    None,             \* no such document, yet
    Gone,             \* a deleted document
    MaxEnrollments,   \* bound on the enrollments ever created
    MaxFailures       \* bound on the commands that fail

ASSUME EnrollmentAssumption ==
    /\ Capacities \subseteq Nat
    /\ {MaxEnrollments, MaxFailures} \subseteq Nat
    /\ IsFiniteSet(Handlers)
    /\ NoSection \notin Sections
    /\ None # Gone

VARIABLES
    course,        \* "draft", "published" or "deleted"
    sections,      \* [max, count] of each section
    enrollments,   \* [student, section] of each enrollment id
    created,       \* enrollments created so far; ids are never used again
    handler,       \* where each handler is
    failures,      \* commands that failed so far
    doubled,       \* history: two handlers removed one enrollment at once
    exempt         \* history: sections that an instructor put a student in, or
                   \* whose limit was lowered

enrolling == <<course, sections, enrollments, created, handler, failures, doubled, exempt>>

Ids == 1..MaxEnrollments
SectionDocs == [max : Capacities, count : Int]
EnrollmentDocs == [student : Students, section : Sections \cup {NoSection}]

ASSUME NoDocumentAssumption ==
    {None, Gone} \cap SectionDocs = {} /\ {None, Gone} \cap EnrollmentDocs = {}

HandlerStates ==
    [at : {"idle"}]
    \cup [at : {"existing", "section", "create", "count"}, kind : {"self", "instructor"},
          student : Students, section : Sections \cup {NoSection}]
    \cup [at : {"uncount", "delete"}, id : Ids, section : Sections \cup {NoSection}]
    \cup [at : {"new_section"}, section : Sections, max : Capacities]

EnrollmentTypeOK ==
    /\ course \in {"draft", "published", "deleted"}
    /\ sections \in [Sections -> SectionDocs \cup {None, Gone}]
    /\ enrollments \in [Ids -> EnrollmentDocs \cup {None, Gone}]
    /\ created \in 0..MaxEnrollments
    /\ handler \in [Handlers -> HandlerStates]
    /\ failures \in 0..MaxFailures
    /\ doubled \in BOOLEAN
    /\ exempt \in SUBSET Sections

EnrollmentInit ==
    /\ course = "draft"
    /\ sections = [x \in Sections |-> None]
    /\ enrollments = [i \in Ids |-> None]
    /\ created = 0
    /\ handler = [c \in Handlers |-> [at |-> "idle"]]
    /\ failures = 0
    /\ doubled = FALSE
    /\ exempt = {}

Resting(c) == handler[c].at = "idle"
Move(c, state) == handler' = [handler EXCEPT ![c] = state]
Goto(c, place) == Move(c, [handler[c] EXCEPT !.at = place])
Answer(c) == Move(c, [at |-> "idle"])

IsSection(x) == x \in Sections /\ sections[x] \notin {None, Gone}
IsEnrollment(i) == enrollments[i] \notin {None, Gone}
Enrolled(x) == {i \in Ids : IsEnrollment(i) /\ enrollments[i].section = x}
EnrolledAs(s) == {i \in Ids : IsEnrollment(i) /\ enrollments[i].student = s}

\* $inc on enrolledCount; without the section it does nothing.
AddToCount(x, n) ==
    sections' = IF IsSection(x) THEN [sections EXCEPT ![x].count = @ + n] ELSE sections

-----------------------------------------------------------------------------
(* The course and its sections *)

\* publishCourse, unpublishCourse and deleteCourse, which leaves sections and
\* enrollments behind.
SetCourse(status) ==
    /\ course \notin {"deleted", status}
    /\ course' = status
    /\ UNCHANGED <<sections, enrollments, created, handler, failures, doubled, exempt>>

\* createSection: the course is read, then the section is created.
BeginSection(c, x, max) ==
    /\ Resting(c)
    /\ course # "deleted"
    /\ Move(c, [at |-> "new_section", section |-> x, max |-> max])
    /\ UNCHANGED <<course, sections, enrollments, created, failures, doubled, exempt>>

CreateSection(c) ==
    /\ handler[c].at = "new_section"
    /\ LET x == handler[c].section
       IN  sections' = IF sections[x] = None
                       THEN [sections EXCEPT ![x] = [max |-> handler[c].max, count |-> 0]]
                       ELSE sections     \* (courseId, sectionNumber) is unique
    /\ Answer(c)
    /\ UNCHANGED <<course, enrollments, created, failures, doubled, exempt>>

Lowers(x, max) == max > 0 /\ (sections[x].max = 0 \/ max < sections[x].max)

\* updateSection can change maxStudents but never enrolledCount.
UpdateSection(x, max) ==
    /\ IsSection(x)
    /\ sections' = [sections EXCEPT ![x].max = max]
    /\ exempt' = IF Lowers(x, max) THEN exempt \cup {x} ELSE exempt
    /\ UNCHANGED <<course, enrollments, created, handler, failures, doubled>>

DeleteSection(x) ==
    /\ IsSection(x)
    /\ sections' = [sections EXCEPT ![x] = Gone]
    /\ UNCHANGED <<course, enrollments, created, handler, failures, doubled, exempt>>

-----------------------------------------------------------------------------
(* selfEnroll and instructorAddStudent *)

\* The course is read.  A student needs it published, an instructor of the course
\* does not.
BeginEnroll(c, kind, s, x) ==
    /\ Resting(c)
    /\ IF kind = "self" THEN course = "published" ELSE course # "deleted"
    /\ Move(c, [at |-> "existing", kind |-> kind, student |-> s, section |-> x])
    /\ UNCHANGED <<course, sections, enrollments, created, failures, doubled, exempt>>

\* An enrollment of the student is looked for.
CheckExisting(c) ==
    /\ handler[c].at = "existing"
    /\ IF EnrolledAs(handler[c].student) # {} THEN Answer(c)
       ELSE Goto(c, IF handler[c].section = NoSection THEN "create" ELSE "section")
    /\ UNCHANGED <<course, sections, enrollments, created, failures, doubled, exempt>>

\* Slip: one too many is let in.
Full_slip(x) == sections[x].max > 0 /\ sections[x].count > sections[x].max

Full(x) == sections[x].max > 0 /\ sections[x].count >= sections[x].max

\* The section is read; only self-enrollment looks at its capacity.
CheckSection(c) ==
    /\ handler[c].at = "section"
    /\ LET x == handler[c].section
       IN  IF ~IsSection(x) \/ (handler[c].kind = "self" /\ Full(x))
           THEN Answer(c) ELSE Goto(c, "create")
    /\ UNCHANGED <<course, sections, enrollments, created, failures, doubled, exempt>>

\* An instructor puts a student in, whether there is a seat or not.
Exempted(c) ==
    IF handler[c].kind = "instructor" THEN {handler[c].section} \cap Sections ELSE {}

\* Slip: students an instructor adds are not counted.
CreateEnrollment_slip(c) ==
    /\ handler[c].at = "create"
    /\ IF EnrolledAs(handler[c].student) # {}
       THEN Answer(c) /\ UNCHANGED <<enrollments, created, exempt>>
       ELSE /\ created < MaxEnrollments
            /\ created' = created + 1
            /\ enrollments' = [enrollments EXCEPT ![created'] =
                   [student |-> handler[c].student, section |-> handler[c].section]]
            /\ exempt' = exempt \cup Exempted(c)
            /\ IF handler[c].section = NoSection \/ handler[c].kind = "instructor"
               THEN Answer(c) ELSE Goto(c, "count")
    /\ UNCHANGED <<course, sections, failures, doubled>>

\* The enrollment is created, unless (courseId, studentId) is taken by now.
CreateEnrollment(c) ==
    /\ handler[c].at = "create"
    /\ IF EnrolledAs(handler[c].student) # {}
       THEN Answer(c) /\ UNCHANGED <<enrollments, created, exempt>>
       ELSE /\ created < MaxEnrollments
            /\ created' = created + 1
            /\ enrollments' = [enrollments EXCEPT ![created'] =
                   [student |-> handler[c].student, section |-> handler[c].section]]
            /\ exempt' = exempt \cup Exempted(c)
            /\ IF handler[c].section = NoSection THEN Answer(c) ELSE Goto(c, "count")
    /\ UNCHANGED <<course, sections, failures, doubled>>

\* Then the section's count goes up.
CountEnrollment(c) ==
    /\ handler[c].at = "count"
    /\ AddToCount(handler[c].section, 1)
    /\ Answer(c)
    /\ UNCHANGED <<course, enrollments, created, failures, doubled, exempt>>

-----------------------------------------------------------------------------
(* removeEnrollment *)

\* The enrollment is read.
BeginRemove(c, i) ==
    /\ Resting(c)
    /\ IsEnrollment(i)
    /\ Move(c, [at |-> IF enrollments[i].section = NoSection
                         THEN "delete" ELSE "uncount",
                  id |-> i, section |-> enrollments[i].section])
    /\ doubled' = (doubled \/ \E d \in Handlers :
                       handler[d].at \in {"uncount", "delete"} /\ handler[d].id = i)
    /\ UNCHANGED <<course, sections, enrollments, created, failures, exempt>>

\* Slip: the section's count stays.
UncountEnrollment_slip(c) ==
    /\ handler[c].at = "uncount"
    /\ Goto(c, "delete")
    /\ UNCHANGED <<course, sections, enrollments, created, failures, doubled, exempt>>

\* The section's count goes down first,
UncountEnrollment(c) ==
    /\ handler[c].at = "uncount"
    /\ AddToCount(handler[c].section, -1)
    /\ Goto(c, "delete")
    /\ UNCHANGED <<course, enrollments, created, failures, doubled, exempt>>

\* then the enrollment is deleted; whether it still existed is not looked at.
DeleteEnrollment(c) ==
    /\ handler[c].at = "delete"
    /\ enrollments' = [enrollments EXCEPT ![handler[c].id] = Gone]
    /\ Answer(c)
    /\ UNCHANGED <<course, sections, created, failures, doubled, exempt>>

\* A command fails and the handler throws.  One that took effect but whose answer
\* was lost is a failure of the step after it.
HandlerFails(c) ==
    /\ ~Resting(c)
    /\ failures < MaxFailures
    /\ failures' = failures + 1
    /\ Answer(c)
    /\ UNCHANGED <<course, sections, enrollments, created, doubled, exempt>>

-----------------------------------------------------------------------------

BeginHandler(c) ==
    \/ \E x \in Sections, max \in Capacities : BeginSection(c, x, max)
    \/ \E kind \in {"self", "instructor"}, s \in Students,
          x \in Sections \cup {NoSection} : BeginEnroll(c, kind, s, x)
    \/ \E i \in Ids : BeginRemove(c, i)

ContinueHandler(c) ==
    \/ CreateSection(c)
    \/ CheckExisting(c) \/ CheckSection(c) \/ CreateEnrollment(c) \/ CountEnrollment(c)
    \/ UncountEnrollment(c) \/ DeleteEnrollment(c)
    \/ HandlerFails(c)

EnrollmentNext ==
    \/ \E status \in {"draft", "published", "deleted"} : SetCourse(status)
    \/ \E x \in Sections :
         DeleteSection(x) \/ \E max \in Capacities : UpdateSection(x, max)
    \/ \E c \in Handlers : BeginHandler(c) \/ ContinueHandler(c)

EnrollmentSpec == EnrollmentInit /\ [][EnrollmentNext]_enrolling

-----------------------------------------------------------------------------
(* Properties *)

\* A section never counts more students than are enrolled in it, whatever fails
\* and however removals and enrollments interleave: nobody is turned away from a
\* section because of students it does not have.  It depends on counting after
\* the enrollment exists and uncounting before it is gone
\* (enrollment.service.ts:57-69, 156-160).
NeverOvercounts ==
    \A x \in Sections : IsSection(x) => sections[x].count <= Cardinality(Enrolled(x))

\* When nothing is in flight the count is exact, unless a command failed or one
\* enrollment was removed by two handlers at once: every other interleaving of
\* the two documents comes out even (enrollment.service.ts:57-69, 149-165).
CountsEven ==
    failures = 0 /\ ~doubled /\ (\A c \in Handlers : Resting(c)) =>
        \A x \in Sections :
            IsSection(x) => sections[x].count = Cardinality(Enrolled(x))

\* The seats of a section are oversold by no more than one student for every other
\* handler, and one for every failed command: two students can take the last seat,
\* because the count that is compared is raised two commands later
\* (enrollment.service.ts:51, 57-69), but the overdraft never adds up over time.
\* What an instructor does, or a lowered limit, is not held against it, nor are two
\* removals of one enrollment.
SeatsHold ==
    ~doubled =>
        \A x \in Sections \ exempt :
            IsSection(x) /\ sections[x].max > 0 =>
                Cardinality(Enrolled(x)) < sections[x].max + Cardinality(Handlers) + failures

=============================================================================
