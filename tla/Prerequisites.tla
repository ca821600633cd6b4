---------------------------- MODULE Prerequisites ----------------------------
(***************************************************************************)
(* The prerequisites of courses in the course-service                      *)
(* (src/course/course.service.ts over CourseRepository).                   *)
(*                                                                         *)
(* Adding a prerequisite searches the prerequisite graph for a cycle and   *)
(* then writes.  The search awaits one MongoDB read per course it visits,  *)
(* so other handlers, of this process or of another one, run in between.   *)
(* An action is one MongoDB command with the code up to the next.          *)
(*                                                                         *)
(* A course is named by the hexadecimal digits of its id, and MongoDB      *)
(* reads them in either case: one course has several spellings.  The       *)
(* handlers store and compare them as they came (course.service.ts:187,    *)
(* 191).  The spellings on the stack are kept as a set, without those      *)
(* already visited, which the search pops and drops: which one is next is  *)
(* left open.                                                              *)
(***************************************************************************)
EXTENDS FiniteSets

CONSTANTS
    Courses,     \* an id is never used again
    Spellings,   \* how a request may name a course
    CourseOf,    \* the course of each of them
    Calls        \* the handlers in flight

ASSUME SpellingsAssumption == CourseOf \in [Spellings -> Courses]

VARIABLES
    made,       \* the courses created so far
    gone,       \* those of them deleted since
    prereqs,    \* prerequisiteCourseIds of each course; {} when there is no course
    call,       \* where each addPrerequisite is
    crossed,    \* history: a prerequisite was written while another handler
                \* had read part of the graph
    respelled   \* history: a course was named in two ways at once, in documents
                \* and by handlers

vars == <<made, gone, prereqs, call, crossed, respelled>>
history == <<crossed, respelled>>

Live == made \ gone

CallStates ==
    [at : {"idle"}]
    \cup [at : {"read"}, course : Spellings, pre : Spellings]
    \cup [at : {"search"}, course : Spellings, pre : Spellings,
          visited : SUBSET Spellings, stack : SUBSET Spellings]

TypeOK ==
    /\ made \in SUBSET Courses
    /\ gone \in SUBSET made
    /\ prereqs \in [Courses -> SUBSET Spellings]
    /\ call \in [Calls -> CallStates]
    /\ crossed \in BOOLEAN
    /\ respelled \in BOOLEAN

Init ==
    /\ made = {}
    /\ gone = {}
    /\ prereqs = [x \in Courses |-> {}]
    /\ call = [c \in Calls |-> [at |-> "idle"]]
    /\ crossed = FALSE
    /\ respelled = FALSE

Idle(c) == call[c].at = "idle"
Searching(c) == call[c].at = "search"
Become(c, state) == call' = [call EXCEPT ![c] = state]
Return(c) == Become(c, [at |-> "idle"])

\* The spellings that a handler has in hand, and all there are now.
NamedBy(k) ==
    CASE k.at = "idle" -> {}
      [] k.at = "read" -> {k.course, k.pre}
      [] k.at = "search" -> {k.course, k.pre} \cup k.visited \cup k.stack
Named == (UNION {prereqs[x] : x \in Courses}) \cup (UNION {NamedBy(call[c]) : c \in Calls})

\* One spelling for each course.
Alike(names) == \A i, j \in names : CourseOf[i] = CourseOf[j] => i = j

-----------------------------------------------------------------------------

CreateCourse(x) ==
    /\ x \notin made
    /\ made' = made \cup {x}
    /\ UNCHANGED <<gone, prereqs, call, history>>

\* The document goes; courses that have it as a prerequisite keep its id.
DeleteCourse(x) ==
    /\ x \in Live
    /\ gone' = gone \cup {x}
    /\ prereqs' = [prereqs EXCEPT ![x] = {}]
    /\ UNCHANGED <<made, call, history>>

\* $pull takes out the spelling it is given.
RemovePrerequisite(x, pre) ==
    /\ x \in Live
    /\ prereqs' = [prereqs EXCEPT ![x] = @ \ {pre}]
    /\ UNCHANGED <<made, gone, call, history>>

\* addPrerequisite reads the course,
BeginAdd(c, x, pre) ==
    /\ Idle(c)
    /\ CourseOf[x] \in Live
    /\ CourseOf[pre] \in made
    /\ Become(c, [at |-> "read", course |-> x, pre |-> pre])
    /\ respelled' = (respelled \/ ~Alike(Named \cup {x, pre}))
    /\ UNCHANGED <<made, gone, prereqs, crossed>>

\* then the prerequisite, and starts the search at it.
ReadPrerequisite(c) ==
    /\ call[c].at = "read"
    /\ IF CourseOf[call[c].pre] \in Live
       THEN Become(c, [at |-> "search", course |-> call[c].course, pre |-> call[c].pre,
                       visited |-> {}, stack |-> {call[c].pre}])
       ELSE Return(c)
    /\ UNCHANGED <<made, gone, prereqs, history>>

\* Slip: only the prerequisite itself is compared with the course.
Visit_slip(c, x) ==
    /\ Searching(c)
    /\ x \in call[c].stack
    /\ IF x = call[c].course /\ x = call[c].pre
       THEN Return(c)
       ELSE LET visited == call[c].visited \cup {x}
            IN  Become(c, [call[c] EXCEPT !.visited = visited,
                                          !.stack = (@ \cup prereqs[CourseOf[x]]) \ visited])
    /\ UNCHANGED <<made, gone, prereqs, history>>

\* A spelling is popped.  It is that of the course: "Circular prerequisite dependency
\* detected".  Otherwise its document is read and its prerequisites are pushed.
Visit(c, x) ==
    /\ Searching(c)
    /\ x \in call[c].stack
    /\ IF x = call[c].course
       THEN Return(c)
       ELSE LET visited == call[c].visited \cup {x}
            IN  Become(c, [call[c] EXCEPT !.visited = visited,
                                          !.stack = (@ \cup prereqs[CourseOf[x]]) \ visited])
    /\ UNCHANGED <<made, gone, prereqs, history>>

\* The stack is empty: the prerequisite is written, if the course is still there.
WritePrerequisite(c) ==
    /\ Searching(c)
    /\ call[c].stack = {}
    /\ LET x == CourseOf[call[c].course]
       IN  prereqs' = IF x \in Live
                      THEN [prereqs EXCEPT ![x] = @ \cup {call[c].pre}]
                      ELSE prereqs
    /\ crossed' = (crossed \/ \E d \in Calls \ {c} : Searching(d))
    /\ Return(c)
    /\ UNCHANGED <<made, gone, respelled>>

\* A MongoDB command fails and the handler throws.
CommandFails(c) ==
    /\ ~Idle(c)
    /\ Return(c)
    /\ UNCHANGED <<made, gone, prereqs, history>>

-----------------------------------------------------------------------------

Continue(c) ==
    \/ ReadPrerequisite(c)
    \/ \E x \in Spellings : Visit(c, x)
    \/ WritePrerequisite(c)

Next ==
    \/ \E x \in Courses :
         \/ CreateCourse(x) \/ DeleteCourse(x)
         \/ \E pre \in Spellings : RemovePrerequisite(x, pre)
    \/ \E c \in Calls :
         \/ \E x, pre \in Spellings : BeginAdd(c, x, pre)
         \/ Continue(c) \/ CommandFails(c)

Spec == Init /\ [][Next]_vars

-----------------------------------------------------------------------------
(* Properties *)

\* The courses that are prerequisites of a course.
Behind(x) == {CourseOf[i] : i \in prereqs[x]}

\* Every set of courses has one with no prerequisite in the set: the courses can
\* be taken in some order.
Acyclic ==
    \A S \in SUBSET Courses : S # {} => \E x \in S : Behind(x) \cap S = {}

\* "Circular prerequisite detection" (README.md:296): deletions, removals,
\* creations and failures during the search cannot make it miss a cycle; only a
\* prerequisite written by another handler during the search can, or a second
\* spelling of a course (course.service.ts:140-142, 181-201).
AcyclicUnlessCrossed == crossed \/ respelled \/ Acyclic

\* A search that has read the whole of what it reached knows every spelling behind
\* the new prerequisite, whatever was removed or deleted while it read, unless a
\* prerequisite was written meanwhile (course.service.ts:185-200).
SearchIsClosed ==
    crossed \/ \A c \in Calls : Searching(c) =>
        /\ call[c].course \notin call[c].visited
        /\ call[c].pre \in call[c].visited \cup call[c].stack
        /\ \A x \in call[c].visited :
             prereqs[CourseOf[x]] \subseteq call[c].visited \cup call[c].stack
=============================================================================
