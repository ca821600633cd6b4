----------------------------- MODULE Structure -----------------------------
(***************************************************************************)
(* Reading the outline of a course while it changes (get_content_structure *)
(* of src/content/manager.rs).  The answer is put together from one SELECT *)
(* per course, module and lesson, in no transaction: students get the      *)
(* published resources, instructors all.                                   *)
(***************************************************************************)
EXTENDS Content

VARIABLES
    published,   \* the published resources
    walk,        \* how far the reader is
    steady,      \* history: resources its role could see ever since it began
    glimpsed     \* history: resources its role could see at some time since

structure == <<row, moves, published, walk, steady, glimpsed>>

Roles == {"student", "instructor"}
Away == [at |-> "idle"]

StructureTypeOK ==
    /\ OutlineTypeOK
    /\ published \in SUBSET Resources
    /\ \/ walk = Away
       \/ walk \in [at : {"walking", "answered"}, role : Roles, course : Courses,
                    modules : SUBSET Modules, lessons : SUBSET Lessons,
                    shown : SUBSET Resources]
    /\ steady \subseteq glimpsed
    /\ glimpsed \in SUBSET Resources

StructureInit ==
    /\ OutlineInit
    /\ published = {}
    /\ walk = Away
    /\ steady = {}
    /\ glimpsed = {}

Listed(course, role) ==
    {r \in Resources :
        /\ IsItem(r)
        /\ row[row[row[r].in].in].in = course
        /\ role = "student" => r \in published}

Watch ==
    IF walk.at = "walking"
    THEN /\ steady' = steady \cap Listed(walk.course, walk.role)'
         /\ glimpsed' = glimpsed \cup Listed(walk.course, walk.role)'
    ELSE UNCHANGED <<steady, glimpsed>>

Publish(r) ==
    /\ IsItem(r)
    /\ published' = published \cup {r}
    /\ UNCHANGED <<row, moves, walk>>
    /\ Watch

Unpublish(r) ==
    /\ IsItem(r)
    /\ published' = published \ {r}
    /\ UNCHANGED <<row, moves, walk>>
    /\ Watch

\* A resource is created unpublished; a deleted one is nobody's.
OutlineChanges ==
    /\ OutlineNext
    /\ published' = {r \in published : IsItem(r)'}
    /\ UNCHANGED walk
    /\ Watch

GetContentStructure(course, role) ==
    /\ walk = Away
    /\ walk' = [at |-> "walking", role |-> role, course |-> course,
                modules |-> Children(course), lessons |-> {}, shown |-> {}]
    /\ steady' = Listed(course, role)
    /\ glimpsed' = Listed(course, role)
    /\ UNCHANGED <<row, moves, published>>

\* The lessons of the next module, when those of the last one are done.
ListLessons(m) ==
    /\ walk.at = "walking"
    /\ walk.lessons = {}
    /\ m \in walk.modules
    /\ walk' = [walk EXCEPT !.modules = @ \ {m}, !.lessons = Children(m)]
    /\ UNCHANGED <<row, moves, published, steady, glimpsed>>

\* Slip: everyone is listed everything.
ListResources_slip(l) ==
    /\ walk.at = "walking"
    /\ l \in walk.lessons
    /\ walk' = [walk EXCEPT !.lessons = @ \ {l}, !.shown = @ \cup Children(l)]
    /\ UNCHANGED <<row, moves, published, steady, glimpsed>>

ListResources(l) ==
    /\ walk.at = "walking"
    /\ l \in walk.lessons
    /\ walk' = [walk EXCEPT !.lessons = @ \ {l},
                            !.shown = @ \cup (Children(l) \cap Listed(walk.course, walk.role))]
    /\ UNCHANGED <<row, moves, published, steady, glimpsed>>

AnswerStructure ==
    /\ walk.at = "walking"
    /\ walk.modules = {} /\ walk.lessons = {}
    /\ walk' = [walk EXCEPT !.at = "answered"]
    /\ UNCHANGED <<row, moves, published, steady, glimpsed>>

\* The next request.
Forget ==
    /\ walk.at = "answered"
    /\ walk' = Away
    /\ steady' = {} /\ glimpsed' = {}
    /\ UNCHANGED <<row, moves, published>>

StructureNext ==
    \/ \E r \in Resources : Publish(r) \/ Unpublish(r)
    \/ OutlineChanges
    \/ \E c \in Courses, role \in Roles : GetContentStructure(c, role)
    \/ \E m \in Modules : ListLessons(m)
    \/ \E l \in Lessons : ListResources(l)
    \/ AnswerStructure
    \/ Forget

StructureSpec == StructureInit /\ [][StructureNext]_structure

-----------------------------------------------------------------------------
(* Property *)

\* The answer is put together from reads at different times, yet everything the
\* role could see all the while is in it, and nothing it could not see at some
\* time since the request came: rows never move to another parent, and one with
\* children cannot be deleted (get_content_structure, delete_module and
\* delete_lesson of manager.rs).
StructureIsWhole ==
    walk.at = "answered" =>
        steady \subseteq walk.shown /\ walk.shown \subseteq glimpsed

=============================================================================
