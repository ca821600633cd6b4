------------------------- MODULE CourseService_proofs -------------------------
(***************************************************************************)
(* Proofs about Enrollment and Prerequisites, for any handlers, students,  *)
(* sections, courses and bounds.                                           *)
(*                                                                         *)
(* Between its two commands a handler owes its section one: an enrollment  *)
(* it created and has not counted, or one it no longer counts and has not  *)
(* deleted.  A section's count and the handlers that owe it one never add  *)
(* up to more than its enrollments, and until one enrollment is removed    *)
(* twice at once they fall short by no more than the failed commands.      *)
(*                                                                         *)
(* From that follows how far a section can be oversold.  Who is let in     *)
(* saw a count below the limit; the enrollments beyond that count have a   *)
(* handler that owes them or a failure that left them, and those already   *)
(* let in have a handler each, which owes nothing.  Together they are at   *)
(* most one for each handler and each failure.                             *)
(*                                                                         *)
(* The argument that the check finds every cycle uses no induction over    *)
(* paths.  Suppose writing course -> pre left a set S in which every       *)
(* course has a prerequisite.  When the stack is empty, visited holds pre  *)
(* and every prerequisite of its courses, and does not hold the course.    *)
(* So S intersected with visited was such a set already before the write.  *)
(***************************************************************************)
EXTENDS Enrollment, Prerequisites, FiniteSetTheorems, TLAPS

-----------------------------------------------------------------------------
(* Enrollment *)

\* Ids are given out in order.
FreshIds == \A i \in Ids : i > created => enrollments[i] = None

\* Who names a section has seen it.
SectionsKnown ==
    \A x \in Sections : sections[x] = None =>
        /\ Enrolled(x) = {}
        /\ \A c \in Handlers :
             handler[c].at \in {"create", "count", "uncount", "delete"} =>
                 handler[c].section # x

\* A removal has read the enrollment it removes, and unless it was doubled is the
\* only one that can delete it.
Removing(c) == handler[c].at \in {"uncount", "delete"}
Removals ==
    \A c \in Handlers : Removing(c) =>
        /\ enrollments[handler[c].id] # None
        /\ IsEnrollment(handler[c].id) =>
               enrollments[handler[c].id].section = handler[c].section
OneRemoval ==
    ~doubled =>
        \A c \in Handlers : Removing(c) =>
            /\ IsEnrollment(handler[c].id)
            /\ \A d \in Handlers : Removing(d) /\ handler[d].id = handler[c].id => d = c

\* The handlers that owe section x one, and what it owes to.
Owing(c, x) == handler[c].at \in {"count", "delete"} /\ handler[c].section = x
Pending(x) == {c \in Handlers : Owing(c, x)}
Balance(x) ==
    IsSection(x) =>
        /\ sections[x].count + Cardinality(Pending(x)) <= Cardinality(Enrolled(x))
        /\ ~doubled => Cardinality(Enrolled(x)) <=
               sections[x].count + Cardinality(Pending(x)) + failures
Balances == \A x \in Sections : Balance(x)

\* The students a section has and those it let in, who are not stored yet, are at
\* most one for each handler beyond the count that is compared.
Entering(c, x) ==
    handler[c].at = "create" /\ handler[c].kind = "self" /\ handler[c].section = x
Admitted(x) == {c \in Handlers : Entering(c, x)}
Seated(x) ==
    ~doubled /\ IsSection(x) /\ x \notin exempt /\ sections[x].max > 0 =>
        Cardinality(Enrolled(x)) + Cardinality(Admitted(x))
            < sections[x].max + Cardinality(Handlers) + failures

Links == FreshIds /\ SectionsKnown /\ Removals /\ OneRemoval
EnrollmentIInv == EnrollmentTypeOK /\ Links /\ Balances

-----------------------------------------------------------------------------
(* Documents and handlers *)

LEMMA Numbers ==
    /\ Capacities \subseteq Nat /\ MaxEnrollments \in Nat /\ MaxFailures \in Nat
    /\ NoSection \notin Sections /\ IsFiniteSet(Handlers)
BY EnrollmentAssumption

LEMMA Documents ==
    /\ None # Gone
    /\ \A d \in SectionDocs : d # None /\ d # Gone
    /\ \A d \in EnrollmentDocs : d # None /\ d # Gone
BY EnrollmentAssumption, NoDocumentAssumption

\* What a handler carries, by where it is.
LEMMA HandlerFields ==
    ASSUME NEW k \in HandlerStates
    PROVE  /\ k.at \in {"existing", "section", "create", "count"} =>
                k.student \in Students /\ k.section \in Sections \cup {NoSection}
           /\ k.at \in {"uncount", "delete"} =>
                k.id \in Ids /\ k.section \in Sections \cup {NoSection}
           /\ k.at = "new_section" => k.section \in Sections /\ k.max \in Capacities
BY DEF HandlerStates

LEMMA HandlerRecords ==
    /\ [at |-> "idle"] \in HandlerStates
    /\ \A x \in Sections, max \in Capacities :
         [at |-> "new_section", section |-> x, max |-> max] \in HandlerStates
    /\ \A kind \in {"self", "instructor"}, s \in Students, x \in Sections \cup {NoSection} :
         [at |-> "existing", kind |-> kind, student |-> s, section |-> x] \in HandlerStates
    /\ \A at \in {"uncount", "delete"}, i \in Ids, x \in Sections \cup {NoSection} :
         [at |-> at, id |-> i, section |-> x] \in HandlerStates
BY DEF HandlerStates

\* A handler that goes on with what it has.
LEMMA HandlerGoesOn ==
    ASSUME NEW k \in HandlerStates, NEW place,
           \/ k.at \in {"existing", "section", "create"} /\ place \in {"section", "create", "count"}
           \/ k.at = "uncount" /\ place = "delete"
    PROVE  LET n == [k EXCEPT !.at = place]
           IN  /\ n \in HandlerStates /\ n.at = place /\ n.section = k.section
               /\ k.at = "uncount" => n.id = k.id
BY DEF HandlerStates

\* One handler moves, the others stay.
LEMMA Moves ==
    ASSUME EnrollmentTypeOK, NEW c \in Handlers, NEW k \in HandlerStates, Move(c, k)
    PROVE  /\ handler' \in [Handlers -> HandlerStates]
           /\ handler'[c] = k
           /\ \A d \in Handlers \ {c} : handler'[d] = handler[d]
BY DEF EnrollmentTypeOK, Move

-----------------------------------------------------------------------------
(* Counting *)

LEMMA FailuresCounted == EnrollmentTypeOK => failures \in Nat
BY Numbers DEF EnrollmentTypeOK

\* Cardinalities of the two sets, and what one element more or less makes of them.
LEMMA Finite ==
    ASSUME NEW x
    PROVE  /\ IsFiniteSet(Pending(x)) /\ IsFiniteSet(Enrolled(x))
           /\ Cardinality(Pending(x)) \in Nat /\ Cardinality(Enrolled(x)) \in Nat
<1>1. IsFiniteSet(Ids)
    BY Numbers, FS_Interval DEF Ids
<1>2. IsFiniteSet(Pending(x))
    BY Numbers, FS_Subset DEF Pending
<1>3. IsFiniteSet(Enrolled(x))
    BY <1>1, FS_Subset DEF Enrolled
<1> QED BY <1>2, <1>3, FS_CardinalityType

LEMMA OneMore ==
    ASSUME NEW S, IsFiniteSet(S), NEW e, e \notin S
    PROVE  Cardinality(S \cup {e}) = Cardinality(S) + 1
BY FS_AddElement

LEMMA OneLess ==
    ASSUME NEW S, IsFiniteSet(S), NEW e
    PROVE  /\ e \in S => Cardinality(S \ {e}) = Cardinality(S) - 1
           /\ Cardinality(S \ {e}) <= Cardinality(S)
           /\ Cardinality(S) <= Cardinality(S \ {e}) + 1
           /\ e \notin S => Cardinality(S \ {e}) = Cardinality(S)
<1>1. Cardinality(S) \in Nat
    BY FS_CardinalityType
<1>2. Cardinality(S \ {e}) = IF e \in S THEN Cardinality(S) - 1 ELSE Cardinality(S)
    BY FS_RemoveElement
<1> QED BY <1>1, <1>2

\* Nothing that the balance of x looks at changes, unless it becomes harder to owe
\* it exactly.
LEMMA BalanceStays ==
    ASSUME NEW x \in Sections, Balance(x),
           IsSection(x)' => IsSection(x) /\ sections'[x].count = sections[x].count,
           Pending(x)' = Pending(x), Enrolled(x)' = Enrolled(x),
           failures' = failures, ~doubled' => ~doubled
    PROVE  Balance(x)'
BY DEF Balance

\* When handler c moves, only c can begin or cease to owe.
LEMMA PendingMoves ==
    ASSUME EnrollmentTypeOK, NEW c \in Handlers, NEW k \in HandlerStates, Move(c, k), NEW x
    PROVE  /\ k.at \in {"count", "delete"} /\ k.section = x => Pending(x)' = Pending(x) \cup {c}
           /\ ~(k.at \in {"count", "delete"} /\ k.section = x) => Pending(x)' = Pending(x) \ {c}
BY Moves DEF Pending, Owing

-----------------------------------------------------------------------------
(* Steps that leave the enrollments alone *)

\* Sections are created, changed and deleted, but never again unknown.
SectionsStay == \A x \in Sections : sections[x] # None => sections'[x] # None

LEMMA LinksKeep ==
    ASSUME Links, UNCHANGED <<enrollments, created, handler, doubled>>, SectionsStay
    PROVE  Links'
<1>1. \A x : Enrolled(x)' = Enrolled(x)
    BY DEF Enrolled, IsEnrollment
<1>2. FreshIds' /\ Removals' /\ OneRemoval'
    BY DEF Links, FreshIds, Removals, OneRemoval, Removing, IsEnrollment
<1>3. SectionsKnown'
    BY <1>1 DEF Links, SectionsKnown, SectionsStay
<1> QED BY <1>2, <1>3 DEF Links

\* A handler moves to a place where it does not remove, or goes on removing.
LEMMA LinksStay ==
    ASSUME EnrollmentTypeOK, Links, UNCHANGED <<enrollments, created, doubled>>, SectionsStay,
           NEW c \in Handlers, NEW k \in HandlerStates, Move(c, k),
           k.at \in {"create", "count", "delete"} =>
               \A x \in Sections : k.section = x => sections[x] # None,
           k.at # "uncount",
           k.at = "delete" => Removing(c) /\ k.id = handler[c].id
                                         /\ k.section = handler[c].section
    PROVE  Links'
<1>1. \A x : Enrolled(x)' = Enrolled(x)
    BY DEF Enrolled, IsEnrollment
<1>2. /\ handler'[c] = k
      /\ \A d \in Handlers \ {c} : handler'[d] = handler[d]
    BY Moves
<1>3. FreshIds'
    BY DEF Links, FreshIds
<1>4. SectionsKnown'
    BY <1>1, <1>2 DEF Links, SectionsKnown, SectionsStay
<1>5. \A d \in Handlers : Removing(d)' =>
        Removing(d) /\ handler'[d].id = handler[d].id /\ handler'[d].section = handler[d].section
    BY <1>2 DEF Removing
<1>6. Removals'
    BY <1>5 DEF Links, Removals, IsEnrollment
<1>7. OneRemoval'
    BY <1>5 DEF Links, OneRemoval, IsEnrollment
<1> QED BY <1>3, <1>4, <1>6, <1>7 DEF Links

\* A handler that neither owes its section one nor begins to moves on.
LEMMA PlainMove ==
    ASSUME EnrollmentIInv, UNCHANGED <<course, sections, enrollments, created, failures, doubled, exempt>>,
           NEW c \in Handlers, NEW k \in HandlerStates, Move(c, k),
           handler[c].at \notin {"count", "delete"},
           k.at \notin {"count", "delete", "uncount"},
           k.at = "create" => \A x \in Sections : k.section = x => sections[x] # None
    PROVE  EnrollmentIInv'
<1>1. EnrollmentTypeOK'
    BY Moves DEF EnrollmentIInv, EnrollmentTypeOK
<1>2. Links'
    BY LinksStay DEF EnrollmentIInv, SectionsStay
<1>3. ASSUME NEW x \in Sections PROVE Balance(x)'
  <2>1. Pending(x)' = Pending(x)
    BY PendingMoves DEF EnrollmentIInv, Pending, Owing
  <2>2. Enrolled(x)' = Enrolled(x) /\ (IsSection(x)' => IsSection(x))
    BY DEF Enrolled, IsEnrollment, IsSection
  <2> QED BY <2>1, <2>2, BalanceStays DEF EnrollmentIInv, Balances
<1> QED BY <1>1, <1>2, <1>3 DEF EnrollmentIInv, Balances

LEMMA PlainAnswer ==
    ASSUME EnrollmentIInv, UNCHANGED <<course, sections, enrollments, created, failures, doubled, exempt>>,
           NEW c \in Handlers, Answer(c), handler[c].at \notin {"count", "delete"}
    PROVE  EnrollmentIInv'
<1> DEFINE k == [at |-> "idle"]
<1>1. k \in HandlerStates /\ k.at = "idle" /\ Move(c, k)
    BY HandlerRecords DEF Answer
<1> HIDE DEF k
<1> QED BY <1>1, PlainMove

LEMMA BeginSectionStep ==
    ASSUME EnrollmentIInv, NEW c \in Handlers, NEW x \in Sections, NEW max \in Capacities,
           BeginSection(c, x, max)
    PROVE  EnrollmentIInv'
<1> DEFINE k == [at |-> "new_section", section |-> x, max |-> max]
<1>1. k \in HandlerStates /\ k.at = "new_section" /\ Move(c, k)
    BY HandlerRecords DEF BeginSection
<1> HIDE DEF k
<1> QED BY <1>1, PlainMove DEF BeginSection, Resting

LEMMA BeginEnrollStep ==
    ASSUME EnrollmentIInv, NEW c \in Handlers, NEW kind \in {"self", "instructor"}, NEW s \in Students,
           NEW x \in Sections \cup {NoSection}, BeginEnroll(c, kind, s, x)
    PROVE  EnrollmentIInv'
<1> DEFINE k == [at |-> "existing", kind |-> kind, student |-> s, section |-> x]
<1>1. k \in HandlerStates /\ k.at = "existing" /\ Move(c, k)
    BY HandlerRecords DEF BeginEnroll
<1> HIDE DEF k
<1> QED BY <1>1, PlainMove DEF BeginEnroll, Resting

LEMMA CheckExistingStep ==
    ASSUME EnrollmentIInv, NEW c \in Handlers, CheckExisting(c) PROVE EnrollmentIInv'
<1>1. handler[c].at = "existing" /\ handler[c] \in HandlerStates
    BY DEF CheckExisting, EnrollmentIInv, EnrollmentTypeOK
<1>2. UNCHANGED <<course, sections, enrollments, created, failures, doubled, exempt>>
    BY DEF CheckExisting
<1>3. CASE EnrolledAs(handler[c].student) # {}
    BY <1>1, <1>2, <1>3, PlainAnswer DEF CheckExisting
<1>4. CASE EnrolledAs(handler[c].student) = {}
  <2> DEFINE place == IF handler[c].section = NoSection THEN "create" ELSE "section"
             k == [handler[c] EXCEPT !.at = place]
  <2>1. k \in HandlerStates /\ k.at = place /\ k.section = handler[c].section
    BY <1>1, HandlerGoesOn
  <2>2. Move(c, k)
    BY <1>4 DEF CheckExisting, Goto
  <2>3. k.at = "create" => \A x \in Sections : k.section # x
    BY <2>1, Numbers
  <2> HIDE DEF k
  <2> QED BY <1>1, <1>2, <2>1, <2>2, <2>3, PlainMove
<1> QED BY <1>3, <1>4

LEMMA CheckSectionStep ==
    ASSUME EnrollmentIInv, NEW c \in Handlers, CheckSection(c) PROVE EnrollmentIInv'
<1> DEFINE y == handler[c].section
           k == [handler[c] EXCEPT !.at = "create"]
<1>1. handler[c].at = "section" /\ handler[c] \in HandlerStates
    BY DEF CheckSection, EnrollmentIInv, EnrollmentTypeOK
<1>2. UNCHANGED <<course, sections, enrollments, created, failures, doubled, exempt>>
    BY DEF CheckSection
<1>3. CASE ~IsSection(y) \/ (handler[c].kind = "self" /\ Full(y))
    BY <1>1, <1>2, <1>3, PlainAnswer DEF CheckSection
<1>4. CASE ~(~IsSection(y) \/ (handler[c].kind = "self" /\ Full(y)))
  <2>1. k \in HandlerStates /\ k.at = "create" /\ k.section = y
    BY <1>1, HandlerGoesOn
  <2>2. Move(c, k)
    BY <1>4 DEF CheckSection, Goto
  <2>3. \A x \in Sections : k.section = x => sections[x] # None
    BY <1>4, <2>1 DEF IsSection
  <2> HIDE DEF k
  <2> QED BY <1>1, <1>2, <2>1, <2>2, <2>3, PlainMove
<1> QED BY <1>3, <1>4

-----------------------------------------------------------------------------
(* The course and its sections *)

LEMMA SetCourseStep ==
    ASSUME EnrollmentIInv, NEW status \in {"draft", "published", "deleted"}, SetCourse(status)
    PROVE  EnrollmentIInv'
<1>1. EnrollmentTypeOK'
    BY DEF SetCourse, EnrollmentIInv, EnrollmentTypeOK
<1>2. Links'
    BY LinksKeep DEF SetCourse, EnrollmentIInv, SectionsStay
<1>3. ASSUME NEW x \in Sections PROVE Balance(x)'
    BY <1>3, BalanceStays DEF SetCourse, EnrollmentIInv, Balances, Pending, Owing, Enrolled,
                              IsEnrollment, IsSection
<1> QED BY <1>1, <1>2, <1>3 DEF EnrollmentIInv, Balances

LEMMA UpdateSectionStep ==
    ASSUME EnrollmentIInv, NEW y \in Sections, NEW max \in Capacities, UpdateSection(y, max)
    PROVE  EnrollmentIInv'
<1> DEFINE doc == [sections[y] EXCEPT !.max = max]
<1>1. sections[y] \in SectionDocs
    BY DEF UpdateSection, IsSection, EnrollmentIInv, EnrollmentTypeOK
<1>2. doc \in SectionDocs /\ doc.count = sections[y].count /\ doc # None
    BY <1>1, Documents DEF SectionDocs
<1>3. /\ sections' = [sections EXCEPT ![y] = doc]
      /\ UNCHANGED <<course, enrollments, created, handler, failures, doubled>>
      /\ exempt' \in {exempt, exempt \cup {y}}
    BY DEF UpdateSection
<1> HIDE DEF doc
<1>4. EnrollmentTypeOK'
    BY <1>2, <1>3 DEF EnrollmentIInv, EnrollmentTypeOK
<1>5. /\ sections'[y] = doc
      /\ \A x \in Sections \ {y} : sections'[x] = sections[x]
    BY <1>3 DEF EnrollmentIInv, EnrollmentTypeOK
<1>6. Links'
    BY <1>2, <1>3, <1>5, LinksKeep DEF EnrollmentIInv, SectionsStay
<1>7. ASSUME NEW x \in Sections PROVE Balance(x)'
  <2>1. IsSection(x)' => IsSection(x) /\ sections'[x].count = sections[x].count
    BY <1>2, <1>5 DEF IsSection, UpdateSection
  <2>2. Pending(x)' = Pending(x) /\ Enrolled(x)' = Enrolled(x)
    BY <1>3 DEF Pending, Owing, Enrolled, IsEnrollment
  <2> QED BY <1>3, <2>1, <2>2, BalanceStays DEF EnrollmentIInv, Balances
<1> QED BY <1>4, <1>6, <1>7 DEF EnrollmentIInv, Balances

LEMMA DeleteSectionStep ==
    ASSUME EnrollmentIInv, NEW y \in Sections, DeleteSection(y) PROVE EnrollmentIInv'
<1>1. /\ sections' = [sections EXCEPT ![y] = Gone]
      /\ UNCHANGED <<course, enrollments, created, handler, failures, doubled, exempt>>
    BY DEF DeleteSection
<1>2. EnrollmentTypeOK'
    BY <1>1 DEF EnrollmentIInv, EnrollmentTypeOK
<1>3. /\ sections'[y] = Gone
      /\ \A x \in Sections \ {y} : sections'[x] = sections[x]
    BY <1>1 DEF EnrollmentIInv, EnrollmentTypeOK
<1>4. Links'
    BY <1>1, <1>3, Documents, LinksKeep DEF EnrollmentIInv, SectionsStay
<1>5. ASSUME NEW x \in Sections PROVE Balance(x)'
  <2>1. IsSection(x)' => IsSection(x) /\ sections'[x].count = sections[x].count
    BY <1>3 DEF IsSection
  <2>2. Pending(x)' = Pending(x) /\ Enrolled(x)' = Enrolled(x)
    BY <1>1 DEF Pending, Owing, Enrolled, IsEnrollment
  <2> QED BY <1>1, <2>1, <2>2, BalanceStays DEF EnrollmentIInv, Balances
<1> QED BY <1>2, <1>4, <1>5 DEF EnrollmentIInv, Balances

LEMMA CreateSectionStep ==
    ASSUME EnrollmentIInv, NEW c \in Handlers, CreateSection(c) PROVE EnrollmentIInv'
<1> DEFINE y == handler[c].section
           doc == [max |-> handler[c].max, count |-> 0]
           k == [at |-> "idle"]
<1>1. handler[c].at = "new_section" /\ y \in Sections /\ handler[c].max \in Capacities
    BY HandlerFields DEF CreateSection, EnrollmentIInv, EnrollmentTypeOK
<1>2. UNCHANGED <<course, enrollments, created, failures, doubled, exempt>> /\ Answer(c)
    BY DEF CreateSection
<1>3. CASE sections[y] # None
    BY <1>1, <1>2, <1>3, PlainAnswer DEF CreateSection
<1>4. CASE sections[y] = None
  <2>1. doc \in SectionDocs /\ doc # None /\ doc.count = 0
    BY <1>1, Documents DEF SectionDocs
  <2>2. sections' = [sections EXCEPT ![y] = doc]
    BY <1>4 DEF CreateSection
  <2>3. k \in HandlerStates /\ k.at = "idle" /\ Move(c, k)
    BY <1>2, HandlerRecords DEF Answer
  <2> HIDE DEF k, doc
  <2>4. EnrollmentTypeOK'
    BY <1>1, <1>2, <2>1, <2>2, <2>3, Moves DEF EnrollmentIInv, EnrollmentTypeOK
  <2>5. /\ sections'[y] = doc
        /\ \A x \in Sections \ {y} : sections'[x] = sections[x]
    BY <1>1, <2>2 DEF EnrollmentIInv, EnrollmentTypeOK
  <2>6. SectionsStay
    BY <1>4, <2>5 DEF SectionsStay
  <2>7. Links'
    BY <1>2, <2>3, <2>6, LinksStay DEF EnrollmentIInv
  <2>8. ASSUME NEW x \in Sections PROVE Balance(x)'
    <3>1. Pending(x)' = Pending(x)
        BY <1>1, <2>3, PendingMoves DEF EnrollmentIInv, Pending, Owing
    <3>2. Enrolled(x)' = Enrolled(x)
        BY <1>2 DEF Enrolled, IsEnrollment
    <3>3. CASE x = y
      <4>1. Enrolled(x) = {} /\ Pending(x) = {}
        BY <1>4, <3>3 DEF EnrollmentIInv, Links, SectionsKnown, Pending, Owing
      <4>2. Cardinality({}) = 0
        BY FS_EmptySet
      <4> QED BY <1>2, <2>1, <2>5, <3>1, <3>2, <3>3, <4>1, <4>2, FailuresCounted DEF EnrollmentIInv, Balance
    <3>4. CASE x # y
        BY <1>2, <2>5, <3>1, <3>2, <3>4, BalanceStays DEF EnrollmentIInv, Balances, IsSection
    <3> QED BY <3>3, <3>4
  <2> QED BY <2>4, <2>7, <2>8 DEF EnrollmentIInv, Balances
<1> QED BY <1>3, <1>4

-----------------------------------------------------------------------------
(* Steps that settle or run up what is owed *)

LEMMA CountAdded ==
    ASSUME EnrollmentTypeOK, NEW y, NEW n \in Int, AddToCount(y, n)
    PROVE  /\ sections' \in [Sections -> SectionDocs \cup {None, Gone}]
           /\ SectionsStay
           /\ \A x \in Sections : IsSection(x)' =>
                /\ IsSection(x)
                /\ sections[x].count \in Int
                /\ x # y => sections'[x].count = sections[x].count
                /\ x = y => sections'[x].count = sections[x].count + n
<1>1. CASE ~IsSection(y)
  <2>1. sections' = sections
    BY <1>1 DEF AddToCount
  <2> QED BY <1>1, <2>1 DEF EnrollmentTypeOK, SectionsStay, IsSection, SectionDocs
<1>2. CASE IsSection(y)
  <2> DEFINE doc == [sections[y] EXCEPT !.count = @ + n]
  <2>1. y \in Sections /\ sections[y] \in SectionDocs
    BY <1>2 DEF EnrollmentTypeOK, IsSection
  <2>2. doc \in SectionDocs /\ doc # None /\ doc.count = sections[y].count + n
    BY <2>1, Documents DEF SectionDocs
  <2>3. sections' = [sections EXCEPT ![y] = doc]
    BY <1>2 DEF AddToCount
  <2> HIDE DEF doc
  <2>4. /\ sections'[y] = doc
        /\ \A x \in Sections \ {y} : sections'[x] = sections[x]
    BY <2>1, <2>3 DEF EnrollmentTypeOK
  <2>5. \A x \in Sections : IsSection(x) => sections[x] \in SectionDocs
    BY DEF EnrollmentTypeOK, IsSection
  <2>6. sections' \in [Sections -> SectionDocs \cup {None, Gone}]
    BY <2>2, <2>3 DEF EnrollmentTypeOK
  <2>7. SectionsStay
    BY <2>2, <2>4 DEF SectionsStay
  <2>8. \A x \in Sections : IsSection(x)' => IsSection(x)
    BY <1>2, <2>4 DEF IsSection
  <2>9. \A x \in Sections : IsSection(x) => sections[x].count \in Int
    BY <2>5 DEF SectionDocs
  <2> QED BY <2>2, <2>4, <2>6, <2>7, <2>8, <2>9
<1> QED BY <1>1, <1>2

LEMMA CountKeepsLimit ==
    ASSUME EnrollmentTypeOK, NEW y, NEW n \in Int, AddToCount(y, n), NEW x \in Sections
    PROVE  IsSection(x)' => IsSection(x) /\ sections'[x].max = sections[x].max
<1>1. CASE ~IsSection(y)
    BY <1>1 DEF AddToCount, IsSection
<1>2. CASE IsSection(y)
  <2>1. y \in Sections /\ sections[y] \in SectionDocs
    BY <1>2 DEF EnrollmentTypeOK, IsSection
  <2>2. /\ sections'[y] = [sections[y] EXCEPT !.count = @ + n]
        /\ x # y => sections'[x] = sections[x]
    BY <1>2, <2>1 DEF AddToCount, EnrollmentTypeOK
  <2>3. sections'[y].max = sections[y].max
    BY <2>1, <2>2 DEF SectionDocs
  <2> QED BY <1>2, <2>2, <2>3 DEF IsSection
<1> QED BY <1>1, <1>2

LEMMA CountEnrollmentStep ==
    ASSUME EnrollmentIInv, NEW c \in Handlers, CountEnrollment(c) PROVE EnrollmentIInv'
<1> DEFINE y == handler[c].section
           k == [at |-> "idle"]
<1>1. k \in HandlerStates /\ k.at = "idle" /\ Move(c, k)
    BY HandlerRecords DEF Answer, CountEnrollment
<1> HIDE DEF k
<1>2. /\ handler[c].at = "count" /\ AddToCount(y, 1)
      /\ UNCHANGED <<course, enrollments, created, failures, doubled, exempt>>
    BY DEF CountEnrollment
<1>3. EnrollmentTypeOK'
    BY <1>1, <1>2, CountAdded, Moves DEF EnrollmentIInv, EnrollmentTypeOK
<1>4. Links'
    BY <1>1, <1>2, CountAdded, LinksStay DEF EnrollmentIInv
<1>5. ASSUME NEW x \in Sections PROVE Balance(x)'
  <2>1. Enrolled(x)' = Enrolled(x) /\ Balance(x)
    BY <1>2 DEF Enrolled, IsEnrollment, EnrollmentIInv, Balances
  <2>2. Pending(x)' = Pending(x) \ {c}
    BY <1>1, PendingMoves DEF EnrollmentIInv
  <2>3. IsFiniteSet(Pending(x)) /\ Cardinality(Pending(x)) \in Nat
        /\ Cardinality(Enrolled(x)) \in Nat
    BY Finite
  <2>4. SUFFICES ASSUME IsSection(x)' PROVE Balance(x)'
    BY DEF Balance
  <2>5. IsSection(x) /\ sections[x].count \in Int
    BY <1>2, <2>4, CountAdded DEF EnrollmentIInv
  <2>6. CASE x = y
    <3>1. c \in Pending(x)
        BY <1>2, <2>6 DEF Pending, Owing
    <3>2. Cardinality(Pending(x)') = Cardinality(Pending(x)) - 1
        BY <2>2, <2>3, <3>1, OneLess
    <3>3. sections'[x].count = sections[x].count + 1
        BY <1>2, <2>4, <2>6, CountAdded DEF EnrollmentIInv
    <3> QED BY <1>2, <2>1, <2>3, <2>5, <3>2, <3>3, FailuresCounted DEF EnrollmentIInv, Balance
  <2>7. CASE x # y
    <3>1. Pending(x)' = Pending(x)
        BY <2>2, <2>7 DEF Pending, Owing
    <3>2. sections'[x].count = sections[x].count
        BY <1>2, <2>4, <2>7, CountAdded DEF EnrollmentIInv
    <3> QED BY <1>2, <2>1, <2>5, <3>1, <3>2, BalanceStays
  <2> QED BY <2>6, <2>7
<1> QED BY <1>3, <1>4, <1>5 DEF EnrollmentIInv, Balances

LEMMA UncountEnrollmentStep ==
    ASSUME EnrollmentIInv, NEW c \in Handlers, UncountEnrollment(c) PROVE EnrollmentIInv'
<1> DEFINE y == handler[c].section
           k == [handler[c] EXCEPT !.at = "delete"]
<1>1. /\ handler[c].at = "uncount" /\ AddToCount(y, -1)
      /\ UNCHANGED <<course, enrollments, created, failures, doubled, exempt>>
    BY DEF UncountEnrollment
<1>2. handler[c] \in HandlerStates
    BY DEF EnrollmentIInv, EnrollmentTypeOK
<1>3. /\ k \in HandlerStates /\ k.at = "delete" /\ k.section = y /\ k.id = handler[c].id
      /\ Move(c, k)
    BY <1>1, <1>2, HandlerGoesOn DEF UncountEnrollment, Goto
<1> HIDE DEF k
<1>4. -1 \in Int
    OBVIOUS
<1>5. EnrollmentTypeOK'
    BY <1>1, <1>3, <1>4, CountAdded, Moves DEF EnrollmentIInv, EnrollmentTypeOK
<1>6. \A x \in Sections : y = x => sections[x] # None
    BY <1>1 DEF EnrollmentIInv, Links, SectionsKnown
<1>7. Links'
    BY <1>1, <1>3, <1>4, <1>6, CountAdded, LinksStay DEF EnrollmentIInv, Removing
<1>8. ASSUME NEW x \in Sections PROVE Balance(x)'
  <2>1. Enrolled(x)' = Enrolled(x) /\ Balance(x)
    BY <1>1 DEF Enrolled, IsEnrollment, EnrollmentIInv, Balances
  <2>2. IsFiniteSet(Pending(x)) /\ Cardinality(Pending(x)) \in Nat
        /\ Cardinality(Enrolled(x)) \in Nat
    BY Finite
  <2>3. SUFFICES ASSUME IsSection(x)' PROVE Balance(x)'
    BY DEF Balance
  <2>4. IsSection(x) /\ sections[x].count \in Int
    BY <1>1, <1>4, <2>3, CountAdded DEF EnrollmentIInv
  <2>5. c \notin Pending(x)
    BY <1>1 DEF Pending, Owing
  <2>6. CASE x = y
    <3>1. Pending(x)' = Pending(x) \cup {c}
        BY <1>3, <2>6, PendingMoves DEF EnrollmentIInv
    <3>2. Cardinality(Pending(x)') = Cardinality(Pending(x)) + 1
        BY <2>2, <2>5, <3>1, OneMore
    <3>3. sections'[x].count = sections[x].count + -1
        BY <1>1, <1>4, <2>3, <2>6, CountAdded DEF EnrollmentIInv
    <3> QED BY <1>1, <2>1, <2>2, <2>4, <3>2, <3>3, FailuresCounted DEF EnrollmentIInv, Balance
  <2>7. CASE x # y
    <3>1. Pending(x)' = Pending(x) \ {c}
        BY <1>3, <2>7, PendingMoves DEF EnrollmentIInv
    <3>2. Pending(x)' = Pending(x)
        BY <2>5, <3>1
    <3>3. sections'[x].count = sections[x].count
        BY <1>1, <1>4, <2>3, <2>7, CountAdded DEF EnrollmentIInv
    <3> QED BY <1>1, <2>1, <2>4, <3>2, <3>3, BalanceStays
  <2> QED BY <2>6, <2>7
<1> QED BY <1>5, <1>7, <1>8 DEF EnrollmentIInv, Balances

\* A handler that gives up may leave its section owed one for good.
LEMMA HandlerFailsStep ==
    ASSUME EnrollmentIInv, NEW c \in Handlers, HandlerFails(c) PROVE EnrollmentIInv'
<1> DEFINE k == [at |-> "idle"]
<1>1. k \in HandlerStates /\ k.at = "idle" /\ Move(c, k)
    BY HandlerRecords DEF Answer, HandlerFails
<1> HIDE DEF k
<1>2. /\ failures < MaxFailures /\ failures' = failures + 1
      /\ UNCHANGED <<course, sections, enrollments, created, doubled, exempt>>
    BY DEF HandlerFails
<1>3. failures \in Nat /\ failures' \in 0..MaxFailures /\ failures' # 0
    BY <1>2, Numbers DEF EnrollmentIInv, EnrollmentTypeOK
<1>4. EnrollmentTypeOK'
    BY <1>1, <1>2, <1>3, Moves DEF EnrollmentIInv, EnrollmentTypeOK
<1>5. Links'
    BY <1>1, <1>2, LinksStay DEF EnrollmentIInv, SectionsStay
<1>6. ASSUME NEW x \in Sections PROVE Balance(x)'
  <2>1. Enrolled(x)' = Enrolled(x) /\ Balance(x) /\ (IsSection(x)' => IsSection(x))
        /\ sections' = sections
    BY <1>2 DEF Enrolled, IsEnrollment, EnrollmentIInv, Balances, IsSection
  <2>2. Pending(x)' = Pending(x) \ {c}
    BY <1>1, PendingMoves DEF EnrollmentIInv
  <2>3. IsFiniteSet(Pending(x)) /\ Cardinality(Pending(x)) \in Nat
        /\ Cardinality(Enrolled(x)) \in Nat /\ Cardinality(Pending(x))' \in Nat
    BY <2>2, Finite, FS_Subset, FS_CardinalityType
  <2>4. /\ Cardinality(Pending(x)') <= Cardinality(Pending(x))
        /\ Cardinality(Pending(x)) <= Cardinality(Pending(x)') + 1
    BY <2>2, <2>3, OneLess
  <2>5. IsSection(x) => sections[x].count \in Int
    BY DEF IsSection, EnrollmentIInv, EnrollmentTypeOK, SectionDocs
  <2>6. /\ failures' = failures + 1 /\ (~doubled' <=> ~doubled)
        /\ Cardinality(Enrolled(x))' = Cardinality(Enrolled(x))
        /\ IsSection(x)' => IsSection(x) /\ sections'[x].count = sections[x].count
    BY <1>2, <2>1
  <2> QED BY <1>3, <2>1, <2>3, <2>4, <2>5, <2>6 DEF Balance
<1> QED BY <1>4, <1>5, <1>6 DEF EnrollmentIInv, Balances

-----------------------------------------------------------------------------
(* Enrollments that come and go *)

LEMMA CreateEnrollmentStep ==
    ASSUME EnrollmentIInv, NEW c \in Handlers, CreateEnrollment(c) PROVE EnrollmentIInv'
<1> DEFINE y == handler[c].section
           new == created + 1
           doc == [student |-> handler[c].student, section |-> y]
           k == IF y = NoSection THEN [at |-> "idle"] ELSE [handler[c] EXCEPT !.at = "count"]
<1>1. handler[c].at = "create" /\ handler[c] \in HandlerStates
    BY DEF CreateEnrollment, EnrollmentIInv, EnrollmentTypeOK
<1>2. UNCHANGED <<course, sections, failures, doubled>>
    BY DEF CreateEnrollment
<1>3. handler[c].student \in Students /\ y \in Sections \cup {NoSection}
    BY <1>1, HandlerFields
<1>4. CASE EnrolledAs(handler[c].student) # {}
    BY <1>1, <1>2, <1>4, PlainAnswer DEF CreateEnrollment
<1>5. CASE EnrolledAs(handler[c].student) = {}
  <2>1. /\ created < MaxEnrollments /\ created' = new
        /\ enrollments' = [enrollments EXCEPT ![new] = doc]
        /\ Move(c, k)
    BY <1>5 DEF CreateEnrollment, Answer, Goto
  <2>2. new \in Ids /\ new \in 0..MaxEnrollments /\ created \in Nat
    BY <2>1, Numbers DEF EnrollmentIInv, EnrollmentTypeOK, Ids
  <2>3. doc \in EnrollmentDocs /\ doc # None /\ doc # Gone /\ doc.section = y
    BY <1>3, Documents DEF EnrollmentDocs
  <2>4. k \in HandlerStates /\ (y = NoSection => k.at = "idle")
        /\ (y # NoSection => k.at = "count" /\ k.section = y)
    BY <1>1, HandlerGoesOn, HandlerRecords
  <2> HIDE DEF doc, k, new
  <2>5. enrollments[new] = None
    BY <2>1, <2>2 DEF new, EnrollmentIInv, Links, FreshIds
  <2>6. /\ enrollments'[new] = doc
        /\ \A i \in Ids \ {new} : enrollments'[i] = enrollments[i]
        /\ enrollments' \in [Ids -> EnrollmentDocs \cup {None, Gone}]
    BY <2>1, <2>2, <2>3 DEF EnrollmentIInv, EnrollmentTypeOK
  <2>7. EnrollmentTypeOK'
    <3>1. exempt' \in SUBSET Sections
        BY <1>5 DEF CreateEnrollment, Exempted, EnrollmentIInv, EnrollmentTypeOK
    <3> QED BY <1>2, <2>1, <2>2, <2>4, <2>6, <3>1, Moves DEF EnrollmentIInv, EnrollmentTypeOK
  <2>8. /\ handler'[c] = k
        /\ \A d \in Handlers \ {c} : handler'[d] = handler[d]
    BY <2>1, <2>4, Moves DEF EnrollmentIInv
  <2>9. \A x : /\ new \notin Enrolled(x)
               /\ x = y => Enrolled(x)' = Enrolled(x) \cup {new}
               /\ x # y => Enrolled(x)' = Enrolled(x)
    BY <2>2, <2>3, <2>5, <2>6 DEF Enrolled, IsEnrollment
  <2>10. FreshIds'
    BY <2>1, <2>2, <2>6 DEF new, EnrollmentIInv, Links, FreshIds, Ids, EnrollmentTypeOK
  <2>11. SectionsKnown'
    <3>1. \A x \in Sections : sections[x] = None => y # x
        BY <1>1 DEF EnrollmentIInv, Links, SectionsKnown
    <3> QED BY <1>2, <1>3, <2>4, <2>8, <2>9, <3>1 DEF EnrollmentIInv, Links, SectionsKnown
  <2>12. \A d \in Handlers : Removing(d)' =>
           /\ Removing(d) /\ handler'[d] = handler[d] /\ handler[d].id \in Ids \ {new}
           /\ enrollments'[handler[d].id] = enrollments[handler[d].id]
    <3>1. \A d \in Handlers : Removing(d) =>
             handler[d].id \in Ids /\ enrollments[handler[d].id] # None
        BY HandlerFields DEF EnrollmentIInv, Links, Removals, Removing, EnrollmentTypeOK
    <3>2. \A d \in Handlers : Removing(d)' => d # c /\ Removing(d)
        BY <2>4, <2>8 DEF Removing
    <3> QED BY <2>5, <2>6, <2>8, <3>1, <3>2
  <2>13. Removals'
    BY <2>12 DEF EnrollmentIInv, Links, Removals, IsEnrollment
  <2>14. OneRemoval'
    BY <1>2, <2>12 DEF EnrollmentIInv, Links, OneRemoval, IsEnrollment
  <2>15. ASSUME NEW x \in Sections PROVE Balance(x)'
    <3>1. Balance(x) /\ (IsSection(x)' => IsSection(x)) /\ sections' = sections
        BY <1>2 DEF EnrollmentIInv, Balances, IsSection
    <3>2. c \notin Pending(x)
        BY <1>1 DEF Pending, Owing
    <3>3. IsFiniteSet(Pending(x)) /\ IsFiniteSet(Enrolled(x))
          /\ Cardinality(Pending(x)) \in Nat /\ Cardinality(Enrolled(x)) \in Nat
        BY Finite
    <3>4. CASE x = y
      <4>1. Pending(x)' = Pending(x) \cup {c}
        BY <2>1, <2>4, <3>4, PendingMoves, Numbers DEF EnrollmentIInv
      <4>2. Cardinality(Pending(x)') = Cardinality(Pending(x)) + 1
        BY <3>2, <3>3, <4>1, OneMore
      <4>3. Cardinality(Enrolled(x)') = Cardinality(Enrolled(x)) + 1
        BY <2>9, <3>3, <3>4, OneMore
      <4>4. IsSection(x) => sections[x].count \in Int
        BY DEF IsSection, EnrollmentIInv, EnrollmentTypeOK, SectionDocs
      <4> QED BY <1>2, <3>1, <3>3, <4>2, <4>3, <4>4, FailuresCounted DEF EnrollmentIInv, Balance
    <3>5. CASE x # y
      <4>1. Pending(x)' = Pending(x) \ {c}
        BY <2>1, <2>4, <3>5, PendingMoves DEF EnrollmentIInv
      <4> QED BY <1>2, <2>9, <3>1, <3>2, <3>5, <4>1, BalanceStays
    <3> QED BY <3>4, <3>5
  <2> QED BY <2>7, <2>10, <2>11, <2>13, <2>14, <2>15 DEF EnrollmentIInv, Links, Balances
<1> QED BY <1>4, <1>5

LEMMA BeginRemoveStep ==
    ASSUME EnrollmentIInv, NEW c \in Handlers, NEW i \in Ids, BeginRemove(c, i) PROVE EnrollmentIInv'
<1> DEFINE y == enrollments[i].section
           k == [at |-> IF y = NoSection THEN "delete" ELSE "uncount", id |-> i, section |-> y]
<1>1. /\ handler[c].at = "idle" /\ IsEnrollment(i) /\ Move(c, k)
      /\ doubled' = (doubled \/ \E d \in Handlers :
                        handler[d].at \in {"uncount", "delete"} /\ handler[d].id = i)
      /\ UNCHANGED <<course, sections, enrollments, created, failures, exempt>>
    BY DEF BeginRemove, Resting
<1>2. enrollments[i] \in EnrollmentDocs
    BY <1>1 DEF IsEnrollment, EnrollmentIInv, EnrollmentTypeOK
<1>3. y \in Sections \cup {NoSection}
    BY <1>2 DEF EnrollmentDocs
<1>4. /\ k \in HandlerStates /\ k.id = i /\ k.section = y /\ k.at \in {"uncount", "delete"}
      /\ (k.at = "delete" => y = NoSection)
    BY <1>3, HandlerRecords
<1> HIDE DEF k
<1>5. EnrollmentTypeOK'
    BY <1>1, <1>4, Moves DEF EnrollmentIInv, EnrollmentTypeOK
<1>6. /\ handler'[c] = k
      /\ \A d \in Handlers \ {c} : handler'[d] = handler[d]
    BY <1>1, <1>4, Moves DEF EnrollmentIInv
<1>7. \A x : Enrolled(x)' = Enrolled(x)
    BY <1>1 DEF Enrolled, IsEnrollment
<1>8. FreshIds'
    BY <1>1 DEF EnrollmentIInv, Links, FreshIds
<1>9. SectionsKnown'
  <2>1. i \in Enrolled(y)
    BY <1>1 DEF Enrolled
  <2> QED BY <1>1, <1>4, <1>6, <1>7, <2>1 DEF EnrollmentIInv, Links, SectionsKnown
<1>10. Removals'
    BY <1>1, <1>4, <1>6 DEF EnrollmentIInv, Links, Removals, Removing, IsEnrollment
<1>11. OneRemoval'
  <2> SUFFICES ASSUME ~doubled' PROVE OneRemoval'
    BY DEF OneRemoval
  <2>1. ~doubled /\ \A d \in Handlers : Removing(d) => handler[d].id # i
    BY <1>1 DEF Removing
  <2>2. IsEnrollment(i)'
    BY <1>1 DEF IsEnrollment
  <2>3. \A d \in Handlers : Removing(d) =>
          /\ IsEnrollment(handler[d].id)
          /\ \A e \in Handlers : Removing(e) /\ handler[e].id = handler[d].id => e = d
    BY <2>1 DEF EnrollmentIInv, Links, OneRemoval
  <2>4. \A d \in Handlers : Removing(d)' =>
          d = c \/ (d # c /\ Removing(d) /\ handler'[d] = handler[d])
    BY <1>6 DEF Removing
  <2>5. enrollments' = enrollments /\ handler'[c].id = i
    BY <1>1, <1>4, <1>6
  <2> QED BY <2>1, <2>2, <2>3, <2>4, <2>5 DEF OneRemoval, IsEnrollment
<1>12. ASSUME NEW x \in Sections PROVE Balance(x)'
  <2>1. ~(k.at \in {"count", "delete"} /\ k.section = x)
    BY <1>4, Numbers
  <2>2. Pending(x)' = Pending(x) \ {c}
    BY <1>1, <1>4, <2>1, PendingMoves DEF EnrollmentIInv
  <2>3. Balance(x) /\ c \notin Pending(x)
    BY <1>1 DEF EnrollmentIInv, Balances, Pending, Owing
  <2> QED BY <1>1, <1>7, <2>2, <2>3, BalanceStays DEF IsSection
<1> QED BY <1>5, <1>8, <1>9, <1>10, <1>11, <1>12 DEF EnrollmentIInv, Links, Balances

LEMMA DeleteEnrollmentStep ==
    ASSUME EnrollmentIInv, NEW c \in Handlers, DeleteEnrollment(c) PROVE EnrollmentIInv'
<1> DEFINE y == handler[c].section
           i == handler[c].id
           k == [at |-> "idle"]
<1>1. /\ handler[c].at = "delete" /\ enrollments' = [enrollments EXCEPT ![i] = Gone]
      /\ UNCHANGED <<course, sections, created, failures, doubled, exempt>>
    BY DEF DeleteEnrollment
<1>2. k \in HandlerStates /\ k.at = "idle" /\ Move(c, k)
    BY HandlerRecords DEF Answer, DeleteEnrollment
<1> HIDE DEF k
<1>3. i \in Ids /\ Removing(c)
    BY <1>1, HandlerFields DEF EnrollmentIInv, EnrollmentTypeOK, Removing
<1>4. /\ enrollments'[i] = Gone
      /\ \A j \in Ids \ {i} : enrollments'[j] = enrollments[j]
      /\ enrollments' \in [Ids -> EnrollmentDocs \cup {None, Gone}]
    BY <1>1, <1>3 DEF EnrollmentIInv, EnrollmentTypeOK
<1>5. EnrollmentTypeOK'
    BY <1>1, <1>2, <1>4, Moves DEF EnrollmentIInv, EnrollmentTypeOK
<1>6. /\ handler'[c] = k
      /\ \A d \in Handlers \ {c} : handler'[d] = handler[d]
    BY <1>2, Moves DEF EnrollmentIInv
<1>7. \A x : Enrolled(x)' = Enrolled(x) \ {i}
    BY <1>3, <1>4, Documents DEF Enrolled, IsEnrollment
<1>8. /\ enrollments[i] # None
      /\ IsEnrollment(i) => enrollments[i].section = y
    BY <1>3 DEF EnrollmentIInv, Links, Removals
<1>9. FreshIds'
    BY <1>1, <1>3, <1>4, <1>8 DEF EnrollmentIInv, Links, FreshIds
<1>10. SectionsKnown'
    BY <1>1, <1>2, <1>6, <1>7 DEF EnrollmentIInv, Links, SectionsKnown
<1>11. \A d \in Handlers : Removing(d)' => d # c /\ Removing(d) /\ handler'[d] = handler[d]
    BY <1>2, <1>6 DEF Removing
<1>12. \A d \in Handlers : Removing(d) => handler[d].id \in Ids
    BY HandlerFields DEF EnrollmentIInv, EnrollmentTypeOK, Removing
<1>13. Removals'
    BY <1>4, <1>11, <1>12, Documents DEF EnrollmentIInv, Links, Removals, IsEnrollment
<1>14. OneRemoval'
  <2> SUFFICES ASSUME ~doubled' PROVE OneRemoval'
    BY DEF OneRemoval
  <2>1. \A d \in Handlers : Removing(d) =>
          /\ IsEnrollment(handler[d].id)
          /\ \A e \in Handlers : Removing(e) /\ handler[e].id = handler[d].id => e = d
    BY <1>1 DEF EnrollmentIInv, Links, OneRemoval
  <2>2. \A d \in Handlers : Removing(d)' =>
          handler[d].id # i /\ enrollments'[handler[d].id] = enrollments[handler[d].id]
    BY <1>3, <1>4, <1>11, <1>12, <2>1
  <2> QED BY <1>11, <2>1, <2>2 DEF OneRemoval, IsEnrollment
<1>15. ASSUME NEW x \in Sections PROVE Balance(x)'
  <2>1. Balance(x) /\ (IsSection(x)' => IsSection(x)) /\ sections' = sections
    BY <1>1 DEF EnrollmentIInv, Balances, IsSection
  <2>2. Pending(x)' = Pending(x) \ {c}
    BY <1>2, PendingMoves DEF EnrollmentIInv
  <2>3. IsFiniteSet(Pending(x)) /\ IsFiniteSet(Enrolled(x))
        /\ Cardinality(Pending(x)) \in Nat /\ Cardinality(Enrolled(x)) \in Nat
    BY Finite
  <2>4. CASE x = y
    <3>1. c \in Pending(x)
        BY <1>1, <2>4 DEF Pending, Owing
    <3>2. Cardinality(Pending(x)') = Cardinality(Pending(x)) - 1
        BY <2>2, <2>3, <3>1, OneLess
    <3>3. IsFiniteSet(Enrolled(x)') /\ Cardinality(Enrolled(x)') \in Nat
        BY <1>7, <2>3, FS_Subset, FS_CardinalityType
    <3>4. /\ Cardinality(Enrolled(x)) <= Cardinality(Enrolled(x)') + 1
          /\ ~doubled => Cardinality(Enrolled(x)') = Cardinality(Enrolled(x)) - 1
      <4>1. ~doubled => i \in Enrolled(x)
        BY <1>3, <1>8, <2>4 DEF EnrollmentIInv, Links, OneRemoval, Enrolled
      <4> QED BY <1>7, <2>3, <4>1, OneLess
    <3>5. IsSection(x) => sections[x].count \in Int
        BY DEF IsSection, EnrollmentIInv, EnrollmentTypeOK, SectionDocs
    <3> QED BY <1>1, <2>1, <2>3, <3>2, <3>3, <3>4, <3>5, FailuresCounted DEF EnrollmentIInv, Balance
  <2>5. CASE x # y
    <3>1. i \notin Enrolled(x) /\ c \notin Pending(x)
        BY <1>8, <2>5 DEF Enrolled, Pending, Owing
    <3>2. Enrolled(x)' = Enrolled(x) /\ Pending(x)' = Pending(x)
        BY <1>7, <2>2, <3>1
    <3> QED BY <1>1, <2>1, <3>2, BalanceStays
  <2> QED BY <2>4, <2>5
<1> QED BY <1>5, <1>9, <1>10, <1>13, <1>14, <1>15 DEF EnrollmentIInv, Links, Balances

-----------------------------------------------------------------------------
(* The specification *)

LEMMA EnrollmentInitIInv == EnrollmentInit => EnrollmentIInv
<1> SUFFICES ASSUME EnrollmentInit PROVE EnrollmentIInv
    OBVIOUS
<1>1. 0 \in 0..MaxEnrollments /\ 0 \in 0..MaxFailures
    BY Numbers
<1>2. handler \in [Handlers -> HandlerStates]
    BY HandlerRecords DEF EnrollmentInit
<1>3. EnrollmentTypeOK
    BY <1>1, <1>2 DEF EnrollmentInit, EnrollmentTypeOK
<1>4. Links
    BY DEF EnrollmentInit, Links, FreshIds, SectionsKnown, Removals, OneRemoval, Removing,
           Enrolled, IsEnrollment
<1>5. Balances
    BY DEF EnrollmentInit, Balances, Balance, IsSection
<1> QED BY <1>3, <1>4, <1>5 DEF EnrollmentIInv

LEMMA EnrollmentStep == EnrollmentIInv /\ [EnrollmentNext]_enrolling => EnrollmentIInv'
<1> SUFFICES ASSUME EnrollmentIInv, [EnrollmentNext]_enrolling PROVE EnrollmentIInv'
    OBVIOUS
<1>1. ASSUME NEW status \in {"draft", "published", "deleted"}, SetCourse(status) PROVE EnrollmentIInv'
    BY <1>1, SetCourseStep
<1>2. ASSUME NEW x \in Sections, DeleteSection(x) PROVE EnrollmentIInv'
    BY <1>2, DeleteSectionStep
<1>3. ASSUME NEW x \in Sections, NEW max \in Capacities, UpdateSection(x, max) PROVE EnrollmentIInv'
    BY <1>3, UpdateSectionStep
<1>4. ASSUME NEW c \in Handlers, BeginHandler(c) PROVE EnrollmentIInv'
    BY <1>4, BeginSectionStep, BeginEnrollStep, BeginRemoveStep DEF BeginHandler
<1>5. ASSUME NEW c \in Handlers, ContinueHandler(c) PROVE EnrollmentIInv'
    BY <1>5, CreateSectionStep, CheckExistingStep, CheckSectionStep, CreateEnrollmentStep,
       CountEnrollmentStep, UncountEnrollmentStep, DeleteEnrollmentStep, HandlerFailsStep
       DEF ContinueHandler
<1>6. CASE UNCHANGED enrolling
  <2>1. UNCHANGED <<course, sections, enrollments, created, handler, failures, doubled, exempt>>
    BY <1>6 DEF enrolling
  <2>2. EnrollmentTypeOK'
    BY <2>1 DEF EnrollmentIInv, EnrollmentTypeOK
  <2>3. Links'
    BY <2>1, LinksKeep DEF EnrollmentIInv, SectionsStay
  <2>4. ASSUME NEW x \in Sections PROVE Balance(x)'
    BY <2>1, BalanceStays DEF EnrollmentIInv, Balances, Pending, Owing, Enrolled, IsEnrollment, IsSection
  <2> QED BY <2>2, <2>3, <2>4 DEF EnrollmentIInv, Balances
<1> QED BY <1>1, <1>2, <1>3, <1>4, <1>5, <1>6 DEF EnrollmentNext

LEMMA Invariant == EnrollmentSpec => []EnrollmentIInv
<1> QED BY EnrollmentInitIInv, EnrollmentStep, PTL DEF EnrollmentSpec

\* The documents and handlers keep their types.
THEOREM EnrollmentTypes == EnrollmentSpec => []EnrollmentTypeOK
<1>1. EnrollmentIInv => EnrollmentTypeOK
    BY DEF EnrollmentIInv
<1> QED BY <1>1, Invariant, PTL

\* For any number of handlers and whatever fails, no section counts a student it
\* does not have (enrollment.service.ts:57-69, 156-160).
THEOREM SectionsNeverOvercount == EnrollmentSpec => []NeverOvercounts
<1>1. EnrollmentIInv => NeverOvercounts
  <2> SUFFICES ASSUME EnrollmentIInv, NEW x \in Sections, IsSection(x)
               PROVE  sections[x].count <= Cardinality(Enrolled(x))
    BY DEF NeverOvercounts
  <2>1. Balance(x)
    BY DEF EnrollmentIInv, Balances
  <2>2. sections[x].count \in Int
    BY DEF IsSection, EnrollmentIInv, EnrollmentTypeOK, SectionDocs
  <2> QED BY <2>1, <2>2, Finite DEF Balance
<1> QED BY <1>1, Invariant, PTL

\* When all is quiet the counts are exact, but for failures and doubled removals
\* (enrollment.service.ts:57-69, 149-165).
THEOREM QuietCountsAreExact == EnrollmentSpec => []CountsEven
<1>1. EnrollmentIInv => CountsEven
  <2> SUFFICES ASSUME EnrollmentIInv, failures = 0, ~doubled, \A c \in Handlers : Resting(c),
                      NEW x \in Sections, IsSection(x)
               PROVE  sections[x].count = Cardinality(Enrolled(x))
    BY DEF CountsEven
  <2>1. Pending(x) = {}
    BY DEF Pending, Owing, Resting
  <2>2. Cardinality({}) = 0
    BY FS_EmptySet
  <2>3. sections[x].count \in Int
    BY DEF IsSection, EnrollmentIInv, EnrollmentTypeOK, SectionDocs
  <2>4. Balance(x)
    BY DEF EnrollmentIInv, Balances
  <2> QED BY <2>1, <2>2, <2>3, <2>4, Finite DEF Balance
<1> QED BY <1>1, Invariant, PTL

-----------------------------------------------------------------------------
(* Seats *)

LEMMA AdmittedFinite ==
    ASSUME NEW x
    PROVE  IsFiniteSet(Admitted(x)) /\ Cardinality(Admitted(x)) \in Nat
<1>1. IsFiniteSet(Admitted(x))
    BY Numbers, FS_Subset DEF Admitted
<1> QED BY <1>1, FS_CardinalityType

LEMMA FewerOf ==
    ASSUME NEW S, NEW T, IsFiniteSet(S), T \subseteq S
    PROVE  Cardinality(T) <= Cardinality(S) /\ Cardinality(T) \in Nat
BY FS_Subset, FS_CardinalityType

LEMMA OneMoreAtMost ==
    ASSUME NEW S, IsFiniteSet(S), NEW e
    PROVE  Cardinality(S \cup {e}) <= Cardinality(S) + 1
<1>1. Cardinality(S) \in Nat
    BY FS_CardinalityType
<1>2. CASE e \in S
  <2>1. S \cup {e} = S
    BY <1>2
  <2> QED BY <1>1, <2>1
<1>3. CASE e \notin S
    BY <1>1, <1>3, OneMore
<1> QED BY <1>2, <1>3

LEMMA BothOf ==
    ASSUME NEW S, NEW T, IsFiniteSet(S), IsFiniteSet(T), S \cap T = {}
    PROVE  Cardinality(S \cup T) = Cardinality(S) + Cardinality(T)
<1>1. Cardinality(S \cup T) = Cardinality(S) + Cardinality(T) - Cardinality(S \cap T)
    BY FS_Union
<1>2. Cardinality(S \cap T) = 0
    BY FS_EmptySet
<1>3. Cardinality(S) \in Nat /\ Cardinality(T) \in Nat
    BY FS_CardinalityType
<1> QED BY <1>1, <1>2, <1>3

LEMMA SectionNumbers ==
    ASSUME EnrollmentTypeOK
    PROVE  \A x : IsSection(x) => sections[x].count \in Int /\ sections[x].max \in Nat
BY Numbers DEF IsSection, EnrollmentTypeOK, SectionDocs

\* No student is added, none is let in, and the limit is not lowered.
LEMMA SeatsStay ==
    ASSUME EnrollmentTypeOK, EnrollmentTypeOK', NEW x \in Sections, Seated(x),
           IsSection(x)' /\ x \notin exempt' /\ sections'[x].max > 0 =>
               /\ IsSection(x) /\ x \notin exempt
               /\ sections[x].max > 0 /\ sections[x].max <= sections'[x].max,
           ~doubled' => ~doubled, failures <= failures',
           Enrolled(x)' \subseteq Enrolled(x), Admitted(x)' \subseteq Admitted(x)
    PROVE  Seated(x)'
<1> SUFFICES ASSUME ~doubled', IsSection(x)', x \notin exempt', sections'[x].max > 0
             PROVE  Cardinality(Enrolled(x)') + Cardinality(Admitted(x)')
                        < sections'[x].max + Cardinality(Handlers) + failures'
    BY DEF Seated
<1>1. /\ Cardinality(Enrolled(x)') <= Cardinality(Enrolled(x))
      /\ Cardinality(Admitted(x)') <= Cardinality(Admitted(x))
      /\ Cardinality(Enrolled(x)') \in Nat /\ Cardinality(Admitted(x)') \in Nat
      /\ Cardinality(Enrolled(x)) \in Nat /\ Cardinality(Admitted(x)) \in Nat
    BY Finite, AdmittedFinite, FewerOf
<1>2. /\ sections[x].max \in Nat /\ sections'[x].max \in Nat
      /\ failures \in Nat /\ failures' \in Nat /\ Cardinality(Handlers) \in Nat
  <2>1. sections[x].max \in Nat /\ failures \in Nat /\ Cardinality(Handlers) \in Nat
    BY Numbers, SectionNumbers, FailuresCounted, FS_CardinalityType
  <2>2. sections'[x] \in SectionDocs /\ failures' \in 0..MaxFailures
    BY DEF EnrollmentTypeOK, IsSection
  <2>3. \A d \in SectionDocs : d.max \in Nat
    BY Numbers DEF SectionDocs
  <2>4. failures' \in Nat
    BY <2>2, Numbers
  <2> QED BY <2>1, <2>2, <2>3, <2>4
<1>3. Cardinality(Enrolled(x)) + Cardinality(Admitted(x))
          < sections[x].max + Cardinality(Handlers) + failures
    BY DEF Seated
<1> QED BY <1>1, <1>2, <1>3

\* A handler that does not let a student in takes nobody's seat by moving.
LEMMA AdmittedMoves ==
    ASSUME EnrollmentTypeOK, NEW c \in Handlers, NEW k \in HandlerStates, Move(c, k), NEW x
    PROVE  /\ k.at # "create" => Admitted(x)' = Admitted(x) \ {c}
           /\ Admitted(x)' \subseteq Admitted(x) \cup {c}
           /\ k.at = "create" /\ k.section # x => Admitted(x)' \subseteq Admitted(x)
BY Moves DEF Admitted, Entering

\* A handler moves on that lets nobody in and stores no student.
LEMMA SeatedMove ==
    ASSUME EnrollmentTypeOK, EnrollmentTypeOK', NEW x \in Sections, Seated(x),
           NEW c \in Handlers, NEW k \in HandlerStates, Move(c, k),
           k.at = "create" => k.section # x,
           Enrolled(x)' \subseteq Enrolled(x), exempt' = exempt,
           IsSection(x)' => IsSection(x) /\ sections'[x].max = sections[x].max,
           ~doubled' => ~doubled, failures <= failures'
    PROVE  Seated(x)'
<1>1. Admitted(x)' \subseteq Admitted(x)
    BY AdmittedMoves
<1>2. IsSection(x) => sections[x].max \in Nat
    BY SectionNumbers
<1> QED BY <1>1, <1>2, SeatsStay

\* A student is let in: what is stored and not counted yet, what a failure left
\* uncounted and who was let in before cannot hide more than one student for each
\* handler and each failure.
LEMMA StudentLetIn ==
    ASSUME EnrollmentIInv, NEW x \in Sections, NEW c \in Handlers, NEW k \in HandlerStates,
           Move(c, k), k.at = "create", handler[c].at = "section",
           ~Full(x), UNCHANGED <<sections, enrollments, failures, doubled>>
    PROVE  Seated(x)'
<1> SUFFICES ASSUME ~doubled, IsSection(x), sections[x].max > 0
             PROVE  Cardinality(Enrolled(x)) + Cardinality(Admitted(x)')
                        < sections[x].max + Cardinality(Handlers) + failures
  <2>1. Enrolled(x)' = Enrolled(x) /\ (IsSection(x)' <=> IsSection(x))
    BY DEF Enrolled, IsEnrollment, IsSection
  <2> QED BY <2>1 DEF Seated
<1> DEFINE A == Admitted(x)'
           P == Pending(x)
<1>1. A \subseteq Handlers /\ P \subseteq Handlers /\ A \cap P = {}
  <2>1. \A d \in Handlers \ {c} : handler'[d] = handler[d]
    BY Moves DEF EnrollmentIInv
  <2>2. c \notin P
    BY DEF Pending, Owing
  <2>3. \A d \in A : handler'[d].at = "create" /\ d \in Handlers
    BY DEF Admitted, Entering
  <2>4. \A d \in P : handler[d].at # "create" /\ d \in Handlers
    BY DEF Pending, Owing
  <2> QED BY <2>1, <2>2, <2>3, <2>4
<1>2. IsFiniteSet(A) /\ IsFiniteSet(P) /\ Cardinality(Handlers) \in Nat
      /\ Cardinality(A) \in Nat /\ Cardinality(P) \in Nat
    BY <1>1, Numbers, FS_Subset, FS_CardinalityType
<1> HIDE DEF A
<1>3. Cardinality(A \cup P) = Cardinality(A) + Cardinality(P)
    BY <1>1, <1>2, BothOf
<1>4. Cardinality(A \cup P) <= Cardinality(Handlers)
    BY <1>1, Numbers, FewerOf
<1>5. sections[x].count \in Int /\ sections[x].max \in Nat /\ failures \in Nat
    BY SectionNumbers, FailuresCounted DEF EnrollmentIInv
<1>6. sections[x].count < sections[x].max
    BY <1>5 DEF Full
<1>7. Cardinality(Enrolled(x)) <= sections[x].count + Cardinality(P) + failures
    BY DEF EnrollmentIInv, Balances, Balance
<1>8. Cardinality(Enrolled(x)) \in Nat
    BY Finite
<1> QED BY <1>2, <1>3, <1>4, <1>5, <1>6, <1>7, <1>8 DEF A

\* A student who was let in is stored, or is turned away after all.
LEMMA StudentStored ==
    ASSUME EnrollmentIInv, EnrollmentIInv', NEW x \in Sections, Seated(x),
           NEW c \in Handlers, CreateEnrollment(c)
    PROVE  Seated(x)'
<1> DEFINE y == handler[c].section
           new == created + 1
           doc == [student |-> handler[c].student, section |-> y]
           k == IF EnrolledAs(handler[c].student) # {} \/ y = NoSection
                  THEN [at |-> "idle"] ELSE [handler[c] EXCEPT !.at = "count"]
<1>1. handler[c].at = "create" /\ handler[c] \in HandlerStates
    BY DEF CreateEnrollment, EnrollmentIInv, EnrollmentTypeOK
<1>2. UNCHANGED <<course, sections, failures, doubled>>
    BY DEF CreateEnrollment
<1>3. Move(c, k)
    BY DEF CreateEnrollment, Answer, Goto
<1>4. k \in HandlerStates /\ k.at # "create"
    BY <1>1, HandlerGoesOn, HandlerRecords
<1>5. IsSection(x)' <=> IsSection(x)
    BY <1>2 DEF IsSection
<1> HIDE DEF k
<1>6. CASE EnrolledAs(handler[c].student) # {}
  <2>1. UNCHANGED <<enrollments, exempt>>
    BY <1>6 DEF CreateEnrollment
  <2>2. Enrolled(x)' = Enrolled(x)
    BY <2>1 DEF Enrolled, IsEnrollment
  <2>3. failures \in Nat
    BY FailuresCounted DEF EnrollmentIInv
  <2> QED BY <1>2, <1>3, <1>4, <1>5, <2>1, <2>2, <2>3, SeatedMove DEF EnrollmentIInv
<1>7. CASE EnrolledAs(handler[c].student) = {}
  <2>1. /\ created < MaxEnrollments
        /\ enrollments' = [enrollments EXCEPT ![new] = doc]
        /\ exempt' = exempt \cup Exempted(c)
    BY <1>7 DEF CreateEnrollment
  <2>2. new \in Ids
    BY <2>1, Numbers DEF EnrollmentIInv, EnrollmentTypeOK, Ids
  <2> HIDE DEF new
  <2>3. \A i \in Ids \ {new} : enrollments'[i] = enrollments[i]
    BY <2>1, <2>2 DEF EnrollmentIInv, EnrollmentTypeOK
  <2>4. enrollments'[new] = doc
    BY <2>1, <2>2 DEF EnrollmentIInv, EnrollmentTypeOK
  <2>5. Enrolled(x)' \subseteq Enrolled(x) \cup {new}
    BY <2>3 DEF Enrolled, IsEnrollment
  <2>6. CASE y # x
    <3>1. Enrolled(x)' \subseteq Enrolled(x)
        BY <2>4, <2>5, <2>6 DEF Enrolled
    <3>2. Exempted(c) \subseteq {y}
        BY DEF Exempted
    <3>3. x \notin exempt' => x \notin exempt
        BY <2>1
    <3>4. Admitted(x)' \subseteq Admitted(x)
        BY <1>3, <1>4, AdmittedMoves DEF EnrollmentIInv
    <3>5. failures \in Nat /\ (IsSection(x) => sections[x].max \in Nat)
        BY FailuresCounted, SectionNumbers DEF EnrollmentIInv
    <3> QED BY <1>2, <1>5, <3>1, <3>3, <3>4, <3>5, SeatsStay DEF EnrollmentIInv
  <2>7. CASE y = x /\ handler[c].kind = "instructor"
    <3>1. x \in exempt'
        BY <2>1, <2>7 DEF Exempted
    <3> QED BY <3>1 DEF Seated
  <2>8. CASE y = x /\ handler[c].kind = "self"
    <3>1. c \in Admitted(x)
        BY <1>1, <2>8 DEF Admitted, Entering
    <3>2. Admitted(x)' = Admitted(x) \ {c}
        BY <1>3, <1>4, AdmittedMoves DEF EnrollmentIInv
    <3>3. Cardinality(Admitted(x)') = Cardinality(Admitted(x)) - 1
        BY <3>1, <3>2, AdmittedFinite, OneLess
    <3>4. Cardinality(Enrolled(x)') <= Cardinality(Enrolled(x)) + 1
          /\ Cardinality(Enrolled(x)') \in Nat
      <4>1. IsFiniteSet(Enrolled(x) \cup {new})
        BY Finite, FS_AddElement
      <4>2. Cardinality(Enrolled(x) \cup {new}) <= Cardinality(Enrolled(x)) + 1
        BY Finite, OneMoreAtMost
      <4>3. /\ Cardinality(Enrolled(x)') <= Cardinality(Enrolled(x) \cup {new})
            /\ Cardinality(Enrolled(x)') \in Nat
        BY <2>5, <4>1, FewerOf
      <4>4. /\ Cardinality(Enrolled(x) \cup {new}) \in Nat
            /\ Cardinality(Enrolled(x)) \in Nat
        BY <4>1, Finite, FS_CardinalityType
      <4> QED BY <4>2, <4>3, <4>4
    <3>5. /\ Cardinality(Enrolled(x)) \in Nat /\ Cardinality(Admitted(x)) \in Nat
          /\ Cardinality(Handlers) \in Nat /\ failures \in Nat
          /\ IsSection(x) => sections[x].max \in Nat
        BY Finite, AdmittedFinite, Numbers, FS_CardinalityType, FailuresCounted, SectionNumbers
           DEF EnrollmentIInv
    <3> SUFFICES ASSUME ~doubled, IsSection(x), x \notin exempt', sections[x].max > 0
                 PROVE  Cardinality(Enrolled(x)') + Cardinality(Admitted(x)')
                            < sections[x].max + Cardinality(Handlers) + failures
        BY <1>2, <1>5 DEF Seated
    <3>6. x \notin exempt
        BY <2>1
    <3>7. Cardinality(Enrolled(x)) + Cardinality(Admitted(x))
              < sections[x].max + Cardinality(Handlers) + failures
        BY <3>6 DEF Seated
    <3> QED BY <3>3, <3>4, <3>5, <3>7
  <2>9. handler[c].kind \in {"self", "instructor"}
    BY <1>1 DEF HandlerStates
  <2> QED BY <2>6, <2>7, <2>8, <2>9
<1> QED BY <1>6, <1>7

LEMMA NobodySeatedYet ==
    ASSUME EnrollmentIInv, EnrollmentIInv', NEW x \in Sections, Seated(x),
           NEW c \in Handlers, CreateSection(c)
    PROVE  Seated(x)'
<1> DEFINE y == handler[c].section
           doc == [max |-> handler[c].max, count |-> 0]
           k == [at |-> "idle"]
<1>1. /\ handler[c].at = "new_section" /\ y \in Sections /\ handler[c].max \in Capacities
      /\ UNCHANGED <<course, enrollments, created, failures, doubled, exempt>>
    BY HandlerFields DEF CreateSection, EnrollmentIInv, EnrollmentTypeOK
<1>2. k \in HandlerStates /\ k.at # "create" /\ Move(c, k)
    BY HandlerRecords DEF CreateSection, Answer
<1> HIDE DEF k
<1>3. Enrolled(x)' = Enrolled(x)
    BY <1>1 DEF Enrolled, IsEnrollment
<1>4. failures \in Nat
    BY FailuresCounted DEF EnrollmentIInv
<1>5. CASE sections'[x] = sections[x]
    BY <1>1, <1>2, <1>3, <1>4, <1>5, SeatedMove DEF EnrollmentIInv, IsSection
<1>6. CASE sections'[x] # sections[x]
  <2>1. sections[x] = None
    BY <1>1, <1>6 DEF CreateSection, EnrollmentIInv, EnrollmentTypeOK
  <2>2. Enrolled(x) = {} /\ Admitted(x) = {}
    BY <2>1 DEF EnrollmentIInv, Links, SectionsKnown, Admitted, Entering
  <2>3. Admitted(x)' = {}
    BY <1>2, <2>2, AdmittedMoves DEF EnrollmentIInv
  <2>4. Cardinality({}) = 0
    BY FS_EmptySet
  <2>5. Cardinality(Handlers) \in Nat /\ Cardinality(Handlers) > 0
    BY Numbers, FS_EmptySet, FS_CardinalityType
  <2>6. IsSection(x)' => sections'[x].max \in Nat
    <3>1. IsSection(x)' => sections'[x] \in SectionDocs
        BY DEF EnrollmentIInv, EnrollmentTypeOK, IsSection
    <3> QED BY <3>1, Numbers DEF SectionDocs
  <2>7. Cardinality(Enrolled(x))' = 0 /\ Cardinality(Admitted(x))' = 0
    BY <1>3, <2>2, <2>3, <2>4
  <2> QED BY <1>1, <1>4, <2>5, <2>6, <2>7 DEF Seated
<1> QED BY <1>5, <1>6

\* The other steps of a handler let nobody in.
LEMMA SeatedContinue ==
    ASSUME EnrollmentIInv, EnrollmentIInv', NEW x \in Sections, Seated(x),
           NEW c \in Handlers, ContinueHandler(c)
    PROVE  Seated(x)'
<1> DEFINE idle == [at |-> "idle"]
<1>1. /\ idle \in HandlerStates /\ idle.at = "idle" /\ (Answer(c) => Move(c, idle))
      /\ handler[c] \in HandlerStates /\ failures \in Nat
    BY HandlerRecords, FailuresCounted DEF Answer, EnrollmentIInv, EnrollmentTypeOK
<1> HIDE DEF idle
<1>2. ASSUME NEW k \in HandlerStates, Move(c, k), k.at = "create" => k.section # x,
             Enrolled(x)' \subseteq Enrolled(x), UNCHANGED <<exempt, doubled>>,
             IsSection(x)' => IsSection(x) /\ sections'[x].max = sections[x].max,
             failures <= failures'
      PROVE  Seated(x)'
    BY <1>2, SeatedMove DEF EnrollmentIInv
<1>3. ASSUME NEW k \in HandlerStates, Move(c, k), k.at = "create" => k.section # x,
             UNCHANGED <<sections, enrollments, failures, exempt, doubled>>
      PROVE  Seated(x)'
    BY <1>1, <1>2, <1>3 DEF Enrolled, IsEnrollment, IsSection
<1>4. CASE CheckExisting(c)
  <2>1. CASE Answer(c)
    BY <1>1, <1>3, <1>4, <2>1 DEF CheckExisting
  <2>2. CASE ~Answer(c)
    <3> DEFINE place == IF handler[c].section = NoSection THEN "create" ELSE "section"
               k == [handler[c] EXCEPT !.at = place]
    <3>1. k \in HandlerStates /\ k.at = place /\ k.section = handler[c].section
        BY <1>1, <1>4, HandlerGoesOn DEF CheckExisting
    <3>2. Move(c, k)
        BY <1>4, <2>2 DEF CheckExisting, Goto
    <3>3. k.at = "create" => k.section # x
        BY <3>1, Numbers
    <3> HIDE DEF k
    <3> QED BY <1>3, <1>4, <3>1, <3>2, <3>3 DEF CheckExisting
  <2> QED BY <2>1, <2>2
<1>5. CASE CheckSection(c)
  <2> DEFINE y == handler[c].section
             k == [handler[c] EXCEPT !.at = "create"]
  <2>1. CASE ~IsSection(y) \/ (handler[c].kind = "self" /\ Full(y))
    BY <1>1, <1>3, <1>5, <2>1 DEF CheckSection
  <2>2. CASE IsSection(y) /\ ~(handler[c].kind = "self" /\ Full(y))
    <3>1. /\ k \in HandlerStates /\ k.at = "create" /\ k.section = y /\ handler[c].at = "section"
        BY <1>1, <1>5, HandlerGoesOn DEF CheckSection
    <3>2. Move(c, k) /\ UNCHANGED <<course, sections, enrollments, created, failures, doubled, exempt>>
        BY <1>5, <2>2 DEF CheckSection, Goto
    <3>3. k.kind = handler[c].kind
        BY <1>1, <1>5 DEF CheckSection, HandlerStates
    <3> HIDE DEF k
    <3>4. CASE y = x /\ handler[c].kind = "self"
        BY <2>2, <3>1, <3>2, <3>4, StudentLetIn
    <3>5. CASE y # x
        BY <1>3, <3>1, <3>2, <3>5
    <3>6. CASE handler[c].kind # "self"
      <4>1. handler'[c] = k /\ \A d \in Handlers \ {c} : handler'[d] = handler[d]
        BY <3>1, <3>2, Moves DEF EnrollmentIInv
      <4>2. Admitted(x)' \subseteq Admitted(x)
        BY <3>3, <3>6, <4>1 DEF Admitted, Entering
      <4>3. IsSection(x) => sections[x].max \in Nat
        BY SectionNumbers DEF EnrollmentIInv
      <4>4. Enrolled(x)' = Enrolled(x) /\ (IsSection(x)' => IsSection(x))
        BY <3>2 DEF Enrolled, IsEnrollment, IsSection
      <4> QED BY <1>1, <3>2, <4>2, <4>3, <4>4, SeatsStay DEF EnrollmentIInv
    <3> QED BY <3>4, <3>5, <3>6
  <2> QED BY <2>1, <2>2
<1>6. ASSUME NEW n \in Int, AddToCount(handler[c].section, n)
      PROVE  IsSection(x)' => IsSection(x) /\ sections'[x].max = sections[x].max
    BY <1>6, CountKeepsLimit DEF EnrollmentIInv
<1>7. CASE CountEnrollment(c)
    BY <1>1, <1>2, <1>6, <1>7 DEF CountEnrollment, Enrolled, IsEnrollment
<1>8. CASE UncountEnrollment(c)
  <2> DEFINE k == [handler[c] EXCEPT !.at = "delete"]
  <2>1. k \in HandlerStates /\ k.at = "delete" /\ Move(c, k)
    BY <1>1, <1>8, HandlerGoesOn DEF UncountEnrollment, Goto
  <2> HIDE DEF k
  <2>2. -1 \in Int
    OBVIOUS
  <2> QED BY <1>1, <1>2, <1>6, <1>8, <2>1, <2>2 DEF UncountEnrollment, Enrolled, IsEnrollment
<1>9. CASE DeleteEnrollment(c)
  <2>1. Answer(c) /\ UNCHANGED <<sections, failures, doubled, exempt>>
        /\ enrollments' = [enrollments EXCEPT ![handler[c].id] = Gone]
    BY <1>9 DEF DeleteEnrollment
  <2>2. \A i \in Ids : enrollments'[i] = Gone \/ enrollments'[i] = enrollments[i]
    BY <2>1 DEF EnrollmentIInv, EnrollmentTypeOK
  <2>3. Enrolled(x)' \subseteq Enrolled(x)
    BY <2>2 DEF Enrolled, IsEnrollment
  <2> QED BY <1>1, <1>2, <2>1, <2>3 DEF IsSection
<1>10. CASE HandlerFails(c)
    BY <1>1, <1>2, <1>10 DEF HandlerFails, Enrolled, IsEnrollment, IsSection
<1> QED BY <1>4, <1>5, <1>7, <1>8, <1>9, <1>10, NobodySeatedYet, StudentStored DEF ContinueHandler

LEMMA SeatedBegin ==
    ASSUME EnrollmentIInv, EnrollmentIInv', NEW x \in Sections, Seated(x),
           NEW c \in Handlers, BeginHandler(c)
    PROVE  Seated(x)'
<1>1. failures \in Nat
    BY FailuresCounted DEF EnrollmentIInv
<1>2. UNCHANGED <<sections, enrollments, failures, exempt>>
    BY DEF BeginHandler, BeginSection, BeginEnroll, BeginRemove
<1>3. ~doubled' => ~doubled
    BY Zenon DEF BeginHandler, BeginSection, BeginEnroll, BeginRemove
<1>4. \E k \in HandlerStates : k.at # "create" /\ Move(c, k)
  <2>1. ASSUME NEW y \in Sections, NEW max \in Capacities, BeginSection(c, y, max)
        PROVE  \E k \in HandlerStates : k.at # "create" /\ Move(c, k)
    BY <2>1, HandlerRecords DEF BeginSection
  <2>2. ASSUME NEW kind \in {"self", "instructor"}, NEW s \in Students,
               NEW y \in Sections \cup {NoSection}, BeginEnroll(c, kind, s, y)
        PROVE  \E k \in HandlerStates : k.at # "create" /\ Move(c, k)
    BY <2>2, HandlerRecords DEF BeginEnroll
  <2>3. ASSUME NEW i \in Ids, BeginRemove(c, i)
        PROVE  \E k \in HandlerStates : k.at # "create" /\ Move(c, k)
    <3> DEFINE at == IF enrollments[i].section = NoSection THEN "delete" ELSE "uncount"
               k == [at |-> at, id |-> i, section |-> enrollments[i].section]
    <3>1. enrollments[i] \in EnrollmentDocs
        BY <2>3 DEF BeginRemove, IsEnrollment, EnrollmentIInv, EnrollmentTypeOK
    <3>2. enrollments[i].section \in Sections \cup {NoSection}
        BY <3>1 DEF EnrollmentDocs
    <3>3. k \in HandlerStates /\ k.at # "create"
        BY <3>2, HandlerRecords
    <3> QED BY <2>3, <3>3 DEF BeginRemove
  <2> QED BY <2>1, <2>2, <2>3 DEF BeginHandler
<1>5. Enrolled(x)' = Enrolled(x) /\ (IsSection(x)' => IsSection(x))
    BY <1>2 DEF Enrolled, IsEnrollment, IsSection
<1> QED BY <1>1, <1>2, <1>4, <1>5, <1>3, SeatedMove DEF EnrollmentIInv

LEMMA SeatedStep ==
    ASSUME EnrollmentIInv, EnrollmentIInv', [EnrollmentNext]_enrolling,
           NEW x \in Sections, Seated(x)
    PROVE  Seated(x)'
<1>1. failures \in Nat /\ (IsSection(x) => sections[x].max \in Nat)
    BY FailuresCounted, SectionNumbers DEF EnrollmentIInv
<1>2. ASSUME UNCHANGED <<enrollments, handler, failures, doubled>>,
             IsSection(x)' /\ x \notin exempt' /\ sections'[x].max > 0 =>
               /\ IsSection(x) /\ x \notin exempt
               /\ sections[x].max > 0 /\ sections[x].max <= sections'[x].max
      PROVE  Seated(x)'
  <2>1. Enrolled(x)' = Enrolled(x) /\ Admitted(x)' = Admitted(x)
    BY <1>2 DEF Enrolled, IsEnrollment, Admitted, Entering
  <2> QED BY <1>1, <1>2, <2>1, SeatsStay DEF EnrollmentIInv
<1>3. ASSUME NEW status \in {"draft", "published", "deleted"}, SetCourse(status)
      PROVE  Seated(x)'
    BY <1>1, <1>2, <1>3 DEF SetCourse, IsSection
<1>4. ASSUME NEW y \in Sections, DeleteSection(y)
      PROVE  Seated(x)'
  <2>1. sections'[x] = Gone \/ sections'[x] = sections[x]
    BY <1>4 DEF DeleteSection, EnrollmentIInv, EnrollmentTypeOK
  <2> QED BY <1>1, <1>2, <1>4, <2>1 DEF DeleteSection, IsSection
<1>5. ASSUME NEW y \in Sections, NEW max \in Capacities, UpdateSection(y, max)
      PROVE  Seated(x)'
  <2>1. CASE y # x
    <3>1. sections'[x] = sections[x]
        BY <1>5, <2>1 DEF UpdateSection, EnrollmentIInv, EnrollmentTypeOK
    <3>2. UNCHANGED <<enrollments, handler, failures, doubled>> /\ exempt \subseteq exempt'
        BY <1>5 DEF UpdateSection
    <3>3. IsSection(x)' => IsSection(x) /\ sections'[x].max = sections[x].max
        BY <3>1 DEF IsSection
    <3> QED BY <1>1, <1>2, <3>2, <3>3
  <2>2. CASE y = x
    <3>1. IsSection(x) /\ sections[x] \in SectionDocs /\ max \in Nat
        BY <1>5, <2>2, Numbers DEF UpdateSection, IsSection, EnrollmentIInv, EnrollmentTypeOK
    <3>2. sections'[x].max = max
        BY <1>5, <2>2, <3>1 DEF UpdateSection, EnrollmentIInv, EnrollmentTypeOK, SectionDocs
    <3>3. x \notin exempt' => x \notin exempt /\ ~Lowers(x, max)
        BY <1>5, <2>2 DEF UpdateSection
    <3> QED BY <1>1, <1>2, <1>5, <3>1, <3>2, <3>3 DEF UpdateSection, Lowers
  <2> QED BY <2>1, <2>2
<1>6. CASE UNCHANGED enrolling
    BY <1>1, <1>2, <1>6 DEF enrolling, IsSection
<1> QED BY <1>3, <1>4, <1>5, <1>6, SeatedBegin, SeatedContinue DEF EnrollmentNext

\* The seats of a section are oversold by at most one student for each other handler
\* and each failed command, for any number of handlers, students and sections
\* (enrollment.service.ts:51, 57-69, 156-160).
THEOREM SeatsAreHeld == EnrollmentSpec => []SeatsHold
<1> DEFINE Seating == \A x \in Sections : Seated(x)
<1>1. EnrollmentInit => Seating
    BY DEF EnrollmentInit, Seated, IsSection
<1>2. EnrollmentIInv /\ EnrollmentIInv' /\ Seating /\ [EnrollmentNext]_enrolling => Seating'
    BY SeatedStep
<1>3. EnrollmentIInv /\ Seating => SeatsHold
  <2> SUFFICES ASSUME EnrollmentIInv, ~doubled, NEW x \in Sections \ exempt, Seated(x),
                      IsSection(x), sections[x].max > 0
               PROVE  Cardinality(Enrolled(x))
                          < sections[x].max + Cardinality(Handlers) + failures
    BY DEF SeatsHold
  <2>1. Cardinality(Enrolled(x)) + Cardinality(Admitted(x))
            < sections[x].max + Cardinality(Handlers) + failures
    BY DEF Seated
  <2>2. /\ Cardinality(Enrolled(x)) \in Nat /\ Cardinality(Admitted(x)) \in Nat
        /\ sections[x].max \in Nat /\ Cardinality(Handlers) \in Nat /\ failures \in Nat
    BY Finite, AdmittedFinite, SectionNumbers, FailuresCounted, Numbers, FS_CardinalityType
       DEF EnrollmentIInv
  <2> QED BY <2>1, <2>2
<1> QED BY <1>1, <1>2, <1>3, Invariant, PTL DEF EnrollmentSpec

-----------------------------------------------------------------------------
(* Prerequisites *)

\* As long as no course was respelled, what is named now is named in one way.
NamesKept == respelled \/ Alike(Named)

IInv == TypeOK /\ NamesKept /\ SearchIsClosed /\ AcyclicUnlessCrossed

\* A call record at "search" has the fields of a search.
LEMMA SearchFields ==
    ASSUME TypeOK, NEW c \in Calls, Searching(c)
    PROVE  /\ call[c].course \in Spellings /\ call[c].pre \in Spellings
           /\ call[c].visited \in SUBSET Spellings /\ call[c].stack \in SUBSET Spellings
    BY DEF TypeOK, CallStates, Searching

LEMMA InitIInv == Init => IInv
<1> SUFFICES ASSUME Init
             PROVE  IInv
    OBVIOUS
<1>1. TypeOK
    <2>1. [at |-> "idle"] \in CallStates
        BY DEF CallStates
    <2> QED
        BY <2>1 DEF Init, TypeOK
<1>2. SearchIsClosed
    BY DEF Init, SearchIsClosed, Searching
<1>3. Acyclic
    BY DEF Init, Acyclic, Behind
<1>4. NamesKept
    <2>1. Named = {}
        BY DEF Init, Named, NamedBy
    <2> QED
        BY <2>1 DEF NamesKept, Alike
<1> QED
    BY <1>1, <1>2, <1>3, <1>4 DEF IInv, AcyclicUnlessCrossed

\* The course of a spelling.
LEMMA CourseOfType ==
    \A i \in Spellings : CourseOf[i] \in Courses
BY SpellingsAssumption

\* Writing an edge to a set closed under prerequisites that does not hold the
\* course makes no cycle.
LEMMA NewEdge ==
    ASSUME Acyclic, NEW owner \in Courses, NEW pre, NEW closed \in SUBSET Courses,
           owner \notin closed, pre \in closed,
           \A x \in closed : Behind(x) \subseteq closed,
           \A x \in Courses : Behind(x)' \subseteq Behind(x) \cup {pre},
           \A x \in Courses : x # owner => Behind(x)' = Behind(x)
    PROVE  Acyclic'
<1> SUFFICES ASSUME NEW S \in SUBSET Courses, S # {},
                    \A x \in S : Behind(x)' \cap S # {}
             PROVE  FALSE
    BY DEF Acyclic
<1>1. \A x \in S : x # owner => Behind(x) \cap S # {}
    OBVIOUS
<1>2. CASE S \cap closed = {}
    <2>1. \A x \in S : Behind(x) \cap S # {}
        BY <1>2
    <2> QED
        BY <2>1 DEF Acyclic
<1>3. CASE S \cap closed # {}
    <2>1. \A x \in S \cap closed : Behind(x) \cap (S \cap closed) # {}
        BY <1>1
    <2> QED
        BY <1>3, <2>1 DEF Acyclic
<1> QED
    BY <1>2, <1>3

\* Taking prerequisites away makes no cycle.
LEMMA FewerEdges ==
    ASSUME Acyclic, \A x \in Courses : prereqs'[x] \subseteq prereqs[x]
    PROVE  Acyclic'
<1> SUFFICES ASSUME NEW S \in SUBSET Courses, S # {}
             PROVE  \E x \in S : Behind(x)' \cap S = {}
    BY DEF Acyclic
<1>1. PICK x \in S : Behind(x) \cap S = {}
    BY DEF Acyclic
<1>2. Behind(x)' \subseteq Behind(x)
    BY DEF Behind
<1> QED
    BY <1>1, <1>2

LEMMA TypeStep ==
    ASSUME TypeOK, [Next]_vars
    PROVE  TypeOK'
<1> USE DEF TypeOK
<1>1. CASE UNCHANGED vars
    BY <1>1 DEF vars
<1>2. ASSUME NEW x \in Courses, CreateCourse(x)
      PROVE  TypeOK'
    BY <1>2 DEF CreateCourse, history
<1>3. ASSUME NEW x \in Courses, DeleteCourse(x)
      PROVE  TypeOK'
    BY <1>3 DEF DeleteCourse, Live, history
<1>4. ASSUME NEW x \in Courses, NEW pre \in Spellings, RemovePrerequisite(x, pre)
      PROVE  TypeOK'
    BY <1>4 DEF RemovePrerequisite, history
<1>5. ASSUME NEW c \in Calls, NEW x \in Spellings, NEW pre \in Spellings, BeginAdd(c, x, pre)
      PROVE  TypeOK'
    <2>1. [at |-> "read", course |-> x, pre |-> pre] \in CallStates
        BY DEF CallStates
    <2> QED
        BY <1>5, <2>1 DEF BeginAdd, Become
<1>6. ASSUME NEW c \in Calls, ReadPrerequisite(c)
      PROVE  TypeOK'
    <2>1. call[c].course \in Spellings /\ call[c].pre \in Spellings
        BY <1>6 DEF ReadPrerequisite, CallStates
    <2>2. [at |-> "search", course |-> call[c].course, pre |-> call[c].pre,
           visited |-> {}, stack |-> {call[c].pre}] \in CallStates
        BY <2>1 DEF CallStates
    <2>3. [at |-> "idle"] \in CallStates
        BY DEF CallStates
    <2> QED
        BY <1>6, <2>2, <2>3 DEF ReadPrerequisite, Become, Return, history
<1>7. ASSUME NEW c \in Calls, NEW x \in Spellings, Visit(c, x)
      PROVE  TypeOK'
    <2> DEFINE visited == call[c].visited \cup {x}
    <2>0. prereqs[CourseOf[x]] \in SUBSET Spellings
        BY CourseOfType
    <2>1. visited \in SUBSET Spellings
          /\ (call[c].stack \cup prereqs[CourseOf[x]]) \ visited \in SUBSET Spellings
        BY <1>7, <2>0, SearchFields DEF Visit
    <2>2. [call[c] EXCEPT !.visited = visited,
                          !.stack = (@ \cup prereqs[CourseOf[x]]) \ visited] \in CallStates
        BY <1>7, <2>1 DEF Visit, Searching, CallStates
    <2>3. [at |-> "idle"] \in CallStates
        BY DEF CallStates
    <2> QED
        BY <1>7, <2>2, <2>3 DEF Visit, Become, Return, history
<1>8. ASSUME NEW c \in Calls, WritePrerequisite(c)
      PROVE  TypeOK'
    <2>1. [at |-> "idle"] \in CallStates
        BY DEF CallStates
    <2>2. call[c].course \in Spellings /\ call[c].pre \in Spellings
        BY <1>8, SearchFields DEF WritePrerequisite
    <2>3. prereqs' \in [Courses -> SUBSET Spellings]
        BY <1>8, <2>2, CourseOfType DEF WritePrerequisite
    <2> QED
        BY <1>8, <2>1, <2>3 DEF WritePrerequisite, Become, Return
<1>9. ASSUME NEW c \in Calls, CommandFails(c)
      PROVE  TypeOK'
    <2>1. [at |-> "idle"] \in CallStates
        BY DEF CallStates
    <2> QED
        BY <1>9, <2>1 DEF CommandFails, Become, Return, history
<1> QED
    BY <1>1, <1>2, <1>3, <1>4, <1>5, <1>6, <1>7, <1>8, <1>9 DEF Next, Continue

\* The search of a handler that does not move stays closed when prerequisites
\* only go.
LEMMA SearchKept ==
    ASSUME TypeOK, SearchIsClosed, UNCHANGED <<call, crossed>>,
           \A x \in Courses : prereqs'[x] \subseteq prereqs[x]
    PROVE  SearchIsClosed'
<1> SUFFICES ASSUME ~crossed, NEW c \in Calls, Searching(c)
             PROVE  \A x \in call[c].visited :
                        prereqs'[CourseOf[x]] \subseteq call[c].visited \cup call[c].stack
    BY DEF SearchIsClosed, Searching
<1>1. \A x \in call[c].visited : CourseOf[x] \in Courses
    BY SearchFields, CourseOfType
<1> QED
    BY <1>1 DEF SearchIsClosed

\* The same when one handler moves, its own search is closed after the step, and
\* no prerequisite is written.
LEMMA SearchMoves ==
    ASSUME TypeOK, SearchIsClosed, NEW c \in Calls, NEW state,
           call' = [call EXCEPT ![c] = state], UNCHANGED <<prereqs, crossed>>,
           ~crossed /\ state.at = "search" =>
               /\ state.course \notin state.visited
               /\ state.pre \in state.visited \cup state.stack
               /\ \A x \in state.visited :
                      prereqs[CourseOf[x]] \subseteq state.visited \cup state.stack
    PROVE  SearchIsClosed'
<1> SUFFICES ASSUME ~crossed, NEW d \in Calls, Searching(d)'
             PROVE  (/\ call[d].course \notin call[d].visited
                     /\ call[d].pre \in call[d].visited \cup call[d].stack
                     /\ \A x \in call[d].visited :
                          prereqs[CourseOf[x]] \subseteq call[d].visited \cup call[d].stack)'
    BY DEF SearchIsClosed
<1>1. CASE d = c
    <2>1. call'[d] = state
        BY <1>1 DEF TypeOK
    <2> QED
        BY <2>1 DEF Searching
<1>2. CASE d # c
    <2>1. call'[d] = call[d]
        BY <1>2 DEF TypeOK
    <2> QED
        BY <2>1 DEF SearchIsClosed, Searching
<1> QED
    BY <1>1, <1>2

LEMMA SearchStep ==
    ASSUME TypeOK, SearchIsClosed, [Next]_vars
    PROVE  SearchIsClosed'
<1>1. CASE UNCHANGED vars
    BY <1>1, SearchKept DEF vars
<1>2. ASSUME NEW x \in Courses, CreateCourse(x)
      PROVE  SearchIsClosed'
    BY <1>2, SearchKept DEF CreateCourse, history
<1>3. ASSUME NEW x \in Courses, DeleteCourse(x)
      PROVE  SearchIsClosed'
    <2>1. \A y \in Courses : prereqs'[y] \subseteq prereqs[y]
        BY <1>3 DEF DeleteCourse, TypeOK
    <2> QED
        BY <1>3, <2>1, SearchKept DEF DeleteCourse, history
<1>4. ASSUME NEW x \in Courses, NEW pre \in Spellings, RemovePrerequisite(x, pre)
      PROVE  SearchIsClosed'
    <2>1. \A y \in Courses : prereqs'[y] \subseteq prereqs[y]
        BY <1>4 DEF RemovePrerequisite, TypeOK
    <2> QED
        BY <1>4, <2>1, SearchKept DEF RemovePrerequisite, history
<1>5. ASSUME NEW c \in Calls, NEW x \in Spellings, NEW pre \in Spellings, BeginAdd(c, x, pre)
      PROVE  SearchIsClosed'
    BY <1>5, SearchMoves DEF BeginAdd, Become
<1>6. ASSUME NEW c \in Calls, ReadPrerequisite(c)
      PROVE  SearchIsClosed'
    BY <1>6, SearchMoves DEF ReadPrerequisite, Become, Return, history
<1>7. ASSUME NEW c \in Calls, NEW x \in Spellings, Visit(c, x)
      PROVE  SearchIsClosed'
    <2>1. CASE x = call[c].course
        BY <1>7, <2>1, SearchMoves DEF Visit, Become, Return, history
    <2>2. CASE x # call[c].course
        <3> DEFINE visited == call[c].visited \cup {x}
                   state == [call[c] EXCEPT !.visited = visited,
                                 !.stack = (@ \cup prereqs[CourseOf[x]]) \ visited]
        <3>1. /\ state.course = call[c].course /\ state.pre = call[c].pre
              /\ state.visited = visited
              /\ state.stack = (call[c].stack \cup prereqs[CourseOf[x]]) \ visited
            BY <1>7 DEF Visit, Searching, TypeOK, CallStates
        <3>2. call' = [call EXCEPT ![c] = state] /\ UNCHANGED <<prereqs, crossed>>
            BY <1>7, <2>2 DEF Visit, Become, history
        <3>3. ASSUME ~crossed
              PROVE  /\ state.course \notin state.visited
                     /\ state.pre \in state.visited \cup state.stack
                     /\ \A y \in state.visited :
                            prereqs[CourseOf[y]] \subseteq state.visited \cup state.stack
            <4> HIDE DEF state
            <4>1. /\ call[c].course \notin call[c].visited
                  /\ call[c].pre \in call[c].visited \cup call[c].stack
                  /\ \A y \in call[c].visited :
                        prereqs[CourseOf[y]] \subseteq call[c].visited \cup call[c].stack
                BY <1>7, <3>3 DEF SearchIsClosed, Visit
            <4> QED
                BY <2>2, <3>1, <4>1
        <3> HIDE DEF state
        <3> QED
            BY <3>2, <3>3, SearchMoves
    <2> QED
        BY <2>1, <2>2
<1>8. ASSUME NEW c \in Calls, WritePrerequisite(c)
      PROVE  SearchIsClosed'
    <2> SUFFICES ASSUME ~crossed', NEW d \in Calls, Searching(d)'
                 PROVE  FALSE
        BY DEF SearchIsClosed
    <2> QED
        BY <1>8 DEF WritePrerequisite, Return, Become, Searching, TypeOK
<1>9. ASSUME NEW c \in Calls, CommandFails(c)
      PROVE  SearchIsClosed'
    BY <1>9, SearchMoves DEF CommandFails, Become, Return, history
<1> QED
    BY <1>1, <1>2, <1>3, <1>4, <1>5, <1>6, <1>7, <1>8, <1>9 DEF Next, Continue

\* What is named: a prerequisite of a document, or what a handler has in hand.
LEMMA InNamed ==
    \A i : i \in Named <=> \/ \E x \in Courses : i \in prereqs[x]
                          \/ \E c \in Calls : i \in NamedBy(call[c])
<1> TAKE i
<1>1. i \in UNION {prereqs[x] : x \in Courses} <=> \E x \in Courses : i \in prereqs[x]
    BY Zenon
<1>2. i \in UNION {NamedBy(call[c]) : c \in Calls}
        <=> \E c \in Calls : i \in NamedBy(call[c])
    BY Zenon
<1> QED
    BY <1>1, <1>2, Zenon DEF Named

LEMMA InNamedNext ==
    \A i : i \in Named' <=> \/ \E x \in Courses : i \in prereqs'[x]
                           \/ \E c \in Calls : i \in NamedBy(call[c])'
<1> TAKE i
<1>1. i \in UNION {prereqs'[x] : x \in Courses} <=> \E x \in Courses : i \in prereqs'[x]
    BY Zenon
<1>2. i \in UNION {NamedBy(call[c])' : c \in Calls}
        <=> \E c \in Calls : i \in NamedBy(call[c])'
    BY Zenon
<1> QED
    BY <1>1, <1>2, Zenon DEF Named

\* Only a new addPrerequisite brings spellings that were not there.
LEMMA NamesStay ==
    ASSUME NamesKept, respelled => respelled', respelled' \/ Named' \subseteq Named
    PROVE  NamesKept'
BY DEF NamesKept, Alike

\* A handler moves on with no more spellings than there were.
LEMMA NamesMove ==
    ASSUME TypeOK, NEW c \in Calls, NEW k, call' = [call EXCEPT ![c] = k],
           NamedBy(k) \subseteq Named,
           \A x \in Courses : prereqs'[x] \subseteq Named
    PROVE  Named' \subseteq Named
<1> SUFFICES ASSUME NEW i \in Named' PROVE i \in Named
    OBVIOUS
<1>1. CASE \E x \in Courses : i \in prereqs'[x]
    BY <1>1
<1>2. CASE \E d \in Calls : i \in NamedBy(call[d])'
    <2>1. PICK d \in Calls : i \in NamedBy(call[d])'
        BY <1>2
    <2>2. CASE d = c
        <3>1. NamedBy(call[d])' = NamedBy(k)
            BY <2>2 DEF TypeOK, NamedBy
        <3> QED
            BY <2>1, <3>1
    <2>3. CASE d # c
        <3>1. NamedBy(call[d])' = NamedBy(call[d])
            BY <2>3 DEF TypeOK, NamedBy
        <3> QED
            BY <2>1, <3>1, InNamed
    <2> QED
        BY <2>2, <2>3
<1> QED
    BY <1>1, <1>2, InNamedNext

LEMMA NamedNow ==
    /\ \A c \in Calls : NamedBy(call[c]) \subseteq Named
    /\ \A x \in Courses : prereqs[x] \subseteq Named
BY InNamed

LEMMA NamesStep ==
    ASSUME TypeOK, NamesKept, [Next]_vars
    PROVE  NamesKept'
<1>1. NamedBy([at |-> "idle"]) = {}
    BY DEF NamedBy
<1>2. ASSUME NEW c \in Calls, Return(c), UNCHANGED <<prereqs, respelled>>
      PROVE  NamesKept'
    BY <1>1, <1>2, NamedNow, NamesMove, NamesStay DEF Return, Become
<1>3. ASSUME UNCHANGED <<call, respelled>>,
             \A x \in Courses : prereqs'[x] \subseteq prereqs[x]
      PROVE  NamesKept'
    <2>1. Named' \subseteq Named
        <3>1. \A c \in Calls : NamedBy(call[c])' = NamedBy(call[c])
            BY <1>3 DEF NamedBy
        <3> QED
            BY <1>3, <3>1, InNamed, InNamedNext
    <2> QED
        BY <1>3, <2>1, NamesStay
<1>4. CASE UNCHANGED vars
    BY <1>3, <1>4 DEF vars
<1>5. ASSUME NEW x \in Courses, CreateCourse(x)
      PROVE  NamesKept'
    BY <1>3, <1>5 DEF CreateCourse, history
<1>6. ASSUME NEW x \in Courses, DeleteCourse(x)
      PROVE  NamesKept'
    BY <1>3, <1>6 DEF DeleteCourse, TypeOK, history
<1>7. ASSUME NEW x \in Courses, NEW pre \in Spellings, RemovePrerequisite(x, pre)
      PROVE  NamesKept'
    BY <1>3, <1>7 DEF RemovePrerequisite, TypeOK, history
<1>8. ASSUME NEW c \in Calls, NEW x \in Spellings, NEW pre \in Spellings, BeginAdd(c, x, pre)
      PROVE  NamesKept'
    <2> DEFINE k == [at |-> "read", course |-> x, pre |-> pre]
    <2>1. call' = [call EXCEPT ![c] = k] /\ UNCHANGED prereqs
        BY <1>8 DEF BeginAdd, Become
    <2>2. NamedBy(k) = {x, pre}
        BY DEF NamedBy
    <2> HIDE DEF k
    <2>3. Named' \subseteq Named \cup {x, pre}
        <3> SUFFICES ASSUME NEW i \in Named' PROVE i \in Named \cup {x, pre}
            OBVIOUS
        <3>1. CASE \E y \in Courses : i \in prereqs'[y]
            BY <2>1, <3>1, InNamed
        <3>2. ASSUME NEW d \in Calls, i \in NamedBy(call[d])'
              PROVE  i \in Named \cup {x, pre}
            <4>1. CASE d = c
                <5>1. NamedBy(call[d])' = NamedBy(k)
                    BY <2>1, <4>1 DEF TypeOK, NamedBy
                <5> QED
                    BY <2>2, <3>2, <5>1
            <4>2. CASE d # c
                <5>1. NamedBy(call[d])' = NamedBy(call[d])
                    BY <2>1, <4>2 DEF TypeOK, NamedBy
                <5> QED
                    BY <3>2, <5>1, InNamed
            <4> QED
                BY <4>1, <4>2
        <3> QED
            BY <3>1, <3>2, InNamedNext
    <2>4. respelled' \/ Alike(Named \cup {x, pre})
        BY <1>8, Zenon DEF BeginAdd
    <2> QED
        BY <2>3, <2>4 DEF NamesKept, Alike
<1>9. ASSUME NEW c \in Calls, ReadPrerequisite(c)
      PROVE  NamesKept'
    <2> DEFINE k == [at |-> "search", course |-> call[c].course, pre |-> call[c].pre,
                     visited |-> {}, stack |-> {call[c].pre}]
    <2>1. UNCHANGED <<prereqs, respelled>>
        BY <1>9 DEF ReadPrerequisite, history
    <2>2. CASE Return(c)
        BY <1>2, <2>1, <2>2
    <2>3. CASE Become(c, k)
        <3>1. NamedBy(k) \subseteq NamedBy(call[c])
            BY <1>9 DEF NamedBy, ReadPrerequisite
        <3> HIDE DEF k
        <3>2. Named' \subseteq Named
            BY <2>1, <2>3, <3>1, NamedNow, NamesMove DEF Become
        <3> QED
            BY <2>1, <3>2, NamesStay
    <2> QED
        BY <1>9, <2>2, <2>3 DEF ReadPrerequisite
<1>10. ASSUME NEW c \in Calls, NEW x \in Spellings, Visit(c, x)
       PROVE  NamesKept'
    <2> DEFINE visited == call[c].visited \cup {x}
               k == [call[c] EXCEPT !.visited = visited,
                                    !.stack = (@ \cup prereqs[CourseOf[x]]) \ visited]
    <2>1. UNCHANGED <<prereqs, respelled>>
        BY <1>10 DEF Visit, history
    <2>2. CASE Return(c)
        BY <1>2, <2>1, <2>2
    <2>3. CASE Become(c, k)
        <3>1. NamedBy(k) \subseteq NamedBy(call[c]) \cup prereqs[CourseOf[x]]
            BY <1>10 DEF NamedBy, Visit, Searching, TypeOK, CallStates
        <3> HIDE DEF k
        <3>2. NamedBy(k) \subseteq Named
            BY <3>1, NamedNow, CourseOfType
        <3>3. Named' \subseteq Named
            BY <2>1, <2>3, <3>2, NamedNow, NamesMove DEF Become
        <3> QED
            BY <2>1, <3>3, NamesStay
    <2> QED
        BY <1>10, <2>2, <2>3 DEF Visit
<1>11. ASSUME NEW c \in Calls, WritePrerequisite(c)
       PROVE  NamesKept'
    <2>1. call[c].pre \in NamedBy(call[c])
        BY <1>11 DEF WritePrerequisite, Searching, NamedBy
    <2>2. \A x \in Courses : prereqs'[x] \subseteq prereqs[x] \cup {call[c].pre}
        BY <1>11 DEF WritePrerequisite, TypeOK
    <2>3. \A x \in Courses : prereqs'[x] \subseteq Named
        BY <2>1, <2>2, NamedNow
    <2>4. Named' \subseteq Named
        BY <1>1, <1>11, <2>3, NamesMove DEF WritePrerequisite, Return, Become
    <2> QED
        BY <1>11, <2>4, NamesStay DEF WritePrerequisite
<1>12. ASSUME NEW c \in Calls, CommandFails(c)
       PROVE  NamesKept'
    BY <1>2, <1>12 DEF CommandFails, history
<1> QED
    BY <1>4, <1>5, <1>6, <1>7, <1>8, <1>9, <1>10, <1>11, <1>12 DEF Next, Continue

LEMMA AcyclicStep ==
    ASSUME TypeOK, NamesKept, SearchIsClosed, AcyclicUnlessCrossed, [Next]_vars
    PROVE  AcyclicUnlessCrossed'
<1>1. ASSUME crossed' = crossed, respelled => respelled', \A x \in Courses : prereqs'[x] \subseteq prereqs[x]
      PROVE  AcyclicUnlessCrossed'
    BY <1>1, FewerEdges DEF AcyclicUnlessCrossed
<1>2. ASSUME UNCHANGED <<prereqs, crossed>>, respelled => respelled'
      PROVE  AcyclicUnlessCrossed'
    BY <1>1, <1>2
<1>3. ASSUME NEW x \in Courses, DeleteCourse(x)
      PROVE  AcyclicUnlessCrossed'
    BY <1>1, <1>3 DEF DeleteCourse, TypeOK, history
<1>4. ASSUME NEW x \in Courses, NEW pre \in Spellings, RemovePrerequisite(x, pre)
      PROVE  AcyclicUnlessCrossed'
    BY <1>1, <1>4 DEF RemovePrerequisite, TypeOK, history
<1>5. ASSUME NEW c \in Calls, WritePrerequisite(c)
      PROVE  AcyclicUnlessCrossed'
    <2>1. CASE crossed' \/ respelled'
        BY <2>1 DEF AcyclicUnlessCrossed
    <2>2. CASE ~crossed' /\ ~respelled' /\ CourseOf[call[c].course] \notin Live
        <3>1. ~crossed /\ ~respelled /\ prereqs' = prereqs
            BY <1>5, <2>2 DEF WritePrerequisite
        <3>2. Acyclic
            BY <3>1 DEF AcyclicUnlessCrossed
        <3> QED
            BY <3>1, <3>2 DEF AcyclicUnlessCrossed, Acyclic, Behind
    <2>3. CASE ~crossed' /\ ~respelled' /\ CourseOf[call[c].course] \in Live
        <3> DEFINE owner == CourseOf[call[c].course]
                   pre == CourseOf[call[c].pre]
                   visited == call[c].visited
                   closed == {CourseOf[i] : i \in visited}
        <3>1. Searching(c) /\ ~crossed /\ ~respelled /\ call[c].stack = {}
            BY <1>5, <2>3 DEF WritePrerequisite
        <3>2. /\ call[c].course \in Spellings /\ call[c].pre \in Spellings
              /\ visited \in SUBSET Spellings
            BY <3>1, SearchFields
        <3>3. owner \in Courses /\ closed \in SUBSET Courses
            BY <3>2, CourseOfType
        <3>4. /\ call[c].course \notin visited /\ call[c].pre \in visited
              /\ \A i \in visited : prereqs[CourseOf[i]] \subseteq visited
            BY <3>1 DEF SearchIsClosed
        <3>5. Alike(Named) /\ call[c].course \in Named /\ visited \subseteq Named
            <4>1. call[c].course \in NamedBy(call[c]) /\ visited \subseteq NamedBy(call[c])
                BY <3>1 DEF Searching, NamedBy
            <4> QED
                BY <3>1, <4>1, NamedNow DEF NamesKept
        <3>6. owner \notin closed
            BY <3>4, <3>5 DEF Alike
        <3>7. pre \in closed /\ \A x \in closed : Behind(x) \subseteq closed
            BY <3>4 DEF Behind
        <3>8. prereqs' = [prereqs EXCEPT ![owner] = @ \cup {call[c].pre}]
            BY <1>5, <2>3 DEF WritePrerequisite
        <3>9. /\ \A x \in Courses : Behind(x)' \subseteq Behind(x) \cup {pre}
              /\ \A x \in Courses : x # owner => Behind(x)' = Behind(x)
            BY <3>3, <3>8 DEF Behind, TypeOK
        <3>10. Acyclic
            BY <3>1 DEF AcyclicUnlessCrossed
        <3> HIDE DEF owner, pre, closed
        <3>11. Acyclic'
            BY <3>3, <3>6, <3>7, <3>9, <3>10, NewEdge
        <3> QED
            BY <3>11 DEF AcyclicUnlessCrossed
    <2> QED
        BY <2>1, <2>2, <2>3
<1>6. ASSUME NEW c \in Calls, NEW x \in Spellings, NEW pre \in Spellings, BeginAdd(c, x, pre)
      PROVE  AcyclicUnlessCrossed'
    BY <1>2, <1>6 DEF BeginAdd
<1>7. ASSUME UNCHANGED <<prereqs, history>>
      PROVE  AcyclicUnlessCrossed'
    BY <1>2, <1>7 DEF history
<1> QED
    BY <1>3, <1>4, <1>5, <1>6, <1>7
    DEF Next, Continue, CreateCourse, ReadPrerequisite, Visit, CommandFails, vars, history

THEOREM Invariance == Spec => []IInv
<1>1. Init => IInv
    BY InitIInv
<1>2. IInv /\ [Next]_vars => IInv'
    BY TypeStep, NamesStep, SearchStep, AcyclicStep DEF IInv
<1> QED
    BY <1>1, <1>2, PTL DEF Spec

\* The state has its type (course.service.ts:134-154, course.repository.ts:64-84).
THEOREM TypeCorrect == Spec => []TypeOK
<1>1. IInv => TypeOK
    BY DEF IInv
<1> QED
    BY <1>1, Invariance, PTL

\* A search that has seen a spelling has seen, or will see, the prerequisites of its
\* course (checkCircularPrerequisites, course.service.ts:181-201).
THEOREM SearchesAreClosed == Spec => []SearchIsClosed
<1>1. IInv => SearchIsClosed
    BY DEF IInv
<1> QED
    BY <1>1, Invariance, PTL

\* The check before the write keeps the graph without cycles, for any number of
\* courses and spellings, unless a prerequisite is written during another handler's
\* search or a course is named in two ways (addPrerequisite, course.service.ts:134-145).
THEOREM NoCycleUnlessCrossed == Spec => []AcyclicUnlessCrossed
<1>1. IInv => AcyclicUnlessCrossed
    BY DEF IInv
<1> QED
    BY <1>1, Invariance, PTL
=============================================================================
