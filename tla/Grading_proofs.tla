--------------------------- MODULE Grading_proofs ---------------------------
(***************************************************************************)
(* Proofs about Grading, for any calls, students, terms, scores and bounds.*)
(*                                                                         *)
(* What a call read goes stale, but some of it stays true whatever other   *)
(* calls do: its row was made by one submit of its student (made only      *)
(* grows), its student's submission has a grade or went with the whole     *)
(* assignment, which never comes back, and its grade was published.  So a  *)
(* row or an event written from an old read is still right about that.  A  *)
(* file has one owner: the call that saved it, until a submission is made  *)
(* with it; so the file a call discards was nobody else's, unless its own  *)
(* submission was stored without an answer.                                *)
(***************************************************************************)
EXTENDS Grading, SequenceTheorems, TLAPS

\* A row with the file and the lateness of one of the rows of a history.
IsOneOf(row, rows) ==
    \E i \in DOMAIN rows :
        /\ rows[i].file = row.file
        /\ rows[i].daysLate = row.daysLate
        /\ rows[i].isLate = row.isLate

\* Students whose submission has a grade, or lost it with the assignment.
Graded == {s \in Students : assignment # None /\ (Exists => grades[s] # None)}

\* What a call knows by where it is, given the assignment, the graded students,
\* the submissions made and the grades published.
CallOK(k, a, graded, m, p) ==
    /\ k.at # "idle" => a # None
    /\ k.at = "submit" => k.row.status = "submitted"
    /\ k.at \in {"grade_terms", "grade_insert", "grade_mark", "publish_mark"} =>
           IsOneOf(k.row, m[k.student])
    /\ k.at \in {"grade_mark", "publish_row", "publish_mark"} => k.student \in graded
    /\ k.at \in {"publish_row", "publish_mark", "publish_event"} =>
           <<k.student, k.grade>> \in p

CallsOK == \A c \in Calls : CallOK(call[c], assignment, Graded, made, published)

MadeOK == made \in [Students -> Seq(Submissions)]

\* Nothing hangs on an assignment that is not there.
NothingOrphaned ==
    ~Exists => \A s \in Students : submissions[s] = None /\ grades[s] = None

Rows == MadeOK /\ NothingOrphaned /\ RowIsOneSubmission /\ StatusFollowsGrade

\* A file was saved before; it stays when a submission was made with it, unless the
\* answer was lost; until then it belongs to one call.
MadeFiles == {f \in Files : \E s \in Students : \E i \in DOMAIN made[s] : made[s][i].file = f}
Submits(c) == call[c].at = "submit"
FilesKept ==
    /\ \A f \in files \cup unsure : f <= saved
    /\ MadeFiles \subseteq files \cup unsure
FilesOwned ==
    /\ \A c \in Calls : Holds(c) =>
         /\ call[c].row.file \in files
         /\ call[c].row.file \in MadeFiles => ~Submits(c) /\ call[c].row.file \in unsure
    /\ \A c, d \in Calls :
         Holds(c) /\ Holds(d) /\ call[c].row.file = call[d].row.file => c = d

FilesOK == FilesKept /\ FilesOwned /\ FilesAccounted

IInv == TypeOK /\ CallsOK /\ Rows /\ FilesOK /\ EventsTellPublished

-----------------------------------------------------------------------------
(* The late penalty *)

LEMMA Constants ==
    /\ HoursPerDay \in Nat /\ HoursPerDay > 0
    /\ LastHour \in Nat /\ MaxFiles \in Nat
    /\ Scores \subseteq Nat
BY HoursAssumption, GradingAssumption

LEMMA TermsFields ==
    ASSUME NEW terms \in Terms
    PROVE  /\ ValidPolicy(terms.policy) /\ terms.due \in Nat
           /\ terms # None /\ terms # Deleted
BY GradingAssumption

LEMMA DaysLateIsNat == \A hours \in Nat : DaysLate(hours) \in Nat
<1> SUFFICES ASSUME NEW hours \in Nat PROVE DaysLate(hours) \in Nat
    OBVIOUS
<1>1. hours \div HoursPerDay \in Nat
    BY Constants
<1> QED BY <1>1 DEF DaysLate

\* What an assignment says of a submission's time is a lateness.
LEMMA PenaltyType ==
    ASSUME NEW at \in Nat, NEW due \in Nat, NEW policy
    PROVE  /\ CalculatePenalty(at, due, policy).isLate \in BOOLEAN
           /\ CalculatePenalty(at, due, policy).daysLate \in Nat
<1>1. CASE at <= due
    BY <1>1 DEF CalculatePenalty
<1>2. CASE at > due
  <2>1. at - due \in Nat
    BY <1>2
  <2>2. DaysLate(at - due) \in Nat
    BY <2>1, DaysLateIsNat
  <2> QED BY <1>2, <2>2 DEF CalculatePenalty
<1> QED BY <1>1, <1>2

LEMMA Products ==
    /\ \A a, b \in Nat : a * b \in Nat
    /\ \A a, b, c \in Nat : b <= c => a * b <= a * c
<1>1. ASSUME NEW a \in Nat, NEW b \in Nat PROVE a * b \in Nat
    OBVIOUS
<1>2. ASSUME NEW a \in Nat, NEW b \in Nat, NEW c \in Nat, b <= c
      PROVE  a * b <= a * c
    BY <1>2
<1> QED BY <1>1, <1>2

\* The share of the score that is left, in percent.
Share(daysLate, policy) ==
    LET total == daysLate * policy.percent IN 100 - (IF total > 100 THEN 100 ELSE total)

LEMMA ShareBounds ==
    ASSUME NEW daysLate \in Nat, NEW policy, ValidPolicy(policy)
    PROVE  Share(daysLate, policy) \in 0..100
<1>1. policy.percent \in Nat
    BY DEF ValidPolicy
<1>2. daysLate * policy.percent \in Nat
    BY <1>1, Products
<1> QED BY <1>2 DEF Share

\* A penalty takes away from a score and never more than all of it
\* (LatePolicyCalculator.ApplyPenalty caps the total at 100 %).
THEOREM PenaltyBounded ==
    ASSUME NEW score \in Nat, NEW daysLate \in Nat, NEW policy, ValidPolicy(policy)
    PROVE  /\ ApplyPenalty(score, daysLate, policy) \in Nat
           /\ ApplyPenalty(score, daysLate, policy) <= 100 * score
<1> DEFINE share == Share(daysLate, policy)
<1>1. share \in Nat /\ share <= 100
    BY ShareBounds
<1>2. score * share \in Nat /\ score * share <= score * 100
    BY <1>1, Products
<1>3. ApplyPenalty(score, daysLate, policy) \in {100 * score, 0, score * share}
    BY DEF ApplyPenalty, Share
<1> QED BY <1>2, <1>3

\* A later submission never gets more for the same work: neither the cap of the
\* total nor the cut at maxLate turns the order round.
THEOREM LaterIsNoBetter ==
    ASSUME NEW score \in Nat, NEW d \in Nat, NEW e \in Nat, d <= e,
           NEW policy, ValidPolicy(policy)
    PROVE  ApplyPenalty(score, e, policy) <= ApplyPenalty(score, d, policy)
<1>1. CASE e = 0
  <2>1. d = e
    BY <1>1
  <2> QED BY <2>1, PenaltyBounded
<1>2. CASE e # 0 /\ d = 0
  <2>1. ApplyPenalty(score, d, policy) = 100 * score
    BY <1>2 DEF ApplyPenalty
  <2> QED BY <2>1, PenaltyBounded
<1>3. CASE d # 0 /\ (~AllowsLate(policy) \/ e > policy.maxLate)
  <2>1. ApplyPenalty(score, e, policy) = 0
    BY <1>3 DEF ApplyPenalty
  <2> QED BY <2>1, PenaltyBounded
<1>4. CASE d # 0 /\ AllowsLate(policy) /\ ~(e > policy.maxLate)
  <2> DEFINE percent == policy.percent
             r == Share(e, policy)
             t == Share(d, policy)
  <2>1. percent \in Nat /\ policy.maxLate \in Nat
    BY DEF ValidPolicy
  <2>2. ApplyPenalty(score, e, policy) = score * r
    BY <1>4, <2>1 DEF ApplyPenalty, Share
  <2>3. ApplyPenalty(score, d, policy) = score * t
    BY <1>4, <2>1 DEF ApplyPenalty, Share
  <2>4. /\ percent * d <= percent * e
        /\ percent * d \in Nat /\ percent * e \in Nat
    BY <2>1, Products
  <2>5. percent * d = d * percent /\ percent * e = e * percent
    BY <2>1
  <2>6. r \in Nat /\ t \in Nat /\ r <= t
    BY <2>4, <2>5, ShareBounds DEF Share
  <2> HIDE DEF r, t
  <2> QED BY <2>2, <2>3, <2>6, Products
<1> QED BY <1>1, <1>2, <1>3, <1>4

-----------------------------------------------------------------------------
(* Calls *)

\* What a call carries, by where it is.
LEMMA CallFields ==
    ASSUME NEW k \in CallStates
    PROVE  /\ k.at = "edit" => k.terms \in Terms
           /\ k.at \notin {"idle", "edit"} => k.student \in Students
           /\ k.at \in {"submit", "discard", "grade_terms", "grade_insert", "grade_mark",
                       "update_terms", "publish_mark"} => k.row \in Submissions
           /\ k.at \in {"grade_terms", "update_row", "update_terms"} => k.score \in Scores
           /\ k.at \in {"grade_insert", "grade_mark", "update_row", "update_terms",
                       "update_write", "publish_write", "publish_row", "publish_mark",
                       "publish_event"} => k.grade \in Grades
BY DEF CallStates

LEMMA CallRecords ==
    /\ [at |-> "idle"] \in CallStates
    /\ \A terms \in Terms : [at |-> "edit", terms |-> terms] \in CallStates
    /\ \A s \in Students, row \in Submissions :
         [at |-> "submit", student |-> s, row |-> row] \in CallStates
    /\ \A s \in Students, score \in Scores, row \in Submissions :
         [at |-> "grade_terms", student |-> s, score |-> score, row |-> row] \in CallStates
    /\ \A s \in Students, grade \in Grades, row \in Submissions :
         /\ [at |-> "grade_insert", student |-> s, grade |-> grade, row |-> row] \in CallStates
         /\ [at |-> "publish_mark", student |-> s, grade |-> grade, row |-> row] \in CallStates
    /\ \A s \in Students, score \in Scores, grade \in Grades :
         [at |-> "update_row", student |-> s, score |-> score, grade |-> grade] \in CallStates
    /\ \A s \in Students, score \in Scores, grade \in Grades, row \in Submissions :
         [at |-> "update_terms", student |-> s, score |-> score, grade |-> grade,
          row |-> row] \in CallStates
    /\ \A s \in Students, grade \in Grades :
         /\ [at |-> "update_write", student |-> s, grade |-> grade] \in CallStates
         /\ [at |-> "publish_write", student |-> s, grade |-> grade] \in CallStates
         /\ [at |-> "publish_event", student |-> s, grade |-> grade] \in CallStates
BY DEF CallStates

\* A call that moves on with what it has.
LEMMA CallGoesOn ==
    ASSUME NEW k \in CallStates
    PROVE  /\ k.at = "grade_insert" =>
                LET n == [k EXCEPT !.at = "grade_mark"]
                IN  /\ n \in CallStates /\ n.at = "grade_mark"
                    /\ n.student = k.student /\ n.row = k.row
           /\ k.at = "submit" =>
                LET n == [k EXCEPT !.at = "discard"]
                IN  /\ n \in CallStates /\ n.at = "discard"
                    /\ n.student = k.student /\ n.row = k.row
           /\ k.at = "publish_write" =>
                LET n == [k EXCEPT !.at = "publish_row"]
                IN  /\ n \in CallStates /\ n.at = "publish_row"
                    /\ n.student = k.student /\ n.grade = k.grade
           /\ k.at = "publish_row" =>
                LET n == [k EXCEPT !.at = "publish_event"]
                IN  /\ n \in CallStates /\ n.at = "publish_event"
                    /\ n.student = k.student /\ n.grade = k.grade
BY DEF CallStates

\* One call moves, the others stay.
LEMMA Moves ==
    ASSUME TypeOK, NEW c \in Calls, NEW k \in CallStates, Become(c, k)
    PROVE  /\ call' \in [Calls -> CallStates]
           /\ call'[c] = k
           /\ \A d \in Calls \ {c} : call'[d] = call[d]
BY DEF TypeOK, Become

-----------------------------------------------------------------------------
(* What a call knows stays true *)

Grows(m, n) ==
    \A s \in Students : \A i \in DOMAIN m[s] : i \in DOMAIN n[s] /\ n[s][i] = m[s][i]

\* No step takes any of it back.
Forward ==
    /\ assignment # None => assignment' # None
    /\ Graded \subseteq Graded'
    /\ Grows(made, made')
    /\ published \subseteq published'

LEMMA OneOfGrows ==
    ASSUME NEW m, NEW n, Grows(m, n), NEW s \in Students, NEW row, IsOneOf(row, m[s])
    PROVE  IsOneOf(row, n[s])
BY DEF Grows, IsOneOf

LEMMA CallStays ==
    ASSUME NEW k \in CallStates, NEW a, NEW a2, NEW g, NEW g2, NEW m, NEW m2, NEW p, NEW p2,
           a # None => a2 # None, g \subseteq g2, Grows(m, m2), p \subseteq p2, CallOK(k, a, g, m, p)
    PROVE  CallOK(k, a2, g2, m2, p2)
<1>1. k.at \in {"grade_terms", "grade_insert", "grade_mark", "publish_mark"} =>
          IsOneOf(k.row, m2[k.student])
    BY CallFields, OneOfGrows DEF CallOK
<1> QED BY <1>1 DEF CallOK

LEMMA Kept ==
    ASSUME UNCHANGED <<assignment, grades, made, published>>
    PROVE  Forward
BY DEF Forward, Grows, Graded, Exists

LEMMA IdleOK ==
    ASSUME NEW a, NEW g, NEW m, NEW p
    PROVE  CallOK([at |-> "idle"], a, g, m, p)
BY DEF CallOK

LEMMA CallsMove ==
    ASSUME TypeOK, CallsOK, Forward, NEW c \in Calls, NEW k \in CallStates, Become(c, k),
           CallOK(k, assignment', Graded', made', published')
    PROVE  CallsOK' /\ call' \in [Calls -> CallStates]
<1>1. ASSUME NEW d \in Calls
      PROVE  CallOK(call'[d], assignment', Graded', made', published')
  <2>1. CASE d = c
    BY <2>1, Moves
  <2>2. CASE d # c
    <3>1. call'[d] = call[d] /\ call[d] \in CallStates
        BY <2>2, Moves DEF TypeOK
    <3>2. CallOK(call[d], assignment, Graded, made, published)
        BY DEF CallsOK
    <3>3. CallOK(call[d], assignment', Graded', made', published')
        BY <3>1, <3>2, CallStays DEF Forward
    <3> QED BY <3>1, <3>3
  <2> QED BY <2>1, <2>2
<1> QED BY <1>1, Moves DEF CallsOK

LEMMA CallsKeep ==
    ASSUME TypeOK, CallsOK, Forward, UNCHANGED call
    PROVE  CallsOK' /\ call' \in [Calls -> CallStates]
<1>1. ASSUME NEW d \in Calls
      PROVE  CallOK(call'[d], assignment', Graded', made', published')
  <2>1. call'[d] = call[d] /\ call[d] \in CallStates
    BY DEF TypeOK
  <2>2. CallOK(call[d], assignment, Graded, made, published)
    BY DEF CallsOK
  <2> QED BY <2>1, <2>2, CallStays DEF Forward
<1> QED BY <1>1 DEF CallsOK, TypeOK

-----------------------------------------------------------------------------
(* Steps that save and store nothing *)

\* Files belong to the calls that hold them, so a step that makes no call hold
\* another file, and saves, stores and deletes nothing, leaves them as they are.
LEMMA FilesStay ==
    ASSUME FilesOK, UNCHANGED <<files, saved, made, kept>>,
           \A d \in Calls : Holds(d)' = Holds(d),
           \A d \in Calls : Holds(d) => call'[d].row.file = call[d].row.file,
           \A d \in Calls : Submits(d)' => Submits(d)
    PROVE  FilesOK'
<1>0. UNCHANGED <<files, saved, made, unsure, orphans>>
    BY DEF kept
<1>1. MadeFiles' = MadeFiles
    BY <1>0 DEF MadeFiles
<1>2. FilesKept'
    BY <1>0, <1>1 DEF FilesOK, FilesKept
<1>3. FilesOwned'
  <2>1. ASSUME NEW d \in Calls, Holds(d)'
        PROVE  /\ call'[d].row.file \in files'
               /\ call'[d].row.file \in MadeFiles' =>
                      ~Submits(d)' /\ call'[d].row.file \in unsure'
    BY <1>0, <1>1, <2>1 DEF FilesOK, FilesOwned
  <2>2. ASSUME NEW d \in Calls, NEW e \in Calls, Holds(d)', Holds(e)',
               call'[d].row.file = call'[e].row.file
        PROVE  d = e
    BY <2>2 DEF FilesOK, FilesOwned
  <2> QED BY <2>1, <2>2 DEF FilesOwned
<1>4. FilesAccounted'
    BY <1>0 DEF FilesOK, FilesAccounted
<1> QED BY <1>2, <1>3, <1>4 DEF FilesOK

\* The same for a call that moves between other places.
LEMMA FilesStayForCall ==
    ASSUME TypeOK, FilesOK, UNCHANGED <<files, saved, made, kept>>,
           NEW c \in Calls, NEW k \in CallStates, Become(c, k),
           ~Holds(c), k.at \notin {"submit", "discard"}
    PROVE  FilesOK'
<1>1. /\ call'[c] = k
      /\ \A d \in Calls \ {c} : call'[d] = call[d]
    BY Moves
<1>2. \A d \in Calls : Holds(d)' = Holds(d)
    BY <1>1 DEF Holds
<1>3. \A d \in Calls : Holds(d) => call'[d] = call[d]
    BY <1>1
<1>4. \A d \in Calls : Submits(d)' => Submits(d)
    BY <1>1 DEF Submits
<1> QED BY <1>2, <1>3, <1>4, FilesStay

\* The types of the tables, of the events and of what was published.
TablesOK ==
    /\ assignment \in Terms \cup {None, Deleted}
    /\ submissions \in [Students -> Submissions \cup {None}]
    /\ grades \in [Students -> Grades \cup {None}]
    /\ published \subseteq Students \X Grades
    /\ events \subseteq Students \X Grades

LEMMA QuietStep ==
    ASSUME IInv, UNCHANGED <<files, now, saved, made, kept>>,
           NEW c \in Calls, NEW k \in CallStates, Become(c, k),
           ~Holds(c), k.at \notin {"submit", "discard"},
           Forward, CallOK(k, assignment', Graded', made', published'),
           TablesOK', Rows', EventsTellPublished'
    PROVE  IInv'
<1>1. CallsOK' /\ call' \in [Calls -> CallStates]
    BY CallsMove DEF IInv
<1>2. FilesOK'
    BY FilesStayForCall DEF IInv
<1>3. TypeOK'
    BY <1>1 DEF IInv, TypeOK, TablesOK, kept
<1> QED BY <1>1, <1>2, <1>3 DEF IInv

\* A call that only reads.
LEMMA ReadStep ==
    ASSUME IInv, UNCHANGED <<tables, files, now, events, saved, history>>,
           NEW c \in Calls, NEW k \in CallStates, Become(c, k),
           ~Holds(c), k.at \notin {"submit", "discard"},
           CallOK(k, assignment, Graded, made, published)
    PROVE  IInv'
<1>1. UNCHANGED <<assignment, submissions, grades, made, published, files, now, events,
                  saved, kept>>
    BY DEF tables, history, kept
<1>2. Forward
    BY <1>1, Kept
<1>3. CallOK(k, assignment', Graded', made', published')
    BY <1>1 DEF Graded, Exists
<1>4. TablesOK' /\ EventsTellPublished'
    BY <1>1 DEF IInv, TypeOK, TablesOK, EventsTellPublished
<1>5. Rows'
    BY <1>1 DEF IInv, Rows, MadeOK, NothingOrphaned, RowIsOneSubmission, StatusFollowsGrade,
                Exists
<1> QED BY <1>1, <1>2, <1>3, <1>4, <1>5, QuietStep

\* A call that returns after it read.
LEMMA ReturnStep ==
    ASSUME IInv, UNCHANGED <<tables, files, now, events, saved, history>>,
           NEW c \in Calls, ~Holds(c), Return(c)
    PROVE  IInv'
<1> DEFINE k == [at |-> "idle"]
<1>1. k \in CallStates /\ k.at \notin {"submit", "discard"}
    BY CallRecords
<1>2. CallOK(k, assignment, Graded, made, published)
    BY IdleOK
<1>3. Become(c, k)
    BY DEF Return
<1> QED BY <1>1, <1>2, <1>3, ReadStep

-----------------------------------------------------------------------------
(* Calls that read *)

\* A call under way, and the rows of a student.
LEMMA BusyCall ==
    ASSUME IInv, NEW c \in Calls
    PROVE  /\ call[c] \in CallStates
           /\ CallOK(call[c], assignment, Graded, made, published)
           /\ call[c].at # "idle" => assignment # None
BY DEF IInv, TypeOK, CallsOK, CallOK

LEMMA StudentRow ==
    ASSUME IInv, NEW s \in Students, submissions[s] # None
    PROVE  /\ submissions[s] \in Submissions
           /\ IsOneOf(submissions[s], made[s])
           /\ assignment \in Terms /\ assignment # None
<1>1. submissions[s] \in Submissions
    BY DEF IInv, TypeOK
<1>2. IsOneOf(submissions[s], made[s])
    BY DEF IInv, Rows, RowIsOneSubmission, IsOneOf
<1>3. assignment \in Terms
    BY DEF IInv, Rows, NothingOrphaned, Exists
<1> QED BY <1>1, <1>2, <1>3, TermsFields

LEMMA StudentGrade ==
    ASSUME IInv, NEW s \in Students, grades[s] # None
    PROVE  grades[s] \in Grades /\ assignment \in Terms /\ assignment # None /\ s \in Graded
<1>1. grades[s] \in Grades
    BY DEF IInv, TypeOK
<1>2. assignment \in Terms
    BY DEF IInv, Rows, NothingOrphaned, Exists
<1> QED BY <1>1, <1>2, TermsFields DEF Graded

\* A score with its penalty is a score.
LEMMA AdjustedScore ==
    ASSUME NEW score \in Scores, NEW row \in Submissions, NEW terms \in Terms
    PROVE  ApplyPenalty(score, row.daysLate, terms.policy) \in Nat /\ score \in Nat
<1>1. score \in Nat /\ row.daysLate \in Nat
    BY Constants DEF Submissions
<1> QED BY <1>1, TermsFields, PenaltyBounded

LEMMA CheckForEditStep ==
    ASSUME IInv, NEW c \in Calls, NEW terms \in Terms, CheckForEdit(c, terms)
    PROVE  IInv'
<1> DEFINE k == [at |-> "edit", terms |-> terms]
<1>1. k \in CallStates
    BY CallRecords
<1>2. CallOK(k, assignment, Graded, made, published)
    BY TermsFields DEF CallOK, CheckForEdit, Exists
<1> QED BY <1>1, <1>2, ReadStep DEF CheckForEdit, Idle, Holds

LEMMA BeginGradeStep ==
    ASSUME IInv, NEW c \in Calls, NEW s \in Students, NEW score \in Scores,
           BeginGrade(c, s, score)
    PROVE  IInv'
<1> DEFINE k == [at |-> "grade_terms", student |-> s, score |-> score, row |-> submissions[s]]
<1>1. submissions[s] # None
    BY DEF BeginGrade
<1>2. k \in CallStates
    BY <1>1, StudentRow, CallRecords
<1>3. CallOK(k, assignment, Graded, made, published)
    BY <1>1, StudentRow DEF CallOK
<1> QED BY <1>2, <1>3, ReadStep DEF BeginGrade, Idle, Holds

LEMMA ComputeGradeStep ==
    ASSUME IInv, NEW c \in Calls, ComputeGrade(c) PROVE IInv'
<1> DEFINE grade == [score |-> call[c].score, status |-> "draft",
                     adjusted |-> ApplyPenalty(call[c].score, call[c].row.daysLate,
                                               assignment.policy)]
           k == [at |-> "grade_insert", student |-> call[c].student, row |-> call[c].row,
                 grade |-> grade]
<1>1. call[c].at = "grade_terms" /\ ~Holds(c)
    BY DEF ComputeGrade, Holds
<1>2. CASE ~Exists \/ call[c].score > assignment.max
    BY <1>1, <1>2, ReturnStep DEF ComputeGrade
<1>3. CASE ~(~Exists \/ call[c].score > assignment.max)
  <2>1. /\ call[c].student \in Students /\ call[c].row \in Submissions
        /\ call[c].score \in Scores /\ assignment \in Terms
    BY <1>1, <1>3, BusyCall, CallFields DEF Exists
  <2>2. grade \in Grades
    BY <2>1, AdjustedScore DEF Grades
  <2>3. k \in CallStates
    BY <2>1, <2>2, CallRecords
  <2>4. CallOK(k, assignment, Graded, made, published)
    BY <1>1, BusyCall DEF CallOK
  <2> QED BY <1>1, <1>3, <2>3, <2>4, ReadStep DEF ComputeGrade
<1> QED BY <1>2, <1>3

LEMMA BeginUpdateStep ==
    ASSUME IInv, NEW c \in Calls, NEW s \in Students, NEW score \in Scores,
           BeginUpdate(c, s, score)
    PROVE  IInv'
<1> DEFINE k == [at |-> "update_row", student |-> s, score |-> score, grade |-> grades[s]]
<1>1. grades[s] # None
    BY DEF BeginUpdate
<1>2. k \in CallStates
    BY <1>1, StudentGrade, CallRecords
<1>3. CallOK(k, assignment, Graded, made, published)
    BY <1>1, StudentGrade DEF CallOK
<1> QED BY <1>2, <1>3, ReadStep DEF BeginUpdate, Idle, Holds

LEMMA ReadForUpdateStep ==
    ASSUME IInv, NEW c \in Calls, ReadForUpdate(c) PROVE IInv'
<1> DEFINE s == call[c].student
           k == [at |-> "update_terms", student |-> s, score |-> call[c].score,
                 grade |-> call[c].grade, row |-> submissions[s]]
<1>1. call[c].at = "update_row" /\ ~Holds(c)
    BY DEF ReadForUpdate, Holds
<1>2. CASE submissions[s] = None
    BY <1>1, <1>2, ReturnStep DEF ReadForUpdate
<1>3. CASE submissions[s] # None
  <2>1. s \in Students /\ call[c].score \in Scores /\ call[c].grade \in Grades
    BY <1>1, BusyCall, CallFields
  <2>2. k \in CallStates
    BY <1>3, <2>1, StudentRow, CallRecords
  <2>3. CallOK(k, assignment, Graded, made, published)
    BY <1>3, <2>1, StudentRow DEF CallOK
  <2> QED BY <1>1, <1>3, <2>2, <2>3, ReadStep DEF ReadForUpdate
<1> QED BY <1>2, <1>3

LEMMA ComputeUpdateStep ==
    ASSUME IInv, NEW c \in Calls, ComputeUpdate(c) PROVE IInv'
<1> DEFINE adjusted == ApplyPenalty(call[c].score, call[c].row.daysLate, assignment.policy)
           grade == [call[c].grade EXCEPT !.score = call[c].score, !.adjusted = adjusted]
           k == [at |-> "update_write", student |-> call[c].student, grade |-> grade]
<1>1. call[c].at = "update_terms" /\ ~Holds(c)
    BY DEF ComputeUpdate, Holds
<1>2. CASE ~Exists \/ call[c].score > assignment.max
    BY <1>1, <1>2, ReturnStep DEF ComputeUpdate
<1>3. CASE ~(~Exists \/ call[c].score > assignment.max)
  <2>1. /\ call[c].student \in Students /\ call[c].row \in Submissions
        /\ call[c].score \in Scores /\ call[c].grade \in Grades /\ assignment \in Terms
    BY <1>1, <1>3, BusyCall, CallFields DEF Exists
  <2>2. adjusted \in Nat /\ call[c].score \in Nat
    BY <2>1, AdjustedScore
  <2>3. grade \in Grades
    BY <2>1, <2>2 DEF Grades
  <2>4. k \in CallStates
    BY <2>1, <2>3, CallRecords
  <2>5. CallOK(k, assignment, Graded, made, published)
    BY <1>1, BusyCall DEF CallOK
  <2> QED BY <1>1, <1>3, <2>4, <2>5, ReadStep DEF ComputeUpdate
<1> QED BY <1>2, <1>3

LEMMA BeginPublishStep ==
    ASSUME IInv, NEW c \in Calls, NEW s \in Students, BeginPublish(c, s)
    PROVE  IInv'
<1> DEFINE grade == [grades[s] EXCEPT !.status = "published"]
           k == [at |-> "publish_write", student |-> s, grade |-> grade]
<1>1. grades[s] # None
    BY DEF BeginPublish
<1>2. grade \in Grades
    BY <1>1, StudentGrade DEF Grades
<1>3. k \in CallStates
    BY <1>2, CallRecords
<1>4. CallOK(k, assignment, Graded, made, published)
    BY <1>1, StudentGrade DEF CallOK
<1> QED BY <1>3, <1>4, ReadStep DEF BeginPublish, Idle, Holds

\* What a publishing call knows suffices for its event.
LEMMA EventNext ==
    ASSUME IInv, NEW c \in Calls, call[c].at \in {"publish_row", "publish_mark"}
    PROVE  LET k == [at |-> "publish_event", student |-> call[c].student,
                     grade |-> call[c].grade]
           IN  k \in CallStates /\ CallOK(k, assignment, Graded, made, published)
<1>1. call[c].student \in Students /\ call[c].grade \in Grades
    BY BusyCall, CallFields
<1> QED BY <1>1, BusyCall, CallRecords DEF CallOK

LEMMA ReadForPublishStep ==
    ASSUME IInv, NEW c \in Calls, ReadForPublish(c) PROVE IInv'
<1> DEFINE s == call[c].student
           e == [call[c] EXCEPT !.at = "publish_event"]
           k == [at |-> "publish_mark", student |-> s, grade |-> call[c].grade,
                 row |-> submissions[s]]
<1>1. call[c].at = "publish_row" /\ ~Holds(c)
    BY DEF ReadForPublish, Holds
<1>2. CASE submissions[s] = None
  <2>1. e \in CallStates /\ e.at = "publish_event" /\ e.student = s /\ e.grade = call[c].grade
    BY <1>1, BusyCall, CallGoesOn
  <2>2. CallOK(e, assignment, Graded, made, published)
    BY <1>1, <2>1, BusyCall DEF CallOK
  <2> QED BY <1>1, <1>2, <2>1, <2>2, ReadStep DEF ReadForPublish
<1>3. CASE submissions[s] # None
  <2>1. s \in Students /\ call[c].grade \in Grades
    BY <1>1, BusyCall, CallFields
  <2>2. k \in CallStates
    BY <1>3, <2>1, StudentRow, CallRecords
  <2>3. CallOK(k, assignment, Graded, made, published)
    BY <1>1, <1>3, <2>1, StudentRow, BusyCall DEF CallOK
  <2> QED BY <1>1, <1>3, <2>2, <2>3, ReadStep DEF ReadForPublish
<1> QED BY <1>2, <1>3

-----------------------------------------------------------------------------
(* Writes of a row *)

\* The row of an older read, with a new status, is still one of those made.
LEMMA WriteRow ==
    ASSUME IInv, NEW s \in Graded, NEW row \in Submissions, IsOneOf(row, made[s]),
           NEW status \in {"graded", "returned"},
           status = "returned" => \E e \in published : e[1] = s,
           WriteSubmission(s, row, status),
           UNCHANGED <<assignment, grades, events, made, published>>
    PROVE  Forward /\ TablesOK' /\ Rows' /\ EventsTellPublished'
<1> DEFINE new == [row EXCEPT !.status = status, !.at = submissions[s].at]
<1>1. s \in Students /\ (Exists => grades[s] # None)
    BY DEF Graded
<1>2. Forward
    BY Kept
<1>3. EventsTellPublished'
    BY DEF IInv, EventsTellPublished
<1>4. CASE submissions[s] = None
  <2>1. submissions' = submissions
    BY <1>4 DEF WriteSubmission
  <2>2. TablesOK'
    BY <2>1 DEF IInv, TypeOK, TablesOK
  <2>3. Rows'
    BY <2>1 DEF IInv, Rows, MadeOK, NothingOrphaned, RowIsOneSubmission,
                StatusFollowsGrade, Exists
  <2> QED BY <1>2, <1>3, <2>2, <2>3
<1>5. CASE submissions[s] # None
  <2>1. submissions[s] \in Submissions /\ assignment \in Terms
    BY <1>1, <1>5, StudentRow
  <2>2. /\ new \in Submissions
        /\ new.file = row.file /\ new.daysLate = row.daysLate /\ new.isLate = row.isLate
        /\ new.status = status
    BY <2>1 DEF Submissions
  <2> HIDE DEF new
  <2>3. submissions' = [submissions EXCEPT ![s] = new]
    BY <1>5 DEF WriteSubmission, new
  <2>4. submissions' \in [Students -> Submissions \cup {None}]
    BY <2>2, <2>3 DEF IInv, TypeOK
  <2>5. TablesOK'
    BY <2>4 DEF IInv, TypeOK, TablesOK
  <2>6. /\ submissions'[s] = new
        /\ \A t \in Students \ {s} : submissions'[t] = submissions[t]
    BY <1>1, <2>3 DEF IInv, TypeOK
  <2>7. RowIsOneSubmission'
    BY <2>2, <2>6 DEF IInv, Rows, RowIsOneSubmission, IsOneOf
  <2>8. StatusFollowsGrade'
    BY <1>1, <2>1, <2>2, <2>6 DEF IInv, Rows, StatusFollowsGrade, Exists
  <2>9. MadeOK' /\ NothingOrphaned'
    BY <2>1 DEF IInv, Rows, MadeOK, NothingOrphaned, Exists
  <2> QED BY <1>2, <1>3, <2>5, <2>7, <2>8, <2>9 DEF Rows
<1> QED BY <1>4, <1>5

LEMMA MarkGradedStep ==
    ASSUME IInv, NEW c \in Calls, MarkGraded(c) PROVE IInv'
<1> DEFINE s == call[c].student
           row == call[c].row
           k == [at |-> "idle"]
<1>1. call[c].at = "grade_mark" /\ ~Holds(c) /\ k.at \notin {"submit", "discard"}
    BY DEF MarkGraded, Holds
<1>2. s \in Graded /\ row \in Submissions /\ IsOneOf(row, made[s])
    BY <1>1, BusyCall, CallFields DEF CallOK
<1>3. UNCHANGED <<assignment, grades, events, made, published, files, now, saved, kept>>
    BY DEF MarkGraded, history, kept
<1>4. WriteSubmission(s, row, "graded")
    BY DEF MarkGraded
<1>5. Forward /\ TablesOK' /\ Rows' /\ EventsTellPublished'
    BY <1>2, <1>3, <1>4, WriteRow
<1>6. k \in CallStates /\ CallOK(k, assignment', Graded', made', published')
    BY CallRecords, IdleOK
<1>7. Become(c, k)
    BY DEF MarkGraded, Return
<1> HIDE DEF k
<1> QED BY <1>1, <1>3, <1>5, <1>6, <1>7, QuietStep

LEMMA MarkReturnedStep ==
    ASSUME IInv, NEW c \in Calls, MarkReturned(c) PROVE IInv'
<1> DEFINE s == call[c].student
           row == call[c].row
           k == [at |-> "publish_event", student |-> s, grade |-> call[c].grade]
<1>1. call[c].at = "publish_mark" /\ ~Holds(c) /\ k.at \notin {"submit", "discard"}
    BY DEF MarkReturned, Holds
<1>2. s \in Graded /\ row \in Submissions /\ IsOneOf(row, made[s])
    BY <1>1, BusyCall, CallFields DEF CallOK
<1>3. <<s, call[c].grade>> \in published
    BY <1>1, BusyCall DEF CallOK
<1>4. \E e \in published : e[1] = s
  <2>1. <<s, call[c].grade>>[1] = s
    OBVIOUS
  <2> QED BY <1>3, <2>1
<1>5. UNCHANGED <<assignment, grades, events, made, published, files, now, saved, kept>>
    BY DEF MarkReturned, history, kept
<1>6. WriteSubmission(s, row, "returned")
    BY DEF MarkReturned
<1>7. Forward /\ TablesOK' /\ Rows' /\ EventsTellPublished'
    BY <1>2, <1>4, <1>5, <1>6, WriteRow
<1>8. k \in CallStates
    BY <1>1, EventNext
<1>9. assignment # None /\ CallOK(k, assignment', Graded', made', published')
    BY <1>1, <1>3, <1>5, BusyCall DEF CallOK
<1>10. Become(c, k)
    BY DEF MarkReturned
<1> HIDE DEF k
<1> QED BY <1>1, <1>5, <1>7, <1>8, <1>9, <1>10, QuietStep

-----------------------------------------------------------------------------
(* Writes of a grade *)

\* A grade may come, or be replaced, and more may be published.
LEMMA GradeWritten ==
    ASSUME IInv, UNCHANGED <<assignment, submissions, events, made>>,
           grades' \in [Students -> Grades \cup {None}],
           \A s \in Students : grades[s] # None => grades'[s] # None,
           \A s \in Students : grades'[s] # None => Exists,
           published \subseteq published', published' \subseteq Students \X Grades
    PROVE  Forward /\ TablesOK' /\ Rows' /\ EventsTellPublished'
<1>1. Forward
    BY DEF Forward, Grows, Graded, Exists
<1>2. TablesOK'
    BY DEF IInv, TypeOK, TablesOK
<1>3. EventsTellPublished'
    BY DEF IInv, EventsTellPublished
<1>4. MadeOK' /\ RowIsOneSubmission'
    BY DEF IInv, Rows, MadeOK, RowIsOneSubmission
<1>5. NothingOrphaned'
    BY DEF IInv, Rows, NothingOrphaned, Exists
<1>6. StatusFollowsGrade'
    BY DEF IInv, Rows, StatusFollowsGrade
<1> QED BY <1>1, <1>2, <1>3, <1>4, <1>5, <1>6 DEF Rows

LEMMA WriteGradeKeeps ==
    ASSUME IInv, NEW s \in Students, NEW grade \in Grades, WriteGrade(s, grade)
    PROVE  /\ grades' \in [Students -> Grades \cup {None}]
           /\ \A t \in Students : grades[t] # None => grades'[t] # None
           /\ \A t \in Students : grades'[t] # None => grades[t] # None
           /\ \A t \in Students : grades'[t] # None => Exists
<1>1. grades \in [Students -> Grades \cup {None}] /\ grade # None
    BY NoRowAssumption DEF IInv, TypeOK
<1>2. grades' \in [Students -> Grades \cup {None}]
    BY <1>1 DEF WriteGrade
<1>3. \A t \in Students : (grades[t] # None) = (grades'[t] # None)
    BY <1>1 DEF WriteGrade
<1>4. \A t \in Students : grades[t] # None => Exists
    BY DEF IInv, Rows, NothingOrphaned
<1> QED BY <1>2, <1>3, <1>4

LEMMA InsertGradeStep ==
    ASSUME IInv, NEW c \in Calls, InsertGrade(c) PROVE IInv'
<1> DEFINE s == call[c].student
           k == [call[c] EXCEPT !.at = "grade_mark"]
<1>1. call[c].at = "grade_insert" /\ ~Holds(c)
    BY DEF InsertGrade, Holds
<1>2. UNCHANGED <<assignment, submissions, events, made, published, files, now, saved,
                  kept>>
    BY DEF InsertGrade, history, kept
<1>3. CASE ~TakesGrade(s)
  <2>1. Return(c) /\ UNCHANGED grades
    BY <1>3 DEF InsertGrade
  <2> QED BY <1>1, <1>2, <2>1, ReturnStep DEF tables, history, kept
<1>4. CASE TakesGrade(s)
  <2>1. s \in Students /\ call[c].grade \in Grades /\ IsOneOf(call[c].row, made[s])
    BY <1>1, BusyCall, CallFields DEF CallOK
  <2>2. assignment \in Terms /\ Exists /\ assignment # None
    BY <1>4, <2>1, StudentRow DEF Exists, TakesGrade
  <2>3. grades' = [grades EXCEPT ![s] = call[c].grade] /\ Become(c, k)
    BY <1>4 DEF InsertGrade
  <2>4. call[c].grade # None /\ grades \in [Students -> Grades \cup {None}]
    BY <2>1, NoRowAssumption DEF IInv, TypeOK
  <2>5. grades' \in [Students -> Grades \cup {None}] /\ grades'[s] # None
    BY <2>1, <2>3, <2>4
  <2>6. \A t \in Students : grades[t] # None => grades'[t] # None
    BY <2>1, <2>3, <2>4
  <2>7. published' \subseteq Students \X Grades
    BY <1>2 DEF IInv, TypeOK
  <2>8. Forward /\ TablesOK' /\ Rows' /\ EventsTellPublished'
    BY <1>2, <2>2, <2>5, <2>6, <2>7, GradeWritten
  <2>9. k \in CallStates /\ k.at = "grade_mark" /\ k.student = s /\ k.row = call[c].row
    BY <1>1, BusyCall, CallGoesOn
  <2>10. s \in Graded'
    BY <1>2, <2>1, <2>2, <2>5 DEF Graded
  <2> HIDE DEF k
  <2>11. CallOK(k, assignment', Graded', made', published')
    BY <1>2, <2>1, <2>2, <2>9, <2>10 DEF CallOK
  <2> QED BY <1>1, <1>2, <2>3, <2>8, <2>9, <2>11, QuietStep
<1> QED BY <1>3, <1>4

LEMMA WriteUpdateStep ==
    ASSUME IInv, NEW c \in Calls, WriteUpdate(c) PROVE IInv'
<1> DEFINE k == [at |-> "idle"]
<1>1. call[c].at = "update_write" /\ ~Holds(c) /\ k.at \notin {"submit", "discard"}
    BY DEF WriteUpdate, Holds
<1>2. call[c].student \in Students /\ call[c].grade \in Grades
    BY <1>1, BusyCall, CallFields
<1>3. UNCHANGED <<assignment, submissions, events, made, published, files, now, saved,
                  kept>>
    BY DEF WriteUpdate, history, kept
<1>4. published' \subseteq Students \X Grades /\ published \subseteq published'
    BY <1>3 DEF IInv, TypeOK
<1>5. WriteGrade(call[c].student, call[c].grade)
    BY DEF WriteUpdate
<1>6. Forward /\ TablesOK' /\ Rows' /\ EventsTellPublished'
    BY <1>2, <1>3, <1>4, <1>5, WriteGradeKeeps, GradeWritten
<1>7. k \in CallStates /\ CallOK(k, assignment', Graded', made', published')
    BY CallRecords, IdleOK
<1>8. Become(c, k)
    BY DEF WriteUpdate, Return
<1> HIDE DEF k
<1> QED BY <1>1, <1>3, <1>6, <1>7, <1>8, QuietStep

LEMMA WritePublishedStep ==
    ASSUME IInv, NEW c \in Calls, WritePublished(c) PROVE IInv'
<1> DEFINE s == call[c].student
           grade == call[c].grade
           k == [call[c] EXCEPT !.at = "publish_row"]
<1>1. call[c].at = "publish_write" /\ ~Holds(c)
    BY DEF WritePublished, Holds
<1>2. s \in Students /\ grade \in Grades
    BY <1>1, BusyCall, CallFields
<1>3. UNCHANGED <<assignment, submissions, events, made, files, now, saved, kept>>
    BY DEF WritePublished
<1>4. WriteGrade(s, grade)
    BY DEF WritePublished
<1>5. CASE grades[s] = None
  <2>1. grades' = grades /\ Return(c) /\ UNCHANGED published
    BY <1>4, <1>5 DEF WritePublished, WriteGrade
  <2> QED BY <1>1, <1>3, <2>1, ReturnStep DEF tables, history, kept
<1>6. CASE grades[s] # None
  <2>1. Become(c, k) /\ published' = published \cup {<<s, grade>>}
    BY <1>6 DEF WritePublished
  <2>2. published' \subseteq Students \X Grades
    BY <1>2, <2>1 DEF IInv, TypeOK
  <2>3. Forward /\ TablesOK' /\ Rows' /\ EventsTellPublished'
    BY <1>2, <1>3, <1>4, <2>1, <2>2, WriteGradeKeeps, GradeWritten
  <2>4. k \in CallStates /\ k.at = "publish_row" /\ k.student = s /\ k.grade = grade
    BY <1>1, BusyCall, CallGoesOn
  <2>5. s \in Graded /\ assignment # None
    BY <1>2, <1>6, StudentGrade
  <2>6. s \in Graded'
    BY <2>3, <2>5 DEF Forward
  <2> HIDE DEF k
  <2>7. CallOK(k, assignment', Graded', made', published')
    BY <1>3, <2>1, <2>4, <2>5, <2>6 DEF CallOK
  <2> QED BY <1>1, <1>3, <2>1, <2>3, <2>4, <2>7, QuietStep
<1> QED BY <1>5, <1>6

LEMMA SendPublishedStep ==
    ASSUME IInv, NEW c \in Calls, SendPublished(c) PROVE IInv'
<1> DEFINE k == [at |-> "idle"]
<1>1. call[c].at = "publish_event" /\ ~Holds(c) /\ k.at \notin {"submit", "discard"}
    BY DEF SendPublished, Holds
<1>2. UNCHANGED <<assignment, submissions, grades, made, published, files, now, saved,
                  kept>>
    BY DEF SendPublished, tables, history, kept
<1>3. <<call[c].student, call[c].grade>> \in published
    BY <1>1, BusyCall DEF CallOK
<1>4. events' \subseteq published
    BY <1>3 DEF SendPublished, IInv, EventsTellPublished
<1>5. EventsTellPublished'
    BY <1>2, <1>4 DEF EventsTellPublished
<1>6. TablesOK'
    BY <1>2, <1>4 DEF IInv, TypeOK, TablesOK
<1>7. Rows'
    BY <1>2 DEF IInv, Rows, MadeOK, NothingOrphaned, RowIsOneSubmission, StatusFollowsGrade,
                Exists
<1>8. Forward
    BY <1>2, Kept
<1>9. k \in CallStates /\ CallOK(k, assignment', Graded', made', published')
    BY CallRecords, IdleOK
<1>10. Become(c, k)
    BY DEF SendPublished, Return
<1> HIDE DEF k
<1> QED BY <1>1, <1>2, <1>5, <1>6, <1>7, <1>8, <1>9, <1>10, QuietStep

-----------------------------------------------------------------------------
(* The assignment, and the clock *)

LEMMA TableStep ==
    ASSUME IInv, UNCHANGED <<call, files, saved, made, kept>>, now' \in 0..LastHour,
           Forward, TablesOK', Rows', EventsTellPublished'
    PROVE  IInv'
<1>1. CallsOK' /\ call' \in [Calls -> CallStates]
    BY CallsKeep DEF IInv
<1>2. FilesOK'
  <2>1. /\ \A d \in Calls : Holds(d)' = Holds(d) /\ (Submits(d)' => Submits(d))
        /\ \A d \in Calls : Holds(d) => call'[d].row.file = call[d].row.file
    BY DEF Holds, Submits
  <2> QED BY <2>1, FilesStay DEF IInv
<1>3. TypeOK'
    BY <1>1 DEF IInv, TypeOK, TablesOK, kept
<1> QED BY <1>1, <1>2, <1>3 DEF IInv

LEMMA TickStep == ASSUME IInv, Tick PROVE IInv'
<1>1. UNCHANGED <<assignment, submissions, grades, call, made, published, files, events,
                  saved, kept>>
    BY DEF Tick, tables, history, kept
<1>2. now' \in 0..LastHour
    BY Constants DEF Tick, IInv, TypeOK
<1>3. TablesOK' /\ EventsTellPublished'
    BY <1>1 DEF IInv, TypeOK, TablesOK, EventsTellPublished
<1>4. Rows'
    BY <1>1 DEF IInv, Rows, MadeOK, NothingOrphaned, RowIsOneSubmission, StatusFollowsGrade,
                Exists
<1> QED BY <1>1, <1>2, <1>3, <1>4, Kept, TableStep

LEMMA CreateAssignmentStep ==
    ASSUME IInv, NEW terms \in Terms, CreateAssignment(terms) PROVE IInv'
<1>1. /\ assignment = None /\ assignment' = terms /\ terms # None
      /\ UNCHANGED <<submissions, grades, call, made, published, files, now, events, saved,
                     kept>>
    BY TermsFields DEF CreateAssignment, history, kept
<1>2. \A s \in Students : submissions[s] = None /\ grades[s] = None
    BY <1>1, TermsFields DEF IInv, Rows, NothingOrphaned, Exists
<1>3. Forward
    BY <1>1 DEF Forward, Graded, Grows
<1>4. TablesOK' /\ EventsTellPublished'
    BY <1>1 DEF IInv, TypeOK, TablesOK, EventsTellPublished
<1>5. Rows'
    BY <1>1, <1>2 DEF IInv, Rows, MadeOK, NothingOrphaned, RowIsOneSubmission,
                      StatusFollowsGrade
<1>6. now' \in 0..LastHour
    BY <1>1 DEF IInv, TypeOK
<1> QED BY <1>1, <1>3, <1>4, <1>5, <1>6, TableStep

LEMMA DeleteAssignmentStep == ASSUME IInv, DeleteAssignment PROVE IInv'
<1>1. /\ assignment' = Deleted /\ Deleted # None
      /\ submissions' = [s \in Students |-> None]
      /\ grades' = [s \in Students |-> None]
      /\ UNCHANGED <<call, made, published, files, now, events, saved, kept>>
    BY GradingAssumption DEF DeleteAssignment, history, kept
<1>2. Deleted \notin Terms
    BY GradingAssumption
<1>3. Forward
    BY <1>1, <1>2 DEF Forward, Graded, Grows, Exists
<1>4. TablesOK' /\ EventsTellPublished'
    BY <1>1 DEF IInv, TypeOK, TablesOK, EventsTellPublished
<1>5. Rows'
    BY <1>1 DEF IInv, Rows, MadeOK, NothingOrphaned, RowIsOneSubmission, StatusFollowsGrade
<1>6. now' \in 0..LastHour
    BY <1>1 DEF IInv, TypeOK
<1> QED BY <1>1, <1>3, <1>4, <1>5, <1>6, TableStep

LEMMA WriteEditStep ==
    ASSUME IInv, NEW c \in Calls, WriteEdit(c) PROVE IInv'
<1> DEFINE k == [at |-> "idle"]
<1>1. call[c].at = "edit" /\ ~Holds(c) /\ k.at \notin {"submit", "discard"}
    BY DEF WriteEdit, Holds
<1>2. UNCHANGED <<submissions, grades, made, published, files, now, events, saved, kept>>
    BY DEF WriteEdit, history, kept
<1>3. call[c].terms \in Terms /\ call[c].terms # None
    BY <1>1, BusyCall, CallFields, TermsFields
<1>4. /\ assignment' \in Terms \cup {None, Deleted}
      /\ (assignment' \in Terms) = (assignment \in Terms)
      /\ (assignment' = None) = (assignment = None)
    BY <1>3, GradingAssumption DEF WriteEdit, Exists, IInv, TypeOK
<1>5. Forward
    BY <1>2, <1>4 DEF Forward, Graded, Grows, Exists
<1>6. TablesOK' /\ EventsTellPublished'
    BY <1>2, <1>4 DEF IInv, TypeOK, TablesOK, EventsTellPublished
<1>7. Rows'
    BY <1>2, <1>4 DEF IInv, Rows, MadeOK, NothingOrphaned, RowIsOneSubmission,
                      StatusFollowsGrade, Exists
<1>8. k \in CallStates /\ CallOK(k, assignment', Graded', made', published')
    BY CallRecords, IdleOK
<1>9. Become(c, k)
    BY DEF WriteEdit, Return
<1> HIDE DEF k
<1> QED BY <1>1, <1>2, <1>5, <1>6, <1>7, <1>8, <1>9, QuietStep

-----------------------------------------------------------------------------
(* Files *)

LEMMA FilesSaved ==
    ASSUME IInv
    PROVE  \A f \in files \cup unsure : f <= saved /\ f \in Nat
<1>1. files \cup unsure \subseteq Nat
    BY Constants DEF IInv, TypeOK, Files
<1> QED BY <1>1 DEF IInv, FilesOK, FilesKept

LEMMA BeginSubmitStep ==
    ASSUME IInv, NEW c \in Calls, NEW s \in Students, BeginSubmit(c, s)
    PROVE  IInv'
<1> DEFINE late == CalculatePenalty(now, assignment.due, assignment.policy)
           row == [file |-> saved', at |-> now, isLate |-> late.isLate,
                   daysLate |-> late.daysLate, status |-> "submitted"]
           k == [at |-> "submit", student |-> s, row |-> row]
<1>1. /\ Idle(c) /\ assignment \in Terms /\ assignment # None
      /\ saved < MaxFiles /\ saved' = saved + 1 /\ files' = files \cup {saved'}
      /\ Become(c, k)
      /\ UNCHANGED <<assignment, submissions, grades, now, events, made, published, unsure,
                     orphans>>
    BY TermsFields DEF BeginSubmit, tables, history, kept, Exists
<1>2. saved \in Nat /\ saved' \in Files /\ saved' \in 0..MaxFiles /\ now \in Nat
      /\ now \in 0..LastHour
    BY <1>1, Constants DEF IInv, TypeOK, Files
<1>3. row \in Submissions
  <2>1. assignment.due \in Nat
    BY <1>1, TermsFields
  <2>2. late.isLate \in BOOLEAN /\ late.daysLate \in Nat
    BY <1>2, <2>1, PenaltyType
  <2> QED BY <1>2, <2>2 DEF Submissions
<1>4. k \in CallStates /\ k.at = "submit" /\ k.row = row /\ row.file = saved'
    BY <1>3, CallRecords
<1>5. Forward
    BY <1>1, Kept
<1>6. CallOK(k, assignment', Graded', made', published')
    BY <1>1 DEF CallOK
<1> HIDE DEF k, row
<1>7. CallsOK' /\ call' \in [Calls -> CallStates]
    BY <1>1, <1>4, <1>5, <1>6, CallsMove DEF IInv
<1>8. TypeOK'
    BY <1>1, <1>2, <1>7 DEF IInv, TypeOK
<1>9. Rows' /\ EventsTellPublished'
    BY <1>1 DEF IInv, Rows, MadeOK, NothingOrphaned, RowIsOneSubmission, StatusFollowsGrade,
                Exists, EventsTellPublished
<1>10. MadeFiles' = MadeFiles /\ saved' \notin files /\ saved' \notin MadeFiles
  <2>1. MadeFiles' = MadeFiles
    BY <1>1 DEF MadeFiles
  <2>2. \A f \in files \cup unsure : f <= saved /\ f \in Nat
    BY FilesSaved
  <2>3. saved' \notin files \cup unsure
    BY <1>1, <1>2, <2>2
  <2> QED BY <2>1, <2>3 DEF IInv, FilesOK, FilesKept
<1>11. FilesKept'
  <2>1. \A f \in files \cup unsure : f <= saved /\ f \in Nat
    BY FilesSaved
  <2>2. \A f \in files' \cup unsure' : f <= saved'
    BY <1>1, <1>2, <2>1
  <2> QED BY <1>1, <1>10, <2>2 DEF IInv, FilesOK, FilesKept
<1>12. /\ call'[c] = k
       /\ \A d \in Calls \ {c} : call'[d] = call[d]
    BY <1>1, <1>4, Moves DEF IInv
<1>13. FilesOwned'
  <2>1. \A d \in Calls \ {c} : Holds(d) => call[d].row.file \in files
    BY DEF IInv, FilesOK, FilesOwned
  <2>2. ASSUME NEW d \in Calls, Holds(d)'
        PROVE  /\ call'[d].row.file \in files'
               /\ call'[d].row.file \in MadeFiles' =>
                      ~Submits(d)' /\ call'[d].row.file \in unsure'
    <3>1. CASE d = c
        BY <1>1, <1>4, <1>10, <1>12, <3>1
    <3>2. CASE d # c
        BY <1>1, <1>10, <1>12, <2>2, <3>2 DEF IInv, FilesOK, FilesOwned, Submits, Holds
    <3> QED BY <3>1, <3>2
  <2>3. ASSUME NEW d \in Calls, NEW e \in Calls, Holds(d)', Holds(e)',
               call'[d].row.file = call'[e].row.file
        PROVE  d = e
    <3>1. CASE d # c /\ e # c
        BY <1>12, <2>3, <3>1 DEF IInv, FilesOK, FilesOwned, Holds
    <3>2. CASE d = c \/ e = c
        BY <1>4, <1>10, <1>12, <2>1, <2>3, <3>2 DEF Holds
    <3> QED BY <3>1, <3>2
  <2> QED BY <2>2, <2>3 DEF FilesOwned
<1>14. FilesAccounted'
  <2> SUFFICES ASSUME NEW f \in files'
               PROVE  \/ \E t \in Students : \E i \in DOMAIN made'[t] : made'[t][i].file = f
                      \/ \E d \in Calls : Holds(d)' /\ call'[d].row.file = f
                      \/ f \in orphans'
    BY DEF FilesAccounted
  <2>1. CASE f = saved'
    BY <1>4, <1>12, <2>1 DEF Holds
  <2>2. CASE f # saved'
    <3>1. \/ \E t \in Students : \E i \in DOMAIN made[t] : made[t][i].file = f
          \/ \E d \in Calls : Holds(d) /\ call[d].row.file = f
          \/ f \in orphans
        BY <1>1, <2>2 DEF IInv, FilesOK, FilesAccounted
    <3>2. \A d \in Calls : Holds(d) => Holds(d)' /\ call'[d] = call[d]
        BY <1>1, <1>12 DEF Idle, Holds
    <3> QED BY <1>1, <3>1, <3>2
  <2> QED BY <2>1, <2>2
<1> QED BY <1>7, <1>8, <1>9, <1>11, <1>13, <1>14 DEF IInv, FilesOK

\* A submit that was refused still holds its file.
LEMMA DiscardNext ==
    ASSUME IInv, NEW c \in Calls, Submits(c), ThenDiscard(c),
           UNCHANGED <<tables, files, now, events, saved, history>>
    PROVE  IInv'
<1> DEFINE k == [call[c] EXCEPT !.at = "discard"]
<1>1. /\ k \in CallStates /\ k.at = "discard" /\ k.row = call[c].row
      /\ Become(c, k)
    BY BusyCall, CallGoesOn DEF Submits, ThenDiscard
<1>2. assignment # None
    BY BusyCall DEF Submits
<1>3. UNCHANGED <<assignment, submissions, grades, made, published, files, now, events,
                  saved, unsure, orphans>>
    BY DEF tables, history
<1> HIDE DEF k
<1>4. CallOK(k, assignment', Graded', made', published')
    BY <1>1, <1>2, <1>3 DEF CallOK
<1>5. CallsOK' /\ call' \in [Calls -> CallStates]
    BY <1>1, <1>3, <1>4, Kept, CallsMove DEF IInv
<1>6. TypeOK'
    BY <1>3, <1>5 DEF IInv, TypeOK
<1>7. Rows' /\ EventsTellPublished'
    BY <1>3 DEF IInv, Rows, MadeOK, NothingOrphaned, RowIsOneSubmission, StatusFollowsGrade,
                Exists, EventsTellPublished
<1>8. /\ call'[c] = k
      /\ \A d \in Calls \ {c} : call'[d] = call[d]
    BY <1>1, Moves DEF IInv
<1>9. /\ \A d \in Calls : Holds(d)' = Holds(d)
      /\ \A d \in Calls : Holds(d) => call'[d].row.file = call[d].row.file
      /\ \A d \in Calls : Submits(d)' => Submits(d)
    BY <1>1, <1>8 DEF Holds, Submits
<1>10. FilesOK'
    BY <1>3, <1>9, FilesStay DEF IInv, kept
<1> QED BY <1>5, <1>6, <1>7, <1>10 DEF IInv

\* The file of a submit that was refused goes, or is left behind; it was no one
\* else's, and no submission's but for one whose answer was lost.
LEMMA DiscardFileStep ==
    ASSUME IInv, NEW c \in Calls, DiscardFile(c) PROVE IInv'
<1> DEFINE k == [at |-> "idle"]
           f0 == call[c].row.file
<1>1. k \in CallStates /\ k.at = "idle" /\ Become(c, k) /\ Holds(c) /\ ~Submits(c)
    BY CallRecords DEF DiscardFile, Return, Holds, Submits
<1>2. UNCHANGED <<assignment, submissions, grades, now, events, saved, made, published, unsure>>
    BY DEF DiscardFile, tables
<1>3. \/ files' = files \ {f0} /\ orphans' = orphans
      \/ files' = files /\ orphans' = orphans \cup {f0}
    BY DEF DiscardFile
<1>4. f0 \in Files
    BY <1>1 DEF IInv, TypeOK, FilesOK, FilesOwned
<1>5. CallOK(k, assignment', Graded', made', published')
    BY IdleOK
<1> HIDE DEF k
<1>6. CallsOK' /\ call' \in [Calls -> CallStates]
    BY <1>1, <1>2, <1>5, Kept, CallsMove DEF IInv
<1>7. TypeOK'
    BY <1>2, <1>3, <1>4, <1>6 DEF IInv, TypeOK
<1>8. Rows' /\ EventsTellPublished'
    BY <1>2 DEF IInv, Rows, MadeOK, NothingOrphaned, RowIsOneSubmission, StatusFollowsGrade,
                Exists, EventsTellPublished
<1>9. MadeFiles' = MadeFiles /\ (f0 \in MadeFiles => f0 \in unsure)
    BY <1>1, <1>2 DEF MadeFiles, IInv, FilesOK, FilesOwned
<1>10. FilesKept'
    BY <1>2, <1>3, <1>9 DEF IInv, FilesOK, FilesKept
<1>11. /\ call'[c] = k
       /\ \A d \in Calls \ {c} : call'[d] = call[d]
    BY <1>1, Moves DEF IInv
<1>12. \A d \in Calls : Holds(d)' => d # c /\ Holds(d) /\ call'[d] = call[d]
    BY <1>1, <1>11 DEF Holds
<1>13. FilesOwned'
  <2>1. ASSUME NEW d \in Calls, Holds(d)'
        PROVE  /\ call'[d].row.file \in files'
               /\ call'[d].row.file \in MadeFiles' =>
                      ~Submits(d)' /\ call'[d].row.file \in unsure'
    <3>1. d # c /\ Holds(d) /\ call'[d] = call[d]
        BY <1>12, <2>1
    <3>2. call[d].row.file # f0
        BY <1>1, <3>1 DEF IInv, FilesOK, FilesOwned
    <3> QED BY <1>2, <1>3, <1>9, <3>1, <3>2 DEF IInv, FilesOK, FilesOwned, Submits
  <2>2. ASSUME NEW d \in Calls, NEW e \in Calls, Holds(d)', Holds(e)',
               call'[d].row.file = call'[e].row.file
        PROVE  d = e
    BY <1>12, <2>2 DEF IInv, FilesOK, FilesOwned
  <2> QED BY <2>1, <2>2 DEF FilesOwned
<1>14. FilesAccounted'
  <2> SUFFICES ASSUME NEW f \in files'
               PROVE  \/ \E t \in Students : \E i \in DOMAIN made'[t] : made'[t][i].file = f
                      \/ \E d \in Calls : Holds(d)' /\ call'[d].row.file = f
                      \/ f \in orphans'
    BY DEF FilesAccounted
  <2>1. CASE f = f0
    BY <1>3, <2>1
  <2>2. CASE f # f0
    <3>1. \/ \E t \in Students : \E i \in DOMAIN made[t] : made[t][i].file = f
          \/ \E d \in Calls \ {c} : Holds(d) /\ call[d].row.file = f
          \/ f \in orphans
        BY <1>3, <2>2 DEF IInv, FilesOK, FilesAccounted
    <3>2. \A d \in Calls \ {c} : Holds(d) => Holds(d)' /\ call'[d] = call[d]
        BY <1>11 DEF Holds
    <3> QED BY <1>2, <1>3, <3>1, <3>2
  <2> QED BY <2>1, <2>2
<1> QED BY <1>6, <1>7, <1>8, <1>10, <1>13, <1>14 DEF IInv, FilesOK

LEMMA Appended ==
    ASSUME MadeOK, NEW s \in Students, NEW row \in Submissions,
           Upsert(s, row)
    PROVE  /\ MadeOK' /\ Grows(made, made')
           /\ \E i \in DOMAIN made'[s] : made'[s][i] = row
           /\ \A t \in Students : \A i \in DOMAIN made'[t] :
                made'[t][i] = row \/ (i \in DOMAIN made[t] /\ made'[t][i] = made[t][i])
<1> DEFINE n == Len(made[s]) + 1
<1>1. made[s] \in Seq(Submissions) /\ made'[s] = Append(made[s], row)
    BY DEF MadeOK, Upsert
<1>2. /\ Append(made[s], row) \in Seq(Submissions)
      /\ Len(Append(made[s], row)) = n
      /\ \A i \in 1..Len(made[s]) : Append(made[s], row)[i] = made[s][i]
      /\ Append(made[s], row)[n] = row
    BY <1>1, AppendProperties
<1>3. Len(made[s]) \in Nat /\ DOMAIN made[s] = 1..Len(made[s]) /\ DOMAIN made'[s] = 1..n
    BY <1>1, <1>2, LenProperties
<1>4. \A t \in Students \ {s} : made'[t] = made[t]
    BY DEF MadeOK, Upsert
<1>5. MadeOK'
    BY <1>1, <1>2 DEF MadeOK, Upsert
<1>6. Grows(made, made')
    BY <1>1, <1>2, <1>3, <1>4 DEF Grows
<1>7. n \in DOMAIN made'[s] /\ made'[s][n] = row
    BY <1>1, <1>2, <1>3
<1>8. \A i \in DOMAIN made'[s] :
        made'[s][i] = row \/ (i \in DOMAIN made[s] /\ made'[s][i] = made[s][i])
    BY <1>1, <1>2, <1>3
<1> QED BY <1>4, <1>5, <1>6, <1>7, <1>8

\* A submit stores its row and returns, with its file no longer its own, or goes on
\* to discard the file because it does not know.
LEMMA StoreRow ==
    ASSUME IInv, NEW c \in Calls, Submits(c), Exists,
           NEW s, NEW row, s = call[c].student, row = call[c].row, Upsert(s, row),
           \/ Return(c) /\ UNCHANGED unsure
           \/ ThenDiscard(c) /\ unsure' = unsure \cup {row.file},
           UNCHANGED <<assignment, grades, files, now, events, saved, published, orphans>>
    PROVE  IInv'
<1>0. call[c] \in CallStates /\ call[c].at = "submit" /\ row.status = "submitted"
    BY BusyCall DEF Submits, CallOK
<1>1. PICK k \in CallStates :
        /\ Become(c, k)
        /\ \/ k.at = "idle" /\ UNCHANGED unsure
           \/ /\ k.at = "discard" /\ k.row = row
              /\ unsure' = unsure \cup {row.file}
  <2>1. CASE Return(c) /\ UNCHANGED unsure
    BY <2>1, CallRecords DEF Return
  <2>2. CASE ThenDiscard(c) /\ unsure' = unsure \cup {row.file}
    BY <1>0, <2>2, CallGoesOn DEF ThenDiscard
  <2> QED BY <2>1, <2>2
<1>2. CallOK(k, assignment', Graded', made', published')
    BY <1>0, <1>1, BusyCall DEF CallOK
<1>3. s \in Students /\ row \in Submissions
    BY BusyCall, CallFields DEF Submits
<1>17. submissions' = [submissions EXCEPT ![s] = row]
    BY DEF Upsert
<1>18. MadeOK
    BY DEF IInv, Rows
<1>4. /\ MadeOK' /\ Grows(made, made')
      /\ \E i \in DOMAIN made'[s] : made'[s][i] = row
      /\ \A t \in Students : \A i \in DOMAIN made'[t] :
           made'[t][i] = row \/ (i \in DOMAIN made[t] /\ made'[t][i] = made[t][i])
    BY <1>3, <1>18, Appended
<1>5. Forward
  <2>1. UNCHANGED <<assignment, grades, published>> /\ Graded' = Graded
    BY DEF Graded, Exists
  <2> QED BY <1>4, <2>1 DEF Forward
<1>6. CallsOK' /\ call' \in [Calls -> CallStates]
    BY <1>1, <1>2, <1>5, CallsMove DEF IInv
<1>7. /\ submissions' \in [Students -> Submissions \cup {None}]
      /\ submissions'[s] = row
      /\ \A t \in Students \ {s} : submissions'[t] = submissions[t]
    BY <1>3, <1>17 DEF IInv, TypeOK
<1>8. TypeOK'
  <2>1. \A t \in Students : \A i \in DOMAIN made'[t] : made'[t][i] \in Submissions
    BY <1>3, <1>4 DEF IInv, TypeOK
  <2>2. row.file \in Files
    BY <1>3 DEF Submissions
  <2>3. unsure' \subseteq Files
    BY <1>1, <2>2 DEF IInv, TypeOK
  <2> QED BY <1>6, <1>7, <2>1, <2>3 DEF IInv, TypeOK
<1>9. Rows'
  <2>1. NothingOrphaned'
    BY DEF NothingOrphaned, Exists
  <2>2. RowIsOneSubmission'
    BY <1>4, <1>7 DEF IInv, Rows, RowIsOneSubmission, Grows
  <2>3. StatusFollowsGrade'
    BY <1>0, <1>7 DEF IInv, Rows, StatusFollowsGrade
  <2> QED BY <1>4, <2>1, <2>2, <2>3 DEF Rows
<1>10. EventsTellPublished'
    BY DEF IInv, EventsTellPublished
<1>11. row.file \in Files /\ MadeFiles' = MadeFiles \cup {row.file}
  <2>1. row.file \in Files
    BY <1>3 DEF Submissions
  <2>2. \A f \in MadeFiles' : f \in MadeFiles \cup {row.file}
    BY <1>4 DEF MadeFiles
  <2>3. \A f \in MadeFiles : f \in MadeFiles'
    BY <1>4 DEF MadeFiles, Grows
  <2>4. row.file \in MadeFiles'
    BY <1>3, <1>4, <2>1 DEF MadeFiles
  <2> QED BY <2>1, <2>2, <2>3, <2>4
<1>12. FilesKept'
  <2>1. row.file \in files
    BY DEF IInv, FilesOK, FilesOwned, Submits, Holds
  <2> QED BY <1>1, <1>11, <2>1 DEF IInv, FilesOK, FilesKept
<1>13. /\ call'[c] = k
       /\ \A d \in Calls \ {c} : call'[d] = call[d]
    BY <1>1, Moves DEF IInv
<1>14. /\ \A d \in Calls \ {c} : Holds(d)' = Holds(d) /\ call'[d] = call[d]
       /\ Holds(c) /\ ~Submits(c)'
       /\ Holds(c)' => call'[c].row = row /\ row.file \in unsure'
    BY <1>1, <1>13 DEF Holds, Submits
<1>15. FilesOwned'
  <2>1. ASSUME NEW d \in Calls, Holds(d)'
        PROVE  /\ call'[d].row.file \in files'
               /\ call'[d].row.file \in MadeFiles' =>
                      ~Submits(d)' /\ call'[d].row.file \in unsure'
    <3>1. CASE d = c
        BY <1>14, <2>1, <3>1 DEF IInv, FilesOK, FilesOwned
    <3>2. CASE d # c
      <4>1. Holds(d) /\ call'[d] = call[d] /\ call[d].row.file # row.file
        BY <1>14, <2>1, <3>2 DEF IInv, FilesOK, FilesOwned
      <4>2. /\ call[d].row.file \in files
            /\ call[d].row.file \in MadeFiles => ~Submits(d) /\ call[d].row.file \in unsure
        BY <4>1 DEF IInv, FilesOK, FilesOwned
      <4> QED BY <1>1, <1>11, <4>1, <4>2 DEF Submits
    <3> QED BY <3>1, <3>2
  <2>2. ASSUME NEW d \in Calls, NEW e \in Calls, Holds(d)', Holds(e)',
               call'[d].row.file = call'[e].row.file
        PROVE  d = e
    <3>1. Holds(d) /\ call'[d].row.file = call[d].row.file
        BY <1>14, <2>2
    <3>2. Holds(e) /\ call'[e].row.file = call[e].row.file
        BY <1>14, <2>2
    <3> QED BY <2>2, <3>1, <3>2 DEF IInv, FilesOK, FilesOwned
  <2> QED BY <2>1, <2>2 DEF FilesOwned
<1>16. FilesAccounted'
  <2> SUFFICES ASSUME NEW f \in files'
               PROVE  \/ \E t \in Students : \E i \in DOMAIN made'[t] : made'[t][i].file = f
                      \/ \E d \in Calls : Holds(d)' /\ call'[d].row.file = f
                      \/ f \in orphans'
    BY DEF FilesAccounted
  <2>1. CASE f = row.file
    BY <1>3, <1>4, <2>1
  <2>2. CASE f # row.file
    <3>1. \/ \E t \in Students : \E i \in DOMAIN made[t] : made[t][i].file = f
          \/ \E d \in Calls \ {c} : Holds(d) /\ call[d].row.file = f
          \/ f \in orphans
        BY <2>2 DEF IInv, FilesOK, FilesAccounted
    <3>2. CASE \E t \in Students : \E i \in DOMAIN made[t] : made[t][i].file = f
        BY <1>4, <3>2 DEF Grows
    <3> QED BY <1>14, <3>1, <3>2
  <2> QED BY <2>1, <2>2
<1> QED BY <1>6, <1>8, <1>9, <1>10, <1>12, <1>15, <1>16 DEF IInv, FilesOK

LEMMA StoreSubmissionStep ==
    ASSUME IInv, NEW c \in Calls, StoreSubmission(c) PROVE IInv'
<1>1. Submits(c)
    BY DEF StoreSubmission, Submits
<1>2. UNCHANGED <<assignment, grades, files, now, events, saved, published, unsure, orphans>>
    BY DEF StoreSubmission, kept
<1>3. CASE ~Exists
  <2>1. ThenDiscard(c) /\ UNCHANGED <<submissions, made>>
    BY <1>3 DEF StoreSubmission
  <2> QED BY <1>1, <1>2, <2>1, DiscardNext DEF tables, history
<1>4. CASE Exists
  <2>1. Upsert(call[c].student, call[c].row) /\ Return(c)
    BY <1>4 DEF StoreSubmission
  <2> QED BY <1>1, <1>2, <1>4, <2>1, StoreRow
<1> QED BY <1>3, <1>4

-----------------------------------------------------------------------------
(* Failures *)

LEMMA StatementFailsStep ==
    ASSUME IInv, NEW c \in Calls, StatementFails(c) PROVE IInv'
<1>1. /\ UNCHANGED <<tables, files, now, events, saved, history>>
      /\ call[c].at \notin {"idle", "discard"}
    BY DEF StatementFails
<1>2. CASE Submits(c)
  <2>1. ThenDiscard(c)
    BY <1>2 DEF StatementFails, Submits
  <2> QED BY <1>1, <1>2, <2>1, DiscardNext
<1>3. CASE call[c].at \in {"publish_row", "publish_mark"}
  <2> DEFINE k == [at |-> "publish_event", student |-> call[c].student,
                   grade |-> call[c].grade]
  <2>1. Become(c, k)
    BY <1>3 DEF StatementFails
  <2>2. k \in CallStates /\ CallOK(k, assignment, Graded, made, published)
    BY <1>3, EventNext
  <2>3. ~Holds(c) /\ k.at \notin {"submit", "discard"}
    BY <1>3 DEF Holds
  <2> HIDE DEF k
  <2> QED BY <1>1, <2>1, <2>2, <2>3, ReadStep
<1>4. CASE ~Submits(c) /\ call[c].at \notin {"publish_row", "publish_mark"}
  <2>1. Return(c) /\ ~Holds(c)
    BY <1>1, <1>4 DEF StatementFails, Submits, Holds
  <2> QED BY <1>1, <2>1, ReturnStep
<1> QED BY <1>2, <1>3, <1>4

LEMMA AnswerLostStep ==
    ASSUME IInv, NEW c \in Calls, AnswerLost(c) PROVE IInv'
<1> DEFINE s == call[c].student
           k == [at |-> "idle"]
<1>1. UNCHANGED <<assignment, files, now, events, saved, orphans>>
    BY DEF AnswerLost
<1>2. k \in CallStates /\ k.at \notin {"submit", "discard"}
    BY CallRecords
<1>3. CallOK(k, assignment', Graded', made', published')
    BY IdleOK
<1>4. CASE call[c].at = "submit"
  <2>1. /\ Exists /\ Upsert(s, call[c].row)
        /\ unsure' = unsure \cup {call[c].row.file} /\ ThenDiscard(c)
        /\ UNCHANGED <<grades, published>>
    BY <1>4 DEF AnswerLost
  <2> QED BY <1>1, <1>4, <2>1, StoreRow DEF Submits
<1>5. CASE call[c].at = "grade_insert"
  <2>1. /\ TakesGrade(s) /\ grades' = [grades EXCEPT ![s] = call[c].grade] /\ Return(c)
        /\ UNCHANGED <<submissions, made, published, unsure>>
    BY <1>5 DEF AnswerLost
  <2>2. s \in Students /\ call[c].grade \in Grades
    BY <1>5, BusyCall, CallFields
  <2>3. Exists
    BY <2>1, <2>2, StudentRow DEF TakesGrade, Exists
  <2>4. call[c].grade # None /\ grades \in [Students -> Grades \cup {None}]
    BY <2>2, NoRowAssumption DEF IInv, TypeOK
  <2>5. /\ grades' \in [Students -> Grades \cup {None}]
        /\ \A t \in Students : grades[t] # None => grades'[t] # None
    BY <2>1, <2>2, <2>4
  <2>6. published' \subseteq Students \X Grades
    BY <2>1 DEF IInv, TypeOK
  <2>7. Forward /\ TablesOK' /\ Rows' /\ EventsTellPublished'
    BY <1>1, <2>1, <2>3, <2>5, <2>6, GradeWritten
  <2>8. Become(c, k) /\ ~Holds(c)
    BY <1>5, <2>1 DEF Return, Holds
  <2> HIDE DEF k
  <2> QED BY <1>1, <1>2, <1>3, <2>1, <2>7, <2>8, QuietStep DEF kept
<1>6. CASE call[c].at = "publish_write"
  <2>1. /\ grades[s] # None /\ WriteGrade(s, call[c].grade) /\ Return(c)
        /\ published' = published \cup {<<s, call[c].grade>>}
        /\ UNCHANGED <<submissions, made, unsure>>
    BY <1>6 DEF AnswerLost
  <2>2. s \in Students /\ call[c].grade \in Grades
    BY <1>6, BusyCall, CallFields
  <2>3. published' \subseteq Students \X Grades
    BY <2>1, <2>2 DEF IInv, TypeOK
  <2>4. Forward /\ TablesOK' /\ Rows' /\ EventsTellPublished'
    BY <1>1, <2>1, <2>2, <2>3, WriteGradeKeeps, GradeWritten
  <2>5. Become(c, k) /\ ~Holds(c)
    BY <1>6, <2>1 DEF Return, Holds
  <2> HIDE DEF k
  <2> QED BY <1>1, <1>2, <1>3, <2>1, <2>4, <2>5, QuietStep DEF kept
<1> QED BY <1>4, <1>5, <1>6 DEF AnswerLost

\* The files of the calls that are lost stay, and are nobody's.
LEMMA RestartStep == ASSUME IInv, Restart PROVE IInv'
<1>1. /\ call' = [c \in Calls |-> [at |-> "idle"]]
      /\ orphans' = orphans \cup {call[c].row.file : c \in {d \in Calls : Holds(d)}}
      /\ UNCHANGED <<assignment, submissions, grades, made, published, files, now, events,
                     saved, unsure>>
    BY DEF Restart, tables
<1>2. orphans' \subseteq Files
    BY <1>1 DEF IInv, TypeOK, FilesOK, FilesOwned
<1>3. call' \in [Calls -> CallStates]
    BY <1>1, CallRecords
<1>4. TypeOK'
    BY <1>1, <1>2, <1>3 DEF IInv, TypeOK
<1>5. CallsOK'
    BY <1>1, IdleOK DEF CallsOK
<1>6. Rows' /\ EventsTellPublished'
    BY <1>1 DEF IInv, Rows, MadeOK, NothingOrphaned, RowIsOneSubmission, StatusFollowsGrade,
                Exists, EventsTellPublished
<1>7. \A c \in Calls : ~Holds(c)'
    BY <1>1 DEF Holds
<1>8. MadeFiles' = MadeFiles
    BY <1>1 DEF MadeFiles
<1>9. FilesKept' /\ FilesOwned'
    BY <1>1, <1>7, <1>8 DEF IInv, FilesOK, FilesKept, FilesOwned
<1>10. FilesAccounted'
    BY <1>1 DEF IInv, FilesOK, FilesAccounted
<1> QED BY <1>4, <1>5, <1>6, <1>9, <1>10 DEF IInv, FilesOK

-----------------------------------------------------------------------------
(* The specification *)

LEMMA InitHolds == Init => IInv
<1> SUFFICES ASSUME Init PROVE IInv
    OBVIOUS
<1>1. 0 \in 0..LastHour /\ 0 \in 0..MaxFiles
    BY Constants
<1>2. call \in [Calls -> CallStates] /\ CallsOK
    BY CallRecords, IdleOK DEF Init, CallsOK
<1>3. MadeOK /\ \A s \in Students : made[s] = <<>>
    BY DEF Init, MadeOK
<1>4. TypeOK
    BY <1>1, <1>2, <1>3 DEF Init, TypeOK
<1>5. Rows /\ EventsTellPublished
    BY <1>3 DEF Init, Rows, NothingOrphaned, RowIsOneSubmission, StatusFollowsGrade,
                EventsTellPublished
<1>6. FilesOK
    BY <1>3 DEF Init, FilesOK, FilesKept, FilesOwned, FilesAccounted, MadeFiles, Holds
<1> QED BY <1>2, <1>4, <1>5, <1>6 DEF IInv

LEMMA NextHolds == IInv /\ [Next]_vars => IInv'
<1> SUFFICES ASSUME IInv, [Next]_vars PROVE IInv'
    OBVIOUS
<1>1. ASSUME NEW terms \in Terms, CreateAssignment(terms) PROVE IInv'
    BY <1>1, CreateAssignmentStep
<1>2. CASE DeleteAssignment
    BY <1>2, DeleteAssignmentStep
<1>3. CASE Restart
    BY <1>3, RestartStep
<1>4. CASE Tick
    BY <1>4, TickStep
<1>5. ASSUME NEW c \in Calls, Begin(c) PROVE IInv'
  <2>1. ASSUME NEW terms \in Terms, CheckForEdit(c, terms) PROVE IInv'
    BY <2>1, CheckForEditStep
  <2>2. ASSUME NEW s \in Students, BeginSubmit(c, s) PROVE IInv'
    BY <2>2, BeginSubmitStep
  <2>3. ASSUME NEW s \in Students, BeginPublish(c, s) PROVE IInv'
    BY <2>3, BeginPublishStep
  <2>4. ASSUME NEW s \in Students, NEW score \in Scores, BeginGrade(c, s, score) PROVE IInv'
    BY <2>4, BeginGradeStep
  <2>5. ASSUME NEW s \in Students, NEW score \in Scores, BeginUpdate(c, s, score) PROVE IInv'
    BY <2>5, BeginUpdateStep
  <2> QED BY <1>5, <2>1, <2>2, <2>3, <2>4, <2>5 DEF Begin
<1>6. ASSUME NEW c \in Calls, Continue(c) PROVE IInv'
    BY <1>6, WriteEditStep, StoreSubmissionStep, ComputeGradeStep, InsertGradeStep,
       MarkGradedStep, ReadForUpdateStep, ComputeUpdateStep, WriteUpdateStep,
       WritePublishedStep, ReadForPublishStep, MarkReturnedStep, SendPublishedStep,
       DiscardFileStep, StatementFailsStep, AnswerLostStep DEF Continue
<1>7. CASE UNCHANGED vars
  <2>1. UNCHANGED <<assignment, submissions, grades, files, call, now, events, saved, made,
                    published, kept>>
    BY <1>7 DEF vars, kept
  <2>2. TablesOK' /\ EventsTellPublished' /\ now' \in 0..LastHour
    BY <2>1 DEF IInv, TypeOK, TablesOK, EventsTellPublished
  <2>3. Rows'
    BY <2>1 DEF IInv, Rows, MadeOK, NothingOrphaned, RowIsOneSubmission, StatusFollowsGrade,
                Exists
  <2> QED BY <2>1, <2>2, <2>3, Kept, TableStep
<1> QED BY <1>1, <1>2, <1>3, <1>4, <1>5, <1>6, <1>7 DEF Next

LEMMA Invariant == Spec => []IInv
<1> QED BY InitHolds, NextHolds, PTL DEF Spec

\* Every state the service reaches has the types of its tables and calls; grades
\* stay whole numbers of hundredths, and never negative, for any policy.
THEOREM GradingTypes == Spec => []TypeOK
<1>1. IInv => TypeOK
    BY DEF IInv
<1> QED BY <1>1, Invariant, PTL

\* No submission points to a file that is gone, unless its INSERT was committed and
\* went unanswered (submission_service.go:79-85).
THEOREM SubmissionsHaveFiles == Spec => []RowsHaveFiles
<1>1. IInv => RowsHaveFiles
  <2> SUFFICES ASSUME IInv, NEW s \in Students, submissions[s] # None
               PROVE  submissions[s].file \in files \cup unsure
    BY DEF RowsHaveFiles
  <2>1. submissions[s].file \in Files
    BY StudentRow DEF Submissions
  <2>2. submissions[s].file \in MadeFiles
    BY <2>1, StudentRow DEF MadeFiles, IsOneOf
  <2> QED BY <2>2 DEF IInv, FilesOK, FilesKept
<1> QED BY <1>1, Invariant, PTL

\* Whatever fails, only a restart or a failing delete leaves a file without a
\* submission and a call (submission_service.go:70-85).
THEOREM NoFileLeftBehind == Spec => []FilesAccounted
<1>1. IInv => FilesAccounted
    BY DEF IInv, FilesOK
<1> QED BY <1>1, Invariant, PTL

\* Grading never mixes the file of one submit with the lateness of another
\* (submission_repository.go:132-141).
THEOREM SubmissionsAreWhole == Spec => []RowIsOneSubmission
<1>1. IInv => RowIsOneSubmission
    BY DEF IInv, Rows
<1> QED BY <1>1, Invariant, PTL

\* A submission is graded or returned only with a grade, and returned only when one
\* was published (grading_service.go:80-86, 152-160).
THEOREM StatusNeverAhead == Spec => []StatusFollowsGrade
<1>1. IInv => StatusFollowsGrade
    BY DEF IInv, Rows
<1> QED BY <1>1, Invariant, PTL

\* No event tells of scores that were not published (grading_service.go:152-169).
THEOREM EventsAreTrue == Spec => []EventsTellPublished
<1>1. IInv => EventsTellPublished
    BY DEF IInv
<1> QED BY <1>1, Invariant, PTL
=============================================================================
