------------------------------ MODULE Grading ------------------------------
(***************************************************************************)
(* The assignment-grading-service: one assignment, its submissions and     *)
(* their grades, under concurrent calls (internal/service/*.go over        *)
(* internal/repository/*.go and migrations/001_init.sql).                  *)
(*                                                                         *)
(* The services hold no lock and open no transaction.  A call is a         *)
(* sequence of single SQL statements, each atomic in PostgreSQL, and what  *)
(* it read stays in memory while other calls run.  An action is one        *)
(* statement with the code around it.  Saving a file of a fresh name and   *)
(* reading the clock commute with everything and belong to the statement   *)
(* before them.                                                            *)
(*                                                                         *)
(* A statement can fail without effect, or take effect and have its answer *)
(* lost; deleting a file can fail; the process can restart.  A file exists *)
(* once Save has returned its name.  The row id of a submission is its     *)
(* student: the upsert keeps one row for each.  Titles, feedback and       *)
(* instructors are left out.                                               *)
(***************************************************************************)
EXTENDS LatePolicy, FiniteSets, Sequences

CONSTANTS
    Calls,         \* the calls in flight
    Students,
    Terms,         \* what an instructor may ask of the assignment
    Scores,        \* the scores an instructor may give
    LastHour,      \* bound on the clock
    MaxFiles,      \* bound on the files ever saved
    None,          \* no such row
    Deleted        \* the assignment was deleted

ASSUME GradingAssumption ==
    /\ \A terms \in Terms :
         ValidPolicy(terms.policy) /\ terms.due \in Nat /\ terms.max \in Nat \ {0}
    /\ Scores \subseteq Nat
    /\ LastHour \in Nat /\ MaxFiles \in Nat
    /\ None \notin Terms /\ Deleted \notin Terms /\ None # Deleted

VARIABLES
    assignment,    \* its terms; None before it is created, Deleted after that
    submissions,   \* the submission of each student, or None
    grades,        \* the grade of each student's submission, or None
    files,         \* the files in storage
    call,          \* where each call is, and what it has read
    now,           \* the clock
    events,        \* the grade.published events that reached Kafka
    saved,         \* number of files ever saved; the last one is the newest
    made,          \* history: each student's stored submissions, in order
    published,     \* history: every grade that was published in the database
    unsure,        \* history: files of submissions stored with the answer lost
    orphans        \* history: files a restart or a failing delete left behind

vars == <<assignment, submissions, grades, files, call, now, events, saved, made,
          published, unsure, orphans>>
tables == <<assignment, submissions, grades>>
kept == <<unsure, orphans>>
history == <<made, published, unsure, orphans>>

Files == 1..MaxFiles
Submissions ==
    [file : Files, at : 0..LastHour, isLate : BOOLEAN, daysLate : Nat,
     status : {"submitted", "graded", "returned"}]
Grades == [score : Nat, adjusted : Nat, status : {"draft", "published"}]

ASSUME NoRowAssumption == None \notin Submissions /\ None \notin Grades

CallStates ==
    [at : {"idle"}]
    \cup [at : {"submit", "discard"}, student : Students, row : Submissions]
    \cup [at : {"grade_terms"}, student : Students, score : Scores, row : Submissions]
    \cup [at : {"grade_insert"}, student : Students, grade : Grades, row : Submissions]
    \cup [at : {"grade_mark", "publish_mark"}, student : Students, grade : Grades,
          row : Submissions]
    \cup [at : {"update_row"}, student : Students, score : Scores, grade : Grades]
    \cup [at : {"update_terms"}, student : Students, score : Scores, grade : Grades,
          row : Submissions]
    \cup [at : {"update_write", "publish_write", "publish_row", "publish_event"},
          student : Students, grade : Grades]
    \cup [at : {"edit"}, terms : Terms]

TypeOK ==
    /\ assignment \in Terms \cup {None, Deleted}
    /\ submissions \in [Students -> Submissions \cup {None}]
    /\ grades \in [Students -> Grades \cup {None}]
    /\ files \subseteq Files
    /\ call \in [Calls -> CallStates]
    /\ now \in 0..LastHour
    /\ saved \in 0..MaxFiles
    /\ unsure \subseteq Files /\ orphans \subseteq Files
    /\ \A s \in Students : \A i \in DOMAIN made[s] : made[s][i] \in Submissions
    /\ published \subseteq Students \X Grades
    /\ events \subseteq Students \X Grades

Init ==
    /\ assignment = None
    /\ submissions = [s \in Students |-> None]
    /\ grades = [s \in Students |-> None]
    /\ files = {}
    /\ call = [c \in Calls |-> [at |-> "idle"]]
    /\ now = 0
    /\ events = {}
    /\ saved = 0
    /\ made = [s \in Students |-> <<>>]
    /\ published = {}
    /\ unsure = {} /\ orphans = {}

Exists == assignment \in Terms

Idle(c) == call[c].at = "idle"
Become(c, state) == call' = [call EXCEPT ![c] = state]
Return(c) == Become(c, [at |-> "idle"])

\* Slip: the file of the row is left alone, its lateness is not.
WriteSubmission_slip(s, row, status) ==
    submissions' =
        IF submissions[s] = None THEN submissions
        ELSE [submissions EXCEPT ![s] =
                [@ EXCEPT !.status = status, !.isLate = row.isLate,
                          !.daysLate = row.daysLate]]

\* UPDATE submissions ... WHERE id: the whole row of the caller but for
\* submitted_at, if the row still exists (submissionRepo.Update).
WriteSubmission(s, row, status) ==
    submissions' =
        IF submissions[s] = None THEN submissions
        ELSE [submissions EXCEPT ![s] =
                [row EXCEPT !.status = status, !.at = submissions[s].at]]

-----------------------------------------------------------------------------
(* AssignmentService *)

CreateAssignment(terms) ==
    /\ assignment = None
    /\ assignment' = terms
    /\ UNCHANGED <<submissions, grades, files, call, now, events, saved, history>>

\* UpdateAssignment: HasSubmissions answers no.
CheckForEdit(c, terms) ==
    /\ Idle(c)
    /\ Exists
    /\ \A s \in Students : submissions[s] = None
    /\ Become(c, [at |-> "edit", terms |-> terms])
    /\ UNCHANGED <<tables, files, now, events, saved, history>>

\* Then the row is read, all its fields are replaced, and it is written.
WriteEdit(c) ==
    /\ call[c].at = "edit"
    /\ assignment' = IF Exists THEN call[c].terms ELSE assignment
    /\ Return(c)
    /\ UNCHANGED <<submissions, grades, files, now, events, saved, history>>

\* DeleteAssignment, with the ON DELETE CASCADE of both other tables.
DeleteAssignment ==
    /\ Exists
    /\ assignment' = Deleted
    /\ submissions' = [s \in Students |-> None]
    /\ grades' = [s \in Students |-> None]
    /\ UNCHANGED <<files, call, now, events, saved, history>>

-----------------------------------------------------------------------------
(* SubmissionService.SubmitAssignment *)

\* The assignment is read, the file saved, and lateness computed.
BeginSubmit(c, s) ==
    /\ Idle(c)
    /\ Exists
    /\ saved < MaxFiles
    /\ saved' = saved + 1
    /\ files' = files \cup {saved'}
    /\ LET late == CalculatePenalty(now, assignment.due, assignment.policy)
       IN  Become(c, [at |-> "submit", student |-> s,
                      row |-> [file |-> saved', at |-> now, isLate |-> late.isLate,
                               daysLate |-> late.daysLate, status |-> "submitted"]])
    /\ UNCHANGED <<tables, now, events, history>>

\* INSERT ... ON CONFLICT DO UPDATE: the submission of the student is this one.
Upsert(s, row) ==
    /\ submissions' = [submissions EXCEPT ![s] = row]
    /\ made' = [made EXCEPT ![s] = Append(@, row)]

\* The row could not be stored, so the file is to be deleted.
ThenDiscard(c) == Become(c, [call[c] EXCEPT !.at = "discard"])

\* Slip: the file of the submission that is replaced is deleted.
StoreSubmission_slip(c) ==
    /\ call[c].at = "submit"
    /\ LET s == call[c].student
       IN  IF ~Exists
           THEN ThenDiscard(c) /\ UNCHANGED <<submissions, made, files>>
           ELSE /\ Upsert(s, call[c].row)
                /\ Return(c)
                /\ files' = IF submissions[s] = None THEN files
                            ELSE files \ {submissions[s].file}
    /\ UNCHANGED <<assignment, grades, now, events, saved, published, kept>>

\* The row is stored; without the assignment the foreign key refuses it.
StoreSubmission(c) ==
    /\ call[c].at = "submit"
    /\ IF ~Exists
       THEN ThenDiscard(c) /\ UNCHANGED <<submissions, made>>
       ELSE Upsert(call[c].student, call[c].row) /\ Return(c)
    /\ UNCHANGED <<assignment, grades, files, now, events, saved, published, kept>>

\* The file is deleted, or the delete fails and is only logged.
DiscardFile(c) ==
    /\ call[c].at = "discard"
    /\ LET f == call[c].row.file
       IN  \/ files' = files \ {f} /\ UNCHANGED orphans
           \/ orphans' = orphans \cup {f} /\ UNCHANGED files
    /\ Return(c)
    /\ UNCHANGED <<tables, now, events, saved, made, published, unsure>>

-----------------------------------------------------------------------------
(* GradingService *)

\* CreateGrade: the submission is read,
BeginGrade(c, s, score) ==
    /\ Idle(c)
    /\ submissions[s] # None
    /\ Become(c, [at |-> "grade_terms", student |-> s, score |-> score,
                  row |-> submissions[s]])
    /\ UNCHANGED <<tables, files, now, events, saved, history>>

\* then the assignment; the score is checked and the penalty applied,
ComputeGrade(c) ==
    /\ call[c].at = "grade_terms"
    /\ IF ~Exists \/ call[c].score > assignment.max
       THEN Return(c)
       ELSE Become(c, [at |-> "grade_insert", student |-> call[c].student,
                       row |-> call[c].row,
                       grade |-> [score |-> call[c].score, status |-> "draft",
                                  adjusted |-> ApplyPenalty(call[c].score,
                                     call[c].row.daysLate, assignment.policy)]])
    /\ UNCHANGED <<tables, files, now, events, saved, history>>

\* UNIQUE(submission_id), and the submission must exist (gradeRepo.Create).
TakesGrade(s) == grades[s] = None /\ submissions[s] # None

\* the grade is inserted,
InsertGrade(c) ==
    /\ call[c].at = "grade_insert"
    /\ LET s == call[c].student
       IN  IF ~TakesGrade(s)
           THEN Return(c) /\ UNCHANGED grades
           ELSE /\ grades' = [grades EXCEPT ![s] = call[c].grade]
                /\ Become(c, [call[c] EXCEPT !.at = "grade_mark"])
    /\ UNCHANGED <<assignment, submissions, files, now, events, saved, history>>

\* and the submission of the first read is written back as graded.
MarkGraded(c) ==
    /\ call[c].at = "grade_mark"
    /\ WriteSubmission(call[c].student, call[c].row, "graded")
    /\ Return(c)
    /\ UNCHANGED <<assignment, grades, files, now, events, saved, history>>

\* UpdateGrade: the grade is read and must be a draft,
BeginUpdate(c, s, score) ==
    /\ Idle(c)
    /\ grades[s] # None
    /\ grades[s].status = "draft"
    /\ Become(c, [at |-> "update_row", student |-> s, score |-> score,
                  grade |-> grades[s]])
    /\ UNCHANGED <<tables, files, now, events, saved, history>>

\* then the submission,
ReadForUpdate(c) ==
    /\ call[c].at = "update_row"
    /\ LET s == call[c].student
       IN  IF submissions[s] = None
           THEN Return(c)
           ELSE Become(c, [at |-> "update_terms", student |-> s,
                           score |-> call[c].score, grade |-> call[c].grade,
                           row |-> submissions[s]])
    /\ UNCHANGED <<tables, files, now, events, saved, history>>

\* then the assignment; the score is checked and the penalty applied,
ComputeUpdate(c) ==
    /\ call[c].at = "update_terms"
    /\ IF ~Exists \/ call[c].score > assignment.max
       THEN Return(c)
       ELSE Become(c, [at |-> "update_write", student |-> call[c].student,
                       grade |-> [call[c].grade EXCEPT !.score = call[c].score,
                                    !.adjusted = ApplyPenalty(call[c].score,
                                       call[c].row.daysLate, assignment.policy)]])
    /\ UNCHANGED <<tables, files, now, events, saved, history>>

\* UPDATE grades ... WHERE id writes the caller's whole row, status included
\* (gradeRepo.Update); the row may be gone.
WriteGrade(s, grade) ==
    grades' = IF grades[s] = None THEN grades ELSE [grades EXCEPT ![s] = grade]

\* and the grade of the first read is written back with the new score.
WriteUpdate(c) ==
    /\ call[c].at = "update_write"
    /\ WriteGrade(call[c].student, call[c].grade)
    /\ Return(c)
    /\ UNCHANGED <<assignment, submissions, files, now, events, saved, history>>

\* PublishGrade: the grade is read and must not be published,
BeginPublish(c, s) ==
    /\ Idle(c)
    /\ grades[s] # None
    /\ grades[s].status # "published"
    /\ Become(c, [at |-> "publish_write", student |-> s,
                  grade |-> [grades[s] EXCEPT !.status = "published"]])
    /\ UNCHANGED <<tables, files, now, events, saved, history>>

\* Slip: that the row is gone is not noticed.
WritePublished_slip(c) ==
    /\ call[c].at = "publish_write"
    /\ LET s == call[c].student
       IN  /\ WriteGrade(s, call[c].grade)
           /\ published' = IF grades[s] = None THEN published
                           ELSE published \cup {<<s, call[c].grade>>}
    /\ Become(c, [call[c] EXCEPT !.at = "publish_row"])
    /\ UNCHANGED <<assignment, submissions, files, now, events, saved, made, kept>>

\* the whole row is written as published, unless it is gone,
WritePublished(c) ==
    /\ call[c].at = "publish_write"
    /\ LET s == call[c].student
       IN  /\ WriteGrade(s, call[c].grade)
           /\ IF grades[s] = None
              THEN Return(c) /\ UNCHANGED published
              ELSE /\ Become(c, [call[c] EXCEPT !.at = "publish_row"])
                   /\ published' = published \cup {<<s, call[c].grade>>}
    /\ UNCHANGED <<assignment, submissions, files, now, events, saved, made, kept>>

\* the submission is read,
ReadForPublish(c) ==
    /\ call[c].at = "publish_row"
    /\ LET s == call[c].student
       IN  IF submissions[s] = None
           THEN Become(c, [call[c] EXCEPT !.at = "publish_event"])
           ELSE Become(c, [at |-> "publish_mark", student |-> s,
                           grade |-> call[c].grade, row |-> submissions[s]])
    /\ UNCHANGED <<tables, files, now, events, saved, history>>

\* and written back as returned,
MarkReturned(c) ==
    /\ call[c].at = "publish_mark"
    /\ WriteSubmission(call[c].student, call[c].row, "returned")
    /\ Become(c, [at |-> "publish_event", student |-> call[c].student,
                  grade |-> call[c].grade])
    /\ UNCHANGED <<assignment, grades, files, now, events, saved, history>>

\* and the event is sent.
SendPublished(c) ==
    /\ call[c].at = "publish_event"
    /\ events' = events \cup {<<call[c].student, call[c].grade>>}
    /\ Return(c)
    /\ UNCHANGED <<tables, files, now, saved, history>>

-----------------------------------------------------------------------------
(* Failures, and the clock *)

\* Slip: SubmitAssignment leaves its file behind.
StatementFails_slip(c) ==
    /\ call[c].at \notin {"idle", "discard"}
    /\ IF call[c].at \in {"publish_row", "publish_mark"}
       THEN Become(c, [at |-> "publish_event", student |-> call[c].student,
                       grade |-> call[c].grade])
       ELSE Return(c)
    /\ UNCHANGED <<tables, files, now, events, saved, history>>

\* Slip: CreateGrade only logs that the grade could not be inserted.
StatementFails_mark_slip(c) ==
    /\ call[c].at \notin {"idle", "discard"}
    /\ CASE call[c].at = "submit" -> ThenDiscard(c)
         [] call[c].at \in {"publish_row", "publish_mark"} ->
              Become(c, [at |-> "publish_event", student |-> call[c].student,
                         grade |-> call[c].grade])
         [] call[c].at = "grade_insert" ->
              Become(c, [call[c] EXCEPT !.at = "grade_mark"])
         [] OTHER -> Return(c)
    /\ UNCHANGED <<tables, files, now, events, saved, history>>

\* A statement, or the message to Kafka, fails without effect.  SubmitAssignment
\* goes on to delete its file; PublishGrade goes on to its event when only the
\* submission is affected; every other call returns, with the error or after
\* logging it.
StatementFails(c) ==
    /\ call[c].at \notin {"idle", "discard"}
    /\ CASE call[c].at = "submit" -> ThenDiscard(c)
         [] call[c].at \in {"publish_row", "publish_mark"} ->
              Become(c, [at |-> "publish_event", student |-> call[c].student,
                         grade |-> call[c].grade])
         [] OTHER -> Return(c)
    /\ UNCHANGED <<tables, files, now, events, saved, history>>

\* A statement is committed and its answer lost, so that the call goes on as if it
\* had failed.  The statements not named here end alike with and without an answer.
AnswerLost(c) ==
    /\ LET s == call[c].student
       IN  \/ /\ call[c].at = "submit" /\ Exists
              /\ Upsert(s, call[c].row)
              /\ unsure' = unsure \cup {call[c].row.file}
              /\ ThenDiscard(c)
              /\ UNCHANGED <<grades, published>>
           \/ /\ call[c].at = "grade_insert" /\ TakesGrade(s)
              /\ grades' = [grades EXCEPT ![s] = call[c].grade]
              /\ Return(c)
              /\ UNCHANGED <<submissions, made, published, unsure>>
           \/ /\ call[c].at = "publish_write" /\ grades[s] # None
              /\ WriteGrade(s, call[c].grade)
              /\ published' = published \cup {<<s, call[c].grade>>}
              /\ Return(c)
              /\ UNCHANGED <<submissions, made, unsure>>
    /\ UNCHANGED <<assignment, files, now, events, saved, orphans>>

\* A submit holds its file until the row is stored or the file discarded.
Holds(c) == call[c].at \in {"submit", "discard"}

\* The process restarts: every call is lost where it is.
Restart ==
    /\ \E c \in Calls : ~Idle(c)
    /\ orphans' = orphans \cup {call[c].row.file : c \in {d \in Calls : Holds(d)}}
    /\ call' = [c \in Calls |-> [at |-> "idle"]]
    /\ UNCHANGED <<tables, files, now, events, saved, made, published, unsure>>

Tick ==
    /\ now < LastHour
    /\ now' = now + 1
    /\ UNCHANGED <<tables, files, call, events, saved, history>>

Continue(c) ==
    \/ WriteEdit(c) \/ StoreSubmission(c) \/ DiscardFile(c)
    \/ ComputeGrade(c) \/ InsertGrade(c) \/ MarkGraded(c)
    \/ ReadForUpdate(c) \/ ComputeUpdate(c) \/ WriteUpdate(c)
    \/ WritePublished(c) \/ ReadForPublish(c) \/ MarkReturned(c) \/ SendPublished(c)
    \/ StatementFails(c) \/ AnswerLost(c)

Begin(c) ==
    \/ \E terms \in Terms : CheckForEdit(c, terms)
    \/ \E s \in Students :
         \/ BeginSubmit(c, s) \/ BeginPublish(c, s)
         \/ \E score \in Scores : BeginGrade(c, s, score) \/ BeginUpdate(c, s, score)

Next ==
    \/ \E terms \in Terms : CreateAssignment(terms)
    \/ DeleteAssignment \/ Restart \/ Tick
    \/ \E c \in Calls : Begin(c) \/ Continue(c)

Spec == Init /\ [][Next]_vars

-----------------------------------------------------------------------------
(* Properties *)

\* The file of every submission is in storage, although a submit that fails
\* deletes its file and grading writes old rows back over new ones
\* (submission_service.go:79-85).  Only a row whose INSERT was committed and not
\* answered can lose its file: SubmitAssignment takes it for refused.
RowsHaveFiles ==
    \A s \in Students :
        submissions[s] # None => submissions[s].file \in files \cup unsure

\* Conversely a file in storage belongs to a submission that was stored, or to a
\* call that is about to store or to delete it: whatever fails in between, only a
\* restart and a delete that fails leave one behind (submission_service.go:70-85).
FilesAccounted ==
    \A f \in files :
        \/ \E s \in Students : \E i \in DOMAIN made[s] : made[s][i].file = f
        \/ \E c \in Calls : Holds(c) /\ call[c].row.file = f
        \/ f \in orphans

\* However grading and resubmission interleave, the file and the lateness in a
\* submission are those of one and the same submit (submissionRepo.Update writes
\* both, submission_repository.go:132-141).  Its submitted_at may be another's.
RowIsOneSubmission ==
    \A s \in Students : submissions[s] # None =>
        \E i \in DOMAIN made[s] :
            /\ made[s][i].file = submissions[s].file
            /\ made[s][i].daysLate = submissions[s].daysLate
            /\ made[s][i].isLate = submissions[s].isLate

\* A submission is only marked graded when there is a grade for it, and only
\* returned when that grade was published, although the mark is a later statement
\* that can come after any number of others (grading_service.go:80-86, 152-160).
StatusFollowsGrade ==
    \A s \in Students : submissions[s] # None =>
        /\ submissions[s].status # "submitted" => grades[s] # None
        /\ submissions[s].status = "returned" =>
               \E e \in published : e[1] = s

\* A grade.published event only ever tells of a grade that was stored as published
\* with these very scores (grading_service.go:152-169).
EventsTellPublished == events \subseteq published

\* "Create in repository (will replace existing submission if any)"
\* (submission_service.go:78): a student's row holds the file they submitted last.
\* It fails: CreateGrade and PublishGrade write back the row they read before the
\* resubmission.
NewestSubmissionKept ==
    \A s \in Students : submissions[s] # None =>
        submissions[s].file = made[s][Len(made[s])].file

\* "only draft grades can be updated" (grading_service.go:93): once published, a
\* grade stays as it is.  It fails: UpdateGrade writes the whole row it read as a
\* draft, and unpublishes a grade that was published in between.
OnlyDraftsChange ==
    [][ \A s \in Students :
          grades[s] # None /\ grades'[s] # None /\ grades[s].status = "published"
            => grades'[s] = grades[s] ]_vars
=============================================================================
