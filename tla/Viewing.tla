------------------------------ MODULE Viewing ------------------------------
(***************************************************************************)
(* What students get of the resources, and how far they are: streaming     *)
(* (src/streaming/service.rs), downloads (src/download/manager.rs) and     *)
(* progress (src/progress/tracker.rs), while managers publish, change and  *)
(* delete the resources.                                                   *)
(*                                                                         *)
(* A handler reads the resource once, decides, and then writes or answers: *)
(* what it decided on can have changed by then.  Analytics events, which   *)
(* never decide anything, are left out.                                    *)
(***************************************************************************)
EXTENDS Publishing, Integers, FiniteSets

CONSTANTS
    Students,
    Viewers,      \* the handlers in flight
    Videos,       \* the resources that are videos
    Duration,     \* duration_seconds of a transcoded video
    Positions     \* bound: the positions clients report

VARIABLES
    transcoded,   \* videos with manifest_url and duration_seconds
    progress,     \* progress_tracking: a row per student and resource, or None
    tracked,      \* download_tracking: who downloaded what
    viewer,       \* where each handler is
    could,        \* history: handlers whose student was allowed what they ask
                  \* for, at some time since the request came
    earned        \* history: <<student, resource>> completed while allowed, or
                  \* by playing the video to its end

students == <<transcoded, progress, tracked, viewer, could, earned>>
viewing == <<publishing, students>>

ProgressRows == [completed : BOOLEAN, position : (0..Duration) \cup {None}]
Wishes == {"manifest", "state", "download", "complete"}
ViewerStates ==
    [at : {"idle"}]
    \cup [at : {"mark"}, s : Students, r : ResourceIds, completed : BOOLEAN]
    \cup [at : {"playback"}, s : Students, r : ResourceIds, position : 0..Duration]
    \cup [at : {"state", "sign", "track", "granted"}, s : Students, r : ResourceIds,
          student : BOOLEAN, wish : Wishes]
    \cup [at : {"summary"}, completed : SUBSET ResourceIds]
    \cup [at : {"report"}, listed : SUBSET ResourceIds, left : SUBSET Students]
    \cup [at : {"reported"}, percent : 0..100]

\* A duration is in whole seconds, the mark for a missing row is no row, and the
\* resources of a course are finitely many.
ASSUME ViewingAssumption ==
    Duration \in Nat /\ None \notin ProgressRows /\ IsFiniteSet(ResourceIds)

ViewingTypeOK ==
    /\ PublishingTypeOK
    /\ transcoded \in SUBSET Videos
    /\ progress \in [Students -> [ResourceIds -> ProgressRows \cup {None}]]
    /\ \A s \in Students, r \in ResourceIds :
          progress[s][r] # None \/ <<s, r>> \in tracked => Stored(r)
    /\ tracked \in SUBSET (Students \X ResourceIds)
    /\ viewer \in [Viewers -> ViewerStates]
    /\ could \in SUBSET Viewers
    /\ earned \in SUBSET (Students \X ResourceIds)

StudentsInit ==
    /\ transcoded = {}
    /\ progress = [s \in Students |-> [r \in ResourceIds |-> None]]
    /\ tracked = {}
    /\ viewer = [v \in Viewers |-> [at |-> "idle"]]
    /\ could = {}
    /\ earned = {}

ViewingInit == PublishingInit /\ StudentsInit

-----------------------------------------------------------------------------
(* What the code decides by *)

Published(r) == Stored(r) /\ resource[r].published

\* Slip: the copyright setting is not looked at.
DownloadPermitted_slip(r) ==
    Published(r) /\ (r \in Videos => resource[r].downloadable)

\* What validate_download_permission grants a student.
DownloadPermitted(r) ==
    /\ Published(r)
    /\ resource[r].copyright # "no_download"
    /\ r \in Videos => resource[r].downloadable

\* 90 % of a video is all of it.
ShouldAutoComplete(position) == Duration > 0 /\ 10 * position >= 9 * Duration

\* Rounded to the nearest integer, a half up.
CalculatePercentage(completed, total) ==
    IF total = 0 THEN 0 ELSE (200 * completed + total) \div (2 * total)

Completed(s, r) == progress[s][r] # None /\ progress[s][r].completed
Offered == {r \in ResourceIds : Published(r)}

Percent(completed, listed) ==
    CalculatePercentage(Cardinality(completed \cap listed), Cardinality(listed))

-----------------------------------------------------------------------------
(* History: what the student of a handler was allowed *)

MayHave(state) ==
    /\ "wish" \in DOMAIN state \/ state.at = "mark"
    /\ Published(state.r)
    /\ state.at # "mark" /\ state.wish = "download" =>
          /\ resource[state.r].copyright # "no_download"
          /\ state.r \in Videos => resource[state.r].downloadable

Remember == could' = {v \in Viewers :
                      /\ viewer'[v].at # "idle"
                      /\ (v \in could /\ viewer[v].at # "idle") \/ MayHave(viewer[v])'}

\* A step of handler v; the resources are not its to change.
View(v, state) ==
    /\ UNCHANGED <<publishing, transcoded>>
    /\ viewer' = [viewer EXCEPT ![v] = state]
    /\ Remember
Answer(v) == View(v, [at |-> "idle"])

-----------------------------------------------------------------------------
(* Progress *)

\* Only published content is completed; anything is marked incomplete.
MarkComplete(v, s, r, completed) ==
    /\ viewer[v].at = "idle"
    /\ Stored(r)
    /\ completed => resource[r].published
    /\ View(v, [at |-> "mark", s |-> s, r |-> r, completed |-> completed])
    /\ UNCHANGED <<progress, tracked, earned>>

\* INSERT ... ON CONFLICT DO UPDATE: no position is passed, so it is cleared.
Upsert(s, r, completed) ==
    progress' = [progress EXCEPT ![s][r] = [completed |-> completed, position |-> None]]

WriteMark(v) ==
    LET s == viewer[v].s
        r == viewer[v].r
    IN  /\ viewer[v].at = "mark"
        /\ Stored(r)
        /\ Upsert(s, r, viewer[v].completed)
        /\ earned' = IF viewer[v].completed /\ v \in could
                     THEN earned \cup {<<s, r>>} ELSE earned
        /\ Answer(v)
        /\ UNCHANGED tracked

\* Whether the video is published is not asked.
UpdatePlaybackPosition(v, s, r, position) ==
    /\ viewer[v].at = "idle"
    /\ Stored(r) /\ r \in transcoded
    /\ position \in 0..Duration
    /\ View(v, [at |-> "playback", s |-> s, r |-> r, position |-> position])
    /\ UNCHANGED <<progress, tracked, earned>>

\* INSERT ... ON CONFLICT DO UPDATE of the position alone.
UpsertPosition(s, r, position) ==
    progress' = [progress EXCEPT ![s][r] =
        [completed |-> Completed(s, r), position |-> position]]

WritePosition(v) ==
    LET s == viewer[v].s
        r == viewer[v].r
    IN  /\ viewer[v].at = "playback"
        /\ Stored(r)
        /\ IF ShouldAutoComplete(viewer[v].position)
           THEN Upsert(s, r, TRUE) /\ earned' = earned \cup {<<s, r>>}
           ELSE UpsertPosition(s, r, viewer[v].position) /\ UNCHANGED earned
        /\ Answer(v)
        /\ UNCHANGED tracked

\* get_progress reads the rows of the student, then the published resources.
GetProgress(v, s) ==
    /\ viewer[v].at = "idle"
    /\ View(v, [at |-> "summary", completed |-> {r \in ResourceIds : Completed(s, r)}])
    /\ UNCHANGED <<progress, tracked, earned>>

AnswerProgress(v) ==
    /\ viewer[v].at = "summary"
    /\ View(v, [at |-> "reported", percent |-> Percent(viewer[v].completed, Offered)])
    /\ UNCHANGED <<progress, tracked, earned>>

\* generate_report reads the published resources, which students have a row for
\* one of them, and then the rows of each student.
GenerateReport(v) ==
    /\ viewer[v].at = "idle"
    /\ Offered # {}
    /\ View(v, [at |-> "report", listed |-> Offered,
                left |-> {s \in Students : \E r \in Offered : progress[s][r] # None}])
    /\ UNCHANGED <<progress, tracked, earned>>

ReportStudent(v, s) ==
    /\ viewer[v].at = "report"
    /\ s \in viewer[v].left
    /\ LET completed == {r \in ResourceIds : Completed(s, r)} IN
       IF viewer[v].left = {s}
       THEN View(v, [at |-> "reported", percent |-> Percent(completed, viewer[v].listed)])
       ELSE View(v, [viewer[v] EXCEPT !.left = @ \ {s}])
    /\ UNCHANGED <<progress, tracked, earned>>

-----------------------------------------------------------------------------
(* Streaming and downloads *)

Ask(v, place, s, r, student, wish) ==
    /\ viewer[v].at = "idle"
    /\ View(v, [at |-> place, s |-> s, r |-> r, student |-> student, wish |-> wish])
    /\ UNCHANGED <<progress, tracked, earned>>

Go(v, place) ==
    /\ View(v, [viewer[v] EXCEPT !.at = place])
    /\ UNCHANGED <<progress, earned>>

GetVideoManifest(v, s, r, student) ==
    /\ Stored(r) /\ r \in transcoded
    /\ student => resource[r].published
    /\ Ask(v, "granted", s, r, student, "manifest")

GetPlaybackState(v, s, r, student) ==
    /\ Stored(r) /\ r \in transcoded
    /\ student => resource[r].published
    /\ Ask(v, "state", s, r, student, "state")

\* The position, 0 if there is none.
ReadPosition(v) ==
    /\ viewer[v].at = "state"
    /\ Go(v, "granted") /\ UNCHANGED tracked

GenerateDownloadUrl(v, s, r, student) ==
    /\ Stored(r)
    /\ student => DownloadPermitted(r)
    /\ Ask(v, "sign", s, r, student, "download")

GeneratePresignedUrl(v) ==
    /\ viewer[v].at = "sign"
    /\ Go(v, "track") /\ UNCHANGED tracked

\* The URL is given out whether or not the row could be written.
TrackDownload(v) ==
    /\ viewer[v].at = "track"
    /\ \/ Stored(viewer[v].r) /\ tracked' = tracked \cup {<<viewer[v].s, viewer[v].r>>}
       \/ UNCHANGED tracked
    /\ Go(v, "granted")

\* The answer is out.
Answered(v) ==
    /\ viewer[v].at \in {"granted", "reported"}
    /\ Answer(v)
    /\ UNCHANGED <<progress, tracked, earned>>

\* A statement or the signing fails, also because the resource is gone.
ViewFails(v) ==
    /\ viewer[v].at \notin {"idle", "granted", "reported", "track"}
    /\ Answer(v)
    /\ UNCHANGED <<progress, tracked, earned>>

-----------------------------------------------------------------------------
(* Managers and the transcoding worker *)

\* Rows of a deleted resource go with it (ON DELETE CASCADE).
ManagerActs(m) ==
    /\ Manage(m)
    /\ progress' = [s \in Students |-> [r \in ResourceIds |->
           IF Stored(r)' THEN progress[s][r] ELSE None]]
    /\ tracked' = {d \in tracked : Stored(d[2])'}
    /\ UNCHANGED <<transcoded, viewer, earned>>
    /\ Remember

UpdateVideoMetadata(r) ==
    /\ r \in Videos /\ Stored(r)
    /\ transcoded' = transcoded \cup {r}
    /\ UNCHANGED <<publishing, progress, tracked, viewer, earned>>
    /\ Remember

ViewingNext ==
    \/ \E m \in Managers : ManagerActs(m)
    \/ \E r \in ResourceIds : UpdateVideoMetadata(r)
    \/ \E v \in Viewers :
          \/ \E s \in Students, r \in ResourceIds :
                \/ \E completed \in BOOLEAN : MarkComplete(v, s, r, completed)
                \/ \E position \in Positions : UpdatePlaybackPosition(v, s, r, position)
                \/ \E student \in BOOLEAN :
                      \/ GetVideoManifest(v, s, r, student)
                      \/ GetPlaybackState(v, s, r, student)
                      \/ GenerateDownloadUrl(v, s, r, student)
          \/ \E s \in Students : GetProgress(v, s) \/ ReportStudent(v, s)
          \/ WriteMark(v)
          \/ WritePosition(v)
          \/ AnswerProgress(v)
          \/ GenerateReport(v)
          \/ ReadPosition(v)
          \/ GeneratePresignedUrl(v)
          \/ TrackDownload(v)
          \/ Answered(v)
          \/ ViewFails(v)

ViewingSpec == ViewingInit /\ [][ViewingNext]_viewing

-----------------------------------------------------------------------------
(* Property *)

\* A manager can unpublish a resource or forbid its download at any step of a
\* student's request.  What a student is given was all the same allowed at some
\* time since the request came, and what is completed was so when it was marked,
\* or was played through (validate_download_permission, get_video_manifest,
\* get_playback_state and mark_complete).
ViewedWasAllowed ==
    /\ \A v \in Viewers : viewer[v].at = "granted" /\ viewer[v].student => v \in could
    /\ \A s \in Students, r \in ResourceIds : Completed(s, r) => <<s, r>> \in earned

=============================================================================
