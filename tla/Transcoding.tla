---------------------------- MODULE Transcoding ----------------------------
(***************************************************************************)
(* Transcoding of uploaded videos: the job rows in PostgreSQL, the queue   *)
(* in Redis and the workers (src/transcoding/worker.rs and queue.rs over   *)
(* TranscodingJobRepository, and trigger_transcoding of upload/handler.rs).*)
(*                                                                         *)
(* BLPOP takes a message off the queue for good: from then on only the     *)
(* worker knows of it.  An action is one command or statement.  Any of     *)
(* them can fail, and the process can die, and then the worker drops what  *)
(* it holds.  The status kept in Redis for monitoring is not modelled, but *)
(* setting it can fail like any other step.                                *)
(***************************************************************************)
EXTENDS Naturals, Sequences, FiniteSets

CONSTANTS
    Jobs,         \* transcoding jobs, each of a video of its own
    Workers,
    MaxRetries,   \* MAX_RETRIES
    None,         \* a job not yet created
    Gone          \* a job deleted with its video

ASSUME RetriesAssumption == MaxRetries \in Nat \ {0} /\ None # Gone

VARIABLES
    job,          \* the row of each job
    queue,        \* the messages in Redis
    worker,       \* where each worker is, and the message it holds
    triggering,   \* jobs that an upload created and has still to enqueue
    segments,     \* the videos and formats whose files are all in S3
    manifest,     \* videos whose manifest_url and duration are set
    dropped       \* history: jobs for which a step failed or a process died

transcoding == <<job, queue, worker, triggering, segments, manifest, dropped>>

Messages == [job : Jobs, retries : 0..MaxRetries]
JobRows == [status : {"pending", "processing", "completed", "failed"}, retries : 0..MaxRetries]

ASSUME NoRowAssumption == {None, Gone} \cap JobRows = {}

Formats == {"hls", "dash"}

\* The steps of transcode_video, in which an error is a failure of the job.
TranscodeSteps ==
    {"download", "probe", "to_hls", "to_dash", "upload_hls", "upload_dash", "cleanup"}
Places == TranscodeSteps \cup {"take", "metadata", "complete", "fail", "reset", "enqueue"}
WorkerStates == [at : {"idle"}] \cup [at : Places, msg : Messages]

TranscodingTypeOK ==
    /\ job \in [Jobs -> JobRows \cup {None, Gone}]
    /\ queue \in Seq(Messages)
    /\ worker \in [Workers -> WorkerStates]
    /\ triggering \in SUBSET Jobs
    /\ segments \in SUBSET (Jobs \X Formats)
    /\ manifest \in SUBSET Jobs
    /\ dropped \in SUBSET Jobs

TranscodingInit ==
    /\ job = [j \in Jobs |-> None]
    /\ queue = << >>
    /\ worker = [w \in Workers |-> [at |-> "idle"]]
    /\ triggering = {}
    /\ segments = {}
    /\ manifest = {}
    /\ dropped = {}

HasRow(j) == job[j] \notin {None, Gone}
Held(w) == worker[w].msg.job
Move(w, place) == worker' = [worker EXCEPT ![w].at = place]
Rest(w) == worker' = [worker EXCEPT ![w] = [at |-> "idle"]]
UpdateStatus(j, status) ==
    HasRow(j) /\ job' = [job EXCEPT ![j].status = status]

\* can_retry
CanRetry(row) == row.status = "failed" /\ row.retries < MaxRetries

-----------------------------------------------------------------------------
(* trigger_transcoding *)

CreateJob(j) ==
    /\ job[j] = None
    /\ job' = [job EXCEPT ![j] = [status |-> "pending", retries |-> 0]]
    /\ triggering' = triggering \cup {j}
    /\ UNCHANGED <<queue, worker, segments, manifest, dropped>>

Enqueue(j) ==
    /\ j \in triggering
    /\ queue' = Append(queue, [job |-> j, retries |-> 0])
    /\ triggering' = triggering \ {j}
    /\ UNCHANGED <<job, worker, segments, manifest, dropped>>

EnqueueFails(j) ==
    /\ j \in triggering
    /\ triggering' = triggering \ {j}
    /\ dropped' = dropped \cup {j}
    /\ UNCHANGED <<job, queue, worker, segments, manifest>>

-----------------------------------------------------------------------------
(* process_next_job *)

Dequeue(w) ==
    /\ worker[w].at = "idle"
    /\ queue # << >>
    /\ queue' = Tail(queue)
    /\ worker' = [worker EXCEPT ![w] = [at |-> "take", msg |-> Head(queue)]]
    /\ UNCHANGED <<job, triggering, segments, manifest, dropped>>

MarkProcessing(w) ==
    /\ worker[w].at = "take"
    /\ UpdateStatus(Held(w), "processing")
    /\ Move(w, "download")
    /\ UNCHANGED <<queue, triggering, segments, manifest, dropped>>

\* transcode_video.  The directory of the job is the worker's alone.
LocalStep(w, from, to) ==
    /\ worker[w].at = from
    /\ Move(w, to)
    /\ UNCHANGED <<job, queue, triggering, segments, manifest, dropped>>

DownloadVideo(w) == LocalStep(w, "download", "probe")
GetVideoDuration(w) == LocalStep(w, "probe", "to_hls")
TranscodeHls(w) == LocalStep(w, "to_hls", "to_dash")
TranscodeDash(w) == LocalStep(w, "to_dash", "upload_hls")

\* upload_transcoded_files: the keys are those of the resource and the format, the
\* same for every attempt.
UploadFiles(w, format) == segments' = segments \cup {<<Held(w), format>>}

UploadTranscoded(w) ==
    /\ \/ worker[w].at = "upload_hls" /\ UploadFiles(w, "hls") /\ Move(w, "upload_dash")
       \/ worker[w].at = "upload_dash" /\ UploadFiles(w, "dash") /\ Move(w, "cleanup")
    /\ UNCHANGED <<job, queue, triggering, manifest, dropped>>

Cleanup(w) == LocalStep(w, "cleanup", "metadata")

\* An error of any of them: what it uploaded and its directory stay.
TranscodeFails(w) == \E step \in TranscodeSteps : LocalStep(w, step, "fail")

TranscodeVideo(w) ==
    \/ DownloadVideo(w) \/ GetVideoDuration(w) \/ TranscodeHls(w) \/ TranscodeDash(w)
    \/ UploadTranscoded(w) \/ Cleanup(w) \/ TranscodeFails(w)

\* handle_success
UpdateVideoMetadata(w) ==
    /\ worker[w].at = "metadata"
    /\ HasRow(Held(w))
    /\ manifest' = manifest \cup {Held(w)}
    /\ Move(w, "complete")
    /\ UNCHANGED <<job, queue, triggering, segments, dropped>>

MarkCompleted(w) ==
    /\ worker[w].at = "complete"
    /\ UpdateStatus(Held(w), "completed")
    /\ Rest(w)
    /\ UNCHANGED <<queue, triggering, segments, manifest, dropped>>

\* Slip: mark_failed does not count the retry.
MarkFailed_slip(w) ==
    /\ worker[w].at = "fail"
    /\ HasRow(Held(w))
    /\ UpdateStatus(Held(w), "failed")
    /\ Move(w, "reset")
    /\ UNCHANGED <<queue, triggering, segments, manifest, dropped>>

\* mark_failed
CountRetry(row) == [status |-> "failed", retries |-> row.retries + 1]

\* Slip: the row as it was before mark_failed decides.
MarkFailed_row_slip(w) ==
    /\ worker[w].at = "fail"
    /\ HasRow(Held(w))
    /\ LET row == CountRetry(job[Held(w)]) IN
       /\ job' = [job EXCEPT ![Held(w)] = row]
       /\ IF job[Held(w)].retries < MaxRetries
          THEN worker' = [worker EXCEPT ![w] =
                   [at |-> "reset", msg |-> [job |-> Held(w), retries |-> row.retries]]]
          ELSE Rest(w)
    /\ UNCHANGED <<queue, triggering, segments, manifest, dropped>>

\* handle_failure: the row that mark_failed returns decides.
MarkFailed(w) ==
    /\ worker[w].at = "fail"
    /\ HasRow(Held(w))
    /\ LET row == CountRetry(job[Held(w)]) IN
       /\ job' = [job EXCEPT ![Held(w)] = row]
       /\ IF CanRetry(row)
          THEN worker' = [worker EXCEPT ![w] =
                   [at |-> "reset", msg |-> [job |-> Held(w), retries |-> row.retries]]]
          ELSE Rest(w)
    /\ UNCHANGED <<queue, triggering, segments, manifest, dropped>>

\* Slip: the job goes back on the queue before its row is pending again.
ResetForRetry_slip(w) ==
    /\ worker[w].at = "reset"
    /\ UpdateStatus(Held(w), "pending")
    /\ queue' = Append(queue, worker[w].msg)
    /\ Move(w, "enqueue")
    /\ UNCHANGED <<triggering, segments, manifest, dropped>>

ResetForRetry(w) ==
    /\ worker[w].at = "reset"
    /\ UpdateStatus(Held(w), "pending")
    /\ Move(w, "enqueue")
    /\ UNCHANGED <<queue, triggering, segments, manifest, dropped>>

EnqueueRetry(w) ==
    /\ worker[w].at = "enqueue"
    /\ queue' = Append(queue, worker[w].msg)
    /\ Rest(w)
    /\ UNCHANGED <<job, triggering, segments, manifest, dropped>>

\* A step fails, or its row is gone, or the process dies: nothing is undone, and
\* the message is on no queue.
StepFails(w) ==
    /\ worker[w].at # "idle"
    /\ dropped' = dropped \cup {Held(w)}
    /\ Rest(w)
    /\ UNCHANGED <<job, queue, triggering, segments, manifest>>

\* The video is deleted, its job with it; the messages stay.
DeleteVideo(j) ==
    /\ HasRow(j)
    /\ job' = [job EXCEPT ![j] = Gone]
    /\ manifest' = manifest \ {j}
    /\ UNCHANGED <<queue, worker, triggering, segments, dropped>>

Work(w) ==
    \/ Dequeue(w)
    \/ MarkProcessing(w)
    \/ TranscodeVideo(w)
    \/ UpdateVideoMetadata(w)
    \/ MarkCompleted(w)
    \/ MarkFailed(w)
    \/ ResetForRetry(w)
    \/ EnqueueRetry(w)

TranscodingNext ==
    \/ \E j \in Jobs : CreateJob(j) \/ Enqueue(j) \/ EnqueueFails(j) \/ DeleteVideo(j)
    \/ \E w \in Workers : Work(w) \/ StepFails(w)

\* Uploads go on, workers run and transcode in finite time, and a worker whose
\* job is gone meets the error.
TranscodingFairness ==
    /\ \A j \in Jobs : WF_transcoding(Enqueue(j))
    /\ \A w \in Workers :
          WF_transcoding(Work(w) \/ (StepFails(w) /\ ~HasRow(Held(w))))

TranscodingSpec ==
    TranscodingInit /\ [][TranscodingNext]_transcoding /\ TranscodingFairness

-----------------------------------------------------------------------------
(* Properties *)

Queued(j) == {k \in DOMAIN queue : queue[k].job = j}
HeldBy(j) == {w \in Workers : worker[w].at # "idle" /\ Held(w) = j}
InHand(j) ==
    Cardinality(Queued(j)) + Cardinality(HeldBy(j)) + (IF j \in triggering THEN 1 ELSE 0)
Ended(j) ==
    HasRow(j) /\ (job[j].status = "completed" \/ job[j].retries = MaxRetries)

\* Rows and queue never drift apart by themselves: a job is in one hand at most,
\* the upload's, the queue's or a worker's, with the retries its row counts, so
\* no two workers transcode one video; a row nobody has in hand is over, unless a
\* step failed for it; and a completed job has its files and manifest.
JobsAccounted ==
    \A j \in Jobs :
        /\ InHand(j) <= 1
        /\ HasRow(j) /\ InHand(j) = 0 => Ended(j) \/ j \in dropped
        /\ \A k \in Queued(j) : HasRow(j) => queue[k].retries = job[j].retries
        /\ HasRow(j) /\ job[j].status = "completed" =>
              j \in manifest /\ {j} \X Formats \subseteq segments

\* Nothing in the database keeps the row of a job from any other status: no UPDATE
\* asks for the status it had (update_status, mark_failed, reset_for_retry).  Yet
\* whatever workers, failing steps and deletions do, it goes through the statuses of
\* module TranscodingJob and no other way: none is processed that was not pending,
\* no completed or exhausted job changes again until its video is deleted, and each
\* failure is counted once.
Lifecycle == INSTANCE TranscodingJob

JobRefinement == Lifecycle!Spec

\* A job that is created is over in the end, completed or out of retries, unless
\* a step fails for it or its video is deleted: nothing looks for pending rows
\* (list_pending and list_retryable have no caller).
EveryJobEnds ==
    \A j \in Jobs : HasRow(j) ~> Ended(j) \/ j \in dropped \/ job[j] = Gone

=============================================================================
