--------------------------- MODULE TranscodingJob ---------------------------
(***************************************************************************)
(* What the row of a transcoding job promises to those who read it         *)
(* (models/transcoding_job.rs), with no queue, worker or failing step:     *)
(*                                                                         *)
(*   pending -> processing -> completed                                    *)
(*                         -> failed -- a retry is left --> pending        *)
(*                                                                         *)
(* A job that is_terminal stays as it is until its video is deleted.  No   *)
(* statement of the repository asks for the status a row had before: that  *)
(* rows move like this is up to the callers.  Transcoding implements it    *)
(* (JobRefinement there).                                                  *)
(***************************************************************************)
EXTENDS Naturals

CONSTANTS
    Jobs,         \* transcoding jobs, each of a video of its own
    MaxRetries,   \* MAX_RETRIES
    None,         \* a job not yet created
    Gone          \* a job deleted with its video

VARIABLE job      \* the row of each job

Statuses == {"pending", "processing", "completed", "failed"}

Becomes(j, row) == job' = [job EXCEPT ![j] = row]
Is(j, status) == job[j] \notin {None, Gone} /\ job[j].status = status

Init == job = [j \in Jobs |-> None]

Create(j) ==
    /\ job[j] = None
    /\ Becomes(j, [status |-> "pending", retries |-> 0])

Start(j) ==
    /\ Is(j, "pending")
    /\ Becomes(j, [job[j] EXCEPT !.status = "processing"])

Complete(j) ==
    /\ Is(j, "processing")
    /\ Becomes(j, [job[j] EXCEPT !.status = "completed"])

\* There is always a retry to count.
Fail(j) ==
    /\ Is(j, "processing")
    /\ job[j].retries < MaxRetries
    /\ Becomes(j, [status |-> "failed", retries |-> job[j].retries + 1])

\* can_retry
Retry(j) ==
    /\ Is(j, "failed")
    /\ job[j].retries < MaxRetries
    /\ Becomes(j, [job[j] EXCEPT !.status = "pending"])

Delete(j) ==
    /\ \E status \in Statuses : Is(j, status)
    /\ Becomes(j, Gone)

Next == \E j \in Jobs : Create(j) \/ Start(j) \/ Complete(j) \/ Fail(j) \/ Retry(j) \/ Delete(j)

Spec == Init /\ [][Next]_job
=============================================================================
