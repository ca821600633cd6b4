------------------------------- MODULE Upload -------------------------------
(***************************************************************************)
(* Chunked uploads into one lesson of the content-management-service       *)
(* (src/upload/handler.rs over UploadSessionRepository, ResourceRepository *)
(* and S3Client).                                                          *)
(*                                                                         *)
(* A handler reads its session once and then works on the object store and *)
(* on two tables, one request or statement at a time; nothing locks the    *)
(* session.  An action is one of those with the code up to the next.  Any  *)
(* of them can fail, after the retries of S3Client, and then the handler   *)
(* returns the error and undoes nothing; one that took effect although its *)
(* answer was lost is a failure of the step after it.  The answer to a     *)
(* deletion of several keys says for each of them whether it was deleted,  *)
(* and nobody looks at it.                                                 *)
(*                                                                         *)
(* uploaded_chunks counts requests, not chunks, and has no bound.  Every   *)
(* resource is created at display_order 0, which is unique in its lesson.  *)
(* Transcoding is not configured (main.rs:154).                            *)
(***************************************************************************)
EXTENDS Naturals

CONSTANTS
    Sessions,      \* upload sessions of the lesson; an id is never used again
    TotalChunks,   \* total_chunks of every session
    Calls,         \* the handlers in flight
    None,          \* a session not yet initiated
    Gone           \* a session whose row was deleted

ASSUME UploadAssumption == TotalChunks \in Nat \ {0}

VARIABLES
    sessions,     \* the row of each session
    chunks,       \* the chunks of each session in temporary storage
    files,        \* the permanent objects: whose they are, and how many of its
                  \* chunks, from the first on, are in them
    slot,         \* display_order 0 of the lesson is "free" or "taken"
    call,         \* where each handler is
    acked,        \* history: the chunks the client was told are uploaded
    dropped,      \* history: sessions that were ever asked to be cancelled
    made,         \* history: resources made from each session; 2 is two or more
    late,         \* history: sessions that got a chunk while or after they were
                  \* completed or cancelled
    overlapped,   \* history: sessions that two handlers completed at once
    stuck,        \* history: chunks of each session whose deletion was refused
    failed        \* history: a step failed

vars == <<sessions, chunks, files, slot, call, acked, dropped, made, late,
          overlapped, stuck, failed>>
history == <<acked, dropped, made, late, overlapped, stuck>>

Chunks == 1..TotalChunks
Rows ==
    [status : {"in_progress", "completed", "cancelled", "expired"},
     uploaded : Nat, expired : BOOLEAN]

ASSUME RowAssumption == None # Gone /\ None \notin Rows /\ Gone \notin Rows

Files == [session : Sessions, size : 0..TotalChunks]

CallStates ==
    [at : {"idle"}]
    \cup [at : {"put", "count"}, session : Sessions, chunk : Chunks]
    \cup [at : {"get", "store"}, session : Sessions, size : 0..TotalChunks]
    \cup [at : {"clean", "create", "mark", "cancel_clean", "cancel_mark"},
          session : Sessions]

TypeOK ==
    /\ sessions \in [Sessions -> Rows \cup {None, Gone}]
    /\ chunks \in [Sessions -> SUBSET Chunks]
    /\ files \in SUBSET Files
    /\ slot \in {"free", "taken"}
    /\ call \in [Calls -> CallStates]
    /\ acked \in [Sessions -> SUBSET Chunks]
    /\ dropped \in SUBSET Sessions
    /\ made \in [Sessions -> 0..2]
    /\ late \in SUBSET Sessions
    /\ overlapped \in SUBSET Sessions
    /\ stuck \in [Sessions -> SUBSET Chunks]
    /\ failed \in BOOLEAN

Init ==
    /\ sessions = [s \in Sessions |-> None]
    /\ chunks = [s \in Sessions |-> {}]
    /\ files = {}
    /\ slot = "free"
    /\ call = [c \in Calls |-> [at |-> "idle"]]
    /\ acked = [s \in Sessions |-> {}]
    /\ dropped = {}
    /\ made = [s \in Sessions |-> 0]
    /\ late = {}
    /\ overlapped = {}
    /\ stuck = [s \in Sessions |-> {}]
    /\ failed = FALSE

Idle(c) == call[c].at = "idle"
Become(c, state) == call' = [call EXCEPT ![c] = state]
Return(c) == Become(c, [at |-> "idle"])
Goto(c, place) == Become(c, [at |-> place, session |-> call[c].session])

IsRow(s) == sessions[s] \notin {None, Gone}
InProgress(s) == IsRow(s) /\ sessions[s].status = "in_progress"

\* UPDATE upload_sessions SET status WHERE id, whatever the status was.
UpdateStatus(s, status) ==
    sessions' = IF IsRow(s) THEN [sessions EXCEPT ![s].status = status] ELSE sessions

InFlight(s) == {c \in Calls : ~Idle(c) /\ call[c].session = s}
Finishing(s) == {c \in InFlight(s) : call[c].at \in {"create", "mark", "cancel_mark"}}
Completing(s) ==
    {c \in InFlight(s) : call[c].at \in {"get", "store", "clean", "create", "mark"}}

-----------------------------------------------------------------------------
(* initiate_upload and process_chunk *)

InitiateUpload(s) ==
    /\ sessions[s] = None
    /\ sessions' = [sessions EXCEPT ![s] =
           [status |-> "in_progress", uploaded |-> 0, expired |-> FALSE]]
    /\ UNCHANGED <<chunks, files, slot, call, history, failed>>

\* The session is read; it must not be expired and must be in progress.
BeginChunk(c, s, i) ==
    /\ Idle(c)
    /\ InProgress(s)
    /\ ~sessions[s].expired
    /\ Become(c, [at |-> "put", session |-> s, chunk |-> i])
    /\ UNCHANGED <<sessions, chunks, files, slot, history, failed>>

\* Slip: a chunk that is already there is not counted again.
PutChunk_slip(c) ==
    /\ call[c].at = "put"
    /\ LET s == call[c].session
       IN  /\ chunks' = [chunks EXCEPT ![s] = @ \cup {call[c].chunk}]
           /\ late' = IF ~InProgress(s) \/ Finishing(s) # {} THEN late \cup {s} ELSE late
           /\ IF call[c].chunk \in chunks[s]
              THEN Return(c) /\ acked' = [acked EXCEPT ![s] = @ \cup {call[c].chunk}]
              ELSE Become(c, [call[c] EXCEPT !.at = "count"]) /\ UNCHANGED acked
    /\ UNCHANGED <<sessions, files, slot, dropped, made, overlapped, stuck, failed>>

\* The chunk is put under its own key.
PutChunk(c) ==
    /\ call[c].at = "put"
    /\ LET s == call[c].session
       IN  /\ chunks' = [chunks EXCEPT ![s] = @ \cup {call[c].chunk}]
           /\ late' = IF ~InProgress(s) \/ Finishing(s) # {} THEN late \cup {s} ELSE late
    /\ Become(c, [at |-> "count", session |-> call[c].session, chunk |-> call[c].chunk])
    /\ UNCHANGED <<sessions, files, slot, acked, dropped, made, overlapped, stuck, failed>>

\* uploaded_chunks goes up by one, whatever it is; without the row that is an error.
\* When the answer of the UPDATE is lost, the chunk is counted and not acknowledged.
CountChunk(c) ==
    /\ call[c].at = "count"
    /\ LET s == call[c].session
       IN  IF ~IsRow(s)
           THEN UNCHANGED <<sessions, acked, failed>>
           ELSE /\ sessions' = [sessions EXCEPT ![s].uploaded = @ + 1]
                /\ \/ /\ acked' = [acked EXCEPT ![s] = @ \cup {call[c].chunk}]
                      /\ UNCHANGED failed
                   \/ failed' = TRUE /\ UNCHANGED acked
    /\ Return(c)
    /\ UNCHANGED <<chunks, files, slot, dropped, made, late, overlapped, stuck>>

-----------------------------------------------------------------------------
(* complete_upload *)

\* The session is read and must have counted all its chunks; its status and its
\* expiry are not looked at.
BeginComplete(c, s) ==
    /\ Idle(c)
    /\ IsRow(s)
    /\ sessions[s].uploaded >= TotalChunks
    /\ Become(c, [at |-> "get", session |-> s, size |-> 0])
    /\ overlapped' = IF Completing(s) # {} THEN overlapped \cup {s} ELSE overlapped
    /\ UNCHANGED <<sessions, chunks, files, slot, acked, dropped, made, late, stuck, failed>>

\* Slip: a chunk is deleted as soon as it is read.
GetChunk_slip(c) ==
    /\ call[c].at = "get"
    /\ LET s == call[c].session
           next == call[c].size + 1
       IN  IF next \notin chunks[s]
           THEN Return(c) /\ UNCHANGED chunks
           ELSE /\ Become(c, [at |-> IF next = TotalChunks THEN "store" ELSE "get",
                              session |-> s, size |-> next])
                /\ chunks' = [chunks EXCEPT ![s] = @ \ {next}]
    /\ UNCHANGED <<sessions, files, slot, history, failed>>

\* Slip: a missing chunk ends the file.
GetChunk_hole_slip(c) ==
    /\ call[c].at = "get"
    /\ LET s == call[c].session
           next == call[c].size + 1
       IN  IF next \notin chunks[s]
           THEN Become(c, [call[c] EXCEPT !.at = "store"])
           ELSE Become(c, [at |-> IF next = TotalChunks THEN "store" ELSE "get",
                           session |-> s, size |-> next])
    /\ UNCHANGED <<sessions, chunks, files, slot, history, failed>>

\* assemble_chunks gets one chunk after the other and gives up when one is missing.
GetChunk(c) ==
    /\ call[c].at = "get"
    /\ LET s == call[c].session
           next == call[c].size + 1
       IN  IF next \notin chunks[s]
           THEN Return(c)
           ELSE Become(c, [at |-> IF next = TotalChunks THEN "store" ELSE "get",
                           session |-> s, size |-> next])
    /\ UNCHANGED <<sessions, chunks, files, slot, history, failed>>

\* The file is put under a new permanent key.
StoreFile(c) ==
    /\ call[c].at = "store"
    /\ files' = files \cup {[session |-> call[c].session, size |-> call[c].size]}
    /\ Goto(c, "clean")
    /\ UNCHANGED <<sessions, chunks, slot, history, failed>>

\* Slip: the chunks are left to the cleanup worker.
CleanChunks_slip(c) ==
    /\ call[c].at = "clean"
    /\ Goto(c, "create")
    /\ UNCHANGED <<sessions, chunks, files, slot, history, failed>>

\* delete_objects: the request succeeds when the answer comes, also when it says of
\* some keys that they could not be deleted.
DeleteChunks(s) ==
    \E refused \in SUBSET chunks[s] :
        /\ chunks' = [chunks EXCEPT ![s] = refused]
        /\ stuck' = [stuck EXCEPT ![s] = @ \cup refused]

\* cleanup_chunks.
CleanChunks(c) ==
    /\ call[c].at = "clean"
    /\ DeleteChunks(call[c].session)
    /\ Goto(c, "create")
    /\ UNCHANGED <<sessions, files, slot, acked, dropped, made, late, overlapped, failed>>

\* Slip: that the position is taken is only logged.
CreateResource_slip(c) ==
    /\ call[c].at = "create"
    /\ IF slot = "taken"
       THEN UNCHANGED <<slot, made>>
       ELSE /\ slot' = "taken"
            /\ made' = [made EXCEPT ![call[c].session] = IF @ < 2 THEN @ + 1 ELSE @]
    /\ Goto(c, "mark")
    /\ UNCHANGED <<sessions, chunks, files, acked, dropped, late, overlapped, stuck, failed>>

\* The resource is inserted at display_order 0, unless that is taken.
CreateResource(c) ==
    /\ call[c].at = "create"
    /\ IF slot = "taken"
       THEN Return(c) /\ UNCHANGED <<slot, made>>
       ELSE /\ slot' = "taken"
            /\ made' = [made EXCEPT ![call[c].session] = IF @ < 2 THEN @ + 1 ELSE @]
            /\ Goto(c, "mark")
    /\ UNCHANGED <<sessions, chunks, files, acked, dropped, late, overlapped, stuck, failed>>

MarkCompleted(c) ==
    /\ call[c].at = "mark"
    /\ UpdateStatus(call[c].session, "completed")
    /\ Return(c)
    /\ UNCHANGED <<chunks, files, slot, history, failed>>

-----------------------------------------------------------------------------
(* cancel_upload *)

\* Slip: a session that has counted no chunk has nothing to clean up.
BeginCancel_slip(c, s) ==
    /\ Idle(c)
    /\ IsRow(s)
    /\ Become(c, [at |-> IF sessions[s].uploaded = 0 THEN "cancel_mark" ELSE "cancel_clean",
                  session |-> s])
    /\ dropped' = dropped \cup {s}
    /\ UNCHANGED <<sessions, chunks, files, slot, acked, made, late, overlapped, stuck, failed>>

\* The session is read; its status is not looked at.
BeginCancel(c, s) ==
    /\ Idle(c)
    /\ IsRow(s)
    /\ Become(c, [at |-> "cancel_clean", session |-> s])
    /\ dropped' = dropped \cup {s}
    /\ UNCHANGED <<sessions, chunks, files, slot, acked, made, late, overlapped, stuck, failed>>

CancelClean(c) ==
    /\ call[c].at = "cancel_clean"
    /\ DeleteChunks(call[c].session)
    /\ Goto(c, "cancel_mark")
    /\ UNCHANGED <<sessions, files, slot, acked, dropped, made, late, overlapped, failed>>

MarkCancelled(c) ==
    /\ call[c].at = "cancel_mark"
    /\ UpdateStatus(call[c].session, "cancelled")
    /\ Return(c)
    /\ UNCHANGED <<chunks, files, slot, history, failed>>

-----------------------------------------------------------------------------
(* Failures, expiry, and the content manager *)

StepFails(c) ==
    /\ ~Idle(c)
    /\ Return(c)
    /\ failed' = TRUE
    /\ UNCHANGED <<sessions, chunks, files, slot, history>>

\* expires_at passes.
Expire(s) ==
    /\ IsRow(s)
    /\ ~sessions[s].expired
    /\ sessions' = [sessions EXCEPT ![s].expired = TRUE]
    /\ UNCHANGED <<chunks, files, slot, call, history, failed>>

\* The cleanup worker marks expired sessions that are still in progress, and
\* deletes their rows a week later; it leaves their chunks in storage.
MarkExpired ==
    /\ \E s \in Sessions : InProgress(s) /\ sessions[s].expired
    /\ sessions' = [s \in Sessions |->
           IF InProgress(s) /\ sessions[s].expired
           THEN [sessions[s] EXCEPT !.status = "expired"] ELSE sessions[s]]
    /\ UNCHANGED <<chunks, files, slot, call, history, failed>>

DeleteExpired ==
    \E S \in SUBSET {s \in Sessions : IsRow(s) /\ sessions[s].status = "expired"} :
        /\ S # {}
        /\ sessions' = [s \in Sessions |-> IF s \in S THEN Gone ELSE sessions[s]]
        /\ UNCHANGED <<chunks, files, slot, call, history, failed>>

\* The content manager creates, moves or deletes a resource at display_order 0.
MoveSlot ==
    /\ slot' = IF slot = "free" THEN "taken" ELSE "free"
    /\ UNCHANGED <<sessions, chunks, files, call, history, failed>>

Begin(c, s) ==
    \/ \E i \in Chunks : BeginChunk(c, s, i)
    \/ BeginComplete(c, s) \/ BeginCancel(c, s)

Continue(c) ==
    \/ PutChunk(c) \/ CountChunk(c)
    \/ GetChunk(c) \/ StoreFile(c) \/ CleanChunks(c) \/ CreateResource(c)
    \/ MarkCompleted(c)
    \/ CancelClean(c) \/ MarkCancelled(c)
    \/ StepFails(c)

Next ==
    \/ MarkExpired \/ DeleteExpired \/ MoveSlot
    \/ \E s \in Sessions : InitiateUpload(s) \/ Expire(s)
    \/ \E c \in Calls : Continue(c) \/ \E s \in Sessions : Begin(c, s)

Spec == Init /\ [][Next]_vars

-----------------------------------------------------------------------------
(* Properties *)

\* A client that was told of every chunk can complete its upload: the count can
\* run ahead of the chunks in storage, when one is sent twice, but never behind
\* (handler.rs:144-151).
AckedAreCounted ==
    \A s \in Sessions : IsRow(s) /\ acked[s] = Chunks => sessions[s].uploaded >= TotalChunks

\* An acknowledged chunk stays in storage until the client cancels or its whole
\* file is in permanent storage, whatever fails and however completions overlap
\* (handler.rs:202-212).
AckedAreKept ==
    \A s \in Sessions :
        \/ s \in dropped
        \/ acked[s] \subseteq chunks[s]
        \/ [session |-> s, size |-> TotalChunks] \in files

\* Although a chunk sent twice makes the count complete with another one missing,
\* and a cancel can delete chunks while they are assembled, no file with a hole in
\* it is ever stored (handler.rs:194-205, 373-391).
FilesAreWhole == \A f \in files : f.size = TotalChunks

\* A completed session has a resource and its file is stored; a completion that
\* overlaps a cancel or another completion does not mark a session it has made
\* nothing of (handler.rs:218-235).
CompletedHasResource ==
    \A s \in Sessions : IsRow(s) /\ sessions[s].status = "completed" =>
        made[s] > 0 /\ \E f \in files : f.session = s

\* Completed and cancelled sessions leave nothing in temporary storage, except a
\* chunk whose deletion was refused, which nobody looks at and nobody deletes again,
\* and those of a session that got one during or after its cleanup
\* (handler.rs:211-212, 333-338; s3_client.rs:220-226).
NothingLeftBehind ==
    \A s \in Sessions :
        (/\ IsRow(s) /\ sessions[s].status \in {"completed", "cancelled"}
         /\ s \notin late) => chunks[s] \subseteq stuck[s]

\* complete_upload looks at no status, yet one session becomes at most one resource
\* when its completions come one after the other and no step fails: some chunk is
\* gone after the first, unless every single deletion was refused
\* (handler.rs:178-212).
OneResourceEach ==
    ~failed => \A s \in Sessions :
        made[s] > 1 => s \in late \cup overlapped \/ stuck[s] = Chunks
=============================================================================
