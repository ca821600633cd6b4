---------------------------- MODULE Upload_proofs ----------------------------
(***************************************************************************)
(* Proofs about Upload, for any number of sessions, chunks and handlers.   *)
(*                                                                         *)
(* The inductive invariant says, of every place a handler can be at, what  *)
(* the handler can still rely on there although others have moved: that    *)
(* the file it is about to name is whole, that its session made a          *)
(* resource, that what it deleted has not come back and what is still      *)
(* there is what the store refused to delete.                              *)
(***************************************************************************)
EXTENDS Upload, FiniteSetTheorems, TLAPS

Whole(s) == [session |-> s, size |-> TotalChunks]

\* Nothing was ever done for a session that is not initiated.
Untouched ==
    \A s \in Sessions : sessions[s] = None =>
        /\ acked[s] = {}
        /\ made[s] = 0
        /\ \A c \in Calls : ~Idle(c) => call[c].session # s

\* What complete_upload has read, stored and made.
StoreIsWhole ==
    \A c \in Calls : call[c].at = "store" => call[c].size = TotalChunks
CleanHasFile ==
    \A c \in Calls : call[c].at \in {"clean", "create", "mark"} =>
        Whole(call[c].session) \in files
MarkHasResource ==
    \A c \in Calls : call[c].at = "mark" => made[call[c].session] > 0

Completion ==
    /\ FilesAreWhole /\ StoreIsWhole /\ CleanHasFile /\ MarkHasResource
    /\ CompletedHasResource

\* A chunk that is about to be counted is kept like an acknowledged one.
CancelDropped ==
    \A c \in Calls : call[c].at \in {"cancel_clean", "cancel_mark"} =>
        call[c].session \in dropped
CountedAreKept ==
    \A c \in Calls : call[c].at = "count" =>
        \/ call[c].session \in dropped
        \/ call[c].chunk \in chunks[call[c].session]
        \/ Whole(call[c].session) \in files

Keeping == AckedAreKept /\ CancelDropped /\ CountedAreKept

\* A cleanup lasts until its handler is done.
FinishingClean ==
    \A c \in Calls : call[c].at \in {"create", "mark", "cancel_mark"} =>
        call[c].session \in late \/ chunks[call[c].session] \subseteq stuck[call[c].session]

Cleaning == NothingLeftBehind /\ FinishingClean

\* There are no more acknowledged chunks than counted ones.
Counted ==
    \A s \in Sessions : IsRow(s) => Cardinality(acked[s]) <= sessions[s].uploaded

\* One handler at a time completes a session; once it has made a resource, the
\* session is used up: of its chunks only those that could not be deleted are left.
OneCompletion ==
    \A s \in Sessions \ overlapped : \A c, d \in Completing(s) : c = d
Spent ==
    ~failed => \A s \in Sessions \ (late \cup overlapped) :
        (made[s] > 0 /\ stuck[s] # Chunks) =>
        /\ chunks[s] \subseteq stuck[s]
        /\ InProgress(s) => \E c \in Completing(s) : call[c].at = "mark"
        /\ \A c \in Completing(s) :
              \/ call[c].at = "mark"
              \/ call[c].at = "get" /\ 1..call[c].size \subseteq stuck[s]

Using == OneCompletion /\ Spent /\ OneResourceEach

IInv == TypeOK /\ Untouched /\ Completion /\ Keeping /\ Cleaning /\ Counted /\ Using

-----------------------------------------------------------------------------
(* Types *)

\* The fields of a handler's record, by where it is.
LEMMA CallFields ==
    ASSUME TypeOK, NEW c \in Calls
    PROVE  /\ ~Idle(c) => call[c].session \in Sessions
           /\ call[c].at \in {"put", "count"} => call[c].chunk \in Chunks
           /\ call[c].at \in {"get", "store"} => call[c].size \in 0..TotalChunks
    BY DEF TypeOK, CallStates, Idle

\* The records a handler can be left with.
LEMMA CallRecords ==
    /\ [at |-> "idle"] \in CallStates
    /\ \A s \in Sessions, i \in Chunks, at \in {"put", "count"} :
         [at |-> at, session |-> s, chunk |-> i] \in CallStates
    /\ \A s \in Sessions, n \in 0..TotalChunks, at \in {"get", "store"} :
         [at |-> at, session |-> s, size |-> n] \in CallStates
    /\ \A s \in Sessions, at \in {"clean", "create", "mark", "cancel_clean", "cancel_mark"} :
         [at |-> at, session |-> s] \in CallStates
    BY DEF CallStates

\* Changing a row's status, count or expiry leaves a row.
LEMMA RowFields ==
    ASSUME TypeOK, NEW s \in Sessions, IsRow(s)
    PROVE  /\ sessions[s] \in Rows
           /\ \A status \in {"in_progress", "completed", "cancelled", "expired"} :
                [sessions[s] EXCEPT !.status = status] \in Rows
           /\ \A n \in Nat : [sessions[s] EXCEPT !.uploaded = n] \in Rows
           /\ [sessions[s] EXCEPT !.expired = TRUE] \in Rows
    BY DEF TypeOK, IsRow, Rows

\* What a deletion leaves of the chunks of a session was refused.
LEMMA Deletes ==
    ASSUME TypeOK, NEW r \in Sessions, DeleteChunks(r)
    PROVE  /\ chunks' \in [Sessions -> SUBSET Chunks] /\ stuck' \in [Sessions -> SUBSET Chunks]
           /\ chunks'[r] \subseteq stuck'[r]
           /\ \A s \in Sessions : /\ chunks'[s] \subseteq chunks[s] /\ stuck[s] \subseteq stuck'[s]
                                  /\ s # r => chunks'[s] = chunks[s]
<1>1. PICK refused \in SUBSET chunks[r] :
          /\ chunks' = [chunks EXCEPT ![r] = refused]
          /\ stuck' = [stuck EXCEPT ![r] = @ \cup refused]
    BY DEF DeleteChunks
<1> QED
    BY <1>1 DEF TypeOK

\* The invariant holds of a lesson without sessions.
LEMMA InitIInv == Init => IInv
<1> SUFFICES ASSUME Init
             PROVE  IInv
    OBVIOUS
<1>1. TypeOK
    <2>1. call \in [Calls -> CallStates]
        BY CallRecords DEF Init
    <2>2. sessions \in [Sessions -> Rows \cup {None, Gone}]
        BY DEF Init
    <2>3. /\ chunks \in [Sessions -> SUBSET Chunks] /\ acked \in [Sessions -> SUBSET Chunks]
          /\ stuck \in [Sessions -> SUBSET Chunks]
        BY DEF Init
    <2>4. made \in [Sessions -> 0..2]
        BY DEF Init
    <2>5. failed \in BOOLEAN
        BY DEF Init
    <2>6. slot \in {"free", "taken"} /\ files \in SUBSET Files /\ dropped \in SUBSET Sessions
          /\ late \in SUBSET Sessions /\ overlapped \in SUBSET Sessions
        BY DEF Init
    <2> QED
        BY <2>1, <2>2, <2>3, <2>4, <2>5, <2>6 DEF TypeOK
<1>2. Untouched
    BY DEF Init, Untouched, Idle
<1>3. Completion
    BY DEF Init, Completion, FilesAreWhole, StoreIsWhole, CleanHasFile, MarkHasResource,
           CompletedHasResource, IsRow
<1>4. Keeping /\ Cleaning
    BY DEF Init, Keeping, AckedAreKept, CancelDropped, CountedAreKept, Cleaning,
           NothingLeftBehind, FinishingClean
<1>5. Counted /\ Using
    BY DEF Init, Counted, IsRow, Using, OneCompletion, Spent, OneResourceEach, Completing,
           InFlight, Idle
<1> QED
    BY <1>1, <1>2, <1>3, <1>4, <1>5 DEF IInv

\* Every step keeps the types.
LEMMA TypeStep ==
    ASSUME TypeOK, [Next]_vars
    PROVE  TypeOK'
<1> USE UploadAssumption, CallRecords DEF TypeOK, history, Become, Return, Goto
<1>1. CASE UNCHANGED vars
    BY <1>1 DEF vars
<1>2. ASSUME NEW s \in Sessions, InitiateUpload(s)
      PROVE  TypeOK'
    <2>1. [status |-> "in_progress", uploaded |-> 0, expired |-> FALSE] \in Rows
        BY DEF Rows
    <2> QED
        BY <1>2, <2>1 DEF InitiateUpload
<1>3. ASSUME NEW s \in Sessions, Expire(s)
      PROVE  TypeOK'
    BY <1>3, RowFields DEF Expire
<1>4. CASE MarkExpired
    <2>1. \A s \in Sessions : InProgress(s) => [sessions[s] EXCEPT !.status = "expired"] \in Rows
        BY RowFields DEF InProgress
    <2> QED
        BY <1>4, <2>1 DEF MarkExpired
<1>5. CASE DeleteExpired
    BY <1>5 DEF DeleteExpired
<1>6. CASE MoveSlot
    BY <1>6 DEF MoveSlot
<1>7. ASSUME NEW c \in Calls, NEW s \in Sessions, NEW i \in Chunks, BeginChunk(c, s, i)
      PROVE  TypeOK'
    BY <1>7 DEF BeginChunk
<1>8. ASSUME NEW c \in Calls, PutChunk(c)
      PROVE  TypeOK'
    BY <1>8, CallFields DEF PutChunk, Idle
<1>9. ASSUME NEW c \in Calls, CountChunk(c)
      PROVE  TypeOK'
    <2>1. call[c].session \in Sessions /\ call[c].chunk \in Chunks
        BY <1>9, CallFields DEF CountChunk, Idle
    <2> DEFINE row == sessions[call[c].session]
               n == row.uploaded + 1
    <2>3. ASSUME IsRow(call[c].session)
          PROVE  n \in Nat
        <3>1. row \in Rows
            BY <2>1, <2>3, RowFields
        <3>2. row.uploaded \in Nat
            <4> HIDE DEF row, TypeOK
            <4> QED
                BY <3>1 DEF Rows
        <3> HIDE DEF row
        <3> QED
            BY <3>2
    <2>4. ASSUME IsRow(call[c].session)
          PROVE  [row EXCEPT !.uploaded = n] \in Rows
        <3> HIDE DEF n
        <3> QED
            BY <2>1, <2>3, <2>4, RowFields
    <2>5. sessions' \in [Sessions -> Rows \cup {None, Gone}]
        <3>1. CASE IsRow(call[c].session)
            <4>1. sessions' = [sessions EXCEPT ![call[c].session] = [row EXCEPT !.uploaded = n]]
                BY <1>9, <2>1, <3>1 DEF CountChunk
            <4> QED
                BY <2>4, <3>1, <4>1
        <3>2. CASE ~IsRow(call[c].session)
            BY <1>9, <3>2 DEF CountChunk
        <3> QED
            BY <3>1, <3>2
    <2>6. acked' \in [Sessions -> SUBSET Chunks]
        <3>1. acked' = acked \/ acked' = [acked EXCEPT ![call[c].session] = @ \cup {call[c].chunk}]
            BY <1>9 DEF CountChunk
        <3> QED
            BY <2>1, <3>1
    <2>7. failed' \in BOOLEAN
        BY <1>9, Zenon DEF CountChunk
    <2> QED
        BY <1>9, <2>5, <2>6, <2>7 DEF CountChunk
<1>10. ASSUME NEW c \in Calls, NEW s \in Sessions, BeginComplete(c, s)
       PROVE  TypeOK'
    <2>1. [at |-> "get", session |-> s, size |-> 0] \in CallStates
        BY DEF CallStates
    <2> QED
        BY <1>10, <2>1 DEF BeginComplete
<1>11. ASSUME NEW c \in Calls, GetChunk(c)
       PROVE  TypeOK'
    <2> DEFINE s == call[c].session
               next == call[c].size + 1
               place == IF next = TotalChunks THEN "store" ELSE "get"
    <2>1. s \in Sessions
        BY <1>11, CallFields DEF GetChunk, Idle
    <2>2. CASE next \in chunks[s]
        <3>1. next \in 0..TotalChunks
            BY <2>1, <2>2 DEF Chunks
        <3>2. [at |-> place, session |-> s, size |-> next] \in CallStates
            BY <2>1, <3>1 DEF CallStates
        <3> QED
            BY <1>11, <2>2, <3>2 DEF GetChunk
    <2>3. CASE next \notin chunks[s]
        BY <1>11, <2>3 DEF GetChunk
    <2> QED
        BY <2>2, <2>3
<1>12. ASSUME NEW c \in Calls, StoreFile(c)
       PROVE  TypeOK'
    <2>1. call[c].session \in Sessions /\ call[c].size \in 0..TotalChunks
        BY <1>12, CallFields DEF StoreFile, Idle
    <2>2. [session |-> call[c].session, size |-> call[c].size] \in Files
        BY <2>1 DEF Files
    <2>3. [at |-> "clean", session |-> call[c].session] \in CallStates
        BY <2>1 DEF CallStates
    <2> QED
        BY <1>12, <2>2, <2>3 DEF StoreFile
<1>13. ASSUME NEW c \in Calls, CleanChunks(c)
       PROVE  TypeOK'
    BY <1>13, CallFields, Deletes DEF CleanChunks, Idle
<1>14. ASSUME NEW c \in Calls, CreateResource(c)
       PROVE  TypeOK'
    <2>1. call[c].session \in Sessions
        BY <1>14, CallFields DEF CreateResource, Idle
    <2>2. [at |-> "mark", session |-> call[c].session] \in CallStates
        BY <2>1 DEF CallStates
    <2>3. call' \in [Calls -> CallStates]
        BY <1>14, <2>2 DEF CreateResource
    <2>4. made' \in [Sessions -> 0..2]
        <3> DEFINE n == IF made[call[c].session] < 2
                        THEN made[call[c].session] + 1 ELSE made[call[c].session]
        <3>1. made' = made \/ made' = [made EXCEPT ![call[c].session] = n]
            BY <1>14 DEF CreateResource
        <3>2. made[call[c].session] \in 0..2
            BY <2>1
        <3>3. n \in 0..2
            BY <3>2
        <3> HIDE DEF n
        <3> QED
            BY <2>1, <3>1, <3>3
    <2> QED
        BY <1>14, <2>3, <2>4 DEF CreateResource
<1>15. ASSUME NEW c \in Calls, MarkCompleted(c)
       PROVE  TypeOK'
    BY <1>15, CallFields, RowFields DEF MarkCompleted, UpdateStatus, Idle
<1>16. ASSUME NEW c \in Calls, NEW s \in Sessions, BeginCancel(c, s)
       PROVE  TypeOK'
    BY <1>16 DEF BeginCancel
<1>17. ASSUME NEW c \in Calls, CancelClean(c)
       PROVE  TypeOK'
    BY <1>17, CallFields, Deletes DEF CancelClean, Idle
<1>18. ASSUME NEW c \in Calls, MarkCancelled(c)
       PROVE  TypeOK'
    BY <1>18, CallFields, RowFields DEF MarkCancelled, UpdateStatus, Idle
<1>19. ASSUME NEW c \in Calls, StepFails(c)
       PROVE  TypeOK'
    BY <1>19 DEF StepFails
<1> QED
    BY <1>1, <1>2, <1>3, <1>4, <1>5, <1>6, <1>7, <1>8, <1>9, <1>10, <1>11, <1>12, <1>13,
       <1>14, <1>15, <1>16, <1>17, <1>18, <1>19 DEF Next, Begin, Continue

-----------------------------------------------------------------------------
(* Completions *)

\* Files, resources and the histories stay.
LEMMA Lasting ==
    ASSUME TypeOK, [Next]_vars
    PROVE  /\ files \subseteq files'
           /\ \A s \in Sessions : made[s] > 0 => made'[s] > 0
           /\ dropped \subseteq dropped' /\ late \subseteq late'
           /\ overlapped \subseteq overlapped'
           /\ \A s \in Sessions : stuck[s] \subseteq stuck'[s]
           /\ failed => failed'
<1> USE DEF history, TypeOK
<1>1. CASE UNCHANGED vars
    BY <1>1 DEF vars
<1>2. CASE MarkExpired \/ DeleteExpired \/ MoveSlot
    BY <1>2 DEF MarkExpired, DeleteExpired, MoveSlot
<1>3. ASSUME NEW s \in Sessions, InitiateUpload(s) \/ Expire(s)
      PROVE  /\ UNCHANGED <<files, made, dropped, late, overlapped, stuck, failed>>
    BY <1>3 DEF InitiateUpload, Expire
<1>4. ASSUME NEW c \in Calls, NEW s \in Sessions, Begin(c, s)
      PROVE  /\ UNCHANGED <<files, made, late, stuck, failed>>
             /\ dropped \subseteq dropped' /\ overlapped \subseteq overlapped'
    BY <1>4 DEF Begin, BeginChunk, BeginComplete, BeginCancel
<1>5. ASSUME NEW c \in Calls, CreateResource(c)
      PROVE  /\ UNCHANGED <<files, dropped, late, overlapped, stuck, failed>>
             /\ \A s \in Sessions : made[s] > 0 => made'[s] > 0
    BY <1>5, CallFields DEF CreateResource, Idle
<1>6. ASSUME NEW c \in Calls, Continue(c), ~CreateResource(c)
      PROVE  /\ UNCHANGED <<made, dropped, overlapped>>
             /\ files \subseteq files' /\ late \subseteq late'
             /\ \A s \in Sessions : stuck[s] \subseteq stuck'[s]
             /\ (failed => failed')
    <2>1. CASE CleanChunks(c) \/ CancelClean(c)
        BY <2>1, CallFields, Deletes DEF CleanChunks, CancelClean, Idle
    <2>2. CASE CountChunk(c)
        BY <2>2 DEF CountChunk
    <2> QED
        BY <1>6, <2>1, <2>2 DEF Continue, PutChunk, GetChunk, StoreFile, MarkCompleted,
           MarkCancelled, StepFails
<1> QED
    <2>1. CASE \E c \in Calls : Continue(c)
        BY <2>1, <1>5, <1>6
    <2>2. CASE \E c \in Calls, s \in Sessions : Begin(c, s)
        BY <2>2, <1>4
    <2>3. CASE \E s \in Sessions : InitiateUpload(s) \/ Expire(s)
        BY <2>3, <1>3
    <2> QED
        BY <1>1, <1>2, <2>1, <2>2, <2>3 DEF Next

\* Only its own steps move a handler.
LEMMA OwnSteps ==
    ASSUME TypeOK, [Next]_vars, NEW d \in Calls, call'[d] # call[d]
    PROVE  Continue(d) \/ \E s \in Sessions : Begin(d, s)
<1>1. ASSUME NEW c \in Calls, NEW s \in Sessions, Begin(c, s)
      PROVE  \E state : call' = [call EXCEPT ![c] = state]
    BY <1>1 DEF Begin, BeginChunk, BeginComplete, BeginCancel, Become
<1>2. ASSUME NEW c \in Calls, Continue(c)
      PROVE  \E state : call' = [call EXCEPT ![c] = state]
    <2>1. CASE PutChunk(c) \/ CountChunk(c) \/ StoreFile(c) \/ CleanChunks(c)
        BY <2>1 DEF PutChunk, CountChunk, StoreFile, CleanChunks, Become, Return, Goto
    <2>2. CASE GetChunk(c) \/ CreateResource(c) \/ MarkCompleted(c)
        BY <2>2 DEF GetChunk, CreateResource, MarkCompleted, Become, Return, Goto
    <2>3. CASE CancelClean(c) \/ MarkCancelled(c) \/ StepFails(c)
        BY <2>3 DEF CancelClean, MarkCancelled, StepFails, Become, Return, Goto
    <2> QED
        BY <1>2, <2>1, <2>2, <2>3 DEF Continue
<1>3. ASSUME NEW c \in Calls, Continue(c) \/ \E s \in Sessions : Begin(c, s)
      PROVE  c = d
    <2>1. PICK state : call' = [call EXCEPT ![c] = state]
        BY <1>1, <1>2, <1>3
    <2> QED
        BY <2>1 DEF TypeOK
<1>4. ~(UNCHANGED call)
    OBVIOUS
<1>5. \E c \in Calls : Continue(c) \/ \E s \in Sessions : Begin(c, s)
    BY <1>4 DEF Next, vars, MarkExpired, DeleteExpired, MoveSlot, InitiateUpload, Expire
<1> QED
    BY <1>3, <1>5

\* Only MarkCompleted completes a row and only MarkCancelled cancels one.
LEMMA EndedBy ==
    ASSUME TypeOK, [Next]_vars, NEW s \in Sessions,
           IsRow(s)', sessions'[s].status \in {"completed", "cancelled"}
    PROVE  \/ IsRow(s) /\ sessions[s].status = sessions'[s].status
           \/ /\ sessions'[s].status = "completed"
              /\ \E c \in Calls : MarkCompleted(c) /\ call[c].session = s
           \/ /\ sessions'[s].status = "cancelled"
              /\ \E c \in Calls : MarkCancelled(c) /\ call[c].session = s
<1> USE DEF TypeOK, IsRow
<1>1. CASE InitiateUpload(s)
    BY <1>1 DEF InitiateUpload
<1>2. ASSUME NEW r \in Sessions, Expire(r) \/ InitiateUpload(r) \/ MarkExpired \/ DeleteExpired,
             ~InitiateUpload(s)
      PROVE  IsRow(s) /\ sessions[s].status = sessions'[s].status
    <2>1. CASE InitiateUpload(r)
        BY <1>2, <2>1 DEF InitiateUpload
    <2>2. CASE Expire(r)
        BY <2>2, RowFields DEF Expire, Rows
    <2>3. CASE MarkExpired
        BY <2>3, RowFields DEF MarkExpired, InProgress, Rows
    <2>4. CASE DeleteExpired
        BY <2>4 DEF DeleteExpired
    <2> QED
        BY <1>2, <2>1, <2>2, <2>3, <2>4
<1>3. ASSUME NEW c \in Calls, CountChunk(c)
      PROVE  IsRow(s) /\ sessions[s].status = sessions'[s].status
    <2> DEFINE r == call[c].session
               n == sessions[r].uploaded + 1
    <2>1. CASE IsRow(r)
        <3>1. sessions' = [sessions EXCEPT ![r] = [sessions[r] EXCEPT !.uploaded = n]]
            BY <1>3, <2>1 DEF CountChunk
        <3> HIDE DEF n
        <3> QED
            BY <2>1, <3>1, RowFields DEF Rows
    <2>2. CASE ~IsRow(r)
        BY <1>3, <2>2 DEF CountChunk
    <2> QED
        BY <2>1, <2>2
<1>4. ASSUME NEW c \in Calls, MarkCancelled(c)
      PROVE  \/ IsRow(s) /\ sessions[s].status = sessions'[s].status
             \/ sessions'[s].status = "cancelled" /\ call[c].session = s
    BY <1>4, RowFields DEF MarkCancelled, UpdateStatus, Rows
<1>5. ASSUME NEW c \in Calls, MarkCompleted(c)
      PROVE  \/ IsRow(s) /\ sessions[s].status = sessions'[s].status
             \/ sessions'[s].status = "completed" /\ call[c].session = s
    BY <1>5, RowFields DEF MarkCompleted, UpdateStatus, Rows
<1>6. CASE UNCHANGED sessions
    BY <1>6
<1> QED
    BY <1>1, <1>2, <1>3, <1>4, <1>5, <1>6 DEF Next, vars, MoveSlot, Begin, BeginChunk,
       BeginComplete, BeginCancel, Continue, PutChunk, GetChunk, StoreFile, CleanChunks,
       CreateResource, CancelClean, StepFails

\* Every step keeps what completions have read, stored and made.
LEMMA CompletionStep ==
    ASSUME TypeOK, Completion, [Next]_vars
    PROVE  Completion'
<1>1. FilesAreWhole'
    <2>1. files' = files \/ \E c \in Calls : StoreFile(c)
        BY DEF Next, vars, MarkExpired, DeleteExpired, MoveSlot, InitiateUpload, Expire,
           Begin, BeginChunk, BeginComplete, BeginCancel, Continue, PutChunk, CountChunk,
           GetChunk, CleanChunks, CreateResource, MarkCompleted, CancelClean, MarkCancelled,
           StepFails
    <2> QED
        BY <2>1 DEF StoreFile, Completion, FilesAreWhole, StoreIsWhole
<1>2. ASSUME NEW d \in Calls
      PROVE  /\ call'[d].at = "store" => call'[d].size = TotalChunks
             /\ call'[d].at \in {"clean", "create", "mark"} => Whole(call'[d].session) \in files'
             /\ call'[d].at = "mark" => made'[call'[d].session] > 0
    <2>1. CASE call'[d] = call[d]
        BY <2>1, Lasting, CallFields
           DEF Idle, Completion, StoreIsWhole, CleanHasFile, MarkHasResource
    <2>2. CASE \E s \in Sessions : Begin(d, s)
        BY <2>2 DEF Begin, BeginChunk, BeginComplete, BeginCancel, Become, TypeOK
    <2>3. CASE \/ PutChunk(d) \/ CountChunk(d) \/ MarkCompleted(d)
               \/ CancelClean(d) \/ MarkCancelled(d) \/ StepFails(d)
        BY <2>3 DEF PutChunk, CountChunk, MarkCompleted, CancelClean, MarkCancelled,
           StepFails, Become, Return, Goto, TypeOK
    <2>4. CASE GetChunk(d)
        BY <2>4 DEF GetChunk, Become, Return, TypeOK
    <2>5. CASE StoreFile(d)
        BY <2>5 DEF StoreFile, Become, Goto, TypeOK, Completion, StoreIsWhole, Whole
    <2>6. CASE CleanChunks(d)
        BY <2>6 DEF CleanChunks, Become, Goto, TypeOK, Completion, CleanHasFile
    <2>7. CASE CreateResource(d)
        <3>1. call[d].session \in Sessions /\ Whole(call[d].session) \in files
            BY <2>7, CallFields DEF CreateResource, Idle, Completion, CleanHasFile
        <3> QED
            BY <2>7, <3>1 DEF CreateResource, Become, Return, Goto, TypeOK
    <2> QED
        BY <2>1, <2>2, <2>3, <2>4, <2>5, <2>6, <2>7, OwnSteps DEF Continue
<1>3. CompletedHasResource'
    <2> SUFFICES ASSUME NEW s \in Sessions, IsRow(s)', sessions'[s].status = "completed"
                 PROVE  made'[s] > 0 /\ \E f \in files' : f.session = s
        BY DEF CompletedHasResource
    <2>1. CASE IsRow(s) /\ sessions[s].status = "completed"
        BY <2>1, Lasting DEF Completion, CompletedHasResource
    <2>2. ASSUME NEW c \in Calls, MarkCompleted(c), call[c].session = s
          PROVE  made'[s] > 0 /\ \E f \in files' : f.session = s
        BY <2>2, Lasting DEF MarkCompleted, Completion, MarkHasResource, CleanHasFile, Whole
    <2> QED
        BY <2>1, <2>2, EndedBy
<1> QED
    BY <1>1, <1>2, <1>3 DEF Completion, StoreIsWhole, CleanHasFile, MarkHasResource

-----------------------------------------------------------------------------
(* Chunks *)

\* Chunks go away only when the session was cancelled or its file is stored.
LEMMA ChunksKept ==
    ASSUME TypeOK, Completion, CancelDropped, [Next]_vars, NEW s \in Sessions
    PROVE  s \in dropped \/ chunks[s] \subseteq chunks'[s] \/ Whole(s) \in files
<1> USE DEF TypeOK
<1>1. CASE UNCHANGED chunks
    BY <1>1
<1>2. ASSUME NEW c \in Calls, PutChunk(c)
      PROVE  chunks[s] \subseteq chunks'[s]
    BY <1>2 DEF PutChunk
<1>3. ASSUME NEW c \in Calls, CleanChunks(c)
      PROVE  chunks[s] \subseteq chunks'[s] \/ Whole(s) \in files
    BY <1>3, CallFields, Deletes DEF CleanChunks, Completion, CleanHasFile, Idle
<1>4. ASSUME NEW c \in Calls, CancelClean(c)
      PROVE  chunks[s] \subseteq chunks'[s] \/ s \in dropped
    BY <1>4, CallFields, Deletes DEF CancelClean, CancelDropped, Idle
<1> QED
    BY <1>1, <1>2, <1>3, <1>4 DEF Next, vars, MarkExpired, DeleteExpired, MoveSlot,
       InitiateUpload, Expire, Begin, BeginChunk, BeginComplete, BeginCancel, Continue,
       CountChunk, GetChunk, StoreFile, CreateResource, MarkCompleted, MarkCancelled,
       StepFails

\* Chunks come only from PutChunk.
LEMMA ChunksCome ==
    ASSUME TypeOK, [Next]_vars, NEW s \in Sessions
    PROVE  \/ chunks'[s] \subseteq chunks[s]
           \/ \E c \in Calls : PutChunk(c) /\ call[c].session = s
<1> USE DEF TypeOK
<1>1. CASE UNCHANGED chunks
    BY <1>1
<1>2. ASSUME NEW c \in Calls, PutChunk(c), call[c].session # s
      PROVE  chunks'[s] = chunks[s]
    BY <1>2 DEF PutChunk
<1>3. ASSUME NEW c \in Calls, CleanChunks(c) \/ CancelClean(c)
      PROVE  chunks'[s] \subseteq chunks[s]
    BY <1>3, CallFields, Deletes DEF CleanChunks, CancelClean, Idle
<1> QED
    BY <1>1, <1>2, <1>3 DEF Next, vars, MarkExpired, DeleteExpired, MoveSlot,
       InitiateUpload, Expire, Begin, BeginChunk, BeginComplete, BeginCancel, Continue,
       CountChunk, GetChunk, StoreFile, CreateResource, MarkCompleted, MarkCancelled,
       StepFails

\* Chunks are acknowledged only by CountChunk.
LEMMA AckedBy ==
    ASSUME TypeOK, [Next]_vars, NEW s \in Sessions
    PROVE  \/ acked'[s] = acked[s]
           \/ \E c \in Calls : /\ CountChunk(c) /\ call[c].session = s /\ IsRow(s)
                               /\ acked'[s] = acked[s] \cup {call[c].chunk}
<1> USE DEF TypeOK
<1>1. CASE UNCHANGED acked
    BY <1>1
<1>2. ASSUME NEW c \in Calls, CountChunk(c)
      PROVE  \/ acked'[s] = acked[s]
             \/ call[c].session = s /\ IsRow(s) /\ acked'[s] = acked[s] \cup {call[c].chunk}
    <2>1. CASE IsRow(call[c].session)
        <3>1. \/ acked' = [acked EXCEPT ![call[c].session] = @ \cup {call[c].chunk}]
              \/ acked' = acked
            BY <1>2, <2>1 DEF CountChunk
        <3> QED
            BY <2>1, <3>1
    <2>2. CASE ~IsRow(call[c].session)
        BY <1>2, <2>2 DEF CountChunk
    <2> QED
        BY <2>1, <2>2
<1> QED
    BY <1>1, <1>2 DEF Next, vars, history, MarkExpired, DeleteExpired, MoveSlot,
       InitiateUpload, Expire, Begin, BeginChunk, BeginComplete, BeginCancel, Continue,
       PutChunk, GetChunk, StoreFile, CleanChunks, CreateResource, MarkCompleted,
       CancelClean, MarkCancelled, StepFails

\* Every step keeps the acknowledged chunks, or has a reason not to.
LEMMA KeepingStep ==
    ASSUME TypeOK, Completion, Keeping, [Next]_vars
    PROVE  Keeping'
<1>1. \A s \in Sessions :
        \/ s \in dropped'
        \/ chunks[s] \subseteq chunks'[s]
        \/ Whole(s) \in files'
    BY ChunksKept, Lasting DEF Keeping
<1>2. AckedAreKept'
    <2> SUFFICES ASSUME NEW s \in Sessions, s \notin dropped', Whole(s) \notin files'
                 PROVE  acked'[s] \subseteq chunks'[s]
        BY DEF AckedAreKept, Whole
    <2>1. s \notin dropped /\ Whole(s) \notin files /\ chunks[s] \subseteq chunks'[s]
        BY <1>1, Lasting
    <2>2. acked[s] \subseteq chunks[s]
        BY <2>1 DEF Keeping, AckedAreKept, Whole
    <2>3. ASSUME NEW c \in Calls, CountChunk(c), call[c].session = s
          PROVE  call[c].chunk \in chunks[s]
        BY <2>1, <2>3 DEF CountChunk, Keeping, CountedAreKept
    <2> QED
        BY <2>1, <2>2, <2>3, AckedBy
<1>3. ASSUME NEW d \in Calls, call'[d].at \in {"cancel_clean", "cancel_mark"}
      PROVE  call'[d].session \in dropped'
    <2>1. CASE call'[d] = call[d]
        BY <1>3, <2>1, Lasting DEF Keeping, CancelDropped
    <2>2. CASE \E s \in Sessions : Begin(d, s)
        BY <1>3, <2>2 DEF Begin, BeginChunk, BeginComplete, BeginCancel, Become, TypeOK
    <2>3. CASE CancelClean(d)
        BY <2>3 DEF CancelClean, Become, Goto, TypeOK, Keeping, CancelDropped, history
    <2>4. CASE \/ PutChunk(d) \/ CountChunk(d) \/ MarkCompleted(d)
               \/ MarkCancelled(d) \/ StepFails(d)
        BY <1>3, <2>4 DEF PutChunk, CountChunk, MarkCompleted, MarkCancelled, StepFails,
           Become, Return, TypeOK
    <2>5. CASE GetChunk(d) \/ StoreFile(d) \/ CleanChunks(d) \/ CreateResource(d)
        BY <1>3, <2>5 DEF GetChunk, StoreFile, CleanChunks, CreateResource, Become, Return,
           Goto, TypeOK
    <2> QED
        BY <2>1, <2>2, <2>3, <2>4, <2>5, OwnSteps DEF Continue
<1>4. ASSUME NEW d \in Calls, call'[d].at = "count"
      PROVE  \/ call'[d].session \in dropped'
             \/ call'[d].chunk \in chunks'[call'[d].session]
             \/ Whole(call'[d].session) \in files'
    <2>1. CASE call'[d] = call[d]
        <3>1. call[d].session \in Sessions
            BY <1>4, <2>1, CallFields DEF Idle
        <3> QED
            BY <1>1, <1>4, <2>1, <3>1, Lasting DEF Keeping, CountedAreKept
    <2>2. CASE PutChunk(d)
        <3>1. call[d].session \in Sessions
            BY <2>2, CallFields DEF PutChunk, Idle
        <3> QED
            BY <2>2, <3>1 DEF PutChunk, Become, TypeOK
    <2>3. CASE \E s \in Sessions : Begin(d, s)
        BY <1>4, <2>3 DEF Begin, BeginChunk, BeginComplete, BeginCancel, Become, TypeOK
    <2>4. CASE \/ CountChunk(d) \/ MarkCompleted(d) \/ CancelClean(d)
               \/ MarkCancelled(d) \/ StepFails(d)
        BY <1>4, <2>4 DEF CountChunk, MarkCompleted, CancelClean, MarkCancelled, StepFails,
           Become, Return, Goto, TypeOK
    <2>5. CASE GetChunk(d) \/ StoreFile(d) \/ CleanChunks(d) \/ CreateResource(d)
        BY <1>4, <2>5 DEF GetChunk, StoreFile, CleanChunks, CreateResource, Become, Return,
           Goto, TypeOK
    <2> QED
        BY <2>1, <2>2, <2>3, <2>4, <2>5, OwnSteps DEF Continue
<1> QED
    BY <1>2, <1>3, <1>4 DEF Keeping, CancelDropped, CountedAreKept

\* Nothing but a late chunk follows a cleanup.
LEMMA CleaningStep ==
    ASSUME TypeOK, Cleaning, [Next]_vars
    PROVE  Cleaning'
\* A chunk put into a session that is ended, or is being ended, is late.
<1>1. ASSUME NEW s \in Sessions, s \notin late', chunks[s] \subseteq stuck[s],
             \/ IsRow(s) /\ sessions[s].status \in {"completed", "cancelled"}
             \/ \E c \in Calls : /\ call[c].at \in {"create", "mark", "cancel_mark"}
                                 /\ call[c].session = s
      PROVE  chunks'[s] \subseteq stuck'[s]
    <2>1. ASSUME NEW c \in Calls, PutChunk(c), call[c].session = s
          PROVE  s \in late'
        BY <1>1, <2>1 DEF PutChunk, InProgress, Finishing, InFlight, Idle
    <2> QED
        BY <1>1, <2>1, ChunksCome, Lasting
<1>2. NothingLeftBehind'
    <2> SUFFICES ASSUME NEW s \in Sessions, s \notin late', IsRow(s)',
                        sessions'[s].status \in {"completed", "cancelled"}
                 PROVE  chunks'[s] \subseteq stuck'[s]
        BY DEF NothingLeftBehind
    <2>1. s \notin late
        BY Lasting
    <2>2. CASE IsRow(s) /\ sessions[s].status = sessions'[s].status
        BY <1>1, <2>1, <2>2 DEF Cleaning, NothingLeftBehind
    <2>3. ASSUME NEW c \in Calls, MarkCompleted(c) \/ MarkCancelled(c), call[c].session = s
          PROVE  chunks'[s] \subseteq stuck'[s]
        BY <1>1, <2>1, <2>3 DEF MarkCompleted, MarkCancelled, Cleaning, FinishingClean
    <2> QED
        BY <2>2, <2>3, EndedBy
<1>3. ASSUME NEW d \in Calls, call'[d].at \in {"create", "mark", "cancel_mark"},
             call'[d].session \notin late'
      PROVE  chunks'[call'[d].session] \subseteq stuck'[call'[d].session]
    <2>1. CASE call'[d] = call[d]
        <3>1. call[d].session \in Sessions /\ call[d].session \notin late
            BY <1>3, <2>1, CallFields, Lasting DEF Idle
        <3> QED
            BY <1>1, <1>3, <2>1, <3>1 DEF Cleaning, FinishingClean
    <2>2. CASE CleanChunks(d) \/ CancelClean(d)
        <3>1. call[d].session \in Sessions /\ call'[d].session = call[d].session
            BY <2>2, CallFields DEF CleanChunks, CancelClean, Become, Goto, TypeOK, Idle
        <3> QED
            BY <2>2, <3>1, Deletes DEF CleanChunks, CancelClean
    <2>3. CASE CreateResource(d)
        <3>1. call'[d].session = call[d].session /\ UNCHANGED <<chunks, stuck>>
            BY <1>3, <2>3 DEF CreateResource, Become, Return, Goto, TypeOK
        <3> QED
            BY <1>3, <2>3, <3>1, Lasting DEF CreateResource, Cleaning, FinishingClean
    <2>4. CASE \E s \in Sessions : Begin(d, s)
        BY <1>3, <2>4 DEF Begin, BeginChunk, BeginComplete, BeginCancel, Become, TypeOK
    <2>5. CASE \/ PutChunk(d) \/ CountChunk(d) \/ MarkCompleted(d)
               \/ MarkCancelled(d) \/ StepFails(d)
        BY <1>3, <2>5 DEF PutChunk, CountChunk, MarkCompleted, MarkCancelled, StepFails,
           Become, Return, TypeOK
    <2>6. CASE GetChunk(d) \/ StoreFile(d)
        BY <1>3, <2>6 DEF GetChunk, StoreFile, Become, Return, Goto, TypeOK
    <2> QED
        BY <2>1, <2>2, <2>3, <2>4, <2>5, <2>6, OwnSteps DEF Continue
<1> QED
    BY <1>2, <1>3 DEF Cleaning, FinishingClean

-----------------------------------------------------------------------------
(* Rows *)

\* CountChunk counts one more chunk.
LEMMA CountedBy ==
    ASSUME TypeOK, NEW c \in Calls, CountChunk(c), IsRow(call[c].session)
    PROVE  LET s == call[c].session
               n == sessions[s].uploaded + 1
           IN  /\ sessions' = [sessions EXCEPT ![s] = [sessions[s] EXCEPT !.uploaded = n]]
               /\ sessions[s] \in Rows /\ n \in Nat /\ n >= sessions[s].uploaded
<1> DEFINE s == call[c].session
           n == sessions[s].uploaded + 1
<1>1. sessions[s] \in Rows
    BY CallFields, RowFields DEF CountChunk, Idle
<1>2. n \in Nat /\ n >= sessions[s].uploaded
    BY <1>1 DEF Rows
<1>3. sessions' = [sessions EXCEPT ![s] = [sessions[s] EXCEPT !.uploaded = n]]
    BY DEF CountChunk
<1> QED
    BY <1>1, <1>2, <1>3

\* What a step does to a row: it keeps it, initiates it, deletes it, or changes it
\* to one that has counted no less and is not in progress again.
LEMMA RowBy ==
    ASSUME TypeOK, [Next]_vars, NEW s \in Sessions
    PROVE  \/ sessions'[s] = sessions[s]
           \/ InitiateUpload(s)
           \/ sessions'[s] = Gone
           \/ /\ IsRow(s) /\ sessions'[s] \in Rows
              /\ sessions'[s].uploaded >= sessions[s].uploaded
              /\ sessions'[s].status = "in_progress" => sessions[s].status = "in_progress"
<1> USE DEF TypeOK
<1>1. ASSUME NEW row \in Rows
      PROVE  row.uploaded >= row.uploaded
    BY <1>1 DEF Rows
<1>2. CASE UNCHANGED sessions
    BY <1>2
<1>3. ASSUME NEW r \in Sessions, InitiateUpload(r), ~InitiateUpload(s)
      PROVE  sessions'[s] = sessions[s]
    BY <1>3 DEF InitiateUpload
<1>4. ASSUME NEW r \in Sessions, Expire(r)
      PROVE  \/ sessions'[s] = sessions[s]
             \/ /\ IsRow(s) /\ sessions'[s] \in Rows
                /\ sessions'[s].uploaded >= sessions[s].uploaded
                /\ sessions'[s].status = sessions[s].status
    BY <1>1, <1>4, RowFields DEF Expire, Rows
<1>5. CASE MarkExpired
    <2>1. CASE InProgress(s) /\ sessions[s].expired
        <3>1. sessions'[s] = [sessions[s] EXCEPT !.status = "expired"]
            BY <1>5, <2>1 DEF MarkExpired
        <3> QED
            BY <1>1, <2>1, <3>1, RowFields DEF InProgress, Rows
    <2>2. CASE ~(InProgress(s) /\ sessions[s].expired)
        BY <1>5, <2>2 DEF MarkExpired
    <2> QED
        BY <2>1, <2>2
<1>6. CASE DeleteExpired
    BY <1>6 DEF DeleteExpired
<1>7. ASSUME NEW c \in Calls, CountChunk(c)
      PROVE  \/ sessions'[s] = sessions[s]
             \/ /\ IsRow(s) /\ sessions'[s] \in Rows
                /\ sessions'[s].uploaded >= sessions[s].uploaded
                /\ sessions'[s].status = sessions[s].status
    <2>1. CASE IsRow(call[c].session)
        <3> DEFINE r == call[c].session
                   n == sessions[r].uploaded + 1
        <3>1. /\ sessions' = [sessions EXCEPT ![r] = [sessions[r] EXCEPT !.uploaded = n]]
              /\ sessions[r] \in Rows /\ n \in Nat /\ n >= sessions[r].uploaded
            BY <1>7, <2>1, CountedBy
        <3> HIDE DEF n
        <3> QED
            BY <2>1, <3>1 DEF Rows
    <2>2. CASE ~IsRow(call[c].session)
        BY <1>7, <2>2 DEF CountChunk
    <2> QED
        BY <2>1, <2>2
<1>8. ASSUME NEW c \in Calls, MarkCompleted(c) \/ MarkCancelled(c)
      PROVE  \/ sessions'[s] = sessions[s]
             \/ /\ IsRow(s) /\ sessions'[s] \in Rows
                /\ sessions'[s].uploaded >= sessions[s].uploaded
                /\ sessions'[s].status # "in_progress"
    <2>1. CASE IsRow(s) /\ call[c].session = s
        <3>1. PICK status \in {"completed", "cancelled"} :
                  sessions'[s] = [sessions[s] EXCEPT !.status = status]
            BY <1>8, <2>1 DEF MarkCompleted, MarkCancelled, UpdateStatus
        <3>2. sessions[s] \in Rows /\ sessions'[s] \in Rows
            <4>1. \A w \in {"completed", "cancelled"} : [sessions[s] EXCEPT !.status = w] \in Rows
                BY <2>1, RowFields
            <4> QED
                BY <2>1, <3>1, <4>1, RowFields
        <3>3. sessions'[s].uploaded = sessions[s].uploaded /\ sessions'[s].status = status
            BY <3>1, <3>2 DEF Rows
        <3> QED
            BY <1>1, <2>1, <3>2, <3>3
    <2>2. CASE ~(IsRow(s) /\ call[c].session = s)
        BY <1>8, <2>2 DEF MarkCompleted, MarkCancelled, UpdateStatus
    <2> QED
        BY <2>1, <2>2
<1> QED
    BY <1>2, <1>3, <1>4, <1>5, <1>6, <1>7, <1>8 DEF Next, vars, MoveSlot, Begin, BeginChunk,
       BeginComplete, BeginCancel, Continue, PutChunk, GetChunk, StoreFile, CleanChunks,
       CreateResource, CancelClean, StepFails

\* Resources are made only by CreateResource.
LEMMA MadeBy ==
    ASSUME TypeOK, [Next]_vars, NEW s \in Sessions
    PROVE  \/ made'[s] = made[s]
           \/ \E c \in Calls : /\ CreateResource(c) /\ call[c].session = s
                               /\ call'[c] = [at |-> "mark", session |-> s]
                               /\ made'[s] = IF made[s] < 2 THEN made[s] + 1 ELSE made[s]
<1> USE DEF TypeOK
<1>1. CASE UNCHANGED made
    BY <1>1
<1>2. ASSUME NEW c \in Calls, CreateResource(c)
      PROVE  \/ made'[s] = made[s]
             \/ /\ call[c].session = s
                /\ call'[c] = [at |-> "mark", session |-> s]
                /\ made'[s] = IF made[s] < 2 THEN made[s] + 1 ELSE made[s]
    BY <1>2 DEF CreateResource, Become, Goto
<1> QED
    BY <1>1, <1>2 DEF Next, vars, history, MarkExpired, DeleteExpired, MoveSlot,
       InitiateUpload, Expire, Begin, BeginChunk, BeginComplete, BeginCancel, Continue,
       PutChunk, CountChunk, GetChunk, StoreFile, CleanChunks, MarkCompleted, CancelClean,
       MarkCancelled, StepFails

\* A handler works on one session until it returns.
LEMMA StaysWith ==
    ASSUME TypeOK, NEW d \in Calls, Continue(d), call'[d].at # "idle"
    PROVE  call[d].at # "idle" /\ call'[d].session = call[d].session
<1> USE DEF TypeOK, Become, Return, Goto
<1>1. CASE PutChunk(d) \/ CountChunk(d) \/ StoreFile(d) \/ CleanChunks(d)
    BY <1>1 DEF PutChunk, CountChunk, StoreFile, CleanChunks
<1>2. CASE GetChunk(d)
    BY <1>2 DEF GetChunk
<1>3. CASE CreateResource(d) \/ MarkCompleted(d)
    BY <1>3 DEF CreateResource, MarkCompleted
<1>4. CASE CancelClean(d) \/ MarkCancelled(d) \/ StepFails(d)
    BY <1>4 DEF CancelClean, MarkCancelled, StepFails, Idle
<1> QED
    BY <1>1, <1>2, <1>3, <1>4 DEF Continue

\* A session that is not initiated stays untouched.
LEMMA UntouchedStep ==
    ASSUME TypeOK, Untouched, [Next]_vars
    PROVE  Untouched'
<1> SUFFICES ASSUME NEW s \in Sessions, sessions'[s] = None
             PROVE  /\ acked'[s] = {}
                    /\ made'[s] = 0
                    /\ \A d \in Calls : call'[d].at # "idle" => call'[d].session # s
    BY DEF Untouched, Idle
<1>1. sessions[s] = None
    <2>1. ~InitiateUpload(s)
        <3>1. [status |-> "in_progress", uploaded |-> 0, expired |-> FALSE] \in Rows
            BY UploadAssumption DEF Rows
        <3> QED
            BY <3>1, RowAssumption DEF InitiateUpload, TypeOK
    <2> QED
        BY <2>1, RowBy, RowAssumption
<1>2. acked'[s] = {}
    BY <1>1, AckedBy DEF Untouched, IsRow
<1>3. made'[s] = 0
    <2>1. ASSUME NEW c \in Calls, CreateResource(c)
          PROVE  call[c].session # s
        BY <1>1, <2>1 DEF Untouched, CreateResource, Idle
    <2>2. made'[s] = made[s]
        BY <2>1, MadeBy
    <2> QED
        BY <1>1, <2>2 DEF Untouched
<1>4. ASSUME NEW d \in Calls, call'[d].at # "idle"
      PROVE  call'[d].session # s
    <2>1. CASE call'[d] = call[d]
        BY <1>1, <1>4, <2>1 DEF Untouched, Idle
    <2>2. ASSUME NEW r \in Sessions, Begin(d, r)
          PROVE  call'[d].session = r /\ IsRow(r)
        BY <2>2 DEF Begin, BeginChunk, BeginComplete, BeginCancel, Become, TypeOK, InProgress
    <2>3. CASE Continue(d)
        <3>1. call[d].at # "idle" /\ call'[d].session = call[d].session
            BY <1>4, <2>3, StaysWith
        <3> QED
            BY <1>1, <3>1 DEF Untouched, Idle
    <2> QED
        BY <1>1, <2>1, <2>2, <2>3, OwnSteps DEF IsRow
<1> QED
    BY <1>2, <1>3, <1>4

-----------------------------------------------------------------------------
(* Counts and resources *)

\* Sets of chunks are finite and count to the total at most.
LEMMA ChunkSets ==
    ASSUME NEW C \in SUBSET Chunks
    PROVE  /\ IsFiniteSet(C) /\ Cardinality(C) \in 0..TotalChunks
           /\ \A i \in Chunks : Cardinality(C \cup {i}) <= Cardinality(C) + 1
           /\ Cardinality(Chunks) = TotalChunks
<1>1. IsFiniteSet(Chunks) /\ Cardinality(Chunks) = TotalChunks
    BY FS_Interval, UploadAssumption DEF Chunks
<1>2. IsFiniteSet(C) /\ Cardinality(C) <= TotalChunks
    BY <1>1, FS_Subset
<1>3. Cardinality(C) \in Nat
    BY <1>2, FS_CardinalityType
<1>4. ASSUME NEW i \in Chunks
      PROVE  Cardinality(C \cup {i}) <= Cardinality(C) + 1
    <2>1. Cardinality(C \cup {i}) = IF i \in C THEN Cardinality(C) ELSE Cardinality(C) + 1
        BY <1>2, FS_AddElement
    <2> QED
        BY <1>3, <2>1
<1> QED
    BY <1>1, <1>2, <1>3, <1>4, UploadAssumption

\* No step acknowledges a chunk it does not count.
LEMMA CountedStep ==
    ASSUME TypeOK, Untouched, Counted, [Next]_vars
    PROVE  Counted'
<1> SUFFICES ASSUME NEW s \in Sessions, IsRow(s)'
             PROVE  Cardinality(acked'[s]) <= sessions'[s].uploaded
    BY DEF Counted
<1>1. /\ acked[s] \in SUBSET Chunks /\ acked'[s] \in SUBSET Chunks
      /\ sessions'[s] \in Rows
    BY TypeStep, RowFields DEF TypeOK, IsRow
<1>2. ASSUME NEW c \in Calls, CountChunk(c), call[c].session = s, IsRow(s),
             acked'[s] = acked[s] \cup {call[c].chunk}
      PROVE  Cardinality(acked'[s]) <= sessions'[s].uploaded
    <2> DEFINE n == sessions[s].uploaded + 1
    <2>1. /\ sessions' = [sessions EXCEPT ![s] = [sessions[s] EXCEPT !.uploaded = n]]
          /\ sessions[s] \in Rows
        BY <1>2, CountedBy
    <2>2. sessions'[s].uploaded = n
        <3> HIDE DEF n
        <3> QED
            BY <2>1 DEF TypeOK, Rows
    <2>3. call[c].chunk \in Chunks
        BY <1>2, CallFields DEF CountChunk
    <2>4. Cardinality(acked[s]) <= sessions[s].uploaded
        BY <1>2 DEF Counted
    <2>5. /\ Cardinality(acked[s]) \in Nat
          /\ Cardinality(acked'[s]) <= Cardinality(acked[s]) + 1
          /\ Cardinality(acked'[s]) <= TotalChunks /\ Cardinality(acked'[s]) \in Nat
        BY <1>1, <1>2, <2>3, ChunkSets, UploadAssumption
    <2>6. sessions[s].uploaded \in Nat
        BY <2>1 DEF Rows
    <2> QED
        BY <2>2, <2>4, <2>5, <2>6, UploadAssumption
<1>3. CASE acked'[s] = acked[s]
    <2>1. Cardinality(acked[s]) \in Nat
        BY <1>1, ChunkSets
    <2>2. CASE InitiateUpload(s)
        <3>1. acked[s] = {} /\ Cardinality({}) = 0
            BY <2>2, FS_EmptySet DEF InitiateUpload, Untouched
        <3>2. sessions'[s].uploaded \in Nat
            BY <1>1, UploadAssumption DEF Rows
        <3> QED
            BY <1>3, <3>1, <3>2
    <2>3. CASE IsRow(s) /\ sessions'[s].uploaded >= sessions[s].uploaded
        <3>1. \A row \in Rows : row.uploaded \in Nat
            BY UploadAssumption DEF Rows
        <3>2. sessions[s].uploaded \in Nat /\ sessions'[s].uploaded \in Nat
            BY <1>1, <2>3, <3>1, RowFields
        <3> QED
            BY <1>3, <2>1, <2>3, <3>2 DEF Counted
    <2>4. CASE sessions'[s] = sessions[s]
        BY <1>3, <2>4 DEF Counted, IsRow
    <2>5. sessions'[s] # Gone
        BY <1>1, RowAssumption
    <2> QED
        BY <2>2, <2>3, <2>4, <2>5, RowBy
<1> QED
    BY <1>2, <1>3, AckedBy

\* A handler that completes s did so before, or has just begun.
LEMMA CompleterMoves ==
    ASSUME TypeOK, [Next]_vars, NEW s \in Sessions, NEW d \in Completing(s)'
    PROVE  \/ BeginComplete(d, s)
           \/ d \in Completing(s)
<1>1. /\ d \in Calls /\ call'[d].session = s
      /\ call'[d].at \in {"get", "store", "clean", "create", "mark"}
    BY DEF Completing, InFlight
<1>2. CASE call'[d] = call[d]
    BY <1>1, <1>2 DEF Completing, InFlight, Idle
<1>3. ASSUME NEW r \in Sessions, Begin(d, r)
      PROVE  BeginComplete(d, s)
    <2>1. \A i \in Chunks : ~BeginChunk(d, r, i)
        BY <1>1 DEF BeginChunk, Become, TypeOK
    <2>2. ~BeginCancel(d, r)
        BY <1>1 DEF BeginCancel, Become, TypeOK
    <2>3. BeginComplete(d, r)
        BY <1>3, <2>1, <2>2 DEF Begin
    <2>4. r = s
        BY <1>1, <2>3 DEF BeginComplete, Become, TypeOK
    <2> QED
        BY <2>3, <2>4
<1>4. CASE Continue(d)
    <2>1. call[d].session = s
        BY <1>1, <1>4, StaysWith
    <2>2. call[d].at \in {"get", "store", "clean", "create", "mark"}
        <3>1. CASE GetChunk(d) \/ StoreFile(d) \/ CleanChunks(d) \/ CreateResource(d)
            BY <3>1 DEF GetChunk, StoreFile, CleanChunks, CreateResource
        <3>2. CASE \/ PutChunk(d) \/ CountChunk(d) \/ MarkCompleted(d)
                   \/ CancelClean(d) \/ MarkCancelled(d) \/ StepFails(d)
            BY <1>1, <3>2 DEF PutChunk, CountChunk, MarkCompleted, CancelClean,
               MarkCancelled, StepFails, Become, Return, Goto, TypeOK
        <3> QED
            BY <1>4, <3>1, <3>2 DEF Continue
    <2> QED
        BY <1>1, <2>1, <2>2 DEF Completing, InFlight, Idle
<1> QED
    BY <1>1, <1>2, <1>3, <1>4, OwnSteps

\* Two handlers complete one session only when they overlap.
LEMMA OneCompletionStep ==
    ASSUME TypeOK, OneCompletion, [Next]_vars
    PROVE  OneCompletion'
<1> SUFFICES ASSUME NEW s \in Sessions, s \notin overlapped',
                    NEW c \in Completing(s)', NEW d \in Completing(s)'
             PROVE  c = d
    BY DEF OneCompletion
<1>1. s \notin overlapped
    BY Lasting
<1>2. ASSUME NEW e \in Calls, BeginComplete(e, s)
      PROVE  /\ Completing(s) = {}
             /\ \A f \in Calls : BeginComplete(f, s) /\ ~Idle(f)' => f = e
    BY <1>2 DEF BeginComplete, Become, Idle, TypeOK
<1>3. c \in Calls /\ d \in Calls /\ ~Idle(c)' /\ ~Idle(d)'
    BY DEF Completing, InFlight
<1>4. CASE c \in Completing(s) /\ d \in Completing(s)
    BY <1>1, <1>4 DEF OneCompletion
<1> QED
    BY <1>2, <1>3, <1>4, CompleterMoves

\* In a used up session only late chunks are put, and not all is left to assemble.
LEMMA SpentStep ==
    ASSUME TypeOK, Untouched, Cleaning, Using, [Next]_vars
    PROVE  Spent'
<1> SUFFICES ASSUME ~failed', NEW s \in Sessions, s \notin late', s \notin overlapped',
                    made'[s] > 0, stuck'[s] # Chunks
             PROVE  /\ chunks'[s] \subseteq stuck'[s]
                    /\ InProgress(s)' => \E c \in Completing(s)' : call'[c].at = "mark"
                    /\ \A c \in Completing(s)' :
                          \/ call'[c].at = "mark"
                          \/ call'[c].at = "get" /\ 1..call'[c].size \subseteq stuck'[s]
    BY DEF Spent
<1>1. /\ ~failed /\ s \notin late /\ s \notin overlapped
      /\ stuck[s] \subseteq stuck'[s] /\ stuck[s] # Chunks
    BY Lasting, TypeStep DEF TypeOK
<1>2. CASE made[s] > 0
    <2>1. /\ chunks[s] \subseteq stuck[s]
          /\ InProgress(s) => \E c \in Completing(s) : call[c].at = "mark"
          /\ \A c \in Completing(s) :
                \/ call[c].at = "mark"
                \/ call[c].at = "get" /\ 1..call[c].size \subseteq stuck[s]
        BY <1>1, <1>2 DEF Using, Spent
    <2>2. chunks'[s] \subseteq stuck'[s]
        <3>1. ASSUME NEW c \in Calls, PutChunk(c), call[c].session = s
              PROVE  FALSE
            <4>1. InProgress(s) /\ Finishing(s) = {}
                BY <3>1 DEF PutChunk
            <4> QED
                BY <2>1, <4>1 DEF Completing, Finishing, InFlight
        <3> QED
            BY <1>1, <2>1, <3>1, ChunksCome
    <2>3. ASSUME InProgress(s)'
          PROVE  \E c \in Completing(s)' : call'[c].at = "mark"
        <3>1. InProgress(s)
            <4>1. ~InitiateUpload(s)
                BY <1>2 DEF InitiateUpload, Untouched
            <4> QED
                BY <2>3, <4>1, RowBy DEF InProgress, IsRow
        <3>2. PICK c \in Completing(s) : call[c].at = "mark"
            BY <2>1, <3>1
        <3>3. c \in Calls /\ call[c].session = s
            BY DEF Completing, InFlight
        <3>4. call'[c] = call[c]
            <4>1. ASSUME MarkCompleted(c)
                  PROVE  FALSE
                BY <2>3, <3>1, <3>3, <4>1, RowFields
                   DEF MarkCompleted, UpdateStatus, InProgress, TypeOK, Rows
            <4>2. ASSUME StepFails(c)
                  PROVE  FALSE
                BY <4>2 DEF StepFails
            <4>3. ASSUME NEW r \in Sessions, Begin(c, r)
                  PROVE  FALSE
                BY <3>2, <4>3 DEF Begin, BeginChunk, BeginComplete, BeginCancel, Idle
            <4> QED
                BY <3>2, <3>3, <4>1, <4>2, <4>3, OwnSteps
                   DEF Continue, PutChunk, CountChunk, GetChunk, StoreFile, CleanChunks,
                       CreateResource, CancelClean, MarkCancelled
        <3> QED
            BY <3>2, <3>3, <3>4 DEF Completing, InFlight, Idle
    <2>4. ASSUME NEW c \in Completing(s)'
          PROVE  \/ call'[c].at = "mark"
                 \/ call'[c].at = "get" /\ 1..call'[c].size \subseteq stuck'[s]
        <3>1. c \in Calls /\ ~Idle(c)'
            BY DEF Completing, InFlight
        <3>2. CASE BeginComplete(c, s)
            <4>1. call'[c].at = "get" /\ call'[c].size = 0
                BY <3>1, <3>2 DEF BeginComplete, Become, TypeOK
            <4> QED
                BY <4>1
        <3>3. CASE c \in Completing(s) /\ call'[c] = call[c]
            BY <1>1, <2>1, <3>3
        <3>4. CASE c \in Completing(s) /\ call'[c] # call[c]
            <4>1. \/ call[c].at = "mark"
                  \/ call[c].at = "get" /\ 1..call[c].size \subseteq stuck[s]
                BY <2>1, <3>4
            <4>2. call[c].session = s
                BY <3>4 DEF Completing, InFlight
            <4>3. CASE GetChunk(c)
                <5> DEFINE next == call[c].size + 1
                <5>1. /\ next \in chunks[s] /\ stuck' = stuck
                      /\ call'[c].at = IF next = TotalChunks THEN "store" ELSE "get"
                      /\ call'[c].size = next
                    BY <3>1, <4>2, <4>3 DEF GetChunk, Become, Return, Idle, TypeOK, history
                <5>2. call[c].size \in 0..TotalChunks /\ 1..call[c].size \subseteq stuck[s]
                    BY <3>1, <4>1, <4>3, CallFields DEF GetChunk
                <5>3. 1..next \subseteq stuck[s]
                    <6>1. next \in stuck[s]
                        BY <2>1, <5>1
                    <6>2. \A i \in 1..next : i = next \/ i \in 1..call[c].size
                        BY <5>2, UploadAssumption
                    <6> QED
                        BY <5>2, <6>1, <6>2
                <5>4. next # TotalChunks
                    BY <1>1, <5>3 DEF Chunks, TypeOK
                <5> QED
                    BY <5>1, <5>3, <5>4
            <4>4. ~MarkCompleted(c) /\ ~StepFails(c)
                BY <3>1 DEF MarkCompleted, StepFails, Become, Return, Idle, TypeOK
            <4>5. \A r \in Sessions : ~Begin(c, r)
                BY <4>1 DEF Begin, BeginChunk, BeginComplete, BeginCancel, Idle
            <4> QED
                BY <3>1, <3>4, <4>1, <4>3, <4>4, <4>5, OwnSteps
                   DEF Continue, PutChunk, CountChunk, StoreFile, CleanChunks,
                       CreateResource, CancelClean, MarkCancelled
        <3> QED
            BY <3>2, <3>3, <3>4, CompleterMoves
    <2> QED
        BY <2>2, <2>3, <2>4
<1>3. CASE ~(made[s] > 0)
    <2>1. PICK c \in Calls : /\ CreateResource(c) /\ call[c].session = s
                             /\ call'[c] = [at |-> "mark", session |-> s]
        BY <1>3, MadeBy
    <2>2. chunks'[s] \subseteq stuck'[s]
        BY <1>1, <2>1 DEF CreateResource, Cleaning, FinishingClean
    <2>3. c \in Completing(s)' /\ call'[c].at = "mark"
        BY <2>1 DEF Completing, InFlight, Idle
    <2>4. \A d \in Completing(s)' : d = c
        BY <2>3, OneCompletionStep DEF Using, OneCompletion
    <2> QED
        BY <2>2, <2>3, <2>4
<1> QED
    BY <1>2, <1>3

\* A second resource needs a late chunk, a second handler, or chunks that all stayed.
LEMMA OneResourceStep ==
    ASSUME TypeOK, Using, [Next]_vars
    PROVE  OneResourceEach'
<1> SUFFICES ASSUME ~failed', NEW s \in Sessions, made'[s] > 1
             PROVE  s \in late' \/ s \in overlapped' \/ stuck'[s] = Chunks
    BY DEF OneResourceEach
<1>1. CASE made[s] > 1
    BY <1>1, Lasting, TypeStep DEF Using, OneResourceEach, TypeOK
<1>2. ASSUME NEW c \in Calls, CreateResource(c), call[c].session = s, made[s] > 0
      PROVE  s \in late' \/ s \in overlapped' \/ stuck'[s] = Chunks
    <2>1. c \in Completing(s) /\ call[c].at = "create"
        BY <1>2 DEF CreateResource, Completing, InFlight, Idle
    <2>2. s \in late \/ s \in overlapped \/ stuck[s] = Chunks
        BY <1>2, <2>1, Lasting DEF Using, Spent
    <2> QED
        BY <2>2, Lasting, TypeStep DEF TypeOK
<1>3. ASSUME NEW c \in Calls, CreateResource(c), call[c].session = s,
             made'[s] = IF made[s] < 2 THEN made[s] + 1 ELSE made[s]
      PROVE  s \in late' \/ s \in overlapped' \/ stuck'[s] = Chunks
    <2>1. made[s] \in 0..2
        BY DEF TypeOK
    <2>2. made[s] > 0
        BY <1>3, <2>1
    <2> QED
        BY <1>2, <1>3, <2>2
<1>4. CASE made'[s] = made[s]
    BY <1>1, <1>4
<1> QED
    BY <1>3, <1>4, MadeBy

\* Every step keeps the invariant.
LEMMA StepIInv == IInv /\ [Next]_vars => IInv'
<1> SUFFICES ASSUME IInv, [Next]_vars
             PROVE  IInv'
    OBVIOUS
<1> USE DEF IInv
<1>1. TypeOK' /\ Untouched' /\ Completion'
    BY TypeStep, UntouchedStep, CompletionStep
<1>2. Keeping' /\ Cleaning' /\ Counted'
    BY KeepingStep, CleaningStep, CountedStep
<1>3. Using'
    BY OneCompletionStep, SpentStep, OneResourceStep DEF Using
<1> QED
    BY <1>1, <1>2, <1>3

\* The invariant holds in every reachable state.
LEMMA Inductive == Spec => []IInv
BY InitIInv, StepIInv, PTL DEF Spec

-----------------------------------------------------------------------------
(* Theorems *)

\* The variables keep their types, whatever the handlers, the worker and the content
\* manager do.
THEOREM TypeCorrect == Spec => []TypeOK
<1>1. IInv => TypeOK
    BY DEF IInv
<1> QED
    BY <1>1, Inductive, PTL

\* A client that was told of all its chunks has them counted and can complete
\* (process_chunk, handler.rs:144-151).
THEOREM CompleteIsPossible == Spec => []AckedAreCounted
<1>1. ASSUME IInv
      PROVE  AckedAreCounted
    <2> SUFFICES ASSUME NEW s \in Sessions, IsRow(s), acked[s] = Chunks
                 PROVE  sessions[s].uploaded >= TotalChunks
        BY DEF AckedAreCounted
    <2>1. TypeOK /\ Cardinality(acked[s]) <= sessions[s].uploaded
        BY <1>1 DEF IInv, Counted
    <2>2. Cardinality(Chunks) = TotalChunks
        BY ChunkSets
    <2> QED
        BY <2>1, <2>2
<1> QED
    BY <1>1, Inductive, PTL

\* No acknowledged chunk is lost without a cancel before its file is stored
\* (assemble_chunks and cleanup_chunks, handler.rs:202-212).
THEOREM NoChunkLost == Spec => []AckedAreKept
<1>1. IInv => AckedAreKept
    BY DEF IInv, Keeping
<1> QED
    BY <1>1, Inductive, PTL

\* Every stored file is whole (assemble_chunks, handler.rs:373-391).
THEOREM NoHoles == Spec => []FilesAreWhole
<1>1. IInv => FilesAreWhole
    BY DEF IInv, Completion
<1> QED
    BY <1>1, Inductive, PTL

\* A completed session has its resource and its file (complete_upload,
\* handler.rs:218-235).
THEOREM CompletedIsPublished == Spec => []CompletedHasResource
<1>1. IInv => CompletedHasResource
    BY DEF IInv, Completion
<1> QED
    BY <1>1, Inductive, PTL

\* Ended sessions leave only late chunks, and those whose deletion was refused, in
\* temporary storage (handler.rs:211-212, 333-338; s3_client.rs:220-226).
THEOREM StorageIsCleaned == Spec => []NothingLeftBehind
<1>1. IInv => NothingLeftBehind
    BY DEF IInv, Cleaning
<1> QED
    BY <1>1, Inductive, PTL

\* Completions one after the other make one resource of a session, unless none of its
\* chunks could be deleted (handler.rs:178-212).
THEOREM CompletionIsIdempotent == Spec => []OneResourceEach
<1>1. IInv => OneResourceEach
    BY DEF IInv, Using
<1> QED
    BY <1>1, Inductive, PTL
=============================================================================
