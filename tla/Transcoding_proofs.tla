------------------------- MODULE Transcoding_proofs -------------------------
(***************************************************************************)
(* For any jobs, workers and number of retries: rows, queue and workers    *)
(* never drift apart by themselves.                                        *)
(*                                                                         *)
(* A job in hand is in one hand, has a retry left, and whoever has it      *)
(* knows the count of its row.  So a job leaves the hands for good only    *)
(* when it is completed, out of retries, or dropped; and a worker that     *)
(* completes one has passed the two uploads and the metadata.              *)
(*                                                                         *)
(* That rows also keep the lifecycle of TranscodingJob, whose statements   *)
(* ask for no status, needs what status a row has in each hand             *)
(* (StatusKnown): pending in the queue, processing with a worker, failed   *)
(* until it is reset.                                                      *)
(***************************************************************************)
EXTENDS Transcoding, SequenceTheorems, FiniteSetTheorems, TLAPS

Busy(w) == worker[w].at # "idle"
Holds(w, j) == Busy(w) /\ Held(w) = j
InQueue(j) == \E k \in DOMAIN queue : queue[k].job = j
InWork(j) == \E w \in Workers : Holds(w, j)
Handed(j) == j \in triggering \/ InQueue(j) \/ InWork(j)

\* A job is in the hand of its upload, at one place of the queue or with one worker.
OneHand ==
    /\ \A k, l \in DOMAIN queue : queue[k].job = queue[l].job => k = l
    /\ \A v, w \in Workers : Busy(v) /\ Holds(w, Held(v)) => v = w
    /\ \A w \in Workers : Busy(w) => ~InQueue(Held(w)) /\ Held(w) \notin triggering
    /\ \A j \in triggering : ~InQueue(j)
    /\ \A j \in Jobs : job[j] = None => ~Handed(j)

\* What a row says of a job, in hand or not.
RowOK(j) ==
    HasRow(j) =>
        /\ ~Handed(j) => Ended(j) \/ j \in dropped
        /\ Handed(j) => job[j].retries < MaxRetries
        /\ j \in triggering => job[j].retries = 0
        /\ \A k \in DOMAIN queue : queue[k].job = j => queue[k].retries = job[j].retries
        /\ \A w \in Workers : Holds(w, j) => worker[w].msg.retries = job[j].retries
        /\ job[j].status = "completed" =>
              j \in manifest /\ <<j, "hls">> \in segments /\ <<j, "dash">> \in segments

\* What a worker has done before it comes to a place.
StageOK(w) ==
    Busy(w) =>
        /\ worker[w].at \in {"upload_dash", "cleanup", "metadata", "complete"} =>
              <<Held(w), "hls">> \in segments
        /\ worker[w].at \in {"cleanup", "metadata", "complete"} =>
              <<Held(w), "dash">> \in segments
        /\ worker[w].at = "complete" /\ HasRow(Held(w)) => Held(w) \in manifest

\* The inductive invariant.
RowsOK == \A j \in Jobs : RowOK(j)
StagesOK == \A w \in Workers : StageOK(w)
IInv == TranscodingTypeOK /\ OneHand /\ RowsOK /\ StagesOK

-----------------------------------------------------------------------------
(* Workers and the queue *)

LEMMA BusyWorker ==
    ASSUME TranscodingTypeOK, NEW w \in Workers, Busy(w)
    PROVE  /\ worker[w] \in [at : Places, msg : Messages]
           /\ Held(w) \in Jobs /\ worker[w].msg.retries \in 0..MaxRetries
<1>1. worker[w] \in [at : Places, msg : Messages]
    BY DEF TranscodingTypeOK, WorkerStates, Busy
<1> QED BY <1>1 DEF Held, Messages

LEMMA MoveFacts ==
    ASSUME TranscodingTypeOK, NEW w \in Workers, Busy(w), NEW place \in Places, Move(w, place)
    PROVE  /\ worker' \in [Workers -> WorkerStates]
           /\ worker'[w] = [at |-> place, msg |-> worker[w].msg]
           /\ \A v \in Workers \ {w} : worker'[v] = worker[v]
<1>1. worker[w] \in [at : Places, msg : Messages]
    BY BusyWorker
<1>2. [worker[w] EXCEPT !.at = place] = [at |-> place, msg |-> worker[w].msg]
    BY <1>1
<1>3. [at |-> place, msg |-> worker[w].msg] \in WorkerStates
    BY <1>1 DEF WorkerStates
<1>4. worker \in [Workers -> WorkerStates]
    BY DEF TranscodingTypeOK
<1> QED BY <1>2, <1>3, <1>4 DEF Move

LEMMA RestFacts ==
    ASSUME TranscodingTypeOK, NEW w \in Workers, Rest(w)
    PROVE  /\ worker' \in [Workers -> WorkerStates]
           /\ worker'[w] = [at |-> "idle"]
           /\ \A v \in Workers \ {w} : worker'[v] = worker[v]
<1>1. [at |-> "idle"] \in WorkerStates
    BY DEF WorkerStates
<1> QED BY <1>1 DEF Rest, TranscodingTypeOK

LEMMA PlacesAreBusy == "idle" \notin Places
    BY DEF Places, TranscodeSteps

LEMMA AppendFacts ==
    ASSUME queue \in Seq(Messages), NEW msg \in Messages, queue' = Append(queue, msg)
    PROVE  /\ queue' \in Seq(Messages)
           /\ \A k \in DOMAIN queue : k \in DOMAIN queue' /\ queue'[k] = queue[k]
           /\ \A k \in DOMAIN queue' : k \in DOMAIN queue \/ (k = Len(queue) + 1 /\ queue'[k] = msg)
           /\ Len(queue) + 1 \in DOMAIN queue' /\ queue'[Len(queue) + 1] = msg
    BY AppendProperties

LEMMA TailFacts ==
    ASSUME queue \in Seq(Messages), queue # << >>, queue' = Tail(queue)
    PROVE  /\ queue' \in Seq(Messages)
           /\ 1 \in DOMAIN queue /\ Head(queue) = queue[1] /\ Head(queue) \in Messages
           /\ \A k \in DOMAIN queue' : k + 1 \in DOMAIN queue /\ queue'[k] = queue[k + 1] /\ k + 1 # 1 /\ k \in Nat
           /\ \A k \in DOMAIN queue : k # 1 => k - 1 \in DOMAIN queue' /\ queue'[k - 1] = queue[k]
<1>1. Len(queue) \in Nat /\ Len(queue) > 0 /\ DOMAIN queue = 1..Len(queue)
    BY EmptySeq, LenProperties
<1>2. queue' \in Seq(Messages) /\ Len(queue') = Len(queue) - 1
      /\ \A k \in 1..Len(queue') : queue'[k] = queue[k + 1]
    BY HeadTailProperties
<1>3. DOMAIN queue' = 1..Len(queue')
    BY <1>2, LenProperties
<1>4. Head(queue) = queue[1] /\ queue[1] \in Messages
    BY <1>1, HeadTailProperties, ElementOfSeq
<1> QED BY <1>1, <1>2, <1>3, <1>4

\* What is in the queue after a message is appended or taken.
LEMMA AppendQueue ==
    ASSUME queue \in Seq(Messages), NEW msg \in Messages, queue' = Append(queue, msg), NEW j
    PROVE  InQueue(j)' <=> InQueue(j) \/ msg.job = j
    BY AppendFacts DEF InQueue

LEMMA TailQueue ==
    ASSUME queue \in Seq(Messages), queue # << >>, queue' = Tail(queue), NEW j,
           \A k, l \in DOMAIN queue : queue[k].job = queue[l].job => k = l
    PROVE  InQueue(j)' <=> InQueue(j) /\ Head(queue).job # j
<1>1. ASSUME InQueue(j)' PROVE InQueue(j) /\ Head(queue).job # j
    <2>1. PICK k \in DOMAIN queue' : queue'[k].job = j
        BY <1>1 DEF InQueue
    <2>2. k + 1 \in DOMAIN queue /\ queue[k + 1].job = j /\ k + 1 # 1
        BY <2>1, TailFacts
    <2>3. 1 \in DOMAIN queue /\ Head(queue) = queue[1]
        BY TailFacts
    <2>4. queue[1].job # j
        BY <2>2, <2>3
    <2> QED BY <2>2, <2>3, <2>4 DEF InQueue
<1>2. ASSUME InQueue(j), Head(queue).job # j PROVE InQueue(j)'
    <2>1. PICK k \in DOMAIN queue : queue[k].job = j
        BY <1>2 DEF InQueue
    <2>2. k # 1
        BY <1>2, <2>1, TailFacts
    <2>3. k - 1 \in DOMAIN queue' /\ queue'[k - 1] = queue[k]
        BY <2>1, <2>2, TailFacts
    <2> QED BY <2>1, <2>3 DEF InQueue
<1> QED BY <1>1, <1>2

-----------------------------------------------------------------------------
(* The initial state *)

LEMMA InitIInv == TranscodingInit => IInv
<1> SUFFICES ASSUME TranscodingInit PROVE IInv
    OBVIOUS
<1>1. TranscodingTypeOK
    BY EmptySeq DEF TranscodingInit, TranscodingTypeOK, WorkerStates
<1>2. \A w \in Workers : ~Busy(w)
    BY DEF TranscodingInit, Busy
<1>3. DOMAIN queue = {}
    BY DEF TranscodingInit
<1>4. \A j \in Jobs : ~Handed(j) /\ ~HasRow(j)
    BY <1>2, <1>3 DEF TranscodingInit, Handed, InQueue, InWork, Holds, HasRow
<1>5. OneHand
    BY <1>2, <1>3, <1>4 DEF OneHand, TranscodingInit
<1> QED BY <1>1, <1>2, <1>4, <1>5 DEF IInv, RowsOK, RowOK, StagesOK, StageOK

-----------------------------------------------------------------------------
(* A worker goes on to another place with the message it holds *)

LEMMA MoveHands ==
    ASSUME TranscodingTypeOK, NEW w \in Workers, Busy(w), NEW place \in Places, Move(w, place),
           queue' = queue, triggering' = triggering
    PROVE  /\ \A v \in Workers : (Busy(v)' <=> Busy(v)) /\ (Busy(v) => worker'[v].msg = worker[v].msg)
           /\ \A v \in Workers : \A j : Holds(v, j)' <=> Holds(v, j)
           /\ \A j : (InQueue(j)' <=> InQueue(j)) /\ (InWork(j)' <=> InWork(j))
           /\ \A j : Handed(j)' <=> Handed(j)
<1>1. \A v \in Workers : (Busy(v)' <=> Busy(v)) /\ (Busy(v) => worker'[v].msg = worker[v].msg)
    <2>0. worker'[w] = [at |-> place, msg |-> worker[w].msg]
        BY MoveFacts
    <2>1. worker'[w].at = place /\ worker'[w].msg = worker[w].msg
        BY <2>0
    <2>2. \A v \in Workers : v # w => worker'[v] = worker[v]
        BY MoveFacts
    <2> QED BY <2>1, <2>2, PlacesAreBusy DEF Busy
<1>2. \A v \in Workers : \A j : Holds(v, j)' <=> Holds(v, j)
    BY <1>1 DEF Holds, Held
<1>3. \A j : (InQueue(j)' <=> InQueue(j)) /\ (InWork(j)' <=> InWork(j))
    BY <1>2 DEF InQueue, InWork
<1>4. \A j : Handed(j)' <=> Handed(j)
    BY <1>3 DEF Handed
<1> QED BY <1>1, <1>2, <1>3, <1>4

\* What a step may do to the row of the message's job, to its files and its manifest.
LEMMA MoveStep ==
    ASSUME IInv, NEW w \in Workers, Busy(w), NEW h \in Jobs, h = Held(w),
           NEW place \in Places, Move(w, place),
           queue' = queue, triggering' = triggering, dropped' = dropped,
           segments \subseteq segments', segments' \in SUBSET (Jobs \X Formats),
           manifest \subseteq manifest', manifest' \in SUBSET Jobs,
           job' \in [Jobs -> JobRows \cup {None, Gone}],
           \A j \in Jobs : j # h => job'[j] = job[j],
           job'[h] = None => job[h] = None,
           HasRow(h)' => HasRow(h),
           HasRow(h)' =>
               /\ job'[h].retries = job[h].retries
               /\ job'[h].status = "completed" => job[h].status = "completed",
           StageOK(w)'
    PROVE  IInv'
<1> USE DEF IInv
<1>m. /\ \A v \in Workers : (Busy(v)' <=> Busy(v)) /\ (Busy(v) => worker'[v].msg = worker[v].msg)
      /\ \A v \in Workers : \A j : Holds(v, j)' <=> Holds(v, j)
      /\ \A j : (InQueue(j)' <=> InQueue(j)) /\ (InWork(j)' <=> InWork(j))
      /\ \A j : Handed(j)' <=> Handed(j)
    BY MoveHands
<1>1. TranscodingTypeOK'
    BY MoveFacts DEF TranscodingTypeOK
<1>2. OneHand'
    <2>1. \A v \in Workers : Busy(v) => Held(v)' = Held(v)
        BY <1>m DEF Held
    <2>2. \A j \in Jobs : job'[j] = None => job[j] = None
        OBVIOUS
    <2> QED BY <1>m, <2>1, <2>2 DEF OneHand
<1>3. RowsOK'
    <2> SUFFICES ASSUME NEW j \in Jobs, HasRow(j)' PROVE RowOK(j)'
        BY DEF RowsOK, RowOK
    <2>1. HasRow(j)
        BY DEF HasRow
    <2>2. job'[j].retries = job[j].retries
          /\ (job'[j].status = "completed" => job[j].status = "completed")
        <3>1. CASE j = h
            BY <3>1 DEF HasRow
        <3>2. CASE j # h
            BY <3>2
        <3> QED BY <3>1, <3>2
    <2>3. RowOK(j)
        BY DEF RowsOK
    <2>4. ~Handed(j) => job'[j] = job[j]
        <3>1. ASSUME j = h PROVE Handed(j)
            BY <3>1 DEF Handed, InWork, Holds
        <3> QED BY <3>1
    <2>5. ~Handed(j)' => Ended(j)' \/ j \in dropped'
        BY <1>m, <2>1, <2>3, <2>4 DEF RowOK, Ended, HasRow
    <2>6. \A v \in Workers : Holds(v, j)' => worker'[v].msg.retries = job'[j].retries
        BY <1>m, <2>1, <2>2, <2>3 DEF RowOK, Holds
    <2> QED BY <1>m, <2>1, <2>2, <2>3, <2>5, <2>6 DEF RowOK
<1>4. StagesOK'
    <2> SUFFICES ASSUME NEW v \in Workers, v # w, Busy(v)' PROVE StageOK(v)'
        BY DEF StagesOK, StageOK
    <2>1. worker'[v] = worker[v] /\ Busy(v) /\ Held(v)' = Held(v)
        BY <1>m, MoveFacts DEF Held
    <2>2. Held(v) # h
        BY <2>1 DEF OneHand, Holds
    <2>3. HasRow(Held(v))' <=> HasRow(Held(v))
        <3>1. Held(v) \in Jobs
            BY <2>1, BusyWorker
        <3> QED BY <2>1, <2>2, <3>1 DEF HasRow
    <2> QED BY <2>1, <2>3 DEF StagesOK, StageOK
<1> QED BY <1>1, <1>2, <1>3, <1>4

-----------------------------------------------------------------------------
(* A worker lets go of its message *)

LEMMA RestHands ==
    ASSUME TranscodingTypeOK, NEW w \in Workers, Rest(w)
    PROVE  /\ ~Busy(w)'
           /\ \A v \in Workers : v # w => /\ Busy(v)' <=> Busy(v)
                                          /\ Held(v)' = Held(v)
                                          /\ worker'[v] = worker[v]
           /\ \A v \in Workers : \A j : Holds(v, j)' <=> Holds(v, j) /\ v # w
<1>1. ~Busy(w)'
    BY RestFacts DEF Busy
<1>2. \A v \in Workers : v # w => (Busy(v)' <=> Busy(v)) /\ Held(v)' = Held(v) /\ worker'[v] = worker[v]
    BY RestFacts DEF Busy, Held
<1>3. \A v \in Workers : \A j : Holds(v, j)' <=> Holds(v, j) /\ v # w
    BY <1>1, <1>2 DEF Holds
<1> QED BY <1>1, <1>2, <1>3

LEMMA RestStep ==
    ASSUME IInv, NEW w \in Workers, Busy(w), NEW h \in Jobs, h = Held(w), Rest(w),
           queue' = queue, triggering' = triggering, segments' = segments, manifest' = manifest,
           dropped \subseteq dropped', dropped' \in SUBSET Jobs,
           job' \in [Jobs -> JobRows \cup {None, Gone}],
           \A j \in Jobs : j # h => job'[j] = job[j],
           HasRow(h)' =>
               /\ Ended(h)' \/ h \in dropped'
               /\ job'[h].status = "completed" =>
                     /\ h \in manifest
                     /\ <<h, "hls">> \in segments /\ <<h, "dash">> \in segments
    PROVE  IInv'
<1> USE DEF IInv
<1>m. /\ ~Busy(w)'
      /\ \A v \in Workers : v # w => (Busy(v)' <=> Busy(v)) /\ Held(v)' = Held(v) /\ worker'[v] = worker[v]
      /\ \A v \in Workers : \A j : Holds(v, j)' <=> Holds(v, j) /\ v # w
    BY RestHands
<1>q. \A j : InQueue(j)' <=> InQueue(j)
    BY DEF InQueue
<1>a. Holds(w, h)
    BY DEF Holds
<1>b. ~InQueue(h) /\ h \notin triggering
      /\ (\A v \in Workers : Holds(v, h) => v = w)
    BY <1>a DEF OneHand
<1>c. ~Handed(h)'
    BY <1>b, <1>m, <1>q DEF Handed, InWork
<1>d. \A j : j # h => (Handed(j)' <=> Handed(j))
    <2>1. \A j : j # h => (InWork(j)' <=> InWork(j))
        BY <1>m DEF InWork, Holds
    <2> QED BY <2>1, <1>q DEF Handed
<1>1. TranscodingTypeOK'
    BY RestFacts DEF TranscodingTypeOK
<1>2. OneHand'
    <2>1. \A k, l \in DOMAIN queue' : queue'[k].job = queue'[l].job => k = l
        BY DEF OneHand
    <2>2. \A v, u \in Workers : Busy(v)' /\ Holds(u, Held(v))' => v = u
        BY <1>m DEF OneHand, Holds
    <2>3. \A v \in Workers : Busy(v)' => ~InQueue(Held(v))' /\ Held(v)' \notin triggering'
        BY <1>m, <1>q DEF OneHand, InQueue
    <2>4. \A j \in triggering' : ~InQueue(j)'
        BY <1>q DEF OneHand
    <2>5. \A j \in Jobs : job'[j] = None => ~Handed(j)'
        BY <1>c, <1>d DEF OneHand
    <2> QED BY <2>1, <2>2, <2>3, <2>4, <2>5 DEF OneHand
<1>3. RowsOK'
    <2> SUFFICES ASSUME NEW j \in Jobs, HasRow(j)' PROVE RowOK(j)'
        BY DEF RowsOK, RowOK
    <2>1. CASE j = h
        <3>1. \A v \in Workers : ~Holds(v, j)'
            BY <2>1, <1>c DEF Handed, InWork
        <3>2. \A k \in DOMAIN queue' : queue'[k].job # j
            BY <2>1, <1>c DEF Handed, InQueue
        <3>3. j \notin triggering'
            BY <2>1, <1>b
        <3> QED BY <2>1, <1>c, <3>1, <3>2, <3>3 DEF RowOK
    <2>2. CASE j # h
        <3>1. job'[j] = job[j] /\ HasRow(j) /\ (Ended(j)' <=> Ended(j))
            BY <2>2 DEF HasRow, Ended
        <3>2. RowOK(j)
            BY DEF RowsOK
        <3>3. \A v \in Workers : Holds(v, j)' => worker'[v].msg.retries = job'[j].retries
            BY <3>1, <3>2, <1>m DEF RowOK
        <3> QED BY <2>2, <1>d, <3>1, <3>2, <3>3 DEF RowOK
    <2> QED BY <2>1, <2>2
<1>4. StagesOK'
    <2> SUFFICES ASSUME NEW v \in Workers, v # w, Busy(v)' PROVE StageOK(v)'
        BY <1>m DEF StagesOK, StageOK
    <2>1. worker'[v] = worker[v] /\ Busy(v) /\ Held(v)' = Held(v)
        BY <1>m
    <2>2. Held(v) # h
        BY <2>1 DEF OneHand, Holds
    <2>3. Held(v) \in Jobs
        BY <2>1, BusyWorker
    <2>4. HasRow(Held(v))' <=> HasRow(Held(v))
        BY <2>1, <2>2, <2>3 DEF HasRow
    <2> QED BY <2>1, <2>4 DEF StagesOK, StageOK
<1> QED BY <1>1, <1>2, <1>3, <1>4

-----------------------------------------------------------------------------
(* The upload that triggers a transcoding *)

\* A step that takes nothing off the queue and moves no worker.
LEMMA StillHands ==
    ASSUME worker' = worker
    PROVE  /\ \A w \in Workers : (Busy(w)' <=> Busy(w)) /\ Held(w)' = Held(w)
           /\ \A w \in Workers : \A j : Holds(w, j)' <=> Holds(w, j)
           /\ \A j : InWork(j)' <=> InWork(j)
    BY DEF Busy, Holds, Held, InWork

\* A job that is not in the queue is put there by the one who has it.
LEMMA CreateJobIInv ==
    ASSUME IInv, NEW j \in Jobs, CreateJob(j)
    PROVE  IInv'
<1> USE DEF IInv, CreateJob
<1> DEFINE row == [status |-> "pending", retries |-> 0]
<1>r. row \in JobRows /\ row \notin {None, Gone}
    BY RetriesAssumption, NoRowAssumption DEF JobRows
<1>j. job' \in [Jobs -> JobRows \cup {None, Gone}] /\ job'[j] = row
      /\ \A i \in Jobs : i # j => job'[i] = job[i]
    BY <1>r DEF TranscodingTypeOK
<1>m. /\ \A w \in Workers : (Busy(w)' <=> Busy(w)) /\ Held(w)' = Held(w)
      /\ \A w \in Workers : \A i : Holds(w, i)' <=> Holds(w, i)
      /\ \A i : InWork(i)' <=> InWork(i)
    BY StillHands
<1>q. \A i : InQueue(i)' <=> InQueue(i)
    BY DEF InQueue
<1>n. j \notin triggering /\ ~InQueue(j) /\ ~InWork(j)
    BY DEF OneHand, Handed
<1>d. Handed(j)' /\ \A i : i # j => (Handed(i)' <=> Handed(i))
    BY <1>m, <1>q DEF Handed
<1>1. TranscodingTypeOK'
    BY <1>j DEF TranscodingTypeOK
<1>2. OneHand'
    <2>1. \A w \in Workers : Busy(w) => Held(w) # j
        BY <1>n DEF InWork, Holds
    <2>2. \A i \in Jobs : job'[i] = None => ~Handed(i)'
        BY <1>j, <1>r, <1>d DEF OneHand
    <2>3. \A v, w \in Workers : Busy(v)' /\ Holds(w, Held(v))' => v = w
        BY <1>m DEF OneHand, Holds
    <2>4. \A w \in Workers : Busy(w)' => ~InQueue(Held(w))' /\ Held(w)' \notin triggering'
        BY <1>m, <1>q, <2>1 DEF OneHand, InQueue
    <2>5. \A i \in triggering' : ~InQueue(i)'
        BY <1>q, <1>n DEF OneHand
    <2> QED BY <2>2, <2>3, <2>4, <2>5 DEF OneHand
<1>3. RowsOK'
    <2> SUFFICES ASSUME NEW i \in Jobs, HasRow(i)' PROVE RowOK(i)'
        BY DEF RowsOK, RowOK
    <2>1. CASE i = j
        <3>1. \A w \in Workers : ~Holds(w, i)'
            BY <2>1, <1>n, <1>m DEF InWork
        <3>2. \A k \in DOMAIN queue' : queue'[k].job # i
            BY <2>1, <1>n DEF InQueue
        <3> QED BY <2>1, <3>1, <3>2, <1>d, <1>j, RetriesAssumption DEF RowOK
    <2>2. CASE i # j
        <3>1. job'[i] = job[i] /\ HasRow(i) /\ (Ended(i)' <=> Ended(i)) /\ RowOK(i)
            BY <2>2, <1>j DEF HasRow, Ended, RowsOK
        <3> QED BY <2>2, <3>1, <1>d, <1>m DEF RowOK
    <2> QED BY <2>1, <2>2
<1>4. StagesOK'
    <2> SUFFICES ASSUME NEW w \in Workers, Busy(w)' PROVE StageOK(w)'
        BY DEF StagesOK, StageOK
    <2>1. Busy(w) /\ Held(w)' = Held(w) /\ Held(w) \in Jobs /\ Held(w) # j
        BY <1>m, <1>n, BusyWorker DEF InWork, Holds
    <2>2. HasRow(Held(w))' <=> HasRow(Held(w))
        BY <2>1, <1>j DEF HasRow
    <2> QED BY <2>1, <2>2 DEF StagesOK, StageOK
<1> QED BY <1>1, <1>2, <1>3, <1>4

\* A message is put on the queue by the one that had its job in hand: the upload
\* (then no worker moves) or a worker that rests.
LEMMA EnqueueStep ==
    ASSUME IInv, NEW msg \in Messages, NEW h \in Jobs, h = msg.job,
           queue' = Append(queue, msg), triggering' = triggering \ {h},
           job' = job, segments' = segments, manifest' = manifest, dropped' = dropped,
           worker' \in [Workers -> WorkerStates],
           \A w \in Workers : Busy(w)' => Busy(w) /\ worker'[w] = worker[w] /\ Held(w) # h,
           \A w \in Workers : Busy(w) /\ Held(w) # h => Busy(w)',
           Handed(h), ~InQueue(h),
           HasRow(h) => msg.retries = job[h].retries
    PROVE  IInv'
<1> USE DEF IInv
<1>t. queue \in Seq(Messages)
    BY DEF TranscodingTypeOK
<1>q. \A j : InQueue(j)' <=> InQueue(j) \/ j = h
    BY <1>t, AppendQueue
<1>a. /\ queue' \in Seq(Messages)
      /\ \A k \in DOMAIN queue : k \in DOMAIN queue' /\ queue'[k] = queue[k]
      /\ \A k \in DOMAIN queue' : k \in DOMAIN queue \/ (k = Len(queue) + 1 /\ queue'[k] = msg)
    BY <1>t, AppendFacts
<1>w. \A w \in Workers : \A j : Holds(w, j)' <=> Holds(w, j) /\ j # h
    BY DEF Holds, Held
<1>h. \A w \in Workers : Busy(w)' => Held(w)' = Held(w)
    BY DEF Held
<1>d. \A j : Handed(j)' <=> Handed(j)
    BY <1>q, <1>w DEF Handed, InWork
<1>1. TranscodingTypeOK'
    BY <1>a DEF TranscodingTypeOK
<1>2. OneHand'
    <2>1. \A k, l \in DOMAIN queue' : queue'[k].job = queue'[l].job => k = l
        BY <1>a DEF OneHand, InQueue
    <2>2. \A v, w \in Workers : Busy(v)' /\ Holds(w, Held(v))' => v = w
        BY <1>w, <1>h DEF OneHand, Holds
    <2>3. \A w \in Workers : Busy(w)' => ~InQueue(Held(w))' /\ Held(w)' \notin triggering'
        <3> SUFFICES ASSUME NEW w \in Workers, Busy(w)'
                     PROVE  ~InQueue(Held(w))' /\ Held(w)' \notin triggering'
            OBVIOUS
        <3>1. PICK g : g = Held(w) /\ g # h /\ g = Held(w)'
            BY <1>h
        <3>2. ~InQueue(g) /\ g \notin triggering
            BY <3>1 DEF OneHand
        <3>3. ~InQueue(g)' /\ g \notin triggering'
            BY <3>1, <3>2, <1>q
        <3> QED BY <3>1, <3>3 DEF InQueue
    <2>4. \A j \in triggering' : ~InQueue(j)'
        BY <1>q DEF OneHand
    <2>5. \A j \in Jobs : job'[j] = None => ~Handed(j)'
        BY <1>d DEF OneHand
    <2> QED BY <2>1, <2>2, <2>3, <2>4, <2>5 DEF OneHand
<1>3. RowsOK'
    <2> SUFFICES ASSUME NEW j \in Jobs, HasRow(j)' PROVE RowOK(j)'
        BY DEF RowsOK, RowOK
    <2>1. HasRow(j) /\ RowOK(j) /\ (Ended(j)' <=> Ended(j))
        BY DEF HasRow, RowsOK, Ended
    <2>2. \A k \in DOMAIN queue' : queue'[k].job = j => queue'[k].retries = job'[j].retries
        BY <1>a, <2>1 DEF RowOK
    <2>3. \A w \in Workers : Holds(w, j)' => worker'[w].msg.retries = job'[j].retries
        BY <1>w, <2>1 DEF RowOK, Holds
    <2> QED BY <1>d, <2>1, <2>2, <2>3 DEF RowOK
<1>4. StagesOK'
    BY <1>h DEF StagesOK, StageOK, HasRow
<1> QED BY <1>1, <1>2, <1>3, <1>4

LEMMA EnqueueIInv ==
    ASSUME IInv, NEW j \in Jobs, Enqueue(j)
    PROVE  IInv'
<1> USE DEF IInv, Enqueue
<1> DEFINE msg == [job |-> j, retries |-> 0]
<1>1. msg \in Messages /\ msg.job = j /\ msg.retries = 0
    BY RetriesAssumption DEF Messages
<1>2. Handed(j) /\ ~InQueue(j) /\ \A w \in Workers : Busy(w) => Held(w) # j
    BY DEF OneHand, Handed
<1>3. HasRow(j) => job[j].retries = 0
    BY DEF RowsOK, RowOK
<1>4. worker' \in [Workers -> WorkerStates] /\ worker' = worker
    BY DEF TranscodingTypeOK
<1>5. \A w \in Workers : Busy(w)' <=> Busy(w)
    BY DEF Busy
<1> HIDE DEF msg, IInv
<1>6. queue' = Append(queue, msg)
    BY DEF msg
<1> QED BY <1>1, <1>2, <1>3, <1>4, <1>5, <1>6, EnqueueStep

LEMMA EnqueueFailsIInv ==
    ASSUME IInv, NEW j \in Jobs, EnqueueFails(j)
    PROVE  IInv'
<1> USE DEF IInv, EnqueueFails
<1>m. /\ \A w \in Workers : (Busy(w)' <=> Busy(w)) /\ Held(w)' = Held(w)
      /\ \A w \in Workers : \A i : Holds(w, i)' <=> Holds(w, i)
      /\ \A i : InWork(i)' <=> InWork(i)
    BY StillHands
<1>q. \A i : InQueue(i)' <=> InQueue(i)
    BY DEF InQueue
<1>d. (\A i : Handed(i)' => Handed(i)) /\ (\A i : i # j => (Handed(i)' <=> Handed(i)))
    BY <1>m, <1>q DEF Handed
<1>1. TranscodingTypeOK'
    BY DEF TranscodingTypeOK
<1>2. OneHand'
    <2>1. \A w \in Workers : Busy(w)' => ~InQueue(Held(w))' /\ Held(w)' \notin triggering'
        BY <1>m, <1>q DEF OneHand, InQueue
    <2>2. \A v, w \in Workers : Busy(v)' /\ Holds(w, Held(v))' => v = w
        BY <1>m DEF OneHand, Holds
    <2> QED BY <1>m, <1>q, <1>d, <2>1, <2>2 DEF OneHand
<1>3. RowsOK'
    <2> SUFFICES ASSUME NEW i \in Jobs, HasRow(i)' PROVE RowOK(i)'
        BY DEF RowsOK, RowOK
    <2>1. HasRow(i) /\ RowOK(i) /\ (Ended(i)' <=> Ended(i))
        BY DEF HasRow, RowsOK, Ended
    <2> QED BY <2>1, <1>d, <1>m DEF RowOK
<1>4. StagesOK'
    BY <1>m DEF StagesOK, StageOK, HasRow
<1> QED BY <1>1, <1>2, <1>3, <1>4

-----------------------------------------------------------------------------
(* A worker takes a job *)

LEMMA DequeueIInv ==
    ASSUME IInv, NEW w \in Workers, Dequeue(w)
    PROVE  IInv'
<1> USE DEF IInv, Dequeue
<1>t. queue \in Seq(Messages) /\ worker \in [Workers -> WorkerStates]
    BY DEF TranscodingTypeOK
<1>a. /\ queue' \in Seq(Messages)
      /\ 1 \in DOMAIN queue /\ Head(queue) = queue[1] /\ Head(queue) \in Messages
      /\ \A k \in DOMAIN queue' : k + 1 \in DOMAIN queue /\ queue'[k] = queue[k + 1] /\ k + 1 # 1 /\ k \in Nat
      /\ \A k \in DOMAIN queue : k # 1 => k - 1 \in DOMAIN queue' /\ queue'[k - 1] = queue[k]
    BY <1>t, TailFacts
<1> DEFINE h == Head(queue).job
           taken == [at |-> "take", msg |-> Head(queue)]
<1>h. h \in Jobs /\ InQueue(h)
    BY <1>a DEF InQueue, Messages
<1>k. taken \in WorkerStates /\ taken.at = "take" /\ taken.msg = Head(queue)
    BY <1>a DEF WorkerStates, Places
<1>p. PICK g \in Jobs : g = h
    BY <1>h
<1>w. /\ worker' \in [Workers -> WorkerStates] /\ worker'[w] = taken
      /\ \A v \in Workers : v # w => worker'[v] = worker[v]
    BY <1>t, <1>k
<1>i. ~Busy(w) /\ Busy(w)' /\ Held(w)' = g
    BY <1>w, <1>k, <1>p DEF Busy, Held
<1>o. \A v \in Workers : v # w => (Busy(v)' <=> Busy(v)) /\ Held(v)' = Held(v)
    BY <1>w DEF Busy, Held
<1> HIDE DEF h, taken
<1>q. \A j : InQueue(j)' <=> InQueue(j) /\ j # g
    BY <1>t, <1>p, TailQueue DEF OneHand, h
<1>g. InQueue(g) /\ g \notin triggering /\ ~InWork(g)
    BY <1>h, <1>p DEF OneHand, InWork, Holds
<1>s. \A v \in Workers : \A j : Holds(v, j)' <=> Holds(v, j) \/ (v = w /\ j = g)
    BY <1>i, <1>o DEF Holds
<1>d. \A j : Handed(j)' <=> Handed(j)
    <2>1. \A j : InWork(j)' <=> InWork(j) \/ j = g
        BY <1>s DEF InWork
    <2> QED BY <2>1, <1>q, <1>g DEF Handed
<1>1. TranscodingTypeOK'
    BY <1>a, <1>w DEF TranscodingTypeOK
<1>2. OneHand'
    <2>1. \A k, l \in DOMAIN queue' : queue'[k].job = queue'[l].job => k = l
        <3> SUFFICES ASSUME NEW k \in DOMAIN queue', NEW l \in DOMAIN queue',
                            queue'[k].job = queue'[l].job
                     PROVE  k = l
            OBVIOUS
        <3>1. k + 1 = l + 1
            BY <1>a DEF OneHand
        <3> QED BY <1>a, <3>1
    <2>2. \A v, u \in Workers : Busy(v)' /\ Holds(u, Held(v))' => v = u
        BY <1>i, <1>o, <1>g DEF OneHand, Holds, InWork
    <2>3. \A v \in Workers : Busy(v)' => ~InQueue(Held(v))' /\ Held(v)' \notin triggering'
        <3> SUFFICES ASSUME NEW v \in Workers, Busy(v)'
                     PROVE  ~InQueue(Held(v))' /\ Held(v)' \notin triggering'
            OBVIOUS
        <3>1. PICK f : f = Held(v)'
            OBVIOUS
        <3>2. ~InQueue(f)' /\ f \notin triggering'
            BY <3>1, <1>i, <1>o, <1>q, <1>g DEF OneHand
        <3> QED BY <3>1, <3>2 DEF InQueue
    <2>4. \A j \in triggering' : ~InQueue(j)'
        BY <1>q DEF OneHand
    <2>5. \A j \in Jobs : job'[j] = None => ~Handed(j)'
        BY <1>d DEF OneHand
    <2> QED BY <2>1, <2>2, <2>3, <2>4, <2>5 DEF OneHand
<1>3. RowsOK'
    <2> SUFFICES ASSUME NEW j \in Jobs, HasRow(j)' PROVE RowOK(j)'
        BY DEF RowsOK, RowOK
    <2>1. HasRow(j) /\ RowOK(j) /\ (Ended(j)' <=> Ended(j))
        BY DEF HasRow, RowsOK, Ended
    <2>2. \A k \in DOMAIN queue' : queue'[k].job = j => queue'[k].retries = job'[j].retries
        BY <1>a, <2>1 DEF RowOK
    <2>3. ASSUME NEW v \in Workers, Holds(v, j)' PROVE worker'[v].msg.retries = job'[j].retries
        <3>1. CASE v = w
            <4>1. j = g /\ queue[1].job = j
                BY <3>1, <2>3, <1>i, <1>a, <1>p DEF Holds, h
            <4>2. queue[1].retries = job[j].retries
                BY <4>1, <2>1, <1>a DEF RowOK
            <4> QED BY <3>1, <4>2, <1>w, <1>k, <1>a
        <3>2. CASE v # w
            BY <3>2, <2>3, <1>s, <1>w, <2>1 DEF RowOK
        <3> QED BY <3>1, <3>2
    <2> QED BY <1>d, <2>1, <2>2, <2>3 DEF RowOK
<1>4. StagesOK'
    <2> SUFFICES ASSUME NEW v \in Workers, Busy(v)' PROVE StageOK(v)'
        BY DEF StagesOK, StageOK
    <2>1. CASE v = w
        BY <2>1, <1>w, <1>k DEF StageOK
    <2>2. CASE v # w
        BY <2>2, <1>o, <1>w DEF StagesOK, StageOK, HasRow
    <2> QED BY <2>1, <2>2
<1> QED BY <1>1, <1>2, <1>3, <1>4

\* A row that is only given another status.
LEMMA StatusFacts ==
    ASSUME TranscodingTypeOK, NEW h \in Jobs,
           NEW status \in {"pending", "processing", "completed", "failed"}, UpdateStatus(h, status)
    PROVE  /\ HasRow(h) /\ HasRow(h)' /\ job[h] \in JobRows
           /\ job' \in [Jobs -> JobRows \cup {None, Gone}]
           /\ \A j \in Jobs : j # h => job'[j] = job[j]
           /\ job'[h].status = status /\ job'[h].retries = job[h].retries
           /\ job'[h] # None
<1>1. HasRow(h) /\ job[h] \in JobRows
    BY DEF UpdateStatus, HasRow, TranscodingTypeOK
<1>2. [job[h] EXCEPT !.status = status] = [status |-> status, retries |-> job[h].retries]
    BY <1>1 DEF JobRows
<1>3. [status |-> status, retries |-> job[h].retries] \in JobRows
    BY <1>1 DEF JobRows
<1>4. job' = [job EXCEPT ![h] = [status |-> status, retries |-> job[h].retries]]
    BY <1>2 DEF UpdateStatus
<1>5. job \in [Jobs -> JobRows \cup {None, Gone}]
    BY DEF TranscodingTypeOK
<1>6. job'[h] = [status |-> status, retries |-> job[h].retries] /\ job'[h] \in JobRows
    BY <1>3, <1>4, <1>5
<1>7. job'[h] \notin {None, Gone}
    BY <1>6, NoRowAssumption
<1> QED BY <1>1, <1>3, <1>4, <1>5, <1>6, <1>7 DEF HasRow

LEMMA MarkProcessingIInv ==
    ASSUME IInv, NEW w \in Workers, MarkProcessing(w)
    PROVE  IInv'
<1> USE DEF MarkProcessing
<1>1. TranscodingTypeOK /\ Busy(w) /\ "download" \in Places
    BY DEF IInv, Busy, Places, TranscodeSteps
<1>2. PICK h \in Jobs : h = Held(w)
    BY <1>1, BusyWorker
<1>3. /\ HasRow(h) /\ job' \in [Jobs -> JobRows \cup {None, Gone}]
      /\ \A j \in Jobs : j # h => job'[j] = job[j]
      /\ job'[h].status = "processing" /\ job'[h].retries = job[h].retries /\ job'[h] # None
    BY <1>1, <1>2, StatusFacts
<1>4. worker'[w] = [at |-> "download", msg |-> worker[w].msg]
    BY <1>1, MoveFacts
<1>5. StageOK(w)'
    BY <1>4 DEF StageOK
<1>6. segments' \in SUBSET (Jobs \X Formats) /\ manifest' \in SUBSET Jobs
    BY <1>1 DEF TranscodingTypeOK
<1> QED BY <1>1, <1>2, <1>3, <1>5, <1>6, MoveStep

\* The steps of transcode_video that change nothing but the worker's place.
LEMMA LocalStepIInv ==
    ASSUME IInv, NEW w \in Workers, NEW from \in TranscodeSteps, NEW to \in Places,
           LocalStep(w, from, to),
           to \in {"probe", "to_hls", "to_dash", "upload_hls", "fail"}
               \/ (from = "cleanup" /\ to = "metadata")
    PROVE  IInv'
<1> USE DEF LocalStep
<1>1. TranscodingTypeOK /\ Busy(w) /\ StageOK(w)
    BY DEF IInv, Busy, TranscodeSteps, StagesOK
<1>2. PICK h \in Jobs : h = Held(w)
    BY <1>1, BusyWorker
<1>4. worker'[w] = [at |-> to, msg |-> worker[w].msg]
    BY <1>1, MoveFacts
<1>5. worker'[w].at = to /\ Held(w)' = Held(w)
    BY <1>4 DEF Held
<1>6. StageOK(w)'
    BY <1>1, <1>5 DEF StageOK
<1>7. /\ job' = job /\ job' \in [Jobs -> JobRows \cup {None, Gone}]
      /\ segments' \in SUBSET (Jobs \X Formats) /\ manifest' \in SUBSET Jobs
    BY <1>1 DEF TranscodingTypeOK
<1>8. HasRow(h)' <=> HasRow(h)
    BY <1>7 DEF HasRow
<1> QED BY <1>1, <1>2, <1>6, <1>7, <1>8, MoveStep

LEMMA UploadTranscodedIInv ==
    ASSUME IInv, NEW w \in Workers, UploadTranscoded(w)
    PROVE  IInv'
<1> USE DEF UploadTranscoded
<1>1. TranscodingTypeOK /\ Busy(w) /\ StageOK(w)
    BY DEF IInv, Busy, StagesOK
<1>2. PICK h \in Jobs : h = Held(w)
    BY <1>1, BusyWorker
<1>3. PICK place \in {"upload_dash", "cleanup"}, format \in Formats :
        /\ UploadFiles(w, format) /\ Move(w, place)
        /\ place = "upload_dash" => format = "hls"
        /\ place = "cleanup" => format = "dash" /\ worker[w].at = "upload_dash"
    BY DEF Formats
<1>4. place \in Places
    BY DEF Places, TranscodeSteps
<1>5. worker'[w] = [at |-> place, msg |-> worker[w].msg]
    BY <1>1, <1>3, <1>4, MoveFacts
<1>6. worker'[w].at = place /\ Held(w)' = Held(w)
    BY <1>5 DEF Held
<1>7. segments \subseteq segments' /\ segments' \in SUBSET (Jobs \X Formats)
      /\ <<h, format>> \in segments'
    BY <1>1, <1>2, <1>3 DEF UploadFiles, TranscodingTypeOK
<1>8. StageOK(w)'
    BY <1>1, <1>2, <1>3, <1>6, <1>7 DEF StageOK
<1>9. /\ job' = job /\ job' \in [Jobs -> JobRows \cup {None, Gone}] /\ manifest' \in SUBSET Jobs
      /\ queue' = queue /\ triggering' = triggering /\ dropped' = dropped /\ manifest' = manifest
    BY <1>1 DEF TranscodingTypeOK
<1>10. HasRow(h)' <=> HasRow(h)
    BY <1>9 DEF HasRow
<1> HIDE DEF UploadTranscoded
<1> QED BY <1>1, <1>2, <1>3, <1>4, <1>7, <1>8, <1>9, <1>10, MoveStep

LEMMA TranscodeVideoIInv ==
    ASSUME IInv, NEW w \in Workers, TranscodeVideo(w)
    PROVE  IInv'
<1>0. TranscodeSteps \subseteq Places /\ {"fail", "metadata"} \subseteq Places
    BY DEF Places
<1>1. CASE DownloadVideo(w) \/ GetVideoDuration(w)
    BY <1>0, <1>1, LocalStepIInv DEF DownloadVideo, GetVideoDuration, TranscodeSteps
<1>2. CASE TranscodeHls(w) \/ TranscodeDash(w)
    BY <1>0, <1>2, LocalStepIInv DEF TranscodeHls, TranscodeDash, TranscodeSteps
<1>3. CASE UploadTranscoded(w)
    BY <1>3, UploadTranscodedIInv
<1>4. CASE Cleanup(w)
    BY <1>0, <1>4, LocalStepIInv DEF Cleanup, TranscodeSteps
<1>5. CASE TranscodeFails(w)
    <2>1. PICK step \in TranscodeSteps : LocalStep(w, step, "fail")
        BY <1>5 DEF TranscodeFails
    <2> QED BY <1>0, <2>1, LocalStepIInv
<1> QED BY <1>1, <1>2, <1>3, <1>4, <1>5 DEF TranscodeVideo

LEMMA UpdateVideoMetadataIInv ==
    ASSUME IInv, NEW w \in Workers, UpdateVideoMetadata(w)
    PROVE  IInv'
<1> USE DEF UpdateVideoMetadata
<1>1. TranscodingTypeOK /\ Busy(w) /\ StageOK(w) /\ "complete" \in Places
    BY DEF IInv, Busy, StagesOK, Places
<1>2. PICK h \in Jobs : h = Held(w)
    BY <1>1, BusyWorker
<1>4. worker'[w] = [at |-> "complete", msg |-> worker[w].msg]
    BY <1>1, MoveFacts
<1>5. worker'[w].at = "complete" /\ Held(w)' = Held(w)
    BY <1>4 DEF Held
<1>6. StageOK(w)'
    BY <1>1, <1>5 DEF StageOK
<1>7. /\ job' = job /\ job' \in [Jobs -> JobRows \cup {None, Gone}]
      /\ segments' \in SUBSET (Jobs \X Formats)
      /\ manifest \subseteq manifest' /\ manifest' \in SUBSET Jobs
    BY <1>1, <1>2 DEF TranscodingTypeOK
<1>8. HasRow(h)' <=> HasRow(h)
    BY <1>7 DEF HasRow
<1> QED BY <1>1, <1>2, <1>6, <1>7, <1>8, MoveStep

-----------------------------------------------------------------------------
(* A worker is done with a job, or out of it *)

LEMMA MarkCompletedIInv ==
    ASSUME IInv, NEW w \in Workers, MarkCompleted(w)
    PROVE  IInv'
<1> USE DEF MarkCompleted
<1>1. TranscodingTypeOK /\ Busy(w) /\ StageOK(w)
    BY DEF IInv, Busy, StagesOK
<1>2. PICK h \in Jobs : h = Held(w)
    BY <1>1, BusyWorker
<1>3. /\ HasRow(h) /\ HasRow(h)' /\ job' \in [Jobs -> JobRows \cup {None, Gone}]
      /\ \A j \in Jobs : j # h => job'[j] = job[j]
      /\ job'[h].status = "completed"
    BY <1>1, <1>2, StatusFacts
<1>4. Ended(h)'
    BY <1>3 DEF Ended
<1>5. h \in manifest /\ <<h, "hls">> \in segments /\ <<h, "dash">> \in segments
    BY <1>1, <1>2, <1>3 DEF StageOK
<1>6. dropped' \in SUBSET Jobs
    BY <1>1 DEF TranscodingTypeOK
<1> QED BY <1>1, <1>2, <1>3, <1>4, <1>5, <1>6, RestStep

LEMMA StepFailsIInv ==
    ASSUME IInv, NEW w \in Workers, StepFails(w)
    PROVE  IInv'
<1> USE DEF StepFails
<1>1. TranscodingTypeOK /\ Busy(w) /\ RowsOK
    BY DEF IInv, Busy
<1>2. PICK h \in Jobs : h = Held(w)
    BY <1>1, BusyWorker
<1>3. dropped \subseteq dropped' /\ dropped' \in SUBSET Jobs /\ h \in dropped'
    BY <1>1, <1>2 DEF TranscodingTypeOK
<1>4. job' = job /\ job' \in [Jobs -> JobRows \cup {None, Gone}]
    BY <1>1 DEF TranscodingTypeOK
<1>5. HasRow(h)' => (job'[h].status = "completed" =>
          h \in manifest /\ <<h, "hls">> \in segments /\ <<h, "dash">> \in segments)
    BY <1>1, <1>4 DEF RowsOK, RowOK, HasRow
<1> QED BY <1>1, <1>2, <1>3, <1>4, <1>5, RestStep

\* A failure is counted while there is a retry left, so the count stays in its range.
LEMMA MarkFailedIInv ==
    ASSUME IInv, NEW w \in Workers, MarkFailed(w)
    PROVE  IInv'
<1> USE DEF MarkFailed
<1>1. TranscodingTypeOK /\ Busy(w) /\ RowsOK /\ OneHand
    BY DEF IInv, Busy
<1>2. PICK h \in Jobs : h = Held(w)
    BY <1>1, BusyWorker
<1> DEFINE row == CountRetry(job[h])
<1>3. HasRow(h) /\ job[h] \in JobRows
    BY <1>1, <1>2 DEF HasRow, TranscodingTypeOK
<1>4. job[h].retries < MaxRetries
    BY <1>1, <1>2, <1>3 DEF RowsOK, RowOK, Handed, InWork, Holds
<1>5. /\ row \in JobRows /\ row.status = "failed" /\ row.retries = job[h].retries + 1
      /\ row \notin {None, Gone}
    BY <1>3, <1>4, RetriesAssumption, NoRowAssumption DEF CountRetry, JobRows
<1>6. /\ job' \in [Jobs -> JobRows \cup {None, Gone}] /\ job'[h] = row
      /\ \A j \in Jobs : j # h => job'[j] = job[j]
    BY <1>1, <1>2, <1>5 DEF TranscodingTypeOK
<1>7. CASE ~CanRetry(row)
    <2>1. Rest(w)
        BY <1>2, <1>7
    <2>2. Ended(h)'
        <3>1. row.retries = MaxRetries
            BY <1>3, <1>4, <1>5, <1>7, RetriesAssumption DEF CanRetry, JobRows
        <3> QED BY <1>5, <1>6, <3>1 DEF Ended, HasRow
    <2>3. job'[h].status # "completed"
        BY <1>5, <1>6
    <2>4. dropped' \in SUBSET Jobs
        BY <1>1 DEF TranscodingTypeOK
    <2> QED BY <1>1, <1>2, <1>6, <2>1, <2>2, <2>3, <2>4, RestStep
<1>8. CASE CanRetry(row)
    <2> DEFINE msg == [job |-> h, retries |-> row.retries]
    <2>1. worker' = [worker EXCEPT ![w] = [at |-> "reset", msg |-> msg]]
        BY <1>2, <1>8
    <2>2. msg \in Messages /\ msg.job = h /\ msg.retries = row.retries
        BY <1>5 DEF Messages, JobRows
    <2> HIDE DEF row, msg
    <2>3. /\ worker' \in [Workers -> WorkerStates]
          /\ worker'[w] = [at |-> "reset", msg |-> msg]
          /\ \A v \in Workers : v # w => worker'[v] = worker[v]
        BY <1>1, <2>1, <2>2 DEF TranscodingTypeOK, WorkerStates, Places
    <2>4. Busy(w)' /\ Held(w)' = h /\ worker'[w].msg.retries = row.retries
        BY <2>2, <2>3 DEF Busy, Held
    <2>5. \A v \in Workers : (Busy(v)' <=> Busy(v)) /\ Held(v)' = Held(v)
        BY <1>1, <1>2, <2>3, <2>4 DEF Busy, Held
    <2>6. \A v \in Workers : \A j : Holds(v, j)' <=> Holds(v, j)
        BY <2>5 DEF Holds
    <2>7. \A j : InQueue(j)' <=> InQueue(j)
        BY DEF InQueue
    <2>8. \A j : Handed(j)' <=> Handed(j)
        BY <2>6, <2>7 DEF Handed, InWork
    <2>9. Holds(w, h)
        BY <1>1, <1>2 DEF Holds
    <2>10. TranscodingTypeOK'
        BY <1>1, <1>6, <2>3 DEF TranscodingTypeOK
    <2>11. OneHand'
        <3>1. \A j \in Jobs : job'[j] = None => job[j] = None
            BY <1>5, <1>6
        <3>2. \A v \in Workers : Busy(v)' => ~InQueue(Held(v))' /\ Held(v)' \notin triggering'
            BY <1>1, <2>5 DEF OneHand, InQueue
        <3>3. \A v, u \in Workers : Busy(v)' /\ Holds(u, Held(v))' => v = u
            BY <1>1, <2>5 DEF OneHand, Holds
        <3> QED BY <1>1, <3>1, <3>2, <3>3, <2>7, <2>8 DEF OneHand
    <2>12. RowsOK'
        <3> SUFFICES ASSUME NEW j \in Jobs, HasRow(j)' PROVE RowOK(j)'
            BY DEF RowsOK, RowOK
        <3>1. CASE j = h
            <4>1. \A v \in Workers : Holds(v, j)' => v = w
                BY <1>1, <1>2, <3>1, <2>6 DEF OneHand, Holds
            <4>2. j \notin triggering /\ \A k \in DOMAIN queue : queue[k].job # j
                BY <1>1, <1>2, <3>1 DEF OneHand, InQueue
            <4>3. Handed(j)'
                BY <2>8, <2>9, <3>1 DEF Handed, InWork
            <4>4. job'[j].retries < MaxRetries /\ job'[j].status # "completed"
                BY <1>5, <1>6, <1>8, <3>1 DEF CanRetry
            <4> QED BY <1>6, <2>4, <3>1, <4>1, <4>2, <4>3, <4>4 DEF RowOK
        <3>2. CASE j # h
            <4>1. job'[j] = job[j] /\ HasRow(j) /\ (Ended(j)' <=> Ended(j)) /\ RowOK(j)
                BY <1>1, <1>6, <3>2 DEF HasRow, Ended, RowsOK
            <4>2. \A v \in Workers : Holds(v, j)' => worker'[v].msg.retries = job'[j].retries
                BY <1>2, <2>3, <2>6, <3>2, <4>1 DEF RowOK, Holds
            <4> QED BY <2>8, <4>1, <4>2 DEF RowOK
        <3> QED BY <3>1, <3>2
    <2>13. StagesOK'
        <3> SUFFICES ASSUME NEW v \in Workers, Busy(v)' PROVE StageOK(v)'
            BY DEF StagesOK, StageOK
        <3>1. CASE v = w
            BY <3>1, <2>3 DEF StageOK
        <3>2. CASE v # w
            <4>1. Busy(v) /\ worker'[v] = worker[v] /\ Held(v)' = Held(v) /\ Held(v) \in Jobs
                BY <1>1, <3>2, <2>3, <2>5, BusyWorker
            <4>2. Held(v) # h
                BY <1>1, <2>9, <3>2, <4>1 DEF OneHand
            <4>3. HasRow(Held(v))' <=> HasRow(Held(v))
                BY <1>6, <4>1, <4>2 DEF HasRow
            <4> QED BY <4>1, <4>3 DEF IInv, StagesOK, StageOK
        <3> QED BY <3>1, <3>2
    <2> QED BY <2>10, <2>11, <2>12, <2>13 DEF IInv
<1> QED BY <1>7, <1>8

LEMMA ResetForRetryIInv ==
    ASSUME IInv, NEW w \in Workers, ResetForRetry(w)
    PROVE  IInv'
<1> USE DEF ResetForRetry
<1>1. TranscodingTypeOK /\ Busy(w) /\ "enqueue" \in Places
    BY DEF IInv, Busy, Places
<1>2. PICK h \in Jobs : h = Held(w)
    BY <1>1, BusyWorker
<1>3. /\ HasRow(h) /\ job' \in [Jobs -> JobRows \cup {None, Gone}]
      /\ \A j \in Jobs : j # h => job'[j] = job[j]
      /\ job'[h].status = "pending" /\ job'[h].retries = job[h].retries /\ job'[h] # None
    BY <1>1, <1>2, StatusFacts
<1>4. worker'[w] = [at |-> "enqueue", msg |-> worker[w].msg]
    BY <1>1, MoveFacts
<1>5. StageOK(w)'
    BY <1>4 DEF StageOK
<1>6. segments' \in SUBSET (Jobs \X Formats) /\ manifest' \in SUBSET Jobs
    BY <1>1 DEF TranscodingTypeOK
<1> QED BY <1>1, <1>2, <1>3, <1>5, <1>6, MoveStep

LEMMA EnqueueRetryIInv ==
    ASSUME IInv, NEW w \in Workers, EnqueueRetry(w)
    PROVE  IInv'
<1> USE DEF EnqueueRetry
<1>1. TranscodingTypeOK /\ Busy(w) /\ OneHand /\ RowsOK
    BY DEF IInv, Busy
<1>2. PICK msg \in Messages : msg = worker[w].msg
    BY <1>1, BusyWorker
<1>3. PICK h \in Jobs : h = msg.job
    BY DEF Messages
<1>4. Holds(w, h) /\ h = Held(w)
    BY <1>1, <1>2, <1>3 DEF Holds, Held
<1>5. Handed(h) /\ ~InQueue(h) /\ h \notin triggering
    BY <1>1, <1>4 DEF OneHand, Handed, InWork
<1>6. HasRow(h) => msg.retries = job[h].retries
    BY <1>1, <1>2, <1>4 DEF RowsOK, RowOK
<1>7. /\ worker' \in [Workers -> WorkerStates] /\ ~Busy(w)'
      /\ \A v \in Workers : v # w => (Busy(v)' <=> Busy(v)) /\ worker'[v] = worker[v]
    BY <1>1, RestFacts, RestHands
<1>8. \A v \in Workers : Busy(v) /\ v # w => Held(v) # h
    BY <1>1, <1>4 DEF OneHand, Holds
<1>9. queue' = Append(queue, msg) /\ triggering' = triggering \ {h}
    BY <1>2, <1>5
<1>10. \A v \in Workers : Busy(v)' => Busy(v) /\ worker'[v] = worker[v] /\ Held(v) # h
    BY <1>7, <1>8
<1>11. \A v \in Workers : Busy(v) /\ Held(v) # h => Busy(v)'
    BY <1>4, <1>7
<1> QED BY <1>3, <1>5, <1>6, <1>7, <1>9, <1>10, <1>11, EnqueueStep

LEMMA DeleteVideoIInv ==
    ASSUME IInv, NEW j \in Jobs, DeleteVideo(j)
    PROVE  IInv'
<1> USE DEF IInv, DeleteVideo
<1>j. /\ job' \in [Jobs -> JobRows \cup {None, Gone}] /\ job'[j] = Gone
      /\ \A i \in Jobs : i # j => job'[i] = job[i]
    BY DEF TranscodingTypeOK
<1>m. /\ \A w \in Workers : (Busy(w)' <=> Busy(w)) /\ Held(w)' = Held(w)
      /\ \A w \in Workers : \A i : Holds(w, i)' <=> Holds(w, i)
      /\ \A i : InWork(i)' <=> InWork(i)
    BY StillHands
<1>q. \A i : InQueue(i)' <=> InQueue(i)
    BY DEF InQueue
<1>d. \A i : Handed(i)' <=> Handed(i)
    BY <1>m, <1>q DEF Handed
<1>1. TranscodingTypeOK'
    BY <1>j DEF TranscodingTypeOK
<1>2. OneHand'
    <2>1. \A i \in Jobs : job'[i] = None => job[i] = None
        BY <1>j, RetriesAssumption
    <2>2. \A w \in Workers : Busy(w)' => ~InQueue(Held(w))' /\ Held(w)' \notin triggering'
        BY <1>m, <1>q DEF OneHand, InQueue
    <2>3. \A v, w \in Workers : Busy(v)' /\ Holds(w, Held(v))' => v = w
        BY <1>m DEF OneHand, Holds
    <2> QED BY <1>q, <1>d, <2>1, <2>2, <2>3 DEF OneHand
<1>3. RowsOK'
    <2> SUFFICES ASSUME NEW i \in Jobs, HasRow(i)' PROVE RowOK(i)'
        BY DEF RowsOK, RowOK
    <2>1. i # j
        BY <1>j DEF HasRow
    <2>2. job'[i] = job[i] /\ HasRow(i) /\ (Ended(i)' <=> Ended(i)) /\ RowOK(i)
        BY <2>1, <1>j DEF HasRow, Ended, RowsOK
    <2>3. i \in manifest' <=> i \in manifest
        BY <2>1
    <2> QED BY <2>2, <2>3, <1>d, <1>m DEF RowOK
<1>4. StagesOK'
    <2> SUFFICES ASSUME NEW w \in Workers, Busy(w)' PROVE StageOK(w)'
        BY DEF StagesOK, StageOK
    <2>1. Busy(w) /\ Held(w)' = Held(w) /\ Held(w) \in Jobs
        BY <1>m, BusyWorker
    <2>2. HasRow(Held(w))' => HasRow(Held(w)) /\ Held(w) # j
        BY <2>1, <1>j DEF HasRow
    <2> QED BY <2>1, <2>2 DEF StagesOK, StageOK
<1> QED BY <1>1, <1>2, <1>3, <1>4

-----------------------------------------------------------------------------
(* The theorems *)

\* Every step keeps rows, queue, workers and files accounted for.
THEOREM TranscodingInvariance == TranscodingSpec => []IInv
<1>1. IInv /\ [TranscodingNext]_transcoding => IInv'
    <2> SUFFICES ASSUME IInv, [TranscodingNext]_transcoding PROVE IInv'
        OBVIOUS
    <2>1. ASSUME NEW j \in Jobs, CreateJob(j) \/ Enqueue(j) \/ EnqueueFails(j) \/ DeleteVideo(j)
          PROVE  IInv'
        BY <2>1, CreateJobIInv, EnqueueIInv, EnqueueFailsIInv, DeleteVideoIInv
    <2>2. ASSUME NEW w \in Workers, StepFails(w) PROVE IInv'
        BY <2>2, StepFailsIInv
    <2>3. ASSUME NEW w \in Workers, Work(w) PROVE IInv'
        BY <2>3, DequeueIInv, MarkProcessingIInv, TranscodeVideoIInv, UpdateVideoMetadataIInv,
           MarkCompletedIInv, MarkFailedIInv, ResetForRetryIInv, EnqueueRetryIInv DEF Work
    <2>4. CASE UNCHANGED transcoding
        BY <2>4 DEF transcoding, IInv, TranscodingTypeOK, OneHand, RowsOK, RowOK, StagesOK, StageOK,
           Handed, InQueue, InWork, Holds, Busy, Held, HasRow, Ended
    <2> QED BY <2>1, <2>2, <2>3, <2>4 DEF TranscodingNext
<1> QED BY InitIInv, <1>1, PTL DEF TranscodingSpec

\* Rows, messages and workers keep their types: no retry is counted past MAX_RETRIES.
THEOREM TranscodingTypes == TranscodingSpec => []TranscodingTypeOK
<1>1. IInv => TranscodingTypeOK
    BY DEF IInv
<1> QED BY TranscodingInvariance, <1>1, PTL

\* A set of at most one element.
LEMMA AtMostOne ==
    ASSUME NEW S, \A x, y \in S : x = y
    PROVE  /\ S = {} => Cardinality(S) = 0
           /\ S # {} => Cardinality(S) = 1
<1>1. S # {} => \E x \in S : S = {x}
    OBVIOUS
<1> QED BY <1>1, FS_EmptySet, FS_Singleton

LEMMA Counted ==
    ASSUME IInv, NEW j \in Jobs
    PROVE  InHand(j) <= 1 /\ (InHand(j) = 0 => ~Handed(j))
<1> USE DEF IInv
<1>1. \A k, l \in Queued(j) : k = l
    BY DEF OneHand, Queued
<1>2. \A v, w \in HeldBy(j) : v = w
    BY DEF OneHand, HeldBy, Holds, Busy
<1>3. Queued(j) # {} <=> InQueue(j)
    BY DEF Queued, InQueue
<1>4. HeldBy(j) # {} <=> InWork(j)
    BY DEF HeldBy, InWork, Holds, Busy
<1>5. /\ ~InQueue(j) => Cardinality(Queued(j)) = 0
      /\ InQueue(j) => Cardinality(Queued(j)) = 1
    BY <1>1, <1>3, AtMostOne
<1>6. /\ ~InWork(j) => Cardinality(HeldBy(j)) = 0
      /\ InWork(j) => Cardinality(HeldBy(j)) = 1
    BY <1>2, <1>4, AtMostOne
<1>7. /\ ~(InQueue(j) /\ InWork(j)) /\ ~(InQueue(j) /\ j \in triggering)
      /\ ~(InWork(j) /\ j \in triggering)
    BY DEF OneHand, InWork, Holds
<1> QED BY <1>5, <1>6, <1>7 DEF InHand, Handed

\* Whatever fails and whatever is deleted meanwhile: no two workers transcode one
\* video, a job that nobody has is over or was dropped by a failure, the count of a
\* queued job is its row's, and a completed job has both formats and its manifest.
THEOREM NoJobGoesAstray == TranscodingSpec => []JobsAccounted
<1>1. IInv => JobsAccounted
    <2> SUFFICES ASSUME IInv, NEW j \in Jobs
                 PROVE  /\ InHand(j) <= 1
                        /\ HasRow(j) /\ InHand(j) = 0 => Ended(j) \/ j \in dropped
                        /\ \A k \in Queued(j) : HasRow(j) => queue[k].retries = job[j].retries
                        /\ HasRow(j) /\ job[j].status = "completed" =>
                              j \in manifest /\ {j} \X Formats \subseteq segments
        BY DEF JobsAccounted
    <2>1. RowOK(j)
        BY DEF IInv, RowsOK
    <2>2. HasRow(j) /\ job[j].status = "completed" =>
              j \in manifest /\ {j} \X Formats \subseteq segments
        BY <2>1 DEF RowOK, Formats
    <2>3. \A k \in Queued(j) : HasRow(j) => queue[k].retries = job[j].retries
        BY <2>1 DEF RowOK, Queued
    <2> QED BY <2>1, <2>2, <2>3, Counted DEF RowOK
<1> QED BY TranscodingInvariance, <1>1, PTL

-----------------------------------------------------------------------------
(* A row goes through the statuses of TranscodingJob *)

\* Whoever has a job in hand knows the status of its row from where it is.
Known(place) ==
    CASE place \in {"take", "enqueue"} -> "pending"
      [] place = "reset" -> "failed"
      [] OTHER -> "processing"

StatusKnown ==
    /\ \A j \in triggering : HasRow(j) => job[j].status = "pending"
    /\ \A k \in DOMAIN queue : HasRow(queue[k].job) => job[queue[k].job].status = "pending"
    /\ \A w \in Workers :
          Busy(w) /\ HasRow(Held(w)) => job[Held(w)].status = Known(worker[w].at)

LEMMA QueuedMessages ==
    ASSUME TranscodingTypeOK
    PROVE  \A k \in DOMAIN queue : queue[k] \in Messages
<1>1. queue \in Seq(Messages)
    BY DEF TranscodingTypeOK
<1>2. queue \in [1..Len(queue) -> Messages] /\ DOMAIN queue = 1..Len(queue)
    BY <1>1, LenProperties
<1> QED BY <1>2

\* A worker goes on or rests; only the row of its own job may change.
LEMMA WorkerStatus ==
    ASSUME IInv, StatusKnown, NEW w \in Workers, Busy(w), NEW h \in Jobs, h = Held(w),
           queue' = queue, triggering' = triggering,
           \A v \in Workers : v # w => worker'[v] = worker[v],
           \A j \in Jobs : j # h => job'[j] = job[j],
           Busy(w)' => Held(w)' = h /\ (HasRow(h)' => job'[h].status = Known(worker'[w].at))
    PROVE  StatusKnown'
<1>1. TranscodingTypeOK /\ OneHand
    BY DEF IInv
<1>2. h \notin triggering /\ \A k \in DOMAIN queue : queue[k].job # h
    BY <1>1 DEF OneHand, InQueue
<1>3. \A k \in DOMAIN queue : queue[k].job \in Jobs
    BY <1>1, QueuedMessages DEF Messages
<1>4. \A j \in triggering' : HasRow(j)' => job'[j].status = "pending"
    <2> SUFFICES ASSUME NEW j \in triggering, HasRow(j)' PROVE job'[j].status = "pending"
        OBVIOUS
    <2>1. j \in Jobs /\ j # h
        BY <1>1, <1>2 DEF TranscodingTypeOK
    <2>2. job'[j] = job[j] /\ HasRow(j)
        BY <2>1 DEF HasRow
    <2> QED BY <2>2 DEF StatusKnown
<1>5. \A k \in DOMAIN queue' : HasRow(queue[k].job)' => job'[queue[k].job].status = "pending"
    <2> SUFFICES ASSUME NEW k \in DOMAIN queue, NEW j \in Jobs, j = queue[k].job, HasRow(j)'
                 PROVE  job'[j].status = "pending"
        BY <1>3
    <2>1. job'[j] = job[j] /\ HasRow(j)
        BY <1>2 DEF HasRow
    <2> QED BY <2>1 DEF StatusKnown
<1>6. ASSUME NEW v \in Workers, Busy(v)', HasRow(Held(v))'
      PROVE  job'[Held(v)'].status = Known(worker'[v].at)
    <2>1. CASE v = w
        BY <1>6, <2>1 DEF HasRow
    <2>2. CASE v # w
        <3>1. Busy(v) /\ Held(v)' = Held(v) /\ Held(v) \in Jobs
            BY <1>1, <1>6, <2>2, BusyWorker DEF Busy, Held
        <3>2. Held(v) # h
            BY <1>1, <2>2, <3>1 DEF OneHand, Holds
        <3>3. job'[Held(v)] = job[Held(v)] /\ HasRow(Held(v))
            BY <1>6, <3>1, <3>2 DEF HasRow
        <3> QED BY <2>2, <3>1, <3>3 DEF StatusKnown
    <2> QED BY <2>1, <2>2
<1> QED BY <1>4, <1>5, <1>6 DEF StatusKnown, HasRow

LEMMA MovedWorkerStatus ==
    ASSUME IInv, StatusKnown, NEW w \in Workers, Busy(w), NEW h \in Jobs, h = Held(w),
           NEW place \in Places, Move(w, place),
           queue' = queue, triggering' = triggering,
           \A j \in Jobs : j # h => job'[j] = job[j],
           HasRow(h)' => job'[h].status = Known(place)
    PROVE  StatusKnown'
<1>1. TranscodingTypeOK
    BY DEF IInv
<1>2. worker'[w] = [at |-> place, msg |-> worker[w].msg]
      /\ \A v \in Workers : v # w => worker'[v] = worker[v]
    BY <1>1, MoveFacts
<1>3. Held(w)' = h /\ worker'[w].at = place
    BY <1>2 DEF Held
<1> QED BY <1>2, <1>3, WorkerStatus

LEMMA RestedWorkerStatus ==
    ASSUME IInv, StatusKnown, NEW w \in Workers, Busy(w), NEW h \in Jobs, h = Held(w), Rest(w),
           queue' = queue, triggering' = triggering,
           \A j \in Jobs : j # h => job'[j] = job[j]
    PROVE  StatusKnown'
<1>1. ~Busy(w)' /\ \A v \in Workers : v # w => worker'[v] = worker[v]
    BY RestHands DEF IInv
<1> QED BY <1>1, WorkerStatus

\* The upload and the queue.
LEMMA UploadStatus ==
    ASSUME IInv, StatusKnown, NEW j \in Jobs,
           CreateJob(j) \/ Enqueue(j) \/ EnqueueFails(j) \/ DeleteVideo(j)
    PROVE  StatusKnown'
<1>1. TranscodingTypeOK /\ OneHand
    BY DEF IInv
<1>2. worker' = worker
    BY DEF CreateJob, Enqueue, EnqueueFails, DeleteVideo
<1>3. \A w \in Workers : (Busy(w)' <=> Busy(w)) /\ Held(w)' = Held(w)
                         /\ (Busy(w) => Held(w) \in Jobs)
    BY <1>1, <1>2, StillHands, BusyWorker
<1>4. \A k \in DOMAIN queue : queue[k].job \in Jobs
    BY <1>1, QueuedMessages DEF Messages
<1>5. CASE CreateJob(j)
    <2>1. job'[j].status = "pending" /\ (\A i \in Jobs : i # j => job'[i] = job[i])
        BY <1>1, <1>5 DEF CreateJob, TranscodingTypeOK
    <2>2. ~InQueue(j) /\ ~InWork(j)
        BY <1>1, <1>5 DEF CreateJob, OneHand, Handed
    <2>3. \A k \in DOMAIN queue : queue[k].job # j
        BY <2>2 DEF InQueue
    <2>4. \A w \in Workers : Busy(w) => Held(w) # j
        BY <2>2 DEF InWork, Holds
    <2>5. /\ triggering' = triggering \cup {j} /\ queue' = queue /\ triggering \subseteq Jobs
        BY <1>1, <1>5 DEF CreateJob, TranscodingTypeOK
    <2> QED BY <1>2, <1>3, <1>4, <2>1, <2>3, <2>4, <2>5 DEF StatusKnown, HasRow
<1>6. CASE Enqueue(j)
    <2> DEFINE msg == [job |-> j, retries |-> 0]
    <2>1. msg \in Messages /\ msg.job = j
        BY RetriesAssumption DEF Messages
    <2>2. queue \in Seq(Messages) /\ queue' = Append(queue, msg)
        BY <1>1, <1>6 DEF Enqueue, TranscodingTypeOK
    <2> HIDE DEF msg
    <2>3. \A k \in DOMAIN queue' :
             (k \in DOMAIN queue /\ queue'[k] = queue[k]) \/ queue'[k] = msg
        BY <2>1, <2>2, AppendFacts
    <2>4. job' = job /\ triggering' = triggering \ {j} /\ j \in triggering
        BY <1>6 DEF Enqueue
    <2>5. \A k \in DOMAIN queue' : HasRow(queue'[k].job) => job[queue'[k].job].status = "pending"
        BY <2>1, <2>3, <2>4 DEF StatusKnown
    <2> QED BY <1>2, <1>3, <2>4, <2>5 DEF StatusKnown, HasRow
<1>7. CASE EnqueueFails(j)
    BY <1>2, <1>3, <1>7 DEF EnqueueFails, StatusKnown, HasRow
<1>8. CASE DeleteVideo(j)
    <2>1. ~HasRow(j)' /\ (\A i \in Jobs : i # j => job'[i] = job[i])
        BY <1>1, <1>8 DEF DeleteVideo, TranscodingTypeOK, HasRow
    <2>2. triggering' = triggering /\ queue' = queue /\ triggering \subseteq Jobs
        BY <1>1, <1>8 DEF DeleteVideo, TranscodingTypeOK
    <2> QED BY <1>2, <1>3, <1>4, <2>1, <2>2 DEF StatusKnown, HasRow
<1> QED BY <1>5, <1>6, <1>7, <1>8

LEMMA DequeueStatus ==
    ASSUME IInv, StatusKnown, NEW w \in Workers, Dequeue(w)
    PROVE  StatusKnown'
<1> USE DEF Dequeue
<1>1. TranscodingTypeOK /\ queue \in Seq(Messages) /\ worker \in [Workers -> WorkerStates]
    BY DEF IInv, TranscodingTypeOK
<1>2. /\ 1 \in DOMAIN queue /\ Head(queue) = queue[1] /\ Head(queue) \in Messages
      /\ \A k \in DOMAIN queue' : k + 1 \in DOMAIN queue /\ queue'[k] = queue[k + 1]
    BY <1>1, TailFacts
<1>3. /\ worker'[w].at = "take" /\ Held(w)' = queue[1].job
      /\ \A v \in Workers : v # w => worker'[v] = worker[v]
    BY <1>1, <1>2 DEF Held
<1>4. Known("take") = "pending"
    BY DEF Known
<1>5. ASSUME NEW v \in Workers, Busy(v)', HasRow(Held(v))'
      PROVE  job'[Held(v)'].status = Known(worker'[v].at)
    <2>1. CASE v = w
        BY <1>2, <1>3, <1>4, <1>5, <2>1 DEF StatusKnown, HasRow
    <2>2. CASE v # w
        BY <1>3, <1>5, <2>2 DEF StatusKnown, HasRow, Busy, Held
    <2> QED BY <2>1, <2>2
<1> QED BY <1>2, <1>5 DEF StatusKnown, HasRow

LEMMA EnqueueRetryStatus ==
    ASSUME IInv, StatusKnown, NEW w \in Workers, EnqueueRetry(w)
    PROVE  StatusKnown'
<1> USE DEF EnqueueRetry
<1>1. TranscodingTypeOK /\ queue \in Seq(Messages) /\ Busy(w)
    BY DEF IInv, TranscodingTypeOK, Busy
<1>2. PICK msg \in Messages : msg = worker[w].msg
    BY <1>1, BusyWorker
<1>3. \A k \in DOMAIN queue' :
         (k \in DOMAIN queue /\ queue'[k] = queue[k]) \/ queue'[k] = msg
    BY <1>1, <1>2, AppendFacts
<1>4. HasRow(msg.job) => job[msg.job].status = "pending"
    BY <1>1, <1>2 DEF StatusKnown, Held, Known
<1>5. ~Busy(w)' /\ \A v \in Workers : v # w => worker'[v] = worker[v] /\ Held(v)' = Held(v)
    BY <1>1, RestHands
<1>6. \A k \in DOMAIN queue' : HasRow(queue'[k].job) => job[queue'[k].job].status = "pending"
    BY <1>3, <1>4 DEF StatusKnown
<1>7. ASSUME NEW v \in Workers, Busy(v)', HasRow(Held(v))'
      PROVE  job'[Held(v)'].status = Known(worker'[v].at)
    BY <1>5, <1>7 DEF StatusKnown, HasRow, Busy
<1> QED BY <1>6, <1>7 DEF StatusKnown, HasRow

\* What a worker knows of the row of its job before a statement that writes it.
LEMMA HeldRow ==
    ASSUME IInv, StatusKnown, NEW w \in Workers, Busy(w)
    PROVE  /\ Held(w) \in Jobs
           /\ HasRow(Held(w)) =>
                 /\ job[Held(w)] \in JobRows
                 /\ job[Held(w)].status = Known(worker[w].at)
                 /\ job[Held(w)].retries < MaxRetries
<1>1. TranscodingTypeOK /\ RowsOK
    BY DEF IInv
<1>2. Held(w) \in Jobs
    BY <1>1, BusyWorker
<1>3. HasRow(Held(w)) => job[Held(w)] \in JobRows
    BY <1>1, <1>2 DEF HasRow, TranscodingTypeOK
<1>4. HasRow(Held(w)) => job[Held(w)].retries < MaxRetries
    BY <1>1, <1>2 DEF RowsOK, RowOK, Handed, InWork, Holds
<1> QED BY <1>2, <1>3, <1>4 DEF StatusKnown

LEMMA MarkProcessingRefines ==
    ASSUME IInv, StatusKnown, NEW w \in Workers, MarkProcessing(w)
    PROVE  StatusKnown' /\ Lifecycle!Next
<1> USE DEF MarkProcessing
<1>1. TranscodingTypeOK /\ Busy(w) /\ "download" \in Places
    BY DEF IInv, Busy, Places, TranscodeSteps
<1>2. PICK h \in Jobs : h = Held(w)
    BY <1>1, HeldRow
<1>3. /\ HasRow(h) /\ job'[h].status = "processing"
      /\ \A j \in Jobs : j # h => job'[j] = job[j]
    BY <1>1, <1>2, StatusFacts
<1>4. StatusKnown'
    BY <1>1, <1>2, <1>3, MovedWorkerStatus DEF Known
<1>5. job[h].status = "pending"
    BY <1>1, <1>2, <1>3, HeldRow DEF Known
<1>6. Lifecycle!Start(h)
    BY <1>2, <1>3, <1>5 DEF Lifecycle!Start, Lifecycle!Is, Lifecycle!Becomes, UpdateStatus, HasRow
<1> QED BY <1>4, <1>6 DEF Lifecycle!Next

\* The steps between taking a job and writing its row again.
LEMMA TranscodeVideoRefines ==
    ASSUME IInv, StatusKnown, NEW w \in Workers, TranscodeVideo(w) \/ UpdateVideoMetadata(w)
    PROVE  StatusKnown' /\ UNCHANGED job
<1>1. PICK place \in TranscodeSteps \cup {"metadata", "complete", "fail"} :
        /\ worker[w].at \in TranscodeSteps \cup {"metadata"} /\ Move(w, place)
        /\ UNCHANGED <<job, queue, triggering>>
    <2>1. CASE DownloadVideo(w) \/ GetVideoDuration(w) \/ TranscodeHls(w) \/ TranscodeDash(w)
        BY <2>1 DEF DownloadVideo, GetVideoDuration, TranscodeHls, TranscodeDash, LocalStep,
            TranscodeSteps
    <2>2. CASE UploadTranscoded(w)
        BY <2>2 DEF UploadTranscoded, TranscodeSteps
    <2>3. CASE Cleanup(w) \/ TranscodeFails(w)
        BY <2>3 DEF Cleanup, TranscodeFails, LocalStep, TranscodeSteps
    <2>4. CASE UpdateVideoMetadata(w)
        BY <2>4 DEF UpdateVideoMetadata
    <2> QED BY <2>1, <2>2, <2>3, <2>4 DEF TranscodeVideo
<1>2. Busy(w) /\ place \in Places
    BY <1>1 DEF Busy, Places, TranscodeSteps
<1>3. PICK h \in Jobs : h = Held(w)
    BY <1>2, HeldRow
<1>4. Known(place) = "processing" /\ Known(worker[w].at) = "processing"
    BY <1>1 DEF Known, TranscodeSteps
<1>5. HasRow(h)' => job'[h].status = Known(place)
    BY <1>1, <1>2, <1>3, <1>4, HeldRow DEF HasRow
<1> QED BY <1>1, <1>2, <1>3, <1>5, MovedWorkerStatus

LEMMA MarkCompletedRefines ==
    ASSUME IInv, StatusKnown, NEW w \in Workers, MarkCompleted(w)
    PROVE  StatusKnown' /\ Lifecycle!Next
<1> USE DEF MarkCompleted
<1>1. TranscodingTypeOK /\ Busy(w)
    BY DEF IInv, Busy
<1>2. PICK h \in Jobs : h = Held(w)
    BY <1>1, HeldRow
<1>3. HasRow(h) /\ \A j \in Jobs : j # h => job'[j] = job[j]
    BY <1>1, <1>2, StatusFacts
<1>4. StatusKnown'
    BY <1>1, <1>2, <1>3, RestedWorkerStatus
<1>5. job[h].status = "processing"
    BY <1>1, <1>2, <1>3, HeldRow DEF Known
<1>6. Lifecycle!Complete(h)
    BY <1>2, <1>3, <1>5
    DEF Lifecycle!Complete, Lifecycle!Is, Lifecycle!Becomes, UpdateStatus, HasRow
<1> QED BY <1>4, <1>6 DEF Lifecycle!Next

LEMMA MarkFailedRefines ==
    ASSUME IInv, StatusKnown, NEW w \in Workers, MarkFailed(w)
    PROVE  StatusKnown' /\ Lifecycle!Next
<1> USE DEF MarkFailed
<1>1. TranscodingTypeOK /\ Busy(w)
    BY DEF IInv, Busy
<1>2. PICK h \in Jobs : h = Held(w)
    BY <1>1, HeldRow
<1> DEFINE row == CountRetry(job[h])
<1>3. /\ HasRow(h) /\ job[h] \in JobRows /\ job[h].status = "processing"
      /\ job[h].retries < MaxRetries
    BY <1>1, <1>2, HeldRow DEF Known
<1>4. job' = [job EXCEPT ![h] = row] /\ row = [status |-> "failed", retries |-> job[h].retries + 1]
    BY <1>2 DEF CountRetry
<1>5. job'[h] = row /\ row.status = "failed" /\ \A j \in Jobs : j # h => job'[j] = job[j]
    BY <1>1, <1>4 DEF TranscodingTypeOK
<1>6. Lifecycle!Fail(h)
    BY <1>3, <1>4 DEF Lifecycle!Fail, Lifecycle!Is, Lifecycle!Becomes, HasRow
<1>7. CASE CanRetry(row)
    <2>1. worker' = [worker EXCEPT ![w] =
              [at |-> "reset", msg |-> [job |-> h, retries |-> row.retries]]]
        BY <1>2, <1>7
    <2>2. /\ worker'[w].at = "reset" /\ Held(w)' = h
          /\ \A v \in Workers : v # w => worker'[v] = worker[v]
        BY <1>1, <2>1 DEF TranscodingTypeOK, Held
    <2> QED BY <1>1, <1>2, <1>5, <1>6, <2>2, WorkerStatus DEF Known, Lifecycle!Next
<1>8. CASE ~CanRetry(row)
    <2>1. Rest(w)
        BY <1>2, <1>8
    <2> QED BY <1>1, <1>2, <1>5, <1>6, <2>1, RestedWorkerStatus DEF Lifecycle!Next
<1> QED BY <1>7, <1>8

LEMMA ResetForRetryRefines ==
    ASSUME IInv, StatusKnown, NEW w \in Workers, ResetForRetry(w)
    PROVE  StatusKnown' /\ Lifecycle!Next
<1> USE DEF ResetForRetry
<1>1. TranscodingTypeOK /\ Busy(w) /\ "enqueue" \in Places
    BY DEF IInv, Busy, Places
<1>2. PICK h \in Jobs : h = Held(w)
    BY <1>1, HeldRow
<1>3. /\ HasRow(h) /\ job'[h].status = "pending"
      /\ \A j \in Jobs : j # h => job'[j] = job[j]
    BY <1>1, <1>2, StatusFacts
<1>4. StatusKnown'
    BY <1>1, <1>2, <1>3, MovedWorkerStatus DEF Known
<1>5. job[h].status = "failed" /\ job[h].retries < MaxRetries
    BY <1>1, <1>2, <1>3, HeldRow DEF Known
<1>6. Lifecycle!Retry(h)
    BY <1>2, <1>3, <1>5 DEF Lifecycle!Retry, Lifecycle!Is, Lifecycle!Becomes, UpdateStatus, HasRow
<1> QED BY <1>4, <1>6 DEF Lifecycle!Next

LEMMA UploadRefines ==
    ASSUME IInv, NEW j \in Jobs,
           CreateJob(j) \/ Enqueue(j) \/ EnqueueFails(j) \/ DeleteVideo(j)
    PROVE  Lifecycle!Next \/ UNCHANGED job
<1>1. CASE CreateJob(j)
    BY <1>1 DEF CreateJob, Lifecycle!Next, Lifecycle!Create, Lifecycle!Becomes
<1>2. CASE Enqueue(j) \/ EnqueueFails(j)
    BY <1>2 DEF Enqueue, EnqueueFails
<1>3. CASE DeleteVideo(j)
    <2>1. job[j] \in JobRows
        BY <1>3 DEF DeleteVideo, HasRow, IInv, TranscodingTypeOK
    <2>2. job[j].status \in Lifecycle!Statuses
        BY <2>1 DEF JobRows, Lifecycle!Statuses
    <2>3. Lifecycle!Delete(j)
        BY <1>3, <2>2 DEF DeleteVideo, HasRow, Lifecycle!Delete, Lifecycle!Is, Lifecycle!Becomes
    <2> QED BY <2>3 DEF Lifecycle!Next
<1> QED BY <1>1, <1>2, <1>3

\* Every step keeps what the holders know, and moves a row as TranscodingJob does
\* or not at all.
LEMMA StepRefines ==
    ASSUME IInv, StatusKnown, [TranscodingNext]_transcoding
    PROVE  StatusKnown' /\ [Lifecycle!Next]_job
<1>1. ASSUME NEW j \in Jobs, CreateJob(j) \/ Enqueue(j) \/ EnqueueFails(j) \/ DeleteVideo(j)
      PROVE  StatusKnown' /\ [Lifecycle!Next]_job
    BY <1>1, UploadStatus, UploadRefines
<1>2. ASSUME NEW w \in Workers, StepFails(w) PROVE StatusKnown' /\ [Lifecycle!Next]_job
    <2>1. Busy(w) /\ Rest(w) /\ UNCHANGED <<job, queue, triggering>>
        BY <1>2 DEF StepFails, Busy
    <2>2. Held(w) \in Jobs
        BY <2>1, HeldRow
    <2> QED BY <2>1, <2>2, RestedWorkerStatus
<1>3. ASSUME NEW w \in Workers, Work(w) PROVE StatusKnown' /\ [Lifecycle!Next]_job
    <2>1. CASE Dequeue(w) \/ EnqueueRetry(w)
        BY <2>1, DequeueStatus, EnqueueRetryStatus DEF Dequeue, EnqueueRetry
    <2>2. CASE TranscodeVideo(w) \/ UpdateVideoMetadata(w)
        BY <2>2, TranscodeVideoRefines
    <2>3. CASE MarkProcessing(w) \/ MarkCompleted(w) \/ MarkFailed(w) \/ ResetForRetry(w)
        BY <2>3, MarkProcessingRefines, MarkCompletedRefines, MarkFailedRefines,
           ResetForRetryRefines
    <2> QED BY <1>3, <2>1, <2>2, <2>3 DEF Work
<1>4. CASE UNCHANGED transcoding
    BY <1>4 DEF transcoding, StatusKnown, Busy, Held, HasRow
<1> QED BY <1>1, <1>2, <1>3, <1>4 DEF TranscodingNext

\* For any jobs, workers and number of retries, whatever fails and whatever is
\* deleted meanwhile: the row of a job goes through the statuses of
\* models/transcoding_job.rs in their order, although no UPDATE asks for the status
\* before it (update_status, mark_failed, reset_for_retry).
THEOREM RowsKeepTheLifecycle == TranscodingSpec => JobRefinement
<1>1. TranscodingInit => StatusKnown /\ Lifecycle!Init
    BY DEF TranscodingInit, StatusKnown, Busy, Lifecycle!Init
<1>2. IInv /\ StatusKnown /\ [TranscodingNext]_transcoding => StatusKnown' /\ [Lifecycle!Next]_job
    BY StepRefines
<1> QED BY <1>1, <1>2, TranscodingInvariance, PTL DEF TranscodingSpec, JobRefinement, Lifecycle!Spec
=============================================================================
