----------------------------- MODULE Analytics -----------------------------
(***************************************************************************)
(* The analytics events of the content-management-service                  *)
(* (src/analytics/publisher.rs and the shutdown in src/main.rs).           *)
(*                                                                         *)
(* Events are buffered in memory.  Every 30 seconds, and once more at      *)
(* shutdown, a flusher takes the buffer and sends it; a batch that is not  *)
(* acknowledged goes to a list in Redis, event by event.  Every 5 minutes  *)
(* a retrier pops a batch off that list into memory and sends it, several  *)
(* times if need be, and else puts it back.  A batch that was received     *)
(* can still count as failed, when the answer is lost.                     *)
(***************************************************************************)
EXTENDS Naturals, Sequences, FiniteSets

CONSTANTS
    Events,
    MaxBatchSize,       \* MAX_BATCH_SIZE
    MaxRetryAttempts,   \* MAX_RETRY_ATTEMPTS
    MaxCrashes          \* bound: how often the process dies

ASSUME AnalyticsAssumption ==
    MaxBatchSize \in Nat /\ MaxRetryAttempts \in Nat \ {0} /\ MaxCrashes \in Nat

Flushers == {"ticker", "shutdown"}

VARIABLES
    buffer,      \* event_buffer
    list,        \* the list in Redis
    flush,       \* where each flusher is, and the events it holds
    retry,       \* where the retrier is, and the events it holds
    process,     \* "up", "closing" once the server stopped, "flushed" at the end
    crashes,
    old,         \* events more than 24 hours old
    accepted,   \* history: events accepted by publish_event
    received,    \* history: events the analytics service received
    unsure,      \* history: events received in a batch that counted as failed
    expired,     \* history: events discarded because they are old
    lost         \* history: events lost to an error of Redis or the end of the process

analytics == <<buffer, list, flush, retry, process, crashes, old, accepted,
               received, unsure, expired, lost>>

FlushStates ==
    [at : {"idle"}, events : {{}}] \cup [at : {"send", "queue"}, events : SUBSET Events]
RetryStates ==
    [at : {"idle"}, events : {{}}, left : {0}, attempt : {0}]
    \cup [at : {"pop", "send", "queue"}, events : SUBSET Events, left : 0..MaxBatchSize,
          attempt : 0..MaxRetryAttempts]

AnalyticsTypeOK ==
    /\ buffer \in SUBSET Events
    /\ list \in Seq(Events)
    /\ flush \in [Flushers -> FlushStates]
    /\ retry \in RetryStates
    /\ process \in {"up", "closing", "flushed"}
    /\ crashes \in 0..MaxCrashes
    /\ old \in SUBSET accepted
    /\ accepted \in SUBSET Events
    /\ received \in SUBSET accepted
    /\ unsure \in SUBSET received
    /\ expired \in SUBSET old
    /\ lost \in SUBSET accepted

IdleFlush == [at |-> "idle", events |-> {}]
IdleRetry == [at |-> "idle", events |-> {}, left |-> 0, attempt |-> 0]

AnalyticsInit ==
    /\ buffer = {}
    /\ list = << >>
    /\ flush = [f \in Flushers |-> IdleFlush]
    /\ retry = IdleRetry
    /\ process = "up"
    /\ crashes = 0
    /\ old = {} /\ accepted = {} /\ received = {} /\ unsure = {} /\ expired = {} /\ lost = {}

-----------------------------------------------------------------------------
PublishEvent(e) ==
    /\ process = "up"
    /\ e \notin accepted
    /\ buffer' = buffer \cup {e}
    /\ accepted' = accepted \cup {e}
    /\ UNCHANGED <<list, flush, retry, process, crashes, old, received, unsure, expired, lost>>

Ages(e) ==
    /\ e \in accepted \ old
    /\ old' = old \cup {e}
    /\ UNCHANGED <<buffer, list, flush, retry, process, crashes, accepted, received,
                   unsure, expired, lost>>

\* The analytics service receives a batch.
Receive(events) == received' = received \cup events

\* A batch counts as failed: it was not received, or its answer was lost, or the
\* circuit is open.
SendFails(events) ==
    \/ UNCHANGED <<received, unsure>>
    \/ Receive(events) /\ unsure' = unsure \cup events

-----------------------------------------------------------------------------
(* flush_batch *)

\* Slip: the buffer is copied instead of taken.
TakeBuffer_slip(f) ==
    /\ flush[f].at = "idle"
    /\ f = "shutdown" => process = "closing"
    /\ buffer # {}
    /\ flush' = [flush EXCEPT ![f] = [at |-> "send", events |-> buffer]]
    /\ UNCHANGED <<buffer, list, retry, process, crashes, old, accepted, received,
                   unsure, expired, lost>>

TakeBuffer(f) ==
    /\ flush[f].at = "idle"
    /\ f = "shutdown" => process = "closing"
    /\ buffer # {}
    /\ flush' = [flush EXCEPT ![f] = [at |-> "send", events |-> buffer]]
    /\ buffer' = {}
    /\ UNCHANGED <<list, retry, process, crashes, old, accepted, received, unsure,
                   expired, lost>>

\* A flusher is done; the one of the shutdown is the last thing main does.
Flushed(f) ==
    /\ flush' = [flush EXCEPT ![f] = IdleFlush]
    /\ process' = IF f = "shutdown" THEN "flushed" ELSE process

BatchSent(f) ==
    /\ flush[f].at = "send"
    /\ Receive(flush[f].events)
    /\ Flushed(f)
    /\ UNCHANGED <<buffer, list, retry, crashes, old, accepted, unsure, expired, lost>>

BatchFails(f) ==
    /\ flush[f].at = "send"
    /\ SendFails(flush[f].events)
    /\ flush' = [flush EXCEPT ![f].at = "queue"]
    /\ UNCHANGED <<buffer, list, retry, process, crashes, old, accepted, expired, lost>>

\* queue_events_in_redis: one RPUSH.
QueueEvent(f, e) ==
    /\ flush[f].at = "queue"
    /\ e \in flush[f].events
    /\ list' = Append(list, e)
    /\ IF flush[f].events = {e}
       THEN Flushed(f)
       ELSE flush' = [flush EXCEPT ![f].events = @ \ {e}] /\ UNCHANGED process
    /\ UNCHANGED <<buffer, retry, crashes, old, accepted, received, unsure, expired, lost>>

\* An error of Redis: the events not yet queued are dropped.
QueueFails(f) ==
    /\ flush[f].at = "queue"
    /\ lost' = lost \cup flush[f].events
    /\ Flushed(f)
    /\ UNCHANGED <<buffer, list, retry, crashes, old, accepted, received, unsure, expired>>

-----------------------------------------------------------------------------
(* retry_queued_events *)

ReadLength ==
    /\ retry.at = "idle"
    /\ list # << >>
    /\ retry' = [at |-> "pop", events |-> {}, attempt |-> 0,
                 left |-> IF Len(list) < MaxBatchSize THEN Len(list) ELSE MaxBatchSize]
    /\ UNCHANGED <<buffer, list, flush, process, crashes, old, accepted, received,
                   unsure, expired, lost>>

\* One LPOP; an old event is discarded.
PopEvent ==
    /\ retry.at = "pop" /\ retry.left > 0
    /\ LET e == Head(list)
           events == IF e \in old THEN retry.events ELSE retry.events \cup {e}
       IN  /\ expired' = IF e \in old THEN expired \cup {e} ELSE expired
           /\ retry' = IF retry.left > 1 THEN [retry EXCEPT !.events = events, !.left = @ - 1]
                       ELSE IF events = {} THEN IdleRetry
                       ELSE [at |-> "send", events |-> events, left |-> 0, attempt |-> 0]
    /\ list' = Tail(list)
    /\ UNCHANGED <<buffer, flush, process, crashes, old, accepted, received, unsure, lost>>

\* An LPOP fails: what was popped before is dropped.
PopFails ==
    /\ retry.at = "pop"
    /\ lost' = lost \cup retry.events
    /\ retry' = IdleRetry
    /\ UNCHANGED <<buffer, list, flush, process, crashes, old, accepted, received,
                   unsure, expired>>

RetrySent ==
    /\ retry.at = "send"
    /\ Receive(retry.events)
    /\ retry' = IdleRetry
    /\ UNCHANGED <<buffer, list, flush, process, crashes, old, accepted, unsure, expired, lost>>

RetryFails ==
    /\ retry.at = "send"
    /\ SendFails(retry.events)
    /\ retry' = [retry EXCEPT !.attempt = @ + 1,
                              !.at = IF retry.attempt + 1 >= MaxRetryAttempts
                                     THEN "queue" ELSE "send"]
    /\ UNCHANGED <<buffer, list, flush, process, crashes, old, accepted, expired, lost>>

RequeueEvent(e) ==
    /\ retry.at = "queue"
    /\ e \in retry.events
    /\ list' = Append(list, e)
    /\ retry' = IF retry.events = {e} THEN IdleRetry ELSE [retry EXCEPT !.events = @ \ {e}]
    /\ UNCHANGED <<buffer, flush, process, crashes, old, accepted, received, unsure,
                   expired, lost>>

RequeueFails ==
    /\ retry.at = "queue"
    /\ lost' = lost \cup retry.events
    /\ retry' = IdleRetry
    /\ UNCHANGED <<buffer, list, flush, process, crashes, old, accepted, received,
                   unsure, expired>>

-----------------------------------------------------------------------------
(* The process *)

\* The server has stopped: no handler is left to publish.
Shutdown ==
    /\ process = "up"
    /\ process' = "closing"
    /\ UNCHANGED <<buffer, list, flush, retry, crashes, old, accepted, received, unsure,
                   expired, lost>>

NothingToFlush ==
    /\ process = "closing" /\ buffer = {} /\ flush["shutdown"].at = "idle"
    /\ process' = "flushed"
    /\ UNCHANGED <<buffer, list, flush, retry, crashes, old, accepted, received, unsure,
                   expired, lost>>

InMemory ==
    buffer \cup retry.events \cup UNION {flush[f].events : f \in Flushers}

Restart ==
    /\ buffer' = {}
    /\ flush' = [f \in Flushers |-> IdleFlush]
    /\ retry' = IdleRetry
    /\ process' = "up"
    /\ lost' = lost \cup InMemory
    /\ UNCHANGED <<list, old, accepted, received, unsure, expired>>

\* main returns without waiting for the ticker or the retrier.
Exit == process = "flushed" /\ Restart /\ UNCHANGED crashes
Crash == crashes < MaxCrashes /\ Restart /\ crashes' = crashes + 1

AnalyticsNext ==
    \/ \E e \in Events : PublishEvent(e) \/ Ages(e) \/ RequeueEvent(e)
    \/ \E f \in Flushers :
          \/ TakeBuffer(f)
          \/ BatchSent(f)
          \/ BatchFails(f)
          \/ \E e \in Events : QueueEvent(f, e)
          \/ QueueFails(f)
    \/ ReadLength \/ PopEvent \/ PopFails \/ RetrySent \/ RetryFails \/ RequeueFails
    \/ Shutdown \/ NothingToFlush \/ Exit \/ Crash

AnalyticsSpec == AnalyticsInit /\ [][AnalyticsNext]_analytics

-----------------------------------------------------------------------------
(* Property *)

InList(e) == {k \in DOMAIN list : list[k] = e}
Places(e) ==
    Cardinality(InList(e)) + Cardinality({f \in Flushers : e \in flush[f].events})
    + (IF e \in buffer THEN 1 ELSE 0) + (IF e \in retry.events THEN 1 ELSE 0)

\* While batches move between memory, Redis and the service, an event is never in
\* two places; it is nowhere only when it was received, discarded as old or lost
\* to an error or the end of the process; and one that is still waiting was
\* received at most in a batch that counted as failed, so only a lost answer
\* makes the service see an event twice.
EventsAccounted ==
    \A e \in accepted :
        /\ Places(e) <= 1
        /\ Places(e) = 0 => e \in received \cup expired \cup lost
        /\ Places(e) = 1 /\ e \in received => e \in unsure

=============================================================================
