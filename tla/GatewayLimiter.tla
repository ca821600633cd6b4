--------------------------- MODULE GatewayLimiter ---------------------------
(***************************************************************************)
(* RateLimiter of the api-gateway (rate_limit/limiter.rs): a least recently *)
(* used cache of clients, each with the queue of its admitted requests, and *)
(* the task that cleans it up.                                             *)
(*                                                                         *)
(* Both read the clock and then wait for the write lock, so the time a     *)
(* request says may be older than that of the requests before it in the    *)
(* queue; a queue is only ever cut at its front.                           *)
(***************************************************************************)
EXTENDS Naturals, Sequences, FiniteSets

CONSTANTS
    Checks,             \* calls of check_rate_limit, numbered as they begin
    From,               \* Checks -> clients
    Capacity,           \* MAX_TRACKED_CLIENTS
    RequestsPerMinute,
    WindowSeconds,      \* in ticks of the clock
    EndOfTime,          \* bound: how far the clock runs
    NoCleanup           \* no clean-up is waiting for the lock

\* The capacity is a NonZeroUsize.
ASSUME GatewayLimiterAssumption ==
    /\ IsFiniteSet(Checks) /\ Capacity \in Nat \ {0}
    /\ RequestsPerMinute \in Nat /\ WindowSeconds \in Nat /\ EndOfTime \in Nat
    /\ NoCleanup \notin Nat

VARIABLES
    time,
    tracked,       \* the clients in the cache
    used,          \* when each was last used, in requests handled before
    requests,      \* their queues of times
    touched,       \* last_cleanup of each
    check,         \* where each request is
    cleaning,      \* the time the clean-up task read
    allowed        \* history: the admitted requests, when, and whether late;
                   \* those of a client are forgotten when the cache evicts it

limiter == <<time, tracked, used, requests, touched, check, cleaning, allowed>>

Clients == {From[c] : c \in Checks}
Clock == 0..EndOfTime

LimiterTypeOK ==
    /\ time \in Clock
    /\ tracked \subseteq Clients
    /\ used \in [Clients -> Nat]
    /\ requests \in [Clients -> Seq(Clock)]
    /\ touched \in [Clients -> Clock]
    /\ check \in [Checks -> [at : {"new", "done"}] \cup [at : {"waiting"}, now : Clock]]
    /\ cleaning \in Clock \cup {NoCleanup}
    /\ allowed \subseteq Checks \X Clock \X BOOLEAN

\* The queue without the times at its front that have left the window.
Purged(queue, now) ==
    LET kept == {i \in DOMAIN queue : queue[i] + WindowSeconds >= now}
        first == CHOOSE i \in kept : \A j \in kept : i <= j
    IN  IF kept = {} THEN <<>> ELSE SubSeq(queue, first, Len(queue))

-----------------------------------------------------------------------------
ReadTime(c) ==
    /\ check[c].at = "new" /\ \A d \in Checks : check[d].at = "new" => c <= d
    /\ check' = [check EXCEPT ![c] = [at |-> "waiting", now |-> time]]
    /\ UNCHANGED <<time, tracked, used, requests, touched, cleaning, allowed>>

\* Slip: put also when the client is tracked.
Queue_slip(client) == <<>>

\* A client that is not tracked starts with an empty queue.
Queue(client) == IF client \in tracked THEN requests[client] ELSE <<>>

Handled == Cardinality({c \in Checks : check[c].at = "done"})

\* put into a full cache drops the least recently used client.
Evicted(client) ==
    LET others == tracked \ {client}
    IN  {d \in others : /\ Cardinality(others) >= Capacity
                        /\ \A e \in others : used[d] <= used[e]}

CheckRateLimit(c) ==
    LET client == From[c]
        now == check[c].now
        queue == Purged(Queue(client), now)
        fits == Len(queue) < RequestsPerMinute
        kept == {e \in allowed : From[e[1]] \notin Evicted(client)}
    IN  /\ check[c].at = "waiting"
        /\ tracked' = (tracked \ Evicted(client)) \cup {client}
        /\ used' = [used EXCEPT ![client] = Handled]
        /\ requests' = [requests EXCEPT ![client] = IF fits THEN Append(queue, now) ELSE queue]
        /\ touched' = IF fits \/ client \notin tracked
                      THEN [touched EXCEPT ![client] = now] ELSE touched
        /\ check' = [check EXCEPT ![c] = [at |-> "done"]]
        /\ allowed' = IF fits THEN kept \cup {<<c, time, now # time>>} ELSE kept
        /\ UNCHANGED <<time, cleaning>>

\* cleanup_expired: the clients without a request in the window, and not active
\* for two windows, go; the queues of the others are cut.
ReadCleanupTime ==
    /\ cleaning = NoCleanup
    /\ cleaning' = time
    /\ UNCHANGED <<time, tracked, used, requests, touched, check, allowed>>

Expired(client) ==
    /\ \A i \in DOMAIN requests[client] : requests[client][i] + WindowSeconds < cleaning
    /\ touched[client] + 2 * WindowSeconds <= cleaning

CleanupExpired ==
    /\ cleaning # NoCleanup
    /\ tracked' = {d \in tracked : ~Expired(d)}
    /\ requests' = [d \in Clients |-> Purged(requests[d], cleaning)]
    /\ cleaning' = NoCleanup
    /\ UNCHANGED <<time, used, touched, check, allowed>>

TimePasses ==
    /\ time < EndOfTime
    /\ time' = time + 1
    /\ UNCHANGED <<tracked, used, requests, touched, check, cleaning, allowed>>

LimiterInit ==
    /\ time = 0
    /\ tracked = {}
    /\ used = [d \in Clients |-> 0]
    /\ requests = [d \in Clients |-> <<>>]
    /\ touched = [d \in Clients |-> 0]
    /\ check = [c \in Checks |-> [at |-> "new"]]
    /\ cleaning = NoCleanup
    /\ allowed = {}

LimiterNext ==
    \/ \E c \in Checks : ReadTime(c) \/ CheckRateLimit(c)
    \/ ReadCleanupTime \/ CleanupExpired
    \/ TimePasses

LimiterSpec == LimiterInit /\ [][LimiterNext]_limiter

-----------------------------------------------------------------------------
AllowedTo(client, t) ==
    {e \in allowed : From[e[1]] = client /\ t <= e[2] /\ e[2] <= t + WindowSeconds}

\* The cache keeps to its capacity, and while it keeps a client it admits in
\* every window at most requests_per_minute of its requests, and one more for
\* each that waited for the lock while the clock moved on
\* (RateLimiter::check_rate_limit and cleanup_expired).
GatewayBudget ==
    /\ Cardinality(tracked) <= Capacity
    /\ \A client \in Clients, t \in Clock :
          Cardinality(AllowedTo(client, t))
              <= RequestsPerMinute + Cardinality({e \in allowed : From[e[1]] = client /\ e[3]})
=============================================================================
