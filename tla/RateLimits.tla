----------------------------- MODULE RateLimits -----------------------------
(***************************************************************************)
(* The attempts of one client at one operation under the rate limiter of   *)
(* the user-auth-service (pkg/ratelimit): a counter in Redis, a list in    *)
(* memory when Redis fails, and the switch between them.  The limiter of   *)
(* the assignment-grading-service is a copy of it.                         *)
(*                                                                         *)
(* The list in memory is locked, but an attempt reads the clock before it  *)
(* takes the lock.  Nothing calls Cleanup, so no list is ever dropped.     *)
(***************************************************************************)
EXTENDS Naturals, FiniteSets

CONSTANTS
    Attempts,     \* attempts of the client, numbered as they arrive
    MaxAttempts,
    Window,       \* in ticks of the clock
    LastTick,     \* bound: how far the clock runs
    MaxLosses,    \* bound: how often Redis forgets the counter or the service restarts
    NoKey         \* no key in Redis

RedisKeys == [count : Nat, expires : Nat]

\* A missing key is no counter.
ASSUME RateLimitsAssumption ==
    /\ {MaxAttempts, Window, LastTick, MaxLosses} \subseteq Nat
    /\ NoKey \notin RedisKeys

VARIABLES
    clock,
    redis,        \* the counter and when it expires
    usingRedis,   \* the mode of FallbackRateLimiter
    listed,       \* the attempts in memory, with the time each says
    attempt,      \* where each attempt is
    losses,       \* history: how often the counter or the list was lost
    admitted      \* history: when each attempt was admitted, by which limiter, after
                  \* how many losses, and by Redis as the how many-th

limits == <<clock, redis, usingRedis, listed, attempt, losses, admitted>>

Ticks == 0..LastTick

AttemptStates ==
    [at : {"new", "redis", "clock", "done"}]
    \cup [at : {"expire", "ensure"}, count : Nat, since : Ticks, life : Nat]
    \cup [at : {"memory"}, now : Ticks]
Admissions ==
    [attempt : Attempts, time : Ticks, by : {"redis", "memory", "late"}, life : Nat, place : Nat]

RateLimitsTypeOK ==
    /\ clock \in Ticks
    /\ redis \in RedisKeys \cup {NoKey}
    /\ usingRedis \in BOOLEAN
    /\ listed \subseteq Attempts \X Ticks
    /\ attempt \in [Attempts -> AttemptStates]
    /\ losses \in Nat
    /\ admitted \subseteq Admissions

Becomes(a, state) == attempt' = [attempt EXCEPT ![a] = state]
Reaches(a, place) == Becomes(a, [at |-> place])
IsAt(a, place) == attempt[a].at = place

\* An attempt is admitted; it is late if the clock has moved on since it was counted,
\* or since it read the time it is judged by.
LetIn(a, by, since, life, place) ==
    admitted' = admitted \cup
        {[attempt |-> a, time |-> clock, by |-> IF since = clock THEN by ELSE "late",
          life |-> life, place |-> place]}

-----------------------------------------------------------------------------
\* AllowLogin and AllowRegister read the mode; in memory mode every so often
\* the health of Redis is checked first.
Allow(a) ==
    /\ IsAt(a, "new") /\ \A b \in Attempts : IsAt(b, "new") => a <= b
    /\ Reaches(a, IF usingRedis THEN "redis" ELSE "clock")
    /\ usingRedis' \in {usingRedis, TRUE}
    /\ UNCHANGED <<clock, redis, listed, losses, admitted>>

\* checkRateLimit: a pipeline of INCR, which makes a key that stays for ever,
Never == LastTick + 1
Incremented ==
    IF redis = NoKey THEN [count |-> 1, expires |-> Never]
                     ELSE [redis EXCEPT !.count = @ + 1]

Increment(a) ==
    /\ IsAt(a, "redis")
    /\ redis' = Incremented
    /\ Becomes(a, [at |-> "expire", count |-> Incremented.count, since |-> clock, life |-> losses])
    /\ UNCHANGED <<clock, usingRedis, listed, losses, admitted>>

\* and EXPIRE, whether the key is new or not; it may be gone again.
Renewed == IF redis = NoKey THEN NoKey ELSE [redis EXCEPT !.expires = clock + Window]

CountedIn(a) == LetIn(a, "redis", attempt[a].since, attempt[a].life, attempt[a].count)

RenewExpiry(a) ==
    /\ IsAt(a, "expire")
    /\ redis' = Renewed
    /\ \/ attempt[a].count > MaxAttempts /\ Reaches(a, "done") /\ UNCHANGED admitted
       \/ /\ attempt[a].count <= MaxAttempts /\ attempt[a].count = 1
          /\ Becomes(a, [attempt[a] EXCEPT !.at = "ensure"])
          /\ UNCHANGED admitted
       \/ /\ attempt[a].count <= MaxAttempts /\ attempt[a].count # 1
          /\ CountedIn(a) /\ Reaches(a, "done")
    /\ UNCHANGED <<clock, usingRedis, listed, losses>>

\* The first of a key sends EXPIRE once more and does not look at the answer.
EnsureExpiry(a) ==
    /\ IsAt(a, "ensure")
    /\ redis' \in {redis, Renewed}
    /\ CountedIn(a) /\ Reaches(a, "done")
    /\ UNCHANGED <<clock, usingRedis, listed, losses>>

\* An error of Redis before INCR, between the two, which are no transaction, or
\* after both: switchToMemory.
RedisFails(a) ==
    /\ \/ IsAt(a, "redis") /\ UNCHANGED redis
       \/ IsAt(a, "expire") /\ redis' \in {redis, Renewed}
    /\ usingRedis' = FALSE
    /\ Reaches(a, "clock")
    /\ UNCHANGED <<clock, listed, losses, admitted>>

\* checkLimit reads the clock ...
ReadClock(a) ==
    /\ IsAt(a, "clock")
    /\ Becomes(a, [at |-> "memory", now |-> clock])
    /\ UNCHANGED <<clock, redis, usingRedis, listed, losses, admitted>>

\* ... and under the lock drops what is older than the window of that time.
CheckMemory(a) ==
    LET now == attempt[a].now
        valid == {e \in listed : e[2] + Window > now}
    IN  /\ IsAt(a, "memory")
        /\ IF Cardinality(valid) >= MaxAttempts
           THEN listed' = valid /\ UNCHANGED admitted
           ELSE listed' = valid \cup {<<a, now>>} /\ LetIn(a, "memory", now, losses, 0)
        /\ Reaches(a, "done")
        /\ UNCHANGED <<clock, redis, usingRedis, losses>>

ClockTicks ==
    /\ clock < LastTick
    /\ clock' = clock + 1
    /\ redis' = IF redis # NoKey /\ redis.expires <= clock' THEN NoKey ELSE redis
    /\ UNCHANGED <<usingRedis, listed, attempt, losses, admitted>>

\* Redis drops the key when it is full (allkeys-lru), or is restarted without it,
RedisForgets ==
    /\ losses < MaxLosses /\ losses' = losses + 1
    /\ redis' = NoKey
    /\ UNCHANGED <<clock, usingRedis, listed, attempt, admitted>>

\* nor does the service; the attempts under way are not answered.
ServiceRestarts ==
    /\ losses < MaxLosses /\ losses' = losses + 1
    /\ listed' = {}
    /\ attempt' = [a \in Attempts |-> [at |-> IF IsAt(a, "new") THEN "new" ELSE "done"]]
    /\ usingRedis' = TRUE
    /\ UNCHANGED <<clock, redis, admitted>>

\* NewFallbackRateLimiter starts in memory mode only when Redis did not answer,
\* and then has no client to try again with; that mode is the list alone.
RateLimitsInit ==
    /\ clock = 0
    /\ redis = NoKey /\ usingRedis = TRUE
    /\ listed = {}
    /\ attempt = [a \in Attempts |-> [at |-> "new"]]
    /\ losses = 0
    /\ admitted = {}

RateLimitsNext ==
    \/ \E a \in Attempts :
        \/ Allow(a)
        \/ Increment(a) \/ RenewExpiry(a) \/ EnsureExpiry(a) \/ RedisFails(a)
        \/ ReadClock(a) \/ CheckMemory(a)
    \/ ClockTicks \/ RedisForgets \/ ServiceRestarts

RateLimitsSpec == RateLimitsInit /\ [][RateLimitsNext]_limits

-----------------------------------------------------------------------------
\* What a limiter admitted in the window before a time, after so many losses.
Admitted(by, life, t) ==
    {e \in admitted : e.by = by /\ e.life = life /\ e.time <= t /\ t < e.time + Window}

\* In every window each limiter admits at most MaxAttempts for each life of what it
\* counts with.  An attempt that the clock overtook, between INCR and its admission
\* by Redis or while it waited for the lock of the list, is one more
\* (RedisRateLimiter.checkRateLimit, MemoryRateLimiter.checkLimit).
LoginBudget ==
    \A by \in {"redis", "memory"}, life \in 0..losses, t \in Ticks :
        Cardinality(Admitted(by, life, t)) <= MaxAttempts
=============================================================================
