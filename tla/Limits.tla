------------------------------- MODULE Limits -------------------------------
(***************************************************************************)
(* The two limits a request meets before its handler runs: that of the     *)
(* api-gateway on the requests of a client and that of the service on the  *)
(* attempts at an operation.  They share no state and no clock, so each    *)
(* step is one of either.                                                  *)
(***************************************************************************)
EXTENDS RateLimits, GatewayLimiter

LimitersInit == RateLimitsInit /\ LimiterInit

LimitersNext ==
    \/ RateLimitsNext /\ UNCHANGED limiter
    \/ LimiterNext /\ UNCHANGED limits

LimitersSpec == LimitersInit /\ [][LimitersNext]_<<limits, limiter>>

\* In every window each limiter admits no more than its limit, that on attempts for
\* each life of what it counts with, and one more for each attempt that the clock
\* overtook; the gateway's keeps to its capacity
\* (RedisRateLimiter.checkRateLimit, MemoryRateLimiter.checkLimit,
\* RateLimiter::check_rate_limit and cleanup_expired).
BudgetsHold == LoginBudget /\ GatewayBudget
=============================================================================
