--------------------------- MODULE ContentBreaker ---------------------------
(***************************************************************************)
(* The circuit breaker of the content-management-service, around           *)
(* Elasticsearch and the analytics service                                 *)
(* (services/content-management-service/src/circuit_breaker.rs).           *)
(*                                                                         *)
(* It is another program than the breaker of the api-gateway: a decision   *)
(* (the timeout is over, the count has reached its threshold) is taken     *)
(* under one guard, the guard is dropped, and the transition is made later *)
(* under others, whatever the circuit is by then.  The guards of `state`   *)
(* and `stats` are both kept over an .await: on_success and on_failure     *)
(* hold `stats` while they wait to read `state`, a transition holds        *)
(* `state` while it waits for `stats`.                                     *)
(*                                                                         *)
(* An action goes from one .await to the next.  At any of them the call    *)
(* may be dropped: the future of a search is a part of its handler, which  *)
(* the server drops when the client cancels or no longer waits.  The       *)
(* guards it holds are released, and what it was to do is not done.        *)
(*                                                                         *)
(* The counts are only                                                     *)
(* compared with their threshold (>=) and set to 0, so the model stops     *)
(* counting there.  window_duration and last_failure_time are never used   *)
(* for a decision and are left out, with get_stats.                        *)
(***************************************************************************)
EXTENDS Naturals

CONSTANTS
    Tasks,              \* the searches, index requests or batches under way
    FailureThreshold,   \* config.failure_threshold
    SuccessThreshold,   \* config.success_threshold
    NoTask              \* "nobody holds this write guard"

ASSUME ContentBreakerAssumption ==
    FailureThreshold \in Nat /\ SuccessThreshold \in Nat

VARIABLES
    circuit,     \* the CircuitState
    elapsed,     \* stats.state_changed_at is at least config.timeout ago
    failures,    \* stats.failure_count
    successes,   \* stats.success_count
    stateLock,   \* the task that holds the write guard of `state`
    statsLock,   \* the task that holds the write guard of `stats`
    pc,          \* where each task is suspended
    abandoned    \* history: a call was dropped on its way to a transition, and no
                 \* result was recorded and no transition made since

breakerVars ==
    <<circuit, elapsed, failures, successes, stateLock, statsLock, pc, abandoned>>

Locks == <<stateLock, statsLock>>
Counters == <<failures, successes>>

\* CircuitBreaker::new
BreakerInit ==
    /\ circuit = "closed"
    /\ elapsed = FALSE
    /\ failures = 0
    /\ successes = 0
    /\ stateLock = NoTask
    /\ statsLock = NoTask
    /\ pc = [t \in Tasks |-> "idle"]
    /\ abandoned = FALSE

Goto(t, place) == pc' = [pc EXCEPT ![t] = place]

Bump(count, threshold) == IF count < threshold THEN count + 1 ELSE count

-----------------------------------------------------------------------------
(* call *)

StartCall(t) ==
    /\ pc[t] = "idle"
    /\ Goto(t, "get_state")
    /\ UNCHANGED <<circuit, elapsed, Counters, Locks, abandoned>>

\* get_state gives a copy; the guard is gone when the copy is looked at.
GetState(t) ==
    /\ pc[t] = "get_state"
    /\ stateLock = NoTask
    /\ Goto(t, IF circuit = "open" THEN "get_stats" ELSE "running")
    /\ UNCHANGED <<circuit, elapsed, Counters, Locks, abandoned>>

\* A call that saw an open circuit is refused before the timeout; after it, it
\* lets go of the stats and asks for the state.
CheckTimeout(t) ==
    /\ pc[t] = "get_stats"
    /\ statsLock = NoTask
    /\ Goto(t, IF elapsed THEN "to_half_open" ELSE "idle")
    /\ UNCHANGED <<circuit, elapsed, Counters, Locks, abandoned>>

\* The protected operation returns.
OperationReturns(t) ==
    /\ pc[t] = "running"
    /\ Goto(t, "success") \/ Goto(t, "failure")
    /\ UNCHANGED <<circuit, elapsed, Counters, Locks, abandoned>>

-----------------------------------------------------------------------------
(* on_success and on_failure *)

\* record_success and record_failure; the guard of the stats is kept.
Record(t) ==
    /\ statsLock = NoTask
    /\ statsLock' = t
    /\ \/ /\ pc[t] = "success"
          /\ successes' = Bump(successes, SuccessThreshold)
          /\ failures' = 0
          /\ Goto(t, "success_state")
       \/ /\ pc[t] = "failure"
          /\ failures' = Bump(failures, FailureThreshold)
          /\ successes' = 0
          /\ Goto(t, "failure_state")
    /\ abandoned' = FALSE
    /\ UNCHANGED <<circuit, elapsed, stateLock>>

\* Slip: a closed circuit opens only past its threshold.
Decide_slip(t) ==
    /\ stateLock = NoTask
    /\ \/ /\ pc[t] = "success_state"
          /\ Goto(t, IF circuit = "half_open" /\ successes >= SuccessThreshold
                     THEN "to_closed" ELSE "idle")
       \/ /\ pc[t] = "failure_state"
          /\ Goto(t, IF \/ circuit = "closed" /\ failures > FailureThreshold
                        \/ circuit = "half_open"
                     THEN "to_open" ELSE "idle")
    /\ statsLock' = NoTask
    /\ UNCHANGED <<circuit, elapsed, Counters, stateLock, abandoned>>

\* The state is read, the transition decided, and the stats let go.
Decide(t) ==
    /\ stateLock = NoTask
    /\ \/ /\ pc[t] = "success_state"
          /\ Goto(t, IF circuit = "half_open" /\ successes >= SuccessThreshold
                     THEN "to_closed" ELSE "idle")
       \/ /\ pc[t] = "failure_state"
          /\ Goto(t, IF \/ circuit = "closed" /\ failures >= FailureThreshold
                        \/ circuit = "half_open"
                     THEN "to_open" ELSE "idle")
    /\ statsLock' = NoTask
    /\ UNCHANGED <<circuit, elapsed, Counters, stateLock, abandoned>>

-----------------------------------------------------------------------------
(* The transitions, reset, and the clock *)

\* A transition writes the state and, keeping it, asks for the stats.
ChangeState(t) ==
    /\ stateLock = NoTask
    /\ \/ pc[t] = "to_open" /\ circuit' = "open" /\ Goto(t, "open_stats")
       \/ pc[t] = "to_half_open" /\ circuit' = "half_open" /\ Goto(t, "half_open_stats")
       \/ pc[t] = "to_closed" /\ circuit' = "closed" /\ Goto(t, "closed_stats")
    /\ stateLock' = t
    /\ abandoned' = FALSE
    /\ UNCHANGED <<elapsed, Counters, statsLock>>

\* It stamps the stats, clears them unless it opens, and is over; a call that
\* made the circuit half-open goes on to its operation.
StampChange(t) ==
    /\ statsLock = NoTask
    /\ \/ pc[t] = "open_stats" /\ Goto(t, "idle") /\ UNCHANGED Counters
       \/ /\ pc[t] \in {"half_open_stats", "closed_stats"}
          /\ Goto(t, IF pc[t] = "half_open_stats" THEN "running" ELSE "idle")
          /\ failures' = 0
          /\ successes' = 0
    /\ elapsed' = FALSE
    /\ stateLock' = NoTask
    /\ UNCHANGED <<circuit, statsLock, abandoned>>

\* reset makes the steps of transition_to_closed; only tests call it.
StartReset(t) ==
    /\ pc[t] = "idle"
    /\ Goto(t, "to_closed")
    /\ UNCHANGED <<circuit, elapsed, Counters, Locks, abandoned>>

\* config.timeout passes since state_changed_at.
TimeoutElapses ==
    /\ ~elapsed
    /\ elapsed' = TRUE
    /\ UNCHANGED <<circuit, Counters, Locks, pc, abandoned>>

\* On its way to open the circuit, or to clear the count after changing the state.
Carrying(t) == pc[t] \in {"failure_state", "to_open", "half_open_stats", "closed_stats"}

Released(lock, t) == IF lock = t THEN NoTask ELSE lock

\* The client cancels, or its deadline passes: the server drops the handler and
\* with it the call, at the .await where it is suspended.
DropCall(t) ==
    /\ pc[t] # "idle"
    /\ Goto(t, "idle")
    /\ stateLock' = Released(stateLock, t)
    /\ statsLock' = Released(statsLock, t)
    /\ abandoned' = (abandoned \/ Carrying(t))
    /\ UNCHANGED <<circuit, elapsed, Counters>>

CallStep(t) ==
    \/ StartCall(t) \/ GetState(t) \/ CheckTimeout(t) \/ OperationReturns(t)
    \/ Record(t) \/ Decide(t) \/ ChangeState(t) \/ StampChange(t)
    \/ DropCall(t)

\* The service, which never resets its breakers.
CallsNext == TimeoutElapses \/ \E t \in Tasks : CallStep(t)
CallsSpec == BreakerInit /\ [][CallsNext]_breakerVars

BreakerNext == CallsNext \/ \E t \in Tasks : StartReset(t)
BreakerSpec == BreakerInit /\ [][BreakerNext]_breakerVars

-----------------------------------------------------------------------------
(* Properties *)

BreakerTypeOK ==
    /\ circuit \in {"closed", "open", "half_open"}
    /\ elapsed \in BOOLEAN
    /\ failures \in 0..FailureThreshold
    /\ successes \in 0..SuccessThreshold
    /\ stateLock \in Tasks \cup {NoTask}
    /\ statsLock \in Tasks \cup {NoTask}
    /\ abandoned \in BOOLEAN
    /\ pc \in [Tasks ->
           {"idle", "get_state", "get_stats", "running", "success", "success_state",
            "failure", "failure_state", "to_open", "open_stats", "to_half_open",
            "half_open_stats", "to_closed", "closed_stats"}]

\* No trip is forgotten but with the call that carried it: when the failures of a
\* closed circuit reach the threshold, or a trial fails, some call is on its way
\* to open the circuit, or a transition is about to clear the count, whatever
\* successes, late results, other transitions and resets come between; or a call
\* was dropped on that way, and then the next result recorded decides again
\* (on_failure and the transitions, each of them at its .awaits).
Tripped ==
    \/ circuit = "closed" /\ failures > 0 /\ failures >= FailureThreshold
    \/ circuit = "half_open" /\ failures > 0
TripsAreCarriedOut == Tripped => abandoned \/ \E t \in Tasks : Carrying(t)

\* A circuit that opened is tried before it closes: "Any failure in half-open
\* state reopens the circuit" (circuit_breaker.rs:220), and only successes in
\* the half-open state close it (line 23).  It is not so: a success that was the
\* last one needed decides to close, a failure of another trial call opens the
\* circuit, and then the first call closes it, whatever the circuit is by now.
TriedBeforeClosing == [][circuit = "open" => circuit' # "closed"]_breakerVars
=============================================================================
