--------------------------- MODULE GatewayBreaker ---------------------------
(***************************************************************************)
(* The circuit breaker of the api-gateway at the granularity of its two    *)
(* tokio locks (services/api-gateway/src/circuit_breaker/breaker.rs).      *)
(*                                                                         *)
(* Every clone of a CircuitBreaker shares one `state` lock and one `stats` *)
(* lock, and any number of tasks run `call` on it.  A task loses control   *)
(* at an .await, so an action goes from one .await to the next: waiting    *)
(* for a lock, waiting for the protected operation, or holding one lock    *)
(* and waiting for the other.  can_execute and reset take state and then   *)
(* stats; record_success and record_failure take stats and then state.     *)
(*                                                                         *)
(* A result is recorded by whichever call finishes, also by a call that    *)
(* was admitted several circuit states ago.                                *)
(*                                                                         *)
(* consecutive_failures and consecutive_successes are compared with their  *)
(* threshold (>=) and set to 0, nothing else, so the model stops counting  *)
(* at the threshold.  total_failures and total_successes only feed         *)
(* get_stats and are left out, with get_state and get_stats themselves.    *)
(***************************************************************************)
EXTENDS Naturals

CONSTANTS
    Tasks,              \* the requests that share the breaker
    FailureThreshold,   \* config.failure_threshold
    SuccessThreshold,   \* config.success_threshold
    NoTask              \* "nobody holds this lock"

ASSUME ConfigAssumption ==
    /\ FailureThreshold \in Nat
    /\ SuccessThreshold \in Nat
    /\ NoTask \notin Tasks

VARIABLES
    circuit,     \* the CircuitState
    elapsed,     \* Open's opened_at is at least timeout_seconds ago
    failures,    \* stats.consecutive_failures
    successes,   \* stats.consecutive_successes
    stateLock,   \* the task that holds the write guard of `state`
    statsLock,   \* the task that holds the write guard of `stats`
    pc           \* where each task is suspended

vars == <<circuit, elapsed, failures, successes, stateLock, statsLock, pc>>

Locks == <<stateLock, statsLock>>
Counters == <<failures, successes>>

Circuits == {"closed", "open", "half_open"}

\* The .await points: before state.write() of can_execute ("gate"), before its
\* stats.write() ("gate_stats"), the operation ("running"), before stats.write()
\* and then state.write() of record_success and record_failure, and before the
\* two locks of reset.
Suspensions ==
    {"idle", "gate", "gate_stats", "running", "ok_stats", "ok_state",
     "err_stats", "err_state", "reset_state", "reset_stats"}

TypeOK ==
    /\ circuit \in Circuits
    /\ elapsed \in BOOLEAN
    /\ failures \in 0..FailureThreshold
    /\ successes \in 0..SuccessThreshold
    /\ stateLock \in Tasks \cup {NoTask}
    /\ statsLock \in Tasks \cup {NoTask}
    /\ pc \in [Tasks -> Suspensions]

\* CircuitBreaker::new
Init ==
    /\ circuit = "closed"
    /\ elapsed = FALSE
    /\ failures = 0
    /\ successes = 0
    /\ stateLock = NoTask
    /\ statsLock = NoTask
    /\ pc = [t \in Tasks |-> "idle"]

Goto(t, place) == pc' = [pc EXCEPT ![t] = place]

Bump(count, threshold) == IF count < threshold THEN count + 1 ELSE count

-----------------------------------------------------------------------------
(* call and can_execute *)

StartCall(t) ==
    /\ pc[t] = "idle"
    /\ Goto(t, "gate")
    /\ UNCHANGED <<circuit, elapsed, Counters, Locks>>

\* can_execute gets the state lock and lets the call through.
Admit(t) ==
    /\ pc[t] = "gate"
    /\ stateLock = NoTask
    /\ circuit \in {"closed", "half_open"}
    /\ Goto(t, "running")
    /\ UNCHANGED <<circuit, elapsed, Counters, Locks>>

\* can_execute gets the state lock of an open circuit before the timeout.
Reject(t) ==
    /\ pc[t] = "gate"
    /\ stateLock = NoTask
    /\ circuit = "open"
    /\ ~elapsed
    /\ Goto(t, "idle")
    /\ UNCHANGED <<circuit, elapsed, Counters, Locks>>

\* After the timeout it makes the circuit half-open and, still holding the
\* state lock, asks for the stats lock.
BeginTrial(t) ==
    /\ pc[t] = "gate"
    /\ stateLock = NoTask
    /\ circuit = "open"
    /\ elapsed
    /\ circuit' = "half_open"
    /\ elapsed' = FALSE
    /\ stateLock' = t
    /\ Goto(t, "gate_stats")
    /\ UNCHANGED <<Counters, statsLock>>

\* It gets the stats lock, clears the counters and releases both locks.
ClearCounters(t) ==
    /\ pc[t] = "gate_stats"
    /\ statsLock = NoTask
    /\ failures' = 0
    /\ successes' = 0
    /\ stateLock' = NoTask
    /\ Goto(t, "running")
    /\ UNCHANGED <<circuit, elapsed, statsLock>>

\* The protected operation returns.
OperationReturns(t) ==
    /\ pc[t] = "running"
    /\ \/ Goto(t, "ok_stats")
       \/ Goto(t, "err_stats")
    /\ UNCHANGED <<circuit, elapsed, Counters, Locks>>

-----------------------------------------------------------------------------
(* record_success and record_failure *)

\* Either of them gets the stats lock and asks for the state lock.
LockStats(t) ==
    /\ statsLock = NoTask
    /\ \/ pc[t] = "ok_stats" /\ Goto(t, "ok_state")
       \/ pc[t] = "err_stats" /\ Goto(t, "err_state")
    /\ statsLock' = t
    /\ UNCHANGED <<circuit, elapsed, Counters, stateLock>>

\* Slip: a success leaves the failures counted.
RecordSuccess_slip(t) ==
    /\ pc[t] = "ok_state"
    /\ stateLock = NoTask
    /\ LET bumped == Bump(successes, SuccessThreshold)
       IN  IF circuit = "half_open" /\ bumped >= SuccessThreshold
           THEN circuit' = "closed" /\ successes' = 0
           ELSE UNCHANGED circuit /\ successes' = bumped
    /\ statsLock' = NoTask
    /\ Goto(t, "idle")
    /\ UNCHANGED <<elapsed, failures, stateLock>>

RecordSuccess(t) ==
    /\ pc[t] = "ok_state"
    /\ stateLock = NoTask
    /\ failures' = 0
    /\ LET bumped == Bump(successes, SuccessThreshold)
       IN  IF circuit = "half_open" /\ bumped >= SuccessThreshold
           THEN circuit' = "closed" /\ successes' = 0
           ELSE UNCHANGED circuit /\ successes' = bumped
    /\ statsLock' = NoTask
    /\ Goto(t, "idle")
    /\ UNCHANGED <<elapsed, stateLock>>

\* Slip: the circuit opens only past its threshold.
RecordFailure_edge_slip(t) ==
    /\ pc[t] = "err_state"
    /\ stateLock = NoTask
    /\ failures' = Bump(failures, FailureThreshold)
    /\ successes' = 0
    /\ IF \/ circuit = "closed" /\ failures' > FailureThreshold
          \/ circuit = "half_open"
       THEN circuit' = "open" /\ elapsed' = FALSE
       ELSE UNCHANGED <<circuit, elapsed>>
    /\ statsLock' = NoTask
    /\ Goto(t, "idle")
    /\ UNCHANGED stateLock

RecordFailure(t) ==
    /\ pc[t] = "err_state"
    /\ stateLock = NoTask
    /\ failures' = Bump(failures, FailureThreshold)
    /\ successes' = 0
    /\ IF \/ circuit = "closed" /\ failures' >= FailureThreshold
          \/ circuit = "half_open"
       THEN circuit' = "open" /\ elapsed' = FALSE
       ELSE UNCHANGED <<circuit, elapsed>>
    /\ statsLock' = NoTask
    /\ Goto(t, "idle")
    /\ UNCHANGED stateLock

-----------------------------------------------------------------------------
(* reset, and the clock *)

StartReset(t) ==
    /\ pc[t] = "idle"
    /\ Goto(t, "reset_state")
    /\ UNCHANGED <<circuit, elapsed, Counters, Locks>>

LockStateForReset(t) ==
    /\ pc[t] = "reset_state"
    /\ stateLock = NoTask
    /\ stateLock' = t
    /\ Goto(t, "reset_stats")
    /\ UNCHANGED <<circuit, elapsed, Counters, statsLock>>

\* Slip: reset leaves the failures counted.
ResetCircuit_slip(t) ==
    /\ pc[t] = "reset_stats"
    /\ statsLock = NoTask
    /\ circuit' = "closed"
    /\ elapsed' = FALSE
    /\ successes' = 0
    /\ stateLock' = NoTask
    /\ Goto(t, "idle")
    /\ UNCHANGED <<failures, statsLock>>

ResetCircuit(t) ==
    /\ pc[t] = "reset_stats"
    /\ statsLock = NoTask
    /\ circuit' = "closed"
    /\ elapsed' = FALSE
    /\ failures' = 0
    /\ successes' = 0
    /\ stateLock' = NoTask
    /\ Goto(t, "idle")
    /\ UNCHANGED statsLock

\* timeout_seconds pass since opened_at.
TimeoutElapses ==
    /\ circuit = "open"
    /\ ~elapsed
    /\ elapsed' = TRUE
    /\ UNCHANGED <<circuit, Counters, Locks, pc>>

CallStep(t) ==
    \/ StartCall(t) \/ Admit(t) \/ Reject(t) \/ BeginTrial(t)
    \/ ClearCounters(t) \/ OperationReturns(t)
    \/ LockStats(t) \/ RecordSuccess(t) \/ RecordFailure(t)

ResetStep(t) == StartReset(t) \/ LockStateForReset(t) \/ ResetCircuit(t)

Next == TimeoutElapses \/ \E t \in Tasks : CallStep(t) \/ ResetStep(t)

Spec == Init /\ [][Next]_vars

-----------------------------------------------------------------------------
(* Properties *)

\* A lock is held exactly by a task that is suspended between its two locks: a
\* guard never outlives the call that took it, and nobody asks for the second
\* lock without holding the first (breaker.rs:74, 107-108, 132-133, 186-187).
HeldBetweenLocks ==
    \A t \in Tasks :
        /\ stateLock = t <=> pc[t] \in {"gate_stats", "reset_stats"}
        /\ statsLock = t <=> pc[t] \in {"ok_state", "err_state"}

\* The circuit is being made half-open: can_execute has changed the state and
\* has not cleared the counters yet (breaker.rs:89-94).
TrialStarting == \E t \in Tasks : pc[t] = "gate_stats"

\* Whatever late results bumped the counters while the circuit was open, a
\* closed circuit is below its failure threshold and a half-open one below its
\* success threshold: neither circuit ever sits on a count that should already
\* have moved it (breaker.rs:116, 141).
ClosedBelowThreshold ==
    circuit = "closed" => failures = 0 \/ failures < FailureThreshold
TrialBelowThreshold ==
    circuit = "half_open" /\ ~TrialStarting =>
        successes = 0 \/ successes < SuccessThreshold
BelowThresholds == ClosedBelowThreshold /\ TrialBelowThreshold

\* While the circuit is being made half-open its state lock is held, so no call
\* is admitted or recorded on the old counters (breaker.rs:89-94).
TrialIsExclusive == TrialStarting => circuit = "half_open" /\ stateLock # NoTask

\* The breaker keeps its documented promise (breaker.rs:8-13): however calls,
\* late results and resets interleave on the two locks, its state changes are
\* those of the atomic machine of module Breaker.  What the two locks hide is
\* which counter counts: the abstract streak is the failure count of a closed
\* circuit, the success count of a half-open one, and 0 while it is open or
\* the counters are about to be cleared.
Streak ==
    CASE circuit = "closed" -> failures
      [] circuit = "half_open" /\ ~TrialStarting -> successes
      [] OTHER -> 0

Abstract == INSTANCE Breaker WITH streak <- Streak

BreakerRefinement == Abstract!Spec

\* Calls alone, as the gateway makes them (nothing in it calls reset), with
\* tokio's fairness: a free lock goes to its first waiter, so a lock that is free
\* again and again is obtained; the operation is bounded by the timeout of its
\* channel (grpc/pool.rs:67-71); time passes.
CallNext == TimeoutElapses \/ \E t \in Tasks : CallStep(t)

FairCalls ==
    /\ Init /\ [][CallNext]_vars
    /\ WF_vars(TimeoutElapses)
    /\ \A t \in Tasks :
        /\ WF_vars(OperationReturns(t))
        /\ SF_vars(Admit(t) \/ Reject(t) \/ BeginTrial(t))
        /\ SF_vars(ClearCounters(t))
        /\ SF_vars(LockStats(t))
        /\ SF_vars(RecordSuccess(t) \/ RecordFailure(t))

\* call returns: Ok, Open or OperationFailed (breaker.rs:45-48).  It does not
\* when a call that finishes late holds `stats` and waits for `state` while
\* can_execute holds `state` and waits for `stats`.
EveryCallReturns == \A t \in Tasks : pc[t] # "idle" ~> pc[t] = "idle"
=============================================================================
