----------------------- MODULE GatewayRequest_proofs -----------------------
(***************************************************************************)
(* For every set of tasks and every pair of thresholds: the two locks of   *)
(* the gateway's breaker are held where the code says, the counters stay   *)
(* below their thresholds, and the breaker implements module Breaker.  And *)
(* with the request timeout around it: a request that was answered, also   *)
(* one that was dropped, holds no lock of the breaker, and a closed        *)
(* circuit opens only after failure_threshold failures in a row.           *)
(*                                                                         *)
(* In front of both stands the authentication, proved for any services,    *)
(* table, tokens and policies: a request carries its route with it, so the *)
(* policy it was decided by is the one answered for that route, or the     *)
(* fallback.  The types of the table it was looked up in, and of the cache,*)
(* rest on the lists the two refreshes make: the places that are kept of a *)
(* list are numbered by their rank.                                        *)
(***************************************************************************)
EXTENDS GatewayRequest, Gate, FiniteSetTheorems, TLAPS

-----------------------------------------------------------------------------
(* The breaker *)


\* The four invariants are inductive together: the lock discipline keeps every
\* other task out while the counters of a new trial are being cleared, and that
\* is why no count of an earlier circuit survives into the trial.
IInv == TypeOK /\ HeldBetweenLocks /\ BelowThresholds /\ TrialIsExclusive

\* A counter that is bumped stays within its range and is the next number as
\* long as it is below its threshold (breaker.rs:110-111, 135-136).
LEMMA BumpFacts ==
    ASSUME NEW threshold \in Nat, NEW count \in 0..threshold
    PROVE  /\ Bump(count, threshold) \in 0..threshold
           /\ count < threshold => Bump(count, threshold) = count + 1
           /\ Bump(count, threshold) >= threshold <=> count + 1 >= threshold
    BY DEF Bump

\* CircuitBreaker::new establishes the invariant (breaker.rs:35-41).
LEMMA InitIInv == Init => IInv
<1>1. ASSUME Init PROVE TypeOK
    <2>1. failures \in 0..FailureThreshold /\ successes \in 0..SuccessThreshold
        BY <1>1, ConfigAssumption DEF Init
    <2>2. circuit \in Circuits /\ elapsed \in BOOLEAN
        BY <1>1 DEF Init, Circuits
    <2>3. pc \in [Tasks -> Suspensions]
        BY <1>1 DEF Init, Suspensions
    <2> QED BY <1>1, <2>1, <2>2, <2>3 DEF Init, TypeOK
<1>2. ASSUME Init PROVE HeldBetweenLocks
    BY <1>2, ConfigAssumption DEF Init, HeldBetweenLocks
<1>3. ASSUME Init PROVE BelowThresholds /\ TrialIsExclusive
    BY <1>3 DEF Init, BelowThresholds, ClosedBelowThreshold,
                TrialBelowThreshold, TrialIsExclusive, TrialStarting
<1> QED BY <1>1, <1>2, <1>3 DEF IInv

\* Every step keeps the type of the state.
LEMMA TypeStep == TypeOK /\ [Next]_vars => TypeOK'
<1> SUFFICES ASSUME TypeOK, [Next]_vars PROVE TypeOK'
    OBVIOUS
<1> USE ConfigAssumption DEF TypeOK, Circuits, Suspensions, Goto, Locks, Counters
<1>1. CASE UNCHANGED vars
    BY <1>1 DEF vars
<1>2. CASE TimeoutElapses
    BY <1>2 DEF TimeoutElapses
<1>3. ASSUME NEW t \in Tasks, CallStep(t) PROVE TypeOK'
    <2>1. CASE StartCall(t) \/ Admit(t) \/ Reject(t) \/ BeginTrial(t)
        BY <2>1 DEF StartCall, Admit, Reject, BeginTrial
    <2>2. CASE ClearCounters(t) \/ OperationReturns(t) \/ LockStats(t)
        BY <2>2 DEF ClearCounters, OperationReturns, LockStats
    <2>3. CASE RecordSuccess(t)
        BY <2>3, BumpFacts DEF RecordSuccess
    <2>4. CASE RecordFailure(t)
        <3>1. failures' \in 0..FailureThreshold /\ successes' \in 0..SuccessThreshold
            BY <2>4, BumpFacts DEF RecordFailure
        <3>2. circuit' \in Circuits /\ elapsed' \in BOOLEAN
            BY <2>4, Zenon DEF RecordFailure
        <3> QED BY <2>4, <3>1, <3>2 DEF RecordFailure
    <2> QED BY <1>3, <2>1, <2>2, <2>3, <2>4 DEF CallStep
<1>4. ASSUME NEW t \in Tasks, ResetStep(t) PROVE TypeOK'
    <2>1. CASE StartReset(t) \/ LockStateForReset(t)
        BY <2>1 DEF StartReset, LockStateForReset
    <2>2. CASE ResetCircuit(t)
        <3>1. failures' \in 0..FailureThreshold /\ successes' \in 0..SuccessThreshold
            BY <2>2 DEF ResetCircuit
        <3>2. circuit' \in Circuits /\ elapsed' \in BOOLEAN
            BY <2>2, Zenon DEF ResetCircuit
        <3> QED BY <2>2, <3>1, <3>2 DEF ResetCircuit
    <2> QED BY <1>4, <2>1, <2>2 DEF ResetStep
<1> QED BY <1>1, <1>2, <1>3, <1>4 DEF Next

\* Every step keeps the lock discipline: a task that moves to or from a place
\* between two locks takes or releases the lock of that place, and a lock is
\* only taken when it is free.
LEMMA LockStep == TypeOK /\ HeldBetweenLocks /\ [Next]_vars => HeldBetweenLocks'
<1> SUFFICES ASSUME TypeOK, HeldBetweenLocks, [Next]_vars,
                    NEW u \in Tasks
             PROVE  /\ stateLock' = u <=> pc'[u] \in {"gate_stats", "reset_stats"}
                    /\ statsLock' = u <=> pc'[u] \in {"ok_state", "err_state"}
    BY DEF HeldBetweenLocks
<1> USE ConfigAssumption DEF TypeOK, HeldBetweenLocks, Suspensions, Goto, Locks
<1>1. CASE UNCHANGED vars
    BY <1>1 DEF vars
<1>2. CASE TimeoutElapses
    BY <1>2 DEF TimeoutElapses
<1>3. ASSUME NEW t \in Tasks, CallStep(t)
      PROVE  /\ stateLock' = u <=> pc'[u] \in {"gate_stats", "reset_stats"}
             /\ statsLock' = u <=> pc'[u] \in {"ok_state", "err_state"}
    <2>1. CASE StartCall(t) \/ Admit(t) \/ Reject(t)
        BY <2>1 DEF StartCall, Admit, Reject
    <2>2. CASE BeginTrial(t)
        BY <2>2 DEF BeginTrial
    <2>3. CASE ClearCounters(t)
        BY <2>3 DEF ClearCounters
    <2>4. CASE OperationReturns(t)
        BY <2>4 DEF OperationReturns
    <2>5. CASE LockStats(t)
        BY <2>5 DEF LockStats
    <2>6. CASE RecordSuccess(t)
        BY <2>6 DEF RecordSuccess
    <2>7. CASE RecordFailure(t)
        BY <2>7 DEF RecordFailure
    <2> QED BY <1>3, <2>1, <2>2, <2>3, <2>4, <2>5, <2>6, <2>7 DEF CallStep
<1>4. ASSUME NEW t \in Tasks, ResetStep(t)
      PROVE  /\ stateLock' = u <=> pc'[u] \in {"gate_stats", "reset_stats"}
             /\ statsLock' = u <=> pc'[u] \in {"ok_state", "err_state"}
    BY <1>4 DEF ResetStep, StartReset, LockStateForReset, ResetCircuit
<1> QED BY <1>1, <1>2, <1>3, <1>4 DEF Next

\* While the state lock is free no trial is starting, and the task that holds
\* it for can_execute is the only one starting a trial (breaker.rs:74-94).
LEMMA TrialHoldsStateLock ==
    ASSUME TypeOK, HeldBetweenLocks
    PROVE  /\ stateLock = NoTask => ~TrialStarting
           /\ \A t \in Tasks : pc[t] = "reset_stats" => ~TrialStarting
           /\ \A t, u \in Tasks :
                pc[t] = "gate_stats" /\ pc[u] = "gate_stats" => t = u
    BY ConfigAssumption DEF HeldBetweenLocks, TrialStarting

\* A step that leaves the starters of a trial alone leaves TrialStarting alone.
LEMMA TrialStartingKept ==
    ASSUME TypeOK, NEW t \in Tasks, NEW place, Goto(t, place),
           pc[t] # "gate_stats", place # "gate_stats"
    PROVE  TrialStarting' <=> TrialStarting
    BY DEF TypeOK, Goto, TrialStarting

\* Every step keeps the two invariants about the counters and the trial.  Only
\* BeginTrial starts a trial, and it holds the state lock until ClearCounters;
\* RecordSuccess and RecordFailure compare the very count they leave behind.
LEMMA TrialStep ==
    IInv /\ [Next]_vars => BelowThresholds' /\ TrialIsExclusive'
<1> SUFFICES ASSUME IInv, [Next]_vars
             PROVE  BelowThresholds' /\ TrialIsExclusive'
    OBVIOUS
<1> USE DEF Counters, BelowThresholds, ClosedBelowThreshold, TrialBelowThreshold
<1>a. TypeOK /\ HeldBetweenLocks /\ BelowThresholds /\ TrialIsExclusive
    BY DEF IInv
<1>b. TypeOK' /\ HeldBetweenLocks'
    BY <1>a, TypeStep, LockStep
<1>0. TrialStarting' => stateLock' # NoTask
    BY <1>b, ConfigAssumption DEF TypeOK, HeldBetweenLocks, TrialStarting
<1>1. CASE UNCHANGED vars
    BY <1>1, <1>a DEF vars, TrialIsExclusive, TrialStarting
<1>2. CASE TimeoutElapses
    BY <1>2, <1>a, <1>0
    DEF TimeoutElapses, TrialIsExclusive, TrialStarting, Locks
<1>3. ASSUME NEW t \in Tasks, CallStep(t)
      PROVE  BelowThresholds' /\ TrialIsExclusive'
    <2>1. CASE StartCall(t) \/ Admit(t) \/ Reject(t) \/ OperationReturns(t)
               \/ LockStats(t)
        <3>1. TrialStarting' <=> TrialStarting
            BY <2>1, <1>a, TrialStartingKept
            DEF StartCall, Admit, Reject, OperationReturns, LockStats
        <3> QED BY <2>1, <3>1, <1>a, <1>0
            DEF StartCall, Admit, Reject, OperationReturns, LockStats,
                TrialIsExclusive
    <2>2. CASE BeginTrial(t)
        <3>1. TrialStarting'
            BY <2>2, <1>a DEF BeginTrial, Goto, TypeOK, TrialStarting
        <3> QED BY <2>2, <3>1, <1>0
            DEF BeginTrial, TrialIsExclusive
    <2>3. CASE ClearCounters(t)
        <3>1. ~TrialStarting'
            BY <2>3, <1>0, ConfigAssumption DEF ClearCounters
        <3> QED BY <2>3, <3>1 DEF ClearCounters, TrialIsExclusive
    <2>4. CASE RecordSuccess(t)
        <3>1. ~TrialStarting'
            BY <2>4, <1>0 DEF RecordSuccess
        <3>2. ~TrialStarting
            BY <2>4, <1>a, TrialHoldsStateLock DEF RecordSuccess
        <3> QED BY <2>4, <3>1, <3>2, <1>a, BumpFacts, ConfigAssumption
            DEF RecordSuccess, TrialIsExclusive, TypeOK
    <2>5. CASE RecordFailure(t)
        <3>1. ~TrialStarting'
            BY <2>5, <1>0 DEF RecordFailure
        <3> QED BY <2>5, <3>1, <1>a, <1>b, BumpFacts, ConfigAssumption
            DEF RecordFailure, TrialIsExclusive, TypeOK, Circuits
    <2> QED BY <1>3, <2>1, <2>2, <2>3, <2>4, <2>5 DEF CallStep
<1>4. ASSUME NEW t \in Tasks, ResetStep(t)
      PROVE  BelowThresholds' /\ TrialIsExclusive'
    <2>1. CASE StartReset(t) \/ LockStateForReset(t)
        <3>1. TrialStarting' <=> TrialStarting
            BY <2>1, <1>a, TrialStartingKept DEF StartReset, LockStateForReset
        <3> QED BY <2>1, <3>1, <1>a, <1>0
            DEF StartReset, LockStateForReset, TrialIsExclusive
    <2>2. CASE ResetCircuit(t)
        <3>1. ~TrialStarting'
            BY <2>2, <1>0 DEF ResetCircuit
        <3> QED BY <2>2, <3>1 DEF ResetCircuit, TrialIsExclusive
    <2> QED BY <1>4, <2>1, <2>2 DEF ResetStep
<1> QED BY <1>1, <1>2, <1>3, <1>4 DEF Next

-----------------------------------------------------------------------------

\* The invariant holds throughout (breaker.rs:49-194).
THEOREM Invariance == Spec => []IInv
<1>1. Init => IInv
    BY InitIInv
<1>2. IInv /\ [Next]_vars => IInv'
    BY TypeStep, LockStep, TrialStep DEF IInv
<1> QED BY <1>1, <1>2, PTL DEF Spec

\* Type correctness of the lock-level breaker.
THEOREM TypeCorrect == Spec => []TypeOK
<1>1. IInv => TypeOK
    BY DEF IInv
<1> QED BY <1>1, Invariance, PTL

\* The lock discipline: each lock is held exactly by the task between its two
\* locks, so each lock has at most one holder and no guard leaks.
THEOREM LockDiscipline == Spec => []HeldBetweenLocks
<1>1. IInv => HeldBetweenLocks
    BY DEF IInv
<1> QED BY <1>1, Invariance, PTL

\* No circuit sits on a count that should already have moved it, and no trial
\* runs on the counters of an earlier circuit.
THEOREM CountersBelowThresholds == Spec => [](BelowThresholds /\ TrialIsExclusive)
<1>1. IInv => BelowThresholds /\ TrialIsExclusive
    BY DEF IInv
<1> QED BY <1>1, Invariance, PTL

-----------------------------------------------------------------------------

\* What Streak is in each circuit state.
LEMMA StreakFacts ==
    /\ circuit = "closed" => Streak = failures
    /\ circuit = "half_open" /\ ~TrialStarting => Streak = successes
    /\ circuit = "half_open" /\ TrialStarting => Streak = 0
    /\ circuit = "open" => Streak = 0
    BY DEF Streak

\* The same after a step.
LEMMA StreakFactsPrime ==
    /\ circuit' = "closed" => Streak' = failures'
    /\ circuit' = "half_open" /\ ~TrialStarting' => Streak' = successes'
    /\ circuit' = "half_open" /\ TrialStarting' => Streak' = 0
    /\ circuit' = "open" => Streak' = 0
    BY DEF Streak

\* A step that keeps the circuit, the counters and the starters of a trial is
\* invisible to the abstract breaker.
LEMMA Invisible ==
    ASSUME UNCHANGED <<circuit, elapsed, failures, successes>>,
           TrialStarting' <=> TrialStarting
    PROVE  UNCHANGED Abstract!vars
    BY DEF Abstract!vars, Streak

\* Every step of the lock-level breaker is a step of the atomic one, or is
\* invisible to it.  A result that is recorded acts where both locks are held.
LEMMA StepRefines == IInv /\ [Next]_vars => [Abstract!Next]_(Abstract!vars)
<1> SUFFICES ASSUME IInv, [Next]_vars PROVE Abstract!Next \/ UNCHANGED Abstract!vars
    OBVIOUS
<1> USE DEF Counters
<1>a. TypeOK /\ HeldBetweenLocks /\ BelowThresholds /\ TrialIsExclusive
    BY DEF IInv
<1>b. TypeOK' /\ HeldBetweenLocks'
    BY <1>a, TypeStep, LockStep
<1>0. TrialStarting' => stateLock' # NoTask
    BY <1>b, ConfigAssumption DEF TypeOK, HeldBetweenLocks, TrialStarting
<1>1. CASE UNCHANGED vars
    BY <1>1 DEF vars, Abstract!vars, Streak, TrialStarting
<1>2. CASE TimeoutElapses
    <2>1. circuit' = "open" /\ Streak' = 0 /\ Streak = 0
        BY <1>2, StreakFacts, StreakFactsPrime DEF TimeoutElapses
    <2>2. Abstract!TimeoutElapses
        BY <1>2, <2>1 DEF TimeoutElapses, Abstract!TimeoutElapses
    <2> QED BY <2>2 DEF Abstract!Next
<1>3. ASSUME NEW t \in Tasks, CallStep(t)
      PROVE  Abstract!Next \/ UNCHANGED Abstract!vars
    <2>1. CASE StartCall(t) \/ Admit(t) \/ Reject(t) \/ OperationReturns(t)
               \/ LockStats(t)
        <3>1. TrialStarting' <=> TrialStarting
            BY <2>1, <1>a, TrialStartingKept
            DEF StartCall, Admit, Reject, OperationReturns, LockStats
        <3>2. UNCHANGED <<circuit, elapsed, failures, successes>>
            BY <2>1 DEF StartCall, Admit, Reject, OperationReturns, LockStats
        <3> QED BY <3>1, <3>2, Invisible
    <2>2. CASE BeginTrial(t)
        <3>1. TrialStarting'
            BY <2>2, <1>a DEF BeginTrial, Goto, TypeOK, TrialStarting
        <3>2. Streak = 0 /\ Streak' = 0
            BY <2>2, <3>1, StreakFacts, StreakFactsPrime DEF BeginTrial
        <3>3. Abstract!Trial
            BY <2>2, <3>2 DEF BeginTrial, Abstract!Trial
        <3> QED BY <3>3 DEF Abstract!Next
    <2>3. CASE ClearCounters(t)
        <3>1. TrialStarting /\ ~TrialStarting'
            BY <2>3, <1>0 DEF ClearCounters, TrialStarting
        <3>2. Streak = 0 /\ Streak' = 0
            BY <2>3, <3>1, <1>a, StreakFacts, StreakFactsPrime
            DEF ClearCounters, TrialIsExclusive
        <3> QED BY <2>3, <3>2 DEF ClearCounters, Abstract!vars
    <2>4. CASE RecordSuccess(t)
        <3>1. ~TrialStarting /\ ~TrialStarting'
            BY <2>4, <1>0, <1>a, TrialHoldsStateLock DEF RecordSuccess
        <3>2. CASE circuit = "open"
            BY <2>4, <3>2, StreakFacts, StreakFactsPrime
            DEF RecordSuccess, Abstract!vars
        <3>3. CASE circuit = "closed"
            <4>1. circuit' = "closed" /\ Streak' = 0
                BY <2>4, <3>3, StreakFactsPrime DEF RecordSuccess
            <4>2. Abstract!Success
                BY <2>4, <3>3, <4>1 DEF RecordSuccess, Abstract!Success
            <4> QED BY <4>2 DEF Abstract!Next
        <3>4. CASE circuit = "half_open"
            <4>1. Streak = successes
                BY <3>1, <3>4, StreakFacts
            <4>2. CASE Streak + 1 >= SuccessThreshold
                <5>1. circuit' = "closed" /\ failures' = 0
                    BY <2>4, <3>4, <4>1, <4>2, <1>a, BumpFacts, ConfigAssumption
                    DEF RecordSuccess, TypeOK
                <5>2. Streak' = 0
                    BY <5>1, StreakFactsPrime
                <5>3. Abstract!Success
                    BY <2>4, <3>4, <4>2, <5>1, <5>2
                    DEF RecordSuccess, Abstract!Success
                <5> QED BY <5>3 DEF Abstract!Next
            <4>3. CASE ~(Streak + 1 >= SuccessThreshold)
                <5>1. circuit' = "half_open" /\ successes' = successes + 1
                    BY <2>4, <3>4, <4>1, <4>3, <1>a, BumpFacts, ConfigAssumption
                    DEF RecordSuccess, TypeOK
                <5>2. Streak' = Streak + 1
                    BY <5>1, <3>1, <4>1, StreakFactsPrime
                <5>3. Abstract!Success
                    BY <2>4, <3>4, <4>3, <5>1, <5>2
                    DEF RecordSuccess, Abstract!Success
                <5> QED BY <5>3 DEF Abstract!Next
            <4> QED BY <4>2, <4>3
        <3> QED BY <3>2, <3>3, <3>4, <1>a DEF TypeOK, Circuits
    <2>5. CASE RecordFailure(t)
        <3>1. ~TrialStarting'
            BY <2>5, <1>0 DEF RecordFailure
        <3>2. CASE circuit = "open"
            BY <2>5, <3>2, StreakFacts, StreakFactsPrime
            DEF RecordFailure, Abstract!vars
        <3>3. CASE circuit = "half_open"
            <4>1. circuit' = "open" /\ elapsed' = FALSE /\ Streak' = 0
                BY <2>5, <3>3, StreakFactsPrime DEF RecordFailure
            <4>2. Abstract!Failure
                BY <3>3, <4>1 DEF Abstract!Failure
            <4> QED BY <4>2 DEF Abstract!Next
        <3>4. CASE circuit = "closed"
            <4>1. Streak = failures
                BY <3>4, StreakFacts
            <4>2. CASE Streak + 1 >= FailureThreshold
                <5>1. circuit' = "open" /\ elapsed' = FALSE
                    <6>1. failures' >= FailureThreshold
                        BY <2>5, <4>1, <4>2, <1>a, BumpFacts, ConfigAssumption
                        DEF RecordFailure, TypeOK
                    <6> QED BY <2>5, <3>4, <6>1, Zenon DEF RecordFailure
                <5>2. Abstract!Failure
                    BY <3>4, <4>2, <5>1, StreakFactsPrime DEF Abstract!Failure
                <5> QED BY <5>2 DEF Abstract!Next
            <4>3. CASE ~(Streak + 1 >= FailureThreshold)
                <5>1. failures' = failures + 1 /\ ~(failures' >= FailureThreshold)
                    BY <2>5, <4>1, <4>3, <1>a, BumpFacts, ConfigAssumption
                    DEF RecordFailure, TypeOK
                <5>2. UNCHANGED <<circuit, elapsed>>
                    BY <2>5, <3>4, <5>1, Zenon DEF RecordFailure
                <5>3. Streak' = Streak + 1 /\ Streak + 1 < FailureThreshold
                    BY <3>4, <4>1, <4>3, <5>1, <5>2, <1>a, ConfigAssumption,
                       StreakFactsPrime DEF TypeOK
                <5>4. Abstract!Failure
                    BY <3>4, <5>2, <5>3 DEF Abstract!Failure
                <5> QED BY <5>4 DEF Abstract!Next
            <4> QED BY <4>2, <4>3
        <3> QED BY <3>2, <3>3, <3>4, <1>a DEF TypeOK, Circuits
    <2> QED BY <1>3, <2>1, <2>2, <2>3, <2>4, <2>5 DEF CallStep
<1>4. ASSUME NEW t \in Tasks, ResetStep(t)
      PROVE  Abstract!Next \/ UNCHANGED Abstract!vars
    <2>1. CASE StartReset(t) \/ LockStateForReset(t)
        <3>1. TrialStarting' <=> TrialStarting
            BY <2>1, <1>a, TrialStartingKept DEF StartReset, LockStateForReset
        <3>2. UNCHANGED <<circuit, elapsed, failures, successes>>
            BY <2>1 DEF StartReset, LockStateForReset
        <3> QED BY <3>1, <3>2, Invisible
    <2>2. CASE ResetCircuit(t)
        <3>1. circuit' = "closed" /\ elapsed' = FALSE /\ Streak' = 0
            BY <2>2, StreakFactsPrime DEF ResetCircuit
        <3>2. Abstract!Reset
            BY <3>1 DEF Abstract!Reset
        <3> QED BY <3>2 DEF Abstract!Next
    <2> QED BY <1>4, <2>1, <2>2 DEF ResetStep
<1> QED BY <1>1, <1>2, <1>3, <1>4 DEF Next

\* The gateway's breaker keeps its documented promise for every number of
\* concurrent requests and every configuration (breaker.rs:8-13).
THEOREM Refinement == Spec => BreakerRefinement
<1>1. Init => Abstract!Init
    BY StreakFacts DEF Init, Abstract!Init
<1>2. IInv /\ [Next]_vars => [Abstract!Next]_(Abstract!vars)
    BY StepRefines
<1> QED BY <1>1, <1>2, Invariance, PTL DEF Spec, BreakerRefinement, Abstract!Spec

-----------------------------------------------------------------------------
(* The breaker under the request timeout *)


\* A request is pending exactly while its task is in the breaker.
PendingInBreaker == \A t \in Tasks : reply[t] = "pending" <=> pc[t] # "idle"

\* The breaker's own failure count is the number of failures in a row since the
\* circuit closed, as long as it is closed.
CountsInRow == circuit = "closed" => failures = inRow

\* The inductive invariant.  It is the breaker's own without the half of
\* BelowThresholds that a dropped trial breaks.
RequestIInv ==
    /\ RequestTypeOK
    /\ HeldBetweenLocks
    /\ TrialIsExclusive
    /\ PendingInBreaker
    /\ CountsInRow

\* The initial state satisfies it.
LEMMA RequestInitIInv == RequestInit => RequestIInv
<1> SUFFICES ASSUME RequestInit PROVE RequestIInv
    OBVIOUS
<1>1. IInv
    BY InitIInv DEF RequestInit
<1>2. reply \in [Tasks -> Replies] /\ PendingInBreaker
    BY DEF RequestInit, Init, Replies, PendingInBreaker
<1>3. inRow \in 0..FailureThreshold \cup 0..SuccessThreshold
    BY ConfigAssumption DEF RequestInit
<1>4. CountsInRow
    BY DEF RequestInit, Init, CountsInRow
<1> QED BY <1>1, <1>2, <1>3, <1>4 DEF RequestIInv, RequestTypeOK, IInv

\* What a step of the call and an answer do to the place of the request.
LEMMA AnswerKeepsPending ==
    ASSUME RequestTypeOK, PendingInBreaker, NEW t \in Tasks,
           NEW place \in Suspensions, NEW r \in Replies,
           Goto(t, place), Answer(t, r), place = "idle" <=> r # "pending"
    PROVE  PendingInBreaker' /\ reply' \in [Tasks -> Replies]
    BY DEF RequestTypeOK, TypeOK, PendingInBreaker, Goto, Answer
LEMMA MoveKeepsPending ==
    ASSUME RequestTypeOK, PendingInBreaker, NEW t \in Tasks,
           NEW place \in Suspensions, Goto(t, place), UNCHANGED reply,
           place # "idle", pc[t] # "idle"
    PROVE  PendingInBreaker' /\ reply' \in [Tasks -> Replies]
    BY DEF RequestTypeOK, TypeOK, PendingInBreaker, Goto

\* Dropping a request releases its guards and nobody else's, and ends no other
\* task's turn between two locks (gateway.rs:35-51).
LEMMA DropKeepsLocks ==
    ASSUME RequestIInv, NEW t \in Tasks, RequestTimesOut(t)
    PROVE  /\ TypeOK'
           /\ HeldBetweenLocks'
           /\ TrialIsExclusive'
<1> USE DEF RequestTimesOut, Goto, Counters
<1>a. TypeOK /\ HeldBetweenLocks /\ TrialIsExclusive
    BY DEF RequestIInv, RequestTypeOK
<1>1. TypeOK'
    BY <1>a DEF TypeOK, Suspensions
<1>2. ASSUME NEW u \in Tasks
      PROVE  /\ stateLock' = u <=> pc'[u] \in {"gate_stats", "reset_stats"}
             /\ statsLock' = u <=> pc'[u] \in {"ok_state", "err_state"}
    BY <1>a, ConfigAssumption DEF TypeOK, HeldBetweenLocks
<1>3. HeldBetweenLocks'
    BY <1>2 DEF HeldBetweenLocks
<1>4. TrialStarting' => TrialStarting /\ stateLock' # NoTask
    BY <1>a, <1>3, ConfigAssumption DEF TypeOK, TrialStarting, HeldBetweenLocks
<1> QED BY <1>1, <1>3, <1>4, <1>a DEF TrialIsExclusive

\* A step of the breaker keeps TrialIsExclusive, whatever the counters are.
LEMMA CallKeepsExclusive ==
    ASSUME TypeOK, HeldBetweenLocks, TrialIsExclusive,
           NEW t \in Tasks, CallStep(t)
    PROVE  TrialIsExclusive'
<1> USE DEF Counters
<1>b. TypeOK' /\ HeldBetweenLocks'
    BY TypeStep, LockStep DEF Next
<1>0. TrialStarting' => stateLock' # NoTask
    BY <1>b, ConfigAssumption DEF TypeOK, HeldBetweenLocks, TrialStarting
<1>1. CASE StartCall(t) \/ Admit(t) \/ Reject(t) \/ OperationReturns(t)
           \/ LockStats(t)
    <2>1. TrialStarting' <=> TrialStarting
        BY <1>1, TrialStartingKept
        DEF StartCall, Admit, Reject, OperationReturns, LockStats
    <2> QED BY <1>1, <2>1, <1>0
        DEF StartCall, Admit, Reject, OperationReturns, LockStats, TrialIsExclusive
<1>2. CASE BeginTrial(t)
    BY <1>2, <1>0 DEF BeginTrial, TrialIsExclusive
<1>3. CASE ClearCounters(t) \/ RecordSuccess(t) \/ RecordFailure(t)
    BY <1>3, <1>0 DEF ClearCounters, RecordSuccess, RecordFailure, TrialIsExclusive
<1> QED BY <1>1, <1>2, <1>3 DEF CallStep

\* A step of the call itself, with the answer and the history it leaves.
LEMMA CallStepKeepsIInv ==
    ASSUME RequestIInv, NEW t \in Tasks,
           Arrive(t) \/ CallGoesOn(t) \/ CallEnds(t)
    PROVE  RequestIInv'
<1> USE DEF Counters
<1>a. TypeOK /\ HeldBetweenLocks /\ TrialIsExclusive /\ PendingInBreaker
    BY DEF RequestIInv, RequestTypeOK
<1>b. RequestTypeOK /\ CountsInRow
    BY DEF RequestIInv
<1>c. CallStep(t)
    BY DEF Arrive, CallGoesOn, CallEnds, CallStep
<1>1. TypeOK' /\ HeldBetweenLocks' /\ TrialIsExclusive'
    BY <1>a, <1>c, TypeStep, LockStep, CallKeepsExclusive DEF Next
<1>2. ASSUME reply' \in [Tasks -> Replies], PendingInBreaker',
             inRow' \in 0..FailureThreshold \cup 0..SuccessThreshold, CountsInRow'
      PROVE  RequestIInv'
    BY <1>1, <1>2 DEF RequestIInv, RequestTypeOK
<1>3. CASE Arrive(t)
    <2>1. PendingInBreaker' /\ reply' \in [Tasks -> Replies]
        BY <1>3, <1>a, <1>b, AnswerKeepsPending
        DEF Arrive, StartCall, Suspensions, Replies
    <2>2. inRow' = inRow /\ circuit' = circuit /\ failures' = failures
        BY <1>3 DEF Arrive, StartCall
    <2> QED BY <2>1, <2>2, <1>2, <1>b DEF RequestTypeOK, CountsInRow
<1>4. CASE CallGoesOn(t)
    <2>1. CASE BeginTrial(t) /\ inRow' = 0 /\ UNCHANGED reply
        <3>1. PendingInBreaker' /\ reply' \in [Tasks -> Replies]
            BY <2>1, <1>a, <1>b, MoveKeepsPending DEF BeginTrial, Suspensions
        <3>2. circuit' = "half_open"
            BY <2>1 DEF BeginTrial
        <3> QED BY <2>1, <3>1, <3>2, <1>2, ConfigAssumption DEF CountsInRow
    <2>2. CASE (Admit(t) \/ OperationReturns(t) \/ LockStats(t))
               /\ UNCHANGED <<inRow, reply>>
        <3>1. PendingInBreaker' /\ reply' \in [Tasks -> Replies]
            BY <2>2, <1>a, <1>b, MoveKeepsPending
            DEF Admit, OperationReturns, LockStats, Suspensions
        <3>2. inRow' = inRow /\ circuit' = circuit /\ failures' = failures
            BY <2>2 DEF Admit, OperationReturns, LockStats
        <3> QED BY <3>1, <3>2, <1>2, <1>b DEF RequestTypeOK, CountsInRow
    <2>3. CASE ClearCounters(t) /\ UNCHANGED <<inRow, reply>>
        <3>1. PendingInBreaker' /\ reply' \in [Tasks -> Replies]
            BY <2>3, <1>a, <1>b, MoveKeepsPending DEF ClearCounters, Suspensions
        <3>2. circuit' = "half_open"
            BY <2>3, <1>a DEF ClearCounters, TrialIsExclusive, TrialStarting
        <3> QED BY <2>3, <3>1, <3>2, <1>2, <1>b DEF RequestTypeOK, CountsInRow
    <2> QED BY <1>4, <2>1, <2>2, <2>3 DEF CallGoesOn
<1>5. CASE CallEnds(t)
    <2>1. PendingInBreaker' /\ reply' \in [Tasks -> Replies]
        BY <1>5, <1>a, <1>b, AnswerKeepsPending
        DEF CallEnds, Reject, RecordSuccess, RecordFailure, Suspensions, Replies
    <2>2. CASE Reject(t) /\ UNCHANGED inRow
        BY <2>1, <2>2, <1>2, <1>b DEF Reject, RequestTypeOK, CountsInRow
    <2>3. CASE RecordSuccess(t) /\ CountSuccess
        <3>1. inRow' \in 0..FailureThreshold \cup 0..SuccessThreshold
            BY <2>3, <1>b, ConfigAssumption DEF CountSuccess, RequestTypeOK, Bump
        <3>2. circuit' = "closed" => failures' = 0 /\ inRow' = 0
            BY <2>3 DEF RecordSuccess, CountSuccess
        <3> QED BY <2>1, <3>1, <3>2, <1>2 DEF CountsInRow
    <2>4. CASE RecordFailure(t) /\ CountFailure
        <3>1. inRow' \in 0..FailureThreshold \cup 0..SuccessThreshold
            BY <2>4, <1>b, ConfigAssumption DEF CountFailure, RequestTypeOK, Bump
        <3>2. circuit' = "closed" => circuit = "closed"
            BY <2>4 DEF RecordFailure
        <3>3. circuit' = "closed" => failures' = inRow'
            BY <2>4, <3>2, <1>b DEF RecordFailure, CountFailure, CountsInRow
        <3> QED BY <2>1, <3>1, <3>3, <1>2 DEF CountsInRow
    <2> QED BY <1>5, <2>2, <2>3, <2>4 DEF CallEnds
<1> QED BY <1>3, <1>4, <1>5

\* Every step of the gateway keeps the invariant.
LEMMA RequestStepKeepsIInv ==
    RequestIInv /\ [RequestNext]_requestVars => RequestIInv'
<1> SUFFICES ASSUME RequestIInv, [RequestNext]_requestVars PROVE RequestIInv'
    OBVIOUS
<1> USE DEF RequestIInv, RequestTypeOK
<1>1. CASE UNCHANGED requestVars
    BY <1>1 DEF requestVars, vars, TypeOK, HeldBetweenLocks, TrialIsExclusive,
       TrialStarting, PendingInBreaker, CountsInRow
<1>2. CASE TimeoutElapses /\ UNCHANGED <<reply, inRow>>
    <2>1. TypeOK' /\ HeldBetweenLocks'
        BY <1>2, TypeStep, LockStep DEF Next
    <2>2. UNCHANGED <<circuit, failures, stateLock, pc>>
        BY <1>2 DEF TimeoutElapses, Counters, Locks
    <2> QED BY <1>2, <2>1, <2>2
        DEF TrialIsExclusive, TrialStarting, PendingInBreaker, CountsInRow
<1>3. ASSUME NEW t \in Tasks, Handle(t) PROVE RequestIInv'
    <2>1. CASE Arrive(t) \/ CallGoesOn(t) \/ CallEnds(t)
        BY <2>1, CallStepKeepsIInv
    <2>2. CASE Refuse(t)
        BY <2>2 DEF Refuse, Answer, Replies, vars, TypeOK, HeldBetweenLocks,
           TrialIsExclusive, TrialStarting, PendingInBreaker, CountsInRow
    <2>3. CASE RequestTimesOut(t)
        <3>1. PendingInBreaker' /\ reply' \in [Tasks -> Replies]
            BY <2>3, AnswerKeepsPending DEF RequestTimesOut, Suspensions, Replies
        <3>2. inRow' = inRow /\ circuit' = circuit /\ failures' = failures
            BY <2>3 DEF RequestTimesOut, Counters
        <3> QED BY <2>3, <3>1, <3>2, DropKeepsLocks DEF CountsInRow
    <2> QED BY <1>3, <2>1, <2>2, <2>3 DEF Handle
<1> QED BY <1>1, <1>2, <1>3 DEF RequestNext

-----------------------------------------------------------------------------

\* The invariant holds throughout (gateway.rs:23-68 around breaker.rs:49-166).
THEOREM RequestInvariance == RequestSpec => []RequestIInv
<1> QED BY RequestInitIInv, RequestStepKeepsIInv, PTL DEF RequestSpec

\* Type correctness of the handler around the breaker.
THEOREM RequestTypeCorrect == RequestSpec => []RequestTypeOK
<1>1. RequestIInv => RequestTypeOK
    BY DEF RequestIInv
<1> QED BY <1>1, RequestInvariance, PTL

\* An answered request, dropped ones included, holds no lock of the breaker.
THEOREM NoGuardLeaks == RequestSpec => []AnsweredHoldsNothing
<1>1. RequestIInv => AnsweredHoldsNothing
    BY DEF RequestIInv, PendingInBreaker, AnsweredHoldsNothing, HeldBetweenLocks
<1> QED BY <1>1, RequestInvariance, PTL

\* Only a recorded failure opens a closed circuit, and its count is the number
\* of failures in a row.
LEMMA OpeningStep ==
    RequestIInv /\ [RequestNext]_requestVars =>
        (circuit = "closed" /\ circuit' = "open" => inRow + 1 >= FailureThreshold)
<1> SUFFICES ASSUME RequestIInv, [RequestNext]_requestVars,
                    circuit = "closed", circuit' = "open"
             PROVE  inRow + 1 >= FailureThreshold
    OBVIOUS
<1>1. PICK t \in Tasks : RecordFailure(t)
    <2>1. ~UNCHANGED requestVars
        BY DEF requestVars, vars
    <2>2. ~TimeoutElapses
        BY DEF TimeoutElapses
    <2>3. PICK t \in Tasks : Handle(t)
        BY <2>1, <2>2 DEF RequestNext
    <2> QED BY <2>3
        DEF Handle, Arrive, StartCall, Refuse, CallGoesOn, CallEnds, Admit,
            BeginTrial, ClearCounters, OperationReturns, LockStats, Reject,
            RecordSuccess, RequestTimesOut, vars
<1>2. Bump(failures, FailureThreshold) >= FailureThreshold
    BY <1>1 DEF RecordFailure
<1>3. failures + 1 >= FailureThreshold
    BY <1>2, BumpFacts, ConfigAssumption DEF RequestIInv, RequestTypeOK, TypeOK
<1> QED BY <1>3 DEF RequestIInv, CountsInRow

\* A closed circuit opens only after failure_threshold failures in a row,
\* whatever requests time out in between (circuit_breaker/types.rs:18).
THEOREM OpensOnlyOnThreshold == RequestSpec => OpensOnThreshold
<1> QED BY RequestInvariance, OpeningStep, PTL DEF RequestSpec, OpensOnThreshold

-----------------------------------------------------------------------------
(* The routing table: the operators on lists *)

\* How many of the places are up to this one.
Rank(places, k) == Cardinality({j \in places : j <= k})

\* The places of a list are numbered by their rank, without a gap.
LEMMA Ranks ==
    ASSUME NEW len \in Nat, NEW places \in SUBSET (1..len)
    PROVE  /\ Cardinality(places) \in Nat
           /\ \A k \in places : Rank(places, k) \in 1..Cardinality(places)
           /\ \A j, k \in places : j < k => Rank(places, j) < Rank(places, k)
           /\ \A n \in 1..Cardinality(places) : \E k \in places : Rank(places, k) = n
<1> DEFINE UpTo(k) == {j \in places : j <= k}
           size == Cardinality(places)
           rank == [k \in places |-> Cardinality(UpTo(k))]
           used == {rank[k] : k \in places}
<1>0. \A k \in places : k \in Int
    OBVIOUS
<1>1. IsFiniteSet(places) /\ size \in Nat
  <2>1. IsFiniteSet(1..len)
    BY FS_Interval
  <2> QED BY <2>1, FS_Subset, FS_CardinalityType
<1>2. ASSUME NEW k \in places PROVE rank[k] \in 1..size
  <2>1. UpTo(k) \in SUBSET places
    OBVIOUS
  <2>2. IsFiniteSet(UpTo(k)) /\ Cardinality(UpTo(k)) <= size
    BY <1>1, <2>1, FS_Subset
  <2>3. Cardinality(UpTo(k)) \in Nat
    BY <2>2, FS_CardinalityType
  <2>4. k \in UpTo(k)
    OBVIOUS
  <2>5. Cardinality(UpTo(k)) # 0
    BY <2>2, <2>4, FS_EmptySet
  <2> HIDE DEF UpTo, size
  <2> QED BY <1>1, <2>2, <2>3, <2>5
<1>3. ASSUME NEW j \in places, NEW k \in places, j < k PROVE rank[j] < rank[k]
  <2>1. UpTo(j) \in SUBSET UpTo(k) /\ k \in UpTo(k) /\ k \notin UpTo(j)
    <3>1. \A i \in places : i <= j => i <= k
        BY <1>0, <1>3
    <3>2. k <= k /\ ~(k <= j)
        BY <1>0, <1>3
    <3> HIDE DEF rank, used, size
    <3> QED BY <3>1, <3>2
  <2>2. IsFiniteSet(UpTo(k))
    BY <1>1, FS_Subset
  <2>3. Cardinality(UpTo(j)) <= Cardinality(UpTo(k)) /\ Cardinality(UpTo(j)) # Cardinality(UpTo(k))
    BY <2>1, <2>2, FS_Subset
  <2>4. rank[j] = Cardinality(UpTo(j)) /\ rank[k] = Cardinality(UpTo(k))
    OBVIOUS
  <2>5. rank[j] \in Int /\ rank[k] \in Int
    BY <1>2
  <2> HIDE DEF UpTo, rank
  <2> QED BY <2>3, <2>4, <2>5
<1>4. used = 1..size
  <2>1. \A j, k \in places : rank[j] = rank[k] => j = k
    <3> SUFFICES ASSUME NEW j \in places, NEW k \in places, j # k PROVE rank[j] # rank[k]
        OBVIOUS
    <3>1. j < k \/ k < j
        OBVIOUS
    <3>2. rank[j] \in Int /\ rank[k] \in Int
        BY <1>2
    <3> HIDE DEF rank
    <3> QED BY <1>3, <3>1, <3>2
  <2>2. rank \in [places -> used] /\ \A n \in used : \E k \in places : rank[k] = n
    OBVIOUS
  <2> HIDE DEF rank, used
  <2>3. ExistsBijection(places, used)
    BY <2>1, <2>2, Zenon DEF ExistsBijection, Bijection, Injection, Surjection, IsInjective
  <2>4. Cardinality(used) = size
    BY <1>1, <2>3, FS_Bijection
  <2>5. used \in SUBSET (1..size)
    BY <1>2 DEF used
  <2>6. IsFiniteSet(1..size) /\ Cardinality(1..size) = size
    BY <1>1, FS_Interval
  <2> QED BY <2>4, <2>5, <2>6, FS_Subset
<1>5. \A k \in places : rank[k] = Rank(places, k)
    BY DEF Rank
<1>6. ASSUME NEW n \in 1..size PROVE \E k \in places : rank[k] = n
    BY <1>4, <1>6
<1> HIDE DEF rank, used, UpTo
<1> QED BY <1>1, <1>2, <1>3, <1>5, <1>6

\* Of the places from which something can be chosen there is a first one.
LEMMA FirstPlace ==
    ASSUME NEW len \in Nat, NEW places \in SUBSET (1..len), places # {}
    PROVE  \E k \in places : \A j \in places : k <= j
<1>1. IsFiniteSet(places)
  <2>1. IsFiniteSet(1..len)
    BY FS_Interval
  <2> QED BY <2>1, FS_Subset
<1>2. Cardinality(places) \in Nat \ {0}
    BY <1>1, FS_CardinalityType, FS_EmptySet
<1>3. PICK k \in places : Rank(places, k) = 1
  <2>1. 1 \in 1..Cardinality(places)
    BY <1>2
  <2> QED BY <2>1, Ranks
<1>4. ASSUME NEW j \in places PROVE k <= j
  <2>1. Rank(places, j) \in 1..Cardinality(places)
        /\ (j < k => Rank(places, j) < Rank(places, k))
    BY Ranks
  <2>2. j \in Int /\ k \in Int
    OBVIOUS
  <2> QED BY <1>2, <1>3, <2>1, <2>2
<1> QED BY <1>4

\* A part of a list is a list of the same things.
LEMMA KeptIsList ==
    ASSUME NEW S, NEW list \in Seq(S), NEW places \in SUBSET DOMAIN list
    PROVE  Kept(list, places) \in Seq(S)
<1> DEFINE size == Cardinality(places)
           Place(n) == CHOOSE k \in places : Cardinality({j \in places : j <= k}) = n
<1>1. Len(list) \in Nat /\ DOMAIN list = 1..Len(list)
    OBVIOUS
<1>2. size \in Nat
    BY <1>1, Ranks
<1>3. ASSUME NEW n \in 1..size PROVE list[Place(n)] \in S
  <2>1. \E k \in places : Cardinality({j \in places : j <= k}) = n
    BY <1>1, <1>3, Ranks DEF Rank
  <2>2. Place(n) \in places
    BY <2>1
  <2> QED BY <1>1, <2>2
<1>4. Kept(list, places) = [n \in 1..size |-> list[Place(n)]]
    BY DEF Kept
<1> HIDE DEF size, Place
<1> QED BY <1>2, <1>3, <1>4

\* Each place that is kept is found again at its rank, and nothing else is there.
LEMMA KeptInOrder ==
    ASSUME NEW S, NEW list \in Seq(S), NEW places \in SUBSET DOMAIN list
    PROVE  /\ DOMAIN Kept(list, places) = 1..Cardinality(places)
           /\ \A k \in places : /\ Rank(places, k) \in DOMAIN Kept(list, places)
                                /\ Kept(list, places)[Rank(places, k)] = list[k]
           /\ \A n \in DOMAIN Kept(list, places) :
                  \E k \in places : Rank(places, k) = n /\ Kept(list, places)[n] = list[k]
<1> DEFINE size == Cardinality(places)
           Place(n) == CHOOSE k \in places : Cardinality({j \in places : j <= k}) = n
<1>1. Len(list) \in Nat /\ DOMAIN list = 1..Len(list)
    OBVIOUS
<1>2. /\ \A k \in places : Rank(places, k) \in 1..size /\ k \in Int
      /\ \A j, k \in places : j < k => Rank(places, j) < Rank(places, k)
      /\ \A n \in 1..size : \E k \in places : Rank(places, k) = n
  <2>1. \A k \in places : k \in Int
    BY <1>1
  <2> HIDE DEF Place
  <2> QED BY <1>1, <2>1, Ranks
<1>3. \A n : Place(n) = CHOOSE k \in places : Rank(places, k) = n
    BY DEF Rank
<1>4. Kept(list, places) = [n \in 1..size |-> list[Place(n)]]
    BY DEF Kept
<1> HIDE DEF size, Place
<1>5. ASSUME NEW n \in 1..size PROVE Place(n) \in places /\ Rank(places, Place(n)) = n
    BY <1>2, <1>3
<1>6. ASSUME NEW k \in places PROVE Place(Rank(places, k)) = k
  <2>1. PICK n, j : n = Rank(places, k) /\ j = Place(n)
    OBVIOUS
  <2>2. j \in places /\ Rank(places, j) = n /\ n \in 1..size
    BY <1>2, <1>5, <2>1
  <2>3. j \in Int /\ k \in Int /\ ~(j < k) /\ ~(k < j)
    <3>1. j < k => n < n
        BY <1>2, <2>1, <2>2
    <3>2. k < j => n < n
        BY <1>2, <2>1, <2>2
    <3>3. n \in Int /\ j \in Int /\ k \in Int
        BY <1>2, <2>2
    <3> QED BY <3>1, <3>2, <3>3
  <2> QED BY <2>1, <2>3
<1>7. DOMAIN Kept(list, places) = 1..size
    BY <1>4
<1>8. ASSUME NEW k \in places
      PROVE  /\ Rank(places, k) \in DOMAIN Kept(list, places)
             /\ Kept(list, places)[Rank(places, k)] = list[k]
    BY <1>2, <1>4, <1>6, <1>7
<1>9. ASSUME NEW n \in DOMAIN Kept(list, places)
      PROVE  \E k \in places : Rank(places, k) = n /\ Kept(list, places)[n] = list[k]
    BY <1>4, <1>5, <1>7
<1> QED BY <1>7, <1>8, <1>9 DEF size

\* SetToSeq lists a finite set.
LEMMA SetIsListed ==
    ASSUME NEW S, IsFiniteSet(S) PROVE SetToSeq(S) \in Seq(S)
<1>1. Cardinality(S) \in Nat /\ ExistsBijection(1..Cardinality(S), S)
    BY FS_CardinalityType
<1>2. PICK f \in [1..Cardinality(S) -> S] : IsInjective(f)
    BY <1>1 DEF ExistsBijection, Bijection, Injection, IsInjective
<1>3. SetToSeq(S) \in [1..Cardinality(S) -> S]
    BY <1>2 DEF SetToSeq
<1> QED BY <1>1, <1>3

-----------------------------------------------------------------------------
(* The routing table: what goes into it *)

LEMMA AddedToList ==
    ASSUME NEW S, NEW a \in Seq(S), NEW b \in Seq(S) PROVE a \o b \in Seq(S)
OBVIOUS

\* The routes of a service (discover_routes_from_grpc_services).
LEMMA ServiceRoutesAreRoutes ==
    ASSUME RoutesTypeOK, NEW s \in Services
    PROVE  ServiceRoutes(s) \in Seq(RouteConfigs)
<1> DEFINE ms == SetToSeq(Mapped(s))
<1>1. Mapped(s) \subseteq RpcMethods /\ \A m \in Mapped(s) : Pattern[m] # Absent
    BY DEF Mapped, RoutesTypeOK
<1>2. IsFiniteSet(Mapped(s))
    BY <1>1, FS_Subset, RoutesAssumption
<1>3. ms \in Seq(Mapped(s))
    BY <1>2, SetIsListed
<1>4. ServiceRoutes(s) =
        [k \in DOMAIN ms |-> [path |-> Pattern[ms[k]], service |-> s, method |-> ms[k]]]
    BY DEF ServiceRoutes
<1> HIDE DEF ms
<1>5. DOMAIN ms = 1..Len(ms) /\ Len(ms) \in Nat /\ \A k \in DOMAIN ms : ms[k] \in Mapped(s)
    BY <1>3
<1>6. ASSUME NEW m \in Mapped(s)
      PROVE  [path |-> Pattern[m], service |-> s, method |-> m] \in RouteConfigs
    BY <1>1 DEF RouteConfigs, Paths
<1>7. ServiceRoutes(s) \in [1..Len(ms) -> RouteConfigs]
    BY <1>4, <1>5, <1>6
<1> QED BY <1>5, <1>7

\* The overrides (apply_overrides).
LEMMA OverriddenAreRoutes ==
    ASSUME NEW found \in Seq(RouteConfigs)
    PROVE  Overridden(found) \in Seq(RouteConfigs)
<1> DEFINE seen == {found[k].method : k \in DOMAIN found}
           added == SetToSeq(DOMAIN Overrides \ seen)
           changed == [k \in DOMAIN found |->
                          IF found[k].method \in DOMAIN Overrides
                          THEN [found[k] EXCEPT !.path = Overrides[found[k].method].path]
                          ELSE found[k]]
           new == [k \in DOMAIN added |->
                      [path |-> Overrides[added[k]].path,
                       service |-> Overrides[added[k]].service, method |-> added[k]]]
<1>1. Overridden(found) = changed \o new
    BY DEF Overridden
<1>2. changed \in Seq(RouteConfigs)
  <2>1. ASSUME NEW route \in RouteConfigs, route.method \in DOMAIN Overrides
        PROVE  [route EXCEPT !.path = Overrides[route.method].path] \in RouteConfigs
    BY <2>1, RoutesAssumption DEF RouteConfigs, Paths
  <2>2. DOMAIN found = 1..Len(found) /\ Len(found) \in Nat
        /\ \A k \in DOMAIN found : found[k] \in RouteConfigs
    OBVIOUS
  <2>3. changed \in [1..Len(found) -> RouteConfigs]
    BY <2>1, <2>2
  <2> HIDE DEF changed
  <2> QED BY <2>2, <2>3
<1>3. new \in Seq(RouteConfigs)
  <2>1. DOMAIN Overrides \ seen \subseteq RpcMethods
    BY RoutesAssumption
  <2>2. IsFiniteSet(DOMAIN Overrides \ seen)
    BY <2>1, FS_Subset, RoutesAssumption
  <2>3. added \in Seq(DOMAIN Overrides \ seen)
    BY <2>2, SetIsListed
  <2> HIDE DEF seen, added
  <2>4. /\ DOMAIN added = 1..Len(added) /\ Len(added) \in Nat
        /\ \A k \in DOMAIN added : added[k] \in DOMAIN Overrides
    BY <2>3
  <2>5. ASSUME NEW m \in DOMAIN Overrides
        PROVE  [path |-> Overrides[m].path, service |-> Overrides[m].service, method |-> m]
                  \in RouteConfigs
    BY RoutesAssumption DEF RouteConfigs, Paths, Services
  <2>6. new \in [1..Len(added) -> RouteConfigs]
    BY <2>4, <2>5
  <2> HIDE DEF new
  <2> QED BY <2>4, <2>6
<1> HIDE DEF changed, new
<1> QED BY <1>1, <1>2, <1>3

\* One route of a path (deduplicate_routes), the routes of a service
\* (get_routes_for_service).
LEMMA FewerRoutes ==
    /\ \A found \in Seq(RouteConfigs) : Deduplicated(found) \in Seq(RouteConfigs)
    /\ table \in Seq(RouteConfigs) => \A s : GetRoutesForService(s) \in Seq(RouteConfigs)
<1>1. ASSUME NEW found \in Seq(RouteConfigs)
      PROVE  Deduplicated(found) \in Seq(RouteConfigs)
  <2> DEFINE first == {k \in DOMAIN found : \A j \in 1..(k - 1) : found[j].path # found[k].path}
  <2>1. first \in SUBSET DOMAIN found
    OBVIOUS
  <2>2. Deduplicated(found) = Kept(found, first)
    BY DEF Deduplicated
  <2> HIDE DEF first
  <2> QED BY <2>1, <2>2, KeptIsList
<1>2. ASSUME table \in Seq(RouteConfigs), NEW s
      PROVE  GetRoutesForService(s) \in Seq(RouteConfigs)
  <2> DEFINE its == {k \in DOMAIN table : table[k].service = s}
  <2>1. its \in SUBSET DOMAIN table
    OBVIOUS
  <2>2. GetRoutesForService(s) = Kept(table, its)
    BY DEF GetRoutesForService
  <2> HIDE DEF its
  <2> QED BY <1>2, <2>1, <2>2, KeptIsList
<1> QED BY <1>1, <1>2

\* deduplicate_routes: of the routes of one path the first one stays, and no
\* other route goes; so which service a path leads to follows from the order in
\* which the services are asked (discovery/validator.rs).
THEOREM FirstRouteOfPathStays ==
    \A found \in Seq(RouteConfigs) :
        LET kept == Deduplicated(found) IN
        /\ \A m, n \in DOMAIN kept : kept[m].path = kept[n].path => m = n
        /\ \A k \in DOMAIN found : \E n \in DOMAIN kept :
               /\ kept[n].path = found[k].path
               /\ \E j \in 1..k : /\ kept[n] = found[j]
                                  /\ \A i \in 1..(j - 1) : found[i].path # found[k].path
<1> SUFFICES ASSUME NEW found \in Seq(RouteConfigs)
             PROVE  LET kept == Deduplicated(found) IN
                    /\ \A m, n \in DOMAIN kept : kept[m].path = kept[n].path => m = n
                    /\ \A k \in DOMAIN found : \E n \in DOMAIN kept :
                           /\ kept[n].path = found[k].path
                           /\ \E j \in 1..k :
                                  /\ kept[n] = found[j]
                                  /\ \A i \in 1..(j - 1) : found[i].path # found[k].path
    OBVIOUS
<1> DEFINE first == {k \in DOMAIN found : \A j \in 1..(k - 1) : found[j].path # found[k].path}
           kept == Deduplicated(found)
<1>1. Len(found) \in Nat /\ DOMAIN found = 1..Len(found)
    OBVIOUS
<1>2. first \in SUBSET DOMAIN found /\ kept = Kept(found, first)
    BY DEF Deduplicated
<1>3. \A j, k \in first : found[j].path = found[k].path => j = k
  <2> SUFFICES ASSUME NEW j \in first, NEW k \in first, j < k
               PROVE  found[j].path # found[k].path
    BY <1>1, <1>2
  <2>1. j \in 1..(k - 1)
    BY <1>1, <1>2
  <2> QED BY <2>1
<1>4. ASSUME NEW k \in DOMAIN found
      PROVE  \E j \in first : j \in 1..k /\ found[j].path = found[k].path
  <2> DEFINE same == {j \in DOMAIN found : found[j].path = found[k].path}
  <2>1. same \in SUBSET (1..Len(found)) /\ k \in same
    BY <1>1
  <2>2. PICK j \in same : \A i \in same : j <= i
    BY <1>1, <2>1, FirstPlace
  <2>3. j \in 1..k /\ j \in DOMAIN found /\ found[j].path = found[k].path
    BY <1>1, <2>1, <2>2
  <2>4. ASSUME NEW i \in 1..(j - 1) PROVE found[i].path # found[j].path
    BY <1>1, <2>2, <2>3
  <2> QED BY <2>3, <2>4
<1>5. \A j \in first : \A i \in 1..(j - 1) : found[i].path # found[j].path
    OBVIOUS
<1> HIDE DEF first, kept
<1>6. ASSUME NEW m \in DOMAIN kept, NEW n \in DOMAIN kept, kept[m].path = kept[n].path
      PROVE  m = n
  <2>1. PICK j \in first : Rank(first, j) = m /\ kept[m] = found[j]
    BY <1>2, KeptInOrder
  <2>2. PICK k \in first : Rank(first, k) = n /\ kept[n] = found[k]
    BY <1>2, KeptInOrder
  <2> QED BY <1>3, <1>6, <2>1, <2>2
<1>7. ASSUME NEW k \in DOMAIN found
      PROVE  \E n \in DOMAIN kept :
                 /\ kept[n].path = found[k].path
                 /\ \E j \in 1..k : /\ kept[n] = found[j]
                                    /\ \A i \in 1..(j - 1) : found[i].path # found[k].path
  <2>1. PICK j \in first : j \in 1..k /\ found[j].path = found[k].path
    BY <1>4
  <2>2. Rank(first, j) \in DOMAIN kept /\ kept[Rank(first, j)] = found[j]
    BY <1>2, KeptInOrder
  <2>3. \A i \in 1..(j - 1) : found[i].path # found[k].path
    BY <1>5, <2>1
  <2> QED BY <2>1, <2>2, <2>3
<1> QED BY <1>6, <1>7 DEF kept

\* A path leads to a route of the table with that path, or to none (route).
LEMMA RouteOfPath ==
    ASSUME table \in Seq(RouteConfigs), NEW path, Route(path) # Absent
    PROVE  Route(path) \in RouteConfigs /\ Route(path).path = path
<1> DEFINE K == {k \in DOMAIN table : table[k].path = path}
           Which(k) == \A j \in K : IF path \in Static THEN j <= k ELSE k <= j
<1>1. Route(path) = IF K = {} THEN Absent ELSE table[CHOOSE k \in K : Which(k)]
    BY DEF Route
<1>2. K # {}
    BY <1>1
<1>3. Len(table) \in Nat /\ DOMAIN table = 1..Len(table)
    OBVIOUS
<1>4. K \in SUBSET (1..Len(table)) /\ \A k \in K : k \in Int
    BY <1>3
<1>5. IsFiniteSet(K)
  <2>1. IsFiniteSet(1..Len(table))
    BY <1>3, FS_Interval
  <2> QED BY <1>4, <2>1, FS_Subset
<1> DEFINE n == Cardinality(K)
<1>6. n \in Nat /\ n # 0
    BY <1>2, <1>5, FS_CardinalityType, FS_EmptySet
<1>7. /\ \A k \in K : Rank(K, k) \in 1..n
      /\ \A j, k \in K : j < k => Rank(K, j) < Rank(K, k)
      /\ \A m \in 1..n : \E k \in K : Rank(K, k) = m
    BY <1>3, <1>4, Ranks
<1> HIDE DEF K, n
<1>8. \E k \in K : \A j \in K : j <= k
  <2>1. PICK k \in K : Rank(K, k) = n
    BY <1>6, <1>7
  <2>2. ASSUME NEW j \in K PROVE j <= k
    <3>1. Rank(K, j) \in 1..n /\ (k < j => Rank(K, k) < Rank(K, j))
        BY <1>7
    <3>2. j \in Int /\ k \in Int
        BY <1>4
    <3> QED BY <1>6, <2>1, <3>1, <3>2
  <2> QED BY <2>2
<1>9. \E k \in K : \A j \in K : k <= j
    BY <1>2, <1>3, <1>4, FirstPlace
<1>10. \E k \in K : Which(k)
    BY <1>8, <1>9
<1>11. PICK k \in K : Route(path) = table[k]
    BY <1>1, <1>2, <1>10
<1> QED BY <1>3, <1>11 DEF K

-----------------------------------------------------------------------------
(* The routing table: its two writers *)

\* A run that is at a service has one left.
Asking(task) == task.at \in {"discover", "retain"} => task.left # << >>

RoutesIInv == RoutesTypeOK /\ Asking(refresh) /\ Asking(admin)

LEMMA Asks ==
    ASSUME NEW left \in Seq(Services), NEW found \in Seq(RouteConfigs)
    PROVE  Ask(left, found) \in Refreshers /\ Asking(Ask(left, found))
BY DEF Ask, Asking, Refreshers

LEMMA Rests ==
    /\ Resting \in Refreshers /\ Asking(Resting)
    /\ [Resting EXCEPT !.at = "startup"] \in Refreshers
    /\ Asking([Resting EXCEPT !.at = "startup"])
<1>1. << >> \in Seq(Services) /\ << >> \in Seq(RouteConfigs)
    OBVIOUS
<1> QED BY <1>1 DEF Resting, Asking, Refreshers

LEMMA Begins ==
    Begin \in Refreshers /\ Asking(Begin)
<1>1. Order \in Seq(Services) /\ << >> \in Seq(RouteConfigs)
    BY RoutesAssumption
<1> QED BY <1>1, Asks DEF Begin

LEMMA Advances ==
    ASSUME NEW task \in Refreshers, task.left # << >>, NEW more \in Seq(RouteConfigs)
    PROVE  /\ Head(task.left) \in Services
           /\ Advance(task, more) \in Refreshers /\ Asking(Advance(task, more))
<1>1. task.left \in Seq(Services) /\ task.found \in Seq(RouteConfigs)
    BY DEF Refreshers
<1>2. Head(task.left) \in Services /\ Tail(task.left) \in Seq(Services)
    BY <1>1
<1>3. task.found \o more \in Seq(RouteConfigs)
    BY <1>1, AddedToList
<1> QED BY <1>2, <1>3, Asks DEF Advance

LEMMA RefreshSteps ==
    ASSUME RoutesIInv, RefreshStep PROVE RoutesIInv'
<1> USE DEF RoutesIInv
<1>1. CASE NextRun
    BY <1>1, Begins DEF NextRun, RoutesTypeOK
<1>2. CASE Discover
  <2> DEFINE s == Head(refresh.left)
  <2>1. refresh \in Refreshers /\ refresh.left # << >> /\ refresh.at = "discover"
    BY <1>2 DEF Discover, Asking, RoutesTypeOK
  <2>2. CASE refresh' = Advance(refresh, ServiceRoutes(s))
    <3>1. s \in Services
        BY <2>1 DEF Refreshers
    <3>2. ServiceRoutes(s) \in Seq(RouteConfigs)
        BY <3>1, ServiceRoutesAreRoutes
    <3> HIDE DEF s
    <3>3. refresh' \in Refreshers /\ Asking(refresh')
        BY <2>1, <2>2, <3>2, Advances
    <3> QED BY <1>2, <3>3 DEF Discover, RoutesTypeOK
  <2>3. CASE refresh' = [refresh EXCEPT !.at = "retain"]
    <3>1. refresh' \in Refreshers /\ Asking(refresh')
        BY <2>1, <2>3 DEF Refreshers, Asking
    <3> QED BY <1>2, <3>1 DEF Discover, RoutesTypeOK
  <2> QED BY <1>2, <2>2, <2>3 DEF Discover
<1>3. CASE Retain
  <2>1. refresh \in Refreshers /\ refresh.left # << >> /\ table \in Seq(RouteConfigs)
    BY <1>3 DEF Retain, Asking, RoutesTypeOK
  <2>2. GetRoutesForService(Head(refresh.left)) \in Seq(RouteConfigs)
    BY <2>1, FewerRoutes
  <2>3. refresh' \in Refreshers /\ Asking(refresh')
    BY <1>3, <2>1, <2>2, Advances DEF Retain
  <2> QED BY <1>3, <2>3 DEF Retain, RoutesTypeOK
<1>4. CASE Write
  <2>1. refresh.found \in Seq(RouteConfigs)
    BY DEF RoutesTypeOK, Refreshers
  <2>2. Overridden(refresh.found) \in Seq(RouteConfigs)
    BY <2>1, OverriddenAreRoutes
  <2>3. table' \in Seq(RouteConfigs)
    BY <1>4, <2>2, FewerRoutes DEF Write, UpdateRoutes
  <2>4. refresh' \in Refreshers /\ Asking(refresh')
    BY <1>4, Rests DEF Write
  <2> QED BY <1>4, <2>3, <2>4 DEF Write, RoutesTypeOK
<1> QED BY <1>1, <1>2, <1>3, <1>4 DEF RefreshStep

LEMMA AdminSteps ==
    ASSUME RoutesIInv, AdminRefresh \/ AdminDiscover \/ AdminWrite
    PROVE  RoutesIInv'
<1> USE DEF RoutesIInv
<1>1. CASE AdminRefresh
    BY <1>1, Begins DEF AdminRefresh, RoutesTypeOK
<1>2. CASE AdminDiscover
  <2> DEFINE s == Head(admin.left)
             more == IF Answers(s) THEN ServiceRoutes(s) ELSE << >>
  <2>1. admin \in Refreshers /\ admin.left # << >>
    BY <1>2 DEF AdminDiscover, Asking, RoutesTypeOK
  <2>2. s \in Services
    BY <2>1 DEF Refreshers
  <2>3. more \in Seq(RouteConfigs)
    BY <2>2, ServiceRoutesAreRoutes
  <2>4. admin' = Advance(admin, more)
    BY <1>2 DEF AdminDiscover
  <2> HIDE DEF s, more
  <2>5. admin' \in Refreshers /\ Asking(admin')
    BY <2>1, <2>3, <2>4, Advances
  <2> QED BY <1>2, <2>5 DEF AdminDiscover, RoutesTypeOK
<1>3. CASE AdminWrite
  <2>1. admin.found \in Seq(RouteConfigs)
    BY DEF RoutesTypeOK, Refreshers
  <2>2. table' \in Seq(RouteConfigs)
    BY <1>3, <2>1, OverriddenAreRoutes DEF AdminWrite, UpdateRoutes
  <2>3. /\ refresh' \in Refreshers /\ Asking(refresh')
        /\ admin' \in Refreshers /\ Asking(admin')
    BY <1>3, Rests DEF AdminWrite, RoutesTypeOK
  <2> QED BY <1>3, <2>2, <2>3 DEF AdminWrite, RoutesTypeOK
<1> QED BY <1>1, <1>2, <1>3

LEMMA RedeployStep ==
    ASSUME RoutesIInv, NEW s \in Services, Redeploy(s) PROVE RoutesIInv'
<1>1. edits' \in 0..MaxEdits
    BY RoutesAssumption DEF Redeploy, RoutesIInv, RoutesTypeOK
<1>2. offered' \in [Services -> SUBSET RpcMethods] /\ answering' \in SUBSET Services
    BY DEF Redeploy, RoutesIInv, RoutesTypeOK
<1>3. UNCHANGED <<table, refresh, admin>>
    BY DEF Redeploy
<1> QED BY <1>1, <1>2, <1>3 DEF RoutesIInv, RoutesTypeOK

\* Whichever writer comes last, the table is a list of routes to services that
\* are known.
LEMMA RoutesInvariance ==
    ASSUME RoutesIInv, RoutesNext \/ UNCHANGED routes PROVE RoutesIInv'
<1>1. CASE UNCHANGED routes
    BY <1>1 DEF routes, RoutesIInv, RoutesTypeOK
<1> QED BY <1>1, RefreshSteps, AdminSteps, RedeployStep DEF RoutesNext

LEMMA RoutesStart == ASSUME RoutesInit PROVE RoutesIInv
<1>1. << >> \in Seq(RouteConfigs)
    OBVIOUS
<1>2. edits \in 0..MaxEdits
    BY RoutesAssumption DEF RoutesInit
<1> QED BY <1>1, <1>2, Begins, Rests DEF RoutesInit, RoutesIInv, RoutesTypeOK

\* The routing table, and what each of its writers has collected, is made of
\* routes with a path, to a service and a method the gateway knows: through
\* retained routes, overrides, duplicates and writes in any order
\* (start_refresh_task, refresh_routes_handler).
THEOREM RoutesTypes == RoutesSpec => []RoutesTypeOK
<1>1. RoutesInit => RoutesIInv
    BY RoutesStart
<1>2. RoutesIInv /\ [RoutesNext]_routes => RoutesIInv'
    BY RoutesInvariance
<1>3. RoutesIInv => RoutesTypeOK
    BY DEF RoutesIInv
<1> QED BY <1>1, <1>2, <1>3, PTL DEF RoutesSpec

-----------------------------------------------------------------------------
(* The authentication *)

\* A request past the lookup carries a path, a token, a route and a policy.
Carries(q) ==
    q = [at |-> q.at, path |-> q.path, token |-> q.token, route |-> q.route,
         policy |-> q.policy]

\* The policy is the fallback, or the service has answered it (one of A).
Known(A, q) == q.policy = Fallback \/ <<q.route.service, q.route.method, q.policy>> \in A

\* What the policy asks of the token, spelled out.
Satisfied(q) ==
    /\ q.policy.auth => q.token # Absent
    /\ q.policy.auth /\ q.policy.roles # {} => Claims[q.token] \cap q.policy.roles # {}

\* How far a request has got with the policy of its route.
Decided(A, q) ==
    /\ q.at \in {"idle", "policy", "query", "store", "check", "forward", "sent"}
    /\ q.at # "idle" => Carries(q)
    /\ q.at = "store" => <<q.route.service, q.route.method, q.policy>> \in A
    /\ q.at = "check" => Known(A, q)
    /\ q.at \in {"forward", "sent"} => q.path \in Public \/ (Known(A, q) /\ Satisfied(q))

CacheWasAnswered == \A e \in cache : e = <<e[1], e[2], e[3]>> /\ e \in answered

RequestsDecided ==
    /\ request = [r \in Arrivals |-> request[r]]
    /\ \A r \in Arrivals : Decided(answered, request[r])

GateIInv == CacheWasAnswered /\ RequestsDecided

-----------------------------------------------------------------------------
(* Requests *)

\* A request that moves on, with a policy.
Onward(q, at, p) ==
    [at |-> at, path |-> q.path, token |-> q.token, route |-> q.route, policy |-> p]

LEMMA OnwardFields ==
    ASSUME NEW q, NEW at, NEW p
    PROVE  /\ Carries(Onward(q, at, p))
           /\ Onward(q, at, p).at = at /\ Onward(q, at, p).policy = p
           /\ Onward(q, at, p).path = q.path /\ Onward(q, at, p).token = q.token
           /\ Onward(q, at, p).route = q.route
BY DEF Onward, Carries

LEMMA Moves ==
    ASSUME NEW r \in Arrivals, NEW q, q = request[r], Carries(q), NEW at
    PROVE  /\ Proceed(r, at) => Pass(r, Onward(q, at, q.policy))
           /\ \A p : WithPolicy(r, at, p) => Pass(r, Onward(q, at, p))
<1>1. PICK b, path, token, route, policy :
        q = [at |-> b, path |-> path, token |-> token, route |-> route, policy |-> policy]
    BY DEF Carries
<1>2. [q EXCEPT !.at = at] = Onward(q, at, q.policy)
    BY <1>1 DEF Onward
<1>3. ASSUME NEW p PROVE [q EXCEPT !.at = at, !.policy = p] = Onward(q, at, p)
  <2>1. [q EXCEPT !.at = at, !.policy = p] = [[q EXCEPT !.at = at] EXCEPT !.policy = p]
    OBVIOUS
  <2>2. [Onward(q, at, q.policy) EXCEPT !.policy = p] = Onward(q, at, p)
    BY DEF Onward
  <2> QED BY <1>2, <2>1, <2>2
<1> QED BY <1>2, <1>3 DEF Proceed, WithPolicy

\* What was answered stays answered.
LEMMA StaysDecided ==
    ASSUME NEW A, NEW B, A \subseteq B, NEW q, Decided(A, q) PROVE Decided(B, q)
BY DEF Decided, Known

LEMMA OneDecides ==
    ASSUME RequestsDecided, NEW r \in Arrivals, NEW q, Pass(r, q), Decided(answered', q),
           answered \subseteq answered'
    PROVE  RequestsDecided'
<1>1. /\ request' = [s \in Arrivals |-> request'[s]]
      /\ request'[r] = q
      /\ \A s \in Arrivals \ {r} : request'[s] = request[s]
    BY DEF RequestsDecided, Pass
<1>2. ASSUME NEW s \in Arrivals PROVE Decided(answered', request'[s])
  <2>1. CASE s = r
    BY <1>1, <2>1
  <2>2. CASE s # r
    <3>1. Decided(answered, request[s]) /\ request'[s] = request[s]
        BY <1>1, <2>2 DEF RequestsDecided
    <3>2. \A x : Decided(answered, x) => Decided(answered', x)
        BY StaysDecided
    <3> QED BY <3>1, <3>2
  <2> QED BY <2>1, <2>2
<1> QED BY <1>1, <1>2 DEF RequestsDecided

LEMMA Dropped ==
    ASSUME GateIInv, NEW r \in Arrivals, Drop(r), UNCHANGED <<cache, answered>>
    PROVE  GateIInv'
<1> DEFINE q == [at |-> "idle"]
<1>1. Decided(answered', q)
    BY DEF Decided
<1>2. Pass(r, q)
    BY DEF Drop
<1> HIDE DEF q
<1>3. RequestsDecided'
    BY <1>1, <1>2, OneDecides DEF GateIInv
<1> QED BY <1>3 DEF GateIInv, CacheWasAnswered

LEMMA EnterStep ==
    ASSUME GateIInv, NEW r \in Arrivals, NEW path, NEW token, Enter(r, path, token)
    PROVE  GateIInv'
<1> DEFINE q == [at |-> IF path \in Public THEN "forward" ELSE "policy",
                 path |-> path, token |-> token, route |-> Route(path), policy |-> Open]
<1>1. /\ q.at \in {"forward", "policy"} /\ (q.at = "forward" => q.path \in Public)
      /\ Carries(q)
    BY DEF Carries
<1>2. Pass(r, q)
    BY DEF Enter
<1> HIDE DEF q
<1>3. Decided(answered', q)
    BY <1>1 DEF Decided
<1>4. RequestsDecided'
    BY <1>2, <1>3, OneDecides DEF GateIInv, Enter
<1> QED BY <1>4 DEF GateIInv, CacheWasAnswered, Enter

LEMMA ReadPolicyStep ==
    ASSUME GateIInv, NEW r \in Arrivals, ReadPolicy(r) PROVE GateIInv'
<1>1. PICK q : q = request[r]
    OBVIOUS
<1>2. Carries(q) /\ q.at = "policy"
    BY <1>1 DEF ReadPolicy, GateIInv, RequestsDecided, Decided
<1>3. RequestsDecided'
  <2>1. ASSUME NEW e \in Cached(q.route), WithPolicy(r, "check", e[3]) PROVE RequestsDecided'
    <3> DEFINE t == Onward(q, "check", e[3])
    <3>1. Carries(t) /\ t.at = "check" /\ t.policy = e[3] /\ t.route = q.route
        BY OnwardFields
    <3>2. <<q.route.service, q.route.method, e[3]>> \in answered
        BY DEF Cached, GateIInv, CacheWasAnswered
    <3>3. Pass(r, t)
        BY <1>1, <1>2, <2>1, Moves
    <3> HIDE DEF t
    <3>4. Decided(answered', t)
        BY <3>1, <3>2 DEF Decided, Known, ReadPolicy
    <3> QED BY <3>3, <3>4, OneDecides DEF GateIInv, ReadPolicy
  <2>2. CASE Proceed(r, "query")
    <3> DEFINE t == Onward(q, "query", q.policy)
    <3>1. Carries(t) /\ t.at = "query"
        BY OnwardFields
    <3>2. Pass(r, t)
        BY <1>1, <1>2, <2>2, Moves
    <3> HIDE DEF t
    <3>3. Decided(answered', t)
        BY <3>1 DEF Decided
    <3> QED BY <3>2, <3>3, OneDecides DEF GateIInv, ReadPolicy
  <2> QED BY <1>1, <2>1, <2>2 DEF ReadPolicy
<1> QED BY <1>3 DEF GateIInv, CacheWasAnswered, ReadPolicy

LEMMA QueryPolicyStep ==
    ASSUME GateIInv, NEW r \in Arrivals, QueryPolicy(r) PROVE GateIInv'
<1>1. PICK q, p : q = request[r] /\ p = policies[q.route.service][q.route.method]
    OBVIOUS
<1>2. Carries(q) /\ q.at = "query"
    BY <1>1 DEF QueryPolicy, GateIInv, RequestsDecided, Decided
<1>3. answered \subseteq answered' /\ UNCHANGED cache
    BY DEF QueryPolicy
<1>4. RequestsDecided'
  <2>1. CASE /\ WithPolicy(r, "store", p)
             /\ answered' = answered \cup {<<q.route.service, q.route.method, p>>}
    <3> DEFINE t == Onward(q, "store", p)
    <3>1. Carries(t) /\ t.at = "store" /\ t.policy = p /\ t.route = q.route
        BY OnwardFields
    <3>2. Pass(r, t)
        BY <1>1, <1>2, <2>1, Moves
    <3> HIDE DEF t
    <3>3. Decided(answered', t)
        BY <2>1, <3>1 DEF Decided
    <3> QED BY <1>3, <3>2, <3>3, OneDecides DEF GateIInv
  <2>2. CASE WithPolicy(r, "check", Fallback)
    <3> DEFINE t == Onward(q, "check", Fallback)
    <3>1. Carries(t) /\ t.at = "check" /\ t.policy = Fallback
        BY OnwardFields
    <3>2. Pass(r, t)
        BY <1>1, <1>2, <2>2, Moves
    <3> HIDE DEF t
    <3>3. Decided(answered', t)
        BY <3>1 DEF Decided, Known
    <3> QED BY <1>3, <3>2, <3>3, OneDecides DEF GateIInv
  <2> QED BY <1>1, <2>1, <2>2 DEF QueryPolicy
<1> QED BY <1>3, <1>4 DEF GateIInv, CacheWasAnswered

LEMMA StorePolicyStep ==
    ASSUME GateIInv, NEW r \in Arrivals, StorePolicy(r) PROVE GateIInv'
<1>1. PICK q : q = request[r]
    OBVIOUS
<1> DEFINE t == Onward(q, "check", q.policy)
<1>2. Carries(q) /\ q.at = "store" /\ <<q.route.service, q.route.method, q.policy>> \in answered
    BY <1>1 DEF StorePolicy, GateIInv, RequestsDecided, Decided
<1>3. Carries(t) /\ t.at = "check" /\ t.policy = q.policy /\ t.route = q.route
    BY OnwardFields
<1>4. Pass(r, t)
    BY <1>1, <1>2, Moves DEF StorePolicy
<1> HIDE DEF t
<1>5. Decided(answered', t)
    BY <1>2, <1>3 DEF Decided, Known, StorePolicy
<1>6. RequestsDecided'
    BY <1>4, <1>5, OneDecides DEF GateIInv, StorePolicy
<1>7. CacheWasAnswered'
  <2>1. cache' \subseteq cache \cup {<<q.route.service, q.route.method, q.policy>>}
    BY <1>1 DEF StorePolicy
  <2> QED BY <1>2, <2>1 DEF GateIInv, CacheWasAnswered, StorePolicy
<1> QED BY <1>6, <1>7 DEF GateIInv

\* What is admitted satisfies the policy it was admitted by.
LEMMA Admitted ==
    ASSUME NEW q, Admits(q.policy, q.token) PROVE Satisfied(q)
BY DEF Admits, Satisfied

LEMMA CheckAuthorizationStep ==
    ASSUME GateIInv, NEW r \in Arrivals, CheckAuthorization(r) PROVE GateIInv'
<1>1. PICK q : q = request[r]
    OBVIOUS
<1> DEFINE t == Onward(q, "forward", q.policy)
<1>2. Carries(q) /\ q.at = "check" /\ Known(answered, q)
    BY <1>1 DEF CheckAuthorization, GateIInv, RequestsDecided, Decided
<1>3. CASE Admits(q.policy, q.token) /\ Proceed(r, "forward")
  <2>1. /\ Carries(t) /\ t.at = "forward" /\ t.policy = q.policy /\ t.route = q.route
        /\ t.token = q.token
    BY OnwardFields
  <2>2. Pass(r, t)
    BY <1>1, <1>2, <1>3, Moves
  <2> HIDE DEF t
  <2>3. Satisfied(t)
    BY <1>3, <2>1, Admitted
  <2>4. Decided(answered', t)
    BY <1>2, <2>1, <2>3 DEF Decided, Known, CheckAuthorization
  <2>5. RequestsDecided'
    BY <2>2, <2>4, OneDecides DEF GateIInv, CheckAuthorization
  <2> QED BY <2>5 DEF GateIInv, CacheWasAnswered, CheckAuthorization
<1>4. CASE Drop(r)
    BY <1>4, Dropped DEF CheckAuthorization
<1> QED BY <1>1, <1>3, <1>4 DEF CheckAuthorization

LEMMA ForwardStep ==
    ASSUME GateIInv, NEW r \in Arrivals, Forward(r) PROVE GateIInv'
<1>1. PICK q : q = request[r]
    OBVIOUS
<1> DEFINE t == Onward(q, "sent", q.policy)
<1>2. /\ Carries(q) /\ q.at = "forward"
      /\ q.path \in Public \/ (Known(answered, q) /\ Satisfied(q))
    BY <1>1 DEF Forward, GateIInv, RequestsDecided, Decided
<1>3. /\ Carries(t) /\ t.at = "sent" /\ t.policy = q.policy /\ t.route = q.route
      /\ t.token = q.token /\ t.path = q.path
    BY OnwardFields
<1>4. Pass(r, t)
    BY <1>1, <1>2, Moves DEF Forward
<1> HIDE DEF t
<1>5. Decided(answered', t)
    BY <1>2, <1>3 DEF Decided, Known, Satisfied, Forward
<1>6. RequestsDecided'
    BY <1>4, <1>5, OneDecides DEF GateIInv, Forward
<1> QED BY <1>6 DEF GateIInv, CacheWasAnswered, Forward

\* Neither the table nor the policies the services have now matter to a request
\* that was decided.
LEMMA GateInvariance == GateIInv /\ [GateNext]_<<routes, gate>> => GateIInv'
<1> SUFFICES ASSUME GateIInv, [GateNext]_<<routes, gate>> PROVE GateIInv'
    OBVIOUS
<1>1. CASE UNCHANGED <<cache, request, answered>>
    BY <1>1 DEF GateIInv, CacheWasAnswered, RequestsDecided
<1>2. ASSUME NEW r \in Arrivals, RequestStep(r) PROVE GateIInv'
    BY <1>2, EnterStep, ReadPolicyStep, QueryPolicyStep, StorePolicyStep,
       CheckAuthorizationStep, ForwardStep, Dropped
    DEF RequestStep, Finish
<1>3. ASSUME NEW e \in cache, Expire(e) PROVE GateIInv'
    BY <1>3 DEF Expire, GateIInv, CacheWasAnswered, RequestsDecided
<1> QED BY <1>1, <1>2, <1>3 DEF GateNext, ChangePolicy, gate

LEMMA GateStart == ASSUME GateInit PROVE GateIInv
<1> DEFINE q == [at |-> "idle"]
<1>1. Decided(answered, q)
    BY DEF Decided
<1> HIDE DEF q
<1>2. request = [r \in Arrivals |-> q]
    BY DEF GateInit, q
<1> QED BY <1>1, <1>2 DEF GateInit, GateIInv, CacheWasAnswered, RequestsDecided

\* A backend is called only with what its own policy for that method admits, or
\* on a public path, or with a valid token when the policy could not be asked
\* for: whatever becomes of the routing table, the policies and the cache between
\* the lookup and the call (auth_middleware, gateway_handler).
THEOREM AdmissionFollowsPolicy == GateSpec => []AdmittedByPolicy
<1>1. GateInit => GateIInv
    BY GateStart
<1>2. GateIInv => AdmittedByPolicy
  <2> SUFFICES ASSUME GateIInv, NEW r \in Arrivals, request[r].at = "sent",
                      request[r].path \notin Public, request[r].policy # Fallback
               PROVE  /\ <<request[r].route.service, request[r].route.method,
                           request[r].policy>> \in answered
                      /\ Satisfied(request[r])
    <3>1. ASSUME NEW q, Satisfied(q), q.policy = Fallback PROVE q.token # Absent
        BY <3>1 DEF Satisfied, Fallback
    <3>2. ASSUME GateIInv, NEW r \in Arrivals, request[r].at = "sent",
                 request[r].path \notin Public
          PROVE  Satisfied(request[r])
        BY <3>2 DEF GateIInv, RequestsDecided, Decided
    <3> QED BY <3>1, <3>2 DEF AdmittedByPolicy, Satisfied
  <2> QED BY DEF GateIInv, RequestsDecided, Decided, Known
<1> QED BY <1>1, <1>2, GateInvariance, PTL DEF GateSpec

-----------------------------------------------------------------------------
(* The authentication: types *)

AllPolicies == Policies \cup {Fallback, Open}

\* GateTypeOK without the part that is about the routing table.
AnswersTypeOK ==
    /\ policies \in [Services -> [RpcMethods -> Policies]]
    /\ answered \subseteq Services \X RpcMethods \X Policies
CacheTypeOK ==
    /\ cache \subseteq Services \X RpcMethods \X Policies
    /\ \A d, e \in cache : d[1] = e[1] /\ d[2] = e[2] => d = e
RequestsTypeOK == request \in [Arrivals -> RequestStates]

GateTypesIInv == RoutesIInv /\ AnswersTypeOK /\ CacheTypeOK /\ RequestsTypeOK

\* Past the lookup.
LEMMA PastLookup ==
    ASSUME NEW q \in RequestStates, q.at # "idle"
    PROVE  /\ Carries(q)
           /\ q.path \in Paths \ {Absent} /\ q.token \in Tokens /\ q.policy \in AllPolicies
           /\ q.route \in RouteConfigs
           /\ q.route.service \in Services /\ q.route.method \in RpcMethods
<1>1. q \in [at : {"policy", "query", "store", "check", "forward", "sent"},
             path : Paths \ {Absent}, token : Tokens, route : RouteConfigs,
             policy : Policies \cup {Fallback, Open}]
    BY DEF RequestStates
<1>2. /\ Carries(q)
      /\ q.path \in Paths \ {Absent} /\ q.token \in Tokens /\ q.policy \in AllPolicies
      /\ q.route \in RouteConfigs
    BY <1>1 DEF Carries, AllPolicies
<1>3. \A route \in RouteConfigs : route.service \in Services /\ route.method \in RpcMethods
    BY DEF RouteConfigs
<1> QED BY <1>2, <1>3

LEMMA OnwardType ==
    ASSUME NEW q \in RequestStates, q.at # "idle",
           NEW at \in {"policy", "query", "store", "check", "forward", "sent"},
           NEW p \in AllPolicies
    PROVE  Onward(q, at, p) \in RequestStates
BY PastLookup DEF Onward, RequestStates, AllPolicies

LEMMA PassType ==
    ASSUME RequestsTypeOK, NEW r \in Arrivals, NEW q \in RequestStates, Pass(r, q)
    PROVE  RequestsTypeOK'
BY DEF Pass, RequestsTypeOK

LEMMA DropType ==
    ASSUME RequestsTypeOK, NEW r \in Arrivals, Drop(r) PROVE RequestsTypeOK'
<1>1. [at |-> "idle"] \in RequestStates
    BY DEF RequestStates
<1> QED BY <1>1, PassType DEF Drop

\* A request that moves on keeps its type.
LEMMA MoveType ==
    ASSUME RequestsTypeOK, NEW r \in Arrivals, request[r].at # "idle",
           NEW at \in {"policy", "query", "store", "check", "forward", "sent"}
    PROVE  /\ Proceed(r, at) => RequestsTypeOK'
           /\ \A p \in AllPolicies : WithPolicy(r, at, p) => RequestsTypeOK'
<1>1. PICK q : q = request[r]
    OBVIOUS
<1>2. q \in RequestStates /\ q.at # "idle" /\ Carries(q) /\ q.policy \in AllPolicies
    BY <1>1, PastLookup DEF RequestsTypeOK
<1>3. ASSUME NEW p \in AllPolicies, Pass(r, Onward(q, at, p)) PROVE RequestsTypeOK'
    BY <1>2, <1>3, OnwardType, PassType
<1> QED BY <1>1, <1>2, <1>3, Moves

LEMMA EnterTypes ==
    ASSUME RoutesTypeOK, RequestsTypeOK, NEW r \in Arrivals,
           NEW path \in Paths \ {Absent}, NEW token \in Tokens, Enter(r, path, token)
    PROVE  RequestsTypeOK'
<1>1. Route(path) \in RouteConfigs
    BY RouteOfPath DEF Enter, RoutesTypeOK
<1> DEFINE q == [at |-> IF path \in Public THEN "forward" ELSE "policy",
                 path |-> path, token |-> token, route |-> Route(path), policy |-> Open]
<1>2. q \in RequestStates
    BY <1>1 DEF RequestStates
<1>3. Pass(r, q)
    BY DEF Enter
<1> HIDE DEF q
<1> QED BY <1>2, <1>3, PassType

LEMMA ReadPolicyTypes ==
    ASSUME RequestsTypeOK, CacheTypeOK, NEW r \in Arrivals, ReadPolicy(r)
    PROVE  RequestsTypeOK'
<1>1. request[r].at # "idle"
    BY DEF ReadPolicy
<1>2. ASSUME NEW e \in Cached(request[r].route) PROVE e[3] \in AllPolicies
    BY DEF Cached, CacheTypeOK, AllPolicies
<1> QED BY <1>1, <1>2, MoveType DEF ReadPolicy

LEMMA QueryPolicyTypes ==
    ASSUME RequestsTypeOK, AnswersTypeOK, NEW r \in Arrivals, QueryPolicy(r)
    PROVE  RequestsTypeOK' /\ AnswersTypeOK'
<1> DEFINE route == request[r].route
           policy == policies[route.service][route.method]
<1>1. request[r] \in RequestStates /\ request[r].at # "idle"
    BY DEF QueryPolicy, RequestsTypeOK
<1>2. route.service \in Services /\ route.method \in RpcMethods
    BY <1>1, PastLookup
<1>3. policy \in Policies
    BY <1>2 DEF AnswersTypeOK
<1>4. policy \in AllPolicies /\ Fallback \in AllPolicies
    BY <1>3 DEF AllPolicies
<1>5. /\ \/ WithPolicy(r, "store", policy)
         \/ WithPolicy(r, "check", Fallback)
      /\ answered' \subseteq answered \cup {<<route.service, route.method, policy>>}
      /\ UNCHANGED policies
    BY DEF QueryPolicy
<1> HIDE DEF route, policy
<1>6. RequestsTypeOK'
    BY <1>1, <1>4, <1>5, MoveType
<1>7. <<route.service, route.method, policy>> \in Services \X RpcMethods \X Policies
    BY <1>2, <1>3
<1>8. AnswersTypeOK'
    BY <1>5, <1>7 DEF AnswersTypeOK
<1> QED BY <1>6, <1>8

\* The entry of the policy that was answered takes the place of the older one.
LEMMA StorePolicyTypes ==
    ASSUME RequestsTypeOK, CacheTypeOK, AnswersTypeOK, GateIInv, NEW r \in Arrivals,
           StorePolicy(r)
    PROVE  RequestsTypeOK' /\ CacheTypeOK'
<1>1. PICK q : q = request[r]
    OBVIOUS
<1>2. /\ q.at = "store" /\ Proceed(r, "check")
      /\ cache' = (cache \ Cached(q.route))
                  \cup {<<q.route.service, q.route.method, q.policy>>}
    BY <1>1 DEF StorePolicy
<1>3. RequestsTypeOK'
    BY <1>1, <1>2, MoveType
<1>4. <<q.route.service, q.route.method, q.policy>> \in answered
    BY <1>1, <1>2 DEF GateIInv, RequestsDecided, Decided
<1>5. PICK new : new = <<q.route.service, q.route.method, q.policy>>
    OBVIOUS
<1>6. new \in Services \X RpcMethods \X Policies
    BY <1>4, <1>5 DEF AnswersTypeOK
<1>7. \A e \in cache \ Cached(q.route) : ~(e[1] = new[1] /\ e[2] = new[2])
    BY <1>5 DEF Cached
<1>8. cache' = (cache \ Cached(q.route)) \cup {new}
    BY <1>2, <1>5
<1> QED BY <1>3, <1>6, <1>7, <1>8 DEF CacheTypeOK

LEMMA RequestStepTypes ==
    ASSUME GateTypesIInv, GateIInv, NEW r \in Arrivals, RequestStep(r), UNCHANGED routes
    PROVE  GateTypesIInv'
<1> USE DEF GateTypesIInv
<1>1. RoutesIInv'
    BY RoutesInvariance
<1>2. CASE \E path \in Paths \ {Absent}, token \in Tokens : Enter(r, path, token)
  <2>1. RequestsTypeOK'
    BY <1>2, EnterTypes DEF RoutesIInv
  <2> QED BY <1>1, <1>2, <2>1 DEF Enter, AnswersTypeOK, CacheTypeOK
<1>3. CASE ReadPolicy(r)
    BY <1>1, <1>3, ReadPolicyTypes DEF ReadPolicy, AnswersTypeOK, CacheTypeOK
<1>4. CASE QueryPolicy(r)
    BY <1>1, <1>4, QueryPolicyTypes DEF QueryPolicy, CacheTypeOK
<1>5. CASE StorePolicy(r)
    BY <1>1, <1>5, StorePolicyTypes DEF StorePolicy, AnswersTypeOK
<1>6. CASE CheckAuthorization(r)
  <2>1. RequestsTypeOK'
    BY <1>6, MoveType, DropType DEF CheckAuthorization
  <2> QED BY <1>1, <1>6, <2>1 DEF CheckAuthorization, AnswersTypeOK, CacheTypeOK
<1>7. CASE Forward(r)
  <2>1. RequestsTypeOK'
    BY <1>7, MoveType DEF Forward
  <2> QED BY <1>1, <1>7, <2>1 DEF Forward, AnswersTypeOK, CacheTypeOK
<1>8. CASE Finish(r)
    BY <1>1, <1>8, DropType DEF Finish, AnswersTypeOK, CacheTypeOK
<1> QED BY <1>2, <1>3, <1>4, <1>5, <1>6, <1>7, <1>8 DEF RequestStep

LEMMA GateTypesInvariance ==
    ASSUME GateTypesIInv, GateIInv, GateNext \/ UNCHANGED <<routes, gate>>
    PROVE  GateTypesIInv'
<1> USE DEF GateTypesIInv
<1>1. CASE UNCHANGED gate /\ (RoutesNext \/ UNCHANGED routes)
    BY <1>1, RoutesInvariance DEF gate, AnswersTypeOK, CacheTypeOK, RequestsTypeOK
<1>2. ASSUME NEW e \in cache, Expire(e), UNCHANGED routes PROVE GateTypesIInv'
    BY <1>2, RoutesInvariance DEF Expire, AnswersTypeOK, CacheTypeOK, RequestsTypeOK
<1>3. ASSUME NEW s \in Services, NEW m \in RpcMethods, ChangePolicy(s, m)
      PROVE  GateTypesIInv'
  <2>1. policies' \in [Services -> [RpcMethods -> Policies]]
    BY <1>3 DEF ChangePolicy, AnswersTypeOK
  <2>2. edits' \in 0..MaxEdits
    BY <1>3, RoutesAssumption DEF ChangePolicy, RoutesIInv, RoutesTypeOK
  <2>3. UNCHANGED <<offered, answering, table, refresh, admin, cache, request, answered>>
    BY <1>3 DEF ChangePolicy
  <2>4. RoutesIInv'
    BY <2>2, <2>3 DEF RoutesIInv, RoutesTypeOK
  <2> QED BY <2>1, <2>3, <2>4 DEF AnswersTypeOK, CacheTypeOK, RequestsTypeOK
<1> QED BY <1>1, <1>2, <1>3, RequestStepTypes DEF GateNext

\* A request carries a route to a known service and method, and the cache has at
\* most one policy for these, and only one that a service can state: whatever is
\* queried, stored, expired and looked up in between (auth_middleware,
\* get_auth_policy).
THEOREM GateTypes == GateSpec => []GateTypeOK
<1>1. GateInit => GateIInv /\ GateTypesIInv
  <2> SUFFICES ASSUME GateInit PROVE GateIInv /\ GateTypesIInv
    OBVIOUS
  <2>1. GateIInv
    BY GateStart
  <2>2. RoutesIInv
    BY RoutesStart DEF GateInit
  <2>3. [at |-> "idle"] \in RequestStates
    BY DEF RequestStates
  <2>4. RequestsTypeOK
    BY <2>3 DEF GateInit, RequestsTypeOK
  <2> QED BY <2>1, <2>2, <2>4 DEF GateInit, GateTypesIInv, AnswersTypeOK, CacheTypeOK
<1>2. /\ GateIInv /\ GateTypesIInv /\ [GateNext]_<<routes, gate>>
      => (GateIInv /\ GateTypesIInv)'
    BY GateInvariance, GateTypesInvariance
<1>3. GateTypesIInv => GateTypeOK
    BY DEF GateTypesIInv, GateTypeOK, RoutesIInv, AnswersTypeOK, CacheTypeOK,
           RequestsTypeOK
<1> QED BY <1>1, <1>2, <1>3, PTL DEF GateSpec
=============================================================================
