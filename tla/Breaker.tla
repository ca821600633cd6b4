------------------------------ MODULE Breaker ------------------------------
(***************************************************************************)
(* What a circuit breaker promises to its callers, with every operation    *)
(* atomic and none of the locks, counters of the other states, or tasks of *)
(* an implementation.  It is the state machine the api-gateway documents   *)
(* (circuit_breaker/breaker.rs:8-13 and circuit_breaker/types.rs:14-24):   *)
(*                                                                         *)
(*   closed   -- FailureThreshold consecutive failures --> open            *)
(*   open     -- the timeout passes, then a call comes --> half_open       *)
(*   half_open -- SuccessThreshold consecutive successes --> closed        *)
(*   half_open -- one failure --> open                                     *)
(*                                                                         *)
(* GatewayBreaker implements it (BreakerRefinement there); the proof is in *)
(* GatewayRequest_proofs.                                                  *)
(***************************************************************************)
EXTENDS Naturals

CONSTANTS
    FailureThreshold,   \* failures in a row that open a closed circuit
    SuccessThreshold    \* successes in a row that close a half-open circuit
                        \* (naturals: ConfigAssumption of GatewayBreaker)

VARIABLES
    circuit,   \* "closed", "open" or "half_open"
    streak,    \* failures in a row while closed, successes while half-open
    elapsed    \* the open circuit has waited timeout_seconds

vars == <<circuit, streak, elapsed>>

Circuits == {"closed", "open", "half_open"}

TypeOK ==
    /\ circuit \in Circuits
    /\ streak \in Nat
    /\ elapsed \in BOOLEAN

Init ==
    /\ circuit = "closed"
    /\ streak = 0
    /\ elapsed = FALSE

-----------------------------------------------------------------------------

\* The result of a call that failed reaches the breaker.  While the circuit is
\* open the result is late and changes nothing.
Failure ==
    \/ /\ circuit = "closed"
       /\ streak + 1 < FailureThreshold
       /\ streak' = streak + 1
       /\ UNCHANGED <<circuit, elapsed>>
    \/ /\ \/ circuit = "closed" /\ streak + 1 >= FailureThreshold
          \/ circuit = "half_open"
       /\ circuit' = "open"
       /\ streak' = 0
       /\ elapsed' = FALSE

\* The result of a call that succeeded reaches the breaker.
Success ==
    \/ /\ circuit = "closed"
       /\ streak' = 0
       /\ UNCHANGED <<circuit, elapsed>>
    \/ /\ circuit = "half_open"
       /\ IF streak + 1 >= SuccessThreshold
          THEN circuit' = "closed" /\ streak' = 0
          ELSE streak' = streak + 1 /\ UNCHANGED circuit
       /\ UNCHANGED elapsed

\* timeout_seconds pass since the circuit opened.
TimeoutElapses ==
    /\ circuit = "open"
    /\ ~elapsed
    /\ elapsed' = TRUE
    /\ UNCHANGED <<circuit, streak>>

\* The first call after the timeout is admitted and the trial begins with no
\* success counted yet.
Trial ==
    /\ circuit = "open"
    /\ elapsed
    /\ circuit' = "half_open"
    /\ elapsed' = FALSE
    /\ UNCHANGED streak

\* The manual reset.
Reset ==
    /\ circuit' = "closed"
    /\ streak' = 0
    /\ elapsed' = FALSE

Next == Failure \/ Success \/ TimeoutElapses \/ Trial \/ Reset

Spec == Init /\ [][Next]_vars
=============================================================================
