--------------------------- MODULE GatewayRequest ---------------------------
(***************************************************************************)
(* gateway_handler around the circuit breaker                              *)
(* (services/api-gateway/src/handlers/gateway.rs).                         *)
(*                                                                         *)
(* The whole handler runs under tokio::time::timeout, so a request can be  *)
(* dropped at any .await: its future is destroyed, the write guards it     *)
(* holds are released, and nothing after the .await happens.  That undoes  *)
(* the hang of GatewayBreaker, and it cuts can_execute short between its   *)
(* two locks.                                                              *)
(*                                                                         *)
(* The steps before the breaker (system path, rate limit, routing, channel,*)
(* conversion of the request) either answer early or lead to the call.  A  *)
(* conversion of the response that fails is an answer after a recorded     *)
(* success.                                                                *)
(***************************************************************************)
EXTENDS GatewayBreaker

VARIABLES
    reply,   \* the answer of each task's request, "pending" while it runs
    inRow    \* history: failures in a row since the circuit closed, or
             \* successes in a row since it became half-open

requestVars == <<vars, reply, inRow>>

Replies == {"none", "pending", "refused", "unavailable", "ok", "failed",
            "timeout"}

RequestTypeOK ==
    /\ TypeOK
    /\ reply \in [Tasks -> Replies]
    /\ inRow \in 0..FailureThreshold \cup 0..SuccessThreshold

RequestInit ==
    /\ Init
    /\ reply = [t \in Tasks |-> "none"]
    /\ inRow = 0

Answer(t, r) == reply' = [reply EXCEPT ![t] = r]

\* A request arrives and reaches the breaker's call.
Arrive(t) ==
    /\ StartCall(t)
    /\ Answer(t, "pending")
    /\ UNCHANGED inRow

\* It is answered before: 404 on a system path, 429, 500, 503 or 400.
Refuse(t) ==
    /\ pc[t] = "idle"
    /\ Answer(t, "refused")
    /\ UNCHANGED <<vars, inRow>>

\* A step of the call that does not end it.
CallGoesOn(t) ==
    /\ \/ /\ Admit(t) \/ ClearCounters(t) \/ OperationReturns(t) \/ LockStats(t)
          /\ UNCHANGED inRow
       \/ BeginTrial(t) /\ inRow' = 0
    /\ UNCHANGED reply

\* The results that were recorded one after the other in the same circuit.
CountFailure ==
    inRow' = IF circuit = "closed" /\ circuit' = "closed"
             THEN Bump(inRow, FailureThreshold) ELSE 0
CountSuccess ==
    inRow' = IF circuit = "half_open" /\ circuit' = "half_open"
             THEN Bump(inRow, SuccessThreshold) ELSE 0

\* The three ends of the call: Err(Open), Ok and Err(OperationFailed).
CallEnds(t) ==
    \/ Reject(t) /\ Answer(t, "unavailable") /\ UNCHANGED inRow
    \/ RecordSuccess(t) /\ (Answer(t, "ok") \/ Answer(t, "failed")) /\ CountSuccess
    \/ RecordFailure(t) /\ Answer(t, "failed") /\ CountFailure

\* Slip: only the wait for the operation is bounded by the timeout.
RequestTimesOut_slip(t) ==
    /\ pc[t] = "running"
    /\ Goto(t, "idle")
    /\ Answer(t, "timeout")
    /\ UNCHANGED <<circuit, elapsed, Counters, Locks, inRow>>

\* Slip: the guards outlive the dropped future.
RequestTimesOut_guard_slip(t) ==
    /\ pc[t] # "idle"
    /\ Goto(t, "idle")
    /\ Answer(t, "timeout")
    /\ UNCHANGED <<circuit, elapsed, Counters, Locks, inRow>>

\* The request timeout fires: the future is dropped where it is suspended and
\* every guard it holds is released.
RequestTimesOut(t) ==
    /\ pc[t] # "idle"
    /\ Goto(t, "idle")
    /\ stateLock' = IF stateLock = t THEN NoTask ELSE stateLock
    /\ statsLock' = IF statsLock = t THEN NoTask ELSE statsLock
    /\ Answer(t, "timeout")
    /\ UNCHANGED <<circuit, elapsed, Counters, inRow>>

Handle(t) ==
    Arrive(t) \/ Refuse(t) \/ CallGoesOn(t) \/ CallEnds(t) \/ RequestTimesOut(t)

RequestNext ==
    \/ TimeoutElapses /\ UNCHANGED <<reply, inRow>>
    \/ \E t \in Tasks : Handle(t)

RequestSpec == RequestInit /\ [][RequestNext]_requestVars

\* request_timeout_ms is a bound on every request; nothing else is fair.
FairRequestSpec ==
    RequestSpec /\ \A t \in Tasks : WF_requestVars(RequestTimesOut(t))

-----------------------------------------------------------------------------
(* Properties *)

\* An answered request holds neither lock and is no longer in the breaker, and
\* a pending one is still somewhere in it: dropping the future in the middle of
\* can_execute or record_failure leaks no guard (gateway.rs:35-51).
AnsweredHoldsNothing ==
    \A t \in Tasks :
        /\ reply[t] = "pending" <=> pc[t] # "idle"
        /\ reply[t] # "pending" => stateLock # t /\ statsLock # t

\* "Open circuit after 5 consecutive failures" (circuit_breaker/types.rs:18):
\* whatever is dropped in between, a closed circuit opens only when that many
\* failures were recorded one after the other since it closed.  A count kept
\* from an earlier circuit, or one that a success does not clear, would open it
\* early.
OpensOnThreshold ==
    [][ circuit = "closed" /\ circuit' = "open"
        => inRow + 1 >= FailureThreshold ]_requestVars

\* The counterpart for closing, "Close circuit after 2 consecutive successes in
\* half-open state" (circuit_breaker/types.rs:19).  It fails: a request dropped
\* between making the circuit half-open and clearing the counters leaves the
\* successes recorded while it was open, and they count as successes of the
\* trial (breaker.rs:88-94).
ClosesAfterFullTrial ==
    [][ circuit = "half_open" /\ circuit' = "closed"
        => inRow + 1 >= SuccessThreshold ]_requestVars

\* Every request is answered, although two calls can hang on the two locks of
\* the breaker: the request timeout breaks the circle (gateway.rs:35-51).
EveryRequestAnswered ==
    \A t \in Tasks : reply[t] = "pending" ~> reply[t] # "pending"
=============================================================================
