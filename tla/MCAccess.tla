------------------------------ MODULE MCAccess ------------------------------
(* What stands in front of the backends, for TLC: the tokens and sign-ins of  *)
(* the user-auth-service and its limit on attempts, and the rate limiter, the *)
(* authentication, the circuit breaker and the call itself in the api-gateway.*)
(* These parts share no state here, so a behaviour runs one of them, chosen   *)
(* in its first state, and the states of the parts add up.  Callers are       *)
(* interchangeable.  The types of the other parts than Gate are theorems.     *)
EXTENDS Tokens, SignIn, Limits, GatewayBreaker, BackendCall, Gate, TLC

VARIABLE part

\* GatewayLimiter: the second client takes the place of the first in the cache.
TwoClients == <<"i1", "i1", "i2", "i1">>

\* Gate: two services that may offer the same path by name; a method of the
\* second has an override, on the public path of the admin request.
TwoServices == <<"a", "b">>
SamePath == [m \in RpcMethods |-> "/x"]
OneOverride == "m2" :> [path |-> "/z", service |-> "b"]
StudentToken == "stu" :> {"student"}
OpenOrAdmin == {Open, [auth |-> TRUE, roles |-> {"admin"}]}

\* BackendCall: one method has a client of its own, one is not known to
\* call_user_service and two go by reflection, of which the second version of the
\* service drops one and has other messages for the other.
OfferedByVersion == ("v1" :> Methods @@ "v2" :> Methods \ {"DeleteUser"})

\* Tokens: logouts and password changes of an account whose tokens carry a role, or
\* changes of the rest of the row.
Someone(where) == \E c \in Callers : caller[c].at = where

\* At first both services answer, and one method has any policies.
PartsInit ==
    /\ part \in {"breaker", "tokens", "accounts", "signin", "limits", "limiter", "gate", "backend"}
    /\ Init
    /\ TokensInit
    /\ SignInInit
    /\ LimitersInit
    /\ GateInit
    /\ BackendInit
    /\ part # "backend" => deployed = "v1"
    /\ answering = {"a", "b"} /\ offered = ("a" :> {"m1"} @@ "b" :> {})
    /\ \A s \in {"a", "b"}, m \in {"m1", "m2"} :
           (part = "gate" /\ m = "m1") \/ policies[s][m] = Open

PartsNext ==
    /\ UNCHANGED part
    /\ \/ /\ part = "breaker" /\ Next
          /\ UNCHANGED <<accounts, signins, limits, limiter, routes, gate, backend>>
       \/ /\ \/ part = "tokens" /\ TokensNext /\ ~deleted' /\ ~Someone("update")'
                /\ \A t \in issued' : t.roles # {}
             \/ part = "accounts" /\ TokensNext /\ ~Someone("password")' /\ blacklist' = {}
          /\ UNCHANGED <<vars, signins, limits, limiter, routes, gate, backend>>
       \/ /\ part = "signin" /\ SignInNext
          /\ UNCHANGED <<vars, accounts, limits, limiter, routes, gate, backend>>
       \/ /\ part = "limits" /\ RateLimitsNext
          /\ UNCHANGED <<vars, accounts, signins, limiter, routes, gate, backend>>
       \/ /\ part = "limiter" /\ LimiterNext
          /\ UNCHANGED <<vars, accounts, signins, limits, routes, gate, backend>>
       \/ /\ part = "gate" /\ GateNext
          /\ UNCHANGED <<vars, accounts, signins, limits, limiter, backend>>
       \/ /\ part = "backend" /\ BackendNext
          /\ UNCHANGED <<vars, accounts, signins, limits, limiter, routes, gate>>

AccessSpec ==
    /\ PartsInit
    /\ [][PartsNext]_<<part, vars, accounts, signins, limits, limiter, routes, gate,
                       backend>>

Symmetry == Permutations(Callers)
=============================================================================
