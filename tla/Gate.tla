-------------------------------- MODULE Gate --------------------------------
(***************************************************************************)
(* Requests that pass the authentication middleware of the api-gateway     *)
(* (src/auth/middleware.rs, src/auth/service.rs) and reach its handler     *)
(* while the routing table is rebuilt and services change their policies.  *)
(*                                                                         *)
(* A request looks up its route once; the decision travels with it.  The   *)
(* policy of the route is cached by service and method; a request that     *)
(* finds none asks the service and writes the answer later, under another  *)
(* lock, so that an older answer may replace a newer one.  A cached policy *)
(* may expire at any time.  A request that is refused is idle again.       *)
(***************************************************************************)
EXTENDS Routes

CONSTANTS
    Arrivals,     \* requests in flight
    Public,       \* public_routes
    Claims,       \* the roles in each valid token; Absent stands for every other one
    Policies      \* what a service may answer: [auth, roles]

VARIABLES
    policies,     \* the policy each service has for each method
    cache,        \* policy_cache: <<service, method, policy>>
    request,      \* where each request is
    answered      \* history: <<service, method, policy>> that was ever answered

gate == <<policies, cache, request, answered>>

\* Fail-secure: the policy of a service that does not answer.
Fallback == [auth |-> TRUE, roles |-> {}]
Open == [auth |-> FALSE, roles |-> {}]

Tokens == DOMAIN Claims \cup {Absent}
RequestStates ==
    [at : {"idle"}]
    \cup [at : {"policy", "query", "store", "check", "forward", "sent"},
          path : Paths \ {Absent}, token : Tokens, route : RouteConfigs,
          policy : Policies \cup {Fallback, Open}]

GateTypeOK ==
    /\ RoutesTypeOK
    /\ policies \in [Services -> [RpcMethods -> Policies]]
    /\ cache \subseteq Services \X RpcMethods \X Policies
    /\ \A d, e \in cache : d[1] = e[1] /\ d[2] = e[2] => d = e
    /\ request \in [Arrivals -> RequestStates]
    /\ answered \subseteq Services \X RpcMethods \X Policies

Pass(r, state) == request' = [request EXCEPT ![r] = state]
Drop(r) == Pass(r, [at |-> "idle"])
Proceed(r, place) == Pass(r, [request[r] EXCEPT !.at = place])
WithPolicy(r, place, policy) ==
    Pass(r, [request[r] EXCEPT !.at = place, !.policy = policy])

-----------------------------------------------------------------------------
(* auth_middleware *)

\* The route is looked up; a public one needs no policy.
Enter(r, path, token) ==
    /\ request[r].at = "idle"
    /\ Route(path) # Absent
    /\ Pass(r, [at |-> IF path \in Public THEN "forward" ELSE "policy",
                  path |-> path, token |-> token, route |-> Route(path),
                  policy |-> Open])
    /\ UNCHANGED <<policies, cache, answered>>

Cached(route) == {e \in cache : e[1] = route.service /\ e[2] = route.method}

\* get_auth_policy: a valid entry of the cache is used.
ReadPolicy(r) ==
    /\ request[r].at = "policy"
    /\ \/ \E e \in Cached(request[r].route) : WithPolicy(r, "check", e[3])
       \/ Cached(request[r].route) = {} /\ Proceed(r, "query")
    /\ UNCHANGED <<policies, cache, answered>>

\* Slip: the fallback is cached as well.
QueryPolicy_slip(r) ==
    LET route == request[r].route
        policy == policies[route.service][route.method]
    IN  /\ request[r].at = "query"
        /\ \/ /\ route.service \in answering
              /\ WithPolicy(r, "store", policy)
              /\ answered' = answered \cup {<<route.service, route.method, policy>>}
           \/ /\ WithPolicy(r, "store", Fallback)
              /\ UNCHANGED answered
        /\ UNCHANGED <<policies, cache>>

\* The service answers, or does not.
QueryPolicy(r) ==
    LET route == request[r].route
        policy == policies[route.service][route.method]
    IN  /\ request[r].at = "query"
        /\ \/ /\ route.service \in answering
              /\ WithPolicy(r, "store", policy)
              /\ answered' = answered \cup {<<route.service, route.method, policy>>}
           \/ /\ WithPolicy(r, "check", Fallback)
              /\ UNCHANGED answered
        /\ UNCHANGED <<policies, cache>>

StorePolicy(r) ==
    LET q == request[r] IN
    /\ q.at = "store"
    /\ cache' = (cache \ Cached(q.route)) \cup {<<q.route.service, q.route.method, q.policy>>}
    /\ Proceed(r, "check")
    /\ UNCHANGED <<policies, answered>>

Expire(e) ==
    /\ cache' = cache \ {e}
    /\ UNCHANGED <<policies, request, answered>>

\* check_authorization: a valid token, with one of the roles if there are any.
Admits(policy, token) ==
    \/ ~policy.auth
    \/ /\ token # Absent
       /\ policy.roles = {} \/ Claims[token] \cap policy.roles # {}

\* Refused, or the user service failed to validate the token.
CheckAuthorization(r) ==
    /\ request[r].at = "check"
    /\ \/ Admits(request[r].policy, request[r].token) /\ Proceed(r, "forward")
       \/ request[r].policy.auth /\ Drop(r)
    /\ UNCHANGED <<policies, cache, answered>>

-----------------------------------------------------------------------------
(* gateway_handler_inner *)

\* Slip: the route is looked up again.
Forward_slip(r) ==
    /\ request[r].at = "forward"
    /\ IF Route(request[r].path) # Absent
       THEN Pass(r, [request[r] EXCEPT !.at = "sent", !.route = Route(request[r].path)])
       ELSE Drop(r)
    /\ UNCHANGED <<policies, cache, answered>>

\* The backend is called with the decision the middleware left.
Forward(r) ==
    /\ request[r].at = "forward"
    /\ Proceed(r, "sent")
    /\ UNCHANGED <<policies, cache, answered>>

Finish(r) ==
    /\ request[r].at \in {"forward", "sent"}
    /\ Drop(r)
    /\ UNCHANGED <<policies, cache, answered>>

-----------------------------------------------------------------------------
\* A service is deployed with another policy.
ChangePolicy(s, m) ==
    /\ edits < MaxEdits
    /\ edits' = edits + 1
    /\ policies' \in {[policies EXCEPT ![s][m] = p] : p \in Policies}
    /\ UNCHANGED <<offered, answering, table, refresh, admin, cache, request, answered>>

GateInit ==
    /\ RoutesInit
    /\ policies \in [Services -> [RpcMethods -> Policies]]
    /\ cache = {}
    /\ request = [r \in Arrivals |-> [at |-> "idle"]]
    /\ answered = {}

RequestStep(r) ==
    \/ \E path \in Paths \ {Absent}, token \in Tokens : Enter(r, path, token)
    \/ ReadPolicy(r) \/ QueryPolicy(r) \/ StorePolicy(r)
    \/ CheckAuthorization(r) \/ Forward(r) \/ Finish(r)

GateNext ==
    \/ (\E r \in Arrivals : RequestStep(r)) /\ UNCHANGED routes
    \/ (\E e \in cache : Expire(e)) /\ UNCHANGED routes
    \/ \E s \in Services, m \in RpcMethods : ChangePolicy(s, m)
    \/ RoutesNext /\ UNCHANGED gate

GateSpec == GateInit /\ [][GateNext]_<<routes, gate>>

-----------------------------------------------------------------------------
(* Properties *)

\* What a backend is called with was admitted for exactly that service and
\* method: by a public path, by a policy that service answered for that method,
\* or, when it did not answer, by a valid token; whatever happened to the table
\* and to the cache between the lookup and the call.
AdmittedByPolicy ==
    \A r \in Arrivals : request[r].at = "sent" =>
        LET q == request[r] IN
        \/ q.path \in Public
        \/ q.policy = Fallback /\ q.token # Absent
        \/ /\ <<q.route.service, q.route.method, q.policy>> \in answered
           /\ q.policy.auth => q.token # Absent
           /\ q.policy.auth /\ q.policy.roles # {} =>
                Claims[q.token] \cap q.policy.roles # {}
=============================================================================
