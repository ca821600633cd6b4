------------------------------- MODULE Routes -------------------------------
(***************************************************************************)
(* The routing table of the api-gateway (src/router/mod.rs), rebuilt by a  *)
(* periodic task and by an admin request out of what the backend services  *)
(* say they offer (src/discovery/service.rs, src/handlers/admin.rs).       *)
(*                                                                         *)
(* Both ask one service after the other and replace the whole table at the *)
(* end; nothing orders them.  The periodic task keeps the routes of a      *)
(* service that fails to answer, the admin request drops them.  The admin  *)
(* request does what main.rs does at startup, so startup is its first run. *)
(* A path stands for an HTTP method with a path pattern.                   *)
(***************************************************************************)
EXTENDS SequencesExt

CONSTANTS
    Order,        \* the services with auto_discover, in the order they are asked
    RpcMethods,   \* gRPC methods
    Pattern,      \* the path each method has by its name, Absent if by none
    Static,       \* the paths without a parameter
    Overrides,    \* route_overrides: [path, service] by method
    AdminPath,    \* the path of refresh_routes_handler
    MaxEdits,     \* bound: how often a service changes or stops answering
    Absent        \* no path, no route

VARIABLES
    offered,      \* the methods each service offers
    answering,    \* the services that answer
    table,        \* the routes, in the order update_routes was given them
    refresh,      \* the periodic task
    admin,        \* startup, then the admin request
    edits         \* changes of services so far, up to MaxEdits

routes == <<offered, answering, table, refresh, admin, edits>>

Services ==
    {Order[k] : k \in DOMAIN Order} \cup {Overrides[m].service : m \in DOMAIN Overrides}
Paths == {Pattern[m] : m \in RpcMethods} \cup {Overrides[m].path : m \in DOMAIN Overrides}
RouteConfigs == [path : Paths \ {Absent}, service : Services, method : RpcMethods]
Refreshers ==
    [at : {"startup", "idle", "discover", "retain", "write"},
     left : Seq(Services), found : Seq(RouteConfigs)]

\* Every override has a path, and is of a method of the protocol.
ASSUME RoutesAssumption ==
    /\ Order \in Seq(Services)
    /\ IsFiniteSet(RpcMethods)
    /\ DOMAIN Overrides \subseteq RpcMethods
    /\ \A m \in DOMAIN Overrides : Overrides[m].path # Absent
    /\ MaxEdits \in Nat

RoutesTypeOK ==
    /\ offered \in [Services -> SUBSET RpcMethods]
    /\ answering \in SUBSET Services
    /\ table \in Seq(RouteConfigs)
    /\ refresh \in Refreshers
    /\ admin \in Refreshers
    /\ edits \in 0..MaxEdits

-----------------------------------------------------------------------------
(* What one service offers *)

\* map_method: a method without a conventional name has no route.
Mapped(s) == {m \in offered[s] : Pattern[m] # Absent}
ServiceRoutes(s) ==
    LET ms == SetToSeq(Mapped(s)) IN
    [k \in DOMAIN ms |-> [path |-> Pattern[ms[k]], service |-> s, method |-> ms[k]]]

\* check_duplicates refuses a service with two methods on one path.
HasDuplicates(s) == \E m, n \in Mapped(s) : m # n /\ Pattern[m] = Pattern[n]

Answers(s) == s \in answering /\ ~HasDuplicates(s)

\* apply_overrides: a discovered route takes the path of its override; an
\* override of a method nobody offered is added.
Overridden(found) ==
    LET seen == {found[k].method : k \in DOMAIN found}
        added == SetToSeq(DOMAIN Overrides \ seen)
    IN  [k \in DOMAIN found |->
            IF found[k].method \in DOMAIN Overrides
            THEN [found[k] EXCEPT !.path = Overrides[found[k].method].path]
            ELSE found[k]]
        \o [k \in DOMAIN added |->
            [path |-> Overrides[added[k]].path, service |-> Overrides[added[k]].service,
             method |-> added[k]]]

\* The routes of a list at some of its places, in their order.
Kept(list, places) ==
    [n \in 1..Cardinality(places) |->
        list[CHOOSE k \in places : Cardinality({j \in places : j <= k}) = n]]

\* deduplicate_routes keeps the first route of a path.
Deduplicated(found) ==
    Kept(found, {k \in DOMAIN found : \A j \in 1..(k - 1) : found[j].path # found[k].path})

-----------------------------------------------------------------------------
(* The router *)

\* Static routes are in a map, where the last one of a path stays; the others
\* are in a list, where the first one that matches is found.
Route(path) ==
    LET K == {k \in DOMAIN table : table[k].path = path} IN
    IF K = {} THEN Absent
    ELSE table[CHOOSE k \in K : \A j \in K : IF path \in Static THEN j <= k ELSE k <= j]

GetRoutesForService(s) == Kept(table, {k \in DOMAIN table : table[k].service = s})
UpdateRoutes(found) == table' = found

-----------------------------------------------------------------------------
(* One run over the services *)

Resting == [at |-> "idle", left |-> << >>, found |-> << >>]

\* The next service is asked, or nobody is left to ask.
Ask(left, found) ==
    [at |-> IF left = << >> THEN "write" ELSE "discover", left |-> left, found |-> found]
Begin == Ask(Order, << >>)
Advance(task, more) == Ask(Tail(task.left), task.found \o more)

\* The next run of the periodic task.
NextRun ==
    /\ refresh.at = "idle"
    /\ refresh' = Begin
    /\ UNCHANGED <<offered, answering, table, admin, edits>>

\* Slip: an answer without methods counts as none.
Discover_slip ==
    /\ refresh.at = "discover"
    /\ refresh' = IF Answers(Head(refresh.left)) /\ Mapped(Head(refresh.left)) # {}
                  THEN Advance(refresh, ServiceRoutes(Head(refresh.left)))
                  ELSE [refresh EXCEPT !.at = "retain"]
    /\ UNCHANGED <<offered, answering, table, admin, edits>>

\* discover_service_routes in the periodic task: a service without methods
\* loses its routes; one that cannot be asked, or offers duplicates, keeps them.
Discover ==
    /\ refresh.at = "discover"
    /\ refresh' = IF Answers(Head(refresh.left))
                  THEN Advance(refresh, ServiceRoutes(Head(refresh.left)))
                  ELSE [refresh EXCEPT !.at = "retain"]
    /\ UNCHANGED <<offered, answering, table, admin, edits>>

\* The routes that are kept are read later, under the lock of the router.
Retain ==
    /\ refresh.at = "retain"
    /\ refresh' = Advance(refresh, GetRoutesForService(Head(refresh.left)))
    /\ UNCHANGED <<offered, answering, table, admin, edits>>

\* Overrides, one route per path, and the new table.
Write ==
    /\ refresh.at = "write"
    /\ UpdateRoutes(Deduplicated(Overridden(refresh.found)))
    /\ refresh' = Resting
    /\ UNCHANGED <<offered, answering, admin, edits>>

RefreshStep == NextRun \/ Discover \/ Retain \/ Write

\* refresh_routes_handler is behind the authentication middleware, which
\* answers 404 for a path without a route.
AdminRefresh ==
    /\ admin.at = "idle"
    /\ Route(AdminPath) # Absent
    /\ admin' = Begin
    /\ UNCHANGED <<offered, answering, table, refresh, edits>>

\* discover_routes skips a service that fails.
AdminDiscover ==
    /\ admin.at = "discover"
    /\ LET s == Head(admin.left)
       IN  admin' = Advance(admin, IF Answers(s) THEN ServiceRoutes(s) ELSE << >>)
    /\ UNCHANGED <<offered, answering, table, refresh, edits>>

AdminWrite ==
    /\ admin.at = "write"
    /\ UpdateRoutes(Overridden(admin.found))
    /\ admin' = Resting
    /\ refresh' = IF refresh.at = "startup" THEN Resting ELSE refresh
    /\ UNCHANGED <<offered, answering, edits>>

\* A service is deployed anew, stops or comes back.
Redeploy(s) ==
    /\ edits < MaxEdits
    /\ edits' = edits + 1
    /\ \/ /\ offered' \in {[offered EXCEPT ![s] = ms] : ms \in SUBSET RpcMethods}
          /\ UNCHANGED answering
       \/ /\ answering' \in {answering \cup {s}, answering \ {s}}
          /\ UNCHANGED offered
    /\ UNCHANGED <<table, refresh, admin>>

RoutesInit ==
    /\ offered \in [Services -> SUBSET RpcMethods]
    /\ answering \in SUBSET Services
    /\ table = << >>
    /\ refresh = [Resting EXCEPT !.at = "startup"]
    /\ admin = Begin
    /\ edits = 0

RoutesNext ==
    \/ RefreshStep
    \/ AdminRefresh \/ AdminDiscover \/ AdminWrite
    \/ \E s \in Services : Redeploy(s)

\* The periodic task keeps running, and a run that started comes to its end.
RefreshGoesOn == WF_routes(RefreshStep)
AdminEnds == WF_routes(AdminDiscover \/ AdminWrite)

RoutesSpec == RoutesInit /\ [][RoutesNext]_routes /\ RefreshGoesOn /\ AdminEnds

-----------------------------------------------------------------------------
(* Properties *)

Offers == FlattenSeq([k \in DOMAIN Order |-> ServiceRoutes(Order[k])])
Candidates(path) ==
    LET all == Overridden(Offers) IN {all[k] : k \in {j \in DOMAIN all : all[j].path = path}}

AllAnswer == \A k \in DOMAIN Order : Answers(Order[k])
TableIsFresh ==
    \A path \in Paths \ {Absent} :
        IF Candidates(path) = {} THEN Route(path) = Absent ELSE Route(path) \in Candidates(path)

\* Once every service answers for good the table becomes, and stays, what the
\* services and the overrides say: neither a refresh that was under way, nor
\* routes kept for a service that was down, nor an admin request undo it
\* (start_refresh_task, refresh_routes_handler).
RoutesConverge == <>[]AllAnswer => <>[]TableIsFresh
=============================================================================
