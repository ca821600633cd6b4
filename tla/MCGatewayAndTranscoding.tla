---------------------- MODULE MCGatewayAndTranscoding ----------------------
(* The parts that are fair, for TLC: requests at the breaker of the           *)
(* api-gateway, its routing table, and the transcoding of the                 *)
(* content-management-service.  They share no state here, so a behaviour runs *)
(* one of them, chosen in its first state, and their states add up.           *)
EXTENDS GatewayRequest, Transcoding, TLC

VARIABLES
    part,
    offered, answering, table, refresh, admin, edits

\* Two services that may offer the same path by name; a method of the second
\* has an override, on the path of the admin request.
R == INSTANCE Routes WITH
    Order <- <<"a", "b">>, RpcMethods <- {"m1", "m2"},
    Pattern <- [m \in {"m1", "m2"} |-> "/x"], Static <- {"/x", "/z"},
    Overrides <- ("m2" :> [path |-> "/z", service |-> "b"]), AdminPath <- "/z",
    MaxEdits <- 1, Absent <- None

tableVars == <<offered, answering, table, refresh, admin, edits>>

\* The table starts from every state of the services.
PartsInit ==
    /\ part \in {"request", "routes", "transcoding"}
    /\ RequestInit
    /\ R!RoutesInit
    /\ part # "routes" => answering = {} /\ \A s \in {"a", "b"} : offered[s] = {}
    /\ TranscodingInit

PartsNext ==
    /\ UNCHANGED part
    /\ \/ part = "request" /\ RequestNext /\ UNCHANGED <<tableVars, transcoding>>
       \/ part = "routes" /\ R!RoutesNext /\ UNCHANGED <<requestVars, transcoding>>
       \/ /\ part = "transcoding" /\ TranscodingNext
          /\ UNCHANGED <<requestVars, tableVars>>

\* The fairness each part states, for the behaviours of that part.
PartsSpec ==
    /\ PartsInit /\ [][PartsNext]_<<part, requestVars, tableVars, transcoding>>
    /\ \A t \in Tasks : WF_requestVars(RequestTimesOut(t))
    /\ part = "routes" => R!RefreshGoesOn /\ R!AdminEnds
    /\ TranscodingFairness

-----------------------------------------------------------------------------
(* The properties of the parts; those of GatewayRequest and Transcoding are    *)
(* used as they are.                                                          *)

\* When all services answer for good, the table becomes what they say (Routes).
RoutesConverge == part = "routes" => R!RoutesConverge
=============================================================================
