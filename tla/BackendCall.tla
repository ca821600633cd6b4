---------------------------- MODULE BackendCall ----------------------------
(***************************************************************************)
(* What the api-gateway does between the route and the answer of a request *)
(* (handlers/gateway.rs, handlers/user_service.rs, grpc/dynamic_client.rs):*)
(* it converts the HTTP request, asks the circuit breaker, and calls one   *)
(* method of one service, by a typed client or by messages that are built  *)
(* from what the service says of itself at that moment.                    *)
(*                                                                         *)
(* The service is deployed anew, stops and comes back at any time, a       *)
(* message can be lost, and the request timeout drops the handler at any   *)
(* await, when what it has sent may still be on its way.  The breaker lets *)
(* a request pass or not; GatewayRequest says when.                        *)
(***************************************************************************)
EXTENDS Naturals, FiniteSets

CONSTANTS
    Requests,     \* requests; each is sent once
    Service,      \* the full name of the service
    Methods,      \* its methods that have a route
    EmptyAnswer,  \* those whose response message is encoded in no bytes
    Versions,     \* versions of the service
    Offered,      \* the methods of each version
    Changed,      \* methods whose messages differ between versions
    MaxChanges    \* bound: how often the service is deployed, stops or starts

ASSUME BoundAssumption == MaxChanges \in Nat

VARIABLES
    call,         \* where each request is
    reply,        \* what the client was answered
    wire,         \* the messages on their way to the service
    served,       \* history: how often the service carried out each request
    deployed,     \* the version of the service
    up,           \* whether the service answers
    changes       \* changes so far, up to MaxChanges

service == <<deployed, up, changes>>
backend == <<call, reply, wire, served, service>>

\* The JSON body is not JSON, does not fit the message, or fits.
Bodies == {"broken", "misfit", "fits"}

GatewayErrors == {"ConversionError", "ServiceUnavailable", "GrpcCallFailed", "Timeout"}
GrpcErrors == {"CallFailed", "ConversionError"}

\* Messages are built by the types in the gateway or by descriptors of a version.
Schemas == Versions \cup {"typed"}

Calls ==
    [at : {"idle", "done"}]
    \cup [at : {"body", "admit", "reflect"}, method : Methods, body : Bodies, clean : BOOLEAN]
    \cup [at : {"invoke"}, method : Methods, schema : Schemas]
    \cup [at : {"answered"}, method : Methods, schema : Schemas, by : Versions]
Messages == [request : Requests, method : Methods]

BackendTypeOK ==
    /\ call \in [Requests -> Calls]
    /\ reply \in [Requests -> GatewayErrors \cup {"none", "ok"}]
    /\ wire \subseteq Messages
    /\ served \in [Requests -> 0..1]
    /\ deployed \in Versions
    /\ up \in BOOLEAN
    /\ changes \in 0..MaxChanges

BackendInit ==
    /\ call = [q \in Requests |-> [at |-> "idle"]]
    /\ reply = [q \in Requests |-> "none"]
    /\ wire = {}
    /\ served = [q \in Requests |-> 0]
    /\ deployed \in Versions
    /\ up = TRUE
    /\ changes = 0

\* map_grpc_error_to_status
Status(r) ==
    CASE r = "ConversionError" -> 400
      [] r = "ServiceUnavailable" -> 503
      [] r = "GrpcCallFailed" -> 502
      [] r = "Timeout" -> 504
      [] r = "ok" -> 200
      [] r = "none" -> 0

Answer(q, r) ==
    /\ reply' = [reply EXCEPT ![q] = r]
    /\ call' = [call EXCEPT ![q] = [at |-> "done"]]

\* Slip: what went wrong in the call is answered as it is.
CallError_slip(e) == IF e = "ConversionError" THEN e ELSE "GrpcCallFailed"

\* Err(OperationFailed(e)): whatever went wrong inside the breaker's call, also
\* before anything was sent, is a failed call.
CallError(e) == "GrpcCallFailed"
CallFails(q, e) == e \in GrpcErrors /\ Answer(q, CallError(e))

-----------------------------------------------------------------------------
(* gateway_handler_inner up to the breaker *)

Arrive(q) ==
    /\ call[q].at = "idle"
    /\ \E m \in Methods, b \in Bodies, clean \in BOOLEAN :
          call' = [call EXCEPT ![q] =
                       [at |-> "body", method |-> m, body |-> b, clean |-> clean]]
    /\ UNCHANGED <<reply, wire, served, service>>

\* sanitize_path_params refuses a parameter, or lets all of them pass.
Sanitized(c) == c.clean

\* convert_http_to_grpc: parameters, then the body, which need only be JSON.
Converts(c) == Sanitized(c) /\ c.body # "broken"

RejectRequest(q) ==
    /\ call[q].at = "body"
    /\ ~Converts(call[q])
    /\ Answer(q, "ConversionError")
    /\ UNCHANGED <<wire, served, service>>

ConvertRequest(q) ==
    /\ call[q].at = "body"
    /\ Converts(call[q])
    /\ call' = [call EXCEPT ![q].at = "admit"]
    /\ UNCHANGED <<reply, wire, served, service>>

\* Err(Open)
CircuitIsOpen(q) ==
    /\ call[q].at = "admit"
    /\ Answer(q, "ServiceUnavailable")
    /\ UNCHANGED <<wire, served, service>>

-----------------------------------------------------------------------------
(* call_backend_service *)

AuthMethods ==
    {"Login", "Register", "RefreshToken", "ValidateToken", "Logout",
     "OAuthCallback", "LinkOAuthProvider", "UnlinkOAuthProvider", "GetOAuthProviders",
     "GetOAuthAuthorizationURL", "HandleOAuthCallback",
     "GetSAMLAuthRequest", "HandleSAMLAssertion", "GetSAMLMetadata",
     "SetupMFA", "VerifyMFA", "DisableMFA", "GetMFAStatus", "ValidateMFACode"}

\* The arms of call_user_service.  A field that is missing or of another type is
\* sent as the empty string, so any JSON is encoded.
PasswordMethods == {"Register", "Login", "ValidateToken"}
OAuthMethods == {"GetOAuthAuthorizationURL", "HandleOAuthCallback"}
SamlMethods == {"GetSAMLAuthRequest", "HandleSAMLAssertion", "GetSAMLMetadata"}
TypedMethods == PasswordMethods \cup OAuthMethods \cup SamlMethods

IsTyped(m) == Service = "user.UserService" /\ m \in AuthMethods

Send(q, schema) ==
    LET m == call[q].method IN
    /\ call' = [call EXCEPT ![q] = [at |-> "invoke", method |-> m, schema |-> schema]]
    /\ wire' = wire \cup {[request |-> q, method |-> m]}
    /\ UNCHANGED reply

\* The breaker lets the call run.  Auth methods without an arm fail here.
Dispatch(q) ==
    /\ call[q].at = "admit"
    /\ IF ~IsTyped(call[q].method)
       THEN call' = [call EXCEPT ![q].at = "reflect"] /\ UNCHANGED <<reply, wire>>
       ELSE IF call[q].method \in TypedMethods
            THEN Send(q, "typed")
            ELSE CallFails(q, "ConversionError") /\ UNCHANGED wire
    /\ UNCHANGED <<served, service>>

\* json_to_protobuf by the descriptors of a version.
Encodes(c, version) == c.method \in Offered[version] /\ c.body = "fits"

\* fetch_descriptors, for every call anew: nothing keeps the pool.
FetchDescriptors(q) ==
    /\ call[q].at = "reflect"
    /\ up
    /\ IF Encodes(call[q], deployed)
       THEN Send(q, deployed)
       ELSE CallFails(q, "ConversionError") /\ UNCHANGED wire
    /\ UNCHANGED <<served, service>>

ReflectionFails(q) ==
    /\ call[q].at = "reflect"
    /\ \E e \in GrpcErrors : CallFails(q, e)
    /\ UNCHANGED <<wire, served, service>>

\* invoke_unary_bytes, and the BytesCodec: an answer of no bytes is taken for one
\* that is still to come, and then for none.
Received(c) == c.schema = "typed" \/ c.method \notin EmptyAnswer

-----------------------------------------------------------------------------
(* The service *)

Waits(q) == call[q].at = "invoke"
Sent(q) == {message \in wire : message.request = q}
Once(q) == served' = [served EXCEPT ![q] = @ + 1]

\* A message that arrives is carried out; whoever waits for it gets an answer.
Serve(message) ==
    LET q == message.request IN
    /\ message \in wire
    /\ up /\ message.method \in Offered[deployed]
    /\ wire' = wire \ {message}
    /\ Once(q)
    /\ IF ~Waits(q)
       THEN UNCHANGED <<call, reply>>
       ELSE IF Received(call[q])
            THEN /\ call' = [call EXCEPT ![q] =
                       [at |-> "answered", method |-> message.method,
                        schema |-> call[q].schema, by |-> deployed]]
                 /\ UNCHANGED reply
            ELSE CallFails(q, "CallFailed")
    /\ UNCHANGED service

\* An error, or no answer: the service refused the request, or carried it out
\* before it failed, or will when the message arrives.
InvokeFails(q) ==
    /\ Waits(q)
    /\ CallFails(q, "CallFailed")
    /\ \/ UNCHANGED <<wire, served>>
       \/ wire' = wire \ Sent(q) /\ UNCHANGED served
       \/ up /\ wire' = wire \ Sent(q) /\ Once(q)
    /\ UNCHANGED service

\* What nobody waits for any more may never arrive.
Lose(message) ==
    /\ message \in wire
    /\ ~Waits(message.request)
    /\ wire' = wire \ {message}
    /\ UNCHANGED <<call, reply, served, service>>

Change ==
    /\ changes < MaxChanges
    /\ changes' = changes + 1
    /\ \/ deployed' \in Versions \ {deployed} /\ UNCHANGED up
       \/ up' = ~up /\ UNCHANGED deployed
    /\ UNCHANGED <<call, reply, wire, served>>

-----------------------------------------------------------------------------
(* The answer *)

\* protobuf_to_json by the descriptors that were fetched before the call.
Decodes(c) == c.schema \in {"typed", c.by} \/ c.method \notin Changed

AnswerClient(q) ==
    /\ call[q].at = "answered"
    /\ Answer(q, "ok")
    /\ UNCHANGED <<wire, served, service>>

\* A message of another version may be taken for one of this, or not.
DecodeFails(q) ==
    /\ call[q].at = "answered"
    /\ ~Decodes(call[q])
    /\ CallFails(q, "ConversionError")
    /\ UNCHANGED <<wire, served, service>>

RequestTimesOut(q) ==
    /\ call[q].at \notin {"idle", "done"}
    /\ Answer(q, "Timeout")
    /\ UNCHANGED <<wire, served, service>>

Handle(q) ==
    \/ Arrive(q) \/ RejectRequest(q) \/ ConvertRequest(q) \/ CircuitIsOpen(q)
    \/ Dispatch(q) \/ FetchDescriptors(q) \/ ReflectionFails(q) \/ InvokeFails(q)
    \/ AnswerClient(q) \/ DecodeFails(q) \/ RequestTimesOut(q)

BackendNext ==
    \/ \E q \in Requests : Handle(q)
    \/ \E message \in wire : Serve(message) \/ Lose(message)
    \/ Change

BackendSpec == BackendInit /\ [][BackendNext]_backend

-----------------------------------------------------------------------------
(* Properties *)

\* The status tells the client what it must know before it sends a request again:
\* 400 and 503, that the service never got it and never will; 200, that it was
\* carried out; and no request is carried out twice.  502 and 504 say nothing,
\* the request may even be carried out later (gateway.rs:200-310).
StatusTellsEffect ==
    \A q \in Requests :
        /\ Status(reply[q]) \in {400, 503} => served[q] = 0 /\ Sent(q) = {}
        /\ Status(reply[q]) = 200 => served[q] = 1
        /\ served[q] + Cardinality(Sent(q)) <= 1
=============================================================================
