--------------------------- MODULE Access_proofs ----------------------------
(***************************************************************************)
(* For every set of requests, every service with its methods and versions, *)
(* and any number of deployments: the status a client is answered tells it *)
(* whether the service carried the request out, and no request is carried  *)
(* out twice.                                                              *)
(*                                                                         *)
(* And for the limits in front of it, for any clients, attempts, capacity  *)
(* and windows: every attempt that Redis let in and that still counts has  *)
(* a place of its own that the counter is past, every other that was on    *)
(* time is in the list, until one of the two is lost; what the gateway     *)
(* admitted to a client in the window is in its queue as long as the cache *)
(* keeps it, since a queue is only cut where it is old.                    *)
(***************************************************************************)
EXTENDS BackendCall, Limits, FiniteSetTheorems, SequenceTheorems,
        WellFoundedInduction, TLAPS

Unsent(q) == served[q] = 0 /\ Sent(q) = {}
Done(q) == served[q] = 1 /\ Sent(q) = {}

\* What is known of a request by where it is and by what was answered.  A request
\* that was answered 502 or 504 may still have its one message under way.
Accounted(q) ==
    /\ call[q].at # "done" => reply[q] = "none"
    /\ call[q].at \in {"idle", "body", "admit", "reflect"} => Unsent(q)
    /\ call[q].at = "invoke" => served[q] = 0
    /\ call[q].at = "answered" => Done(q)
    /\ reply[q] \in {"ConversionError", "ServiceUnavailable"} => Unsent(q)
    /\ reply[q] = "ok" => Done(q)
    /\ served[q] = 1 => Sent(q) = {}
    /\ \A m, n \in Sent(q) : m = n

\* The inductive invariant.
IInv == BackendTypeOK /\ \A q \in Requests : Accounted(q)

-----------------------------------------------------------------------------
(* The types *)

\* What an answer leaves of a request.
LEMMA AnswerTypes ==
    ASSUME BackendTypeOK, NEW q \in Requests, NEW r \in GatewayErrors \cup {"ok"},
           Answer(q, r)
    PROVE  /\ call' \in [Requests -> Calls]
           /\ reply' \in [Requests -> GatewayErrors \cup {"none", "ok"}]
<1>1. [at |-> "done"] \in Calls
    BY DEF Calls
<1> QED BY <1>1 DEF Answer, BackendTypeOK

\* Whatever goes wrong in the call, the client is answered 502.
LEMMA FailureIsAnswer ==
    ASSUME NEW q, NEW e, CallFails(q, e)
    PROVE  Answer(q, "GrpcCallFailed")
    BY DEF CallFails, CallError

\* A record of a stage before the call has these fields.
LEMMA EarlyCall ==
    ASSUME NEW c \in Calls, c.at \in {"body", "admit", "reflect"}
    PROVE  c \in [at : {"body", "admit", "reflect"}, method : Methods, body : Bodies,
                  clean : BOOLEAN]
    BY DEF Calls

LEMMA InvokedCall ==
    ASSUME NEW c \in Calls, c.at = "invoke"
    PROVE  c \in [at : {"invoke"}, method : Methods, schema : Schemas]
    BY DEF Calls

LEMMA NextStage ==
    ASSUME BackendTypeOK, NEW q \in Requests, NEW stage \in {"admit", "reflect"},
           call[q].at \in {"body", "admit", "reflect"},
           call' = [call EXCEPT ![q].at = stage]
    PROVE  call' \in [Requests -> Calls] /\ call'[q].at = stage
<1>1. call[q] \in [at : {"body", "admit", "reflect"}, method : Methods, body : Bodies,
                   clean : BOOLEAN]
    BY EarlyCall DEF BackendTypeOK
<1>2. [call[q] EXCEPT !.at = stage] \in Calls
    BY <1>1 DEF Calls
<1>3. [call[q] EXCEPT !.at = stage].at = stage
    BY <1>1
<1> QED BY <1>2, <1>3 DEF BackendTypeOK

\* What sending leaves of a request.
LEMMA SendTypes ==
    ASSUME BackendTypeOK, NEW q \in Requests, NEW schema \in Schemas,
           call[q].at \in {"admit", "reflect"}, Send(q, schema)
    PROVE  /\ call' \in [Requests -> Calls]
           /\ call'[q].at = "invoke"
           /\ wire' \subseteq Messages
           /\ \E m \in Methods : wire' = wire \cup {[request |-> q, method |-> m]}
<1>1. call[q].method \in Methods
    BY EarlyCall DEF BackendTypeOK
<1>2. [at |-> "invoke", method |-> call[q].method, schema |-> schema] \in Calls
    BY <1>1 DEF Calls
<1> QED BY <1>1, <1>2 DEF Send, BackendTypeOK, Messages

-----------------------------------------------------------------------------
(* The steps *)

\* A step leaves the other requests alone.
Alone(p) ==
    /\ call'[p] = call[p] /\ reply'[p] = reply[p] /\ served'[p] = served[p]
    /\ Sent(p)' = Sent(p)

LEMMA AloneStaysAccounted ==
    ASSUME NEW p, Accounted(p), Alone(p)
    PROVE  Accounted(p)'
    BY DEF Accounted, Alone, Unsent, Done

\* A message is of one request only.
LEMMA OwnMessages ==
    ASSUME NEW q, NEW p, p # q
    PROVE  Sent(q) \cap Sent(p) = {}
    BY DEF Sent

\* What is left of a request that is answered without another effect.
LEMMA AnswerStep ==
    ASSUME IInv, NEW q \in Requests, NEW r \in GatewayErrors \cup {"ok"},
           Answer(q, r), UNCHANGED <<wire, served, service>>,
           r \in {"ConversionError", "ServiceUnavailable"} => Unsent(q),
           r = "ok" => Done(q)
    PROVE  IInv'
<1>1. BackendTypeOK'
    BY AnswerTypes DEF IInv, BackendTypeOK, service
<1>2. call'[q].at = "done" /\ reply'[q] = r
    BY DEF Answer, IInv, BackendTypeOK
<1>3. Accounted(q)'
    BY <1>2 DEF IInv, Accounted, Unsent, Done, Sent
<1>4. ASSUME NEW p \in Requests, p # q PROVE Accounted(p)'
    <2>1. Alone(p)
        BY <1>4 DEF Alone, Answer, IInv, BackendTypeOK, Sent
    <2> QED BY <2>1, AloneStaysAccounted DEF IInv
<1> QED BY <1>1, <1>3, <1>4 DEF IInv

\* A request that moves on before it is sent.
LEMMA StageStep ==
    ASSUME IInv, NEW q \in Requests, NEW stage \in {"body", "admit", "reflect"},
           call' \in [Requests -> Calls], call'[q].at = stage,
           \A p \in Requests \ {q} : call'[p] = call[p],
           call[q].at \in {"idle", "body", "admit", "reflect"},
           UNCHANGED <<reply, wire, served, service>>
    PROVE  IInv'
<1>1. BackendTypeOK'
    BY DEF IInv, BackendTypeOK, service
<1>2. Accounted(q)'
    BY DEF IInv, Accounted, Unsent, Done, Sent
<1>3. ASSUME NEW p \in Requests, p # q PROVE Accounted(p)'
    <2>1. Alone(p)
        BY <1>3 DEF Alone, Sent
    <2> QED BY <2>1, AloneStaysAccounted DEF IInv
<1> QED BY <1>1, <1>2, <1>3 DEF IInv

\* A request that is sent has one message, and was not carried out.
LEMMA SendStep ==
    ASSUME IInv, NEW q \in Requests, NEW schema \in Schemas,
           call[q].at \in {"admit", "reflect"}, Send(q, schema),
           UNCHANGED <<served, service>>
    PROVE  IInv'
<1>1. BackendTypeOK' /\ call'[q].at = "invoke"
    BY SendTypes DEF IInv, BackendTypeOK, Send, service
<1>2. PICK m \in Methods : wire' = wire \cup {[request |-> q, method |-> m]}
    BY SendTypes DEF IInv
<1>3. Unsent(q) /\ reply[q] = "none"
    BY DEF IInv, Accounted
<1>4. Sent(q)' = {[request |-> q, method |-> m]}
    BY <1>2, <1>3 DEF Unsent, Sent
<1>5. Accounted(q)'
    BY <1>1, <1>3, <1>4 DEF Accounted, Unsent, Done, Send
<1>6. ASSUME NEW p \in Requests, p # q PROVE Accounted(p)'
    <2>1. Alone(p)
        BY <1>2, <1>6 DEF Alone, Send, Sent, IInv, BackendTypeOK
    <2> QED BY <2>1, AloneStaysAccounted DEF IInv
<1> QED BY <1>1, <1>5, <1>6 DEF IInv

\* The messages of a request that waits, or its only one, leave the wire; it is
\* carried out or not.
LEMMA WireStep ==
    ASSUME IInv, NEW q \in Requests, NEW M,
           M \subseteq Sent(q), wire' = wire \ M, UNCHANGED service,
           call' \in [Requests -> Calls],
           reply' \in [Requests -> GatewayErrors \cup {"none", "ok"}],
           \A p \in Requests \ {q} : call'[p] = call[p] /\ reply'[p] = reply[p],
           \/ /\ call'[q] = call[q] /\ reply'[q] = reply[q]
              /\ Sent(q) # {} /\ call[q].at # "invoke"
           \/ call'[q].at = "done" /\ reply'[q] = "GrpcCallFailed"
           \/ /\ call'[q].at = "answered" /\ reply'[q] = "none"
              /\ M = Sent(q) /\ Once(q),
           \/ served' = served
           \/ Once(q) /\ M = Sent(q) /\ served[q] = 0
    PROVE  IInv'
<1>1. BackendTypeOK'
    BY DEF IInv, BackendTypeOK, Once, service
<1>2. Sent(q)' = Sent(q) \ M
    BY DEF Sent
<1>3. Accounted(q)'
    <2>1. Accounted(q) /\ served[q] \in 0..1
        BY DEF IInv, BackendTypeOK
    <2>2. served'[q] = served[q] \/ (served'[q] = 1 /\ M = Sent(q) /\ served[q] = 0)
        BY <2>1 DEF Once, IInv, BackendTypeOK
    <2>3. CASE call'[q] = call[q] /\ reply'[q] = reply[q] /\ Sent(q) # {} /\ call[q].at # "invoke"
        <3>1. ~Unsent(q) /\ ~Done(q)
            BY <2>3 DEF Unsent, Done
        <3> QED BY <1>2, <2>1, <2>2, <2>3, <3>1 DEF Accounted, Unsent, Done
    <2>4. CASE call'[q].at = "done" /\ reply'[q] = "GrpcCallFailed"
        BY <1>2, <2>1, <2>2, <2>4 DEF Accounted, Unsent, Done
    <2>5. CASE /\ call'[q].at = "answered" /\ reply'[q] = "none"
               /\ M = Sent(q) /\ Once(q)
        <3>1. served'[q] = 1
            BY <2>1, <2>2, <2>5 DEF Once, IInv, BackendTypeOK
        <3> QED BY <1>2, <2>1, <2>5, <3>1 DEF Accounted, Unsent, Done
    <2> QED BY <2>3, <2>4, <2>5
<1>4. ASSUME NEW p \in Requests, p # q PROVE Accounted(p)'
    <2>1. Sent(p)' = Sent(p)
        BY <1>4, OwnMessages DEF Sent
    <2>2. served'[p] = served[p]
        BY <1>4 DEF Once, IInv, BackendTypeOK
    <2>3. Alone(p)
        BY <1>4, <2>1, <2>2 DEF Alone
    <2> QED BY <2>3, AloneStaysAccounted DEF IInv
<1> QED BY <1>1, <1>3, <1>4 DEF IInv

LEMMA FailStep ==
    ASSUME IInv, NEW q \in Requests, NEW e, CallFails(q, e),
           UNCHANGED <<wire, served, service>>
    PROVE  IInv'
    BY FailureIsAnswer, AnswerStep DEF GatewayErrors

LEMMA ArriveStep == ASSUME IInv, NEW q \in Requests, Arrive(q) PROVE IInv'
<1>1. PICK m \in Methods, b \in Bodies, clean \in BOOLEAN :
          call' = [call EXCEPT ![q] =
                       [at |-> "body", method |-> m, body |-> b, clean |-> clean]]
    BY DEF Arrive
<1>2. [at |-> "body", method |-> m, body |-> b, clean |-> clean] \in Calls
    BY DEF Calls
<1>3. call' \in [Requests -> Calls] /\ call'[q].at = "body"
    BY <1>1, <1>2 DEF IInv, BackendTypeOK
<1>4. \A p \in Requests \ {q} : call'[p] = call[p]
    BY <1>1 DEF IInv, BackendTypeOK
<1> QED BY <1>3, <1>4, StageStep DEF Arrive

LEMMA RejectStep == ASSUME IInv, NEW q \in Requests, RejectRequest(q) PROVE IInv'
<1>1. Unsent(q)
    BY DEF RejectRequest, IInv, Accounted
<1> QED BY <1>1, AnswerStep DEF RejectRequest, GatewayErrors

LEMMA ConvertStep == ASSUME IInv, NEW q \in Requests, ConvertRequest(q) PROVE IInv'
<1>1. call' \in [Requests -> Calls] /\ call'[q].at = "admit"
    BY NextStage DEF ConvertRequest, IInv
<1>2. \A p \in Requests \ {q} : call'[p] = call[p]
    BY DEF ConvertRequest, IInv, BackendTypeOK
<1> QED BY <1>1, <1>2, StageStep DEF ConvertRequest

LEMMA OpenStep == ASSUME IInv, NEW q \in Requests, CircuitIsOpen(q) PROVE IInv'
<1>1. Unsent(q)
    BY DEF CircuitIsOpen, IInv, Accounted
<1> QED BY <1>1, AnswerStep DEF CircuitIsOpen, GatewayErrors

\* By reflection, by a typed client, or not at all.
LEMMA DispatchStep == ASSUME IInv, NEW q \in Requests, Dispatch(q) PROVE IInv'
<1>1. CASE /\ call' = [call EXCEPT ![q].at = "reflect"]
           /\ UNCHANGED <<reply, wire, served, service>>
    <2>1. call' \in [Requests -> Calls] /\ call'[q].at = "reflect"
        BY <1>1, NextStage DEF Dispatch, IInv
    <2>2. \A p \in Requests \ {q} : call'[p] = call[p]
        BY <1>1 DEF IInv, BackendTypeOK
    <2> QED BY <1>1, <2>1, <2>2, StageStep DEF Dispatch
<1>2. CASE Send(q, "typed") /\ UNCHANGED <<served, service>>
    BY <1>2, SendStep DEF Dispatch, Schemas
<1>3. CASE CallFails(q, "ConversionError") /\ UNCHANGED <<wire, served, service>>
    BY <1>3, FailStep
<1> QED BY <1>1, <1>2, <1>3 DEF Dispatch

LEMMA FetchStep == ASSUME IInv, NEW q \in Requests, FetchDescriptors(q) PROVE IInv'
<1>1. CASE Send(q, deployed) /\ UNCHANGED <<served, service>>
    BY <1>1, SendStep DEF FetchDescriptors, Schemas, IInv, BackendTypeOK
<1>2. CASE CallFails(q, "ConversionError") /\ UNCHANGED <<wire, served, service>>
    BY <1>2, FailStep
<1> QED BY <1>1, <1>2 DEF FetchDescriptors

LEMMA InvokeFailsStep == ASSUME IInv, NEW q \in Requests, InvokeFails(q) PROVE IInv'
<1>1. Answer(q, "GrpcCallFailed")
    BY FailureIsAnswer DEF InvokeFails
<1>2. /\ call' \in [Requests -> Calls]
      /\ reply' \in [Requests -> GatewayErrors \cup {"none", "ok"}]
    BY <1>1, AnswerTypes DEF IInv, GatewayErrors
<1>3. call'[q].at = "done" /\ reply'[q] = "GrpcCallFailed"
    BY <1>1 DEF Answer, IInv, BackendTypeOK
<1>4. \A p \in Requests \ {q} : call'[p] = call[p] /\ reply'[p] = reply[p]
    BY <1>1 DEF Answer, IInv, BackendTypeOK
<1>5. served[q] = 0
    BY DEF InvokeFails, Waits, IInv, Accounted
<1>6. CASE UNCHANGED <<wire, served, service>>
    <2> DEFINE M == {}
    <2>1. wire' = wire \ M /\ M \subseteq Sent(q) /\ served' = served /\ UNCHANGED service
        BY <1>6
    <2> HIDE DEF M
    <2> QED BY <1>2, <1>3, <1>4, <2>1, WireStep
<1>7. CASE wire' = wire \ Sent(q) /\ UNCHANGED <<served, service>>
    BY <1>2, <1>3, <1>4, <1>7, WireStep
<1>8. CASE wire' = wire \ Sent(q) /\ Once(q) /\ UNCHANGED service
    BY <1>2, <1>3, <1>4, <1>5, <1>8, WireStep
<1> QED BY <1>6, <1>7, <1>8 DEF InvokeFails

\* The message that arrives is the only one of its request, which was not carried
\* out before.
LEMMA ServeStep == ASSUME IInv, NEW message \in wire, Serve(message) PROVE IInv'
<1> DEFINE q == message.request
<1>1. q \in Requests /\ message \in Sent(q)
    BY DEF IInv, BackendTypeOK, Messages, Sent
<1>2. Sent(q) = {message} /\ served[q] = 0
    BY <1>1 DEF IInv, BackendTypeOK, Accounted
<1>3. wire' = wire \ Sent(q) /\ Once(q) /\ UNCHANGED service
    BY <1>2 DEF Serve
<1>4. CASE ~Waits(q) /\ UNCHANGED <<call, reply>>
    BY <1>1, <1>2, <1>3, <1>4, WireStep DEF Waits, IInv, BackendTypeOK
<1>5. CASE CallFails(q, "CallFailed")
    <2>1. Answer(q, "GrpcCallFailed")
        BY <1>5, FailureIsAnswer
    <2>2. /\ call' \in [Requests -> Calls]
          /\ reply' \in [Requests -> GatewayErrors \cup {"none", "ok"}]
        BY <1>1, <2>1, AnswerTypes DEF IInv, GatewayErrors
    <2>3. call'[q].at = "done" /\ reply'[q] = "GrpcCallFailed"
        BY <1>1, <2>1 DEF Answer, IInv, BackendTypeOK
    <2>4. \A p \in Requests \ {q} : call'[p] = call[p] /\ reply'[p] = reply[p]
        BY <1>1, <2>1 DEF Answer, IInv, BackendTypeOK
    <2> QED BY <1>1, <1>2, <1>3, <2>2, <2>3, <2>4, WireStep
<1>6. CASE /\ Waits(q) /\ UNCHANGED reply
           /\ call' = [call EXCEPT ![q] = [at |-> "answered", method |-> message.method,
                                          schema |-> call[q].schema, by |-> deployed]]
    <2>1. call[q].schema \in Schemas /\ message.method \in Methods
        BY <1>1, <1>6, InvokedCall DEF Waits, IInv, BackendTypeOK, Messages
    <2>2. [at |-> "answered", method |-> message.method, schema |-> call[q].schema,
           by |-> deployed] \in Calls
        BY <2>1 DEF Calls, IInv, BackendTypeOK
    <2>3. call' \in [Requests -> Calls] /\ call'[q].at = "answered"
        BY <1>1, <1>6, <2>2 DEF IInv, BackendTypeOK
    <2>4. reply'[q] = "none"
        BY <1>1, <1>6 DEF Waits, IInv, Accounted
    <2>5. \A p \in Requests \ {q} : call'[p] = call[p] /\ reply'[p] = reply[p]
        BY <1>1, <1>6 DEF IInv, BackendTypeOK
    <2>6. reply' \in [Requests -> GatewayErrors \cup {"none", "ok"}]
        BY <1>6 DEF IInv, BackendTypeOK
    <2> QED BY <1>1, <1>2, <1>3, <2>3, <2>4, <2>5, <2>6, WireStep
<1> QED BY <1>4, <1>5, <1>6 DEF Serve

LEMMA LoseStep == ASSUME IInv, NEW message \in wire, Lose(message) PROVE IInv'
<1> DEFINE q == message.request
<1>1. q \in Requests /\ message \in Sent(q)
    BY DEF IInv, BackendTypeOK, Messages, Sent
<1>2. wire' = wire \ {message} /\ UNCHANGED service
    BY DEF Lose
<1> QED BY <1>1, <1>2, WireStep DEF Lose, Waits, IInv, BackendTypeOK

LEMMA ChangeStep == ASSUME IInv, Change PROVE IInv'
<1>1. BackendTypeOK'
    <2>1. changes' \in 0..MaxChanges
        BY BoundAssumption DEF IInv, BackendTypeOK, Change
    <2>2. up' \in BOOLEAN
        BY Zenon DEF IInv, BackendTypeOK, Change
    <2>3. deployed' \in Versions
        BY Zenon DEF IInv, BackendTypeOK, Change
    <2> QED BY <2>1, <2>2, <2>3 DEF IInv, BackendTypeOK, Change
<1>2. \A q \in Requests : Alone(q)
    BY DEF Change, Alone, Sent
<1> QED BY <1>1, <1>2, AloneStaysAccounted DEF IInv

LEMMA AnswerClientStep == ASSUME IInv, NEW q \in Requests, AnswerClient(q) PROVE IInv'
<1>1. Done(q)
    BY DEF AnswerClient, IInv, Accounted
<1> QED BY <1>1, AnswerStep DEF AnswerClient

LEMMA StepKeepsIInv == IInv /\ [BackendNext]_backend => IInv'
<1> SUFFICES ASSUME IInv, [BackendNext]_backend PROVE IInv'
    OBVIOUS
<1>1. ASSUME NEW q \in Requests, Handle(q) PROVE IInv'
    <2>1. CASE Arrive(q) BY <2>1, ArriveStep
    <2>2. CASE RejectRequest(q) BY <2>2, RejectStep
    <2>3. CASE ConvertRequest(q) BY <2>3, ConvertStep
    <2>4. CASE CircuitIsOpen(q) BY <2>4, OpenStep
    <2>5. CASE Dispatch(q) BY <2>5, DispatchStep
    <2>6. CASE FetchDescriptors(q) BY <2>6, FetchStep
    <2>7. CASE ReflectionFails(q) BY <2>7, FailStep DEF ReflectionFails
    <2>8. CASE InvokeFails(q) BY <2>8, InvokeFailsStep
    <2>9. CASE AnswerClient(q) BY <2>9, AnswerClientStep
    <2>10. CASE DecodeFails(q) BY <2>10, FailStep DEF DecodeFails
    <2>11. CASE RequestTimesOut(q)
        BY <2>11, AnswerStep DEF RequestTimesOut, GatewayErrors
    <2> QED BY <1>1, <2>1, <2>2, <2>3, <2>4, <2>5, <2>6, <2>7, <2>8, <2>9, <2>10, <2>11
            DEF Handle
<1>2. ASSUME NEW message \in wire, Serve(message) PROVE IInv'
    BY <1>2, ServeStep
<1>3. ASSUME NEW message \in wire, Lose(message) PROVE IInv'
    BY <1>3, LoseStep
<1>4. CASE Change BY <1>4, ChangeStep
<1>5. CASE UNCHANGED backend
    <2>1. BackendTypeOK'
        BY <1>5 DEF IInv, BackendTypeOK, backend, service
    <2>2. \A q \in Requests : Alone(q)
        BY <1>5 DEF backend, Alone, Sent
    <2> QED BY <2>1, <2>2, AloneStaysAccounted DEF IInv
<1> QED BY <1>1, <1>2, <1>3, <1>4, <1>5 DEF BackendNext

LEMMA InitIInv == BackendInit => IInv
<1> SUFFICES ASSUME BackendInit PROVE IInv
    OBVIOUS
<1>1. BackendTypeOK
    BY BoundAssumption DEF BackendInit, BackendTypeOK, Calls
<1>2. \A q \in Requests : Accounted(q)
    BY DEF BackendInit, Accounted, Unsent, Sent
<1> QED BY <1>1, <1>2 DEF IInv

-----------------------------------------------------------------------------
(* The theorems *)

THEOREM BackendInvariance == BackendSpec => []IInv
    BY InitIInv, StepKeepsIInv, PTL DEF BackendSpec

\* Every reply, message and stage keeps its type (gateway.rs, dynamic_client.rs).
THEOREM BackendTypes == BackendSpec => []BackendTypeOK
<1>1. IInv => BackendTypeOK
    BY DEF IInv
<1> QED BY <1>1, BackendInvariance, PTL

\* What the status says is so: the facts of the invariant, read by status.
LEMMA AccountedTells == IInv => StatusTellsEffect
<1> SUFFICES ASSUME IInv, NEW q \in Requests
             PROVE  /\ Status(reply[q]) \in {400, 503} => served[q] = 0 /\ Sent(q) = {}
                    /\ Status(reply[q]) = 200 => served[q] = 1
                    /\ served[q] + Cardinality(Sent(q)) <= 1
    BY DEF StatusTellsEffect
<1>1. reply[q] \in GatewayErrors \cup {"none", "ok"} /\ served[q] \in 0..1
    BY DEF IInv, BackendTypeOK
<1>2. Accounted(q)
    BY DEF IInv
<1>3. Status(reply[q]) \in {400, 503} => reply[q] \in {"ConversionError", "ServiceUnavailable"}
    BY <1>1 DEF Status, GatewayErrors
<1>4. Status(reply[q]) = 200 => reply[q] = "ok"
    BY <1>1 DEF Status, GatewayErrors
<1>5. Sent(q) = {} \/ \E m : Sent(q) = {m}
    BY <1>2 DEF Accounted
<1>6. CASE Sent(q) = {}
    <2>1. Cardinality(Sent(q)) = 0
        BY <1>6, FS_EmptySet
    <2> QED BY <1>1, <1>2, <1>3, <1>4, <2>1 DEF Accounted, Unsent, Done
<1>7. CASE \E m : Sent(q) = {m}
    <2>1. Cardinality(Sent(q)) = 1
        BY <1>7, FS_Singleton
    <2>2. served[q] = 0
        BY <1>1, <1>2, <1>7 DEF Accounted
    <2> QED BY <1>2, <1>3, <1>4, <2>1, <2>2 DEF Accounted, Unsent, Done
<1> QED BY <1>5, <1>6, <1>7

\* For every service and however its deployments, stops, lost messages and request
\* timeouts fall: 400 and 503 mean the request was not and will not be carried out,
\* 200 that it was, and none is carried out twice (gateway.rs:188-310).
THEOREM StatusIsTrue == BackendSpec => []StatusTellsEffect
    BY BackendInvariance, AccountedTells, PTL

-----------------------------------------------------------------------------
(* The attempts at an operation *)

\* An attempt that Redis has counted, and one for which the clock has not moved since.
Counting(a) == attempt[a].at \in {"expire", "ensure"}
InTime(a) == Counting(a) /\ attempt[a].since = clock

\* What is said of times and losses is past, and the history is finite.
PastInv ==
    /\ RateLimitsTypeOK
    /\ IsFiniteSet(admitted) /\ IsFiniteSet(listed)
    /\ \A e \in admitted : e.time <= clock /\ e.life <= losses
    /\ \A a \in Attempts : IsAt(a, "memory") => attempt[a].now <= clock
    /\ \A a \in Attempts : Counting(a) => attempt[a].life <= losses /\ attempt[a].since <= clock

\* Those that Redis let in have places of their own in the limit as long as they live,
\* which the counter it has now is past, and so long it stays.
PlacesInLimit == \A e \in admitted : e.by = "redis" => e.place \in 1..MaxAttempts
PlacesApart ==
    \A d, e \in admitted :
        /\ d.by = "redis" /\ e.by = "redis" /\ d.life = e.life /\ d.place = e.place
        /\ d.time < e.time + Window /\ e.time < d.time + Window
        => d = e
PlacesKept ==
    \A e \in admitted :
        e.by = "redis" /\ e.life = losses /\ clock < e.time + Window =>
            redis # NoKey /\ e.place <= redis.count /\ e.time + Window <= redis.expires

\* So has an attempt that is counted and not yet let in.
PlacesAhead ==
    \A a \in Attempts : InTime(a) =>
        /\ attempt[a].count >= 1
        /\ attempt[a].life = losses => redis # NoKey /\ attempt[a].count <= redis.count
        /\ attempt[a].at = "ensure" =>
             /\ attempt[a].count <= MaxAttempts
             /\ attempt[a].life = losses => clock + Window <= redis.expires
        /\ \A e \in admitted :
             e.by = "redis" /\ e.life = attempt[a].life /\ clock < e.time + Window =>
                 e.place # attempt[a].count
        /\ \A b \in Attempts :
             InTime(b) /\ attempt[b].life = attempt[a].life
             /\ attempt[b].count = attempt[a].count => b = a

CounterInv == PlacesInLimit /\ PlacesApart /\ PlacesKept /\ PlacesAhead

\* What memory let in on time is listed as long as it lives.
Listed ==
    \A e \in Admitted("memory", losses, clock) : <<e.attempt, e.time>> \in listed
ListInv ==
    /\ \A e \in admitted : e.by = "memory" => e.place = 0
    /\ Listed
    /\ \A life \in 0..losses, t \in Ticks :
          Cardinality(Admitted("memory", life, t)) <= MaxAttempts

LimitsInv == PastInv /\ CounterInv /\ ListInv

LEMMA LimitNumbers ==
    MaxAttempts \in Nat /\ Window \in Nat /\ LastTick \in Nat /\ MaxLosses \in Nat
BY RateLimitsAssumption

LEMMA PlainState ==
    ASSUME NEW at \in {"new", "redis", "clock", "done"}
    PROVE  [at |-> at] \in AttemptStates /\ [at |-> at].at = at
BY DEF AttemptStates

LEMMA CountingFields ==
    ASSUME RateLimitsTypeOK, NEW a \in Attempts, Counting(a)
    PROVE  attempt[a].count \in Nat /\ attempt[a].since \in Nat /\ attempt[a].life \in Nat
BY DEF RateLimitsTypeOK, AttemptStates, Counting, Ticks

LEMMA EnsureFields ==
    ASSUME RateLimitsTypeOK, NEW a \in Attempts, Counting(a)
    PROVE  /\ [attempt[a] EXCEPT !.at = "ensure"] \in AttemptStates
           /\ [attempt[a] EXCEPT !.at = "ensure"].at = "ensure"
           /\ [attempt[a] EXCEPT !.at = "ensure"].count = attempt[a].count
           /\ [attempt[a] EXCEPT !.at = "ensure"].since = attempt[a].since
           /\ [attempt[a] EXCEPT !.at = "ensure"].life = attempt[a].life
BY DEF RateLimitsTypeOK, AttemptStates, Counting, Ticks

LEMMA WaitingFields ==
    ASSUME RateLimitsTypeOK, NEW a \in Attempts, IsAt(a, "memory")
    PROVE  attempt[a].now \in Ticks /\ attempt[a].now \in Nat
BY DEF RateLimitsTypeOK, AttemptStates, IsAt, Ticks

LEMMA AdmittedFields ==
    ASSUME RateLimitsTypeOK, NEW e \in admitted
    PROVE  /\ e.attempt \in Attempts /\ e.time \in Nat /\ e.life \in Nat /\ e.place \in Nat
           /\ e.by \in {"redis", "memory", "late"}
           /\ e = [attempt |-> e.attempt, time |-> e.time, by |-> e.by, life |-> e.life,
                   place |-> e.place]
BY DEF RateLimitsTypeOK, Admissions, Ticks

LEMMA ClockFields ==
    ASSUME RateLimitsTypeOK
    PROVE  clock \in Nat /\ losses \in Nat
           /\ (redis # NoKey => redis \in RedisKeys /\ redis.count \in Nat /\ redis.expires \in Nat)
BY DEF RateLimitsTypeOK, RedisKeys, Ticks

\* One attempt moves, the others stay.
LEMMA OneMoves ==
    ASSUME RateLimitsTypeOK, NEW a \in Attempts, NEW s \in AttemptStates, Becomes(a, s)
    PROVE  /\ attempt' \in [Attempts -> AttemptStates]
           /\ attempt'[a] = s
           /\ \A b \in Attempts \ {a} : attempt'[b] = attempt[b]
BY DEF RateLimitsTypeOK, Becomes

\* The one that is let in.
LEMMA OneIsLetIn ==
    ASSUME RateLimitsTypeOK, IsFiniteSet(admitted), NEW a \in Attempts,
           NEW by \in {"redis", "memory"}, NEW since, NEW life \in Nat, NEW place \in Nat,
           LetIn(a, by, since, life, place)
    PROVE  \E one \in Admissions :
              /\ admitted' = admitted \cup {one}
              /\ IsFiniteSet(admitted')
              /\ one.attempt = a /\ one.time = clock /\ one.life = life /\ one.place = place
              /\ one.by = IF since = clock THEN by ELSE "late"
<1> DEFINE one == [attempt |-> a, time |-> clock, by |-> IF since = clock THEN by ELSE "late",
                   life |-> life, place |-> place]
<1>1. one \in Admissions
    BY DEF Admissions, RateLimitsTypeOK
<1>2. admitted' = admitted \cup {one}
    BY DEF LetIn
<1>3. IsFiniteSet(admitted')
    BY <1>2, FS_AddElement
<1> QED BY <1>1, <1>2, <1>3

LEMMA OneIsCounted ==
    ASSUME RateLimitsTypeOK, NEW a \in Attempts, Counting(a), CountedIn(a)
    PROVE  \E one \in Admissions :
              /\ admitted' = admitted \cup {one}
              /\ one.attempt = a /\ one.time = clock
              /\ one.life = attempt[a].life /\ one.place = attempt[a].count
              /\ one.by = IF attempt[a].since = clock THEN "redis" ELSE "late"
<1> DEFINE by == IF attempt[a].since = clock THEN "redis" ELSE "late"
           one == [attempt |-> a, time |-> clock, by |-> by,
                   life |-> attempt[a].life, place |-> attempt[a].count]
<1>1. by \in {"redis", "memory", "late"}
    OBVIOUS
<1>2. admitted' = admitted \cup {one}
    BY DEF CountedIn, LetIn
<1> HIDE DEF by
<1>3. one \in Admissions
    BY <1>1, CountingFields DEF Admissions, RateLimitsTypeOK
<1>4. one.attempt = a /\ one.time = clock /\ one.by = by
      /\ one.life = attempt[a].life /\ one.place = attempt[a].count
    OBVIOUS
<1> HIDE DEF one
<1>5. \E e \in Admissions :
          /\ admitted' = admitted \cup {e}
          /\ e.attempt = a /\ e.time = clock
          /\ e.life = attempt[a].life /\ e.place = attempt[a].count
          /\ e.by = by
    BY <1>2, <1>3, <1>4
<1> QED BY <1>5 DEF by

-----------------------------------------------------------------------------
(* What is past *)

\* One attempt moves, one may be let in.
LEMMA PastStep ==
    ASSUME PastInv, NEW a \in Attempts, NEW s \in AttemptStates, Becomes(a, s),
           UNCHANGED <<clock, losses>>,
           redis' \in RedisKeys \cup {NoKey}, usingRedis' \in BOOLEAN,
           listed' \subseteq Attempts \X Ticks, IsFiniteSet(listed'),
           s.at = "memory" => s.now <= clock,
           s.at \in {"expire", "ensure"} => s.life <= losses /\ s.since <= clock,
           admitted' = admitted
           \/ \E by \in {"redis", "memory"}, since, life \in Nat, place \in Nat :
                 life <= losses /\ LetIn(a, by, since, life, place)
    PROVE  PastInv'
<1>1. attempt' \in [Attempts -> AttemptStates] /\ attempt'[a] = s
      /\ \A b \in Attempts \ {a} : attempt'[b] = attempt[b]
    BY OneMoves DEF PastInv
<1>2. /\ admitted' \subseteq Admissions /\ IsFiniteSet(admitted')
      /\ \A e \in admitted' : e.time <= clock /\ e.life <= losses
  <2>1. CASE admitted' = admitted
    BY <2>1 DEF PastInv, RateLimitsTypeOK
  <2>2. CASE admitted' # admitted
    <3>1. PICK by \in {"redis", "memory"}, since, life \in Nat, place \in Nat :
              life <= losses /\ LetIn(a, by, since, life, place)
        BY <2>2
    <3>2. PICK one \in Admissions :
              /\ admitted' = admitted \cup {one}
              /\ IsFiniteSet(admitted')
              /\ one.time = clock /\ one.life = life
      <4> DEFINE one == [attempt |-> a, time |-> clock,
                         by |-> IF since = clock THEN by ELSE "late",
                         life |-> life, place |-> place]
      <4>1. one \in Admissions /\ one.time = clock /\ one.life = life
          BY DEF Admissions, PastInv, RateLimitsTypeOK
      <4>2. admitted' = admitted \cup {one}
          BY <3>1 DEF LetIn
      <4> HIDE DEF one
      <4>3. IsFiniteSet(admitted')
          BY <4>2, FS_AddElement DEF PastInv
      <4> QED BY <4>1, <4>2, <4>3
    <3>3. clock <= clock
        BY ClockFields DEF PastInv
    <3>4. admitted' \subseteq Admissions
        BY <3>2 DEF PastInv, RateLimitsTypeOK
    <3>5. \A e \in admitted' : e.time <= clock /\ e.life <= losses
        BY <3>1, <3>2, <3>3 DEF PastInv
    <3> QED BY <3>2, <3>4, <3>5
  <2> QED BY <2>1, <2>2
<1>3. RateLimitsTypeOK'
    BY <1>1, <1>2 DEF PastInv, RateLimitsTypeOK
<1>4. \A b \in Attempts : IsAt(b, "memory")' => attempt'[b].now <= clock
    BY <1>1 DEF PastInv, IsAt
<1>5. \A b \in Attempts :
        Counting(b)' => attempt'[b].life <= losses /\ attempt'[b].since <= clock
    BY <1>1 DEF PastInv, Counting
<1> QED BY <1>2, <1>3, <1>4, <1>5 DEF PastInv

\* What Redis holds after each of the two commands.
LEMMA CommandFields ==
    ASSUME RateLimitsTypeOK
    PROVE  /\ Incremented \in RedisKeys /\ Incremented # NoKey
           /\ Incremented.count = IF redis = NoKey THEN 1 ELSE redis.count + 1
           /\ redis # NoKey => Incremented.expires = redis.expires
           /\ redis = NoKey => Renewed = NoKey
           /\ redis # NoKey =>
                /\ Renewed \in RedisKeys /\ Renewed # NoKey
                /\ Renewed.count = redis.count
                /\ Renewed.expires = clock + Window
<1>1. clock + Window \in Nat /\ Never \in Nat
    BY ClockFields, LimitNumbers DEF Never
<1>2. Incremented \in RedisKeys
    BY <1>1, ClockFields DEF Incremented, RedisKeys
<1>3. redis # NoKey => Renewed \in RedisKeys
    BY <1>1, ClockFields DEF Renewed, RedisKeys
<1> QED
    BY <1>1, <1>2, <1>3, ClockFields, RateLimitsAssumption DEF Incremented, Renewed, RedisKeys

LEMMA AllowPast == ASSUME PastInv, NEW a \in Attempts, Allow(a) PROVE PastInv'
<1> DEFINE at == IF usingRedis THEN "redis" ELSE "clock"
<1>1. Becomes(a, [at |-> at]) /\ at \in {"redis", "clock"}
    BY DEF Allow, Reaches
<1>2. usingRedis' \in BOOLEAN
    BY DEF Allow, PastInv, RateLimitsTypeOK
<1> HIDE DEF at
<1> QED BY <1>1, <1>2, PlainState, PastStep DEF Allow, PastInv, RateLimitsTypeOK

LEMMA IncrementPast == ASSUME PastInv, NEW a \in Attempts, Increment(a) PROVE PastInv'
<1> DEFINE s == [at |-> "expire", count |-> Incremented.count, since |-> clock, life |-> losses]
<1>1. Becomes(a, s) /\ redis' \in RedisKeys
    BY CommandFields DEF Increment, PastInv
<1>2. Incremented.count \in Nat
    BY CommandFields DEF PastInv, RedisKeys
<1>3. s \in AttemptStates /\ s.at = "expire" /\ s.life <= losses /\ s.since <= clock
    BY <1>2, ClockFields DEF AttemptStates, PastInv, RateLimitsTypeOK
<1> HIDE DEF s
<1> QED BY <1>1, <1>3, PastStep DEF Increment, PastInv, RateLimitsTypeOK

LEMMA CountedInPast ==
    ASSUME PastInv, NEW a \in Attempts, Counting(a), CountedIn(a)
    PROVE  \E by \in {"redis", "memory"}, since, life \in Nat, place \in Nat :
               life <= losses /\ LetIn(a, by, since, life, place)
BY CountingFields DEF PastInv, CountedIn

LEMMA RenewExpiryPast == ASSUME PastInv, NEW a \in Attempts, RenewExpiry(a) PROVE PastInv'
<1>0. Counting(a)
    BY DEF RenewExpiry, IsAt, Counting
<1>1. redis' \in RedisKeys \cup {NoKey}
    BY CommandFields DEF RenewExpiry, PastInv
<1>2. CASE Reaches(a, "done")
  <2>1. admitted' = admitted \/ CountedIn(a)
    BY <1>2 DEF RenewExpiry
  <2> QED
    BY <1>0, <1>1, <1>2, <2>1, CountedInPast, PlainState, PastStep
    DEF RenewExpiry, Reaches, PastInv, RateLimitsTypeOK
<1>3. CASE Becomes(a, [attempt[a] EXCEPT !.at = "ensure"]) /\ UNCHANGED admitted
  <2> DEFINE s == [attempt[a] EXCEPT !.at = "ensure"]
  <2>1. s \in AttemptStates /\ s.at = "ensure" /\ s.life <= losses /\ s.since <= clock
    BY <1>0, CountingFields, EnsureFields DEF PastInv
  <2>2. Becomes(a, s)
    BY <1>3
  <2> HIDE DEF s
  <2> QED BY <1>1, <1>3, <2>1, <2>2, PastStep DEF RenewExpiry, PastInv, RateLimitsTypeOK
<1> QED BY <1>2, <1>3 DEF RenewExpiry

LEMMA EnsureExpiryPast == ASSUME PastInv, NEW a \in Attempts, EnsureExpiry(a) PROVE PastInv'
<1>0. Counting(a)
    BY DEF EnsureExpiry, IsAt, Counting
<1>1. redis' \in RedisKeys \cup {NoKey}
    BY CommandFields DEF EnsureExpiry, PastInv, RateLimitsTypeOK
<1> QED
    BY <1>0, <1>1, CountedInPast, PlainState, PastStep
    DEF EnsureExpiry, Reaches, PastInv, RateLimitsTypeOK

LEMMA RedisFailsPast == ASSUME PastInv, NEW a \in Attempts, RedisFails(a) PROVE PastInv'
<1>1. redis' \in RedisKeys \cup {NoKey}
    BY CommandFields DEF RedisFails, PastInv, RateLimitsTypeOK
<1> QED
    BY <1>1, PlainState, PastStep DEF RedisFails, Reaches, PastInv, RateLimitsTypeOK

LEMMA ReadClockPast == ASSUME PastInv, NEW a \in Attempts, ReadClock(a) PROVE PastInv'
<1> DEFINE s == [at |-> "memory", now |-> clock]
<1>1. s \in AttemptStates /\ s.at = "memory" /\ s.now <= clock
    BY ClockFields DEF AttemptStates, PastInv, RateLimitsTypeOK
<1>2. Becomes(a, s)
    BY DEF ReadClock
<1> HIDE DEF s
<1> QED BY <1>1, <1>2, PastStep DEF ReadClock, PastInv, RateLimitsTypeOK

LEMMA CheckMemoryPast == ASSUME PastInv, NEW a \in Attempts, CheckMemory(a) PROVE PastInv'
<1> DEFINE now == attempt[a].now
           valid == {e \in listed : e[2] + Window > now}
<1>1. now \in Ticks
    BY WaitingFields DEF CheckMemory, PastInv
<1>2. valid \subseteq Attempts \X Ticks /\ IsFiniteSet(valid)
    BY FS_Subset DEF PastInv, RateLimitsTypeOK
<1>3. listed' \subseteq Attempts \X Ticks /\ IsFiniteSet(listed')
  <2>1. listed' = valid \/ listed' = valid \cup {<<a, now>>}
    BY DEF CheckMemory
  <2>2. <<a, now>> \in Attempts \X Ticks
    BY <1>1
  <2> HIDE DEF valid, now
  <2>3. IsFiniteSet(valid \cup {<<a, now>>})
    BY <1>2, FS_AddElement
  <2> QED BY <1>2, <2>1, <2>2, <2>3
<1>4. admitted' = admitted \/ LetIn(a, "memory", now, losses, 0)
    BY DEF CheckMemory
<1>5. admitted' = admitted
      \/ \E by \in {"redis", "memory"}, since, life \in Nat, place \in Nat :
            life <= losses /\ LetIn(a, by, since, life, place)
  <2>1. losses \in Nat /\ losses <= losses /\ 0 \in Nat /\ now \in Nat
      BY <1>1, ClockFields DEF PastInv, Ticks
  <2> HIDE DEF now
  <2> QED BY <1>4, <2>1
<1>6. Becomes(a, [at |-> "done"]) /\ UNCHANGED <<clock, redis, usingRedis, losses>>
    BY DEF CheckMemory, Reaches
<1> HIDE DEF now, valid
<1>7. [at |-> "done"] \in AttemptStates /\ [at |-> "done"].at = "done"
    BY PlainState
<1> QED BY <1>3, <1>5, <1>6, <1>7, PastStep DEF PastInv, RateLimitsTypeOK

LEMMA ClockTicksPast == ASSUME PastInv, ClockTicks PROVE PastInv'
<1>0. RateLimitsTypeOK /\ clock \in Nat /\ clock' = clock + 1
      /\ UNCHANGED <<usingRedis, listed, attempt, losses, admitted>>
    BY ClockFields DEF PastInv, ClockTicks
<1>1. RateLimitsTypeOK'
    BY <1>0, LimitNumbers DEF ClockTicks, RateLimitsTypeOK, Ticks
<1>2. \A e \in admitted' : e.time <= clock' /\ e.life <= losses'
    BY <1>0, AdmittedFields DEF PastInv
<1>3. \A a \in Attempts : IsAt(a, "memory")' => attempt'[a].now <= clock'
    BY <1>0, WaitingFields DEF PastInv, IsAt
<1>4. \A a \in Attempts :
        Counting(a)' => attempt'[a].life <= losses' /\ attempt'[a].since <= clock'
  <2> SUFFICES ASSUME NEW a \in Attempts, Counting(a)
               PROVE  attempt[a].life <= losses /\ attempt[a].since <= clock + 1
      BY <1>0 DEF Counting
  <2> QED BY <1>0, CountingFields DEF PastInv
<1> QED BY <1>0, <1>1, <1>2, <1>3, <1>4 DEF PastInv

LEMMA RestartsPast ==
    ASSUME PastInv, RedisForgets \/ ServiceRestarts PROVE PastInv'
<1>0. RateLimitsTypeOK /\ losses \in Nat /\ losses' = losses + 1 /\ UNCHANGED <<clock, admitted>>
    BY ClockFields DEF PastInv, RedisForgets, ServiceRestarts
<1>1. \A e \in admitted' : e.time <= clock' /\ e.life <= losses'
    BY <1>0, AdmittedFields DEF PastInv
<1>2. CASE RedisForgets
  <2>1. UNCHANGED <<attempt, listed>>
    BY <1>2 DEF RedisForgets
  <2>2. RateLimitsTypeOK'
    BY <1>0, <1>2 DEF RedisForgets, RateLimitsTypeOK
  <2>3. \A a \in Attempts : Counting(a)' => attempt'[a].life <= losses' /\ attempt'[a].since <= clock'
    <3> SUFFICES ASSUME NEW a \in Attempts, Counting(a)
                 PROVE  attempt[a].life <= losses + 1 /\ attempt[a].since <= clock
        BY <1>0, <2>1 DEF Counting
    <3> QED BY <1>0, CountingFields DEF PastInv
  <2> QED BY <1>0, <1>1, <2>1, <2>2, <2>3 DEF PastInv, IsAt
<1>3. CASE ServiceRestarts
  <2>1. \A a \in Attempts : attempt'[a].at \in {"new", "done"} /\ attempt'[a] \in AttemptStates
    BY <1>3, PlainState DEF ServiceRestarts
  <2>2. attempt' \in [Attempts -> AttemptStates]
    BY <1>3, <2>1 DEF ServiceRestarts
  <2>3. listed' = {} /\ IsFiniteSet(listed')
    BY <1>3, FS_EmptySet DEF ServiceRestarts
  <2>4. RateLimitsTypeOK'
    BY <1>0, <1>3, <2>2, <2>3 DEF ServiceRestarts, RateLimitsTypeOK
  <2> QED BY <1>0, <1>1, <2>1, <2>3, <2>4 DEF PastInv, IsAt, Counting
<1> QED BY <1>2, <1>3, <1>0

-----------------------------------------------------------------------------
(* What Redis counts *)

\* A command that does not count leaves the key or its absence, and its count.
SameKey ==
    /\ redis' = NoKey <=> redis = NoKey
    /\ redis # NoKey => /\ redis'.count = redis.count
                        /\ redis'.expires \in {redis.expires, clock + Window}

LEMMA KeysStaySame ==
    ASSUME PastInv, redis' \in {redis, Renewed} PROVE SameKey
BY CommandFields DEF PastInv, SameKey

\* Whoever goes elsewhere is counted no more.
LEMMA NotCounting ==
    ASSUME PastInv, NEW a \in Attempts, NEW s \in AttemptStates, Becomes(a, s),
           s.at \notin {"expire", "ensure"}, UNCHANGED clock
    PROVE  \A b \in Attempts : InTime(b)' => b # a /\ attempt'[b] = attempt[b] /\ InTime(b)
BY OneMoves DEF PastInv, InTime, Counting

LEMMA CounterKept ==
    ASSUME PastInv, CounterInv, UNCHANGED <<clock, losses>>, SameKey,
           \A e \in admitted' : e.by = "redis" => e \in admitted,
           \A b \in Attempts : InTime(b)' =>
               /\ InTime(b)
               /\ attempt'[b].count = attempt[b].count /\ attempt'[b].life = attempt[b].life
               /\ \/ attempt'[b].at = attempt[b].at
                  \/ /\ attempt[b].count <= MaxAttempts
                     /\ redis # NoKey => redis'.expires = clock + Window
    PROVE  CounterInv'
<1>0. clock \in Nat /\ Window \in Nat /\ (redis # NoKey => redis.expires \in Nat)
    BY ClockFields, LimitNumbers DEF PastInv
<1>1. PlacesInLimit'
    BY DEF CounterInv, PlacesInLimit
<1>2. PlacesApart'
    BY DEF CounterInv, PlacesApart
<1>3. PlacesKept'
  <2> SUFFICES ASSUME NEW e \in admitted', e.by = "redis", e.life = losses,
                      clock < e.time + Window
               PROVE  redis' # NoKey /\ e.place <= redis'.count /\ e.time + Window <= redis'.expires
      BY DEF PlacesKept
  <2>1. e \in admitted /\ e.time \in Nat /\ e.time <= clock
      BY AdmittedFields DEF PastInv
  <2>2. redis # NoKey /\ e.place <= redis.count /\ e.time + Window <= redis.expires
      BY <2>1 DEF CounterInv, PlacesKept
  <2>3. e.time + Window <= clock + Window
      BY <1>0, <2>1
  <2> QED BY <2>2, <2>3 DEF SameKey
<1>4. PlacesAhead'
  <2> SUFFICES ASSUME NEW b \in Attempts, InTime(b)'
               PROVE  /\ attempt'[b].count >= 1
                      /\ attempt'[b].life = losses =>
                            redis' # NoKey /\ attempt'[b].count <= redis'.count
                      /\ attempt'[b].at = "ensure" =>
                            /\ attempt'[b].count <= MaxAttempts
                            /\ attempt'[b].life = losses => clock + Window <= redis'.expires
                      /\ \A e \in admitted' :
                            e.by = "redis" /\ e.life = attempt'[b].life
                            /\ clock < e.time + Window => e.place # attempt'[b].count
                      /\ \A d \in Attempts :
                            InTime(d)' /\ attempt'[d].life = attempt'[b].life
                            /\ attempt'[d].count = attempt'[b].count => d = b
      BY DEF PlacesAhead
  <2>1. /\ InTime(b)
        /\ attempt'[b].count = attempt[b].count /\ attempt'[b].life = attempt[b].life
      OBVIOUS
  <2>2. attempt'[b].count >= 1
        /\ (attempt'[b].life = losses => redis' # NoKey /\ attempt'[b].count <= redis'.count)
      BY <2>1 DEF CounterInv, PlacesAhead, SameKey
  <2>3. ASSUME attempt'[b].at = "ensure"
        PROVE  /\ attempt'[b].count <= MaxAttempts
               /\ attempt'[b].life = losses => clock + Window <= redis'.expires
    <3>1. clock + Window <= clock + Window
        BY <1>0
    <3>2. attempt[b].life = losses => redis # NoKey
        BY <2>1 DEF CounterInv, PlacesAhead
    <3> QED BY <2>1, <2>3, <3>1, <3>2 DEF CounterInv, PlacesAhead, SameKey
  <2>4. \A e \in admitted' :
            e.by = "redis" /\ e.life = attempt'[b].life
            /\ clock < e.time + Window => e.place # attempt'[b].count
      BY <2>1 DEF CounterInv, PlacesAhead
  <2>5. \A d \in Attempts :
            InTime(d)' /\ attempt'[d].life = attempt'[b].life
            /\ attempt'[d].count = attempt'[b].count => d = b
      BY <2>1 DEF CounterInv, PlacesAhead
  <2> QED BY <2>2, <2>3, <2>4, <2>5
<1> QED BY <1>1, <1>2, <1>3, <1>4 DEF CounterInv

\* An attempt gets the place that was ahead of it, or is late.
LEMMA CounterAdmits ==
    ASSUME PastInv, CounterInv, NEW a \in Attempts, Counting(a), CountedIn(a),
           Becomes(a, [at |-> "done"]), UNCHANGED <<clock, losses>>, SameKey,
           attempt[a].count <= MaxAttempts,
           InTime(a) /\ attempt[a].life = losses => clock + Window <= redis'.expires
    PROVE  CounterInv'
<1>0. clock \in Nat /\ Window \in Nat /\ MaxAttempts \in Nat
    BY ClockFields, LimitNumbers DEF PastInv
<1>1. PICK one \in Admissions :
          /\ admitted' = admitted \cup {one}
          /\ one.attempt = a /\ one.time = clock
          /\ one.life = attempt[a].life /\ one.place = attempt[a].count
          /\ one.by = IF attempt[a].since = clock THEN "redis" ELSE "late"
    BY OneIsCounted DEF PastInv
<1>2. \A b \in Attempts : InTime(b)' => b # a /\ attempt'[b] = attempt[b] /\ InTime(b)
    BY PlainState, NotCounting
<1>3. CASE ~InTime(a)
  <2>1. one.by = "late"
      BY <1>1, <1>3 DEF InTime
  <2> QED BY <1>1, <1>2, <2>1, CounterKept
<1>4. CASE InTime(a)
  <2>0. attempt[a].count \in Nat /\ attempt[a].count >= 1
      BY <1>4, CountingFields DEF PastInv, CounterInv, PlacesAhead
  <2>1. PlacesInLimit'
    <3>1. attempt[a].count \in 1..MaxAttempts
        BY <1>0, <2>0
    <3> QED BY <1>1, <3>1 DEF CounterInv, PlacesInLimit
  <2>2. \A e \in admitted :
            e.by = "redis" /\ e.life = one.life /\ clock < e.time + Window
                => e.place # one.place
      BY <1>1, <1>4 DEF CounterInv, PlacesAhead
  <2>3. PlacesApart'
      BY <1>1, <2>2 DEF CounterInv, PlacesApart
  <2>4. PlacesKept'
    <3> SUFFICES ASSUME NEW e \in admitted', e.by = "redis", e.life = losses,
                        clock < e.time + Window
                 PROVE  /\ redis' # NoKey /\ e.place <= redis'.count
                        /\ e.time + Window <= redis'.expires
        BY DEF PlacesKept
    <3>1. CASE e \in admitted
      <4>1. e.time \in Nat /\ e.time <= clock
          BY <3>1, AdmittedFields DEF PastInv
      <4>2. redis # NoKey /\ e.place <= redis.count /\ e.time + Window <= redis.expires
          BY <3>1 DEF CounterInv, PlacesKept
      <4>3. e.time + Window <= clock + Window
          BY <1>0, <4>1
      <4> QED BY <4>2, <4>3 DEF SameKey
    <3>2. CASE e = one
      <4>1. attempt[a].life = losses
          BY <1>1, <3>2
      <4>2. redis # NoKey /\ attempt[a].count <= redis.count
          BY <1>4, <4>1 DEF CounterInv, PlacesAhead
      <4> QED BY <1>1, <1>4, <3>2, <4>1, <4>2 DEF SameKey
    <3> QED BY <1>1, <3>1, <3>2
  <2>5. PlacesAhead'
    <3> SUFFICES ASSUME NEW b \in Attempts, InTime(b)'
                 PROVE  /\ attempt'[b].count >= 1
                        /\ attempt'[b].life = losses =>
                              redis' # NoKey /\ attempt'[b].count <= redis'.count
                        /\ attempt'[b].at = "ensure" =>
                              /\ attempt'[b].count <= MaxAttempts
                              /\ attempt'[b].life = losses => clock + Window <= redis'.expires
                        /\ \A e \in admitted' :
                              e.by = "redis" /\ e.life = attempt'[b].life
                              /\ clock < e.time + Window => e.place # attempt'[b].count
                        /\ \A d \in Attempts :
                              InTime(d)' /\ attempt'[d].life = attempt'[b].life
                              /\ attempt'[d].count = attempt'[b].count => d = b
        BY DEF PlacesAhead
    <3>1. b # a /\ attempt'[b] = attempt[b] /\ InTime(b)
        BY <1>2
    <3>2. attempt[b].life = losses =>
              redis # NoKey /\ (attempt[b].at = "ensure" => clock + Window <= redis.expires)
        BY <3>1 DEF CounterInv, PlacesAhead
    <3>3. clock + Window <= clock + Window
        BY <1>0
    <3>4. attempt'[b].at = "ensure" =>
              /\ attempt'[b].count <= MaxAttempts
              /\ attempt'[b].life = losses => clock + Window <= redis'.expires
        BY <3>1, <3>2, <3>3 DEF CounterInv, PlacesAhead, SameKey
    <3>5. ASSUME NEW e \in admitted', e.by = "redis", e.life = attempt'[b].life,
                 clock < e.time + Window
          PROVE  e.place # attempt'[b].count
      <4>1. CASE e \in admitted
          BY <3>1, <3>5, <4>1 DEF CounterInv, PlacesAhead
      <4>2. CASE e = one
          BY <1>1, <1>4, <3>1, <3>5, <4>2 DEF CounterInv, PlacesAhead
      <4> QED BY <1>1, <4>1, <4>2
    <3>6. \A d \in Attempts :
              InTime(d)' /\ attempt'[d].life = attempt'[b].life
              /\ attempt'[d].count = attempt'[b].count => d = b
        BY <1>2, <3>1 DEF CounterInv, PlacesAhead
    <3>7. /\ attempt'[b].count >= 1
          /\ attempt'[b].life = losses => redis' # NoKey /\ attempt'[b].count <= redis'.count
        BY <3>1 DEF CounterInv, PlacesAhead, SameKey
    <3> QED BY <3>4, <3>5, <3>6, <3>7
  <2> QED BY <2>1, <2>3, <2>4, <2>5 DEF CounterInv
<1> QED BY <1>3, <1>4

\* The new count is past every place there is.
LEMMA IncrementCounts ==
    ASSUME PastInv, CounterInv, NEW a \in Attempts, Increment(a) PROVE CounterInv'
<1> DEFINE s == [at |-> "expire", count |-> Incremented.count, since |-> clock, life |-> losses]
<1>0. /\ clock \in Nat /\ Window \in Nat /\ UNCHANGED <<clock, losses, admitted>>
      /\ redis' = Incremented /\ redis' # NoKey /\ redis'.count \in Nat /\ redis'.count >= 1
      /\ redis # NoKey => /\ redis.count \in Nat /\ redis'.count = redis.count + 1
                          /\ redis'.expires = redis.expires
    BY ClockFields, LimitNumbers, CommandFields DEF Increment, PastInv
<1>1. s \in AttemptStates
    BY <1>0, ClockFields DEF AttemptStates, PastInv, RateLimitsTypeOK
<1>2. attempt'[a] = s /\ \A b \in Attempts \ {a} : attempt'[b] = attempt[b]
    BY <1>1, OneMoves DEF PastInv, Increment
<1>3. /\ attempt'[a].at = "expire" /\ attempt'[a].count = redis'.count
      /\ attempt'[a].since = clock /\ attempt'[a].life = losses
    BY <1>0, <1>2
<1> HIDE DEF s
<1>4. \A b \in Attempts : InTime(b)' /\ b # a => attempt'[b] = attempt[b] /\ InTime(b)
    BY <1>0, <1>2 DEF InTime, Counting
<1>5. PlacesInLimit' /\ PlacesApart'
    BY <1>0 DEF CounterInv, PlacesInLimit, PlacesApart
<1>6. ASSUME NEW e \in admitted, e.by = "redis", e.life = losses, clock < e.time + Window
      PROVE  /\ redis # NoKey /\ e.place < redis'.count
             /\ e.time + Window <= redis'.expires
  <2>1. redis # NoKey /\ e.place <= redis.count /\ e.time + Window <= redis.expires
      BY <1>6 DEF CounterInv, PlacesKept
  <2>2. e.place \in Nat
      BY <1>6, AdmittedFields DEF PastInv
  <2> QED BY <1>0, <2>1, <2>2
<1>7. PlacesKept'
  <2> SUFFICES ASSUME NEW e \in admitted, e.by = "redis", e.life = losses,
                      clock < e.time + Window
               PROVE  e.place <= redis'.count /\ e.time + Window <= redis'.expires
      BY <1>0 DEF PlacesKept
  <2>1. e.place \in Nat /\ e.place < redis'.count
      BY <1>6, AdmittedFields DEF PastInv
  <2> QED BY <1>0, <1>6, <2>1
<1>8. ASSUME NEW b \in Attempts, InTime(b), attempt[b].life = losses
      PROVE  redis # NoKey /\ attempt[b].count < redis'.count
  <2>1. redis # NoKey /\ attempt[b].count <= redis.count /\ attempt[b].count \in Nat
      BY <1>8, CountingFields DEF CounterInv, PlacesAhead, PastInv, InTime
  <2> QED BY <1>0, <2>1
<1>9. PlacesAhead'
  <2> SUFFICES ASSUME NEW b \in Attempts, InTime(b)'
               PROVE  /\ attempt'[b].count >= 1
                      /\ attempt'[b].life = losses => attempt'[b].count <= redis'.count
                      /\ attempt'[b].at = "ensure" =>
                            /\ attempt'[b].count <= MaxAttempts
                            /\ attempt'[b].life = losses => clock + Window <= redis'.expires
                      /\ \A e \in admitted :
                            e.by = "redis" /\ e.life = attempt'[b].life
                            /\ clock < e.time + Window => e.place # attempt'[b].count
                      /\ \A d \in Attempts :
                            InTime(d)' /\ attempt'[d].life = attempt'[b].life
                            /\ attempt'[d].count = attempt'[b].count => d = b
      BY <1>0 DEF PlacesAhead
  <2>1. CASE b = a
    <3>1. \A e \in admitted :
              e.by = "redis" /\ e.life = losses /\ clock < e.time + Window
                  => e.place # redis'.count
      <4> SUFFICES ASSUME NEW e \in admitted, e.by = "redis", e.life = losses,
                          clock < e.time + Window
                   PROVE  e.place # redis'.count
          OBVIOUS
      <4>1. e.place \in Nat /\ e.place < redis'.count
          BY <1>6, AdmittedFields DEF PastInv
      <4> QED BY <1>0, <4>1
    <3>2. ASSUME NEW d \in Attempts, d # a, InTime(d)', attempt'[d].life = losses
          PROVE  attempt'[d].count # redis'.count
      <4>1. attempt[d].count \in Nat /\ attempt[d].count < redis'.count
            /\ attempt'[d] = attempt[d]
          BY <1>4, <1>8, <3>2, CountingFields DEF InTime, PastInv
      <4> QED BY <1>0, <4>1
    <3> QED BY <1>0, <1>3, <2>1, <3>1, <3>2
  <2>2. CASE b # a
    <3>1. attempt'[b] = attempt[b] /\ InTime(b) /\ attempt[b].count \in Nat
        BY <1>4, <2>2, CountingFields DEF InTime, PastInv
    <3>2. attempt[b].life = losses => attempt[b].count < redis'.count /\ redis # NoKey
        BY <1>8, <3>1
    <3>3. attempt[b].life = losses => attempt[b].count <= redis'.count
        BY <1>0, <3>1, <3>2
    <3>4. attempt[b].at = "ensure" =>
              /\ attempt[b].count <= MaxAttempts
              /\ attempt[b].life = losses => clock + Window <= redis'.expires
        BY <1>0, <3>1, <3>2 DEF CounterInv, PlacesAhead
    <3>5. ASSUME NEW d \in Attempts, InTime(d)', attempt'[d].life = attempt[b].life,
                 attempt'[d].count = attempt[b].count
          PROVE  d = b
      <4>1. CASE d = a
        <5>1. attempt[b].life = losses /\ attempt[b].count = redis'.count
            BY <1>3, <3>5, <4>1
        <5> QED BY <1>0, <3>1, <3>2, <5>1
      <4>2. CASE d # a
          BY <1>4, <3>1, <3>5, <4>2 DEF CounterInv, PlacesAhead
      <4> QED BY <4>1, <4>2
    <3> QED BY <3>1, <3>3, <3>4, <3>5 DEF CounterInv, PlacesAhead
  <2> QED BY <2>1, <2>2
<1> QED BY <1>5, <1>7, <1>9 DEF CounterInv

LEMMA LeavesCounts ==
    ASSUME PastInv, CounterInv, NEW a \in Attempts, NEW s \in AttemptStates, Becomes(a, s),
           s.at \notin {"expire", "ensure"}, UNCHANGED <<clock, losses>>, SameKey,
           \A e \in admitted' : e.by = "redis" => e \in admitted
    PROVE  CounterInv'
<1>1. \A b \in Attempts : InTime(b)' => attempt'[b] = attempt[b] /\ InTime(b)
    BY NotCounting
<1> QED BY <1>1, CounterKept

LEMMA RenewExpiryCounts ==
    ASSUME PastInv, CounterInv, NEW a \in Attempts, RenewExpiry(a) PROVE CounterInv'
<1>0. Counting(a) /\ SameKey /\ UNCHANGED <<clock, losses>>
    BY KeysStaySame DEF RenewExpiry, IsAt, Counting
<1>1. redis # NoKey => redis'.expires = clock + Window
    BY CommandFields DEF RenewExpiry, PastInv
<1>2. CASE Reaches(a, "done") /\ UNCHANGED admitted
    BY <1>0, <1>2, PlainState, LeavesCounts DEF Reaches
<1>3. CASE /\ attempt[a].count <= MaxAttempts
           /\ Becomes(a, [attempt[a] EXCEPT !.at = "ensure"]) /\ UNCHANGED admitted
  <2> DEFINE s == [attempt[a] EXCEPT !.at = "ensure"]
  <2>1. s \in AttemptStates /\ s.count = attempt[a].count /\ s.since = attempt[a].since
        /\ s.life = attempt[a].life
      BY <1>0, EnsureFields DEF PastInv
  <2>2. attempt'[a] = s /\ \A b \in Attempts \ {a} : attempt'[b] = attempt[b]
      BY <1>3, <2>1, OneMoves DEF PastInv
  <2> HIDE DEF s
  <2>3. \A b \in Attempts : InTime(b)' =>
            /\ InTime(b)
            /\ attempt'[b].count = attempt[b].count /\ attempt'[b].life = attempt[b].life
            /\ b = a \/ attempt'[b].at = attempt[b].at
      BY <1>0, <2>1, <2>2 DEF InTime, Counting
  <2> QED BY <1>0, <1>1, <1>3, <2>3, CounterKept
<1>4. CASE attempt[a].count <= MaxAttempts /\ CountedIn(a) /\ Reaches(a, "done")
  <2>1. InTime(a) /\ attempt[a].life = losses => redis # NoKey
      BY DEF CounterInv, PlacesAhead
  <2>2. clock + Window <= clock + Window
      BY ClockFields, LimitNumbers DEF PastInv
  <2> QED BY <1>0, <1>1, <1>4, <2>1, <2>2, CounterAdmits DEF Reaches
<1> QED BY <1>2, <1>3, <1>4 DEF RenewExpiry

LEMMA EnsureExpiryCounts ==
    ASSUME PastInv, CounterInv, NEW a \in Attempts, EnsureExpiry(a) PROVE CounterInv'
<1>0. Counting(a) /\ SameKey /\ UNCHANGED <<clock, losses>> /\ attempt[a].at = "ensure"
    BY KeysStaySame DEF EnsureExpiry, IsAt, Counting
<1>1. CASE InTime(a)
  <2>1. attempt[a].count <= MaxAttempts
        /\ (attempt[a].life = losses => redis # NoKey /\ clock + Window <= redis.expires)
      BY <1>0, <1>1 DEF CounterInv, PlacesAhead
  <2>2. clock + Window <= clock + Window
      BY ClockFields, LimitNumbers DEF PastInv
  <2> QED BY <1>0, <2>1, <2>2, CounterAdmits DEF EnsureExpiry, Reaches, SameKey
<1>2. CASE ~InTime(a)
  <2>1. PICK one \in Admissions : admitted' = admitted \cup {one} /\ one.by = "late"
      BY <1>0, <1>2, OneIsCounted DEF PastInv, EnsureExpiry, InTime
  <2> QED BY <1>0, <2>1, PlainState, LeavesCounts DEF EnsureExpiry, Reaches
<1> QED BY <1>1, <1>2

LEMMA RedisFailsCounts ==
    ASSUME PastInv, CounterInv, NEW a \in Attempts, RedisFails(a) PROVE CounterInv'
BY KeysStaySame, PlainState, LeavesCounts DEF RedisFails, Reaches

LEMMA AllowCounts ==
    ASSUME PastInv, CounterInv, NEW a \in Attempts, Allow(a) PROVE CounterInv'
<1> DEFINE at == IF usingRedis THEN "redis" ELSE "clock"
<1>1. Becomes(a, [at |-> at]) /\ at \in {"redis", "clock"}
      /\ UNCHANGED <<clock, redis, losses, admitted>>
    BY DEF Allow, Reaches
<1>2. SameKey
    BY <1>1, KeysStaySame
<1> HIDE DEF at
<1> QED BY <1>1, <1>2, PlainState, LeavesCounts

LEMMA ReadClockCounts ==
    ASSUME PastInv, CounterInv, NEW a \in Attempts, ReadClock(a) PROVE CounterInv'
<1> DEFINE s == [at |-> "memory", now |-> clock]
<1>1. s \in AttemptStates /\ s.at = "memory"
    BY DEF AttemptStates, PastInv, RateLimitsTypeOK
<1>2. Becomes(a, s) /\ UNCHANGED <<clock, redis, losses, admitted>>
    BY DEF ReadClock
<1>3. SameKey
    BY <1>2, KeysStaySame
<1> HIDE DEF s
<1> QED BY <1>1, <1>2, <1>3, LeavesCounts

LEMMA CheckMemoryCounts ==
    ASSUME PastInv, CounterInv, NEW a \in Attempts, CheckMemory(a) PROVE CounterInv'
<1>1. Becomes(a, [at |-> "done"]) /\ UNCHANGED <<clock, redis, losses>>
    BY DEF CheckMemory, Reaches
<1>2. SameKey
    BY <1>1, KeysStaySame
<1>3. admitted' = admitted \/ LetIn(a, "memory", attempt[a].now, losses, 0)
    BY DEF CheckMemory
<1>4. \A e \in admitted' : e.by = "redis" => e \in admitted
  <2>1. CASE LetIn(a, "memory", attempt[a].now, losses, 0)
    <3>1. PICK one \in Admissions :
              admitted' = admitted \cup {one} /\ one.by \in {"memory", "late"}
        BY <2>1, OneIsLetIn, ClockFields DEF PastInv
    <3> QED BY <3>1
  <2> QED BY <1>3, <2>1
<1> QED BY <1>1, <1>2, <1>4, PlainState, LeavesCounts

\* When the key expires, so has every place.
LEMMA ClockTicksCounts ==
    ASSUME PastInv, CounterInv, ClockTicks PROVE CounterInv'
<1>0. clock \in Nat /\ Window \in Nat /\ clock' = clock + 1
      /\ UNCHANGED <<attempt, losses, admitted>>
    BY ClockFields, LimitNumbers DEF PastInv, ClockTicks
<1>1. PlacesInLimit' /\ PlacesApart'
    BY <1>0 DEF CounterInv, PlacesInLimit, PlacesApart
<1>2. PlacesKept'
  <2> SUFFICES ASSUME NEW e \in admitted, e.by = "redis", e.life = losses,
                      clock + 1 < e.time + Window
               PROVE  /\ redis' # NoKey /\ e.place <= redis'.count
                      /\ e.time + Window <= redis'.expires
      BY <1>0 DEF PlacesKept
  <2>1. e.time \in Nat
      BY AdmittedFields DEF PastInv
  <2>2. clock < e.time + Window
      BY <1>0, <2>1
  <2>3. redis # NoKey /\ e.place <= redis.count /\ e.time + Window <= redis.expires
      BY <2>2 DEF CounterInv, PlacesKept
  <2>4. redis.expires \in Nat
      BY <2>3, ClockFields DEF PastInv
  <2>5. ~(redis.expires <= clock + 1)
      BY <1>0, <2>1, <2>3, <2>4
  <2>6. redis' = redis
      BY <1>0, <2>5 DEF ClockTicks
  <2> QED BY <2>3, <2>6
<1>3. \A a \in Attempts : ~InTime(a)'
  <2> SUFFICES ASSUME NEW a \in Attempts, Counting(a) PROVE attempt[a].since # clock + 1
      BY <1>0 DEF InTime, Counting
  <2>1. attempt[a].since \in Nat /\ attempt[a].since <= clock
      BY CountingFields DEF PastInv
  <2> QED BY <1>0, <2>1
<1> QED BY <1>1, <1>2, <1>3 DEF CounterInv, PlacesAhead

\* Nothing is counted in the new life.
LEMMA RestartsCount ==
    ASSUME PastInv, CounterInv, RedisForgets \/ ServiceRestarts PROVE CounterInv'
<1>0. losses \in Nat /\ losses' = losses + 1 /\ UNCHANGED <<clock, admitted>>
    BY ClockFields DEF PastInv, RedisForgets, ServiceRestarts
<1>1. PlacesInLimit' /\ PlacesApart'
    BY <1>0 DEF CounterInv, PlacesInLimit, PlacesApart
<1>2. \A e \in admitted : e.life # losses'
  <2> TAKE e \in admitted
  <2>1. e.life \in Nat /\ e.life <= losses
      BY AdmittedFields DEF PastInv
  <2> QED BY <1>0, <2>1
<1>3. PlacesKept'
    BY <1>0, <1>2 DEF PlacesKept
<1>4. CASE UNCHANGED attempt
  <2>1. \A a \in Attempts : InTime(a)' => InTime(a) /\ attempt[a].life # losses'
    <3> SUFFICES ASSUME NEW a \in Attempts, InTime(a) PROVE attempt[a].life # losses'
        BY <1>0, <1>4 DEF InTime, Counting
    <3>1. attempt[a].life \in Nat /\ attempt[a].life <= losses
        BY CountingFields DEF PastInv, InTime
    <3> QED BY <1>0, <3>1
  <2>2. PlacesAhead'
      BY <1>0, <1>4, <2>1 DEF CounterInv, PlacesAhead
  <2> QED BY <1>1, <1>3, <2>2 DEF CounterInv
<1>5. CASE ServiceRestarts
  <2>1. \A a \in Attempts : ~InTime(a)'
      BY <1>5 DEF ServiceRestarts, InTime, Counting
  <2> QED BY <1>1, <1>3, <2>1 DEF CounterInv, PlacesAhead
<1> QED BY <1>4, <1>5 DEF RedisForgets

-----------------------------------------------------------------------------
(* What memory lists *)

LEMMA AdmittedFinite ==
    ASSUME IsFiniteSet(admitted), NEW by, NEW life, NEW t
    PROVE  IsFiniteSet(Admitted(by, life, t)) /\ Cardinality(Admitted(by, life, t)) \in Nat
BY FS_Subset, FS_CardinalityType DEF Admitted

LEMMA OneMore ==
    ASSUME NEW S, IsFiniteSet(S), NEW x
    PROVE  /\ IsFiniteSet(S \cup {x})
           /\ Cardinality(S) \in Nat
           /\ Cardinality(S \cup {x}) <= Cardinality(S) + 1
<1>1. Cardinality(S) \in Nat
    BY FS_CardinalityType
<1>2. Cardinality(S \cup {x}) \in {Cardinality(S), Cardinality(S) + 1}
    BY FS_AddElement
<1> QED BY <1>1, <1>2, FS_AddElement

\* Steps that let in nobody from memory.
LEMMA ListKept ==
    ASSUME PastInv, ListInv, UNCHANGED <<clock, losses>>, listed \subseteq listed',
           \A e \in admitted' : e.by = "memory" => e \in admitted,
           admitted \subseteq admitted'
    PROVE  ListInv'
<1>1. \A life, t : Admitted("memory", life, t)' = Admitted("memory", life, t)
    BY DEF Admitted
<1>2. Listed'
    BY <1>1 DEF ListInv, Listed
<1> QED BY <1>1, <1>2 DEF ListInv

LEMMA CountedInLists ==
    ASSUME PastInv, ListInv, NEW a \in Attempts, Counting(a), CountedIn(a),
           UNCHANGED <<clock, losses, listed>>
    PROVE  ListInv'
<1>1. PICK one \in Admissions :
          admitted' = admitted \cup {one} /\ one.by \in {"redis", "late"}
    BY OneIsCounted DEF PastInv
<1> QED BY <1>1, ListKept

LEMMA RedisLists ==
    ASSUME PastInv, ListInv, NEW a \in Attempts,
           Allow(a) \/ Increment(a) \/ RenewExpiry(a) \/ EnsureExpiry(a) \/ RedisFails(a)
           \/ ReadClock(a)
    PROVE  ListInv'
<1>1. UNCHANGED <<clock, losses, listed>>
    BY DEF Allow, Increment, RenewExpiry, EnsureExpiry, RedisFails, ReadClock
<1>2. CASE UNCHANGED admitted
    BY <1>1, <1>2, ListKept
<1>3. CASE Counting(a) /\ CountedIn(a)
    BY <1>1, <1>3, CountedInLists
<1> QED
    BY <1>2, <1>3
    DEF Allow, Increment, RenewExpiry, EnsureExpiry, RedisFails, ReadClock, Counting, IsAt

\* On time, the live ones are among the valid ones of the list.
LEMMA CheckMemoryLists ==
    ASSUME PastInv, ListInv, NEW a \in Attempts, CheckMemory(a) PROVE ListInv'
<1> DEFINE now == attempt[a].now
           valid == {e \in listed : e[2] + Window > now}
           live == Admitted("memory", losses, clock)
<1>0. /\ RateLimitsTypeOK /\ IsFiniteSet(admitted) /\ IsFiniteSet(listed)
      /\ clock \in Nat /\ Window \in Nat /\ MaxAttempts \in Nat /\ losses \in Nat
      /\ UNCHANGED <<clock, losses>>
    BY ClockFields, LimitNumbers DEF PastInv, CheckMemory
<1>1. now \in Nat /\ now <= clock
    BY WaitingFields DEF CheckMemory, PastInv
<1>2. valid \subseteq listed /\ IsFiniteSet(valid) /\ Cardinality(valid) \in Nat
    BY <1>0, FS_Subset, FS_CardinalityType
<1>3. \A e \in live : <<e.attempt, e.time>> \in valid
  <2> TAKE e \in live
  <2>1. e \in admitted /\ e.time \in Nat /\ clock < e.time + Window
      BY <1>0, AdmittedFields DEF Admitted
  <2>2. e.time + Window > now
      BY <1>0, <1>1, <2>1
  <2>3. <<e.attempt, e.time>> \in listed
      BY DEF ListInv, Listed
  <2> QED BY <2>2, <2>3
<1>4. CASE listed' = valid /\ UNCHANGED admitted
  <2>1. \A life, t : Admitted("memory", life, t)' = Admitted("memory", life, t)
      BY <1>4 DEF Admitted
  <2>2. Listed'
      BY <1>0, <1>3, <1>4, <2>1 DEF Listed
  <2> QED BY <1>0, <1>4, <2>1, <2>2 DEF ListInv
<1>5. CASE /\ ~(Cardinality(valid) >= MaxAttempts)
           /\ listed' = valid \cup {<<a, now>>} /\ LetIn(a, "memory", now, losses, 0)
  <2>1. PICK one \in Admissions :
            /\ admitted' = admitted \cup {one}
            /\ one.attempt = a /\ one.time = clock /\ one.life = losses /\ one.place = 0
            /\ one.by = IF now = clock THEN "memory" ELSE "late"
      BY <1>0, <1>5, OneIsLetIn
  <2>2. \A e \in admitted' : e.by = "memory" => e.place = 0
      BY <2>1 DEF ListInv
  <2>3. Listed'
    <3> SUFFICES ASSUME NEW e \in Admitted("memory", losses, clock)'
                 PROVE  <<e.attempt, e.time>> \in listed'
        BY <1>0 DEF Listed
    <3>1. CASE e \in admitted
      <4>1. e \in live
          BY <1>0, <3>1 DEF Admitted
      <4> QED BY <1>3, <1>5, <4>1
    <3>2. CASE e = one
      <4>1. now = clock
          BY <2>1, <3>2 DEF Admitted
      <4> QED BY <1>5, <2>1, <3>2, <4>1
    <3> QED BY <2>1, <3>1, <3>2 DEF Admitted
  <2>4. \A life \in 0..losses, t \in Ticks :
            Cardinality(Admitted("memory", life, t)') <= MaxAttempts
    <3> SUFFICES ASSUME NEW life \in 0..losses, NEW t \in Ticks
                 PROVE  Cardinality(Admitted("memory", life, t)') <= MaxAttempts
        OBVIOUS
    <3>1. CASE one \notin Admitted("memory", life, t)'
      <4>1. Admitted("memory", life, t)' = Admitted("memory", life, t)
          BY <2>1, <3>1 DEF Admitted
      <4> QED BY <4>1 DEF ListInv
    <3>2. CASE one \in Admitted("memory", life, t)'
      <4>1. now = clock /\ life = losses /\ clock <= t
          BY <2>1, <3>2 DEF Admitted
      <4>2. Admitted("memory", life, t)' \subseteq live \cup {one}
        <5> SUFFICES ASSUME NEW e \in admitted, e.by = "memory", e.life = losses,
                            t < e.time + Window
                     PROVE  e.time <= clock /\ clock < e.time + Window
            BY <2>1, <4>1 DEF Admitted
        <5>1. e.time \in Nat /\ e.time <= clock /\ t \in Nat
            BY <1>0, AdmittedFields DEF PastInv, Ticks
        <5> QED BY <1>0, <4>1, <5>1
      <4> DEFINE pair == [e \in live |-> <<e.attempt, e.time>>]
      <4>3. pair \in [live -> valid]
          BY <1>3
      <4>4. \A d, e \in live : pair[d] = pair[e] => d = e
        <5> TAKE d, e \in live
        <5>1. /\ d \in admitted /\ e \in admitted /\ d.by = "memory" /\ e.by = "memory"
              /\ d.life = losses /\ e.life = losses
            BY DEF Admitted
        <5>2. d.place = 0 /\ e.place = 0
            BY <5>1 DEF ListInv
        <5>3. /\ d = [attempt |-> d.attempt, time |-> d.time, by |-> d.by, life |-> d.life,
                      place |-> d.place]
              /\ e = [attempt |-> e.attempt, time |-> e.time, by |-> e.by, life |-> e.life,
                      place |-> e.place]
            BY <1>0, <5>1, AdmittedFields
        <5>4. ASSUME pair[d] = pair[e] PROVE d.attempt = e.attempt /\ d.time = e.time
            BY <5>4
        <5> QED BY <5>1, <5>2, <5>3, <5>4
      <4>5. pair \in Injection(live, valid)
          BY <4>3, <4>4 DEF Injection, IsInjective
      <4>6. Cardinality(live) <= Cardinality(valid)
          BY <1>2, <4>5, FS_Injection
      <4>7. IsFiniteSet(live) /\ Cardinality(live) \in Nat
          BY <1>0, AdmittedFinite
      <4> HIDE DEF live, valid
      <4>8. Cardinality(live) + 1 <= MaxAttempts
          BY <1>0, <1>2, <1>5, <4>6, <4>7
      <4>9. IsFiniteSet(live \cup {one}) /\ Cardinality(live \cup {one}) <= Cardinality(live) + 1
          BY <4>7, OneMore
      <4>10. /\ Cardinality(Admitted("memory", life, t)') <= Cardinality(live \cup {one})
             /\ Cardinality(live \cup {one}) \in Nat
             /\ Cardinality(Admitted("memory", life, t)') \in Nat
          BY <4>2, <4>9, FS_Subset, FS_CardinalityType
      <4> QED BY <1>0, <4>7, <4>8, <4>9, <4>10
    <3> QED BY <3>1, <3>2
  <2> QED BY <1>0, <2>2, <2>3, <2>4 DEF ListInv
<1> QED BY <1>4, <1>5 DEF CheckMemory

LEMMA ClockTicksLists == ASSUME PastInv, ListInv, ClockTicks PROVE ListInv'
<1>0. clock \in Nat /\ Window \in Nat /\ clock' = clock + 1
      /\ UNCHANGED <<listed, losses, admitted>>
    BY ClockFields, LimitNumbers DEF PastInv, ClockTicks
<1>1. \A life, t : Admitted("memory", life, t)' = Admitted("memory", life, t)
    BY <1>0 DEF Admitted
<1>2. Listed'
  <2> SUFFICES ASSUME NEW e \in admitted, e.by = "memory", e.life = losses,
                      clock + 1 < e.time + Window
               PROVE  <<e.attempt, e.time>> \in listed
      BY <1>0 DEF Listed, Admitted
  <2>1. e.time \in Nat /\ e.time <= clock
      BY AdmittedFields DEF PastInv
  <2>2. clock < e.time + Window
      BY <1>0, <2>1
  <2> QED BY <2>1, <2>2 DEF ListInv, Listed, Admitted
<1> QED BY <1>0, <1>1, <1>2 DEF ListInv

LEMMA RestartsList ==
    ASSUME PastInv, ListInv, RedisForgets \/ ServiceRestarts PROVE ListInv'
<1>0. losses \in Nat /\ losses' = losses + 1 /\ UNCHANGED <<clock, admitted>>
    BY ClockFields DEF PastInv, RedisForgets, ServiceRestarts
<1>1. \A life, t : Admitted("memory", life, t)' = Admitted("memory", life, t)
    BY <1>0 DEF Admitted
<1>2. \A t : Admitted("memory", losses + 1, t) = {}
  <2> SUFFICES ASSUME NEW e \in admitted, e.life = losses + 1 PROVE FALSE
      BY DEF Admitted
  <2>1. e.life \in Nat /\ e.life <= losses
      BY AdmittedFields DEF PastInv
  <2> QED BY <1>0, <2>1
<1>3. Listed'
    BY <1>0, <1>1, <1>2 DEF Listed
<1>4. ASSUME NEW life \in 0..losses', NEW t \in Ticks
      PROVE  Cardinality(Admitted("memory", life, t)) <= MaxAttempts
  <2>1. CASE life = losses + 1
    <3>1. Cardinality(Admitted("memory", life, t)) = 0
        BY <1>2, <2>1, FS_EmptySet
    <3> QED BY <3>1, LimitNumbers
  <2>2. CASE life # losses + 1
    <3>1. life \in 0..losses
        BY <1>0, <2>2
    <3> QED BY <3>1 DEF ListInv
  <2> QED BY <2>1, <2>2
<1> QED BY <1>0, <1>1, <1>3, <1>4 DEF ListInv

-----------------------------------------------------------------------------
(* The theorems on the attempts *)

LEMMA LimitsInitHolds == RateLimitsInit => LimitsInv
<1> SUFFICES ASSUME RateLimitsInit PROVE LimitsInv
    OBVIOUS
<1>1. \A by, life, t : Admitted(by, life, t) = {}
    BY DEF RateLimitsInit, Admitted
<1>2. Cardinality({}) = 0 /\ IsFiniteSet({})
    BY FS_EmptySet
<1>3. \A a \in Attempts : attempt[a].at = "new" /\ attempt[a] \in AttemptStates
    BY PlainState DEF RateLimitsInit
<1>4. RateLimitsTypeOK
    BY <1>3, LimitNumbers DEF RateLimitsInit, RateLimitsTypeOK, Ticks
<1>5. PastInv
    BY <1>2, <1>3, <1>4 DEF RateLimitsInit, PastInv, IsAt, Counting
<1>6. CounterInv
    BY <1>3 DEF RateLimitsInit, CounterInv, PlacesInLimit, PlacesApart, PlacesKept, PlacesAhead,
                InTime, Counting
<1>7. ListInv
  <2>1. \A by, life, t : Cardinality(Admitted(by, life, t)) <= MaxAttempts
      BY <1>1, <1>2, LimitNumbers
  <2>2. Listed /\ admitted = {}
      BY <1>1 DEF RateLimitsInit, Listed
  <2> QED BY <2>1, <2>2 DEF ListInv
<1> QED BY <1>5, <1>6, <1>7 DEF LimitsInv

LEMMA LimitsStep == LimitsInv /\ [RateLimitsNext]_limits => LimitsInv'
<1> SUFFICES ASSUME PastInv, CounterInv, ListInv, [RateLimitsNext]_limits
             PROVE  PastInv' /\ CounterInv' /\ ListInv'
    BY DEF LimitsInv
<1>1. CASE UNCHANGED limits
  <2>1. UNCHANGED <<clock, redis, usingRedis, listed, attempt, losses, admitted>>
    BY <1>1 DEF limits
  <2>2. PastInv'
    BY <2>1 DEF PastInv, RateLimitsTypeOK, IsAt, Counting
  <2>3. CounterInv'
    BY <2>1 DEF CounterInv, PlacesInLimit, PlacesApart, PlacesKept, PlacesAhead, InTime, Counting
  <2>4. \A by, life, t : Admitted(by, life, t)' = Admitted(by, life, t)
    BY <2>1 DEF Admitted
  <2>5. ListInv'
    BY <2>1, <2>4 DEF ListInv, Listed
  <2> QED BY <2>2, <2>3, <2>5
<1>2. ASSUME NEW a \in Attempts, Allow(a) PROVE PastInv' /\ CounterInv' /\ ListInv'
    BY <1>2, AllowPast, AllowCounts, RedisLists
<1>3. ASSUME NEW a \in Attempts, Increment(a) PROVE PastInv' /\ CounterInv' /\ ListInv'
    BY <1>3, IncrementPast, IncrementCounts, RedisLists
<1>4. ASSUME NEW a \in Attempts, RenewExpiry(a) PROVE PastInv' /\ CounterInv' /\ ListInv'
    BY <1>4, RenewExpiryPast, RenewExpiryCounts, RedisLists
<1>5. ASSUME NEW a \in Attempts, EnsureExpiry(a) PROVE PastInv' /\ CounterInv' /\ ListInv'
    BY <1>5, EnsureExpiryPast, EnsureExpiryCounts, RedisLists
<1>6. ASSUME NEW a \in Attempts, RedisFails(a) PROVE PastInv' /\ CounterInv' /\ ListInv'
    BY <1>6, RedisFailsPast, RedisFailsCounts, RedisLists
<1>7. ASSUME NEW a \in Attempts, ReadClock(a) PROVE PastInv' /\ CounterInv' /\ ListInv'
    BY <1>7, ReadClockPast, ReadClockCounts, RedisLists
<1>8. ASSUME NEW a \in Attempts, CheckMemory(a) PROVE PastInv' /\ CounterInv' /\ ListInv'
    BY <1>8, CheckMemoryPast, CheckMemoryCounts, CheckMemoryLists
<1>9. CASE ClockTicks
    BY <1>9, ClockTicksPast, ClockTicksCounts, ClockTicksLists
<1>10. CASE RedisForgets \/ ServiceRestarts
    BY <1>10, RestartsPast, RestartsCount, RestartsList
<1> QED
    BY <1>1, <1>2, <1>3, <1>4, <1>5, <1>6, <1>7, <1>8, <1>9, <1>10 DEF RateLimitsNext

\* Every state is of the type the model states (FallbackRateLimiter, RedisRateLimiter,
\* MemoryRateLimiter).
THEOREM LimitsTypes == RateLimitsSpec => []RateLimitsTypeOK
<1>1. LimitsInv => RateLimitsTypeOK
    BY DEF LimitsInv, PastInv
<1> QED BY <1>1, LimitsInitHolds, LimitsStep, PTL DEF RateLimitsSpec

\* In every window each limiter lets in MaxAttempts at most for each life of its
\* counter or list, however attempts arrive, the two commands of a pipeline are pulled
\* apart, Redis fails or is restarted, the service is restarted and the mode changes;
\* and one more for each attempt that the clock overtook (checkRateLimit, checkLimit).
THEOREM LoginsWithinBudget == RateLimitsSpec => []LoginBudget
<1>1. ASSUME LimitsInv PROVE LoginBudget
  <2> SUFFICES ASSUME NEW life \in 0..losses, NEW t \in Ticks
               PROVE  Cardinality(Admitted("redis", life, t)) <= MaxAttempts
      BY <1>1 DEF LimitsInv, ListInv, LoginBudget
  <2> DEFINE let == Admitted("redis", life, t)
             place == [e \in let |-> e.place]
  <2>1. place \in [let -> 1..MaxAttempts]
      BY <1>1 DEF LimitsInv, CounterInv, PlacesInLimit, Admitted
  <2>2. \A d, e \in let : place[d] = place[e] => d = e
    <3> TAKE d, e \in let
    <3>1. /\ d \in admitted /\ e \in admitted /\ d.by = "redis" /\ e.by = "redis"
          /\ d.life = e.life /\ d.time <= t /\ e.time <= t
          /\ t < d.time + Window /\ t < e.time + Window
        BY DEF Admitted
    <3>2. d.time \in Nat /\ e.time \in Nat /\ t \in Nat /\ Window \in Nat
        BY <1>1, <3>1, AdmittedFields, LimitNumbers DEF LimitsInv, PastInv, Ticks
    <3>3. d.time < e.time + Window /\ e.time < d.time + Window
        BY <3>1, <3>2
    <3>4. place[d] = d.place /\ place[e] = e.place
        OBVIOUS
    <3> QED BY <1>1, <3>1, <3>3, <3>4 DEF LimitsInv, CounterInv, PlacesApart
  <2>3. place \in Injection(let, 1..MaxAttempts)
      BY <2>1, <2>2 DEF Injection, IsInjective
  <2>4. IsFiniteSet(1..MaxAttempts) /\ Cardinality(1..MaxAttempts) = MaxAttempts
      BY LimitNumbers, FS_Interval
  <2> HIDE DEF place
  <2> QED BY <2>3, <2>4, FS_Injection
<1> QED BY <1>1, LimitsInitHolds, LimitsStep, PTL DEF RateLimitsSpec

-----------------------------------------------------------------------------
(* The rate limiter of the gateway *)

\* The places of a queue with a time since t, and the requests of a client that
\* were admitted on time since t.
Since(queue, t) == {i \in DOMAIN queue : t <= queue[i]}
OnTime(client, t) == {e \in allowed : From[e[1]] = client /\ ~e[3] /\ t <= e[2]}

\* Of what a client was admitted on time, what its window still holds is in its
\* queue, as long as the cache keeps the client.
QueuesRemember ==
    \A client \in Clients, t \in Clock :
        time <= t + WindowSeconds =>
            Cardinality(OnTime(client, t)) <= Cardinality(Since(Queue(client), t))

OnTimeBudget ==
    \A client \in Clients, t \in Clock :
        Cardinality({e \in OnTime(client, t) : e[2] <= t + WindowSeconds}) <= RequestsPerMinute

LimiterInv ==
    /\ LimiterTypeOK
    /\ IsFiniteSet(allowed) /\ IsFiniteSet(tracked) /\ Cardinality(tracked) <= Capacity
    /\ \A e \in allowed : e[2] <= time
    /\ \A c \in Checks : check[c].at = "waiting" => check[c].now <= time
    /\ cleaning # NoCleanup => cleaning <= time
    /\ QueuesRemember
    /\ OnTimeBudget

LEMMA Fewer ==
    ASSUME NEW S, IsFiniteSet(S), NEW T \in SUBSET S
    PROVE  /\ IsFiniteSet(T) /\ Cardinality(T) \in Nat /\ Cardinality(S) \in Nat
           /\ Cardinality(T) <= Cardinality(S)
BY FS_Subset, FS_CardinalityType

LEMMA Smallest ==
    ASSUME NEW S \in SUBSET Nat, S # {}
    PROVE  \E x \in S : \A y \in S : x <= y
<1> DEFINE R == OpToRel(<, Nat)
<1>1. IsWellFoundedOn(R, Nat)
    BY NatLessThanWellFounded
<1>2. \A x, y \in Nat : x < y => <<x, y>> \in R
    BY DEF OpToRel
<1> HIDE DEF R
<1>3. PICK x \in S : \A y \in S : ~ (<<y, x>> \in R)
    BY <1>1, WFMin
<1>4. ASSUME NEW y \in S PROVE x <= y
  <2>1. x \in Nat /\ y \in Nat /\ ~ (y < x)
      BY <1>2, <1>3
  <2> QED BY <2>1
<1> QED BY <1>4

-----------------------------------------------------------------------------
(* Queues *)

LEMMA SinceFinite ==
    ASSUME NEW queue \in Seq(Clock), NEW t
    PROVE  /\ IsFiniteSet(Since(queue, t)) /\ Cardinality(Since(queue, t)) \in Nat
           /\ Cardinality(Since(queue, t)) <= Len(queue)
<1>1. DOMAIN queue = 1..Len(queue) /\ Len(queue) \in Nat
    OBVIOUS
<1>2. IsFiniteSet(1..Len(queue)) /\ Cardinality(1..Len(queue)) = Len(queue)
    BY <1>1, FS_Interval
<1>3. Since(queue, t) \in SUBSET (1..Len(queue))
    BY <1>1 DEF Since
<1> QED BY <1>2, <1>3, Fewer

\* Cutting the front off takes nothing that a later time still counts.
LEMMA PurgedKeeps ==
    ASSUME NEW queue \in Seq(Clock), NEW now \in Nat, NEW t \in Nat, now <= t + WindowSeconds
    PROVE  /\ Purged(queue, now) \in Seq(Clock)
           /\ Cardinality(Since(queue, t)) <= Cardinality(Since(Purged(queue, now), t))
<1> DEFINE kept == {i \in DOMAIN queue : queue[i] + WindowSeconds >= now}
<1>0. /\ DOMAIN queue = 1..Len(queue) /\ Len(queue) \in Nat
      /\ \A i \in DOMAIN queue : queue[i] \in Nat
      /\ WindowSeconds \in Nat
    BY GatewayLimiterAssumption DEF Clock
<1>1. Since(queue, t) \subseteq kept
    BY <1>0 DEF Since
<1>2. CASE kept = {}
  <2>1. Purged(queue, now) = << >>
      BY <1>2 DEF Purged
  <2>2. Since(queue, t) = {} /\ Since(Purged(queue, now), t) = {}
      BY <1>1, <1>2, <2>1 DEF Since
  <2>3. Cardinality({}) <= Cardinality({}) /\ << >> \in Seq(Clock)
      BY FS_EmptySet
  <2> QED BY <2>1, <2>2, <2>3
<1>3. CASE kept # {}
  <2> DEFINE first == CHOOSE i \in kept : \A j \in kept : i <= j
  <2>1. \E i \in kept : \A j \in kept : i <= j
    <3>1. kept \in SUBSET Nat
        BY <1>0
    <3> HIDE DEF kept
    <3> QED BY <1>3, <3>1, Smallest
  <2>2. first \in kept /\ \A j \in kept : first <= j
      BY <2>1
  <2>3. Purged(queue, now) = SubSeq(queue, first, Len(queue))
      BY <1>3 DEF Purged
  <2> HIDE DEF first
  <2>4. PICK f \in 1..Len(queue) : f = first
      BY <1>0, <2>2
  <2>5. PICK cut : cut = SubSeq(queue, f, Len(queue))
      OBVIOUS
  <2>6. /\ cut \in Seq(Clock) /\ Len(cut) = Len(queue) - f + 1
        /\ \A i \in 1..(Len(queue) - f + 1) : cut[i] = queue[f + i - 1]
      BY <1>0, <2>4, <2>5
  <2> DEFINE shift == [i \in Since(queue, t) |-> i - f + 1]
  <2>7. ASSUME NEW i \in Since(queue, t) PROVE i - f + 1 \in Since(cut, t) /\ i \in Nat
    <3>1. i \in 1..Len(queue) /\ f <= i /\ t <= queue[i]
        BY <1>0, <1>1, <2>2, <2>4 DEF Since
    <3>2. i - f + 1 \in 1..(Len(queue) - f + 1) /\ f + (i - f + 1) - 1 = i
        BY <1>0, <2>4, <3>1
    <3>3. cut[i - f + 1] = queue[i]
        BY <2>6, <3>2
    <3> QED BY <2>6, <3>1, <3>2, <3>3 DEF Since
  <2>8. shift \in Injection(Since(queue, t), Since(cut, t))
    <3>1. shift \in [Since(queue, t) -> Since(cut, t)]
        BY <2>7
    <3>2. \A i, j \in Since(queue, t) : shift[i] = shift[j] => i = j
        BY <2>4, <2>7
    <3> QED BY <3>1, <3>2 DEF Injection, IsInjective
  <2>9. Cardinality(Since(queue, t)) <= Cardinality(Since(cut, t))
      BY <2>6, <2>8, SinceFinite, FS_Injection
  <2> QED BY <2>3, <2>4, <2>5, <2>6, <2>9
<1> QED BY <1>2, <1>3

\* One more time at the end.
LEMMA AppendedSince ==
    ASSUME NEW queue \in Seq(Clock), NEW now \in Clock, NEW t \in Nat
    PROVE  /\ Append(queue, now) \in Seq(Clock)
           /\ Cardinality(Since(queue, t)) <= Cardinality(Since(Append(queue, now), t))
           /\ t <= now => Cardinality(Since(Append(queue, now), t))
                              = Cardinality(Since(queue, t)) + 1
<1>0. PICK longer : longer = Append(queue, now)
    OBVIOUS
<1>1. /\ longer \in Seq(Clock) /\ Len(longer) = Len(queue) + 1 /\ longer[Len(queue) + 1] = now
      /\ \A i \in 1..Len(queue) : longer[i] = queue[i]
      /\ DOMAIN queue = 1..Len(queue) /\ DOMAIN longer = 1..(Len(queue) + 1) /\ Len(queue) \in Nat
    BY <1>0
<1>2. Since(queue, t) \in SUBSET Since(longer, t)
    BY <1>1 DEF Since
<1>3. Cardinality(Since(queue, t)) <= Cardinality(Since(longer, t))
    BY <1>1, <1>2, SinceFinite, Fewer
<1>4. ASSUME t <= now
      PROVE  Cardinality(Since(longer, t)) = Cardinality(Since(queue, t)) + 1
  <2>1. Since(longer, t) = Since(queue, t) \cup {Len(queue) + 1}
      BY <1>1, <1>4 DEF Since
  <2>2. Len(queue) + 1 \notin Since(queue, t)
      BY <1>1 DEF Since
  <2> QED BY <2>1, <2>2, SinceFinite, FS_AddElement
<1> QED BY <1>0, <1>1, <1>3, <1>4

-----------------------------------------------------------------------------
(* The steps of the gateway's limiter *)

LEMMA LimiterFields ==
    ASSUME LimiterTypeOK
    PROVE  /\ time \in Nat /\ WindowSeconds \in Nat /\ RequestsPerMinute \in Nat
           /\ \A t \in Clock : t \in Nat
           /\ \A e \in allowed : /\ e[1] \in Checks /\ e[2] \in Nat /\ e[3] \in BOOLEAN
                                 /\ From[e[1]] \in Clients
           /\ \A c \in Checks : /\ From[c] \in Clients
                                /\ check[c].at = "waiting" => check[c].now \in Clock
           /\ \A client \in Clients : Queue(client) \in Seq(Clock)
<1>1. /\ time \in Nat /\ WindowSeconds \in Nat /\ RequestsPerMinute \in Nat
      /\ \A t \in Clock : t \in Nat
    BY GatewayLimiterAssumption DEF LimiterTypeOK, Clock
<1>2. \A e \in allowed : e[1] \in Checks /\ e[2] \in Nat /\ e[3] \in BOOLEAN
    BY <1>1 DEF LimiterTypeOK
<1>3. \A c \in Checks : From[c] \in Clients
    BY DEF Clients
<1>4. \A c \in Checks : check[c].at = "waiting" => check[c].now \in Clock
    BY DEF LimiterTypeOK
<1>5. \A client \in Clients : Queue(client) \in Seq(Clock)
  <2>1. << >> \in Seq(Clock)
      OBVIOUS
  <2> QED BY <2>1 DEF Queue, LimiterTypeOK
<1> QED BY <1>1, <1>2, <1>3, <1>4, <1>5

LEMMA OnTimeFinite ==
    ASSUME IsFiniteSet(allowed), NEW client, NEW t
    PROVE  IsFiniteSet(OnTime(client, t)) /\ Cardinality(OnTime(client, t)) \in Nat
BY Fewer DEF OnTime

LEMMA QuietLimiter ==
    ASSUME LimiterInv, LimiterTypeOK', UNCHANGED <<time, tracked, requests, allowed>>,
           \A c \in Checks : (check[c].at = "waiting")' => check'[c].now <= time,
           cleaning' # NoCleanup => cleaning' <= time
    PROVE  LimiterInv'
<1>1. \A client, t : /\ Since(Queue(client), t)' = Since(Queue(client), t)
                     /\ OnTime(client, t)' = OnTime(client, t)
    BY DEF Since, Queue, OnTime
<1>2. QueuesRemember' /\ OnTimeBudget'
    BY <1>1 DEF LimiterInv, QueuesRemember, OnTimeBudget
<1> QED BY <1>2 DEF LimiterInv

LEMMA ReadTimeKeeps == ASSUME LimiterInv, NEW c \in Checks, ReadTime(c) PROVE LimiterInv'
<1>1. LimiterTypeOK'
    BY DEF LimiterInv, LimiterTypeOK, ReadTime
<1>2. \A d \in Checks : (check[d].at = "waiting")' => check'[d].now <= time
    BY LimiterFields DEF LimiterInv, LimiterTypeOK, ReadTime
<1> QED BY <1>1, <1>2, QuietLimiter DEF ReadTime, LimiterInv

LEMMA ReadCleanupTimeKeeps == ASSUME LimiterInv, ReadCleanupTime PROVE LimiterInv'
<1>1. LimiterTypeOK'
    BY DEF LimiterInv, LimiterTypeOK, ReadCleanupTime
<1>2. cleaning' <= time
    BY LimiterFields DEF LimiterInv, ReadCleanupTime
<1> QED BY <1>1, <1>2, QuietLimiter DEF ReadCleanupTime, LimiterInv

LEMMA TimePassesKeeps == ASSUME LimiterInv, TimePasses PROVE LimiterInv'
<1>0. time \in Nat /\ WindowSeconds \in Nat /\ time' = time + 1
      /\ UNCHANGED <<tracked, requests, check, cleaning, allowed>>
      /\ \A e \in allowed : e[2] \in Nat
    BY LimiterFields DEF TimePasses, LimiterInv
<1>1. LimiterTypeOK'
    BY <1>0, GatewayLimiterAssumption DEF TimePasses, LimiterInv, LimiterTypeOK, Clock
<1>2. \A client, t : /\ Since(Queue(client), t)' = Since(Queue(client), t)
                     /\ OnTime(client, t)' = OnTime(client, t)
    BY <1>0 DEF Since, Queue, OnTime
<1>3. OnTimeBudget'
    BY <1>0, <1>2 DEF LimiterInv, OnTimeBudget
<1>4. QueuesRemember'
  <2> SUFFICES ASSUME NEW client \in Clients, NEW t \in Clock, time' <= t + WindowSeconds
               PROVE  Cardinality(OnTime(client, t)) <= Cardinality(Since(Queue(client), t))
      BY <1>2 DEF QueuesRemember
  <2>0. t \in Nat
      BY LimiterFields DEF LimiterInv
  <2>1. time <= t + WindowSeconds
      BY <1>0, <2>0
  <2> QED BY <2>1 DEF LimiterInv, QueuesRemember
<1>5. \A e \in allowed : e[2] <= time'
    BY <1>0 DEF LimiterInv
<1>6. \A c \in Checks : check[c].at = "waiting" => check[c].now <= time'
  <2> SUFFICES ASSUME NEW c \in Checks, check[c].at = "waiting" PROVE check[c].now <= time'
      OBVIOUS
  <2>1. check[c].now \in Nat /\ check[c].now <= time
      BY <1>0, LimiterFields DEF LimiterInv
  <2> QED BY <1>0, <2>1
<1>7. cleaning # NoCleanup => cleaning <= time'
  <2> SUFFICES ASSUME cleaning # NoCleanup PROVE cleaning <= time'
      OBVIOUS
  <2>1. cleaning \in Nat /\ cleaning <= time
      BY LimiterFields DEF LimiterInv, LimiterTypeOK
  <2> QED BY <1>0, <2>1
<1> QED BY <1>0, <1>1, <1>3, <1>4, <1>5, <1>6, <1>7 DEF LimiterInv

\* A client that goes has nothing in its queue that a window still holds.
LEMMA CleanupKeeps == ASSUME LimiterInv, CleanupExpired PROVE LimiterInv'
<1>0. /\ LimiterTypeOK /\ UNCHANGED <<time, used, touched, check, allowed>>
      /\ time \in Nat /\ WindowSeconds \in Nat /\ \A t \in Clock : t \in Nat
    BY LimiterFields DEF CleanupExpired, LimiterInv
<1>1. PICK now \in Clock : now = cleaning
    BY DEF CleanupExpired, LimiterInv, LimiterTypeOK
<1>2. now \in Nat /\ now <= time
    BY <1>0, <1>1 DEF CleanupExpired, LimiterInv
<1>3. /\ \A client \in Clients : requests'[client] = Purged(requests[client], now)
      /\ requests' = [client \in Clients |-> Purged(requests[client], now)]
      /\ tracked' = {client \in tracked : ~Expired(client)} /\ cleaning' = NoCleanup
    BY <1>1 DEF CleanupExpired
<1>4. ASSUME NEW client \in Clients, NEW t \in Clock, now <= t + WindowSeconds
      PROVE  /\ Purged(requests[client], now) \in Seq(Clock)
             /\ Cardinality(Since(requests[client], t))
                    <= Cardinality(Since(Purged(requests[client], now), t))
  <2>1. PICK queue \in Seq(Clock) : queue = requests[client]
      BY <1>0 DEF LimiterTypeOK
  <2> QED BY <1>0, <1>2, <1>4, <2>1, PurgedKeeps
<1>5. LimiterTypeOK'
  <2>1. ASSUME NEW client \in Clients PROVE Purged(requests[client], now) \in Seq(Clock)
    <3>1. now <= now + WindowSeconds
        BY <1>0, <1>2
    <3> QED BY <1>4, <3>1
  <2>2. requests' \in [Clients -> Seq(Clock)]
      BY <1>3, <2>1
  <2> QED BY <1>0, <1>3, <2>2 DEF LimiterTypeOK
<1>6. QueuesRemember'
  <2> SUFFICES ASSUME NEW client \in Clients, NEW t \in Clock, time <= t + WindowSeconds
               PROVE  Cardinality(OnTime(client, t)) <= Cardinality(Since(Queue(client)', t))
    <3>1. \A client, t : /\ OnTime(client, t)' = OnTime(client, t)
                         /\ Since(Queue(client), t)' = Since(Queue(client)', t)
        BY <1>0 DEF OnTime, Since
    <3> QED BY <1>0, <3>1 DEF QueuesRemember
  <2>1. Cardinality(OnTime(client, t)) <= Cardinality(Since(Queue(client), t))
      BY DEF LimiterInv, QueuesRemember
  <2>2. now <= t + WindowSeconds
      BY <1>0, <1>2
  <2>3. CASE client \notin tracked
    <3>1. Queue(client)' = << >> /\ Queue(client) = << >>
        BY <1>3, <2>3 DEF Queue
    <3> QED BY <2>1, <3>1
  <2>4. CASE client \in tracked /\ Expired(client)
    <3>1. PICK queue \in Seq(Clock) : queue = requests[client]
        BY <1>0 DEF LimiterTypeOK
    <3>2. \A i \in DOMAIN queue : queue[i] \in Nat /\ queue[i] + WindowSeconds < now
        BY <1>0, <1>1, <2>4, <3>1 DEF Expired
    <3>3. Since(queue, t) = {}
        BY <1>0, <2>2, <3>2, <1>2 DEF Since
    <3>4. Queue(client) = queue /\ Queue(client)' = << >>
        BY <1>3, <2>4, <3>1 DEF Queue
    <3>5. Since(<< >>, t) = {}
        BY DEF Since
    <3> QED BY <2>1, <3>3, <3>4, <3>5
  <2>5. CASE client \in tracked /\ ~Expired(client)
    <3>1. Queue(client) = requests[client] /\ Queue(client)' = Purged(requests[client], now)
        BY <1>3, <2>5 DEF Queue
    <3>2. PICK one, two, three : /\ one = Cardinality(OnTime(client, t))
                                /\ two = Cardinality(Since(requests[client], t))
                                /\ three = Cardinality(Since(Purged(requests[client], now), t))
        OBVIOUS
    <3>3. one <= two /\ two <= three
        BY <1>4, <2>1, <2>2, <3>1, <3>2
    <3>4. one \in Nat /\ two \in Nat /\ three \in Nat
      <4>1. requests[client] \in Seq(Clock) /\ Purged(requests[client], now) \in Seq(Clock)
          BY <1>0, <1>4, <2>2 DEF LimiterTypeOK
      <4> QED BY <3>2, <4>1, SinceFinite, OnTimeFinite DEF LimiterInv
    <3> QED BY <3>1, <3>2, <3>3, <3>4
  <2> QED BY <2>3, <2>4, <2>5
<1>7. OnTimeBudget'
    BY <1>0 DEF LimiterInv, OnTimeBudget, OnTime
<1>8. IsFiniteSet(tracked') /\ Cardinality(tracked') <= Capacity
  <2>1. tracked' \in SUBSET tracked
      BY <1>3
  <2>2. /\ IsFiniteSet(tracked') /\ Cardinality(tracked') <= Cardinality(tracked)
        /\ Cardinality(tracked') \in Nat /\ Cardinality(tracked) \in Nat
      BY <2>1, Fewer DEF LimiterInv
  <2> QED BY <2>2, GatewayLimiterAssumption DEF LimiterInv
<1> QED BY <1>0, <1>3, <1>5, <1>6, <1>7, <1>8 DEF LimiterInv

LEMMA EvictionMakesRoom ==
    ASSUME NEW client, LimiterTypeOK, IsFiniteSet(tracked), Cardinality(tracked) <= Capacity
    PROVE  LET after == (tracked \ Evicted(client)) \cup {client}
           IN  IsFiniteSet(after) /\ Cardinality(after) <= Capacity
<1> DEFINE others == tracked \ {client}
           after == (tracked \ Evicted(client)) \cup {client}
<1>1. /\ IsFiniteSet(others) /\ Cardinality(others) \in Nat /\ Cardinality(others) <= Capacity
      /\ Capacity \in Nat \ {0}
  <2>1. others \in SUBSET tracked
      OBVIOUS
  <2> QED BY <2>1, Fewer, GatewayLimiterAssumption
<1>2. CASE Cardinality(others) < Capacity
  <2>1. after \in SUBSET (others \cup {client})
      OBVIOUS
  <2>2. IsFiniteSet(others \cup {client})
        /\ Cardinality(others \cup {client}) <= Cardinality(others) + 1
      BY <1>1, OneMore
  <2>3. IsFiniteSet(after) /\ Cardinality(after) <= Cardinality(others \cup {client})
        /\ Cardinality(after) \in Nat /\ Cardinality(others \cup {client}) \in Nat
      BY <2>1, <2>2, Fewer
  <2> QED BY <1>1, <1>2, <2>2, <2>3
<1>3. CASE ~(Cardinality(others) < Capacity)
  <2>1. others # {}
    <3>1. Cardinality({}) = 0
        BY FS_EmptySet
    <3> QED BY <1>1, <1>3, <3>1
  <2>2. PICK d \in others : \A e \in others : used[d] <= used[e]
    <3> DEFINE times == {used[e] : e \in others}
    <3>1. times \in SUBSET Nat /\ times # {}
        BY <2>1 DEF LimiterTypeOK
    <3>2. PICK x \in times : \A y \in times : x <= y
        BY <3>1, Smallest
    <3> QED BY <3>2
  <2>3. d \in Evicted(client)
      BY <1>1, <1>3, <2>2 DEF Evicted
  <2>4. after \in SUBSET ((others \ {d}) \cup {client})
      BY <2>3
  <2>5. IsFiniteSet(others \ {d}) /\ Cardinality(others \ {d}) = Cardinality(others) - 1
        /\ Cardinality(others \ {d}) \in Nat
    <3>1. IsFiniteSet(others \ {d}) /\ Cardinality(others \ {d}) = Cardinality(others) - 1
        BY <1>1, FS_RemoveElement
    <3> QED BY <3>1, FS_CardinalityType
  <2>6. IsFiniteSet((others \ {d}) \cup {client})
        /\ Cardinality((others \ {d}) \cup {client}) <= Cardinality(others \ {d}) + 1
      BY <2>5, OneMore
  <2>7. /\ IsFiniteSet(after) /\ Cardinality(after) <= Cardinality((others \ {d}) \cup {client})
        /\ Cardinality(after) \in Nat /\ Cardinality((others \ {d}) \cup {client}) \in Nat
      BY <2>4, <2>6, Fewer
  <2> QED BY <1>1, <2>5, <2>6, <2>7
<1> QED BY <1>2, <1>3

\* The history with one admission more, of another client or of this one.
LEMMA AdmissionAdds ==
    ASSUME NEW c \in Checks, NEW client, client = From[c], NEW late \in BOOLEAN,
           allowed' \subseteq allowed \cup {<<c, time, late>>}
    PROVE  /\ \A d, t : d # client => OnTime(d, t)' \subseteq OnTime(d, t)
           /\ \A t : OnTime(client, t)' \subseteq OnTime(client, t) \cup {<<c, time, late>>}
           /\ \A t : late \/ ~(t <= time) => OnTime(client, t)' \subseteq OnTime(client, t)
BY DEF OnTime

LEMMA CheckRateLimitKeeps ==
    ASSUME LimiterInv, NEW c \in Checks, CheckRateLimit(c) PROVE LimiterInv'
<1>1. PICK client \in Clients, now \in Clock, old \in Seq(Clock), evicted \in SUBSET tracked :
        client = From[c] /\ now = check[c].now /\ old = Queue(client) /\ evicted = Evicted(client)
    BY LimiterFields DEF LimiterInv, CheckRateLimit, Evicted
<1>2. PICK queue : queue = Purged(old, now)
    OBVIOUS
<1> DEFINE fits == Len(queue) < RequestsPerMinute
           late == now # time
           kept == {e \in allowed : From[e[1]] \notin evicted}
<1>3. /\ check[c].at = "waiting" /\ check' = [check EXCEPT ![c] = [at |-> "done"]]
      /\ tracked' = (tracked \ evicted) \cup {client}
      /\ used' = [used EXCEPT ![client] = Handled]
      /\ requests' = [requests EXCEPT ![client] = IF fits THEN Append(queue, now) ELSE queue]
      /\ touched' = IF fits \/ client \notin tracked
                    THEN [touched EXCEPT ![client] = now] ELSE touched
      /\ allowed' = IF fits THEN kept \cup {<<c, time, late>>} ELSE kept
      /\ UNCHANGED <<time, cleaning>>
    BY <1>1, <1>2 DEF CheckRateLimit
<1>4. /\ LimiterTypeOK /\ time \in Nat /\ WindowSeconds \in Nat /\ RequestsPerMinute \in Nat
      /\ \A t \in Clock : t \in Nat
      /\ IsFiniteSet(allowed)
    BY LimiterFields DEF LimiterInv
<1>5. now \in Nat /\ now <= time
    BY <1>1, <1>3, <1>4 DEF LimiterInv
<1>6. /\ queue \in Seq(Clock) /\ Append(queue, now) \in Seq(Clock) /\ Len(queue) \in Nat
      /\ \A t \in Clock : time <= t + WindowSeconds =>
            Cardinality(Since(old, t)) <= Cardinality(Since(queue, t))
  <2>1. queue \in Seq(Clock)
    <3>1. now <= now + WindowSeconds
        BY <1>4, <1>5
    <3> QED BY <1>2, <1>5, <3>1, PurgedKeeps
  <2>2. ASSUME NEW t \in Clock, time <= t + WindowSeconds
        PROVE  Cardinality(Since(old, t)) <= Cardinality(Since(queue, t))
    <3>1. now <= t + WindowSeconds /\ t \in Nat
        BY <1>4, <1>5, <2>2
    <3> QED BY <1>2, <1>5, <3>1, PurgedKeeps
  <2> QED BY <2>1, <2>2
<1>7. client \notin evicted
    BY <1>1 DEF Evicted
<1>8. LimiterTypeOK'
  <2>1. requests' \in [Clients -> Seq(Clock)]
      BY <1>3, <1>4, <1>6 DEF LimiterTypeOK
  <2>2. used' \in [Clients -> Nat]
    <3>1. Handled \in Nat
      <4>1. {d \in Checks : check[d].at = "done"} \in SUBSET Checks
          OBVIOUS
      <4> QED BY <4>1, Fewer, GatewayLimiterAssumption DEF Handled
    <3> QED BY <1>3, <1>4, <3>1 DEF LimiterTypeOK
  <2>3. touched' \in [Clients -> Clock]
      BY <1>3, <1>4 DEF LimiterTypeOK
  <2>4. allowed' \subseteq Checks \X Clock \X BOOLEAN
    <3>1. late \in BOOLEAN /\ time \in Clock
        BY <1>4 DEF LimiterTypeOK
    <3>2. <<c, time, late>> \in Checks \X Clock \X BOOLEAN
        BY <3>1
    <3>3. allowed' \subseteq allowed \cup {<<c, time, late>>}
        BY <1>3
    <3> QED BY <1>4, <3>2, <3>3 DEF LimiterTypeOK
  <2>5. tracked' \subseteq Clients
      BY <1>3, <1>4 DEF LimiterTypeOK
  <2>6. check' \in [Checks -> [at : {"new", "done"}] \cup [at : {"waiting"}, now : Clock]]
      BY <1>3, <1>4 DEF LimiterTypeOK
  <2> QED BY <1>3, <1>4, <2>1, <2>2, <2>3, <2>4, <2>5, <2>6 DEF LimiterTypeOK
<1>9. /\ \A d, t : d # client => OnTime(d, t)' \subseteq OnTime(d, t)
      /\ \A t : OnTime(client, t)' \subseteq OnTime(client, t) \cup {<<c, time, late>>}
      /\ \A t : ~fits \/ late \/ ~(t <= time) => OnTime(client, t)' \subseteq OnTime(client, t)
  <2>1. allowed' \subseteq allowed \cup {<<c, time, late>>}
      BY <1>3
  <2>2. ~fits => allowed' \subseteq allowed
      BY <1>3
  <2>3. ~fits => \A t : OnTime(client, t)' \subseteq OnTime(client, t)
      BY <2>2 DEF OnTime
  <2>4. late \in BOOLEAN
      OBVIOUS
  <2> HIDE DEF late, fits
  <2> QED BY <1>1, <2>1, <2>3, <2>4, AdmissionAdds
<1>10. \A d \in Clients, t \in Clock :
          /\ IsFiniteSet(OnTime(d, t)) /\ Cardinality(OnTime(d, t)) \in Nat
          /\ time <= t + WindowSeconds =>
                Cardinality(OnTime(d, t)) <= Cardinality(Since(Queue(d), t))
    BY <1>4, OnTimeFinite DEF LimiterInv, QueuesRemember
<1>11. QueuesRemember'
  <2> SUFFICES ASSUME NEW d \in Clients, NEW t \in Clock, time <= t + WindowSeconds
               PROVE  Cardinality(OnTime(d, t)') <= Cardinality(Since(Queue(d)', t))
    <3>1. \A x, t : Since(Queue(x), t)' = Since(Queue(x)', t)
        BY DEF Since
    <3> QED BY <1>3, <3>1 DEF QueuesRemember
  <2>1. CASE d # client /\ d \in evicted
    <3>1. OnTime(d, t)' = {}
        BY <1>1, <1>3, <2>1 DEF OnTime
    <3>2. d \notin tracked'
        BY <1>3, <2>1
    <3>3. Queue(d)' = << >>
        BY <3>2 DEF Queue
    <3>4. Since(<< >>, t) = {}
        BY DEF Since
    <3>5. Cardinality({}) <= Cardinality({})
        BY FS_EmptySet
    <3> QED BY <3>1, <3>3, <3>4, <3>5
  <2>2. CASE d # client /\ d \notin evicted
    <3>1. Queue(d)' = Queue(d)
        BY <1>3, <1>4, <2>2 DEF Queue, LimiterTypeOK
    <3>2. OnTime(d, t)' \in SUBSET OnTime(d, t)
        BY <1>9, <2>2
    <3>3. PICK one, two, three : /\ one = Cardinality(OnTime(d, t)') /\ two = Cardinality(OnTime(d, t))
                                /\ three = Cardinality(Since(Queue(d), t))
        OBVIOUS
    <3>4. one \in Nat /\ two \in Nat /\ one <= two
        BY <1>10, <3>2, <3>3, Fewer
    <3>5. two <= three /\ three \in Nat
        BY <1>4, <1>10, <3>3, LimiterFields, SinceFinite
    <3> QED BY <3>1, <3>3, <3>4, <3>5
  <2>3. CASE d = client
    <3>1. Queue(client)' = IF fits THEN Append(queue, now) ELSE queue
        BY <1>1, <1>3, <1>4 DEF Queue, LimiterTypeOK
    <3>2. PICK one, two, three, four :
            /\ one = Cardinality(OnTime(client, t)) /\ two = Cardinality(Since(old, t))
            /\ three = Cardinality(Since(queue, t))
            /\ four = Cardinality(Since(Append(queue, now), t))
        OBVIOUS
    <3>3. /\ one \in Nat /\ two \in Nat /\ three \in Nat /\ four \in Nat
          /\ one <= two /\ two <= three /\ three <= four
          /\ t <= now => four = three + 1
      <4>1. one \in Nat /\ two \in Nat /\ three \in Nat /\ four \in Nat
          BY <1>6, <1>10, <3>2, SinceFinite
      <4>2. one <= two /\ two <= three
          BY <1>1, <1>6, <1>10, <3>2
      <4>3. three <= four /\ (t <= now => four = three + 1)
          BY <1>4, <1>6, <3>2, AppendedSince
      <4> QED BY <4>1, <4>2, <4>3
    <3>4. CASE OnTime(client, t)' \subseteq OnTime(client, t)
      <4>1. Cardinality(OnTime(client, t)') \in Nat /\ Cardinality(OnTime(client, t)') <= one
          BY <1>10, <3>2, <3>4, Fewer
      <4>2. CASE fits
          BY <2>3, <3>1, <3>2, <3>3, <4>1, <4>2
      <4>3. CASE ~fits
          BY <2>3, <3>1, <3>2, <3>3, <4>1, <4>3
      <4> QED BY <4>2, <4>3
    <3>5. CASE ~(OnTime(client, t)' \subseteq OnTime(client, t))
      <4>1. fits /\ ~late /\ t <= time
          BY <1>9, <3>5
      <4>2. four = three + 1
          BY <3>3, <4>1
      <4> DEFINE more == OnTime(client, t) \cup {<<c, time, late>>}
      <4>3. IsFiniteSet(more) /\ Cardinality(more) <= one + 1
          BY <1>10, <3>2, OneMore
      <4>4. OnTime(client, t)' \in SUBSET more
          BY <1>9
      <4> HIDE DEF more
      <4>5. /\ Cardinality(OnTime(client, t)') <= Cardinality(more)
            /\ Cardinality(OnTime(client, t)') \in Nat /\ Cardinality(more) \in Nat
          BY <4>3, <4>4, Fewer
      <4>6. Cardinality(OnTime(client, t)') <= four
          BY <3>3, <4>2, <4>3, <4>5
      <4> QED BY <2>3, <3>1, <3>2, <4>1, <4>6
    <3> QED BY <3>4, <3>5
  <2> QED BY <2>1, <2>2, <2>3
<1>12. OnTimeBudget'
  <2> DEFINE In(d, t) == {e \in OnTime(d, t) : e[2] <= t + WindowSeconds}
  <2> SUFFICES ASSUME NEW d \in Clients, NEW t \in Clock
               PROVE  Cardinality(In(d, t)') <= RequestsPerMinute
      BY DEF OnTimeBudget
  <2>1. /\ IsFiniteSet(In(d, t)) /\ Cardinality(In(d, t)) \in Nat
        /\ Cardinality(In(d, t)) <= RequestsPerMinute
    <3>1. In(d, t) \in SUBSET OnTime(d, t)
        OBVIOUS
    <3>2. IsFiniteSet(In(d, t)) /\ Cardinality(In(d, t)) \in Nat
        BY <1>10, <3>1, Fewer
    <3> QED BY <3>2 DEF LimiterInv, OnTimeBudget
  <2>2. CASE In(d, t)' \subseteq In(d, t)
    <3>1. Cardinality(In(d, t)') \in Nat /\ Cardinality(In(d, t)') <= Cardinality(In(d, t))
        BY <2>1, <2>2, Fewer
    <3> QED BY <1>4, <2>1, <3>1
  <2>3. CASE ~(In(d, t)' \subseteq In(d, t))
    <3>1. ~(OnTime(d, t)' \subseteq OnTime(d, t))
        BY <2>3
    <3>2. d = client /\ fits /\ ~late
        BY <1>9, <3>1
    <3>3. time <= t + WindowSeconds
      <4>1. PICK e \in In(d, t)' : e \notin In(d, t)
          BY <2>3
      <4>2. e \in OnTime(d, t)' /\ e[2] <= t + WindowSeconds
          BY <4>1
      <4>3. e \notin OnTime(d, t)
          BY <4>1, <4>2
      <4>4. e = <<c, time, late>>
          BY <1>9, <3>2, <4>2, <4>3
      <4> QED BY <4>2, <4>4
    <3>4. PICK one, two, three :
            /\ one = Cardinality(OnTime(client, t)) /\ two = Cardinality(Since(old, t))
            /\ three = Cardinality(Since(queue, t))
        OBVIOUS
    <3>5. one \in Nat /\ two \in Nat /\ three \in Nat
        BY <1>6, <1>10, <3>4, SinceFinite
    <3>6. one <= two /\ two <= three
        BY <1>1, <1>6, <1>10, <3>3, <3>4
    <3>7. three <= Len(queue)
        BY <1>6, <3>4, SinceFinite
    <3>8. one + 1 <= RequestsPerMinute
        BY <1>4, <1>6, <3>2, <3>5, <3>6, <3>7
    <3> DEFINE more == OnTime(client, t) \cup {<<c, time, late>>}
    <3>9. IsFiniteSet(more) /\ Cardinality(more) <= one + 1
        BY <1>10, <3>4, OneMore
    <3>10. In(d, t)' \in SUBSET more
        BY <1>9, <3>2
    <3> HIDE DEF more
    <3>11. /\ Cardinality(In(d, t)') <= Cardinality(more)
           /\ Cardinality(In(d, t)') \in Nat /\ Cardinality(more) \in Nat
        BY <3>9, <3>10, Fewer
    <3> QED BY <1>4, <3>5, <3>8, <3>9, <3>11
  <2> QED BY <2>2, <2>3
<1>13. IsFiniteSet(tracked') /\ Cardinality(tracked') <= Capacity
    BY <1>1, <1>3, <1>4, EvictionMakesRoom DEF LimiterInv
<1>14. IsFiniteSet(allowed') /\ \A e \in allowed' : e[2] <= time
  <2>1. kept \in SUBSET allowed
      OBVIOUS
  <2>2. IsFiniteSet(kept) /\ IsFiniteSet(kept \cup {<<c, time, late>>})
      BY <1>4, <2>1, Fewer, OneMore
  <2>3. \A e \in kept \cup {<<c, time, late>>} : e[2] <= time
      BY <1>4 DEF LimiterInv
  <2> QED BY <1>3, <2>2, <2>3
<1>15. \A d \in Checks : (check[d].at = "waiting")' => check'[d].now <= time
    BY <1>3, <1>4 DEF LimiterInv, LimiterTypeOK
<1> QED BY <1>3, <1>8, <1>11, <1>12, <1>13, <1>14, <1>15 DEF LimiterInv

LEMMA LimiterInitHolds == LimiterInit => LimiterInv
<1> SUFFICES ASSUME LimiterInit PROVE LimiterInv
    OBVIOUS
<1>0. Cardinality({}) = 0 /\ IsFiniteSet({}) /\ << >> \in Seq(Clock) /\ 0 \in Clock
      /\ RequestsPerMinute \in Nat /\ Capacity \in Nat
    BY FS_EmptySet, GatewayLimiterAssumption DEF Clock
<1>1. LimiterTypeOK
    BY <1>0 DEF LimiterInit, LimiterTypeOK
<1>2. \A d, t : OnTime(d, t) = {} /\ Queue(d) = << >> /\ Since(<< >>, t) = {}
    BY DEF LimiterInit, OnTime, Queue, Since
<1>3. Cardinality({}) <= Cardinality({}) /\ Cardinality({}) <= RequestsPerMinute
    BY <1>0
<1>4. QueuesRemember
    BY <1>2, <1>3 DEF QueuesRemember
<1>5. \A d, t : {e \in OnTime(d, t) : e[2] <= t + WindowSeconds} = {}
    BY <1>2
<1>6. OnTimeBudget
    BY <1>3, <1>5 DEF OnTimeBudget
<1> QED BY <1>0, <1>1, <1>4, <1>6 DEF LimiterInit, LimiterInv

LEMMA LimiterStep == LimiterInv /\ [LimiterNext]_limiter => LimiterInv'
<1> SUFFICES ASSUME LimiterInv, [LimiterNext]_limiter PROVE LimiterInv'
    OBVIOUS
<1>1. CASE UNCHANGED limiter
  <2>1. LimiterTypeOK'
      BY <1>1 DEF limiter, LimiterInv, LimiterTypeOK
  <2> QED BY <1>1, <2>1, QuietLimiter DEF limiter, LimiterInv
<1> QED BY <1>1, ReadTimeKeeps, CheckRateLimitKeeps, ReadCleanupTimeKeeps, CleanupKeeps,
           TimePassesKeeps DEF LimiterNext

THEOREM LimiterTypes == LimiterSpec => []LimiterTypeOK
<1>1. LimiterInv => LimiterTypeOK
    BY DEF LimiterInv
<1> QED BY <1>1, LimiterInitHolds, LimiterStep, PTL DEF LimiterSpec

\* However calls wait for the lock, clients push each other out of the cache and
\* clean-ups cut the queues: no window of a client that the cache keeps holds
\* more than requests_per_minute of its requests, and one more for each that the
\* clock overtook (check_rate_limit and cleanup_expired).
THEOREM ClientsWithinBudget == LimiterSpec => []GatewayBudget
<1>1. ASSUME LimiterInv PROVE GatewayBudget
  <2> SUFFICES ASSUME NEW client \in Clients, NEW t \in Clock
               PROVE  Cardinality(AllowedTo(client, t)) <= RequestsPerMinute
                          + Cardinality({e \in allowed : From[e[1]] = client /\ e[3]})
      BY <1>1 DEF LimiterInv, GatewayBudget
  <2> DEFINE punctual == {e \in OnTime(client, t) : e[2] <= t + WindowSeconds}
             late == {e \in allowed : From[e[1]] = client /\ e[3]}
  <2>0. IsFiniteSet(allowed) /\ RequestsPerMinute \in Nat
      BY <1>1, GatewayLimiterAssumption DEF LimiterInv
  <2>1. IsFiniteSet(punctual) /\ IsFiniteSet(late)
        /\ Cardinality(punctual) \in Nat /\ Cardinality(late) \in Nat
    <3>1. punctual \in SUBSET allowed /\ late \in SUBSET allowed
        BY DEF OnTime
    <3> QED BY <2>0, <3>1, Fewer
  <2>2. Cardinality(punctual) <= RequestsPerMinute
      BY <1>1 DEF LimiterInv, OnTimeBudget
  <2>3. AllowedTo(client, t) \in SUBSET (punctual \cup late)
      BY DEF AllowedTo, OnTime
  <2> HIDE DEF punctual, late
  <2>4. IsFiniteSet(punctual \cup late)
        /\ Cardinality(punctual \cup late) <= Cardinality(punctual) + Cardinality(late)
    <3>1. Cardinality(punctual \cap late) \in Nat
        BY <2>1, FS_Intersection, FS_CardinalityType
    <3>2. IsFiniteSet(punctual \cup late)
          /\ Cardinality(punctual \cup late)
                = Cardinality(punctual) + Cardinality(late) - Cardinality(punctual \cap late)
        BY <2>1, FS_Union
    <3> QED BY <2>1, <3>1, <3>2
  <2>5. /\ Cardinality(AllowedTo(client, t)) <= Cardinality(punctual \cup late)
        /\ Cardinality(AllowedTo(client, t)) \in Nat /\ Cardinality(punctual \cup late) \in Nat
      BY <2>3, <2>4, Fewer
  <2>6. Cardinality(AllowedTo(client, t)) <= RequestsPerMinute + Cardinality(late)
      BY <2>0, <2>1, <2>2, <2>4, <2>5
  <2> QED BY <2>6 DEF late
<1> QED BY <1>1, LimiterInitHolds, LimiterStep, PTL DEF LimiterSpec

\* What stands before the backends keeps both budgets at once, in any order of the
\* steps of the two limiters (checkRateLimit, checkLimit, check_rate_limit).
THEOREM BudgetsAreKept == LimitersSpec => []BudgetsHold
<1>1. LimitersInit => RateLimitsInit /\ LimiterInit
    BY DEF LimitersInit
<1>2. [LimitersNext]_<<limits, limiter>> => [RateLimitsNext]_limits /\ [LimiterNext]_limiter
    BY DEF LimitersNext
<1>3. LimitersSpec => RateLimitsSpec /\ LimiterSpec
    BY <1>1, <1>2, PTL DEF LimitersSpec, RateLimitsSpec, LimiterSpec
<1>4. LoginBudget /\ GatewayBudget => BudgetsHold
    BY DEF BudgetsHold
<1> QED BY <1>3, <1>4, LoginsWithinBudget, ClientsWithinBudget, PTL
=============================================================================
