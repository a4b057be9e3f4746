---------------------------- MODULE DecisionPath ----------------------------
(***************************************************************************)
(* The path of a request through the gateway (mock_stack.py and             *)
(* gateway_transport.py), the decision service (decision_service.py) and on *)
(* to the engine.  Each call runs on a gateway thread and, in the service,  *)
(* on a handler thread of its own; the two go on independently once the     *)
(* gateway's timeout has passed.  The service process may stop and be       *)
(* started again at any time.                                              *)
(***************************************************************************)
EXTENDS DecisionRules, FiniteSets

CONSTANTS
    Calls,           \* client connections to the gateway, used again and again
    Configs,         \* how the service may have been launched
    Requests,        \* the requests clients send
    MaxConcurrency   \* max_concurrency

(* What DecisionService and load_predictor accept, and the codes a request  *)
(* may be refused with: by do_POST for its size, by _validate_request for   *)
(* what it says.                                                           *)
TooLarge == "body_too_large"
ValidationErrors == {"invalid_request", "invalid_schema", "unsupported_controls"}

(* What _build_decision_request can make nothing of never leaves the        *)
(* gateway.                                                                *)
Unreadable == "unreadable"

ConfigType ==
    [ready : BOOLEAN, threshold : Nat, mapper : BOOLEAN, vocabulary : BOOLEAN,
     override : Levels \cup {NoOverride}, unknown : Levels,
     variant : DOMAIN FeatureVariants]

RequestType ==
    [error : {NoError, TooLarge, Unreadable} \cup ValidationErrors, prompt : BOOLEAN, text : BOOLEAN,
     tools : {"none", "empty", "some"}, systems : Nat, fields : SUBSET OptionalFields,
     gate : Levels, xargs : [reliable : BOOLEAN, tokens : 0..MaxTokens]]

ASSUME PathAssumption ==
    /\ IsFiniteSet(Calls)
    /\ Configs \subseteq ConfigType
    /\ Requests \subseteq RequestType
    /\ MaxConcurrency \in Nat \ {0}

VARIABLES
    config,    \* the service's configuration
    service,   \* "up" or "down"
    slots,     \* the value of the BoundedSemaphore _capacity
    gateway,   \* where each gateway thread is in do_POST
    request,   \* the request each call is about
    handler,   \* where the service's thread for that call is
    reply,     \* what it wrote to the connection, NoReply until then
    xargs,     \* the optimizer arguments the gateway forwards
    audit      \* the error code of its GatewayDecisionAudit

vars == <<config, service, slots, gateway, request, handler, reply, xargs, audit>>

NoReply == Failure("pending")
NoRequest == [error |-> NoError, prompt |-> FALSE, text |-> FALSE, tools |-> "none",
              systems |-> 0, fields |-> {}, gate |-> 0, xargs |-> Absent]

Init ==
    /\ config \in Configs
    /\ service = "up"
    /\ slots = MaxConcurrency
    /\ gateway = [c \in Calls |-> "idle"]
    /\ request = [c \in Calls |-> NoRequest]
    /\ handler = [c \in Calls |-> "none"]
    /\ reply = [c \in Calls |-> NoReply]
    /\ xargs = [c \in Calls |-> Absent]
    /\ audit = [c \in Calls |-> NoError]

-----------------------------------------------------------------------------
(* The gateway                                                             *)

(* The answer to r or the lack of one becomes the arguments and the audit.  *)
Apply(c, r, result) ==
    /\ xargs' = [xargs EXCEPT ![c] = Forwarded(r.xargs, result)]
    /\ audit' = [audit EXCEPT ![c] = AuditError(result)]
    /\ gateway' = [gateway EXCEPT ![c] = "applied"]

(* do_POST up to the connection to the service: a request it can make       *)
(* nothing of gets a 422, and a service that is down answers with a          *)
(* URLError, "unavailable".                                                *)
Refuse(c, r) ==
    /\ gateway[c] = "idle"
    /\ r.error = Unreadable
    /\ request' = [request EXCEPT ![c] = r]
    /\ gateway' = [gateway EXCEPT ![c] = "refused"]
    /\ UNCHANGED <<config, service, slots, handler, reply, xargs, audit>>

Call(c, r) ==
    /\ gateway[c] = "idle"
    /\ r.error # Unreadable
    /\ request' = [request EXCEPT ![c] = r]
    /\ IF service = "up"
       THEN /\ gateway' = [gateway EXCEPT ![c] = "calling"]
            /\ handler' = [handler EXCEPT ![c] = "received"]
            /\ UNCHANGED <<xargs, audit>>
       ELSE /\ Apply(c, r, Failure("unavailable"))
            /\ UNCHANGED handler
    /\ UNCHANGED <<config, service, slots, reply>>

(* The reply arrives in time. *)
Receive(c) ==
    /\ gateway[c] = "calling"
    /\ reply[c] # NoReply
    /\ Apply(c, request[c], reply[c])
    /\ UNCHANGED <<config, service, slots, request, handler, reply>>

(* The socket timeout passes; the service is not told. *)
Timeout(c) ==
    /\ gateway[c] = "calling"
    /\ Apply(c, request[c], Failure("timeout"))
    /\ UNCHANGED <<config, service, slots, request, handler, reply>>

(* The service stopped before it replied: urlopen raises                   *)
(* ConnectionResetError, which is no URLError, and do_POST with it.         *)
Reset(c) ==
    /\ gateway[c] = "calling"
    /\ handler[c] = "none"
    /\ reply[c] = NoReply
    /\ gateway' = [gateway EXCEPT ![c] = "lost"]
    /\ UNCHANGED <<config, service, slots, request, handler, reply, xargs, audit>>

(* _forward_to_engine; the client gets the engine's answer, or 503 when the *)
(* engine can not be reached.                                              *)
Forward(c) ==
    /\ gateway[c] = "applied"
    /\ gateway' = [gateway EXCEPT ![c] = "forwarded"]
    /\ UNCHANGED <<config, service, slots, request, handler, reply, xargs, audit>>

EngineUnreachable(c) ==
    /\ gateway[c] = "applied"
    /\ gateway' = [gateway EXCEPT ![c] = "engine_503"]
    /\ UNCHANGED <<config, service, slots, request, handler, reply, xargs, audit>>

(* Both ends of the call are over; the connection can carry another one.   *)
Hangup(c) ==
    /\ gateway[c] \in {"forwarded", "engine_503", "refused", "lost"}
    /\ handler[c] = "none"
    /\ gateway' = [gateway EXCEPT ![c] = "idle"]
    /\ request' = [request EXCEPT ![c] = NoRequest]
    /\ reply' = [reply EXCEPT ![c] = NoReply]
    /\ xargs' = [xargs EXCEPT ![c] = Absent]
    /\ audit' = [audit EXCEPT ![c] = NoError]
    /\ UNCHANGED <<config, service, slots, handler>>

-----------------------------------------------------------------------------
(* The decision service                                                    *)

Answer(c, answer) ==
    /\ reply' = [reply EXCEPT ![c] = answer]
    /\ handler' = [handler EXCEPT ![c] = "none"]

(* do_POST and decide up to the predictor: the size, readiness, validation, *)
(* then the gate, which needs no slot, then a slot or the refusal.         *)
RefuseBody(c) ==
    /\ request[c].error = TooLarge
    /\ Answer(c, Failure(TooLarge))
    /\ UNCHANGED slots

NotReady(c) ==
    /\ ~config.ready /\ request[c].error # TooLarge
    /\ Answer(c, Failure("not_ready"))
    /\ UNCHANGED slots

Invalid(c) ==
    /\ config.ready /\ request[c].error \in ValidationErrors
    /\ Answer(c, Failure(request[c].error))
    /\ UNCHANGED slots

Accepted(c) == config.ready /\ request[c].error = NoError

Abstain(c) ==
    /\ Accepted(c) /\ Abstains(config, request[c])
    /\ Answer(c, BuildResponse(config, request[c], Abstention))
    /\ UNCHANGED slots

(* A bug: the slot is asked for before the gate. *)
RateLimitedBeforeGate(c) ==
    /\ Accepted(c)
    /\ slots = 0
    /\ Answer(c, Failure("rate_limited"))
    /\ UNCHANGED slots

RateLimited(c) ==
    /\ Accepted(c) /\ ~Abstains(config, request[c])
    /\ slots = 0
    /\ Answer(c, Failure("rate_limited"))
    /\ UNCHANGED slots

(* A bug: predicting without having got a slot. *)
StartUnlimited(c) ==
    /\ Accepted(c) /\ ~Abstains(config, request[c])
    /\ slots' = slots - 1
    /\ handler' = [handler EXCEPT ![c] = "predicting"]
    /\ UNCHANGED reply

StartPredicting(c) ==
    /\ Accepted(c) /\ ~Abstains(config, request[c])
    /\ slots > 0
    /\ slots' = slots - 1
    /\ handler' = [handler EXCEPT ![c] = "predicting"]
    /\ UNCHANGED reply

Decide(c) ==
    /\ handler[c] = "received"
    /\ \/ RefuseBody(c) \/ NotReady(c) \/ Invalid(c)
       \/ Abstain(c) \/ RateLimited(c) \/ StartPredicting(c)
    /\ UNCHANGED <<config, service, gateway, request, xargs, audit>>

(* The predictor answers: the slot is released and the response built.      *)
Predicted(c) ==
    /\ handler[c] = "predicting"
    /\ slots' = slots + 1
    /\ \E p \in Predictions(config, request[c]) :
          Answer(c, BuildResponse(config, request[c], p))
    /\ UNCHANGED <<config, service, gateway, request, xargs, audit>>

(* A bug: an exception skips the release. *)
RaisedWithoutRelease(c) ==
    /\ handler[c] = "predicting"
    /\ Answer(c, Failure("internal_error"))
    /\ UNCHANGED <<config, service, slots, gateway, request, xargs, audit>>

(* The predictor raises, which it may do for any request. *)
PredictorRaised(c) ==
    /\ handler[c] = "predicting"
    /\ slots' = slots + 1
    /\ Answer(c, Failure("internal_error"))
    /\ UNCHANGED <<config, service, gateway, request, xargs, audit>>

(* The process ends with its threads and its semaphore. *)
ServiceStops ==
    /\ service = "up"
    /\ service' = "down"
    /\ handler' = [c \in Calls |-> "none"]
    /\ slots' = MaxConcurrency
    /\ UNCHANGED <<config, gateway, request, reply, xargs, audit>>

ServiceStarts ==
    /\ service = "down"
    /\ service' = "up"
    /\ UNCHANGED <<config, slots, gateway, request, handler, reply, xargs, audit>>

-----------------------------------------------------------------------------
Serve(c) == Decide(c) \/ Predicted(c) \/ PredictorRaised(c)
Finish(c) == Receive(c) \/ Timeout(c) \/ Reset(c)
Send(c) == Forward(c) \/ EngineUnreachable(c)

Next ==
    \/ \E c \in Calls :
          \/ \E r \in Requests : Refuse(c, r) \/ Call(c, r)
          \/ Serve(c) \/ Finish(c) \/ Send(c) \/ Hangup(c)
    \/ ServiceStops
    \/ ServiceStarts

Spec == Init /\ [][Next]_vars

(* The socket timeout bounds the wait for the service, urlopen's the wait   *)
(* for the engine, and a predictor ends.  Nobody has to call, to stop or to *)
(* start.                                                                  *)
Fairness ==
    \A c \in Calls : WF_vars(Finish(c)) /\ WF_vars(Send(c)) /\ WF_vars(Serve(c))

FairSpec == Spec /\ Fairness

-----------------------------------------------------------------------------
ServiceErrors ==
    {TooLarge, "not_ready", "rate_limited", "internal_error"} \cup ValidationErrors

BundleType ==
    [error : {NoError}, probability : Levels, reliable : BOOLEAN,
     reason : {"ood_rejected", "low_reliability",
               "missing_optional_features", "prediction_reliable"},
     provenance : BOOLEAN, tokens : 0..MaxTokens]

ReplyType == {NoReply} \cup {Failure(e) : e \in ServiceErrors} \cup BundleType

TypeOK ==
    /\ config \in Configs
    /\ service \in {"up", "down"}
    /\ slots \in 0..MaxConcurrency
    /\ gateway \in [Calls -> {"idle", "calling", "applied", "forwarded",
                             "engine_503", "refused", "lost"}]
    /\ request \in [Calls -> Requests \cup {NoRequest}]
    /\ handler \in [Calls -> {"none", "received", "predicting"}]
    /\ reply \in [Calls -> ReplyType]
    /\ xargs \in [Calls -> [reliable : BOOLEAN, tokens : 0..MaxTokens]]
    /\ audit \in [Calls -> {NoError, "timeout", "unavailable", "malformed_response"}
                           \cup ServiceErrors]

(* Every slot is free or held by a predictor call, whether its client still *)
(* waits, has timed out, or the predictor raised: a slot that is not given  *)
(* back refuses requests until the service is restarted.                   *)
EverySlotIsAccountedFor ==
    slots + Cardinality({c \in Calls : handler[c] = "predicting"}) = MaxConcurrency

(* The engine may let a request overtake only on an estimate that a         *)
(* prediction for this very request gave, that passed the gate and the      *)
(* threshold, with no feature missing.  Whatever else happened - a timeout  *)
(* with the answer on its way, an error, an estimate left in the payload by  *)
(* an earlier pass - the request goes on with no estimate at all.           *)
Vouched(c) ==
    /\ request[c].error = NoError /\ ~MissingOptional(config, request[c])
    /\ audit[c] = NoError
    /\ ~Abstains(config, request[c])
    /\ \E p \in Predictions(config, request[c]) :
          /\ ~p.ood /\ p.confidence >= config.threshold
          /\ xargs[c].tokens = EstimatedTokens(p.score)

OnlyVouchedEstimatesReachTheEngine ==
    \A c \in Calls :
        IF EnginePrediction(xargs[c]).trusted THEN Vouched(c) ELSE xargs[c] = Absent

(* An abstained request needs no slot and no model, so that neither a full  *)
(* service nor a failing predictor shows in its audit: it is answered.      *)
AbstentionIsAnswered ==
    \A c \in Calls :
        (gateway[c] # "idle" /\ request[c].error = NoError /\ Abstains(config, request[c]))
            => audit[c] \notin {"rate_limited", "internal_error"}

(* The gate's answer is the one the predictor's confidence would have led   *)
(* to, so skipping the model changes no answer: the short-circuit and the    *)
(* "predictor's confidence agree by construction".                          *)
GateAgreesWithPredictor ==
    \A c \in Calls :
        (reply[c].error = NoError /\ Abstains(config, request[c]))
            => \A p \in Predictions(config, request[c]) :
                  reply[c] = BuildResponse(config, request[c], p)

(* The gateway's validator accepts whatever the service builds with its     *)
(* quantile mapper: no answer is thrown away as malformed.                 *)
NoAnswerIsMalformed ==
    config.mapper => \A c \in Calls : audit[c] # "malformed_response"

(* Every call leaves the gateway whatever the service does, and a full      *)
(* service has a free slot again.                                          *)
EveryCallEnds ==
    /\ \A c \in Calls :
          gateway[c] = "calling" ~> gateway[c] \in {"forwarded", "engine_503", "lost"}
    /\ slots = 0 ~> slots > 0

(* "Timeout, unavailable service, ... or malformed response omits all       *)
(* optimizer metadata and selects fallback_native": no call is lost to a    *)
(* failing decision service.  A service that stops in the middle of a call  *)
(* refutes it.                                                             *)
ServiceFailureFallsBack == \A c \in Calls : gateway[c] # "lost"
=============================================================================
