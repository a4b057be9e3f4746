---------------------------- MODULE DecisionRules ----------------------------
(***************************************************************************)
(* What travels between the gateway, the decision service and the engine,  *)
(* without time or threads: the service's answer to one request            *)
(* (decision_service.py), the gateway's acceptance of it                    *)
(* (gateway_transport.py) and the engine's reading of what the gateway      *)
(* forwards (GatewayMetadataPredictor of predictor.py).                     *)
(*                                                                         *)
(* A request is a record                                                   *)
(*   error    the code _validate_request raises, NoError when it accepts;  *)
(*            "body_too_large" when do_POST refuses it before that, and    *)
(*            "unreadable" when the gateway itself answers it with 422     *)
(*   prompt   whether its last message has a text                          *)
(*   text     whether it brings a tool_schema_text                         *)
(*   tools    its tools array: "none", "empty" or "some"                   *)
(*   systems  how many system messages with a text it has                  *)
(*   fields   the optional fields it brings                                *)
(*   gate     the GateVocabulary's confidence in its schema                *)
(*   xargs    the optimizer arguments the client's payload already carries, *)
(*            as a payload that is sent a second time does                 *)
(* A configuration is a record                                             *)
(*   ready, threshold, mapper (a RankQuantileMapper is loaded),             *)
(*   vocabulary (the predictor is the BertPredictor with its vocabulary),   *)
(*   unknown (the vocabulary's unknown_confidence), variant,                *)
(*   override (LTR_CONSTANT_CONFIDENCE) or NoOverride                      *)
(* Scores stand for round(score * MAX_ESTIMATED_TOKENS), or for the         *)
(* mapper's rounded median; one above the largest stands for all of them.   *)
(***************************************************************************)
EXTENDS Integers

CONSTANTS
    Levels,     \* confidences, 0 among them
    MaxTokens   \* MAX_ESTIMATED_TOKENS

ASSUME RulesAssumption ==
    /\ Levels \subseteq Nat /\ 0 \in Levels
    /\ MaxTokens \in Nat \ {0}

NoError == "none"
NoOverride == -1
NoTokens == 0
NoScore == -1

Scores == 0..(MaxTokens + 1)

(* FEATURE_VARIANTS: the optional features each variant wants.              *)
FeatureVariants ==
    [prompt |-> {},
     prompt_schema |-> {"tools"},
     prompt_schema_history |-> {"tools", "conversation_id"},
     prompt_schema_history_workflow |->
        {"tools", "conversation_id", "workflow_id", "step_id", "previous_tool_gap_ms"}]

OptionalFields == {"conversation_id", "workflow_id", "step_id", "previous_tool_gap_ms"}

(* _predictor_input: the schema text is the request's own, its tools array, *)
(* or the one system message.                                              *)
HasSchema(request) == request.text \/ request.tools = "some" \/ request.systems = 1

(* _has_missing_optional_features: here an empty tools array is a schema.   *)
FeatureMissing(request, feature) ==
    IF feature = "tools"
    THEN ~request.text /\ request.tools = "none" /\ request.systems # 1
    ELSE feature \notin request.fields

MissingOptional(config, request) ==
    \E feature \in FeatureVariants[config.variant] : FeatureMissing(request, feature)

(* _reason_code *)
ReasonCode(ood, confidence, missing, threshold) ==
    CASE ood                                              -> "ood_rejected"
      [] ~ood /\ confidence < threshold                   -> "low_reliability"
      [] ~ood /\ confidence >= threshold /\ missing       -> "missing_optional_features"
      [] ~ood /\ confidence >= threshold /\ ~missing      -> "prediction_reliable"

(* A bug: an estimate that may be zero, or more than the maximum. *)
UnclampedTokens(score) == score

(* _score_to_estimated_tokens and the mapper's clamp: one to the maximum.   *)
EstimatedTokens(score) ==
    IF score < 1 THEN 1 ELSE IF score > MaxTokens THEN MaxTokens ELSE score

(* _abstain_confidence: the gate answers alone when its confidence is zero; *)
(* a request without a schema has the vocabulary's unknown confidence.     *)
Abstains(config, request) ==
    /\ config.vocabulary
    /\ (IF HasSchema(request) THEN request.gate ELSE config.unknown) = 0

(* What the predictor may answer.  BertPredictor needs a prompt and a       *)
(* schema, takes its confidence from the same vocabulary or the override    *)
(* and never says ood; the other predictors answer anything.               *)
Legible(request) == request.prompt /\ HasSchema(request)

Predictions(config, request) ==
    CASE config.vocabulary /\ ~Legible(request) -> {}
      [] config.vocabulary /\ Legible(request) ->
            [score : Scores, ood : {FALSE},
             confidence : {IF config.override = NoOverride
                           THEN request.gate ELSE config.override}]
      [] ~config.vocabulary -> [score : Scores, ood : BOOLEAN, confidence : Levels]

(* A bug: the gate reports an abstention as out of distribution. *)
OodAbstention == [score |-> NoScore, ood |-> TRUE, confidence |-> 0]

(* The prediction the gate builds its own answer from *)
Abstention == [score |-> NoScore, ood |-> FALSE, confidence |-> 0]

(* A reply: an HTTP error with its code, or HTTP 200 with a bundle.         *)
Failure(code) == [error |-> code]

(* _build_response, and do_POST turning its ValueError into internal_error  *)
BuildResponse(config, request, p) ==
    LET missing == MissingOptional(config, request)
        reason == ReasonCode(p.ood, p.confidence, missing, config.threshold)
        reliable == reason = "prediction_reliable"
    IN  IF reliable /\ p.score = NoScore
        THEN Failure("internal_error")
        ELSE [error       |-> NoError,
              probability |-> p.confidence,
              reliable    |-> reliable,
              reason      |-> reason,
              provenance  |-> config.mapper,
              tokens      |-> IF reliable THEN EstimatedTokens(p.score) ELSE NoTokens]

(* _validate_bundle: mapper provenance is required, an estimate comes with  *)
(* a reliable answer and with no other.  The other fields it looks at hold   *)
(* constants both sides take from contracts.py, the id of the call whose     *)
(* connection the answer came on, or the predictor's own numbers.           *)
ValidBundle(b) ==
    /\ b.provenance
    /\ b.reliable <=> b.reason = "prediction_reliable"
    /\ IF b.reliable THEN b.tokens \in 1..MaxTokens ELSE b.tokens = NoTokens

(* apply_decision_to_payload: the optimizer arguments the payload came with *)
(* are dropped, then a valid decision sets them anew, the estimate only if  *)
(* it is reliable.                                                         *)
Absent == [reliable |-> FALSE, tokens |-> NoTokens]

(* A bug: they stay. *)
Kept(xargs) == xargs

Stripped(xargs) == Absent

Forwarded(xargs, reply) ==
    IF reply.error # NoError \/ ~ValidBundle(reply)
    THEN Stripped(xargs)
    ELSE [reliable |-> reply.reliable,
          tokens   |-> IF reply.reliable THEN reply.tokens ELSE Stripped(xargs).tokens]

(* GatewayDecisionAudit: the error that led to fallback_native, or NoError  *)
AuditError(reply) ==
    CASE reply.error # NoError                         -> reply.error
      [] reply.error = NoError /\ ~ValidBundle(reply)  -> "malformed_response"
      [] reply.error = NoError /\ ValidBundle(reply)   -> NoError

(* GatewayMetadataPredictor: the engine believes an estimate the gateway    *)
(* marked reliable, anything else is ood with the worst score.             *)
EnginePrediction(xargs) ==
    IF xargs.reliable /\ xargs.tokens >= 1
    THEN [score |-> IF xargs.tokens < MaxTokens THEN xargs.tokens ELSE MaxTokens,
          trusted |-> TRUE]
    ELSE [score |-> MaxTokens, trusted |-> FALSE]
=============================================================================
