------------------------ MODULE DecisionPath_proofs ------------------------
(***************************************************************************)
(* The decision service never leaks a slot, and no estimate reaches the    *)
(* engine that the service did not vouch for, for every number of calls,   *)
(* every service configuration and every request, whatever times out,      *)
(* fails or is restarted.                                                  *)
(***************************************************************************)
EXTENDS DecisionPath, FiniteSetTheorems, TLAPS

-----------------------------------------------------------------------------
(* The rules                                                               *)

(* The service vouches for an answer exactly when nothing speaks against.   *)
LEMMA ReasonOfReliable ==
  ASSUME NEW ood \in BOOLEAN, NEW confidence \in Nat, NEW missing \in BOOLEAN,
         NEW threshold \in Nat
  PROVE  /\ ReasonCode(ood, confidence, missing, threshold) \in
              {"ood_rejected", "low_reliability",
               "missing_optional_features", "prediction_reliable"}
         /\ ReasonCode(ood, confidence, missing, threshold) = "prediction_reliable"
              <=> ~ood /\ confidence >= threshold /\ ~missing
<1> DEFINE low == confidence < threshold
           high == confidence >= threshold
           reason == ReasonCode(ood, confidence, missing, threshold)
<1>1. low <=> ~high
  OBVIOUS
<1>2. /\ "ood_rejected" # "prediction_reliable"
      /\ "low_reliability" # "prediction_reliable"
      /\ "missing_optional_features" # "prediction_reliable"
  OBVIOUS
<1>3. reason = CASE ood                        -> "ood_rejected"
                 [] ~ood /\ low                -> "low_reliability"
                 [] ~ood /\ high /\ missing    -> "missing_optional_features"
                 [] ~ood /\ high /\ ~missing   -> "prediction_reliable"
  BY DEF ReasonCode
<1> HIDE DEF low, high, reason
<1>4. CASE ood
  <2>1. reason = "ood_rejected"
    BY <1>1, <1>3, <1>4, Zenon
  <2> QED BY <1>2, <1>4, <2>1 DEF reason, high
<1>5. CASE ~ood /\ low
  <2>1. reason = "low_reliability"
    BY <1>1, <1>3, <1>5, Zenon
  <2> QED BY <1>1, <1>2, <1>5, <2>1 DEF reason, high
<1>6. CASE ~ood /\ high /\ missing
  <2>1. reason = "missing_optional_features"
    BY <1>1, <1>3, <1>6, Zenon
  <2> QED BY <1>2, <1>6, <2>1 DEF reason
<1>7. CASE ~ood /\ high /\ ~missing
  <2>1. reason = "prediction_reliable"
    BY <1>1, <1>3, <1>7, Zenon
  <2> QED BY <1>7, <2>1 DEF reason, high
<1> QED BY <1>1, <1>4, <1>5, <1>6, <1>7

(* A predictor's answer is a score with a confidence. *)
PredictionType == [score : Scores, ood : BOOLEAN, confidence : Levels]

(* Every predictor answers with one of these. *)
LEMMA PredictionsAreTyped ==
  ASSUME NEW g \in ConfigType, NEW r \in RequestType
  PROVE  Predictions(g, r) \subseteq PredictionType
<1> DEFINE confident == IF g.override = NoOverride THEN r.gate ELSE g.override
           ofBert == [score : Scores, ood : {FALSE}, confidence : {confident}]
<1>1. confident \in Levels
  BY DEF ConfigType, RequestType
<1>2. ofBert \subseteq PredictionType
  BY <1>1 DEF PredictionType
<1>3. CASE g.vocabulary /\ ~Legible(r)
  <2>1. Predictions(g, r) = {}
    BY <1>3, Zenon DEF Predictions
  <2> QED BY <2>1
<1>4. CASE g.vocabulary /\ Legible(r)
  <2>1. Predictions(g, r) = ofBert
    BY <1>4, Zenon DEF Predictions
  <2> QED BY <1>2, <2>1
<1>5. CASE ~g.vocabulary
  <2>1. Predictions(g, r) = PredictionType
    BY <1>5, Zenon DEF Predictions, PredictionType
  <2> QED BY <2>1
<1> QED BY <1>3, <1>4, <1>5

(* A bundle says what it was built from, and an estimate comes only with    *)
(* an answer the service vouches for.                                      *)
LEMMA BuiltResponse ==
  ASSUME NEW g \in ConfigType, NEW r \in RequestType,
         NEW p \in PredictionType \cup {Abstention}
  PROVE  LET b == BuildResponse(g, r, p)
         IN  \/ b = Failure("internal_error")
             \/ /\ b \in BundleType
                /\ b.provenance = g.mapper
                /\ b.reliable <=> b.reason = "prediction_reliable"
                /\ ~b.reliable => b.tokens = NoTokens
                /\ b.reliable => /\ p \in PredictionType
                                 /\ ~p.ood /\ p.confidence >= g.threshold /\ ~MissingOptional(g, r)
                                 /\ b.tokens = EstimatedTokens(p.score)
                                 /\ b.tokens \in 1..MaxTokens
<1> DEFINE reason == ReasonCode(p.ood, p.confidence, MissingOptional(g, r), g.threshold)
           b == BuildResponse(g, r, p)
<1>1. p.ood \in BOOLEAN /\ p.confidence \in Levels /\ p.confidence \in Nat
  <2>1. Levels \subseteq Nat /\ 0 \in Levels
    BY RulesAssumption
  <2>2. CASE p \in PredictionType
    BY <2>1, <2>2 DEF PredictionType
  <2>3. CASE p = Abstention
    <3>1. p.ood = FALSE /\ p.confidence = 0
      BY <2>3 DEF Abstention
    <3> QED BY <2>1, <3>1
  <2> QED BY <2>2, <2>3
<1>2. MissingOptional(g, r) \in BOOLEAN /\ g.threshold \in Nat /\ g.mapper \in BOOLEAN
  BY DEF MissingOptional, ConfigType
<1>3. /\ reason \in {"ood_rejected", "low_reliability",
                     "missing_optional_features", "prediction_reliable"}
      /\ reason = "prediction_reliable"
           <=> ~p.ood /\ p.confidence >= g.threshold /\ ~MissingOptional(g, r)
  BY <1>1, <1>2, ReasonOfReliable
<1>4. b = IF reason = "prediction_reliable" /\ p.score = NoScore
          THEN Failure("internal_error")
          ELSE [error       |-> NoError,
                probability |-> p.confidence,
                reliable    |-> reason = "prediction_reliable",
                reason      |-> reason,
                provenance  |-> g.mapper,
                tokens      |-> IF reason = "prediction_reliable"
                                THEN EstimatedTokens(p.score) ELSE NoTokens]
  BY DEF BuildResponse
<1> HIDE DEF reason, b
<1>5. CASE reason = "prediction_reliable" /\ p.score = NoScore
  BY <1>4, <1>5 DEF b
<1>6. CASE reason = "prediction_reliable" /\ p.score # NoScore
  <2>1. b = [error |-> NoError, probability |-> p.confidence, reliable |-> TRUE,
             reason |-> reason, provenance |-> g.mapper,
             tokens |-> EstimatedTokens(p.score)]
    BY <1>4, <1>6
  <2>2. p \in PredictionType
    BY <1>6 DEF Abstention
  <2>3. EstimatedTokens(p.score) \in 1..MaxTokens
    BY <2>2, RulesAssumption DEF PredictionType, EstimatedTokens, Scores
  <2>4. b \in BundleType
    BY <1>1, <1>2, <1>3, <2>1, <2>3 DEF BundleType
  <2>5. b.reliable /\ b.reason = "prediction_reliable" /\ b.provenance = g.mapper
        /\ b.tokens = EstimatedTokens(p.score)
    BY <1>6, <2>1
  <2> QED BY <1>3, <1>6, <2>2, <2>3, <2>4, <2>5 DEF b
<1>7. CASE reason # "prediction_reliable"
  <2>1. b = [error |-> NoError, probability |-> p.confidence, reliable |-> FALSE,
             reason |-> reason, provenance |-> g.mapper, tokens |-> NoTokens]
    BY <1>4, <1>7
  <2>2. b \in BundleType
    BY <1>1, <1>2, <1>3, <2>1, RulesAssumption DEF BundleType, NoTokens
  <2> QED BY <1>7, <2>1, <2>2 DEF b
<1> QED BY <1>5, <1>6, <1>7

(* The service vouches for the estimate t of request r. *)
VouchedFor(g, r, t) ==
    /\ r.error = NoError /\ ~MissingOptional(g, r) /\ ~Abstains(g, r)
    /\ \E p \in Predictions(g, r) :
          ~p.ood /\ p.confidence >= g.threshold /\ t = EstimatedTokens(p.score)

(* A bundle that answers r, estimates only what the service vouches for.    *)
Sound(g, r, b) ==
    /\ b \in BundleType
    /\ b.provenance = g.mapper
    /\ b.reliable <=> b.reason = "prediction_reliable"
    /\ ~b.reliable => b.tokens = NoTokens
    /\ b.reliable => b.tokens \in 1..MaxTokens /\ VouchedFor(g, r, b.tokens)

(* What the gateway takes for the outcome of a call to the service.         *)
Outcome ==
    {Failure(e) : e \in {"timeout", "unavailable"} \cup ServiceErrors} \cup BundleType

AuditType == {NoError, "timeout", "unavailable", "malformed_response"} \cup ServiceErrors

(* A failure is no bundle. *)
LEMMA FailureHasError ==
  /\ \A e \in {"timeout", "unavailable", "pending"} \cup ServiceErrors :
        Failure(e).error = e /\ e # NoError /\ e # "malformed_response"
  /\ \A b \in BundleType : b.error = NoError
BY DEF Failure, NoError, BundleType, ServiceErrors, ValidationErrors, TooLarge

(* What the gate leads to is a sound answer, or an error. *)
LEMMA AbstainedAnswerIsSound ==
  ASSUME NEW g \in ConfigType, NEW r \in RequestType
  PROVE  LET b == BuildResponse(g, r, Abstention)
         IN  b = Failure("internal_error") \/ Sound(g, r, b)
<1>1. Abstention \notin PredictionType
  <2>1. Abstention.score = NoScore /\ NoScore \notin Scores
    BY RulesAssumption DEF Abstention, NoScore, Scores
  <2> QED BY <2>1 DEF PredictionType
<1> QED BY <1>1, BuiltResponse DEF Sound

(* The predictor's answer, past the gate, leads to a sound one.            *)
LEMMA PredictedAnswerIsSound ==
  ASSUME NEW g \in ConfigType, NEW r \in RequestType,
         r.error = NoError, ~Abstains(g, r),
         NEW p \in Predictions(g, r)
  PROVE  LET b == BuildResponse(g, r, p)
         IN  b = Failure("internal_error") \/ Sound(g, r, b)
<1> DEFINE b == BuildResponse(g, r, p)
<1>1. p \in PredictionType
  BY PredictionsAreTyped
<1>2. \/ b = Failure("internal_error")
      \/ /\ b \in BundleType
         /\ b.provenance = g.mapper
         /\ b.reliable <=> b.reason = "prediction_reliable"
         /\ ~b.reliable => b.tokens = NoTokens
         /\ b.reliable => /\ ~p.ood /\ p.confidence >= g.threshold /\ ~MissingOptional(g, r)
                          /\ b.tokens = EstimatedTokens(p.score)
                          /\ b.tokens \in 1..MaxTokens
  BY <1>1, BuiltResponse
<1> HIDE DEF b
<1>3. CASE b = Failure("internal_error")
  BY <1>3 DEF b
<1>4. CASE b # Failure("internal_error")
  <2>1. b.reliable => VouchedFor(g, r, b.tokens)
    BY <1>2, <1>4 DEF VouchedFor
  <2>2. Sound(g, r, b)
    BY <1>2, <1>4, <2>1 DEF Sound
  <2> QED BY <2>2 DEF b
<1> QED BY <1>3, <1>4

(* The gateway forwards what the service vouches for or nothing at all.     *)
LEMMA ForwardedIsVouched ==
  ASSUME NEW g \in ConfigType, NEW r \in RequestType, NEW o \in Outcome,
         o.error = NoError => Sound(g, r, o)
  PROVE  LET x == Forwarded(r.xargs, o)
             a == AuditError(o)
         IN  /\ x \in [reliable : BOOLEAN, tokens : 0..MaxTokens]
             /\ a \in AuditType
             /\ g.mapper => a # "malformed_response"
             /\ \/ x = Absent
                \/ x.reliable /\ x.tokens >= 1 /\ VouchedFor(g, r, x.tokens) /\ a = NoError
<1> DEFINE x == Forwarded(r.xargs, o)
           a == AuditError(o)
<1>1. Absent \in [reliable : BOOLEAN, tokens : 0..MaxTokens]
  BY RulesAssumption DEF Absent, NoTokens
<1>2. x = IF o.error # NoError \/ ~ValidBundle(o) THEN Absent
          ELSE [reliable |-> o.reliable,
                tokens |-> IF o.reliable THEN o.tokens ELSE NoTokens]
  BY DEF Forwarded, Stripped, Absent
<1>3. CASE o.error # NoError
  <2>1. a = o.error
    BY <1>3, Zenon DEF AuditError
  <2>2. PICK e \in {"timeout", "unavailable"} \cup ServiceErrors : o = Failure(e)
    BY <1>3, FailureHasError DEF Outcome
  <2>3. a \in AuditType /\ a # "malformed_response"
    BY <2>1, <2>2, FailureHasError DEF AuditType
  <2>4. x = Absent
    BY <1>2, <1>3
  <2> QED BY <1>1, <2>3, <2>4
<1>4. CASE o.error = NoError /\ ~ValidBundle(o)
  <2>1. a = "malformed_response"
    BY <1>4, Zenon DEF AuditError
  <2>2. x = Absent
    BY <1>2, <1>4
  <2>3. Sound(g, r, o)
    BY <1>4
  <2>4. g.mapper => ValidBundle(o)
    BY <2>3 DEF Sound, ValidBundle
  <2> QED BY <1>1, <1>4, <2>1, <2>2, <2>4 DEF AuditType
<1>5. CASE o.error = NoError /\ ValidBundle(o)
  <2>1. a = NoError
    BY <1>5, Zenon DEF AuditError
  <2>2. Sound(g, r, o)
    BY <1>5
  <2>3. a \in AuditType /\ a # "malformed_response"
    BY <2>1 DEF AuditType, NoError
  <2>4. o.reliable \in BOOLEAN
    BY <2>2 DEF Sound, BundleType
  <2>5. CASE o.reliable
    <3>1. x = [reliable |-> TRUE, tokens |-> o.tokens]
      BY <1>2, <1>5, <2>5, <2>4
    <3>2. o.tokens \in 1..MaxTokens /\ VouchedFor(g, r, o.tokens)
      BY <2>2, <2>5 DEF Sound
    <3> QED BY <2>1, <2>3, <3>1, <3>2
  <2>6. CASE ~o.reliable
    <3>1. x = Absent
      BY <1>2, <1>5, <2>6, <2>4 DEF Absent, NoTokens
    <3> QED BY <1>1, <2>3, <3>1
  <2> QED BY <2>4, <2>5, <2>6
<1> QED BY <1>3, <1>4, <1>5

-----------------------------------------------------------------------------
(* The invariant                                                           *)

(* A connection that carries no call leaves nothing behind for the next,    *)
(* only a request past the gate has a predictor, an answer is sound for the *)
(* request it answers, and nothing is forwarded that was not vouched for.   *)
CallInv(c) ==
    /\ gateway[c] = "idle" => handler[c] = "none" /\ reply[c] = NoReply
    /\ gateway[c] \in {"idle", "calling", "lost"} =>
          xargs[c] = Absent /\ audit[c] = NoError
    /\ handler[c] = "predicting" =>
          request[c].error = NoError /\ ~Abstains(config, request[c])
    /\ reply[c].error = NoError => Sound(config, request[c], reply[c])
    /\ \/ xargs[c] = Absent
       \/ /\ xargs[c].reliable /\ xargs[c].tokens >= 1
          /\ VouchedFor(config, request[c], xargs[c].tokens)
          /\ audit[c] = NoError
    /\ config.mapper => audit[c] # "malformed_response"

IInv ==
    /\ TypeOK
    /\ EverySlotIsAccountedFor
    /\ \A c \in Calls : CallInv(c)

(* The types of what a call is about. *)
LEMMA CallTypes ==
  ASSUME TypeOK
  PROVE  /\ config \in ConfigType
         /\ \A c \in Calls : request[c] \in RequestType
<1>1. NoRequest \in RequestType
  BY RulesAssumption DEF NoRequest, RequestType, Absent, NoTokens
<1> QED BY <1>1, PathAssumption DEF TypeOK

(* The connections a step does not touch. *)
LEMMA OtherCallsKeep ==
  ASSUME NEW c \in Calls, CallInv(c),
         UNCHANGED <<config, gateway[c], request[c], handler[c], reply[c], xargs[c], audit[c]>>
  PROVE  CallInv(c)'
BY DEF CallInv

Predicting == {c \in Calls : handler[c] = "predicting"}

(* Finitely many calls predict at a time.                                  *)
LEMMA PredictingIsFinite ==
  IsFiniteSet(Predicting) /\ Cardinality(Predicting) \in Nat
<1>1. Predicting \subseteq Calls
  BY DEF Predicting
<1> QED BY <1>1, PathAssumption, FS_Subset, FS_CardinalityType

(* A predictor that starts takes a slot. *)
LEMMA SlotTaken ==
  ASSUME TypeOK, EverySlotIsAccountedFor, NEW c \in Calls, handler[c] # "predicting",
         slots > 0, slots' = slots - 1, handler' = [handler EXCEPT ![c] = "predicting"]
  PROVE  EverySlotIsAccountedFor' /\ slots' \in 0..MaxConcurrency
<1>1. Predicting' = Predicting \cup {c} /\ c \notin Predicting
  BY DEF TypeOK, Predicting
<1>2. Cardinality(Predicting') = Cardinality(Predicting) + 1
  BY <1>1, PredictingIsFinite, FS_AddElement
<1>3. slots + Cardinality(Predicting) = MaxConcurrency
  BY DEF EverySlotIsAccountedFor, Predicting
<1>4. slots \in Nat /\ slots' \in 0..MaxConcurrency
  BY PathAssumption DEF TypeOK
<1>5. slots' + Cardinality(Predicting') = MaxConcurrency
  BY <1>2, <1>3, <1>4, PredictingIsFinite, PathAssumption
<1> QED BY <1>4, <1>5 DEF EverySlotIsAccountedFor, Predicting

(* A predictor that ends, with an answer or an exception, gives it back.    *)
LEMMA SlotReleased ==
  ASSUME TypeOK, EverySlotIsAccountedFor, NEW c \in Calls, handler[c] = "predicting",
         slots' = slots + 1, handler' = [handler EXCEPT ![c] = "none"]
  PROVE  EverySlotIsAccountedFor' /\ slots' \in 0..MaxConcurrency
<1>1. Predicting' = Predicting \ {c} /\ c \in Predicting
  BY DEF TypeOK, Predicting
<1>2. /\ Cardinality(Predicting') = Cardinality(Predicting) - 1
      /\ IsFiniteSet(Predicting')
  BY <1>1, PredictingIsFinite, FS_RemoveElement
<1>3. Cardinality(Predicting') \in Nat
  BY <1>2, FS_CardinalityType
<1>4. slots + Cardinality(Predicting) = MaxConcurrency
  BY DEF EverySlotIsAccountedFor, Predicting
<1>5. slots \in Nat
  BY PathAssumption DEF TypeOK
<1>6. slots' + Cardinality(Predicting') = MaxConcurrency
  BY <1>2, <1>4, <1>5, PredictingIsFinite, PathAssumption
<1>7. slots' \in 0..MaxConcurrency
  BY <1>3, <1>5, <1>6, PathAssumption
<1> QED BY <1>6, <1>7 DEF EverySlotIsAccountedFor, Predicting

(* A handler that comes or goes without predicting changes no slot.         *)
LEMMA SlotsUntouched ==
  ASSUME TypeOK, EverySlotIsAccountedFor, UNCHANGED slots,
         \A c \in Calls : handler'[c] = "predicting" <=> handler[c] = "predicting"
  PROVE  EverySlotIsAccountedFor' /\ slots' \in 0..MaxConcurrency
<1>1. {c \in Calls : handler'[c] = "predicting"} = {c \in Calls : handler[c] = "predicting"}
  OBVIOUS
<1> QED BY <1>1 DEF EverySlotIsAccountedFor, TypeOK

(* The service has all its slots before the first call and after a restart. *)
LEMMA AllSlotsFree ==
  ASSUME slots = MaxConcurrency, \A c \in Calls : handler[c] # "predicting"
  PROVE  EverySlotIsAccountedFor /\ slots \in 0..MaxConcurrency
<1>1. {c \in Calls : handler[c] = "predicting"} = {}
  OBVIOUS
<1>2. Cardinality({c \in Calls : handler[c] = "predicting"}) = 0
  BY <1>1, FS_EmptySet
<1> QED BY <1>2, PathAssumption DEF EverySlotIsAccountedFor

(* At the start every connection is idle and every slot free. *)
LEMMA InitIInv == Init => IInv
<1> SUFFICES ASSUME Init PROVE IInv
  OBVIOUS
<1>1. Absent \in [reliable : BOOLEAN, tokens : 0..MaxTokens]
  BY RulesAssumption DEF Absent, NoTokens
<1>2. EverySlotIsAccountedFor /\ slots \in 0..MaxConcurrency
  <2>1. slots = MaxConcurrency /\ \A c \in Calls : handler[c] # "predicting"
    BY DEF Init
  <2> QED BY <2>1, AllSlotsFree
<1>3. TypeOK
  BY <1>1, <1>2 DEF Init, TypeOK, ReplyType
<1>4. NoReply.error # NoError /\ NoError # "malformed_response"
  BY FailureHasError DEF NoReply, NoError
<1>5. \A c \in Calls : CallInv(c)
  BY <1>4 DEF Init, CallInv
<1> QED BY <1>2, <1>3, <1>5 DEF IInv

-----------------------------------------------------------------------------
(* The gateway's steps                                                     *)

(* Applying an outcome forwards what it vouches for or nothing.             *)
LEMMA AppliedIsVouched ==
  ASSUME TypeOK, NEW c \in Calls, NEW r \in RequestType, NEW o \in Outcome,
         o.error = NoError => Sound(config, r, o),
         Apply(c, r, o)
  PROVE  /\ xargs' \in [Calls -> [reliable : BOOLEAN, tokens : 0..MaxTokens]]
         /\ audit' \in [Calls -> AuditType]
         /\ gateway' = [gateway EXCEPT ![c] = "applied"]
         /\ \A d \in Calls \ {c} : xargs'[d] = xargs[d] /\ audit'[d] = audit[d]
         /\ config.mapper => audit'[c] # "malformed_response"
         /\ \/ xargs'[c] = Absent
            \/ /\ xargs'[c].reliable /\ xargs'[c].tokens >= 1
               /\ VouchedFor(config, r, xargs'[c].tokens)
               /\ audit'[c] = NoError
<1> DEFINE x == Forwarded(r.xargs, o)
           a == AuditError(o)
<1>1. config \in ConfigType
  BY CallTypes
<1>2. /\ x \in [reliable : BOOLEAN, tokens : 0..MaxTokens]
      /\ a \in AuditType
      /\ config.mapper => a # "malformed_response"
      /\ \/ x = Absent
         \/ x.reliable /\ x.tokens >= 1 /\ VouchedFor(config, r, x.tokens) /\ a = NoError
  BY <1>1, ForwardedIsVouched
<1>3. /\ xargs' = [xargs EXCEPT ![c] = x]
      /\ audit' = [audit EXCEPT ![c] = a]
      /\ gateway' = [gateway EXCEPT ![c] = "applied"]
  BY DEF Apply
<1>4. /\ xargs \in [Calls -> [reliable : BOOLEAN, tokens : 0..MaxTokens]]
      /\ audit \in [Calls -> AuditType]
  BY DEF TypeOK, AuditType
<1> HIDE DEF x, a
<1>5. xargs'[c] = x /\ audit'[c] = a
  BY <1>3, <1>4
<1> QED BY <1>2, <1>3, <1>4, <1>5

(* A payload the gateway refuses leaves only its 422. *)
LEMMA RefuseIInv ==
  ASSUME IInv, NEW c \in Calls, NEW r \in Requests, Refuse(c, r)  PROVE IInv'
<1>1. /\ gateway[c] = "idle"
      /\ request' = [request EXCEPT ![c] = r]
      /\ gateway' = [gateway EXCEPT ![c] = "refused"]
      /\ UNCHANGED <<config, service, slots, handler, reply, xargs, audit>>
  BY DEF Refuse
<1>2. /\ handler[c] = "none" /\ reply[c] = NoReply
      /\ xargs[c] = Absent /\ audit[c] = NoError
  BY <1>1 DEF IInv, CallInv
<1>3. NoReply.error # NoError /\ NoError # "malformed_response"
  BY FailureHasError DEF NoReply, NoError
<1>4. EverySlotIsAccountedFor'
  BY <1>1, SlotsUntouched DEF IInv
<1>5. TypeOK'
  BY <1>1 DEF IInv, TypeOK
<1>6. ASSUME NEW d \in Calls  PROVE CallInv(d)'
  <2>1. CASE d = c
    <3>1. gateway'[c] = "refused"
      BY <1>1 DEF IInv, TypeOK
    <3> QED BY <1>1, <1>2, <1>3, <2>1, <3>1 DEF CallInv
  <2>2. CASE d # c
    <3>1. UNCHANGED <<config, gateway[d], request[d], handler[d], reply[d], xargs[d], audit[d]>>
      BY <1>1, <2>2 DEF IInv, TypeOK
    <3> QED BY <3>1, OtherCallsKeep DEF IInv
  <2> QED BY <2>1, <2>2
<1> QED BY <1>4, <1>5, <1>6 DEF IInv

(* A connection only carries a call to a service that is up. *)
LEMMA CallIInv ==
  ASSUME IInv, NEW c \in Calls, NEW r \in Requests, Call(c, r)  PROVE IInv'
<1>1. /\ gateway[c] = "idle"
      /\ request' = [request EXCEPT ![c] = r]
      /\ UNCHANGED <<config, service, slots, reply>>
  BY DEF Call
<1>2. r \in RequestType /\ request'[c] = r /\ request' \in [Calls -> Requests \cup {NoRequest}]
  BY <1>1, PathAssumption DEF IInv, TypeOK
<1>3. /\ handler[c] = "none" /\ reply[c] = NoReply
      /\ xargs[c] = Absent /\ audit[c] = NoError
  BY <1>1 DEF IInv, CallInv
<1>4. NoReply.error # NoError
  BY FailureHasError DEF NoReply
<1>5. \A d \in Calls \ {c} : request'[d] = request[d]
  BY <1>1 DEF IInv, TypeOK
<1>6. CASE service = "up"
  <2>1. /\ gateway' = [gateway EXCEPT ![c] = "calling"]
        /\ handler' = [handler EXCEPT ![c] = "received"]
        /\ UNCHANGED <<xargs, audit>>
    BY <1>6 DEF Call
  <2>2. EverySlotIsAccountedFor'
    <3>1. \A d \in Calls : handler'[d] = "predicting" <=> handler[d] = "predicting"
      BY <1>3, <2>1 DEF IInv, TypeOK
    <3> QED BY <1>1, <3>1, SlotsUntouched DEF IInv
  <2>3. TypeOK'
    BY <1>1, <1>2, <2>1 DEF IInv, TypeOK
  <2>4. ASSUME NEW d \in Calls  PROVE CallInv(d)'
    <3>1. CASE d = c
      <4>1. gateway'[c] = "calling" /\ handler'[c] = "received"
        BY <2>1 DEF IInv, TypeOK
      <4>2. audit[c] # "malformed_response"
        BY <1>3 DEF NoError
      <4> QED BY <1>1, <1>3, <1>4, <2>1, <3>1, <4>1, <4>2 DEF CallInv
    <3>2. CASE d # c
      <4>1. UNCHANGED <<config, gateway[d], request[d], handler[d], reply[d], xargs[d], audit[d]>>
        BY <1>1, <1>5, <2>1, <3>2 DEF IInv, TypeOK
      <4> QED BY <4>1, OtherCallsKeep DEF IInv
    <3> QED BY <3>1, <3>2
  <2> QED BY <2>2, <2>3, <2>4 DEF IInv
<1>7. CASE service # "up"
  <2>1. Apply(c, r, Failure("unavailable")) /\ UNCHANGED handler
    BY <1>7 DEF Call
  <2>2. Failure("unavailable") \in Outcome /\ Failure("unavailable").error # NoError
    BY FailureHasError DEF Outcome
  <2>3. /\ xargs' \in [Calls -> [reliable : BOOLEAN, tokens : 0..MaxTokens]]
        /\ audit' \in [Calls -> AuditType]
        /\ gateway' = [gateway EXCEPT ![c] = "applied"]
        /\ \A d \in Calls \ {c} : xargs'[d] = xargs[d] /\ audit'[d] = audit[d]
        /\ config.mapper => audit'[c] # "malformed_response"
        /\ \/ xargs'[c] = Absent
           \/ /\ xargs'[c].reliable /\ xargs'[c].tokens >= 1
              /\ VouchedFor(config, r, xargs'[c].tokens)
              /\ audit'[c] = NoError
    BY <1>2, <2>1, <2>2, AppliedIsVouched DEF IInv
  <2>4. EverySlotIsAccountedFor'
    BY <1>1, <2>1, SlotsUntouched DEF IInv
  <2>5. TypeOK'
    BY <1>1, <1>2, <2>1, <2>3 DEF IInv, TypeOK, AuditType
  <2>6. ASSUME NEW d \in Calls  PROVE CallInv(d)'
    <3>1. CASE d = c
      <4>1. gateway'[c] = "applied"
        BY <2>3 DEF IInv, TypeOK
      <4> QED BY <1>1, <1>2, <1>3, <1>4, <2>1, <2>3, <3>1, <4>1 DEF CallInv
    <3>2. CASE d # c
      <4>1. UNCHANGED <<config, gateway[d], request[d], handler[d], reply[d], xargs[d], audit[d]>>
        BY <1>1, <1>5, <2>1, <2>3, <3>2 DEF IInv, TypeOK
      <4> QED BY <4>1, OtherCallsKeep DEF IInv
    <3> QED BY <3>1, <3>2
  <2> QED BY <2>4, <2>5, <2>6 DEF IInv
<1> QED BY <1>6, <1>7

(* A call whose outcome, an answer or the lack of one, is applied.          *)
LEMMA AppliedIInv ==
  ASSUME IInv, NEW c \in Calls, gateway[c] = "calling",
         NEW o \in Outcome, o.error = NoError => Sound(config, request[c], o),
         Apply(c, request[c], o),
         UNCHANGED <<config, service, slots, request, handler, reply>>
  PROVE  IInv'
<1>1. request[c] \in RequestType
  BY CallTypes DEF IInv
<1>2. /\ xargs' \in [Calls -> [reliable : BOOLEAN, tokens : 0..MaxTokens]]
      /\ audit' \in [Calls -> AuditType]
      /\ gateway' = [gateway EXCEPT ![c] = "applied"]
      /\ \A d \in Calls \ {c} : xargs'[d] = xargs[d] /\ audit'[d] = audit[d]
      /\ config.mapper => audit'[c] # "malformed_response"
      /\ \/ xargs'[c] = Absent
         \/ /\ xargs'[c].reliable /\ xargs'[c].tokens >= 1
            /\ VouchedFor(config, request[c], xargs'[c].tokens)
            /\ audit'[c] = NoError
  BY <1>1, AppliedIsVouched DEF IInv
<1>3. EverySlotIsAccountedFor'
  BY SlotsUntouched DEF IInv
<1>4. TypeOK'
  BY <1>2 DEF IInv, TypeOK, AuditType
<1>5. ASSUME NEW d \in Calls  PROVE CallInv(d)'
  <2>1. CASE d = c
    <3>1. gateway'[c] = "applied"
      BY <1>2 DEF IInv, TypeOK
    <3> QED BY <1>2, <2>1, <3>1 DEF IInv, CallInv
  <2>2. CASE d # c
    <3>1. UNCHANGED <<config, gateway[d], request[d], handler[d], reply[d], xargs[d], audit[d]>>
      BY <1>2, <2>2 DEF IInv, TypeOK
    <3> QED BY <3>1, OtherCallsKeep DEF IInv
  <2> QED BY <2>1, <2>2
<1> QED BY <1>3, <1>4, <1>5 DEF IInv

(* The answer came in time.                                                   *)
LEMMA ReceiveIInv ==
  ASSUME IInv, NEW c \in Calls, Receive(c)  PROVE IInv'
<1>1. reply[c] \in Outcome
  BY DEF Receive, IInv, TypeOK, ReplyType, Outcome
<1>2. reply[c].error = NoError => Sound(config, request[c], reply[c])
  BY DEF IInv, CallInv
<1> QED BY <1>1, <1>2, AppliedIInv DEF Receive

(* The timeout.                                                            *)
LEMMA TimeoutIInv ==
  ASSUME IInv, NEW c \in Calls, Timeout(c)  PROVE IInv'
<1>1. Failure("timeout") \in Outcome /\ Failure("timeout").error # NoError
  BY FailureHasError DEF Outcome
<1> QED BY <1>1, AppliedIInv DEF Timeout

(* A call moves on without a change to what is forwarded. *)
LEMMA MovesOnIInv ==
  ASSUME IInv, NEW c \in Calls,
         \/ gateway[c] = "calling" /\ gateway' = [gateway EXCEPT ![c] = "lost"]
         \/ gateway[c] = "applied" /\ gateway' = [gateway EXCEPT ![c] = "forwarded"]
         \/ gateway[c] = "applied" /\ gateway' = [gateway EXCEPT ![c] = "engine_503"],
         UNCHANGED <<config, service, slots, request, handler, reply, xargs, audit>>
  PROVE  IInv'
<1>1. EverySlotIsAccountedFor'
  BY SlotsUntouched DEF IInv
<1>2. TypeOK'
  BY DEF IInv, TypeOK
<1>3. ASSUME NEW d \in Calls  PROVE CallInv(d)'
  <2>1. gateway'[d] # "idle" \/ gateway'[d] = gateway[d]
    BY DEF IInv, TypeOK
  <2>2. gateway'[d] = "lost" => gateway[d] \in {"calling", "lost"}
    BY DEF IInv, TypeOK
  <2>3. gateway'[d] = "calling" => gateway[d] = "calling"
    BY DEF IInv, TypeOK
  <2> QED BY <2>1, <2>2, <2>3 DEF IInv, CallInv
<1> QED BY <1>1, <1>2, <1>3 DEF IInv

(* The connection is cleared for another call. *)
LEMMA HangupIInv ==
  ASSUME IInv, NEW c \in Calls, Hangup(c)  PROVE IInv'
<1>1. /\ handler[c] = "none"
      /\ gateway' = [gateway EXCEPT ![c] = "idle"]
      /\ request' = [request EXCEPT ![c] = NoRequest]
      /\ reply' = [reply EXCEPT ![c] = NoReply]
      /\ xargs' = [xargs EXCEPT ![c] = Absent]
      /\ audit' = [audit EXCEPT ![c] = NoError]
      /\ UNCHANGED <<config, service, slots, handler>>
  BY DEF Hangup
<1>2. Absent \in [reliable : BOOLEAN, tokens : 0..MaxTokens]
  BY RulesAssumption DEF Absent, NoTokens
<1>3. NoReply.error # NoError /\ NoError # "malformed_response"
  BY FailureHasError DEF NoReply, NoError
<1>4. EverySlotIsAccountedFor'
  BY <1>1, SlotsUntouched DEF IInv
<1>5. TypeOK'
  <2>1. reply' \in [Calls -> ReplyType]
    BY <1>1 DEF IInv, TypeOK, ReplyType
  <2>2. xargs' \in [Calls -> [reliable : BOOLEAN, tokens : 0..MaxTokens]]
    BY <1>1, <1>2 DEF IInv, TypeOK
  <2> QED BY <1>1, <2>1, <2>2 DEF IInv, TypeOK
<1>6. ASSUME NEW d \in Calls  PROVE CallInv(d)'
  <2>1. CASE d = c
    <3>1. /\ gateway'[c] = "idle" /\ reply'[c] = NoReply /\ xargs'[c] = Absent
          /\ audit'[c] = NoError /\ handler'[c] = "none"
      BY <1>1 DEF IInv, TypeOK
    <3> QED BY <1>3, <2>1, <3>1 DEF CallInv
  <2>2. CASE d # c
    <3>1. UNCHANGED <<config, gateway[d], request[d], handler[d], reply[d], xargs[d], audit[d]>>
      BY <1>1, <2>2 DEF IInv, TypeOK
    <3> QED BY <3>1, OtherCallsKeep DEF IInv
  <2> QED BY <2>1, <2>2
<1> QED BY <1>4, <1>5, <1>6 DEF IInv

-----------------------------------------------------------------------------
(* The service's steps                                                     *)

(* A handler that writes a sound answer or a failure and ends. *)
LEMMA AnswerIInv ==
  ASSUME IInv, NEW c \in Calls, handler[c] \in {"received", "predicting"},
         NEW o \in ReplyType, o.error = NoError => Sound(config, request[c], o),
         Answer(c, o),
         EverySlotIsAccountedFor', slots' \in 0..MaxConcurrency,
         UNCHANGED <<config, service, gateway, request, xargs, audit>>
  PROVE  IInv'
<1>1. /\ reply' = [reply EXCEPT ![c] = o]
      /\ handler' = [handler EXCEPT ![c] = "none"]
  BY DEF Answer
<1>2. TypeOK'
  BY <1>1 DEF IInv, TypeOK
<1>3. ASSUME NEW d \in Calls  PROVE CallInv(d)'
  <2>1. CASE d = c
    <3>1. reply'[c] = o /\ handler'[c] = "none" /\ gateway[c] # "idle"
      BY <1>1 DEF IInv, TypeOK, CallInv
    <3> QED BY <2>1, <3>1 DEF IInv, CallInv
  <2>2. CASE d # c
    <3>1. UNCHANGED <<config, gateway[d], request[d], handler[d], reply[d], xargs[d], audit[d]>>
      BY <1>1, <2>2 DEF IInv, TypeOK
    <3> QED BY <3>1, OtherCallsKeep DEF IInv
  <2> QED BY <2>1, <2>2
<1> QED BY <1>2, <1>3 DEF IInv

(* The failures of the service are replies, and no bundles.                 *)
LEMMA FailureIsReply ==
  \A e \in ServiceErrors : Failure(e) \in ReplyType /\ Failure(e).error # NoError
BY FailureHasError DEF ReplyType

(* A handler that ends without having predicted leaves the slots alone.     *)
LEMMA EndWithoutSlot ==
  ASSUME IInv, NEW c \in Calls, handler[c] = "received", UNCHANGED slots,
         handler' = [handler EXCEPT ![c] = "none"]
  PROVE  EverySlotIsAccountedFor' /\ slots' \in 0..MaxConcurrency
<1>1. \A d \in Calls : handler'[d] = "predicting" <=> handler[d] = "predicting"
  BY DEF IInv, TypeOK
<1> QED BY <1>1, SlotsUntouched DEF IInv

(* The validation, the gate and the semaphore. *)
LEMMA DecideIInv ==
  ASSUME IInv, NEW c \in Calls, Decide(c)  PROVE IInv'
<1>1. /\ handler[c] = "received"
      /\ UNCHANGED <<config, service, gateway, request, xargs, audit>>
  BY DEF Decide
<1>2. config \in ConfigType /\ request[c] \in RequestType
  BY CallTypes DEF IInv
<1>3. ASSUME NEW e \in ServiceErrors, Answer(c, Failure(e)), UNCHANGED slots  PROVE IInv'
  <2>1. EverySlotIsAccountedFor' /\ slots' \in 0..MaxConcurrency
    BY <1>1, <1>3, EndWithoutSlot DEF Answer
  <2> QED BY <1>1, <1>3, <2>1, FailureIsReply, AnswerIInv
<1>4. CASE RefuseBody(c) \/ NotReady(c) \/ Invalid(c) \/ RateLimited(c)
  <2>1. request[c].error \in ValidationErrors => request[c].error \in ServiceErrors
    BY DEF ServiceErrors
  <2>2. {TooLarge, "not_ready", "rate_limited"} \subseteq ServiceErrors
    BY DEF ServiceErrors
  <2> QED BY <1>3, <1>4, <2>1, <2>2 DEF RefuseBody, NotReady, Invalid, RateLimited
<1>5. CASE Abstain(c)
  <2> DEFINE b == BuildResponse(config, request[c], Abstention)
  <2>1. Answer(c, b) /\ UNCHANGED slots
    BY <1>5 DEF Abstain
  <2>2. b = Failure("internal_error") \/ Sound(config, request[c], b)
    BY <1>2, AbstainedAnswerIsSound
  <2> HIDE DEF b
  <2>3. "internal_error" \in ServiceErrors
    BY DEF ServiceErrors
  <2>4. b \in ReplyType /\ (b.error = NoError => Sound(config, request[c], b))
    BY <2>2, <2>3, FailureIsReply DEF Sound, ReplyType
  <2>5. EverySlotIsAccountedFor' /\ slots' \in 0..MaxConcurrency
    BY <1>1, <2>1, EndWithoutSlot DEF Answer
  <2> QED BY <1>1, <2>1, <2>4, <2>5, AnswerIInv
<1>6. CASE StartPredicting(c)
  <2>1. /\ request[c].error = NoError /\ ~Abstains(config, request[c])
        /\ slots > 0 /\ slots' = slots - 1
        /\ handler' = [handler EXCEPT ![c] = "predicting"]
        /\ UNCHANGED reply
    BY <1>6 DEF StartPredicting, Accepted
  <2>2. EverySlotIsAccountedFor' /\ slots' \in 0..MaxConcurrency
    BY <1>1, <2>1, SlotTaken DEF IInv
  <2>3. TypeOK'
    BY <1>1, <2>1, <2>2 DEF IInv, TypeOK
  <2>4. ASSUME NEW d \in Calls  PROVE CallInv(d)'
    <3>1. CASE d = c
      <4>1. gateway[c] # "idle"
        BY <1>1 DEF IInv, CallInv
      <4> QED BY <1>1, <2>1, <3>1, <4>1 DEF IInv, CallInv
    <3>2. CASE d # c
      <4>1. UNCHANGED <<config, gateway[d], request[d], handler[d], reply[d], xargs[d], audit[d]>>
        BY <1>1, <2>1, <3>2 DEF IInv, TypeOK
      <4> QED BY <4>1, OtherCallsKeep DEF IInv
    <3> QED BY <3>1, <3>2
  <2> QED BY <2>2, <2>3, <2>4 DEF IInv
<1> QED BY <1>4, <1>5, <1>6 DEF Decide

(* The predictor's answer becomes the service's. *)
LEMMA PredictedIInv ==
  ASSUME IInv, NEW c \in Calls, Predicted(c)  PROVE IInv'
<1>1. /\ handler[c] = "predicting" /\ slots' = slots + 1
      /\ UNCHANGED <<config, service, gateway, request, xargs, audit>>
  BY DEF Predicted
<1>2. PICK p \in Predictions(config, request[c]) :
        Answer(c, BuildResponse(config, request[c], p))
  BY DEF Predicted
<1> DEFINE b == BuildResponse(config, request[c], p)
<1>3. config \in ConfigType /\ request[c] \in RequestType
  BY CallTypes DEF IInv
<1>4. request[c].error = NoError /\ ~Abstains(config, request[c])
  BY <1>1 DEF IInv, CallInv
<1>5. b = Failure("internal_error") \/ Sound(config, request[c], b)
  BY <1>3, <1>4, PredictedAnswerIsSound
<1>6. Answer(c, b)
  BY <1>2
<1> HIDE DEF b
<1>7. "internal_error" \in ServiceErrors
  BY DEF ServiceErrors
<1>8. b \in ReplyType /\ (b.error = NoError => Sound(config, request[c], b))
  BY <1>5, <1>7, FailureIsReply DEF Sound, ReplyType
<1>9. EverySlotIsAccountedFor' /\ slots' \in 0..MaxConcurrency
  BY <1>1, <1>6, SlotReleased DEF Answer, IInv
<1> QED BY <1>1, <1>6, <1>8, <1>9, AnswerIInv

(* The predictor's exception becomes a failure, and the slot is free again. *)
LEMMA PredictorRaisedIInv ==
  ASSUME IInv, NEW c \in Calls, PredictorRaised(c)  PROVE IInv'
<1>1. /\ handler[c] = "predicting" /\ slots' = slots + 1
      /\ Answer(c, Failure("internal_error"))
      /\ UNCHANGED <<config, service, gateway, request, xargs, audit>>
  BY DEF PredictorRaised
<1>2. "internal_error" \in ServiceErrors
  BY DEF ServiceErrors
<1>3. EverySlotIsAccountedFor' /\ slots' \in 0..MaxConcurrency
  BY <1>1, SlotReleased DEF Answer, IInv
<1> QED BY <1>1, <1>2, <1>3, FailureIsReply, AnswerIInv

(* Calls that were in the service when it stopped have no handler any more, *)
(* and a new semaphore has all its slots.                                  *)
LEMMA ServiceStopsIInv ==
  ASSUME IInv, ServiceStops  PROVE IInv'
<1>1. /\ service' = "down" /\ slots' = MaxConcurrency
      /\ handler' = [c \in Calls |-> "none"]
      /\ UNCHANGED <<config, gateway, request, reply, xargs, audit>>
  BY DEF ServiceStops
<1>2. EverySlotIsAccountedFor' /\ slots' \in 0..MaxConcurrency
  <2>1. {c \in Calls : handler'[c] = "predicting"} = {}
    BY <1>1
  <2>2. Cardinality({c \in Calls : handler'[c] = "predicting"}) = 0
    BY <2>1, FS_EmptySet
  <2> QED BY <1>1, <2>2, PathAssumption DEF EverySlotIsAccountedFor
<1>3. TypeOK'
  BY <1>1, <1>2 DEF IInv, TypeOK
<1>4. \A c \in Calls : CallInv(c)'
  BY <1>1 DEF IInv, CallInv
<1> QED BY <1>2, <1>3, <1>4 DEF IInv

(* Every step of gateway and service keeps the invariant.                  *)
LEMMA NextIInv == IInv /\ [Next]_vars => IInv'
<1> SUFFICES ASSUME IInv, [Next]_vars PROVE IInv'
  OBVIOUS
<1>1. ASSUME NEW c \in Calls, NEW r \in Requests, Refuse(c, r) \/ Call(c, r)  PROVE IInv'
  BY <1>1, RefuseIInv, CallIInv
<1>2. ASSUME NEW c \in Calls, Serve(c)  PROVE IInv'
  BY <1>2, DecideIInv, PredictedIInv, PredictorRaisedIInv DEF Serve
<1>3. ASSUME NEW c \in Calls, Finish(c)  PROVE IInv'
  <2>1. Reset(c) => IInv'
    BY MovesOnIInv DEF Reset
  <2> QED BY <1>3, <2>1, ReceiveIInv, TimeoutIInv DEF Finish
<1>4. ASSUME NEW c \in Calls, Send(c)  PROVE IInv'
  BY <1>4, MovesOnIInv DEF Send, Forward, EngineUnreachable
<1>5. ASSUME NEW c \in Calls, Hangup(c)  PROVE IInv'
  BY <1>5, HangupIInv
<1>6. CASE ServiceStarts
  BY <1>6 DEF ServiceStarts, IInv, TypeOK, EverySlotIsAccountedFor, CallInv
<1>7. CASE UNCHANGED vars
  BY <1>7 DEF vars, IInv, TypeOK, EverySlotIsAccountedFor, CallInv
<1> QED BY <1>1, <1>2, <1>3, <1>4, <1>5, <1>6, <1>7, ServiceStopsIInv DEF Next

(* The invariant holds in every state of every behaviour.                  *)
LEMMA InvariantHolds == Spec => []IInv
<1> QED BY InitIInv, NextIInv, PTL DEF Spec

-----------------------------------------------------------------------------
(* The path's state is well typed: the semaphore never goes below zero nor  *)
(* above max_concurrency, where a BoundedSemaphore would raise.             *)
THEOREM PathTypes == Spec => []TypeOK
<1>1. IInv => TypeOK
  BY DEF IInv
<1> QED BY <1>1, InvariantHolds, PTL

(* No slot of the decision service leaks, whatever the predictor raises and *)
(* whichever callers have given up waiting.                                *)
THEOREM NoSlotLeaks == Spec => []EverySlotIsAccountedFor
<1>1. IInv => EverySlotIsAccountedFor
  BY DEF IInv
<1> QED BY <1>1, InvariantHolds, PTL

(* The engine sees an estimate only if the service vouched for it for this  *)
(* very request; timeouts, failures and stale payloads leave none behind.   *)
THEOREM OnlyVouchedEstimates == Spec => []OnlyVouchedEstimatesReachTheEngine
<1>1. ASSUME IInv, NEW c \in Calls
      PROVE  IF EnginePrediction(xargs[c]).trusted THEN Vouched(c) ELSE xargs[c] = Absent
  <2>1. CASE xargs[c] = Absent
    <3>1. ~EnginePrediction(xargs[c]).trusted
      BY <2>1 DEF EnginePrediction, Absent
    <3> QED BY <2>1, <3>1
  <2>2. CASE xargs[c] # Absent
    <3>1. /\ xargs[c].reliable /\ xargs[c].tokens >= 1 /\ audit[c] = NoError
          /\ VouchedFor(config, request[c], xargs[c].tokens)
      BY <1>1, <2>2 DEF IInv, CallInv
    <3>2. EnginePrediction(xargs[c]).trusted
      BY <3>1 DEF EnginePrediction
    <3>3. Vouched(c)
      BY <3>1 DEF Vouched, VouchedFor
    <3> QED BY <3>2, <3>3
  <2> QED BY <2>1, <2>2
<1>2. IInv => OnlyVouchedEstimatesReachTheEngine
  BY <1>1 DEF OnlyVouchedEstimatesReachTheEngine
<1> QED BY <1>2, InvariantHolds, PTL

(* The gateway's validator accepts every answer of a service that has its   *)
(* quantile mapper.                                                        *)
THEOREM MapperAnswersAreWellFormed == Spec => []NoAnswerIsMalformed
<1>1. IInv => NoAnswerIsMalformed
  BY DEF IInv, CallInv, NoAnswerIsMalformed
<1> QED BY <1>1, InvariantHolds, PTL

-----------------------------------------------------------------------------
(* The gate                                                                *)

(* What a handler may write for a request the gate abstains from. *)
GateAnswers(g, r) ==
    {NoReply, BuildResponse(g, r, Abstention)}
        \cup {Failure(e) : e \in {TooLarge, "not_ready"} \cup ValidationErrors}

(* An abstained call is answered by the gate, and audited accordingly. *)
GateAnswersAlone(c) ==
    Abstains(config, request[c]) =>
        /\ reply[c] \in GateAnswers(config, request[c])
        /\ config.threshold > 0 => audit[c] \notin {"rate_limited", "internal_error"}

(* A gate's answer is no failure of the predictor or of the semaphore, as    *)
(* long as the threshold does not let a confidence of zero pass.            *)
LEMMA GateAnswerIsNoFailure ==
  ASSUME NEW g \in ConfigType, g.threshold > 0, NEW r \in RequestType,
         NEW o \in GateAnswers(g, r) \ {NoReply}
  PROVE  AuditError(o) \notin {"rate_limited", "internal_error"}
<1>1. CASE o = BuildResponse(g, r, Abstention)
  <2> DEFINE reason == ReasonCode(Abstention.ood, Abstention.confidence, MissingOptional(g, r), g.threshold)
  <2>1. /\ Abstention.ood = FALSE /\ Abstention.confidence = 0
        /\ MissingOptional(g, r) \in BOOLEAN /\ g.threshold \in Nat
    BY DEF Abstention, MissingOptional, ConfigType
  <2>2. reason # "prediction_reliable"
    <3>1. ReasonCode(FALSE, 0, MissingOptional(g, r), g.threshold) # "prediction_reliable"
      <4>1. 0 \in Nat /\ ~(0 >= g.threshold) /\ FALSE \in BOOLEAN
        BY <2>1
      <4> QED BY <2>1, <4>1, ReasonOfReliable
    <3> QED BY <2>1, <3>1
  <2>3. o.error = NoError
    BY <1>1, <2>2 DEF BuildResponse
  <2>4. AuditError(o) \in {NoError, "malformed_response"}
    <3>1. CASE ValidBundle(o)
      BY <2>3, <3>1, Zenon DEF AuditError
    <3>2. CASE ~ValidBundle(o)
      BY <2>3, <3>2, Zenon DEF AuditError
    <3> QED BY <3>1, <3>2
  <2> QED BY <2>4 DEF NoError
<1>2. ASSUME NEW e \in {TooLarge, "not_ready"} \cup ValidationErrors, o = Failure(e)
      PROVE  AuditError(o) \notin {"rate_limited", "internal_error"}
  <2>1. o.error = e /\ e # NoError
    BY <1>2, FailureHasError DEF ServiceErrors
  <2>2. AuditError(o) = e
    BY <2>1, Zenon DEF AuditError
  <2> QED BY <2>2 DEF ValidationErrors, TooLarge
<1> QED BY <1>1, <1>2 DEF GateAnswers

(* Decide writes one of the gate's answers for an abstained request. *)
LEMMA DecideAnswersAlone ==
  ASSUME IInv, NEW c \in Calls, GateAnswersAlone(c), Decide(c)
  PROVE  GateAnswersAlone(c)'
<1>1. UNCHANGED <<config, request, audit>> /\ handler[c] = "received"
  BY DEF Decide
<1>2. config \in ConfigType /\ request[c] \in RequestType
  BY CallTypes DEF IInv
<1>3. ASSUME Abstains(config, request[c]) PROVE reply'[c] \in GateAnswers(config, request[c])
  <2>1. PICK o \in GateAnswers(config, request[c]) : Answer(c, o)
    <3>1. CASE RefuseBody(c) \/ NotReady(c)
      BY <3>1 DEF RefuseBody, NotReady, GateAnswers
    <3>2. CASE Invalid(c)
      BY <1>2, <3>2 DEF Invalid, GateAnswers, RequestType
    <3>3. CASE Abstain(c)
      BY <3>3 DEF Abstain, GateAnswers
    <3> QED BY <1>3, <3>1, <3>2, <3>3 DEF Decide, RateLimited, StartPredicting
  <2> QED BY <2>1 DEF Answer, IInv, TypeOK
<1> QED BY <1>1, <1>3 DEF GateAnswersAlone

(* A connection that a step of another one, or of the service, passes by.   *)
LEMMA OthersAnswerAlone ==
  ASSUME NEW c \in Calls, GateAnswersAlone(c),
         UNCHANGED <<config, request[c], reply[c], audit[c]>>
  PROVE  GateAnswersAlone(c)'
BY DEF GateAnswersAlone

(* Applying an outcome that is no failure of the service's. *)
LEMMA AppliedAlone ==
  ASSUME IInv, NEW c \in Calls, NEW r, NEW o, Apply(c, r, o),
         AuditError(o) \notin {"rate_limited", "internal_error"}
  PROVE  audit'[c] \notin {"rate_limited", "internal_error"}
BY DEF Apply, IInv, TypeOK

(* The timeout and a service that is down are audited as what they are. *)
LEMMA NoAnswerAlone ==
  ASSUME NEW e \in {"timeout", "unavailable"}
  PROVE  AuditError(Failure(e)) \notin {"rate_limited", "internal_error"}
<1>1. AuditError(Failure(e)) = e
  BY FailureHasError, Zenon DEF AuditError
<1> QED BY <1>1

(* The gateway's steps leave an abstained call with the gate's answer. *)
LEMMA GatewayAnswersAlone ==
  ASSUME IInv, NEW c \in Calls, GateAnswersAlone(c),
         \/ \E r \in Requests : Refuse(c, r) \/ Call(c, r)
         \/ Receive(c) \/ Timeout(c) \/ Hangup(c)
  PROVE  GateAnswersAlone(c)'
<1>1. config \in ConfigType /\ request[c] \in RequestType
  BY CallTypes DEF IInv
<1>2. ASSUME NEW r \in Requests, Call(c, r) PROVE GateAnswersAlone(c)'
  <2>1. reply'[c] = NoReply /\ audit[c] = NoError
    BY <1>2 DEF Call, IInv, CallInv
  <2>2. audit'[c] \notin {"rate_limited", "internal_error"}
    BY <1>2, <2>1, AppliedAlone, NoAnswerAlone DEF Call, NoError
  <2> QED BY <2>1, <2>2 DEF GateAnswersAlone, GateAnswers
<1>3. CASE Receive(c)
  <2>1. UNCHANGED <<config, request, reply>>
    BY <1>3 DEF Receive
  <2>2. ASSUME Abstains(config, request[c]), config.threshold > 0
        PROVE  audit'[c] \notin {"rate_limited", "internal_error"}
    BY <1>1, <1>3, <2>2, GateAnswerIsNoFailure, AppliedAlone DEF Receive, GateAnswersAlone
  <2> QED BY <2>1, <2>2 DEF GateAnswersAlone
<1>4. CASE Timeout(c)
  <2>1. audit'[c] \notin {"rate_limited", "internal_error"}
    BY <1>4, AppliedAlone, NoAnswerAlone DEF Timeout
  <2> QED BY <1>4, <2>1 DEF Timeout, GateAnswersAlone
<1>5. CASE Hangup(c)
  <2>1. reply'[c] = NoReply /\ audit'[c] = NoError
    BY <1>5 DEF Hangup, IInv, TypeOK
  <2> QED BY <2>1 DEF GateAnswersAlone, GateAnswers, NoError
<1>6. ASSUME NEW r \in Requests, Refuse(c, r) PROVE GateAnswersAlone(c)'
  <2>1. reply'[c] = NoReply /\ audit'[c] = NoError
    BY <1>6 DEF Refuse, IInv, CallInv
  <2> QED BY <2>1 DEF GateAnswersAlone, GateAnswers, NoError
<1> QED BY <1>2, <1>3, <1>4, <1>5, <1>6

(* A step of one connection leaves the others alone. *)
LEMMA OneCallAtATime ==
  ASSUME IInv, NEW c \in Calls, NEW d \in Calls, d # c,
         \/ \E r \in Requests : Refuse(c, r) \/ Call(c, r)
         \/ Serve(c) \/ Finish(c) \/ Send(c) \/ Hangup(c)
  PROVE  UNCHANGED <<config, request[d], reply[d], audit[d]>>
<1> USE DEF IInv, TypeOK
<1>1. CASE \E r \in Requests : Refuse(c, r) \/ Call(c, r)
  BY <1>1 DEF Refuse, Call, Apply
<1>2. CASE Serve(c)
  BY <1>2 DEF Serve, Decide, RefuseBody, NotReady, Invalid, Abstain, RateLimited, StartPredicting,
              Predicted, PredictorRaised, Answer
<1>3. CASE Finish(c)
  BY <1>3 DEF Finish, Receive, Timeout, Reset, Apply
<1>4. CASE Send(c) \/ Hangup(c)
  BY <1>4 DEF Send, Forward, EngineUnreachable, Hangup
<1> QED BY <1>1, <1>2, <1>3, <1>4

(* Every step. *)
LEMMA GateNext ==
  ASSUME IInv, \A c \in Calls : GateAnswersAlone(c), [Next]_vars, NEW d \in Calls
  PROVE  GateAnswersAlone(d)'
<1>1. ASSUME NEW c \in Calls,
             \/ \E r \in Requests : Refuse(c, r) \/ Call(c, r)
             \/ Serve(c) \/ Finish(c) \/ Send(c) \/ Hangup(c)
      PROVE  GateAnswersAlone(d)'
  <2>1. CASE d # c
    BY <1>1, <2>1, OneCallAtATime, OthersAnswerAlone
  <2>2. CASE d = c
    <3>1. CASE \/ \E r \in Requests : Refuse(c, r) \/ Call(c, r)
               \/ Receive(c) \/ Timeout(c) \/ Hangup(c)
      BY <2>2, <3>1, GatewayAnswersAlone
    <3>2. CASE Decide(c)
      BY <2>2, <3>2, DecideAnswersAlone
    <3>3. CASE Predicted(c) \/ PredictorRaised(c)
      <4>1. ~Abstains(config, request[c]) /\ UNCHANGED <<config, request>>
        BY <3>3 DEF Predicted, PredictorRaised, IInv, CallInv
      <4> QED BY <2>2, <4>1 DEF GateAnswersAlone
    <3>4. CASE Reset(c) \/ Send(c)
      BY <2>2, <3>4, OthersAnswerAlone DEF Reset, Send, Forward, EngineUnreachable
    <3> QED BY <1>1, <3>1, <3>2, <3>3, <3>4 DEF Serve, Finish
  <2> QED BY <2>1, <2>2
<1>2. CASE ServiceStops \/ ServiceStarts \/ UNCHANGED vars
  BY <1>2, OthersAnswerAlone DEF ServiceStops, ServiceStarts, vars
<1> QED BY <1>1, <1>2 DEF Next

(* The gate answers alone in every state of every behaviour. *)
LEMMA GateInvariant == Spec => [](\A c \in Calls : GateAnswersAlone(c))
<1>1. Init => \A c \in Calls : GateAnswersAlone(c)
  BY DEF Init, GateAnswersAlone, GateAnswers, NoError
<1>2. IInv /\ (\A c \in Calls : GateAnswersAlone(c)) /\ [Next]_vars
        => (\A c \in Calls : GateAnswersAlone(c))'
  BY GateNext
<1> QED BY <1>1, <1>2, InvariantHolds, PTL DEF Spec

(* A service whose threshold does not let a confidence of zero pass answers  *)
(* an abstained request whatever its load and its model do.                *)
THEOREM AbstentionNeedsNoModel ==
  ASSUME \A g \in Configs : g.threshold > 0
  PROVE  Spec => []AbstentionIsAnswered
<1>1. TypeOK /\ (\A c \in Calls : GateAnswersAlone(c)) => AbstentionIsAnswered
  BY DEF TypeOK, GateAnswersAlone, AbstentionIsAnswered
<1> QED BY <1>1, PathTypes, GateInvariant, PTL

(* Where no constant confidence overrides the vocabulary, the answer of the  *)
(* gate is the one the model would have led to.                            *)
THEOREM GateChangesNoAnswer ==
  ASSUME \A g \in Configs : g.override = NoOverride
  PROVE  Spec => []GateAgreesWithPredictor
<1>1. ASSUME TypeOK, NEW c \in Calls, GateAnswersAlone(c), reply[c].error = NoError,
             Abstains(config, request[c]), NEW p \in Predictions(config, request[c])
      PROVE  reply[c] = BuildResponse(config, request[c], p)
  <2> DEFINE g == config
             r == request[c]
             reason == ReasonCode(FALSE, 0, MissingOptional(g, r), g.threshold)
  <2>1. reply[c] = BuildResponse(g, r, Abstention)
    BY <1>1, FailureHasError DEF GateAnswersAlone, GateAnswers, NoReply, ServiceErrors
  <2>2. g.vocabulary /\ g.override = NoOverride
    BY <1>1 DEF Abstains, TypeOK
  <2>3. Legible(r) /\ r.gate = 0
    <3>1. ASSUME ~Legible(r) PROVE Predictions(g, r) = {}
      BY <2>2, <3>1, Zenon DEF Predictions
    <3>2. Legible(r)
      BY <1>1, <3>1
    <3>3. HasSchema(r)
      BY <3>2 DEF Legible
    <3>4. (IF HasSchema(r) THEN r.gate ELSE g.unknown) = 0
      BY <1>1 DEF Abstains
    <3> QED BY <3>2, <3>3, <3>4
  <2>4. Predictions(g, r) =
           [score : Scores, ood : {FALSE},
            confidence : {IF g.override = NoOverride THEN r.gate ELSE g.override}]
    BY <2>2, <2>3, Zenon DEF Predictions
  <2>5. p.ood = FALSE /\ p.confidence = 0
    <3>1. Predictions(g, r) = [score : Scores, ood : {FALSE}, confidence : {0}]
      BY <2>2, <2>3, <2>4
    <3> HIDE DEF g, r
    <3>2. p \in [score : Scores, ood : {FALSE}, confidence : {0}]
      BY <1>1, <3>1 DEF g, r
    <3> QED BY <3>2
  <2>6. Abstention.ood = FALSE /\ Abstention.confidence = 0 /\ Abstention.score = NoScore
    BY DEF Abstention
  <2>7. reason # "prediction_reliable"
    <3>1. Failure("internal_error").error # NoError
      BY FailureHasError DEF ServiceErrors
    <3> HIDE DEF reason
    <3>2. reason = "prediction_reliable"
            => BuildResponse(g, r, Abstention) = Failure("internal_error")
      BY <2>6 DEF BuildResponse, reason
    <3> QED BY <1>1, <2>1, <3>1, <3>2
  <2>8. BuildResponse(g, r, p) = BuildResponse(g, r, Abstention)
    <3> HIDE DEF reason
    <3> QED BY <2>5, <2>6, <2>7 DEF BuildResponse, reason
  <2> QED BY <2>1, <2>8
<1>2. TypeOK /\ (\A c \in Calls : GateAnswersAlone(c)) => GateAgreesWithPredictor
  BY <1>1 DEF GateAgreesWithPredictor
<1> QED BY <1>2, PathTypes, GateInvariant, PTL
=============================================================================
