--------------------------- MODULE PolicyScheduler ---------------------------
(***************************************************************************)
(* _PolicyScheduler of scheduler_benchmark/vllm_scheduler.py, the scheduler *)
(* that vLLM's engine core loads by --scheduler-cls, with the policies of   *)
(* module QueuePolicies.                                                   *)
(*                                                                         *)
(* One engine-core thread calls add_request, schedule and the completion   *)
(* of requests, in any interleaving; each call is one action.  What vLLM's *)
(* own scheduler does inside super().schedule() - admitting from the head  *)
(* of the queue, preempting the newest running request - is external code, *)
(* modelled from how the subclass relies on it.                            *)
(***************************************************************************)
EXTENDS QueuePolicies, SequencesExt, FiniteSets, Integers

CONSTANTS
    Requests,      \* request ids; an id may come back after its request ended
    Policies,      \* the policies an engine may be launched with
    Scores,        \* predictor scores
    Fallback,      \* the score of the safe fallback (1.0)
    Prompts,       \* prompts and their metadata: token count (0 for a
                   \* request without token ids) and kind
    Latency,       \* latency_ms of a prediction
    MaxAge,        \* the most ticks a request has waited, a bound
    Capacity,      \* max_num_seqs
    ArrivalSkew    \* how many requests added before it one may predate: the
                   \* arrival time is taken in the API server, before the
                   \* request reaches the engine core

ASSUME SchedulerAssumption ==
    /\ Policies \subseteq PolicyNames
    /\ Scores \subseteq Nat
    /\ Fallback \in Nat
    /\ \A p \in Prompts : p.tokens \in Nat /\ p.kind \in Kinds
    /\ Latency \in Nat
    /\ MaxAge \in Nat
    /\ Capacity \in Nat \ {0}
    /\ ArrivalSkew \in Nat

VARIABLES
    policy,        \* policy_name of the scheduler class that was loaded
    waiting,       \* self.waiting, the queue of ids
    running,       \* self.running, in the order they were admitted
    arrived,       \* live requests by (arrival_time, request_id)
    predictions,   \* self._ltr_predictions, keyed by id and never evicted
    prompt         \* what the live requests brought

vars == <<policy, waiting, running, arrived, predictions, prompt>>

Live == Range(arrived)

(* uses_predictor of the scheduler class *)
UsesPredictor == policy \in {"pure_ltr", "gated_rule_c", "gated_hybrid", "ltr_aging"}

Prediction == [score : Scores \cup {Fallback}, trusted : BOOLEAN]
Untrusted == [score |-> Fallback, trusted |-> FALSE]

(* Without a predictor add_request stores Prediction(1.0, 0.0, True); with  *)
(* one, predict_or_fallback stores its answer, or the same untrusted value  *)
(* when the predictor raised.                                              *)
PredictOrFallback ==
    IF UsesPredictor
    THEN [score : Scores, trusted : BOOLEAN] \cup {Untrusted}
    ELSE {Untrusted}

Init ==
    /\ policy \in Policies
    /\ waiting = <<>>
    /\ running = <<>>
    /\ arrived = <<>>
    /\ predictions = [r \in {} |-> Untrusted]
    /\ prompt = <<>>

Extend(f, x, y) == [z \in DOMAIN f \cup {x} |-> IF z = x THEN y ELSE f[z]]

(* add_request(request): an id that was ever predicted keeps its prediction *)
AddRequest(r) ==
    /\ r \notin Live
    /\ \E k \in 1..(Len(arrived) + 1) :
        /\ Len(arrived) + 1 - k <= ArrivalSkew
        /\ arrived' = InsertAt(arrived, k, r)
    /\ \E m \in Prompts : prompt' = Extend(prompt, r, m)
    /\ IF r \in DOMAIN predictions
       THEN UNCHANGED predictions
       ELSE \E p \in PredictOrFallback : predictions' = Extend(predictions, r, p)
    /\ waiting' = Append(waiting, r)
    /\ UNCHANGED <<policy, running>>

RankOf(r) == CHOOSE k \in DOMAIN arrived : arrived[k] = r

(* _request_context of every request in the queue *)
Contexts ==
    [r \in Range(waiting) |->
        [rank    |-> RankOf(r),
         score   |-> predictions[r].score,
         trusted |-> predictions[r].trusted,
         latency |-> Latency,
         tokens  |-> prompt[r].tokens,
         kind    |-> prompt[r].kind]]

(* What _age_ms may be of every queued request when schedule() reads the    *)
(* clock: an older request has waited at least as long, and a clock behind  *)
(* an arrival time counts as no age at all.                                *)
Ages ==
    {age \in [Range(waiting) -> 0..MaxAge] :
        \A r, s \in Range(waiting) : RankOf(r) < RankOf(s) => age[s] <= age[r]}

(* reorder_request_queue leaves a queue of fewer than two as it is, which   *)
(* is what every policy does with it.                                      *)
Ordered ==
    UNION {OrderWaitingRequests(policy, waiting, Contexts, age) : age \in Ages}

(* Bugs: the sorted requests are added to a queue that was not emptied, or  *)
(* are put back at its head one by one.                                    *)
AddedWithoutRemoving == {w \o waiting : w \in Ordered}
Prepended == {Reverse(w) : w \in Ordered}

Reordered == Ordered

(* super().schedule() admits from the head of the queue while there is     *)
(* room, at least one request if it can.                                   *)
Admissible(w) ==
    LET room == Capacity - Len(running)
        most == IF Len(w) <= room THEN Len(w) ELSE room
    IN  {n \in 0..most : most > 0 => n > 0}

(* A bug: a prediction is evicted once its request was admitted. *)
ScheduleEvicting ==
    /\ Live # {}
    /\ \E w \in Reordered, n \in 0..Len(waiting) :
        /\ n \in Admissible(w)
        /\ running' = running \o SubSeq(w, 1, n)
        /\ waiting' = SubSeq(w, n + 1, Len(w))
        /\ predictions' = [r \in DOMAIN predictions \ Range(running') |-> predictions[r]]
    /\ UNCHANGED <<policy, arrived, prompt>>

(* A bug: schedule() runs what it ordered, whatever the room. *)
ScheduleAll ==
    /\ Live # {}
    /\ \E w \in Reordered : running' = running \o w /\ waiting' = <<>>
    /\ UNCHANGED <<policy, arrived, predictions, prompt>>

(* schedule(): reorder the queue, then vLLM's own step.  A step that        *)
(* preempts admits nothing.                                                *)
Schedule ==
    /\ Live # {}
    /\ \E w \in Reordered :
        /\ \E n \in Admissible(w) :
            /\ running' = running \o SubSeq(w, 1, n)
            /\ waiting' = SubSeq(w, n + 1, Len(w))
    /\ UNCHANGED <<policy, arrived, predictions, prompt>>

SchedulePreempting ==
    /\ Len(running) > 1
    /\ \E w \in Reordered :
        /\ waiting' = <<running[Len(running)]>> \o w
        /\ running' = SubSeq(running, 1, Len(running) - 1)
    /\ UNCHANGED <<policy, arrived, predictions, prompt>>

Forget(r) ==
    /\ \E k \in DOMAIN arrived : arrived[k] = r /\ arrived' = RemoveAt(arrived, k)
    /\ prompt' = [z \in DOMAIN prompt \ {r} |-> prompt[z]]
    /\ UNCHANGED <<policy, predictions>>

(* The engine finishes a running request. *)
Finish(r) ==
    /\ \E i \in DOMAIN running : running[i] = r /\ running' = RemoveAt(running, i)
    /\ Forget(r)
    /\ UNCHANGED waiting

(* A client that goes away takes its waiting request with it. *)
Abort(r) ==
    /\ \E i \in DOMAIN waiting : waiting[i] = r /\ waiting' = RemoveAt(waiting, i)
    /\ Forget(r)
    /\ UNCHANGED running

Next ==
    \/ \E r \in Requests : AddRequest(r) \/ Finish(r) \/ Abort(r)
    \/ Schedule
    \/ SchedulePreempting

Spec == Init /\ [][Next]_vars

(* The engine keeps stepping while it has requests, and a running request   *)
(* that is left running ends.  Clients and preemption promise nothing.     *)
Fairness == WF_vars(Schedule) /\ \A r \in Requests : WF_vars(Finish(r))

FairSpec == Spec /\ Fairness

-----------------------------------------------------------------------------
TypeOK ==
    /\ policy \in Policies
    /\ waiting \in Seq(Requests)
    /\ running \in Seq(Requests)
    /\ arrived \in Seq(Requests)
    /\ Len(running) <= Capacity
    /\ DOMAIN predictions \subseteq Requests
    /\ predictions \in [DOMAIN predictions -> Prediction]
    /\ prompt \in [Live -> Prompts]

(* Reordering empties self.waiting and refills it, and preemption puts      *)
(* requests back: whatever the interleaving, a live request is in exactly   *)
(* one of the two queues, once.                                            *)
EachLiveRequestOnce ==
    /\ IsInjective(waiting) /\ IsInjective(running) /\ IsInjective(arrived)
    /\ Range(waiting) \cap Range(running) = {}
    /\ Range(waiting) \cup Range(running) = Live

(* schedule() looks up predictions[request_id] for every queued request; a  *)
(* missing entry is a KeyError that stops the engine core.  Requests also   *)
(* enter the queue by preemption, which does not go through add_request.    *)
EveryQueuedRequestIsPredicted == Range(waiting) \subseteq DOMAIN predictions

(* What a step moved from the queue to the running batch.                  *)
Admitted == Range(running') \ Range(running)
LeftBehind == Range(waiting) \cap Range(waiting')
OlderWaiting(r) == {b \in Range(waiting) : RankOf(b) < RankOf(r)}

(* Rule C: "uncertainty about a request can never cost it its place in      *)
(* line".  A step that admits n requests admits an abstained request        *)
(* exactly when fewer than n of the waiting requests are older, whatever    *)
(* the scores of the trusted requests around it.                           *)
AbstainedKeepsItsPlace ==
    [][policy = "gated_rule_c" =>
        \A a \in Range(waiting) :
            ~predictions[a].trusted =>
                (a \in Admitted <=>
                    Cardinality(OlderWaiting(a)) < Cardinality(Admitted))]_vars

(* Between trusted requests the shorter prediction goes first, ties by age. *)
(* Under pure_ltr that is every request, under Rule C the trusted ones.     *)
(* The discounting policies may admit the costlier of two requests, but     *)
(* only when it is the older one: however the clock stands, waiting never   *)
(* costs a request its turn.                                               *)
Ranked(r) == policy = "pure_ltr" \/ (policy = "gated_rule_c" /\ predictions[r].trusted)

Shorter(t, u) ==
    \/ predictions[t].score < predictions[u].score
    \/ predictions[t].score = predictions[u].score /\ RankOf(t) < RankOf(u)

CostOf(r) == Cost(policy, Contexts[r], Len(waiting))
OlderOrCheaper(t, u) == RankOf(t) < RankOf(u) \/ CostOf(t) < CostOf(u)

ShortestPredictionFirst ==
    [][\A t \in Admitted, u \in LeftBehind :
           /\ Ranked(t) /\ Ranked(u) => Shorter(t, u)
           /\ policy \in DiscountingPolicies => OlderOrCheaper(t, u)]_vars

(* prompt_sjf never admits a longer prompt before a shorter one, and while  *)
(* one waiting request has no prompt length it admits nothing before an     *)
(* older request.                                                          *)
SjfFallsBackToArrivalOrder ==
    [][policy = "prompt_sjf" =>
        \A t \in Admitted, u \in LeftBehind :
            IF \E r \in Range(waiting) : prompt[r].tokens = 0
            THEN RankOf(t) < RankOf(u)
            ELSE prompt[t].tokens <= prompt[u].tokens]_vars

(* Every queued request is admitted, unless its client goes away: what      *)
(* arrival order promises under endless arrivals, preemptions and aborts.   *)
NoStarvation ==
    \A r \in Requests : r \in Range(waiting) ~> r \notin Range(waiting)

(* Rule C's promise of the same for the requests the gate abstained on:     *)
(* "the policy cannot starve traffic by failing to understand it".          *)
AbstainedIsNotStarved ==
    \A r \in Requests :
        (r \in Range(waiting) /\ ~predictions[r].trusted) ~> r \notin Range(waiting)

(* PolicyFCFS is "an algorithmic control": with requests reaching the       *)
(* engine in arrival order its schedules are those of the stock scheduler.  *)
Stock == INSTANCE StockFcfs
ImplementsStockFcfs == Stock!FairSpec
=============================================================================
