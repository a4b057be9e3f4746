---------------------------- MODULE QueuePolicies ----------------------------
(***************************************************************************)
(* The queue orderings of scheduler_benchmark/policies.py: policy_fcfs,    *)
(* pure_ltr and prompt_sjf, which depend on nothing but the requests, the   *)
(* slot-preserving gated_rule_c, and tail_safe, gated_hybrid and ltr_aging, *)
(* which discount a request's cost by how long it has waited.              *)
(*                                                                         *)
(* A context is what RequestContext carries and the policies read:         *)
(*   rank    position by (arrival_time_s, request_id); the pair is a       *)
(*           strict order, so ties of the clock are already broken         *)
(*   score   Prediction.score in tenths, smaller is expected to be shorter *)
(*   trusted _is_ranker_eligible: not ood, confidence over the threshold   *)
(*   latency Prediction.latency_ms                                         *)
(*   tokens  prompt_token_count                                            *)
(*   kind    kind and category, as far as the costs tell them apart        *)
(* ctx maps each waiting request to its context, age to _age_ms at now_s.  *)
(*                                                                         *)
(* Python's sorted(queue, key) is the one rearrangement of the queue that  *)
(* is ascending by key.  It is written as the set of such rearrangements,  *)
(* which needs no recursion and so can be reasoned about.                  *)
(***************************************************************************)
EXTENDS Integers, Sequences, Functions

CONSTANT Deadline  \* deadline_ms, in ticks of the clock that gives the ages

ASSUME DeadlineAssumption == Deadline \in Nat \ {0}

(* Every way to put the elements of the queue q back into its positions.   *)
Rearrangements(q) ==
    {w \in [DOMAIN q -> Range(q)] : IsInjective(w) /\ Range(w) = Range(q)}

(* sorted(q, key), the key given as the set of pairs <<a, b>> with a first. *)
SortedBy(q, before) ==
    {w \in Rearrangements(q) :
        \A i, j \in DOMAIN q : i < j => <<w[i], w[j]>> \in before}

Pairs(ctx) == (DOMAIN ctx) \X (DOMAIN ctx)

(* A bug: the newest request first. *)
NewestFirst(ctx) == {p \in Pairs(ctx) : ctx[p[1]].rank > ctx[p[2]].rank}

(* key (arrival_time_s, request_id) *)
ArrivalOrder(ctx) == {p \in Pairs(ctx) : ctx[p[1]].rank < ctx[p[2]].rank}

(* A bug: longest prediction first. *)
LongestFirst(ctx) ==
    {p \in Pairs(ctx) :
        \/ ctx[p[1]].score > ctx[p[2]].score
        \/ ctx[p[1]].score = ctx[p[2]].score /\ p \in ArrivalOrder(ctx)}

(* key (prediction.score, arrival_time_s, request_id) *)
ScoreOrder(ctx) ==
    {p \in Pairs(ctx) :
        \/ ctx[p[1]].score < ctx[p[2]].score
        \/ ctx[p[1]].score = ctx[p[2]].score /\ p \in ArrivalOrder(ctx)}

(* key (prompt_token_count, arrival_time_s, request_id) *)
LengthOrder(ctx) ==
    {p \in Pairs(ctx) :
        \/ ctx[p[1]].tokens < ctx[p[2]].tokens
        \/ ctx[p[1]].tokens = ctx[p[2]].tokens /\ p \in ArrivalOrder(ctx)}

(* A bug: a request without a prompt length counts as the shortest.        *)
SjfWithoutFallback(q, ctx) == SortedBy(q, LengthOrder(ctx))

(* prompt_sjf: one request without a prompt length turns the whole queue   *)
(* back to arrival order.                                                  *)
PromptSjf(q, ctx) ==
    IF \E i \in DOMAIN q : ctx[q[i]].tokens <= 0
    THEN SortedBy(q, ArrivalOrder(ctx))
    ELSE SortedBy(q, LengthOrder(ctx))

(* A bug: Rule C re-sorts the abstained requests too. *)
AllSlots(fcfs, ctx) == DOMAIN fcfs

(* The slots of an arrival-ordered queue that hold a trusted request.      *)
TrustedSlots(fcfs, ctx) == {i \in DOMAIN fcfs : ctx[fcfs[i]].trusted}

(* _slot_preserving_rule_c: sort by arrival, then sort the trusted requests *)
(* by score over the slots trusted requests held, leaving every other slot  *)
(* alone.  Fewer than two trusted slots leave the arrival order as it is.   *)
SlotPreservingRuleC(q, ctx) ==
    UNION { { [i \in DOMAIN fcfs |->
                  IF i \in TrustedSlots(fcfs, ctx) THEN resorted[i] ELSE fcfs[i]] :
                resorted \in SortedBy(Restrict(fcfs, TrustedSlots(fcfs, ctx)),
                                      ScoreOrder(ctx)) } :
            fcfs \in SortedBy(q, ArrivalOrder(ctx)) }

-----------------------------------------------------------------------------
(* The requests _category_cost and _tail_risk_multiplier tell apart: chat,  *)
(* and tool requests by what their category contains.                      *)
Kinds == {"chat", "multi_turn", "live_multiple", "other"}

(* _category_cost, in milliseconds *)
CategoryCost ==
    [chat |-> 250, multi_turn |-> 420, live_multiple |-> 180, other |-> 90]

(* _tail_risk_multiplier, in hundredths *)
TailRisk == [chat |-> 65, multi_turn |-> 125, live_multiple |-> 90, other |-> 45]

(* risk_adjusted_cost of _tail_safe_score with tail_weight 0.35, and the    *)
(* dividend of _ltr_score with ltr_scale 400, in ten-thousandths of a       *)
(* millisecond.                                                            *)
TailSafeCost(c) == CategoryCost[c.kind] * (10000 + 35 * TailRisk[c.kind])
LtrCost(c) == c.score * 400000

Distance(a, b) == IF a < b THEN b - a ELSE a - b

(* _has_ltr_opportunity: what the prediction may save over the queue is     *)
(* worth more than it took to make.                                        *)
HasLtrOpportunity(c, depth) ==
    /\ depth >= 2
    /\ Distance(CategoryCost[c.kind], c.score * 40) * (depth - 1) > c.latency

(* _gated_score before its discount *)
GatedCost(c, depth) ==
    IF c.trusted /\ HasLtrOpportunity(c, depth) THEN LtrCost(c) ELSE TailSafeCost(c)

(* The cost that a discounting policy divides by 1 + age / deadline. *)
Cost(policy, c, depth) ==
    IF policy = "tail_safe" THEN TailSafeCost(c)
    ELSE IF policy = "gated_hybrid" THEN GatedCost(c, depth)
    ELSE LtrCost(c)

(* A bug: the cost grows with the age. *)
PenalisedOrder(cost, ctx, age) ==
    {p \in Pairs(ctx) :
        LET first  == cost[p[1]] * (Deadline + age[p[1]])
            second == cost[p[2]] * (Deadline + age[p[2]])
        IN  first < second \/ (first = second /\ p \in ArrivalOrder(ctx))}

(* key (cost / (1 + age / deadline), arrival_time_s, request_id), the two   *)
(* quotients compared by cross-multiplication.                             *)
DiscountedOrder(cost, ctx, age) ==
    {p \in Pairs(ctx) :
        LET first  == cost[p[1]] * (Deadline + age[p[2]])
            second == cost[p[2]] * (Deadline + age[p[1]])
        IN  first < second \/ (first = second /\ p \in ArrivalOrder(ctx))}

DiscountedBy(policy, q, ctx, age) ==
    SortedBy(q, DiscountedOrder([r \in DOMAIN ctx |-> Cost(policy, ctx[r], Len(q))], ctx, age))

DiscountingPolicies == {"tail_safe", "gated_hybrid", "ltr_aging"}

PolicyNames ==
    {"policy_fcfs", "pure_ltr", "prompt_sjf", "gated_rule_c"} \cup DiscountingPolicies

(* order_waiting_requests: the orders the policy may leave the queue in.   *)
OrderWaitingRequests(policy, q, ctx, age) ==
    CASE policy = "gated_rule_c" -> SlotPreservingRuleC(q, ctx)
      [] policy = "prompt_sjf"   -> PromptSjf(q, ctx)
      [] policy = "pure_ltr"     -> SortedBy(q, ScoreOrder(ctx))
      [] policy = "policy_fcfs"  -> SortedBy(q, ArrivalOrder(ctx))
      [] policy \in DiscountingPolicies -> DiscountedBy(policy, q, ctx, age)

=============================================================================
