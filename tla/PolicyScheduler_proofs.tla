------------------------ MODULE PolicyScheduler_proofs ------------------------
(***************************************************************************)
(* Every policy only rearranges the queue, and with that no request is     *)
(* lost or duplicated between the two queues and no queued request is      *)
(* without a prediction. What the policies promise of an admission: Rule C *)
(* costs an abstained request nothing, predicted lengths order the trusted *)
(* requests, prompt_sjf admits by length or, as a whole, by arrival; and   *)
(* policy_fcfs is the stock scheduler. All for every number of requests,   *)
(* every capacity and every behaviour of the predictor.                    *)
(***************************************************************************)
EXTENDS PolicyScheduler, Lemmas, FiniteSetTheorems

(* sorted() and the queue rebuilt from it hold the elements of the queue    *)
(* they were made from, each once.                                         *)
LEMMA RearrangementIsQueue ==
  ASSUME NEW S, NEW q \in Seq(S), NEW w \in Rearrangements(q)
  PROVE  /\ w \in Seq(S) /\ Len(w) = Len(q)
         /\ IsInjective(w) /\ Range(w) = Range(q)
<1>1. Len(q) \in Nat /\ DOMAIN q = 1..Len(q) /\ Range(q) \subseteq S
  BY LenProperties, RangeOfSeq
<1>2. w \in [1..Len(q) -> Range(q)] /\ IsInjective(w) /\ Range(w) = Range(q)
  BY <1>1 DEF Rearrangements
<1>3. w \in [1..Len(q) -> S]
  BY <1>1, <1>2
<1>4. w \in Seq(S)
  BY <1>1, <1>3, SeqDef
<1>5. Len(w) = Len(q)
  BY <1>1, <1>3, <1>4, LenProperties
<1> QED BY <1>2, <1>4, <1>5

(* Re-sorting the trusted requests over the slots they hold gives a         *)
(* rearrangement of the queue.                                             *)
LEMMA RuleCRearranges ==
  ASSUME NEW S, NEW q \in Seq(S), NEW ctx, NEW w \in SlotPreservingRuleC(q, ctx)
  PROVE  w \in Rearrangements(q)
<1>1. PICK fcfs \in SortedBy(q, ArrivalOrder(ctx)) :
        \E resorted \in SortedBy(Restrict(fcfs, TrustedSlots(fcfs, ctx)), ScoreOrder(ctx)) :
           w = [i \in DOMAIN fcfs |->
                  IF i \in TrustedSlots(fcfs, ctx) THEN resorted[i] ELSE fcfs[i]]
  BY DEF SlotPreservingRuleC
<1> DEFINE T == TrustedSlots(fcfs, ctx)
           g == Restrict(fcfs, T)
<1>2. PICK resorted \in SortedBy(g, ScoreOrder(ctx)) :
        w = [i \in DOMAIN fcfs |-> IF i \in T THEN resorted[i] ELSE fcfs[i]]
  BY <1>1
<1>3. /\ fcfs \in [DOMAIN q -> Range(q)]
      /\ \A i, j \in DOMAIN q : fcfs[i] = fcfs[j] => i = j
      /\ Range(fcfs) = Range(q)
  BY DEF SortedBy, Rearrangements, IsInjective
<1>4. T \subseteq DOMAIN q
  BY <1>3 DEF TrustedSlots
<1>5. DOMAIN g = T /\ \A i \in T : g[i] = fcfs[i]
  BY DEF Restrict
<1>6. /\ resorted \in [T -> Range(g)]
      /\ \A i, j \in T : resorted[i] = resorted[j] => i = j
      /\ Range(resorted) = Range(g)
  BY <1>5 DEF SortedBy, Rearrangements, IsInjective
<1>7. \A i \in T : \E k \in T : resorted[i] = fcfs[k]
  BY <1>5, <1>6 DEF Range
<1>8. \A k \in T : \E i \in T : resorted[i] = fcfs[k]
  <2> TAKE k \in T
  <2>1. fcfs[k] \in Range(g)
    BY <1>5 DEF Range
  <2>2. fcfs[k] \in Range(resorted) /\ DOMAIN resorted = T
    BY <2>1, <1>6
  <2> QED BY <2>2 DEF Range
<1> HIDE DEF T, g
<1>9. /\ DOMAIN w = DOMAIN q
      /\ \A i \in T : w[i] = resorted[i]
      /\ \A i \in DOMAIN q \ T : w[i] = fcfs[i]
  BY <1>2, <1>3, <1>4
<1>10. \A i \in DOMAIN q : w[i] \in Range(q)
  BY <1>3, <1>4, <1>7, <1>9
<1>11. IsInjective(w)
  <2> SUFFICES ASSUME NEW i \in DOMAIN q, NEW j \in DOMAIN q, w[i] = w[j]
               PROVE  i = j
    BY <1>9 DEF IsInjective
  <2>1. CASE i \in T /\ j \in T
    BY <2>1, <1>6, <1>9
  <2>2. CASE i \notin T /\ j \notin T
    BY <2>2, <1>3, <1>9
  <2>3. CASE i \in T /\ j \notin T
    BY <2>3, <1>3, <1>4, <1>7, <1>9
  <2>4. CASE i \notin T /\ j \in T
    BY <2>4, <1>3, <1>4, <1>7, <1>9
  <2> QED BY <2>1, <2>2, <2>3, <2>4
<1>12. Range(q) \subseteq Range(w)
  <2> SUFFICES ASSUME NEW e \in Range(q)
               PROVE  e \in Range(w)
    OBVIOUS
  <2>1. PICK k \in DOMAIN q : e = fcfs[k]
    BY <1>3 DEF Range
  <2>2. \E i \in DOMAIN q : w[i] = e
    BY <2>1, <1>4, <1>8, <1>9
  <2> QED BY <2>2, <1>9 DEF Range
<1>13. Range(w) \subseteq Range(q)
  BY <1>9, <1>10 DEF Range
<1>14. w \in [DOMAIN q -> Range(q)]
  BY <1>2, <1>3, <1>9, <1>10
<1> QED BY <1>11, <1>12, <1>13, <1>14 DEF Rearrangements

(* What order_waiting_requests does under each policy.                     *)
LEMMA EachPolicySorts ==
  ASSUME NEW q, NEW ctx, NEW age, NEW p \in PolicyNames
  PROVE  /\ p = "gated_rule_c" =>
              OrderWaitingRequests(p, q, ctx, age) = SlotPreservingRuleC(q, ctx)
         /\ p = "prompt_sjf" =>
              OrderWaitingRequests(p, q, ctx, age) = PromptSjf(q, ctx)
         /\ p = "pure_ltr" =>
              OrderWaitingRequests(p, q, ctx, age) = SortedBy(q, ScoreOrder(ctx))
         /\ p = "policy_fcfs" =>
              OrderWaitingRequests(p, q, ctx, age) = SortedBy(q, ArrivalOrder(ctx))
         /\ p \in DiscountingPolicies =>
              OrderWaitingRequests(p, q, ctx, age) = DiscountedBy(p, q, ctx, age)
<1>1. ASSUME p = "gated_rule_c"
      PROVE  OrderWaitingRequests(p, q, ctx, age) = SlotPreservingRuleC(q, ctx)
  <2>1. p \notin DiscountingPolicies
    BY <1>1 DEF DiscountingPolicies
  <2> QED BY <1>1, <2>1, Zenon DEF OrderWaitingRequests
<1>2. ASSUME p = "prompt_sjf"
      PROVE  OrderWaitingRequests(p, q, ctx, age) = PromptSjf(q, ctx)
  <2>1. p \notin DiscountingPolicies
    BY <1>2 DEF DiscountingPolicies
  <2> QED BY <1>2, <2>1, Zenon DEF OrderWaitingRequests
<1>3. ASSUME p = "pure_ltr"
      PROVE  OrderWaitingRequests(p, q, ctx, age) = SortedBy(q, ScoreOrder(ctx))
  <2>1. p \notin DiscountingPolicies
    BY <1>3 DEF DiscountingPolicies
  <2> QED BY <1>3, <2>1, Zenon DEF OrderWaitingRequests
<1>4. ASSUME p = "policy_fcfs"
      PROVE  OrderWaitingRequests(p, q, ctx, age) = SortedBy(q, ArrivalOrder(ctx))
  <2>1. p \notin DiscountingPolicies
    BY <1>4 DEF DiscountingPolicies
  <2> QED BY <1>4, <2>1, Zenon DEF OrderWaitingRequests
<1>5. ASSUME p \in DiscountingPolicies
      PROVE  OrderWaitingRequests(p, q, ctx, age) = DiscountedBy(p, q, ctx, age)
  <2>1. /\ p # "gated_rule_c" /\ p # "prompt_sjf" /\ p # "pure_ltr"
        /\ p # "policy_fcfs"
    BY <1>5 DEF DiscountingPolicies
  <2> QED BY <1>5, <2>1, Zenon DEF OrderWaitingRequests
<1> QED BY <1>1, <1>2, <1>3, <1>4, <1>5

(* The reordering of every policy, on every queue and whatever the scores   *)
(* and ages, keeps the requests of the queue: order_waiting_requests cannot *)
(* lose one.                                                               *)
THEOREM PolicyRearranges ==
  ASSUME NEW S, NEW q \in Seq(S), NEW ctx, NEW p \in PolicyNames,
         NEW age, NEW w \in OrderWaitingRequests(p, q, ctx, age)
  PROVE  /\ w \in Seq(S) /\ Len(w) = Len(q)
         /\ IsInjective(w) /\ Range(w) = Range(q)
<1>1. CASE p = "gated_rule_c"
  <2>1. w \in SlotPreservingRuleC(q, ctx)
    BY <1>1, EachPolicySorts
  <2> QED BY <2>1, RuleCRearranges, RearrangementIsQueue
<1>2. CASE p \in DiscountingPolicies
  <2>1. w \in DiscountedBy(p, q, ctx, age)
    BY <1>2, EachPolicySorts
  <2> QED BY <2>1, RearrangementIsQueue DEF DiscountedBy, SortedBy
<1>3. CASE p = "prompt_sjf"
  <2>1. w \in PromptSjf(q, ctx)
    BY <1>3, EachPolicySorts
  <2> QED BY <2>1, RearrangementIsQueue DEF PromptSjf, SortedBy
<1>4. CASE p = "pure_ltr" \/ p = "policy_fcfs"
  <2>1. w \in SortedBy(q, ScoreOrder(ctx)) \/ w \in SortedBy(q, ArrivalOrder(ctx))
    BY <1>4, EachPolicySorts
  <2> QED BY <2>1, RearrangementIsQueue DEF SortedBy
<1> QED BY <1>1, <1>2, <1>3, <1>4 DEF PolicyNames

-----------------------------------------------------------------------------
(* The inductive invariant: what the runs check, and that a live request is *)
(* predicted wherever it is, so that preemption puts no unpredicted request *)
(* back into the queue.                                                    *)
IInv ==
    /\ TypeOK
    /\ EachLiveRequestOnce
    /\ Live \subseteq DOMAIN predictions

(* The engine starts with empty queues.                                    *)
LEMMA InitIInv ==
  ASSUME Init
  PROVE  IInv
<1> USE SchedulerAssumption
<1>1. /\ <<>> \in Seq(Requests) /\ Len(<<>>) = 0
      /\ Range(<<>>) = {} /\ IsInjective(<<>>)
  BY EmptySeq DEF Range, IsInjective
<1>2. TypeOK
  BY <1>1 DEF Init, TypeOK, Live
<1>3. EachLiveRequestOnce /\ Live \subseteq DOMAIN predictions
  BY <1>1 DEF Init, EachLiveRequestOnce, Live
<1> QED BY <1>2, <1>3 DEF IInv

(* What a new request is predicted to be is a prediction. *)
LEMMA ExtendPredictions ==
  ASSUME NEW D, NEW f \in [D -> Prediction], NEW r, NEW p \in Prediction
  PROVE  Extend(f, r, p) \in [D \cup {r} -> Prediction]
BY DEF Extend

(* predict_or_fallback gives a prediction, with or without a predictor.    *)
LEMMA PredictOrFallbackType == PredictOrFallback \subseteq Prediction
<1>1. Untrusted \in Prediction
  BY DEF Prediction, Untrusted
<1>2. [score : Scores, trusted : BOOLEAN] \subseteq Prediction
  BY DEF Prediction
<1> QED BY <1>1, <1>2 DEF PredictOrFallback

(* add_request: a new live request enters the waiting queue, wherever its  *)
(* arrival time places it, and has a prediction from then on.              *)
LEMMA AddRequestIInv ==
  ASSUME IInv, NEW r \in Requests, AddRequest(r)
  PROVE  IInv'
<1>1. PICK k \in 1..(Len(arrived) + 1) : arrived' = InsertAt(arrived, k, r)
  BY DEF AddRequest
<1>2. /\ arrived \in Seq(Requests) /\ IsInjective(arrived) /\ r \notin Range(arrived)
  BY DEF IInv, TypeOK, EachLiveRequestOnce, AddRequest, Live
<1>3. /\ arrived' \in Seq(Requests) /\ IsInjective(arrived')
      /\ Live' = Live \cup {r}
  BY <1>1, <1>2, InsertAtDistinct DEF Live
<1>4. /\ waiting' \in Seq(Requests) /\ IsInjective(waiting')
      /\ Range(waiting') = Range(waiting) \cup {r}
  <2> DEFINE one == <<r>>
  <2>1. /\ waiting \in Seq(Requests) /\ IsInjective(waiting) /\ r \notin Range(waiting)
    BY <1>2 DEF IInv, TypeOK, EachLiveRequestOnce, Live
  <2>2. one \in Seq(Requests) /\ IsInjective(one) /\ Range(one) = {r}
    BY SingletonDistinct
  <2>3. waiting' = waiting \o one
    BY <2>1, AppendIsConcat DEF AddRequest
  <2> HIDE DEF one
  <2>4. Range(waiting) \cap Range(one) = {}
    BY <2>1, <2>2
  <2>5. /\ waiting \o one \in Seq(Requests) /\ IsInjective(waiting \o one)
        /\ Range(waiting \o one) = Range(waiting) \cup Range(one)
    BY <2>1, <2>2, <2>4, ConcatDistinct
  <2> QED BY <2>2, <2>3, <2>5
<1>5. prompt' \in [Live' -> Prompts]
  <2>1. PICK m \in Prompts : prompt' = Extend(prompt, r, m)
    BY DEF AddRequest
  <2>2. prompt \in [Live -> Prompts]
    BY DEF IInv, TypeOK
  <2> QED BY <1>3, <2>1, <2>2 DEF Extend
<1>6. /\ DOMAIN predictions' \subseteq Requests
      /\ predictions' \in [DOMAIN predictions' -> Prediction]
      /\ DOMAIN predictions' = DOMAIN predictions \cup {r}
  <2>1. /\ DOMAIN predictions \subseteq Requests
        /\ predictions \in [DOMAIN predictions -> Prediction]
    BY DEF IInv, TypeOK
  <2>2. CASE r \in DOMAIN predictions
    BY <2>1, <2>2 DEF AddRequest
  <2>3. CASE r \notin DOMAIN predictions
    <3>1. PICK p \in Prediction : predictions' = Extend(predictions, r, p)
      BY <2>3, PredictOrFallbackType DEF AddRequest
    <3>2. predictions' \in [DOMAIN predictions \cup {r} -> Prediction]
      BY <2>1, <3>1, ExtendPredictions
    <3> QED BY <2>1, <3>2
  <2> QED BY <2>2, <2>3
<1>7. policy' = policy /\ running' = running
  BY DEF AddRequest
<1>8. TypeOK'
  BY <1>3, <1>4, <1>5, <1>6, <1>7 DEF IInv, TypeOK
<1>9. EachLiveRequestOnce'
  BY <1>2, <1>3, <1>4, <1>7 DEF IInv, EachLiveRequestOnce, Live
<1>10. (Live \subseteq DOMAIN predictions)'
  BY <1>3, <1>6 DEF IInv
<1> QED BY <1>8, <1>9, <1>10 DEF IInv

(* schedule() moves requests between the two queues, so only those matter.  *)
LEMMA MovingIInv ==
  ASSUME IInv, UNCHANGED <<policy, arrived, predictions, prompt>>,
         waiting' \in Seq(Requests), running' \in Seq(Requests),
         Len(running') <= Capacity,
         IsInjective(waiting'), IsInjective(running'),
         Range(waiting') \cap Range(running') = {},
         Range(waiting') \cup Range(running') = Range(waiting) \cup Range(running)
  PROVE  IInv'
<1>1. TypeOK'
  BY DEF IInv, TypeOK, Live
<1>2. EachLiveRequestOnce'
  BY DEF IInv, EachLiveRequestOnce, Live
<1> QED BY <1>1, <1>2 DEF IInv, Live

(* What reorder_request_queue puts back is what it took out.               *)
LEMMA ReorderedKeepsQueue ==
  ASSUME IInv, NEW w \in Reordered
  PROVE  /\ w \in Seq(Requests) /\ Len(w) = Len(waiting)
         /\ IsInjective(w) /\ Range(w) = Range(waiting)
<1>1. policy \in PolicyNames /\ waiting \in Seq(Requests)
  BY SchedulerAssumption DEF IInv, TypeOK
<1>2. PICK age \in Ages : w \in OrderWaitingRequests(policy, waiting, Contexts, age)
  BY DEF Reordered, Ordered
<1> QED BY <1>1, <1>2, PolicyRearranges

(* Reordering and admitting the head of the queue.                         *)
LEMMA ScheduleIInv ==
  ASSUME IInv, Schedule
  PROVE  IInv'
<1>1. PICK w \in Reordered : \E n \in Admissible(w) :
        /\ running' = running \o SubSeq(w, 1, n)
        /\ waiting' = SubSeq(w, n + 1, Len(w))
  BY DEF Schedule
<1>2. PICK n \in Admissible(w) :
        /\ running' = running \o SubSeq(w, 1, n)
        /\ waiting' = SubSeq(w, n + 1, Len(w))
  BY <1>1
<1>3. /\ w \in Seq(Requests) /\ IsInjective(w) /\ Range(w) = Range(waiting)
  BY ReorderedKeepsQueue
<1>4. /\ running \in Seq(Requests) /\ IsInjective(running)
      /\ Range(waiting) \cap Range(running) = {}
      /\ Len(running) <= Capacity
  BY DEF IInv, TypeOK, EachLiveRequestOnce
<1>5. n \in 0..Len(w) /\ Len(running) + n <= Capacity
  <2>1. Len(w) \in Nat /\ Len(running) \in Nat /\ Capacity \in Nat
    BY <1>3, <1>4, LenProperties, SchedulerAssumption
  <2> QED BY <2>1, <1>4 DEF Admissible
<1> DEFINE a == SubSeq(w, 1, n)
           b == SubSeq(w, n + 1, Len(w))
<1>6. /\ a \in Seq(Requests) /\ b \in Seq(Requests)
      /\ IsInjective(a) /\ IsInjective(b) /\ Len(a) = n
      /\ Range(a) \cap Range(b) = {} /\ Range(a) \cup Range(b) = Range(w)
  BY <1>3, <1>5, SplitDistinct
<1>7. running' = running \o a /\ waiting' = b
  BY <1>2
<1> HIDE DEF a, b
<1>8. Range(running) \cap Range(a) = {}
  BY <1>3, <1>4, <1>6
<1>9. /\ running \o a \in Seq(Requests) /\ IsInjective(running \o a)
      /\ Range(running \o a) = Range(running) \cup Range(a)
      /\ Len(running \o a) = Len(running) + Len(a)
  BY <1>4, <1>6, <1>8, ConcatDistinct
<1>10. Len(running') <= Capacity
  BY <1>5, <1>6, <1>7, <1>9
<1>11. /\ Range(waiting') \cap Range(running') = {}
       /\ Range(waiting') \cup Range(running') = Range(waiting) \cup Range(running)
  BY <1>3, <1>4, <1>6, <1>7, <1>9
<1>12. UNCHANGED <<policy, arrived, predictions, prompt>>
  BY DEF Schedule
<1>13. /\ waiting' \in Seq(Requests) /\ running' \in Seq(Requests)
       /\ IsInjective(waiting') /\ IsInjective(running')
  BY <1>6, <1>7, <1>9
<1> QED BY <1>10, <1>11, <1>12, <1>13, MovingIInv

(* Reordering and taking the newest running request back to the queue.     *)
LEMMA SchedulePreemptingIInv ==
  ASSUME IInv, SchedulePreempting
  PROVE  IInv'
<1> DEFINE last == running[Len(running)]
           rest == SubSeq(running, 1, Len(running) - 1)
           one == <<last>>
<1>1. PICK w \in Reordered : waiting' = one \o w /\ running' = rest
  BY DEF SchedulePreempting
<1>2. /\ w \in Seq(Requests) /\ IsInjective(w) /\ Range(w) = Range(waiting)
  BY ReorderedKeepsQueue
<1>3. /\ running \in Seq(Requests) /\ IsInjective(running)
      /\ Range(waiting) \cap Range(running) = {}
      /\ Len(running) <= Capacity
  BY DEF IInv, TypeOK, EachLiveRequestOnce
<1>4. Len(running) \in Nat /\ Len(running) > 1 /\ DOMAIN running = 1..Len(running)
  BY <1>3, LenProperties DEF SchedulePreempting
<1>5. /\ rest \in Seq(Requests) /\ IsInjective(rest) /\ Len(rest) = Len(running) - 1
      /\ last \in Range(running) /\ Range(rest) = Range(running) \ {last}
  BY <1>3, <1>4, FrontDistinct
<1>6. last \in Requests
  BY <1>3, <1>5, RangeOfSeq
<1>7. last \notin Range(rest) /\ Range(rest) \cup {last} = Range(running)
  BY <1>5
<1>8. one \in Seq(Requests) /\ IsInjective(one) /\ Range(one) = {last}
  BY <1>6, SingletonDistinct
<1> HIDE DEF rest, one, last
<1>9. Range(one) \cap Range(w) = {}
  BY <1>2, <1>3, <1>5, <1>8
<1>10. /\ one \o w \in Seq(Requests) /\ IsInjective(one \o w)
       /\ Range(one \o w) = Range(one) \cup Range(w)
  BY <1>2, <1>8, <1>9, ConcatDistinct
<1>11. /\ Range(waiting') \cap Range(running') = {}
       /\ Range(waiting') \cup Range(running') = Range(waiting) \cup Range(running)
  BY <1>1, <1>2, <1>3, <1>5, <1>7, <1>8, <1>10
<1>12. UNCHANGED <<policy, arrived, predictions, prompt>>
  BY DEF SchedulePreempting
<1>13. /\ waiting' \in Seq(Requests) /\ running' \in Seq(Requests)
       /\ IsInjective(waiting') /\ IsInjective(running')
  BY <1>1, <1>5, <1>10
<1>14. Len(running') <= Capacity
  BY <1>1, <1>3, <1>4, <1>5, SchedulerAssumption
<1> QED BY <1>11, <1>12, <1>13, <1>14, MovingIInv

(* A request that ends leaves the one queue it is in, and the live requests. *)
LEMMA LeavingIInv ==
  ASSUME IInv, NEW r \in Requests, Forget(r),
         waiting' \in Seq(Requests), running' \in Seq(Requests),
         Len(running') <= Capacity,
         IsInjective(waiting'), IsInjective(running'),
         Range(waiting') \subseteq Range(waiting),
         Range(running') \subseteq Range(running),
         Range(waiting') \cup Range(running') = (Range(waiting) \cup Range(running)) \ {r}
  PROVE  IInv'
<1>1. PICK k \in DOMAIN arrived : arrived[k] = r /\ arrived' = RemoveAt(arrived, k)
  BY DEF Forget
<1>2. /\ arrived \in Seq(Requests) /\ IsInjective(arrived) /\ k \in 1..Len(arrived)
  BY LenProperties DEF IInv, TypeOK, EachLiveRequestOnce
<1>3. arrived' \in Seq(Requests) /\ IsInjective(arrived') /\ Live' = Live \ {r}
  BY <1>1, <1>2, RemoveAtDistinct DEF Live
<1>4. prompt' \in [Live' -> Prompts]
  <2>1. prompt \in [Live -> Prompts]
    BY DEF IInv, TypeOK
  <2> QED BY <1>3, <2>1 DEF Forget
<1>5. UNCHANGED <<policy, predictions>>
  BY DEF Forget
<1>6. TypeOK'
  BY <1>3, <1>4, <1>5 DEF IInv, TypeOK
<1>7. EachLiveRequestOnce'
  BY <1>3 DEF IInv, EachLiveRequestOnce
<1>8. (Live \subseteq DOMAIN predictions)'
  BY <1>3, <1>5 DEF IInv
<1> QED BY <1>6, <1>7, <1>8 DEF IInv

(* A request that completes.                                               *)
LEMMA FinishIInv ==
  ASSUME IInv, NEW r \in Requests, Finish(r)
  PROVE  IInv'
<1>1. PICK i \in DOMAIN running : running[i] = r /\ running' = RemoveAt(running, i)
  BY DEF Finish
<1>2. /\ running \in Seq(Requests) /\ IsInjective(running) /\ Len(running) <= Capacity
      /\ waiting \in Seq(Requests) /\ IsInjective(waiting)
      /\ Range(waiting) \cap Range(running) = {}
  BY DEF IInv, TypeOK, EachLiveRequestOnce
<1>3. i \in 1..Len(running) /\ Len(running) \in Nat /\ r \in Range(running)
  BY <1>1, <1>2, LenProperties DEF Range
<1>4. /\ running' \in Seq(Requests) /\ IsInjective(running')
      /\ Range(running') = Range(running) \ {r}
      /\ Len(running') = Len(running) - 1
  BY <1>1, <1>2, <1>3, RemoveAtDistinct
<1>5. waiting' = waiting /\ Forget(r)
  BY DEF Finish
<1>6. Len(running') <= Capacity
  BY <1>2, <1>3, <1>4, SchedulerAssumption
<1>7. /\ Range(waiting') \subseteq Range(waiting)
      /\ Range(running') \subseteq Range(running)
      /\ Range(waiting') \cup Range(running') = (Range(waiting) \cup Range(running)) \ {r}
  BY <1>2, <1>3, <1>4, <1>5
<1> QED BY <1>2, <1>4, <1>5, <1>6, <1>7, LeavingIInv

(* A waiting request whose client goes away.                               *)
LEMMA AbortIInv ==
  ASSUME IInv, NEW r \in Requests, Abort(r)
  PROVE  IInv'
<1>1. PICK i \in DOMAIN waiting : waiting[i] = r /\ waiting' = RemoveAt(waiting, i)
  BY DEF Abort
<1>2. /\ waiting \in Seq(Requests) /\ IsInjective(waiting)
      /\ running \in Seq(Requests) /\ IsInjective(running) /\ Len(running) <= Capacity
      /\ Range(waiting) \cap Range(running) = {}
  BY DEF IInv, TypeOK, EachLiveRequestOnce
<1>3. i \in 1..Len(waiting) /\ r \in Range(waiting)
  BY <1>1, <1>2, LenProperties DEF Range
<1>4. /\ waiting' \in Seq(Requests) /\ IsInjective(waiting')
      /\ Range(waiting') = Range(waiting) \ {r}
  BY <1>1, <1>2, <1>3, RemoveAtDistinct
<1>5. running' = running /\ Forget(r)
  BY DEF Abort
<1>6. /\ Range(waiting') \subseteq Range(waiting)
      /\ Range(running') \subseteq Range(running)
      /\ Range(waiting') \cup Range(running') = (Range(waiting) \cup Range(running)) \ {r}
  BY <1>2, <1>3, <1>4, <1>5
<1> QED BY <1>2, <1>4, <1>5, <1>6, LeavingIInv

(* Every step of the scheduler keeps the invariant.                        *)
LEMMA NextIInv ==
  ASSUME IInv, [Next]_vars
  PROVE  IInv'
<1>1. ASSUME NEW r \in Requests, AddRequest(r) PROVE IInv'
  BY <1>1, AddRequestIInv
<1>2. ASSUME NEW r \in Requests, Finish(r) PROVE IInv'
  BY <1>2, FinishIInv
<1>3. ASSUME NEW r \in Requests, Abort(r) PROVE IInv'
  BY <1>3, AbortIInv
<1>4. CASE Schedule
  BY <1>4, ScheduleIInv
<1>5. CASE SchedulePreempting
  BY <1>5, SchedulePreemptingIInv
<1>6. CASE UNCHANGED vars
  <2>1. UNCHANGED <<policy, waiting, running, arrived, predictions, prompt>>
    BY <1>6 DEF vars
  <2> QED BY <2>1 DEF IInv, TypeOK, EachLiveRequestOnce, Live
<1> QED BY <1>1, <1>2, <1>3, <1>4, <1>5, <1>6 DEF Next

(* The scheduler's state is well typed, and the batch never exceeds         *)
(* max_num_seqs however reordering, preemption and aborts interleave.       *)
THEOREM SchedulerTypes == Spec => []TypeOK
<1>1. IInv => TypeOK
  BY DEF IInv
<1> QED BY <1>1, InitIInv, NextIInv, PTL DEF Spec

(* reorder_request_queue, admission, preemption, completion and abort never *)
(* lose or duplicate a request.                                            *)
THEOREM NoRequestLost == Spec => []EachLiveRequestOnce
<1>1. IInv => EachLiveRequestOnce
  BY DEF IInv
<1> QED BY <1>1, InitIInv, NextIInv, PTL DEF Spec

(* The lookup predictions[request_id] of schedule() never fails, also for   *)
(* the requests that preemption put back into the queue.                    *)
THEOREM LookupNeverFails == Spec => []EveryQueuedRequestIsPredicted
<1>1. IInv => EveryQueuedRequestIsPredicted
  BY DEF IInv, EachLiveRequestOnce, EveryQueuedRequestIsPredicted
<1> QED BY <1>1, InitIInv, NextIInv, PTL DEF Spec

-----------------------------------------------------------------------------
(* The first k elements of a queue are k.                                  *)
LEMMA PrefixCardinality ==
  ASSUME NEW S, NEW q \in Seq(S), IsInjective(q), NEW k \in 0..Len(q)
  PROVE  /\ IsFiniteSet({q[i] : i \in 1..k})
         /\ Cardinality({q[i] : i \in 1..k}) = k
<1> DEFINE P == {q[i] : i \in 1..k}
           f == [i \in 1..k |-> q[i]]
<1>1. Len(q) \in Nat /\ DOMAIN q = 1..Len(q) /\ k \in Nat /\ 1..k \subseteq 1..Len(q)
  BY LenProperties
<1>2. f \in [1..k -> P]
  OBVIOUS
<1>3. \A i, j \in 1..k : f[i] = f[j] => i = j
  BY <1>1 DEF IsInjective
<1>4. \A e \in P : \E i \in 1..k : f[i] = e
  OBVIOUS
<1> HIDE DEF P, f
<1>5. f \in Bijection(1..k, P)
  BY <1>2, <1>3, <1>4 DEF Bijection, Injection, Surjection, IsInjective
<1>6. ExistsBijection(1..k, P)
  BY <1>5 DEF ExistsBijection
<1>7. IsFiniteSet(1..k) /\ Cardinality(1..k) = k
  BY <1>1, FS_Interval
<1> QED BY <1>6, <1>7, FS_Bijection DEF P

(* Only schedule() admits, and it admits the head of the reordered queue.   *)
LEMMA OnlyScheduleAdmits ==
  ASSUME IInv, Next, ~Schedule
  PROVE  Admitted = {}
<1>1. running \in Seq(Requests) /\ IsInjective(running)
  BY DEF IInv, TypeOK, EachLiveRequestOnce
<1>2. CASE UNCHANGED running
  BY <1>2 DEF Admitted
<1>3. ASSUME NEW r \in Requests, Finish(r)  PROVE Admitted = {}
  <2>1. PICK i \in DOMAIN running : running' = RemoveAt(running, i)
    BY <1>3 DEF Finish
  <2>2. DOMAIN running = 1..Len(running)
    BY <1>1, LenProperties
  <2>3. Range(running') = Range(running) \ {running[i]}
    BY <1>1, <2>1, <2>2, RemoveAtDistinct
  <2> QED BY <2>3 DEF Admitted
<1>4. CASE SchedulePreempting
  <2>1. Len(running) > 1 /\ running' = SubSeq(running, 1, Len(running) - 1)
    BY <1>4 DEF SchedulePreempting
  <2>2. Len(running) \in Nat
    BY <1>1, LenProperties
  <2>3. Len(running) - 1 \in 0..Len(running)
    BY <2>1, <2>2
  <2>4. Range(SubSeq(running, 1, Len(running) - 1)) \subseteq Range(running)
    BY <1>1, <2>3, SplitDistinct
  <2> QED BY <2>1, <2>4 DEF Admitted
<1> QED BY <1>2, <1>3, <1>4 DEF Next, AddRequest, Abort

(* What is admitted and what is left are the two parts of that queue.      *)
LEMMA HeadIsAdmitted ==
  ASSUME IInv, Schedule
  PROVE  \E w \in Reordered, n \in Nat :
           /\ n \in 0..Len(w)
           /\ w \in Seq(Requests) /\ IsInjective(w) /\ Range(w) = Range(waiting)
           /\ Admitted = {w[i] : i \in 1..n}
           /\ LeftBehind = {w[i] : i \in n + 1..Len(w)}
<1>1. PICK w \in Reordered : \E n \in Admissible(w) :
        /\ running' = running \o SubSeq(w, 1, n)
        /\ waiting' = SubSeq(w, n + 1, Len(w))
  BY DEF Schedule
<1>2. PICK n \in Admissible(w) :
        /\ running' = running \o SubSeq(w, 1, n)
        /\ waiting' = SubSeq(w, n + 1, Len(w))
  BY <1>1
<1>3. /\ w \in Seq(Requests) /\ IsInjective(w) /\ Range(w) = Range(waiting)
  BY ReorderedKeepsQueue
<1>4. /\ running \in Seq(Requests) /\ IsInjective(running)
      /\ Range(waiting) \cap Range(running) = {}
      /\ Len(running) <= Capacity
  BY DEF IInv, TypeOK, EachLiveRequestOnce
<1>5. n \in 0..Len(w)
  <2>1. Len(w) \in Nat /\ Len(running) \in Nat /\ Capacity \in Nat
    BY <1>3, <1>4, LenProperties, SchedulerAssumption
  <2> QED BY <2>1, <1>4 DEF Admissible
<1> DEFINE a == SubSeq(w, 1, n)
           b == SubSeq(w, n + 1, Len(w))
<1>6. Len(w) \in Nat /\ DOMAIN w = 1..Len(w)
  BY <1>3, LenProperties
<1>7. /\ a \in Seq(Requests) /\ IsInjective(a) /\ Range(a) = {w[i] : i \in 1..n}
  <2>1. 1 \in 1..Len(w) + 1 /\ 1 <= n + 1
    BY <1>5, <1>6
  <2> QED BY <1>3, <1>5, <2>1, SliceDistinct
<1>8. Range(b) = {w[i] : i \in n + 1..Len(w)}
  <2>1. n + 1 \in 1..Len(w) + 1 /\ Len(w) \in 0..Len(w) /\ n + 1 <= Len(w) + 1
    BY <1>5, <1>6
  <2> QED BY <1>3, <2>1, SliceDistinct
<1>9. Range(a) \subseteq Range(waiting) /\ Range(b) \subseteq Range(waiting)
  BY <1>3, <1>5, SplitDistinct
<1>10. running' = running \o a /\ waiting' = b
  BY <1>2
<1> HIDE DEF a, b
<1>11. Range(running \o a) = Range(running) \cup Range(a)
  BY <1>4, <1>7, <1>9, ConcatDistinct
<1>12. Admitted = Range(a)
  BY <1>4, <1>9, <1>10, <1>11 DEF Admitted
<1>13. LeftBehind = Range(b)
  BY <1>9, <1>10 DEF LeftBehind
<1> QED BY <1>3, <1>5, <1>6, <1>7, <1>8, <1>12, <1>13

-----------------------------------------------------------------------------
(* The order the policies leave the queue in                               *)

(* A sorted queue has its elements, in ascending order. *)
LEMMA SortedIsAscending ==
  ASSUME NEW q, NEW before, NEW w \in SortedBy(q, before)
  PROVE  /\ w \in Rearrangements(q) /\ DOMAIN w = DOMAIN q
         /\ \A i, j \in DOMAIN q : i < j => <<w[i], w[j]>> \in before
BY DEF SortedBy, Rearrangements

(* The queue that each policy leaves.                                      *)
LEMMA ReorderedByPolicy ==
  ASSUME IInv, NEW w \in Reordered
  PROVE  /\ policy = "gated_rule_c" => w \in SlotPreservingRuleC(waiting, Contexts)
         /\ policy = "prompt_sjf" => w \in PromptSjf(waiting, Contexts)
         /\ policy = "pure_ltr" => w \in SortedBy(waiting, ScoreOrder(Contexts))
         /\ policy = "policy_fcfs" => w \in SortedBy(waiting, ArrivalOrder(Contexts))
         /\ policy \in DiscountingPolicies =>
              \E age \in Ages : w \in DiscountedBy(policy, waiting, Contexts, age)
<1>1. policy \in PolicyNames
  BY SchedulerAssumption DEF IInv, TypeOK
<1>2. PICK age \in Ages : w \in OrderWaitingRequests(policy, waiting, Contexts, age)
  BY DEF Reordered, Ordered
<1> QED BY <1>1, <1>2, EachPolicySorts

(* Rule C's queue is made of the queue in arrival order and of its trusted  *)
(* requests sorted by score.                                               *)
LEMMA RuleCParts ==
  ASSUME IInv, policy = "gated_rule_c", NEW w \in Reordered
  PROVE  \E fcfs \in SortedBy(waiting, ArrivalOrder(Contexts)) :
           LET T == TrustedSlots(fcfs, Contexts)
           IN  \E resorted \in SortedBy(Restrict(fcfs, T), ScoreOrder(Contexts)) :
                  w = [i \in DOMAIN fcfs |-> IF i \in T THEN resorted[i] ELSE fcfs[i]]
<1>1. w \in SlotPreservingRuleC(waiting, Contexts)
  BY ReorderedByPolicy
<1> QED BY <1>1 DEF SlotPreservingRuleC

(* What the policies know of a waiting request. *)
LEMMA ContextOf ==
  ASSUME NEW r \in Range(waiting)
  PROVE  /\ r \in DOMAIN Contexts
         /\ Contexts[r].rank = RankOf(r)
         /\ Contexts[r].score = predictions[r].score
         /\ Contexts[r].trusted = predictions[r].trusted
         /\ Contexts[r].tokens = prompt[r].tokens
BY DEF Contexts

(* The place of a request by age among the waiting ones. *)
LEMMA RankIsNatural ==
  ASSUME IInv, NEW r \in Range(waiting)
  PROVE  RankOf(r) \in Nat
<1>1. r \in Range(arrived)
  BY DEF IInv, EachLiveRequestOnce, Live
<1>2. \E k \in DOMAIN arrived : arrived[k] = r
  BY <1>1 DEF Range
<1>3. RankOf(r) \in DOMAIN arrived
  BY <1>2 DEF RankOf
<1>4. DOMAIN arrived = 1..Len(arrived) /\ Len(arrived) \in Nat
  BY LenProperties DEF IInv, TypeOK
<1> QED BY <1>3, <1>4

(* In arrival order, the requests before a slot are the older ones.         *)
LEMMA OlderAreBefore ==
  ASSUME IInv, NEW fcfs \in SortedBy(waiting, ArrivalOrder(Contexts)),
         NEW i \in DOMAIN fcfs
  PROVE  OlderWaiting(fcfs[i]) = {fcfs[j] : j \in 1..(i - 1)}
<1>1. waiting \in Seq(Requests)
  BY DEF IInv, TypeOK
<1>2. /\ fcfs \in Seq(Requests) /\ Len(fcfs) = Len(waiting)
      /\ IsInjective(fcfs) /\ Range(fcfs) = Range(waiting)
  BY <1>1, SortedIsAscending, RearrangementIsQueue
<1>3. DOMAIN fcfs = 1..Len(fcfs) /\ Len(fcfs) \in Nat /\ DOMAIN waiting = DOMAIN fcfs
  BY <1>1, <1>2, LenProperties
<1>4. ASSUME NEW j \in DOMAIN fcfs, NEW k \in DOMAIN fcfs, j < k
      PROVE  RankOf(fcfs[j]) < RankOf(fcfs[k])
  <2>1. <<fcfs[j], fcfs[k]>> \in ArrivalOrder(Contexts)
    BY <1>3, <1>4, SortedIsAscending
  <2>2. Contexts[fcfs[j]].rank < Contexts[fcfs[k]].rank
    BY <2>1 DEF ArrivalOrder
  <2>3. fcfs[j] \in Range(waiting) /\ fcfs[k] \in Range(waiting)
    BY <1>2 DEF Range
  <2> QED BY <2>2, <2>3, ContextOf
<1>5. ASSUME NEW j \in 1..(i - 1)  PROVE fcfs[j] \in OlderWaiting(fcfs[i])
  <2>1. j \in DOMAIN fcfs /\ j < i
    BY <1>3
  <2>2. fcfs[j] \in Range(waiting)
    BY <1>2, <2>1 DEF Range
  <2> QED BY <1>4, <2>1, <2>2 DEF OlderWaiting
<1>6. ASSUME NEW b \in OlderWaiting(fcfs[i])  PROVE b \in {fcfs[j] : j \in 1..(i - 1)}
  <2>1. b \in Range(waiting) /\ RankOf(b) < RankOf(fcfs[i])
    BY <1>6 DEF OlderWaiting
  <2>2. PICK j \in DOMAIN fcfs : fcfs[j] = b
    BY <1>2, <2>1 DEF Range
  <2>3. fcfs[i] \in Range(waiting)
    BY <1>2 DEF Range
  <2>4. RankOf(b) \in Nat /\ RankOf(fcfs[i]) \in Nat
    BY <2>1, <2>3, RankIsNatural
  <2>5. ~(i < j) /\ i # j
    BY <1>4, <2>1, <2>2, <2>4
  <2>6. j \in 1..(i - 1)
    BY <1>3, <2>5
  <2> QED BY <2>2, <2>6
<1> QED BY <1>5, <1>6

-----------------------------------------------------------------------------
(* Rule C leaves an abstained request in its slot, and that slot counts the *)
(* older requests: it is among the n admitted ones when fewer are older.    *)
LEMMA AbstainedInScheduleStep ==
  ASSUME IInv, Schedule, policy = "gated_rule_c",
         NEW a \in Range(waiting), ~predictions[a].trusted
  PROVE  a \in Admitted <=> Cardinality(OlderWaiting(a)) < Cardinality(Admitted)
<1>1. PICK w \in Reordered, n \in Nat :
        /\ n \in 0..Len(w)
        /\ w \in Seq(Requests) /\ IsInjective(w) /\ Range(w) = Range(waiting)
        /\ Admitted = {w[i] : i \in 1..n}
  BY HeadIsAdmitted
<1>2. PICK fcfs \in SortedBy(waiting, ArrivalOrder(Contexts)) :
        LET T == TrustedSlots(fcfs, Contexts)
        IN  \E resorted \in SortedBy(Restrict(fcfs, T), ScoreOrder(Contexts)) :
               w = [i \in DOMAIN fcfs |-> IF i \in T THEN resorted[i] ELSE fcfs[i]]
  BY RuleCParts
<1> DEFINE T == TrustedSlots(fcfs, Contexts)
<1>3. \A i \in DOMAIN fcfs \ T : w[i] = fcfs[i]
  BY <1>2
<1>4. /\ fcfs \in Seq(Requests) /\ Len(fcfs) = Len(waiting)
      /\ IsInjective(fcfs) /\ Range(fcfs) = Range(waiting)
  BY SortedIsAscending, RearrangementIsQueue DEF IInv, TypeOK
<1>5. DOMAIN w = DOMAIN fcfs
  BY <1>2
<1>6. /\ DOMAIN fcfs = 1..Len(fcfs) /\ Len(fcfs) \in Nat
      /\ DOMAIN w = 1..Len(w) /\ Len(w) \in Nat
  BY <1>1, <1>4, LenProperties
<1>7. PICK i \in DOMAIN fcfs : fcfs[i] = a
  BY <1>4 DEF Range
<1>8. i \notin T
  BY <1>7, ContextOf DEF TrustedSlots
<1>9. w[i] = a
  BY <1>3, <1>7, <1>8
<1>10. a \in Admitted <=> i <= n
  <2>1. ASSUME i <= n  PROVE a \in Admitted
    <3>1. i \in 1..n
      BY <1>6, <2>1
    <3> QED BY <1>1, <1>9, <3>1
  <2>2. ASSUME a \in Admitted  PROVE i <= n
    <3>1. PICK j \in 1..n : w[j] = a
      BY <1>1, <2>2
    <3>2. j \in DOMAIN w /\ i \in DOMAIN w
      BY <1>1, <1>5, <1>6, <3>1
    <3>3. i = j
      BY <1>1, <1>9, <3>1, <3>2 DEF IsInjective
    <3> QED BY <3>1, <3>3
  <2> QED BY <2>1, <2>2
<1>11. Cardinality(Admitted) = n
  BY <1>1, PrefixCardinality
<1>12. Cardinality(OlderWaiting(a)) = i - 1
  <2>1. OlderWaiting(a) = {fcfs[j] : j \in 1..(i - 1)}
    BY <1>7, OlderAreBefore
  <2>2. i - 1 \in 0..Len(fcfs)
    BY <1>6
  <2>3. Cardinality({fcfs[j] : j \in 1..(i - 1)}) = i - 1
    BY <1>4, <2>2, PrefixCardinality
  <2> QED BY <2>1, <2>3
<1>13. i - 1 < n <=> i <= n
  BY <1>6
<1> QED BY <1>10, <1>11, <1>12, <1>13

(* A step that admits nothing admits no abstained request out of turn.      *)
LEMMA AbstainedInStep ==
  ASSUME IInv, Next, policy = "gated_rule_c",
         NEW a \in Range(waiting), ~predictions[a].trusted
  PROVE  a \in Admitted <=> Cardinality(OlderWaiting(a)) < Cardinality(Admitted)
<1>1. CASE Schedule
  BY <1>1, AbstainedInScheduleStep
<1>2. CASE ~Schedule
  <2>1. Admitted = {} /\ Cardinality(Admitted) = 0
    BY <1>2, OnlyScheduleAdmits, FS_EmptySet
  <2>2. IsFiniteSet(Range(waiting))
    <3>1. waiting \in Seq(Requests) /\ IsInjective(waiting)
      BY DEF IInv, TypeOK, EachLiveRequestOnce
    <3>2. DOMAIN waiting = 1..Len(waiting) /\ Len(waiting) \in 0..Len(waiting)
      BY <3>1, LenProperties
    <3>3. Range(waiting) = {waiting[i] : i \in 1..Len(waiting)}
      BY <3>2 DEF Range
    <3> QED BY <3>1, <3>2, <3>3, PrefixCardinality
  <2>3. OlderWaiting(a) \subseteq Range(waiting)
    BY DEF OlderWaiting
  <2>4. Cardinality(OlderWaiting(a)) \in Nat
    BY <2>2, <2>3, FS_Subset, FS_CardinalityType
  <2>5. ~(Cardinality(OlderWaiting(a)) < 0)
    BY <2>4
  <2> QED BY <2>1, <2>5
<1> QED BY <1>1, <1>2

(* Rule C: whatever the scores of the trusted requests around it, an        *)
(* abstained request is admitted exactly when arrival order would admit it. *)
THEOREM RuleCKeepsPlaces == Spec => AbstainedKeepsItsPlace
<1>1. IInv /\ [Next]_vars =>
        [policy = "gated_rule_c" =>
          \A a \in Range(waiting) :
            ~predictions[a].trusted =>
                (a \in Admitted <=>
                    Cardinality(OlderWaiting(a)) < Cardinality(Admitted))]_vars
  BY AbstainedInStep
<1>2. Spec => []IInv
  BY InitIInv, NextIInv, PTL DEF Spec
<1> QED BY <1>1, <1>2, PTL DEF Spec, AbstainedKeepsItsPlace

-----------------------------------------------------------------------------
(* Under the policies that use scores, an earlier slot of two that are      *)
(* ranked by score has the shorter request.                                *)
LEMMA EarlierIsShorter ==
  ASSUME IInv, NEW w \in Reordered,
         NEW i \in DOMAIN w, NEW j \in DOMAIN w, i < j,
         w[i] \in Range(waiting), w[j] \in Range(waiting),
         Ranked(w[i]), Ranked(w[j])
  PROVE  Shorter(w[i], w[j])
<1>1. SUFFICES <<w[i], w[j]>> \in ScoreOrder(Contexts)
  <2>1. \/ Contexts[w[i]].score < Contexts[w[j]].score
        \/ Contexts[w[i]].score = Contexts[w[j]].score
           /\ Contexts[w[i]].rank < Contexts[w[j]].rank
    BY <1>1 DEF ScoreOrder, ArrivalOrder
  <2> QED BY <2>1, ContextOf DEF Shorter
<1>2. CASE policy = "pure_ltr"
  <2>1. w \in SortedBy(waiting, ScoreOrder(Contexts))
    BY <1>2, ReorderedByPolicy
  <2> QED BY <2>1, SortedIsAscending
<1>3. CASE policy = "gated_rule_c" /\ predictions[w[i]].trusted /\ predictions[w[j]].trusted
  <2>1. PICK fcfs \in SortedBy(waiting, ArrivalOrder(Contexts)) :
          LET T == TrustedSlots(fcfs, Contexts)
          IN  \E resorted \in SortedBy(Restrict(fcfs, T), ScoreOrder(Contexts)) :
                 w = [k \in DOMAIN fcfs |-> IF k \in T THEN resorted[k] ELSE fcfs[k]]
    BY <1>3, RuleCParts
  <2> DEFINE T == TrustedSlots(fcfs, Contexts)
  <2>2. PICK resorted \in SortedBy(Restrict(fcfs, T), ScoreOrder(Contexts)) :
          w = [k \in DOMAIN fcfs |-> IF k \in T THEN resorted[k] ELSE fcfs[k]]
    BY <2>1
  <2>3. \A k \in DOMAIN fcfs : k \in T <=> Contexts[fcfs[k]].trusted
    BY DEF TrustedSlots
  <2>4. Contexts[w[i]].trusted /\ Contexts[w[j]].trusted
    BY <1>3, ContextOf
  <2>5. i \in T /\ j \in T
    BY <2>2, <2>3, <2>4
  <2>6. w[i] = resorted[i] /\ w[j] = resorted[j]
    BY <2>2, <2>5
  <2>7. DOMAIN Restrict(fcfs, T) = T
    BY DEF Restrict
  <2> QED BY <2>5, <2>6, <2>7, SortedIsAscending
<1> QED BY <1>2, <1>3 DEF Ranked

(* Between requests ranked by score, the shorter prediction is admitted     *)
(* first, ties by age.                                                     *)
LEMMA AdmittedIsShorter ==
  ASSUME IInv, Next, NEW t \in Admitted, NEW u \in LeftBehind, Ranked(t), Ranked(u)
  PROVE  Shorter(t, u)
<1>1. Schedule
  BY OnlyScheduleAdmits
<1>2. PICK w \in Reordered, n \in Nat :
        /\ n \in 0..Len(w)
        /\ w \in Seq(Requests) /\ IsInjective(w) /\ Range(w) = Range(waiting)
        /\ Admitted = {w[i] : i \in 1..n}
        /\ LeftBehind = {w[i] : i \in n + 1..Len(w)}
  BY <1>1, HeadIsAdmitted
<1>3. PICK i \in 1..n : t = w[i]
  BY <1>2
<1>4. PICK j \in n + 1..Len(w) : u = w[j]
  BY <1>2
<1>5. DOMAIN w = 1..Len(w) /\ Len(w) \in Nat
  BY <1>2, LenProperties
<1>6. i \in DOMAIN w /\ j \in DOMAIN w /\ i < j
  BY <1>5
<1>7. w[i] \in Range(waiting) /\ w[j] \in Range(waiting)
  BY <1>2, <1>6 DEF Range
<1> QED BY <1>3, <1>4, <1>6, <1>7, EarlierIsShorter

(* What a discounting policy weighs is a natural number.                   *)
LEMMA CostIsNatural ==
  ASSUME IInv, NEW r \in Range(waiting)
  PROVE  CostOf(r) \in Nat
<1> DEFINE c == Contexts[r]
<1>1. r \in Live
  BY DEF IInv, EachLiveRequestOnce
<1>2. predictions[r] \in Prediction
  BY <1>1 DEF IInv, TypeOK
<1>3. c.score \in Nat
  BY <1>2, ContextOf, SchedulerAssumption DEF Prediction
<1>4. c.kind \in Kinds
  BY <1>1, SchedulerAssumption DEF IInv, TypeOK, Contexts
<1> HIDE DEF c
<1>5. CategoryCost[c.kind] \in Nat /\ TailRisk[c.kind] \in Nat
  BY <1>4 DEF Kinds, CategoryCost, TailRisk
<1>6. TailSafeCost(c) \in Nat /\ LtrCost(c) \in Nat
  BY <1>3, <1>5 DEF TailSafeCost, LtrCost
<1>7. Cost(policy, c, Len(waiting)) \in Nat
  BY <1>6 DEF Cost, GatedCost
<1> QED BY <1>7 DEF CostOf, c

(* No two waiting requests have the same place by age.                     *)
LEMMA RanksDiffer ==
  ASSUME IInv, NEW r \in Range(waiting), NEW s \in Range(waiting), r # s
  PROVE  RankOf(r) # RankOf(s)
<1>1. r \in Range(arrived) /\ s \in Range(arrived)
  BY DEF IInv, EachLiveRequestOnce, Live
<1>2. arrived[RankOf(r)] = r
  <2>1. \E k \in DOMAIN arrived : arrived[k] = r
    BY <1>1 DEF Range
  <2> QED BY <2>1 DEF RankOf
<1>3. arrived[RankOf(s)] = s
  <2>1. \E k \in DOMAIN arrived : arrived[k] = s
    BY <1>1 DEF Range
  <2> QED BY <2>1 DEF RankOf
<1> QED BY <1>2, <1>3

(* An earlier slot has the older of two requests, or the cheaper one: a     *)
(* request that is younger and no cheaper has the larger quotient.          *)
LEMMA EarlierIsOlderOrCheaper ==
  ASSUME IInv, policy \in DiscountingPolicies, NEW w \in Reordered, IsInjective(w),
         NEW i \in DOMAIN w, NEW j \in DOMAIN w, i < j,
         w[i] \in Range(waiting), w[j] \in Range(waiting)
  PROVE  OlderOrCheaper(w[i], w[j])
<1>1. PICK age \in Ages : w \in DiscountedBy(policy, waiting, Contexts, age)
  BY ReorderedByPolicy
<1> DEFINE cost == [r \in DOMAIN Contexts |-> Cost(policy, Contexts[r], Len(waiting))]
           t == w[i]
           u == w[j]
<1>2. t \in Range(waiting) /\ u \in Range(waiting) /\ t # u
  <2>1. w \in Seq(Requests)
    BY ReorderedKeepsQueue
  <2>2. i \in Nat /\ j \in Nat
    BY <2>1, LenProperties
  <2>3. i # j
    BY <2>2
  <2> QED BY <2>3 DEF IsInjective
<1>3. cost[t] = CostOf(t) /\ cost[u] = CostOf(u)
  BY <1>2, ContextOf DEF CostOf
<1>4. <<t, u>> \in DiscountedOrder(cost, Contexts, age)
  <2>1. w \in SortedBy(waiting, DiscountedOrder(cost, Contexts, age))
    BY <1>1 DEF DiscountedBy
  <2> HIDE DEF cost
  <2>2. i \in DOMAIN waiting /\ j \in DOMAIN waiting
    BY <2>1, SortedIsAscending
  <2> QED BY <2>1, <2>2, SortedIsAscending
<1> HIDE DEF cost, t, u
<1>5. \/ CostOf(t) * (Deadline + age[u]) < CostOf(u) * (Deadline + age[t])
      \/ /\ CostOf(t) * (Deadline + age[u]) = CostOf(u) * (Deadline + age[t])
         /\ Contexts[t].rank < Contexts[u].rank
  BY <1>3, <1>4 DEF DiscountedOrder, ArrivalOrder
<1>6. SUFFICES ASSUME ~(RankOf(t) < RankOf(u)), ~(CostOf(t) < CostOf(u))
               PROVE  FALSE
  BY DEF OlderOrCheaper, t, u
<1>7. /\ RankOf(t) \in Nat /\ RankOf(u) \in Nat /\ RankOf(t) # RankOf(u)
      /\ CostOf(t) \in Nat /\ CostOf(u) \in Nat
  BY <1>2, RankIsNatural, RanksDiffer, CostIsNatural
<1>8. RankOf(u) < RankOf(t) /\ CostOf(u) <= CostOf(t)
  BY <1>6, <1>7
<1>9. age[t] <= age[u] /\ age[t] \in Nat /\ age[u] \in Nat
  <2>1. /\ age \in [Range(waiting) -> 0..MaxAge]
        /\ \A r, s \in Range(waiting) : RankOf(r) < RankOf(s) => age[s] <= age[r]
    BY DEF Ages
  <2> QED BY <1>2, <1>8, <2>1, SchedulerAssumption
<1>10. /\ Deadline + age[t] \in Nat /\ Deadline + age[u] \in Nat
       /\ Deadline + age[t] <= Deadline + age[u]
  BY <1>9, DeadlineAssumption
<1>11. CostOf(u) * (Deadline + age[t]) <= CostOf(t) * (Deadline + age[u])
  BY <1>7, <1>8, <1>10, ProductIsMonotonic
<1>12. /\ CostOf(u) * (Deadline + age[t]) \in Nat
       /\ CostOf(t) * (Deadline + age[u]) \in Nat
  BY <1>7, <1>10
<1>13. Contexts[t].rank < Contexts[u].rank
  BY <1>5, <1>11, <1>12
<1> QED BY <1>2, <1>7, <1>8, <1>13, ContextOf

(* So is what a discounting policy admits, against what it leaves waiting.  *)
LEMMA AdmittedIsOlderOrCheaper ==
  ASSUME IInv, Next, NEW t \in Admitted, NEW u \in LeftBehind,
         policy \in DiscountingPolicies
  PROVE  OlderOrCheaper(t, u)
<1>1. Schedule
  BY OnlyScheduleAdmits
<1>2. PICK w \in Reordered, n \in Nat :
        /\ n \in 0..Len(w)
        /\ w \in Seq(Requests) /\ IsInjective(w) /\ Range(w) = Range(waiting)
        /\ Admitted = {w[i] : i \in 1..n}
        /\ LeftBehind = {w[i] : i \in n + 1..Len(w)}
  BY <1>1, HeadIsAdmitted
<1>3. PICK i \in 1..n : t = w[i]
  BY <1>2
<1>4. PICK j \in n + 1..Len(w) : u = w[j]
  BY <1>2
<1>5. DOMAIN w = 1..Len(w) /\ Len(w) \in Nat
  BY <1>2, LenProperties
<1>6. i \in DOMAIN w /\ j \in DOMAIN w /\ i < j
  BY <1>5
<1>7. w[i] \in Range(waiting) /\ w[j] \in Range(waiting)
  BY <1>2, <1>6 DEF Range
<1> QED BY <1>2, <1>3, <1>4, <1>6, <1>7, EarlierIsOlderOrCheaper

(* Predicted lengths order what pure_ltr and Rule C admit; under the        *)
(* discounting policies an older request that costs no more is never left   *)
(* waiting for a younger one, whatever the clock says.                      *)
THEOREM ShorterGoesFirst == Spec => ShortestPredictionFirst
<1>1. IInv /\ [Next]_vars =>
        [\A t \in Admitted, u \in LeftBehind :
            /\ Ranked(t) /\ Ranked(u) => Shorter(t, u)
            /\ policy \in DiscountingPolicies => OlderOrCheaper(t, u)]_vars
  BY AdmittedIsShorter, AdmittedIsOlderOrCheaper
<1>2. Spec => []IInv
  BY InitIInv, NextIInv, PTL DEF Spec
<1> QED BY <1>1, <1>2, PTL DEF Spec, ShortestPredictionFirst

-----------------------------------------------------------------------------
(* prompt_sjf orders by length when every waiting request has one, and by   *)
(* arrival otherwise.                                                      *)
LEMMA EarlierInSjf ==
  ASSUME IInv, policy = "prompt_sjf", NEW w \in Reordered,
         NEW i \in DOMAIN w, NEW j \in DOMAIN w, i < j,
         w[i] \in Range(waiting), w[j] \in Range(waiting)
  PROVE  IF \E r \in Range(waiting) : prompt[r].tokens = 0
         THEN RankOf(w[i]) < RankOf(w[j])
         ELSE prompt[w[i]].tokens <= prompt[w[j]].tokens
<1>1. w \in PromptSjf(waiting, Contexts)
  BY ReorderedByPolicy
<1>2. ASSUME NEW k \in DOMAIN waiting
      PROVE  waiting[k] \in Range(waiting) /\ prompt[waiting[k]].tokens \in Nat
             /\ Contexts[waiting[k]].tokens = prompt[waiting[k]].tokens
  <2>1. waiting[k] \in Range(waiting)
    BY DEF Range
  <2>2. waiting[k] \in Live
    BY <2>1 DEF IInv, EachLiveRequestOnce
  <2>3. prompt[waiting[k]].tokens \in Nat
    BY <2>2, SchedulerAssumption DEF IInv, TypeOK
  <2> QED BY <2>1, <2>3, ContextOf
<1>3. (\E k \in DOMAIN waiting : Contexts[waiting[k]].tokens <= 0)
        <=> \E r \in Range(waiting) : prompt[r].tokens = 0
  <2>1. ASSUME NEW k \in DOMAIN waiting, Contexts[waiting[k]].tokens <= 0
        PROVE  waiting[k] \in Range(waiting) /\ prompt[waiting[k]].tokens = 0
    BY <1>2, <2>1
  <2>2. ASSUME NEW r \in Range(waiting), prompt[r].tokens = 0
        PROVE  \E k \in DOMAIN waiting : Contexts[waiting[k]].tokens <= 0
    <3>1. PICK k \in DOMAIN waiting : waiting[k] = r
      BY DEF Range
    <3> QED BY <1>2, <2>2, <3>1
  <2> QED BY <2>1, <2>2
<1>4. CASE \E r \in Range(waiting) : prompt[r].tokens = 0
  <2>1. w \in SortedBy(waiting, ArrivalOrder(Contexts))
    BY <1>1, <1>3, <1>4 DEF PromptSjf
  <2>2. <<w[i], w[j]>> \in ArrivalOrder(Contexts)
    BY <2>1, SortedIsAscending
  <2>3. Contexts[w[i]].rank < Contexts[w[j]].rank
    BY <2>2 DEF ArrivalOrder
  <2> QED BY <1>4, <2>3, ContextOf
<1>5. CASE ~\E r \in Range(waiting) : prompt[r].tokens = 0
  <2>1. w \in SortedBy(waiting, LengthOrder(Contexts))
    BY <1>1, <1>3, <1>5 DEF PromptSjf
  <2>2. <<w[i], w[j]>> \in LengthOrder(Contexts)
    BY <2>1, SortedIsAscending
  <2>3. \/ Contexts[w[i]].tokens < Contexts[w[j]].tokens
        \/ Contexts[w[i]].tokens = Contexts[w[j]].tokens
    BY <2>2 DEF LengthOrder
  <2>4. prompt[w[i]].tokens < prompt[w[j]].tokens \/ prompt[w[i]].tokens = prompt[w[j]].tokens
    BY <2>3, ContextOf
  <2>5. prompt[w[i]].tokens \in Nat /\ prompt[w[j]].tokens \in Nat
    <3>1. w[i] \in Live /\ w[j] \in Live
      BY DEF IInv, EachLiveRequestOnce
    <3> QED BY <3>1, SchedulerAssumption DEF IInv, TypeOK
  <2> QED BY <1>5, <2>4, <2>5
<1> QED BY <1>4, <1>5

(* So is what a step admits, against what it leaves waiting.                *)
LEMMA AdmittedInSjf ==
  ASSUME IInv, Next, policy = "prompt_sjf", NEW t \in Admitted, NEW u \in LeftBehind
  PROVE  IF \E r \in Range(waiting) : prompt[r].tokens = 0
         THEN RankOf(t) < RankOf(u)
         ELSE prompt[t].tokens <= prompt[u].tokens
<1>1. Schedule
  BY OnlyScheduleAdmits
<1>2. PICK w \in Reordered, n \in Nat :
        /\ n \in 0..Len(w)
        /\ w \in Seq(Requests) /\ IsInjective(w) /\ Range(w) = Range(waiting)
        /\ Admitted = {w[i] : i \in 1..n}
        /\ LeftBehind = {w[i] : i \in n + 1..Len(w)}
  BY <1>1, HeadIsAdmitted
<1>3. PICK i \in 1..n : t = w[i]
  BY <1>2
<1>4. PICK j \in n + 1..Len(w) : u = w[j]
  BY <1>2
<1>5. DOMAIN w = 1..Len(w) /\ Len(w) \in Nat
  BY <1>2, LenProperties
<1>6. i \in DOMAIN w /\ j \in DOMAIN w /\ i < j
  BY <1>2, <1>5
<1>7. w[i] \in Range(waiting) /\ w[j] \in Range(waiting)
  BY <1>2, <1>6 DEF Range
<1> QED BY <1>3, <1>4, <1>6, <1>7, EarlierInSjf

(* prompt_sjf admits by length, and by arrival as a whole while one waiting *)
(* request has no length.                                                  *)
THEOREM SjfFallsBack == Spec => SjfFallsBackToArrivalOrder
<1>1. IInv /\ [Next]_vars =>
        [policy = "prompt_sjf" =>
          \A t \in Admitted, u \in LeftBehind :
            IF \E r \in Range(waiting) : prompt[r].tokens = 0
            THEN RankOf(t) < RankOf(u)
            ELSE prompt[t].tokens <= prompt[u].tokens]_vars
  BY AdmittedInSjf
<1>2. Spec => []IInv
  BY InitIInv, NextIInv, PTL DEF Spec
<1> QED BY <1>1, <1>2, PTL DEF Spec, SjfFallsBackToArrivalOrder

-----------------------------------------------------------------------------
(* Under policy_fcfs, with requests that reach the engine in arrival order, *)
(* the batch and then the queue are in arrival order: a preempted request   *)
(* is the youngest of the batch and older than every queued one.            *)
QueuesInArrivalOrder == policy = "policy_fcfs" /\ arrived = running \o waiting

(* The place of a queued request by age is its place in the queue.          *)
LEMMA RankIsPlace ==
  ASSUME IInv, QueuesInArrivalOrder, NEW i \in DOMAIN waiting
  PROVE  RankOf(waiting[i]) = Len(running) + i
<1>1. /\ running \in Seq(Requests) /\ waiting \in Seq(Requests) /\ arrived \in Seq(Requests)
      /\ IsInjective(arrived)
  BY DEF IInv, TypeOK, EachLiveRequestOnce
<1>2. /\ Len(running) \in Nat /\ Len(waiting) \in Nat /\ i \in 1..Len(waiting)
      /\ DOMAIN arrived = 1..Len(arrived)
  BY <1>1, LenProperties
<1>3. /\ Len(arrived) = Len(running) + Len(waiting)
      /\ \A k \in 1..(Len(running) + Len(waiting)) :
            arrived[k] = IF k <= Len(running) THEN running[k] ELSE waiting[k - Len(running)]
  BY <1>1, ConcatProperties DEF QueuesInArrivalOrder
<1> DEFINE k == Len(running) + i
<1>4. k \in DOMAIN arrived /\ arrived[k] = waiting[i]
  BY <1>2, <1>3
<1> HIDE DEF k
<1>5. \A m \in DOMAIN arrived : arrived[m] = waiting[i] => m = k
  BY <1>1, <1>4 DEF IsInjective
<1>6. RankOf(waiting[i]) = k
  BY <1>4, <1>5 DEF RankOf
<1> QED BY <1>6 DEF k

(* So there is nothing to reorder.                                         *)
LEMMA NothingToReorder ==
  ASSUME IInv, QueuesInArrivalOrder, NEW w \in Reordered
  PROVE  w = waiting
<1>1. /\ waiting \in Seq(Requests) /\ IsInjective(waiting) /\ running \in Seq(Requests)
  BY DEF IInv, TypeOK, EachLiveRequestOnce
<1>2. /\ w \in Seq(Requests) /\ Len(w) = Len(waiting)
      /\ IsInjective(w) /\ Range(w) = Range(waiting)
  BY ReorderedKeepsQueue
<1>3. /\ Len(waiting) \in Nat /\ Len(running) \in Nat
      /\ DOMAIN waiting = 1..Len(waiting) /\ DOMAIN w = 1..Len(waiting)
  BY <1>1, <1>2, LenProperties
<1>4. w \in SortedBy(waiting, ArrivalOrder(Contexts))
  BY ReorderedByPolicy DEF QueuesInArrivalOrder
<1>5. ASSUME NEW i \in 1..Len(waiting), NEW j \in 1..Len(waiting), i < j
      PROVE  RankOf(w[i]) < RankOf(w[j])
  <2>1. <<w[i], w[j]>> \in ArrivalOrder(Contexts)
    BY <1>3, <1>4, <1>5, SortedIsAscending
  <2>2. Contexts[w[i]].rank < Contexts[w[j]].rank
    BY <2>1 DEF ArrivalOrder
  <2>3. w[i] \in Range(waiting) /\ w[j] \in Range(waiting)
    BY <1>2, <1>3 DEF Range
  <2> QED BY <2>2, <2>3, ContextOf
<1>6. ASSUME NEW i \in 1..Len(waiting), NEW j \in 1..Len(waiting), i < j
      PROVE  RankOf(waiting[i]) < RankOf(waiting[j])
  <2>1. RankOf(waiting[i]) = Len(running) + i /\ RankOf(waiting[j]) = Len(running) + j
    BY <1>3, RankIsPlace
  <2> QED BY <1>3, <1>6, <2>1
<1>7. \A i \in 1..Len(waiting) : RankOf(waiting[i]) \in Nat /\ RankOf(w[i]) \in Nat
  <2>1. \A i \in 1..Len(waiting) : waiting[i] \in Range(waiting) /\ w[i] \in Range(waiting)
    BY <1>2, <1>3 DEF Range
  <2> QED BY <2>1, RankIsNatural
<1> DEFINE Differ == {i \in 1..Len(waiting) : w[i] # waiting[i]}
<1>8. Differ = {}
  <2> SUFFICES ASSUME Differ # {} PROVE FALSE
    OBVIOUS
  <2>1. PICK i \in Differ : \A k \in Differ : i <= k
    <3>1. Differ \subseteq Nat
      BY <1>3
    <3> HIDE DEF Differ
    <3> QED BY <3>1, LeastNumber
  <2>2. /\ i \in 1..Len(waiting) /\ w[i] # waiting[i]
        /\ \A k \in 1..Len(waiting) : k < i => w[k] = waiting[k]
    BY <1>3, <2>1
  <2>3. PICK k \in 1..Len(waiting) : w[k] = waiting[i]
    <3>1. waiting[i] \in Range(w)
      BY <1>2, <1>3, <2>2 DEF Range
    <3> QED BY <1>3, <3>1 DEF Range
  <2>4. PICK m \in 1..Len(waiting) : waiting[m] = w[i]
    <3>1. w[i] \in Range(waiting)
      BY <1>2, <1>3, <2>2 DEF Range
    <3> QED BY <1>3, <3>1 DEF Range
  <2>5. k # i /\ m # i
    BY <2>2, <2>3, <2>4
  <2>6. ~ (k < i)
    <3>1. ASSUME k < i PROVE FALSE
      <4>1. waiting[k] = waiting[i]
        BY <2>2, <2>3, <3>1
      <4> QED BY <1>1, <1>3, <2>2, <2>5, <4>1 DEF IsInjective
    <3> QED BY <3>1
  <2>7. ~ (m < i)
    <3>1. ASSUME m < i PROVE FALSE
      <4>1. w[m] = w[i]
        BY <2>2, <2>4, <3>1
      <4> QED BY <1>2, <1>3, <2>2, <2>5, <4>1 DEF IsInjective
    <3> QED BY <3>1
  <2>8. i < k /\ i < m
    BY <1>3, <2>2, <2>5, <2>6, <2>7
  <2>9. RankOf(w[i]) < RankOf(w[k]) /\ RankOf(waiting[i]) < RankOf(waiting[m])
    BY <1>5, <1>6, <2>2, <2>8
  <2>10. RankOf(w[i]) < RankOf(waiting[i]) /\ RankOf(waiting[i]) < RankOf(w[i])
    BY <2>3, <2>4, <2>9
  <2> QED BY <1>7, <2>2, <2>10
<1>9. \A i \in 1..Len(w) : w[i] = waiting[i]
  BY <1>2, <1>8
<1> QED BY <1>1, <1>2, <1>9, SeqEqual

(* A request reaches the tail of the queue, and is the youngest.            *)
LEMMA AddingInOrder ==
  ASSUME ArrivalSkew = 0, IInv, QueuesInArrivalOrder, NEW r \in Requests, AddRequest(r)
  PROVE  QueuesInArrivalOrder' /\ Stock!Add(r)
<1>1. /\ running \in Seq(Requests) /\ waiting \in Seq(Requests) /\ arrived \in Seq(Requests)
      /\ Len(arrived) \in Nat
  BY LenProperties DEF IInv, TypeOK
<1>2. PICK k \in 1..(Len(arrived) + 1) :
        Len(arrived) + 1 - k <= 0 /\ arrived' = InsertAt(arrived, k, r)
  BY DEF AddRequest
<1>3. k = Len(arrived) + 1
  BY <1>1, <1>2
<1> DEFINE one == <<r>>
<1>4. one \in Seq(Requests)
  OBVIOUS
<1>5. arrived' = arrived \o one
  <2>1. arrived' = SubSeq(arrived, 1, k - 1) \o one \o SubSeq(arrived, k, Len(arrived))
    BY <1>2 DEF InsertAt
  <2>2. SubSeq(arrived, 1, k - 1) = arrived
    <3>1. k - 1 = Len(arrived)
      BY <1>1, <1>3
    <3> QED BY <1>1, <3>1, SubSeqFull
  <2>3. SubSeq(arrived, k, Len(arrived)) = <<>>
    BY <1>1, <1>3, SubSeqEmpty
  <2> HIDE DEF one
  <2>4. arrived \o one \in Seq(Requests)
    BY <1>1, <1>4, ConcatProperties
  <2> QED BY <2>1, <2>2, <2>3, <2>4, ConcatEmptySeq
<1>6. waiting' = waiting \o one /\ waiting' = Append(waiting, r)
      /\ running' = running /\ policy' = policy
  BY <1>1, AppendIsConcat DEF AddRequest
<1> HIDE DEF one
<1>7. arrived' = running' \o waiting'
  <2>1. arrived' = (running \o waiting) \o one
    BY <1>5 DEF QueuesInArrivalOrder
  <2>2. (running \o waiting) \o one = running \o (waiting \o one)
    <3>1. running \in Seq(Requests) /\ waiting \in Seq(Requests) /\ one \in Seq(Requests)
      BY <1>1, <1>4
    <3> QED BY <3>1, ConcatAssociative
  <2> QED BY <1>6, <2>1, <2>2
<1>8. r \notin Stock!Queued
  <2>1. r \notin Range(waiting) \cup Range(running)
    BY DEF AddRequest, IInv, EachLiveRequestOnce
  <2> QED BY <2>1 DEF Stock!Queued, Stock!Range, Range
<1> QED BY <1>6, <1>7, <1>8 DEF QueuesInArrivalOrder, Stock!Add

(* The head of the queue is admitted as the stock scheduler would, or       *)
(* nothing is.                                                             *)
LEMMA AdmittingInOrder ==
  ASSUME IInv, QueuesInArrivalOrder, Schedule
  PROVE  QueuesInArrivalOrder' /\ (Stock!Step \/ UNCHANGED Stock!stock)
<1>1. PICK n \in Admissible(waiting) :
        /\ running' = running \o SubSeq(waiting, 1, n)
        /\ waiting' = SubSeq(waiting, n + 1, Len(waiting))
  BY NothingToReorder DEF Schedule
<1>2. /\ running \in Seq(Requests) /\ waiting \in Seq(Requests) /\ Len(running) <= Capacity
      /\ IsInjective(waiting) /\ Len(waiting) \in Nat /\ Len(running) \in Nat
      /\ UNCHANGED <<policy, arrived>>
  BY LenProperties DEF IInv, TypeOK, EachLiveRequestOnce, Schedule
<1> DEFINE a == SubSeq(waiting, 1, n)
           b == SubSeq(waiting, n + 1, Len(waiting))
<1>3. n \in 0..Len(waiting) /\ (n = 0 \/ n \in 1..Stock!Most)
  <2>1. Capacity - Len(running) \in Nat
    BY <1>2, SchedulerAssumption
  <2> QED BY <1>2, <2>1 DEF Admissible, Stock!Most, Stock!Room
<1>4. a \in Seq(Requests) /\ b \in Seq(Requests)
  BY <1>2, <1>3, SplitDistinct
<1>5. a \o b = waiting
  <2>1. CASE n = 0
    <3>1. a = <<>>
      BY <2>1, SubSeqEmpty
    <3>2. b = waiting
      BY <1>2, <2>1, SubSeqFull
    <3> HIDE DEF a, b
    <3> QED BY <1>2, <3>1, <3>2, ConcatEmptySeq
  <2>2. CASE n = Len(waiting)
    <3>1. a = waiting
      BY <1>2, <2>2, SubSeqFull
    <3>2. b = <<>>
      BY <1>2, <2>2, SubSeqEmpty
    <3> HIDE DEF a, b
    <3> QED BY <1>2, <3>1, <3>2, ConcatEmptySeq
  <2>3. CASE n # 0 /\ n # Len(waiting)
    <3>1. n \in 1..Len(waiting) /\ n + 1 \in 1..Len(waiting)
      BY <1>2, <1>3, <2>3
    <3>2. /\ Len(a) = n /\ Len(b) = Len(waiting) - n
          /\ \A i \in 1..n : a[i] = waiting[i]
          /\ \A i \in 1..(Len(waiting) - n) : b[i] = waiting[n + i]
      BY <1>2, <3>1
    <3> HIDE DEF a, b
    <3>3. /\ a \o b \in Seq(Requests) /\ Len(a \o b) = Len(a) + Len(b)
          /\ \A i \in 1..(Len(a) + Len(b)) :
                (a \o b)[i] = IF i <= Len(a) THEN a[i] ELSE b[i - Len(a)]
      BY <1>4, ConcatProperties
    <3>4. Len(a \o b) = Len(waiting)
      BY <1>2, <3>1, <3>2, <3>3
    <3>5. ASSUME NEW i \in 1..Len(a \o b) PROVE (a \o b)[i] = waiting[i]
      <4>1. (a \o b)[i] = IF i <= n THEN a[i] ELSE b[i - n]
        BY <1>2, <3>2, <3>3
      <4>2. CASE i <= n
        BY <1>2, <3>1, <3>2, <4>1, <4>2
      <4>3. CASE ~ (i <= n)
        <5>1. i - n \in 1..(Len(waiting) - n) /\ n + (i - n) = i
          BY <1>2, <3>1, <3>4, <4>3
        <5> QED BY <3>2, <4>1, <4>3, <5>1
      <4> QED BY <4>2, <4>3
    <3> QED BY <1>2, <3>3, <3>4, <3>5, SeqEqual
  <2> QED BY <2>1, <2>2, <2>3
<1>6. running' = running \o a /\ waiting' = b
  BY <1>1
<1> HIDE DEF a, b
<1>7. arrived' = running' \o waiting'
  <2>1. running \o (a \o b) = (running \o a) \o b
    <3>1. running \in Seq(Requests) /\ a \in Seq(Requests) /\ b \in Seq(Requests)
      BY <1>2, <1>4
    <3> QED BY <3>1, ConcatAssociative
  <2>2. arrived' = running \o waiting
    BY <1>2 DEF QueuesInArrivalOrder
  <2> QED BY <1>5, <1>6, <2>1, <2>2
<1>8. CASE n = 0
  <2>1. a = <<>> /\ b = waiting
    <3>1. SubSeq(waiting, 1, 0) = <<>>
      BY SubSeqEmpty
    <3>2. SubSeq(waiting, 0 + 1, Len(waiting)) = waiting
      BY <1>2, SubSeqFull
    <3> QED BY <1>8, <3>1, <3>2 DEF a, b
  <2>2. running' = running /\ waiting' = waiting
    BY <1>2, <1>6, <2>1, ConcatEmptySeq
  <2> QED BY <1>2, <1>7, <2>2 DEF QueuesInArrivalOrder, Stock!stock
<1>9. CASE n \in 1..Stock!Most
  BY <1>1, <1>2, <1>7, <1>9 DEF QueuesInArrivalOrder, Stock!Step
<1> QED BY <1>3, <1>8, <1>9

(* The youngest of the batch goes back to the head of the queue.            *)
LEMMA PreemptingInOrder ==
  ASSUME IInv, QueuesInArrivalOrder, SchedulePreempting
  PROVE  QueuesInArrivalOrder' /\ Stock!Preempt
<1> DEFINE n == Len(running)
           last == <<running[n]>>
           rest == SubSeq(running, 1, n - 1)
<1>1. waiting' = last \o waiting /\ running' = rest /\ n > 1
  BY NothingToReorder DEF SchedulePreempting
<1>2. /\ running \in Seq(Requests) /\ waiting \in Seq(Requests) /\ IsInjective(running)
      /\ n \in Nat /\ UNCHANGED <<policy, arrived>> /\ running[n] \in Requests
  BY <1>1, LenProperties, ElementOfSeq DEF IInv, TypeOK, EachLiveRequestOnce, SchedulePreempting
<1>3. /\ last \in Seq(Requests) /\ Len(last) = 1 /\ last[1] = running[n]
  BY <1>2
<1>4. rest \in Seq(Requests) /\ Len(rest) = n - 1 /\ \A i \in 1..(n - 1) : rest[i] = running[i]
  BY <1>1, <1>2
<1>5. rest \o last = running
  <2> HIDE DEF rest, last
  <2>0. rest \in Seq(Requests) /\ last \in Seq(Requests)
    BY <1>3, <1>4
  <2>1. /\ rest \o last \in Seq(Requests) /\ Len(rest \o last) = n - 1 + 1
        /\ \A i \in 1..(n - 1 + 1) :
              (rest \o last)[i] = IF i <= n - 1 THEN rest[i] ELSE last[i - (n - 1)]
    <3>1. /\ rest \o last \in Seq(Requests) /\ Len(rest \o last) = Len(rest) + Len(last)
          /\ \A i \in 1..(Len(rest) + Len(last)) :
                (rest \o last)[i] = IF i <= Len(rest) THEN rest[i] ELSE last[i - Len(rest)]
      BY <2>0, ConcatProperties
    <3> QED BY <1>3, <1>4, <3>1
  <2>2. ASSUME NEW i \in 1..n PROVE (rest \o last)[i] = running[i]
    <3>1. CASE i <= n - 1
      BY <1>2, <1>4, <2>1, <3>1
    <3>2. CASE ~ (i <= n - 1)
      <4>1. i = n /\ i - (n - 1) = 1 /\ i \in 1..(n - 1 + 1)
        BY <1>2, <3>2
      <4>2. (rest \o last)[i] = last[i - (n - 1)]
        BY <2>1, <3>2, <4>1
      <4> QED BY <1>3, <4>1, <4>2
    <3> QED BY <3>1, <3>2
  <2>3. Len(rest \o last) = Len(running)
    BY <1>2, <2>1
  <2> QED BY <1>2, <2>1, <2>2, <2>3, SeqEqual
<1>6. waiting' = <<running[Len(running)]>> \o waiting
      /\ running' = SubSeq(running, 1, Len(running) - 1) /\ Len(running) > 1
  BY <1>1
<1> HIDE DEF rest, last, n
<1>7. arrived' = running' \o waiting'
  <2>1. (rest \o last) \o waiting = rest \o (last \o waiting)
    <3>1. rest \in Seq(Requests) /\ last \in Seq(Requests) /\ waiting \in Seq(Requests)
      BY <1>2, <1>3, <1>4
    <3> QED BY <3>1, ConcatAssociative
  <2>2. arrived' = running \o waiting
    BY <1>2 DEF QueuesInArrivalOrder
  <2> QED BY <1>1, <1>5, <2>1, <2>2
<1> QED BY <1>2, <1>6, <1>7 DEF QueuesInArrivalOrder, Stock!Preempt

(* A request that ends takes its place with it.                            *)
LEMMA LeavingInOrder ==
  ASSUME IInv, QueuesInArrivalOrder, NEW r \in Requests, Finish(r) \/ Abort(r)
  PROVE  QueuesInArrivalOrder' /\ (Stock!Finish(r) \/ Stock!Abort(r))
<1>1. /\ running \in Seq(Requests) /\ waiting \in Seq(Requests) /\ arrived \in Seq(Requests)
      /\ IsInjective(arrived) /\ arrived = running \o waiting
  BY DEF IInv, TypeOK, EachLiveRequestOnce, QueuesInArrivalOrder
<1>2. /\ Len(running) \in Nat /\ Len(waiting) \in Nat
      /\ DOMAIN running = 1..Len(running) /\ DOMAIN waiting = 1..Len(waiting)
      /\ DOMAIN arrived = 1..(Len(running) + Len(waiting))
      /\ \A k \in 1..(Len(running) + Len(waiting)) :
            arrived[k] = IF k <= Len(running) THEN running[k] ELSE waiting[k - Len(running)]
  BY <1>1, LenProperties, ConcatProperties
<1>3. PICK k \in DOMAIN arrived : arrived[k] = r /\ arrived' = RemoveAt(arrived, k)
  BY DEF Finish, Abort, Forget
<1>4. policy' = policy
  BY DEF Finish, Abort, Forget
<1>5. CASE Finish(r)
  <2>1. PICK i \in DOMAIN running : running[i] = r /\ running' = RemoveAt(running, i)
    BY <1>5 DEF Finish
  <2>2. i \in 1..Len(running) /\ i \in Nat /\ i \in DOMAIN arrived /\ arrived[i] = r
    BY <1>2, <2>1
  <2>3. k = i
    BY <1>1, <1>3, <2>2 DEF IsInjective
  <2>4. waiting' = waiting
    BY <1>5 DEF Finish
  <2>5. RemoveAt(running \o waiting, i) = RemoveAt(running, i) \o waiting
    BY <1>1, <2>2, RemoveFromFirst
  <2>6. arrived' = running' \o waiting'
    BY <1>1, <1>3, <2>1, <2>3, <2>4, <2>5
  <2>7. QueuesInArrivalOrder'
    BY <1>4, <2>6 DEF QueuesInArrivalOrder
  <2>8. Stock!Finish(r)
    BY <2>1, <2>4 DEF Stock!Finish, Stock!RemoveAt, RemoveAt
  <2> QED BY <2>7, <2>8
<1>6. CASE Abort(r)
  <2>1. PICK i \in DOMAIN waiting : waiting[i] = r /\ waiting' = RemoveAt(waiting, i)
    BY <1>6 DEF Abort
  <2> DEFINE m == Len(running) + i
  <2>2. i \in 1..Len(waiting) /\ i \in Nat /\ m \in DOMAIN arrived /\ arrived[m] = r
    BY <1>2, <2>1
  <2>3. k = m
    <3> HIDE DEF m
    <3> QED BY <1>1, <1>3, <2>2 DEF IsInjective
  <2>4. running' = running
    BY <1>6 DEF Abort
  <2>5. RemoveAt(running \o waiting, m) = running \o RemoveAt(waiting, i)
    <3> HIDE DEF m
    <3>1. running \in Seq(Requests) /\ waiting \in Seq(Requests)
          /\ i \in Nat /\ i \in 1..Len(waiting)
      BY <1>1, <2>2
    <3>2. RemoveAt(running \o waiting, Len(running) + i) = running \o RemoveAt(waiting, i)
      BY <3>1, RemoveFromSecond
    <3> QED BY <3>2 DEF m
  <2>6. arrived' = running' \o waiting'
    <3> HIDE DEF m
    <3> QED BY <1>1, <1>3, <2>1, <2>3, <2>4, <2>5
  <2>7. QueuesInArrivalOrder'
    BY <1>4, <2>6 DEF QueuesInArrivalOrder
  <2>8. Stock!Abort(r)
    BY <2>1, <2>4 DEF Stock!Abort, Stock!RemoveAt, RemoveAt
  <2> QED BY <2>7, <2>8
<1> QED BY <1>5, <1>6

(* policy_fcfs is the stock scheduler: with requests that reach the engine  *)
(* in arrival order, its every step is one of the stock scheduler's or      *)
(* changes nothing that one can see.                                       *)
THEOREM FcfsIsStock ==
  ASSUME ArrivalSkew = 0
  PROVE  Spec /\ policy = "policy_fcfs" => Stock!Spec
<1>1. ASSUME Init, policy = "policy_fcfs" PROVE QueuesInArrivalOrder /\ Stock!Init
  <2>1. arrived = <<>> /\ running = <<>> /\ waiting = <<>> /\ <<>> \in Seq(Requests)
    BY <1>1 DEF Init
  <2>2. <<>> \o <<>> = <<>>
    BY ConcatEmptySeq
  <2> QED BY <1>1, <2>1, <2>2 DEF QueuesInArrivalOrder, Stock!Init
<1>2. ASSUME IInv, QueuesInArrivalOrder, [Next]_vars
      PROVE  QueuesInArrivalOrder' /\ [Stock!Next]_(Stock!stock)
  <2>1. ASSUME NEW r \in Requests, AddRequest(r)
        PROVE  QueuesInArrivalOrder' /\ [Stock!Next]_(Stock!stock)
    BY <1>2, <2>1, AddingInOrder DEF Stock!Next
  <2>2. ASSUME NEW r \in Requests, Finish(r) \/ Abort(r)
        PROVE  QueuesInArrivalOrder' /\ [Stock!Next]_(Stock!stock)
    BY <1>2, <2>2, LeavingInOrder DEF Stock!Next
  <2>3. CASE Schedule
    BY <1>2, <2>3, AdmittingInOrder DEF Stock!Next
  <2>4. CASE SchedulePreempting
    BY <1>2, <2>4, PreemptingInOrder DEF Stock!Next
  <2>5. CASE UNCHANGED vars
    BY <1>2, <2>5 DEF vars, QueuesInArrivalOrder, Stock!stock
  <2> QED BY <1>2, <2>1, <2>2, <2>3, <2>4, <2>5 DEF Next
<1>3. Spec => []IInv
  BY InitIInv, NextIInv, PTL DEF Spec
<1> QED BY <1>1, <1>2, <1>3, PTL DEF Spec, Stock!Spec
=============================================================================
