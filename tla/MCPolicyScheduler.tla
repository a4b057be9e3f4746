-------------------------- MODULE MCPolicyScheduler --------------------------
(* Small instances of PolicyScheduler for TLC. *)
EXTENDS PolicyScheduler

SomePolicies == PolicyNames
FcfsOnly == {"policy_fcfs"}
RuleCOnly == {"gated_rule_c"}

(* No prompt tokens, and a cheap and a dear kind of request. *)
SomePrompts ==
    {[tokens |-> 0, kind |-> "chat"], [tokens |-> 1, kind |-> "multi_turn"],
     [tokens |-> 2, kind |-> "other"]}
OnePrompt == {[tokens |-> 1, kind |-> "chat"]}

RequestSymmetry == Permutations(Requests)
=============================================================================
