---------------------------- MODULE BlockingCalls ----------------------------
(***************************************************************************)
(* What MicroBatcher.submit promises each of its callers, with no queue, no *)
(* batch and no worker thread: a call either is refused at once, or blocks  *)
(* and then gives the result of the caller's own item or an exception.      *)
(***************************************************************************)
CONSTANTS Callers, Items, NoItem

VARIABLES
    asked,    \* the item each blocked caller handed over, or NoItem
    outcome   \* what its latest call gave each caller that is not blocked

calls == <<asked, outcome>>

Result(i) == [kind |-> "result", item |-> i]
Raised    == [kind |-> "error"]
Refused   == [kind |-> "closed"]
Pending   == [kind |-> "none"]

Init ==
    /\ asked = [c \in Callers |-> NoItem]
    /\ outcome = [c \in Callers |-> Pending]

Ask(c, i) ==
    /\ asked[c] = NoItem
    /\ asked' = [asked EXCEPT ![c] = i]
    /\ outcome' = [outcome EXCEPT ![c] = Pending]

Refuse(c) ==
    /\ asked[c] = NoItem
    /\ outcome' = [outcome EXCEPT ![c] = Refused]
    /\ UNCHANGED asked

Answer(c) ==
    /\ asked[c] # NoItem
    /\ \E o \in {Result(asked[c]), Raised} : outcome' = [outcome EXCEPT ![c] = o]
    /\ asked' = [asked EXCEPT ![c] = NoItem]

Next == \E c \in Callers : Refuse(c) \/ Answer(c) \/ \E i \in Items : Ask(c, i)

Spec == Init /\ [][Next]_calls
=============================================================================
