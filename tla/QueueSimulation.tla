---------------------------- MODULE QueueSimulation ----------------------------
(***************************************************************************)
(* The reference simulators: simulate_queue (offline_policy_simulator.py),  *)
(* its replay _simulate_selection and the quantum simulator                 *)
(* _simulate_preemptive (scheduler_benchmark.py).  One server, requests     *)
(* that arrive at given times, and at every decision the arrived request    *)
(* with the least key.  The static key of a request (its service time, a    *)
(* category cost, a predictor's score, a random rank) is any number: the    *)
(* algorithms differ in what they make of it.                               *)
(***************************************************************************)
EXTENDS Integers, FiniteSets, FiniteSetsExt

CONSTANTS
    Requests,    \* how many requests arrive
    Algorithms,  \* a subset of the names below
    Deadline, Quantum, Levels,
    GuardOffset,           \* what the guard takes off an overdue key: 1e9
    Times, Works, Costs  \* the values arrival times, service times and keys take

Selecting == {"static", "aging", "deadline_guard"}
Preempting == {"las", "mlfq", "srpt_oracle"}

(* gateway_gate and gateway_tail_risk_gate take their key from              *)
(* gateway_policy_optimizer.choose_policy, a module the repository does not *)
(* contain: whatever it answers at each decision, some request is the least. *)
Scored == {"gateway"}

ASSUME SimulationAssumption ==
    /\ Requests \in Nat
    /\ Algorithms \subseteq Selecting \cup Preempting \cup Scored
    /\ Deadline \in Nat \ {0} /\ Quantum \in Nat \ {0} /\ Levels \subseteq Nat
    /\ Times \subseteq Nat /\ Works \subseteq Nat \ {0} /\ Costs \subseteq Nat
    /\ GuardOffset \in Nat /\ \A t \in Times : t < GuardOffset

(* The requests, in the order they arrive. *)
Jobs == 1..Requests

VARIABLES
    algorithm, arrival, work, cost,
    now,       \* the simulator's clock
    attained,  \* the service each request has had
    start,     \* when each request was first served, or -1
    finish     \* when each request was done, or -1

simInput == <<algorithm, arrival, work, cost>>
simVars == <<algorithm, arrival, work, cost, now, attained, start, finish>>

SimInit ==
    /\ algorithm \in Algorithms
    /\ arrival \in {a \in [Jobs -> Times] : \A i, j \in Jobs : i < j => a[i] < a[j]}
    /\ work \in [Jobs -> Works]
    /\ cost \in [Jobs -> Costs]
    /\ now = 0
    /\ attained = [j \in Jobs |-> 0]
    /\ start = [j \in Jobs |-> -1]
    /\ finish = [j \in Jobs |-> -1]

Unfinished == {j \in Jobs : attained[j] < work[j]}
Active == {j \in Unfinished : arrival[j] <= now}
Remaining(j) == work[j] - attained[j]
Level(j) == Cardinality({l \in Levels : l <= attained[j]})

(* A bug: a request's key grows with its age. *)
YoungestFirst(j) ==
    [num |-> IF algorithm = "aging" THEN cost[j] * (Deadline + now - arrival[j]) ELSE cost[j],
     den |-> Deadline]

(* A bug: an overdue request keeps its cost. *)
GuardForgotten(j) == [num |-> cost[j], den |-> Deadline]

(* policy_key and its relatives: cost / (1 + age / Deadline) for the aging  *)
(* family, and for the guard a key below every cost once it is overdue.     *)
(* The keys of the Scored algorithms are not of this form (see Picked).     *)
Key(j) ==
    LET age == now - arrival[j]
    IN [num |-> CASE algorithm = "deadline_guard" ->
                       IF age >= Deadline THEN arrival[j] - GuardOffset ELSE cost[j]
                  [] algorithm = "las" -> attained[j]
                  [] algorithm = "mlfq" -> Level(j)
                  [] algorithm = "srpt_oracle" -> Remaining(j)
                  [] OTHER -> cost[j],
        den |-> IF algorithm = "aging" THEN Deadline + age ELSE Deadline]

(* The keys are compared as fractions, and then by arrival. *)
Before(i, j) ==
    LET a == Key(i).num * Key(j).den
        b == Key(j).num * Key(i).den
    IN a < b \/ (a = b /\ i < j)

(* A bug: a quantum is charged in full. *)
WholeQuantum(j) == IF algorithm \in Preempting THEN Quantum ELSE Remaining(j)

(* How long the picked request runs. *)
Slice(j) ==
    IF algorithm \in Preempting /\ Quantum < Remaining(j) THEN Quantum ELSE Remaining(j)

(* Nothing waits: the clock jumps to the next arrival. *)
SkipToArrival ==
    /\ Active = {} /\ Unfinished # {}
    /\ now' = arrival[Min(Unfinished)]
    /\ UNCHANGED <<simInput, attained, start, finish>>

(* The least key is served next: by Before, or by a score that can be any.  *)
Picked(j) ==
    /\ j \in Active
    /\ algorithm \in Scored \/ \A i \in Active \ {j} : Before(j, i)

Serve(j) ==
    /\ Picked(j)
    /\ now' = now + Slice(j)
    /\ attained' = [attained EXCEPT ![j] = @ + Slice(j)]
    /\ start' = [start EXCEPT ![j] = IF @ = -1 THEN now ELSE @]
    /\ finish' = [finish EXCEPT ![j] = IF Slice(j) >= Remaining(j) THEN now + Slice(j) ELSE @]
    /\ UNCHANGED simInput

SimNext == SkipToArrival \/ \E j \in Jobs : Serve(j)

SimSpec == SimInit /\ [][SimNext]_simVars

-----------------------------------------------------------------------------
(* When first-come-first-served is done with the first n requests. *)
DrainedBy[n \in 0..Requests] ==
    IF n = 0 THEN 0
    ELSE (IF DrainedBy[n - 1] > arrival[n] THEN DrainedBy[n - 1] ELSE arrival[n]) + work[n]

(* What the first n requests have of f together, for every n. *)
Total(f) ==
    LET upTo[n \in 0..Requests] == IF n = 0 THEN 0 ELSE upTo[n - 1] + f[n]
    IN upTo

(* Every algorithm finishes the same arrivals at the same time, the one a   *)
(* first-come-first-served queue finishes at: the comparison "on identical  *)
(* arrival sequences" (scheduler_benchmark.py:4) neither loses work nor      *)
(* idles while a request waits, whatever the algorithm picks.               *)
SameWorkForEveryAlgorithm ==
    Unfinished = {} => now = DrainedBy[Requests] /\ \A j \in Jobs : finish[j] >= arrival[j] + work[j]

(* Aging only ever favours the older request: no algorithm of the selection *)
(* family serves a newcomer before an older request that costs no more.     *)
NoDearerNewcomerPasses ==
    [][(algorithm \in Selecting) =>
        \A i, j \in Jobs :
            (i < j /\ start[i] = -1 /\ start'[i] = -1 /\ start[j] # start'[j])
                => cost[j] < cost[i]
      ]_simVars

(* Under deadline_guard the wait is bounded whatever the costs: once it is   *)
(* overdue, a request waits for the one in service and for older ones only. *)
GuardBoundsTheWait ==
    algorithm = "deadline_guard" =>
        \A j \in Jobs :
            start[j] # -1 =>
                start[j] - arrival[j] <=
                    Deadline + Max({work[i] : i \in Jobs}) + Total(work)[j - 1]
=============================================================================
