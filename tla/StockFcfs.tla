------------------------------ MODULE StockFcfs ------------------------------
(***************************************************************************)
(* vLLM's stock first-come-first-served scheduler, the base that            *)
(* StockFCFSShim leaves untouched, as far as the repository relies on it:   *)
(* a queue admitted from its head, a batch of at most Capacity requests,    *)
(* and the newest member of the batch put back at the head of the queue     *)
(* when memory runs out.  There is no reordering, no prediction and no      *)
(* arrival time.                                                           *)
(***************************************************************************)
EXTENDS Integers, Sequences, SequencesExt

CONSTANTS Requests, Capacity

VARIABLES waiting, running

stock == <<waiting, running>>

Queued == Range(waiting) \cup Range(running)

Init == waiting = <<>> /\ running = <<>>

Add(r) ==
    /\ r \notin Queued
    /\ waiting' = Append(waiting, r)
    /\ UNCHANGED running

Room == Capacity - Len(running)
Most == IF Len(waiting) <= Room THEN Len(waiting) ELSE Room

Step ==
    \E n \in 1..Most :
        /\ running' = running \o SubSeq(waiting, 1, n)
        /\ waiting' = SubSeq(waiting, n + 1, Len(waiting))

Preempt ==
    /\ Len(running) > 1
    /\ waiting' = <<running[Len(running)]>> \o waiting
    /\ running' = SubSeq(running, 1, Len(running) - 1)

Finish(r) ==
    /\ \E i \in DOMAIN running : running[i] = r /\ running' = RemoveAt(running, i)
    /\ UNCHANGED waiting

Abort(r) ==
    /\ \E i \in DOMAIN waiting : waiting[i] = r /\ waiting' = RemoveAt(waiting, i)
    /\ UNCHANGED running

Next ==
    \/ \E r \in Requests : Add(r) \/ Finish(r) \/ Abort(r)
    \/ Step
    \/ Preempt

Spec == Init /\ [][Next]_stock
FairSpec == Spec /\ WF_stock(Step) /\ \A r \in Requests : WF_stock(Finish(r))
=============================================================================
