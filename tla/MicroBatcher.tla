---------------------------- MODULE MicroBatcher ----------------------------
(***************************************************************************)
(* scheduler_benchmark/micro_batcher.py: HTTP handler threads hand one item *)
(* each to a queue and block; one worker thread drains the queue into       *)
(* batches and answers every caller of a batch.  close() may come from any  *)
(* thread at any time.                                                     *)
(*                                                                         *)
(* A step is one operation on shared state: the _closed event, the queue,   *)
(* or one job's done event.  A job is named by the caller that waits for    *)
(* it, since a caller has at most one.                                     *)
(***************************************************************************)
EXTENDS Integers, Sequences, Functions

CONSTANTS
    Callers,   \* threads that call submit
    Closers,   \* threads that call close
    Items,     \* what a caller may submit
    Shutdown,  \* the sentinel _SHUTDOWN
    NoItem,
    BatchMax   \* batch_max

ASSUME BatcherAssumption ==
    /\ BatchMax \in Nat \ {0}
    /\ Shutdown \notin Callers
    /\ NoItem \notin Items

VARIABLES
    closed,    \* the _closed event
    queue,     \* the queue of jobs and sentinels
    submitting,\* where each caller is in submit
    item,      \* job.item of each caller's job, NoItem when it has none
    answer,    \* job.result or job.error; Pending until job.done is set
    outcome,   \* what each idle caller's latest submit returned or raised
    closing,   \* where each closer is in close
    worker,    \* where the worker thread is in _loop
    batch      \* the jobs in the worker's hands, not answered yet

vars == <<closed, queue, submitting, item, answer, outcome, closing, worker, batch>>

Result(i) == [kind |-> "result", item |-> i]
Raised    == [kind |-> "error"]
Refused   == [kind |-> "closed"]
Pending   == [kind |-> "none"]

Init ==
    /\ closed = FALSE
    /\ queue = <<>>
    /\ submitting = [c \in Callers |-> "idle"]
    /\ item = [c \in Callers |-> NoItem]
    /\ answer = [c \in Callers |-> Pending]
    /\ outcome = [c \in Callers |-> Pending]
    /\ closing = [k \in Closers |-> "idle"]
    /\ worker = "collect"
    /\ batch = <<>>

-----------------------------------------------------------------------------
(* submit: the caller looks at _closed, then enqueues its job, then waits.  *)

SubmitRefused(c) ==
    /\ submitting[c] = "idle"
    /\ closed
    /\ outcome' = [outcome EXCEPT ![c] = Refused]
    /\ UNCHANGED <<closed, queue, submitting, item, answer, closing, worker, batch>>

SubmitChecked(c, i) ==
    /\ submitting[c] = "idle"
    /\ ~closed
    /\ submitting' = [submitting EXCEPT ![c] = "checked"]
    /\ item' = [item EXCEPT ![c] = i]
    /\ outcome' = [outcome EXCEPT ![c] = Pending]
    /\ UNCHANGED <<closed, queue, answer, closing, worker, batch>>

SubmitPut(c) ==
    /\ submitting[c] = "checked"
    /\ submitting' = [submitting EXCEPT ![c] = "waiting"]
    /\ queue' = Append(queue, c)
    /\ UNCHANGED <<closed, item, answer, outcome, closing, worker, batch>>

SubmitReturn(c) ==
    /\ submitting[c] = "waiting"
    /\ answer[c] # Pending
    /\ submitting' = [submitting EXCEPT ![c] = "idle"]
    /\ outcome' = [outcome EXCEPT ![c] = answer[c]]
    /\ item' = [item EXCEPT ![c] = NoItem]        \* the job is gone
    /\ answer' = [answer EXCEPT ![c] = Pending]
    /\ UNCHANGED <<closed, queue, closing, worker, batch>>

-----------------------------------------------------------------------------
(* close: check _closed, set it, enqueue the sentinel, join with a timeout. *)

CloseChecked(k) ==
    /\ closing[k] = "idle"
    /\ closing' = [closing EXCEPT ![k] = IF closed THEN "done" ELSE "checked"]
    /\ UNCHANGED <<closed, queue, submitting, item, answer, outcome, worker, batch>>

CloseSet(k) ==
    /\ closing[k] = "checked"
    /\ closed' = TRUE
    /\ closing' = [closing EXCEPT ![k] = "set"]
    /\ UNCHANGED <<queue, submitting, item, answer, outcome, worker, batch>>

ClosePut(k) ==
    /\ closing[k] = "set"
    /\ queue' = Append(queue, Shutdown)
    /\ closing' = [closing EXCEPT ![k] = "done"]   \* join(timeout) changes nothing
    /\ UNCHANGED <<closed, submitting, item, answer, outcome, worker, batch>>

-----------------------------------------------------------------------------
(* _collect, _loop and _dispatch on the worker thread                      *)

CollectFirst ==
    /\ worker = "collect"
    /\ queue # <<>>
    /\ queue' = Tail(queue)
    /\ IF Head(queue) = Shutdown
       THEN worker' = "stopped" /\ UNCHANGED batch
       ELSE worker' = "drain" /\ batch' = <<Head(queue)>>
    /\ UNCHANGED <<closed, submitting, item, answer, outcome, closing>>

(* Bugs: one job too many, and a sentinel that is not put back. *)
CollectOneTooMany ==
    /\ worker = "drain"
    /\ Len(batch) <= BatchMax
    /\ queue # <<>>
    /\ queue' = Tail(queue)
    /\ IF Head(queue) = Shutdown
       THEN worker' = "repost" /\ UNCHANGED batch
       ELSE batch' = Append(batch, Head(queue)) /\ UNCHANGED worker
    /\ UNCHANGED <<closed, submitting, item, answer, outcome, closing>>

CollectSwallowingSentinel ==
    /\ worker = "drain"
    /\ Len(batch) < BatchMax
    /\ queue # <<>>
    /\ queue' = Tail(queue)
    /\ IF Head(queue) = Shutdown
       THEN worker' = "run" /\ UNCHANGED batch
       ELSE batch' = Append(batch, Head(queue)) /\ UNCHANGED worker
    /\ UNCHANGED <<closed, submitting, item, answer, outcome, closing>>

(* The next job before the window closes; a sentinel ends the batch and is  *)
(* to be put back.                                                         *)
CollectNext ==
    /\ worker = "drain"
    /\ Len(batch) < BatchMax
    /\ queue # <<>>
    /\ queue' = Tail(queue)
    /\ IF Head(queue) = Shutdown
       THEN worker' = "repost" /\ UNCHANGED batch
       ELSE batch' = Append(batch, Head(queue)) /\ UNCHANGED worker
    /\ UNCHANGED <<closed, submitting, item, answer, outcome, closing>>

Repost ==
    /\ worker = "repost"
    /\ queue' = Append(queue, Shutdown)
    /\ worker' = "run"
    /\ UNCHANGED <<closed, submitting, item, answer, outcome, closing, batch>>

(* A bug: the job that was drawn when the window expired is dropped.        *)
CollectDroppingLate ==
    /\ worker = "drain"
    /\ worker' = "run"
    /\ queue' = IF queue = <<>> THEN queue ELSE Tail(queue)
    /\ UNCHANGED <<closed, submitting, item, answer, outcome, closing, batch>>

(* The batch is full, or the window expired: the clock may say so anytime.  *)
CollectDone ==
    /\ worker = "drain"
    /\ worker' = "run"
    /\ UNCHANGED <<closed, queue, submitting, item, answer, outcome, closing, batch>>

(* run_batch returns one result per item; or it raises, or returns another  *)
(* number of results, which _dispatch turns into an exception.              *)
RunBatch ==
    /\ worker = "run"
    /\ worker' \in {"scatter", "fail"}
    /\ UNCHANGED <<closed, queue, submitting, item, answer, outcome, closing, batch>>

Done(rest) == IF rest = <<>> THEN "collect" ELSE worker

(* Bugs: results scattered in another order than their jobs, and a worker   *)
(* thread that ends with a failing batch.                                  *)
ScatterMisaligned ==
    /\ worker = "scatter"
    /\ answer' = [answer EXCEPT ![Head(batch)] = Result(item[batch[Len(batch)]])]
    /\ batch' = Tail(batch)
    /\ worker' = Done(Tail(batch))
    /\ UNCHANGED <<closed, queue, submitting, item, outcome, closing>>

ScatterErrorAndStop ==
    /\ worker = "fail"
    /\ answer' = [answer EXCEPT ![Head(batch)] = Raised]
    /\ batch' = Tail(batch)
    /\ worker' = IF Tail(batch) = <<>> THEN "stopped" ELSE worker
    /\ UNCHANGED <<closed, queue, submitting, item, outcome, closing>>

(* The results go to the jobs one by one, and each wakes its caller.        *)
ScatterResult ==
    /\ worker = "scatter"
    /\ answer' = [answer EXCEPT ![Head(batch)] = Result(item[Head(batch)])]
    /\ batch' = Tail(batch)
    /\ worker' = Done(Tail(batch))
    /\ UNCHANGED <<closed, queue, submitting, item, outcome, closing>>

ScatterError ==
    /\ worker = "fail"
    /\ answer' = [answer EXCEPT ![Head(batch)] = Raised]
    /\ batch' = Tail(batch)
    /\ worker' = Done(Tail(batch))
    /\ UNCHANGED <<closed, queue, submitting, item, outcome, closing>>

Collect == CollectFirst \/ CollectNext \/ Repost \/ CollectDone
Dispatch == RunBatch \/ ScatterResult \/ ScatterError
Loop == Collect \/ Dispatch

Submit(c) ==
    \/ SubmitRefused(c) \/ SubmitPut(c) \/ SubmitReturn(c)
    \/ \E i \in Items : SubmitChecked(c, i)

Close(k) == CloseChecked(k) \/ CloseSet(k) \/ ClosePut(k)

Next ==
    \/ \E c \in Callers : Submit(c)
    \/ \E k \in Closers : Close(k)
    \/ Loop

Spec == Init /\ [][Next]_vars

(* Threads keep running: the worker takes its next step, a caller that is   *)
(* past the check enqueues and wakes up, a closer past its check finishes.  *)
(* Nobody has to submit or to close.                                       *)
Fairness ==
    /\ WF_vars(Loop)
    /\ \A c \in Callers : WF_vars(SubmitPut(c)) /\ WF_vars(SubmitReturn(c))
    /\ \A k \in Closers : WF_vars(CloseSet(k)) /\ WF_vars(ClosePut(k))

FairSpec == Spec /\ Fairness

-----------------------------------------------------------------------------
Phases == {"idle", "checked", "waiting"}

TypeOK ==
    /\ closed \in BOOLEAN
    /\ queue \in Seq(Callers \cup {Shutdown})
    /\ submitting \in [Callers -> Phases]
    /\ item \in [Callers -> Items \cup {NoItem}]
    /\ answer \in [Callers -> {Result(i) : i \in Items} \cup {Raised, Pending}]
    /\ outcome \in [Callers -> {Result(i) : i \in Items} \cup {Raised, Refused, Pending}]
    /\ closing \in [Closers -> {"idle", "checked", "set", "done"}]
    /\ worker \in {"collect", "drain", "repost", "run", "scatter", "fail", "stopped"}
    /\ batch \in Seq(Callers)
    /\ Len(batch) <= BatchMax

InHand(c) == \E i \in DOMAIN batch : batch[i] = c
InQueue(c) == \E i \in DOMAIN queue : queue[i] = c

(* A blocked caller's job is held in exactly one place, once, until it is   *)
(* answered, and an answered job is nowhere: a job lost between the queue   *)
(* and the batch blocks its caller for ever, and a duplicated one runs the  *)
(* model twice and may answer the caller's next submission.                *)
Unanswered(c) == submitting[c] = "waiting" /\ answer[c] = Pending

EachJobHeldOnce ==
    /\ \A i, j \in DOMAIN queue :
          queue[i] = queue[j] /\ queue[i] # Shutdown => i = j
    /\ IsInjective(batch)
    /\ \A c \in Callers :
          /\ ~(InHand(c) /\ InQueue(c))
          /\ Unanswered(c) <=> InHand(c) \/ InQueue(c)

(* Every caller gets the result of its own item, an exception, or at once   *)
(* the refusal: batching, failing batches and shutdown can not be told from *)
(* a server that answers each caller alone.                                *)
Alone == INSTANCE BlockingCalls WITH asked <- item
ImplementsBlockingCalls == Alone!Spec

(* A job enqueued before anybody closes is answered, in particular when     *)
(* close() comes right behind it or an earlier batch failed ("One poisoned  *)
(* batch must never wedge the queue").                                     *)
SubmittedBeforeCloseIsAnswered ==
    \A c \in Callers :
        (submitting[c] = "waiting" /\ ~closed) ~> submitting[c] = "idle"

(* close() ends the worker thread, also when its sentinel is drawn in the   *)
(* middle of a batch and when two threads close at the same time.          *)
CloseStopsTheWorker == closed ~> worker = "stopped"

(* "It runs for a rental day; it must not deadlock": every blocked caller   *)
(* is woken up.  It is not so for a caller that saw _closed unset and       *)
(* enqueues behind the sentinel.                                           *)
EveryBlockedCallerReturns ==
    \A c \in Callers : submitting[c] = "waiting" ~> submitting[c] = "idle"
=============================================================================
