---------------------------- MODULE WorkloadReplay ----------------------------
(***************************************************************************)
(* One repeat of the benchmark client (scheduler_benchmark/runner.py): the  *)
(* workload is replayed open loop, every request at its own scheduled time  *)
(* (run_replay), over a streamed HTTP response (stream_completion); then    *)
(* the requests after the warm-up are measured (measurement_window,         *)
(* summarize_samples).  What the runner does with the record of a repeat is *)
(* MatrixCell's subject.                                                   *)
(*                                                                         *)
(* The tasks of all requests share one event loop: between the time a task  *)
(* is due and the time it runs any other task may run, so it is late by any *)
(* amount.  The runner's three clocks are one clock here.                   *)
(***************************************************************************)
EXTENDS Naturals, FiniteSets, FiniteSetsExt

CONSTANTS
    Count,    \* requests of the workload, in its order
    Warmup,   \* how many of them are not measured
    Horizon   \* bounds the clock

Workload == 1..Count

ASSUME ReplayAssumption ==
    /\ Count \in Nat \ {0} /\ Horizon \in Nat
    /\ Warmup \in 0..Count - 1   \* resolve_warmup_requests

VARIABLES
    time,       \* the client's clock
    offset,     \* when each request is scheduled
    task,       \* "asleep", "streaming" or "done"
    dispatched, \* when each was sent
    stream,     \* what its response has brought: a first token, the usage
    sample,     \* its ResponseSample, once it is done
    window      \* the measured requests' metrics, once all are done

replayVars == <<time, offset, task, dispatched, stream, sample, window>>

NoTime == Horizon + 1
NoStream == [first |-> NoTime, usage |-> FALSE]
NoSample == [ok |-> FALSE, lag |-> 0, ttft |-> 0, ttlt |-> 0, finished |-> NoTime]
NoWindow == [start |-> NoTime, duration |-> 0, completed |-> 0, valid |-> FALSE]

(* build_arrival_offsets: exponential gaps, so in the workload's order.     *)
ReplayInit ==
    /\ time = 0
    /\ offset \in {o \in [Workload -> 0..Horizon] : \A i, j \in Workload : i < j => o[i] <= o[j]}
    /\ task = [r \in Workload |-> "asleep"]
    /\ dispatched = [r \in Workload |-> NoTime]
    /\ stream = [r \in Workload |-> NoStream]
    /\ sample = [r \in Workload |-> NoSample]
    /\ window = NoWindow

(* A bug: the wait for the event loop is nobody's. *)
LagForgotten(r) == 0

(* dispatch_lag_ms *)
Lag(r) == dispatched[r] - offset[r]

TimePasses ==
    /\ time < Horizon
    /\ time' = time + 1
    /\ UNCHANGED <<offset, task, dispatched, stream, sample, window>>

(* send_at_offset after its sleep, which ends no earlier than it is due.    *)
Dispatch(r) ==
    /\ task[r] = "asleep" /\ time >= offset[r]
    /\ task' = [task EXCEPT ![r] = "streaming"]
    /\ dispatched' = [dispatched EXCEPT ![r] = time]
    /\ UNCHANGED <<time, offset, stream, sample, window>>

(* A data line: a token or a tool call, the usage, or both.                 *)
Receives(r) ==
    /\ task[r] = "streaming"
    /\ \E token, usage \in BOOLEAN :
          stream' = [stream EXCEPT ![r] =
              [first |-> IF token /\ @.first = NoTime THEN time ELSE @.first,
               usage |-> @.usage \/ usage]]
    /\ UNCHANGED <<time, offset, task, dispatched, sample, window>>

(* The task returns its sample, and its locals are gone. *)
Done(r, ok, first) ==
    /\ task' = [task EXCEPT ![r] = "done"]
    /\ dispatched' = [dispatched EXCEPT ![r] = NoTime]
    /\ stream' = [stream EXCEPT ![r] = NoStream]
    /\ sample' = [sample EXCEPT ![r] =
          [ok |-> ok, finished |-> time, lag |-> Lag(r),
           ttft |-> Lag(r) + (first - dispatched[r]),
           ttlt |-> Lag(r) + (time - dispatched[r])]]
    /\ UNCHANGED <<time, offset, window>>

(* [DONE] or the end of the stream: without a usage the response is an      *)
(* error, without a token the first token came with the last.              *)
Ends(r) ==
    /\ task[r] = "streaming"
    /\ IF stream[r].usage
       THEN Done(r, TRUE, IF stream[r].first = NoTime THEN time ELSE stream[r].first)
       ELSE Done(r, FALSE, time)

(* An HTTP error, a line that is not JSON, a lost connection or the total   *)
(* timeout: the task ends with an error sample, never with the exception.   *)
Fails(r) ==
    /\ task[r] = "streaming"
    /\ Done(r, FALSE, time)

(* A bug: the window opens when the first measured request is answered. *)
WindowFromAnswers ==
    LET measured == {r \in Workload : r > Warmup}
        finishes == {sample[r].finished : r \in measured}
    IN [start |-> Min(finishes), duration |-> Max(finishes) - Min(finishes),
        completed |-> Cardinality({r \in measured : sample[r].ok}),
        valid |-> \A r \in Workload : sample[r].ok]

(* measurement_window, summarize_samples and assess_completeness: an error   *)
(* outside the window makes the repeat invalid as well.                     *)
Window ==
    LET measured == {r \in Workload : r > Warmup}
        start == Min({offset[r] : r \in measured})
    IN [start |-> start,
        duration |-> Max({sample[r].finished : r \in measured}) - start,
        completed |-> Cardinality({r \in measured : sample[r].ok}),
        valid |-> \A r \in Workload : sample[r].ok]

(* asyncio.gather returns when every task has.                              *)
Gathered ==
    /\ \A r \in Workload : task[r] = "done"
    /\ window = NoWindow
    /\ window' = Window
    /\ UNCHANGED <<time, offset, task, dispatched, stream, sample>>

ReplayNext ==
    \/ TimePasses \/ Gathered
    \/ \E r \in Workload : Dispatch(r) \/ Receives(r) \/ Ends(r) \/ Fails(r)

ReplaySpec == ReplayInit /\ [][ReplayNext]_replayVars

-----------------------------------------------------------------------------
(* No coordinated omission: whatever kept the event loop busy, a measured   *)
(* request's latency is the time since it was scheduled, in order of its     *)
(* parts, and lies in the window the throughput is computed over.          *)
LatencyIsFromTheSchedule ==
    window # NoWindow =>
        \A r \in Warmup + 1..Count :
            LET s == sample[r]
            IN /\ s.ttlt = s.finished - offset[r]
               /\ s.lag <= s.ttft /\ s.ttft <= s.ttlt
               /\ window.start <= offset[r]
               /\ s.finished <= window.start + window.duration
=============================================================================
