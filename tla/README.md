# A TLA+ model of the LTR serving path and its benchmark

The repository schedules LLM requests by predicted length ("learning to rank", LTR). A
gateway asks a decision service how long a request's answer will be; the service asks a
model, unless its reliability gate abstains; the gateway forwards the request to vLLM
with the estimate; a custom vLLM scheduler orders the waiting queue by it. Shell drivers
launch one vLLM per scheduler, replay a workload against it and archive the evidence;
others measure the overhead of the path, pay for labels, restore a release, train the
models and compare policies on a simulator. This directory holds a TLA+ specification of
those parts, TLC configurations that check small instances, and TLAPS proofs.

Line references are to `src/`. Every operator that models code is listed in
`PROJECT.json` under `map` with the lines it stands for.

## 1. Inventory

| Component | State it keeps | Operations | What is hard |
|---|---|---|---|
| Queue policies, `scheduler_benchmark/policies.py` | none | `order_waiting_requests`, one ordering per policy | positions: Rule C re-sorts only the slots trusted requests hold; the prompt-length policy falls back as a whole; the aging policies' keys move with the clock |
| Policy scheduler, `vllm_scheduler.py` | the waiting queue, the running batch (both vLLM's), `_ltr_predictions` | `add_request`, `schedule` | the queue is emptied and refilled at every step while vLLM admits, preempts and aborts; predictions are keyed by id and never evicted |
| Micro batcher, `micro_batcher.py` | a queue, a `_closed` event, one event per job | `submit`, `close`, the worker's `_collect` and `_dispatch` | three kinds of threads; shutdown while callers enqueue; a failing batch |
| Decision service, `decision_service.py` | readiness, a bounded semaphore | `decide` on a thread per request | slots on every path, including exceptions; the gate's short-circuit before the slot |
| Gateway, `gateway_transport.py`, `mock_stack.py` | none across calls | the RPC with a timeout, validation, rewriting of the payload, forwarding | a late answer, a service that stops in the middle of a call, arguments left in a payload that is sent again |
| Predictors and vocabulary, `predictor.py`, `tool_vocabulary.py` | model and vocabulary | `predict`, `confidence` | the same confidence is computed in two places |
| Runner, `runner.py` | subrun files, output file | resume, replay, write artifacts, exit status | cut off between two files; what a resumed run reuses |
| Matrix driver, `scripts/server/_matrix_common.sh` | manifest, evidence archive, active attempt | `run_policy`, `cleanup` trap | a crash, a failed launch, an engine that does not stop, a signal whose trap does not exit, between any two commands; then `--resume` |
| Service launchers, `launch_*.sh` | pidfile and start-time file | start, health poll, stop | stale pids, traps |
| Overhead benchmark, `run_block2_overhead.sh`, `gateway_overhead.py` | pids, the attempt's status, one output per arm | `run_arm`, `wait_healthy`, `stop_*`, traps | which services an arm really runs with; processes the script does not wait for |
| Labels, `tier2.py`, `run_post_matrix_tier2.sh` | a JSONL ledger per stage, a report | `replay_labels`, smoke test, pilot, gate, full replay | concurrent calls, a torn last line, what a rerun pays for again |
| Restore, `restore_from_oss.sh`, `rank_quantiles.py` | a release directory, sidecar and manifest | download, unpack, repair, merge, build | killed between two files, unpacking in place |
| Training, `training_matrix.py`, `tier2_training.py`, `train_ranker.py` | work and result directories, summaries | train, copy, reuse, summarize | files written and copied in place: partial copies taken for results, leftovers that block every rerun |
| Matrix scripts, `run_matrix.sh`, `run_block1_matrix.sh` | the tag's cells, the preflight log | stages under `set -e`, the preflight gate | rerun under one tag with what an earlier invocation left |
| Reference simulator, `reference/simulator/` | clock, queue, attained service | selection and quantum simulators | bounds on waiting, work conservation across algorithms |
| gRPC worker, statistics, workload building, plots | none of interest | batch code | - |

How they interact: the gateway calls the service over HTTP (a thread on each side);
the service's threads call `BertPredictor.predict`, which goes through the micro
batcher's `submit`; the gateway calls vLLM over HTTP, the estimate travelling in
`vllm_xargs`; in the engine core `GatewayMetadataPredictor` reads it back and the
policy scheduler orders by it. The drivers only talk to the others through processes
and files: pidfiles, a manifest, the gateway's order log, ledgers, result directories.

What makes each part correct: a policy rearranges the queue and nothing else, and keeps
the promise of its name; the scheduler neither loses nor duplicates a request; the
batcher cannot be told from independent blocking calls; a slot is never lost; the engine
never trusts an estimate nobody vouched for, and a failing service never fails a
request; a cell is accepted only with its evidence, never measured twice, and can be
resumed; an arm is measured through the components it names; no label that a ledger in
use holds is asked for again; what is published, restored or trained is whole however
often it was cut off; a latency counts from the schedule; a launcher signals nobody
else's process. The list of hazards in `PROJECT.json` names the lines where each of
these could go wrong.

## 2. Modules

| Module | Models | Correspondence |
|---|---|---|
| `QueuePolicies` | `policies.py`, all seven policies | an ordering is the set of rearrangements that are ascending by the policy's key, at the ages the requests have. No recursion, so it can be proved about |
| `PolicyScheduler` | `_PolicyScheduler` with vLLM around it | one action per call of the single engine-core thread. `Schedule` and `SchedulePreempting` are `reorder_request_queue` plus what `super().schedule()` does. vLLM's part is external: admission from the head, preemption of the newest running request to the head of the queue |
| `StockFcfs` | the stock scheduler | the abstract specification of `PolicyFCFS` |
| `MicroBatcher` | `micro_batcher.py` | one action per operation on shared state: the `_closed` check and the `put` of a caller are two steps, as are `close()`'s |
| `BlockingCalls` | what `submit` promises | the abstract specification of `MicroBatcher`: no queue, batch or worker |
| `DecisionRules` | the data rules of service, gateway and engine | pure operators: reason codes, response, bundle validation, argument rewriting, the engine's reading |
| `DecisionPath` | gateway thread, handler thread, semaphore, process restarts | one action per step that another thread or a fault can come between |
| `MatrixCell` | `run_policy`, `cleanup`, the runner's files | one action per command of the script and file of the runner; faults cut in anywhere. What follows the replay is `StopEngine` (421), `Collect` (422), `Judge` (423-451, with `MarkComplete` of 452) and `Accept` (453), because INT and TERM run the trap between any two of these and do not end the script |
| `MatrixBatch` | the stages of `run_matrix.sh` and `run_block1_matrix.sh` | one action per stage and per outcome; a cell is `MatrixCell`'s subject and only accepted or not here. The overhead stage is told apart into its commands (`RegisterOverhead` to `PassOverhead`, 549-577), as the trap may run between them |
| `WorkloadReplay` | `run_replay`, `stream_completion`, `measurement_window` | one action per thing a task of the event loop does; a task may run any time after it is due |
| `OverheadArms` | `run_block2_overhead.sh` and the services it forks | the script's steps and those of the processes it does not wait for; a port is answered by at most one process. The end of the block is four steps, one per command of lines 243 to 246 |
| `ServiceLauncher` | the pidfile protocol of `launch_*.sh`, `safe_stop_pidfile` | a pid can outlive its process and be given again; each file is a step of its own |
| `LabelLedger` | `replay_labels`, `run_post_matrix_tier2.sh` | one action per call that ends and per line appended; kills leave torn lines. Three ledgers: of the smoke test, the pilot and the full replay |
| `ReleaseRestore` | `restore_from_oss.sh` with merge and build | extends `LabelLedger`: the restore repairs the ledger with one more replay of it |
| `TrainingMatrix` | the three training drivers and `train` | one action per directory made, file written and summary listed; a metrics file is opened and finished in two steps |
| `QueueSimulation` | `simulate_queue`, `_simulate_selection`, `_simulate_preemptive` | one action per decision of the simulator |
| `Lemmas` | - | facts about numbers and queues that the proofs share |
| `PolicyScheduler_proofs`, `MicroBatcher_proofs`, `DecisionPath_proofs`, `MatrixCell_proofs` | - | proofs about the module of that name and what it is built from, section 5 |
| `Drivers_proofs` | - | proofs about `ServiceLauncher`, `OverheadArms`, `MatrixBatch` and `TrainingMatrix` |
| `LabelLedger_proofs` | - | proofs about `LabelLedger` and `ReleaseRestore` |
| `Measurement_proofs` | - | proofs about `WorkloadReplay` and `QueueSimulation` |
| `MCPolicyScheduler`, `MCDecisionPath`, `MCMatrixCell`, `MCExperiments` | - | values of the constants for TLC |

The programs away from the serving path share no state while they run, so
`MCExperiments` puts them side by side: its variable `part` says which one a behaviour is
about, and the others stay as they began. This is one run of eight small state spaces,
not a composition. The composition that the files do make, of the campaign's ledger with
the restore that repairs it, is in `ReleaseRestore`.

Operators commented "A bug: ..." are plausible mistakes in the code. Nothing refers to
them; put in the place of the definition they stand before, each one must break the
property `PROJECT.json` pairs it with under `mutants`, which shows that the property
depends on that piece of code.

### Abstractions

* Confidences and token counts are small naturals: only their order matters. In
  `QueuePolicies` scores are tenths and costs ten-thousandths of a millisecond, and the
  code's quotients are compared by cross-multiplication, exactly instead of in floating
  point. Prompts are pairs of a length and a category, from a small set, and one latency
  stands for that of every prediction.
* The ages that the aging policies divide by are chosen anew at every step, up to
  `MaxAge`, not increasing along the order of arrival. Nothing relates those of two
  steps, because `schedule` subtracts a wall clock, which may be set back.
  A clock is replaced by the order of arrival; `ArrivalSkew` lets a request reach
  the engine core after requests that arrived later, as the arrival time is taken
  in the API server.
* The content of a request to the service is reduced to what decides its fate: the
  validation error, which of the three transports of a schema it uses, the optional
  fields it brings, the gate's confidence in its schema, and the arguments its payload
  already carries. What a feature variant misses is computed from these as the code does.
  A body over the size limit and a request `_build_decision_request` makes nothing of are
  such errors as well (`TooLarge`, `Unreadable`).
* A bundle is the fields whose values depend on the request or the service. The other
  checks of `_validate_bundle` (versions, names, units, finiteness) are of constants the
  service writes itself, and pass for every bundle it sends.
* `urlopen`'s timeout may pass at any moment, and so may the batcher's window: no
  real time is modelled.
* A replay is its number of failed requests and whether any decision failed during
  it. The attempts of earlier driver runs are a set, because every question the
  driver asks of them is "for all" or "some".
* The tolerance of failed requests is a number instead of a rate; the number of
  requests of a cell is fixed, so they are the same test.
* The pair of replays of an overhead arm, and of a preflight probe, is its outcome.
* Start times are unique: the machine is not rebooted. Reading `/proc` and the `kill`
  that follows are one step.
* The runner's clocks (`runner.py:371-390` mixes monotonic and wall time) are one clock;
  a wall clock that is set back could falsify the measurement window.
* The campaign is restarted only when its replay process is over. Several error rows in
  a row for one sample are kept as one, since every reader asks for the last good row.

## 3. Runs

| Run | Bounds | Shows |
|---|---|---|
| `sched_policies` | 3 request ids (reused), 7 policies, 2 scores plus fallback, 3 prompts (no tokens chat, 1 token multi-turn, 2 tokens other), latency 60, deadline 1, ages 0..2, batch of 2, skew 1 | types, no lost request, predictions present; and for each policy that an admission step takes the requests it promises. Three requests are the fewest with an abstained request between two trusted ones and a change of order across it; a batch of 2 is the least that can preempt; the ages lie on both sides of the deadline, so that discounts and penalties both reverse an order |
| `sched_fcfs` | 4 ids, batch of 2, no skew | `PolicyFCFS` implements `StockFcfs`; no starvation under fair scheduling with unfair clients |
| `sched_rule_c_starves` (violated) | 3 ids, batch of 1 | Rule C may starve an abstained request |
| `batcher` | 3 callers, 2 closers, 2 items, batches of 2 | refinement of `BlockingCalls`, single holding of jobs, liveness of early jobs and of `close`. Three callers fill a batch with one left over; two closers put two sentinels |
| `batcher_strands` (violated) | 2 callers, 1 closer | the close/submit race strands a caller |
| `path` | 2 connections, 1 slot, 4 configurations over 3 feature variants, 7 kinds of request: a schema by tools, by system message and not at all, one refused by the service, one too large for it and one the gateway refuses itself | slots, vouched estimates, abstention, agreement of gate and predictor, valid answers, every call ends. Two calls are the fewest that contend for the slot |
| `path_reset` (violated) | the BERT service only | a service that stops during a call |
| `cell` | 2 repeats that are alike (symmetry), 3 kinds of scheduler, 0, 2 or 3 failures each, tolerance 2 | records, measurements, accepted evidence, resumption. Two repeats with 2 failures go over the tolerance only together, one with 3 does alone; an attempt can resume one repeat and measure the other |
| `cell_resume`, `cell_tolerance` (violated) | 2 repeats, 0..2 failures, tolerance 1, one scheduler | see section 4 |
| `experiments` | 6 arms with and without services left up; 4 simulated requests, 7 algorithms (`gateway` stands for the two policies whose score the repository does not define); 3 samples of which 2 can be labelled, smoke test and pilot of 1, 2 failed calls or kills; 2 drivers of 3 runs, 2 kills; both scripts' stages, 3 faults; 3 replayed requests, 1 warm-up, clock to 2; 2 pids, 4 process starts | the properties of the eight modules of section 2 that stand around the serving path. The arms are the direct one, the bare gateway, two modes of the decision service and two of these again, as in the second pass; 4 requests let two become overdue while a third is served and a fourth arrives; a sample beyond the pilot that can be labelled is one whose label a rerun of the campaign may remove from the full ledger; 2 kills are enough to be killed while repairing what the first left; 3 faults let a script fail, be cut off and fail again under one tag; with 2 pids and 4 starts a pid is given again while its pidfile is there |
| `arms` (violated) | the arms alone | see section 4 |

No state constraint bounds any run: the state spaces are finite because ids are
reused, queues hold each id once, and earlier attempts are a set.

### Fairness

* `PolicyScheduler`: weak fairness of `Schedule` (the engine core steps while it has
  requests) and of each `Finish` (a running request generates its last token, unless
  preempted first). Arrivals, aborts and preemption are not fair.
* `MicroBatcher`: weak fairness of the worker's loop and of a caller or closer that
  is past its check: threads that can run do. Nobody is obliged to submit or close.
* `DecisionPath`: weak fairness of ending the RPC (the timeout guarantees it), of
  forwarding (a timeout as well) and of the handler; not of starting the service.
* `MatrixCell` has safety properties only: nothing obliges anyone to rerun a driver.
* `OverheadArms`: weak fairness of the script and of the processes it forked: a shell
  runs its next command, a starting process binds, fails or is refused.
* `ReleaseRestore`: weak fairness of the restore and what it calls, including that a
  restore that failed is run again; `RestoreGetsDone` is the promise to someone who does
  that. It excepts what a kill may leave behind for good (`Blocked`), each a real leftover.
* `TrainingMatrix`: weak fairness of a driver that runs, not of starting one;
  `MatrixGetsDone` assumes in its statement that the driver is started again and again,
  and excepts runs that a kill left half done (`Stuck`).

`CHECK_DEADLOCK FALSE` is used for the batcher, where after `close()` every thread may be
at rest for good, and for `experiments` and `arms`, whose programs end.

## 4. Where code and documentation disagree

1. `sched_rule_c_starves`: `policies.py:121-124` says Rule C "cannot starve traffic by
   failing to understand it". An abstained request keeps its slot, but an *older
   trusted* request in front of it can be passed by newer trusted requests for ever;
   the queue then only ever admits the slot ahead of the abstained request.
2. `batcher_strands`: `micro_batcher.py:12-13` "must not deadlock". A caller between
   lines 89 and 92 while `close()` runs enqueues behind the sentinel and waits for ever.
3. `path_reset`: the design document
   (`2026-07-15-server-training-data-storage-veloxmesh-design.md:372`) promises
   `fallback_native` when the service fails; `call_decision_service` does not catch the
   exception of a connection that is closed before the answer, so the request is lost.
4. `cell_resume`: `_matrix_common.sh:429-430` speaks of "a resume loop it could never
   leave". A driver cut off after the runner wrote a complete output, before its
   attempt is marked complete, leads back into it; so does one whose engine still answers
   a minute after `stop_vllm` at line 421, which ends the driver under `set -e`.
5. `cell_tolerance`: `_matrix_common.sh:294-296` says failed decisions invalidate a
   cell; the gate reads nothing that could tell it.
6. `arms`: `run_block2_overhead.sh:185` "Each arm brings up exactly the components it
   needs". `GATEWAY_PID` names the launcher, which ends once the gateway is healthy, so
   `stop_gateway` stops nothing: later gateway arms are measured through G0's gateway,
   which asks no decision service.

Met on the way, without a run of their own: with `LTR_CONSTANT_CONFIDENCE` set the
gate and the predictor do not "agree by construction" (`predictor.py:166-167`;
`GateAgreesWithPredictor` fails with an override in the configuration); a
`reliability_threshold` of 0.0 turns an abstention into an internal error, since
`_build_response` then wants a score (`decision_service.py:218-220`); the stub response
without a quantile mapper is always malformed to the gateway, because
`_validate_bundle` requires the mapper's provenance; `StockFCFSShim` is exempt from the
order log in `run_policy` (line 446) but not in `require_completed_evidence` (line 378).

Around the serving path, likewise:

* an empty `tools` array counts as a schema for `_optional_feature_missing` and gives
  `_predictor_input` none; a last message without a text makes `BertPredictor` raise,
  hence a 503, even for a schema the vocabulary knows;
* `_matrix_common.sh:452-453`: a signal while line 452 marks the attempt complete has the
  trap mark it failed, since the tag is still set, and line 453 accepts the cell. The next
  driver run then finds a complete output without a completed attempt and refuses it.
  `AcceptedCellIsBacked` states what remains true. `run_matrix.sh:576-577` is the same for
  the overhead attempt, and the upload follows: `PublishedRunIsWhole`;
* `run_block2_overhead.sh:244-246`: a signal during 244 has the trap mark the attempt
  failed, and 245 marks it complete; one during 245 makes a complete attempt failed.
  `FailedAttemptStaysFailed` excepts the first, and only it;
* `trap block2_cleanup EXIT` (`run_block2_overhead.sh:77`) replaces the library's
  `trap cleanup EXIT`: a failing block leaves its vLLM running and its attempt pending;
* the launchers' INT and TERM traps clean up and do not exit; their "ready" is answered
  by whoever holds the port;
* a checkpoint directory a killed training left makes every retraining of that run fail
  (`mkdir(exist_ok=False)`), and a copy cut off after the metrics file is taken for a
  result, also as the start of a Tier 2 run;
* the metrics file is written and copied in place (`training_matrix.py:76`, `:118`) and
  only tested for existence (`:108`): a kill while it is written leaves a file that
  `json.loads` refuses on every rerun;
* Tier 2 summaries stamp reused runs with the current exclusion counts, and the learning
  curve writes `"no_new_labels": True` while it reads the ledger again for each pool;
* a torn ledger line makes `read_jsonl` raise for good, contrary to `tier2.py:211-212`
  ("appended and fsynced atomically for resume"); a torn label source is a permanent NO-GO;
* `PREPARE_QUANTILES` run again after a success always fails with `FileExistsError`, and
  a crash in the build leaves a `.tmp` or a lone sidecar that blocks every later build;
* a campaign that is run again overwrites the full ledger with the pilot's
  (`run_post_matrix_tier2.sh:101-103`): labels beyond the pilot that the full ledger held
  are asked for, and paid, again. The smoke test's labels are paid again by the pilot, and
  an answer that was not yet written when the replay was killed by the next one.
  `NoLabelIsAskedForAgain` is what the code does keep: a replay asks for nothing that its
  ledger, or the pilot's it continues, holds when it asks;
* `offline_policy_simulator.py:230-243` orders by `gateway_policy_optimizer` under two of
  its policies, a module the repository does not contain; the model lets that score be
  anything.

## 5. Proofs

TLAPS proves the following for all values of the constants that satisfy the named
assumptions of the modules.

| Theorem | States |
|---|---|
| `PolicyScheduler_proofs!PolicyRearranges` | every policy, on every queue and with every prediction, only rearranges the queue |
| `PolicyScheduler_proofs!SchedulerTypes` | `Spec => []TypeOK`, with it the bound of the running batch |
| `PolicyScheduler_proofs!NoRequestLost` | `Spec => []EachLiveRequestOnce` |
| `PolicyScheduler_proofs!LookupNeverFails` | `Spec => []EveryQueuedRequestIsPredicted` |
| `PolicyScheduler_proofs!RuleCKeepsPlaces` | `Spec => AbstainedKeepsItsPlace` |
| `PolicyScheduler_proofs!ShorterGoesFirst` | `Spec => ShortestPredictionFirst` |
| `PolicyScheduler_proofs!SjfFallsBack` | `Spec => SjfFallsBackToArrivalOrder` |
| `PolicyScheduler_proofs!FcfsIsStock` | `Spec /\ policy = "policy_fcfs" => Stock!Spec` where `ArrivalSkew = 0`: the refinement of `StockFcfs`, without its fairness |
| `MicroBatcher_proofs!BatcherTypes` | `Spec => []TypeOK`, with it the bound of a batch |
| `MicroBatcher_proofs!NoJobLost` | `Spec => []EachJobHeldOnce` |
| `MicroBatcher_proofs!BatchingIsInvisible` | `Spec => ImplementsBlockingCalls`, the whole refinement |
| `DecisionPath_proofs!PathTypes` | `Spec => []TypeOK`, with it the bounds of the semaphore |
| `DecisionPath_proofs!NoSlotLeaks` | `Spec => []EverySlotIsAccountedFor` |
| `DecisionPath_proofs!OnlyVouchedEstimates` | `Spec => []OnlyVouchedEstimatesReachTheEngine` |
| `DecisionPath_proofs!MapperAnswersAreWellFormed` | `Spec => []NoAnswerIsMalformed` |
| `DecisionPath_proofs!AbstentionNeedsNoModel` | `Spec => []AbstentionIsAnswered`, where every threshold is above zero |
| `DecisionPath_proofs!GateChangesNoAnswer` | `Spec => []GateAgreesWithPredictor`, where no configuration overrides the confidence |
| `MatrixCell_proofs!CellTypes` | `Spec => []TypeOK` |
| `MatrixCell_proofs!EveryRecordHasItsSamples` | `Spec => []RecordsHaveTheirSamples` |
| `MatrixCell_proofs!AcceptanceIsBacked` | `Spec => []AcceptedCellIsBacked` |
| `MatrixCell_proofs!NothingIsMeasuredTwice` | `Spec => MeasurementsAreKept` |
| `MatrixCell_proofs!UndisturbedResumption` | `Spec => []UndisturbedCellIsResumable` |
| `Drivers_proofs!StopsOnlyItsOwn` | `LauncherSpec => []OnlyServicesAreSignalled` |
| `Drivers_proofs!OneEnginePerBlock` | `ArmsSpec => []CompleteBlockHasOneEngine`, for any order of arms |
| `Drivers_proofs!FailureIsFinal` | `ArmsSpec => FailedAttemptStaysFailed` |
| `Drivers_proofs!NoInheritedDecider` | `ArmsSpec => []NoArmInheritsADecider`, for any order of arms and whether services are left up or not |
| `Drivers_proofs!GateIsHonest` | `BatchSpec => []GateSawThisChain` |
| `Drivers_proofs!PublishedIsWhole` | `BatchSpec => []PublishedRunIsWhole`, for any plan of stages |
| `Drivers_proofs!SummariesListTrainedRuns` | `TrainSpec => []ListedRunsAreTrained`: what a training summary lists was trained to its end and has its metrics |
| `LabelLedger_proofs!NoLabelIsPaidForAgain` | `LedgerSpec => NoLabelIsAskedForAgain`, for any number of samples |
| `LabelLedger_proofs!ManifestFitsItsLabels` | `RestoreSpec => []ManifestMatchesItsLabels` |
| `LabelLedger_proofs!RepairAsksForNoLabelAgain` | `RestoreSpec => NoLabelIsAskedForAgain`, for the repair of a restored ledger |
| `Measurement_proofs!LatencyCountsFromTheSchedule` | `ReplaySpec => []LatencyIsFromTheSchedule`, for any workload and any delays |
| `Measurement_proofs!SameWork` | `SimSpec => []SameWorkForEveryAlgorithm`, for any number of requests |
| `Measurement_proofs!GuardBounds` | `SimSpec => []GuardBoundsTheWait` |
| `Measurement_proofs!AgingFavoursTheOlder` | `SimSpec => NoDearerNewcomerPasses` |

`LauncherSpec`, `ArmsSpec`, `BatchSpec`, `TrainSpec`, `LedgerSpec`, `RestoreSpec`,
`ReplaySpec` and `SimSpec` are the parts of `MCExperiments` as specifications of their
own, without fairness. The inductive invariants of cell, arms, scripts, ledger, restore,
replay and simulators are theorems too (`CellInvariant`, `ArmsInvariant`, `BatchInvariant`,
`LedgerInvariant`, `RestoreInvariant`, `ReplayInvariant`, `SimulatorsServeInTime`).

`Lemmas` holds what these need about queues without duplicates: appending, cutting,
inserting and removing keep them so, and what each does to the set of elements and to
the places of the others. The library states induction with an operator as a parameter,
which the provers cannot instantiate; stated of a *set* of numbers (`NatIsInduced`,
`InducedUpTo`, from the well-foundedness of `<`) they can, and `RecursionExists` gets
from it that a function defined by recursion over numbers is what its equation says.
That is how totals over all requests of a simulation are reasoned about.

**Scheduler.** From `SchedulerAssumption`. The heart is `RuleCRearranges`: the trusted
requests are re-sorted over the slots trusted requests held, so the new queue agrees
with the arrival order outside those slots and permutes it inside; the two parts have
disjoint images, hence no request is lost or doubled. The other policies are sorts.
The inductive invariant is `TypeOK /\ EachLiveRequestOnce /\ Live \subseteq DOMAIN
predictions`. The last conjunct is needed because preemption and not only `add_request`
puts requests into the queue, so "every *queued* request is predicted" is not inductive;
`EachLiveRequestOnce` is needed for `TypeOK`, as the prompt lengths are kept for exactly
the live requests and a request in two queues would survive its end in one of them.

**What the policies promise.** From the same invariant. Only `schedule` admits, and it
admits a prefix of the reordered queue (`HeadIsAdmitted`). Rule C leaves the slot of an
abstained request as arrival order made it, and in arrival order the requests before a
slot are exactly the older ones (`OlderAreBefore`); as queues hold each request once,
slot `i` is within the first `n` exactly when `i - 1 < n`, both sides cardinalities.
The other two compare two slots of one sorted queue, or of the sorted trusted part.
`ShorterGoesFirst` also covers the policies that divide a cost by a factor that grows
with age: a younger request that goes first was cheaper, since the older one has waited
at least as long and a product of naturals is monotone in both factors.

**The stock scheduler.** `QueuesInArrivalOrder`: under `policy_fcfs`, when requests reach
the engine core as they arrived, the order of arrival is the running batch followed by the
queue. So a request's rank by age is its place (`RankIsPlace`), the reordering of every step
finds nothing to do (`NothingToReorder`), and each of vLLM's operations keeps the order:
admission and preemption move the border between the two, the rest appends or removes. TLC
found the invariant to hold on the instance of `sched_fcfs`, as it did `TrainInv` on the
training part of `experiments`; no run keeps them. Without the hypothesis the
claim is false: with skew the policy re-sorts what the stock scheduler would leave.

**Batcher.** From `BatcherAssumption`. `EachJobHeldOnce` needs three companions: a caller
has an item exactly while it is in `submit`; an answer is for a waiting caller and is a
result of its own item or an exception; the worker holds jobs exactly while it is neither
collecting its first nor stopped (otherwise it would answer the head of an empty batch).
With them refused, checked and returning submits are `Refuse`, `Ask` and `Answer` of
`BlockingCalls`, and every other step, of callers, closers and the worker, is a stutter.

**Decision path.** From `RulesAssumption` and `PathAssumption`: finitely many calls, and
configurations and requests of the types the code admits, among them thresholds of zero
and confidence overrides, which the runs do not cover. The invariant says of each call
that an idle connection has no handler and no reply, that a predictor only runs for a
valid request past the gate, that a reply which is a bundle was built for *this* request
by `_build_response`, and that what is forwarded is nothing or an estimate such a bundle
vouched for. The middle two are what makes it inductive: between the decision and the
application lie other calls' steps, timeouts and restarts. The slots are counted with
the cardinality lemmas of the library.

**The gate.** A second invariant, `GateAnswersAlone`: an abstained request never reaches
the predictor, so its reply is a refusal before the gate or `_build_response` of the
abstention. Both theorems are conditional, and the conditions are what the launched
services satisfy: with a threshold of zero an abstention is an error, and with an
override gate and model disagree. That the model would have led to the same answer needs
that neither reason code nor bundle depends on the score while the answer is unreliable.

**Cell.** `CellInv` relates what the script remembers to what is on disk: a replay that
goes on has no record yet; what the output reports is what is recorded; a driver past its
start found an incomplete output; the files of an attempt are there when it is judged;
and from the mark to the end of `run_policy` the output is complete and the attempt is, or
was failed by the trap in this very run (`MarkedIsBacked`). The last one carries the
claim over the step at which a signal can come in between.
`ResumeInv` adds what holds while nothing was cut off: order logs come from replays, so an
output that gained a record has an attempt with a full order log, the attempt in hand is
still pending until it is judged, and at rest a complete output has complete evidence. An
engine that does not stop after the replay counts as a disturbance, since it cuts the
driver off. Without it `UndisturbedCellIsResumable` is not inductive,
as it only speaks of the driver at rest.

**Launchers and arms.** `LauncherInv`: start times are given to one process each, so a
start-time file that agrees with a live process agrees with a service a launcher
started; the pidfile alone says nothing of the kind. `ArmsInv`: from the launch on, port
8000 is answered by the block's own engine or by nobody; the attempt is complete at the
earliest when line 245 has run; what was measured so far was measured against that
engine, and from the end of the last arm on every arm was. `FailureIsFinal` needs that
the archive is what a failed attempt does not get past, so only the step after it can
overrule. `DeciderInv` adds that a decision service that was started belongs to the arm
the script is in, and that what answers on its port is either the persistent wrapper's
or that one in the arm's own mode. It is inductive only with the steps of the script
told apart: `stop_decision` comes before the next arm, whereas the gateway of finding 6
is stopped nowhere.

**Scripts.** `BatchInv`, from `BatchAssumption`: a plan has its preflight first and publishes
last. A stage that is passed left its work (cells accepted; an overhead measurement that
is valid and complete, or failed by the trap, `OverheadIsDone`), a measurement is only
marked when it is valid (`OverheadIsMeasured`), and between the emptied log and the gate
the log holds only rows of this invocation. The last is why
the gate means anything: an earlier invocation's log has the same tag.

**Training.** `TrainInv`: a result outside the baselines is copied only from a finished
training, a baseline's metrics are opened after its model is written, and the runs that
the driver has counted have their metrics, whole. It also shows the limit of what a
summary promises: of a result it is the metrics that are tested, so the other files of a
copy that was cut off need not be there.

**Ledger.** `LedgerInv`: the samples a replay still works on have no good row, neither in
its ledger nor in the pilot's that it continues (`PendingIsUnlabelled`). The first half
survives because a replay computes its pending set from the ledger it has just read, and is
the only one to write to it (`ReplayIsTheStages`); the second because the full replay starts
from the pilot's ledger and loses no row of it (`PilotIsCarriedOver`). What `install`
removes from the full ledger is in neither, and the theorem says nothing of it.

**Restore.** `RestoreInv`: once labels are merged, they are the last rows of the ledger, and a
failure among them is one no replay can mend. A repair that runs again therefore appends
nothing that would change a merged label (`RepairKeepsMerged`), and a second merge gives the
same labels. `BuildIsOfMerged` follows the two temporary files and the two renames; between
the renames the sidecar is there without its manifest, never the other way round.

**Replay.** `ReplayInv`: a stream was sent when it was due or later, its first token came
after that, and a finished sample's `ttlt` is its end minus its *schedule*. The window is
computed when all tasks are done, and nothing moves then.

**Simulators.** `WorkIsConserved`: when the first `n` requests have arrived, a first-come-
first-served server would be done with them at the clock plus what they are still owed. An
algorithm that serves moves a unit from one side to the other whichever request it picks,
and a skip over idle time only happens when nothing is owed; when nothing is left the
equation is the property. `WaitBounded` follows the deadline guard: from the moment a
request is overdue it can only wait for the one in service and for older ones, so its wait
is at most the deadline, the longest service and the work of those before it. It speaks of
what the older ones have *attained* while the request waits, since that is what a step adds
to on both sides. `GuardOffset` stands for the 1e9 of the code; the assumption that no
arrival reaches it is what makes an overdue key precede every other.

In each the invariant is a conjunction of named parts, there is one lemma per
action, and the theorems follow from the invariant.

Only model-checked is liveness, whose specifications state fairness (fairness and
`ENABLED` are out of the provers' reach here): `NoStarvation`,
`SubmittedBeforeCloseIsAnswered`, `CloseStopsTheWorker`, `EveryCallEnds`, `BlockEnds`,
`RestoreGetsDone`, `MatrixGetsDone`, and of `ImplementsStockFcfs` the fairness of the
stock scheduler. Every invariant and every action property that a passing run checks is
also a theorem. The properties of the runs that expect a violation are false of the code
and have none.

The assumptions on the constants: in the scripts a plan is not empty, `preflight` is only
its first stage and `upload` and `summary` only its last, as in the two scripts; a training
driver has at least one run, as every driver's list in the code has; there is at least one
length a label can have; no arrival of a simulation reaches the guard's offset.

## 6. What is not modelled

* Tokenisation, inference and what a training step computes; HTTP framing; the vLLM
  engine beyond what the scheduler class relies on; real time.
* Plots and statistics, and the building of workloads: more than half of the
  repository's Python. These are pure functions from files to files without an order of
  events; a model of them would repeat their arithmetic. They are why the model covers a
  small share of the lines though it covers most of the stateful code.
* The gRPC worker: unary responses around one stateless prediction under a lock.
* `run_overhead_only.sh`: one pair of replays, which `OverheadArms` and `WorkloadReplay`
  show from both sides.
* The keys of the simulators' two gateway policies, which the repository's files do not
  define (section 4): under the algorithm `gateway` any request that waits may be next.
* Score corruption, metrics and sweeps of the simulators; the order log's text and the
  offline parity report, which read the queue and change nothing.

## 7. Plan

Done: the modules of section 2, with the runs of section 3 and the proofs of section 5.

Next, in this order:

1. Composition of `MicroBatcher` under `DecisionPath`'s predictor call, so that a batch
   that fails is a `PredictorRaised` of several calls at once; the refinement
   `BatchingIsInvisible` is what makes the composition small.
2. The drivers' promises over several invocations as theorems about `MatrixBatch` and
   `MatrixCell` together: a cell `RunCell` accepts is one `AcceptedCellIsBacked` speaks of.
3. Whether the aging policies end starvation: needs ages that grow from step to step.
