----------------------------- MODULE MatrixCell -----------------------------
(***************************************************************************)
(* One cell of the benchmark matrix: run_policy of                         *)
(* scripts/server/_matrix_common.sh, which launches vLLM with one scheduler, *)
(* lets scheduler_benchmark/runner.py replay the workload and archives the  *)
(* evidence.  A cell that is not complete is run again with --resume when   *)
(* the driver is started the next time, so what matters is what a crash, an *)
(* interruption or a failing step leaves on the disk.                      *)
(*                                                                         *)
(* A replay of one repeat is recorded with its number of failed requests    *)
(* and with whether decisions failed during it (a 429, a timeout).  The     *)
(* attempts of earlier driver runs are kept as the set of what the manifest *)
(* and the archive say of them, which is all that is ever asked.            *)
(***************************************************************************)
EXTENDS Integers, FiniteSetsExt, Functions

CONSTANTS
    Repeats,    \* the repeats of the cell
    Schedulers, \* the scheduler classes the cell may be about
    Failures,   \* numbers of failed requests a replay may have
    Degradation, \* whether decisions may fail during a replay: a set of BOOLEANs
    Tolerance   \* how many failed requests ERROR_TOLERANCE amounts to

ASSUME CellAssumption ==
    /\ IsFiniteSet(Repeats) /\ Repeats # {}
    /\ Schedulers \subseteq {"stock", "StockFCFSShim", "custom"}
    /\ Failures \subseteq Nat
    /\ Degradation \subseteq BOOLEAN
    /\ Tolerance \in Nat

VARIABLES
    scheduler, \* the cell's scheduler class
    samples,   \* the samples CSVs in the runs directory, by fingerprint
    records,   \* their JSON records, NoRecord where there is none
    output,    \* the runner's output file: the records it was made from
    manifest,  \* the attempts of earlier driver runs
    attempt,   \* this driver run's attempt, as the manifest and archive have it
    active,    \* ACTIVE_ATTEMPT_TAG is set
    source,    \* what the attempt's vLLM wrote so far: order log and vllm.log
    replaying, \* the repeat whose replay has ended but is not recorded yet
    driver,    \* where run_policy is
    status,    \* runner_status
    verdict,   \* how the latest run_policy ended
    trapped,   \* history: the trap ran on INT or TERM in this driver run
    disturbed  \* history: something was cut off, or an engine did not stop

history == <<trapped, disturbed>>

vars == <<scheduler, samples, records, output, manifest, attempt, active, source,
          replaying, driver, status, verdict, trapped, disturbed>>

disk == <<scheduler, samples, records, output, manifest>>

NoRecord == [failed |-> -1, degraded |-> FALSE]
Record == [failed : Failures, degraded : Degradation]
NoOutput == [r \in Repeats |-> NoRecord]
NoReplay == [repeat |-> "none", record |-> NoRecord, sampled |-> FALSE]

(* subrun_fingerprint, which names both files of a subrun: the identity of   *)
(* the repeat and its number of errors                                     *)
Fingerprint(r, x) == <<r, x.failed>>

(* An attempt: its status in the manifest, and the archived files.          *)
NoAttempt == [status |-> "none", order |-> "missing", log |-> FALSE]
Registered == [status |-> "pending", order |-> "missing", log |-> FALSE]
NoSource == [order |-> "empty", log |-> FALSE]

Init ==
    /\ scheduler \in Schedulers
    /\ samples = {}
    /\ records = NoOutput
    /\ output = NoOutput
    /\ manifest = {}
    /\ attempt = NoAttempt
    /\ active = FALSE
    /\ source = NoSource
    /\ replaying = NoReplay
    /\ driver = "idle"
    /\ status = 0
    /\ verdict = "none"
    /\ trapped = FALSE
    /\ disturbed = FALSE

-----------------------------------------------------------------------------
(* What the driver asks of the disk                                        *)

FailedRequests == SumFunctionOnSet([r \in Repeats |-> output[r].failed], Repeats)

(* policy_output_complete: every repeat is there, and either no request     *)
(* failed or the failures are within the tolerance.                        *)
OutputComplete ==
    /\ \A r \in Repeats : output[r] # NoRecord
    /\ FailedRequests <= Tolerance

(* require_completed_evidence: every registered attempt has both files, one *)
(* is complete, and a scheduler other than the stock one wrote an order log. *)
EvidenceComplete ==
    /\ manifest # {}
    /\ \A a \in manifest : a.order # "missing" /\ a.log
    /\ \E a \in manifest : a.status = "complete"
    /\ scheduler # "stock" =>
          \E a \in manifest : a.status = "complete" /\ a.order = "full"

Archived(s) == [attempt EXCEPT !.status = s, !.order = source.order, !.log = source.log]

(* What the trap makes of the attempt it knows: archived, unless it is, and  *)
(* failed.                                                                 *)
Trapped ==
    IF attempt.order = "missing" THEN Archived("failed")
    ELSE [attempt EXCEPT !.status = "failed"]

(* What an exit leaves of the attempt: the trap is set for EXIT as well.    *)
Left == IF active THEN Trapped ELSE attempt

(* A trap that archived a log came after the launch and took vLLM down.     *)
EngineStopped == attempt.log

(* The driver run is over: its attempt is one of the earlier ones now.      *)
Exit(a, v) ==
    /\ manifest' = IF a = NoAttempt THEN manifest ELSE manifest \cup {a}
    /\ attempt' = NoAttempt
    /\ active' = FALSE
    /\ source' = NoSource
    /\ replaying' = NoReplay
    /\ driver' = "idle"
    /\ status' = 0
    /\ verdict' = v

-----------------------------------------------------------------------------
(* run_policy                                                              *)

(* A complete cell is skipped if its evidence is, and otherwise set -e ends *)
(* the driver; a cell that is not complete gets a new attempt.              *)
Start ==
    /\ driver = "idle"
    /\ \/ /\ OutputComplete
          /\ verdict' = IF EvidenceComplete THEN "accepted" ELSE "refused"
          /\ UNCHANGED driver
       \/ /\ ~OutputComplete
          /\ driver' = "prepared"
          /\ verdict' = "none"
    /\ trapped' = FALSE
    /\ UNCHANGED <<disk, attempt, active, source, replaying, status, disturbed>>

(* write_manifest, an atomic replacement of the file *)
Register ==
    /\ driver = "prepared"
    /\ attempt' = Registered
    /\ driver' = "registered"
    /\ UNCHANGED <<disk, active, source, replaying, status, verdict, history>>

(* From here on the trap knows the attempt; launch_vllm.sh creates the log. *)
Activate ==
    /\ driver = "registered"
    /\ active' = TRUE
    /\ driver' = "launching"
    /\ UNCHANGED <<disk, attempt, source, replaying, status, verdict, history>>

Launch ==
    /\ driver = "launching"
    /\ source' = [source EXCEPT !.log = TRUE]
    /\ driver' = "launched"
    /\ UNCHANGED <<disk, attempt, active, replaying, status, verdict, history>>

(* The runner reads the records it may resume and stops at once if one has  *)
(* no samples.                                                             *)
StartRunner ==
    /\ driver = "launched"
    /\ IF \A r \in Repeats :
             records[r] # NoRecord => Fingerprint(r, records[r]) \in samples
       THEN driver' = "replaying" /\ UNCHANGED status
       ELSE driver' = "replayed" /\ status' = 1
    /\ UNCHANGED <<disk, attempt, active, source, replaying, verdict, history>>

(* A bug: a repeat that was measured is measured again. *)
ReplayAgain(r) ==
    /\ driver = "replaying"
    /\ replaying = NoReplay
    /\ \E x \in Record :
          replaying' = [repeat |-> r, record |-> x, sampled |-> FALSE]
    /\ source' = IF scheduler = "custom" THEN [source EXCEPT !.order = "full"] ELSE source
    /\ UNCHANGED <<disk, attempt, active, driver, status, verdict, history>>

(* A repeat without a record is replayed.  A custom scheduler writes its    *)
(* order log as it goes.  Without an engine every request fails.            *)
Replay(r) ==
    /\ driver = "replaying"
    /\ replaying = NoReplay
    /\ records[r] = NoRecord
    /\ \E x \in Record :
          /\ EngineStopped => x.failed > Tolerance
          /\ replaying' = [repeat |-> r, record |-> x, sampled |-> FALSE]
    /\ source' = IF scheduler = "custom" /\ ~EngineStopped
                  THEN [source EXCEPT !.order = "full"] ELSE source
    /\ UNCHANGED <<disk, attempt, active, driver, status, verdict, history>>

(* write_subrun_artifacts: the samples, then the record. *)
WriteSamples ==
    /\ replaying # NoReplay
    /\ ~replaying.sampled
    /\ samples' = samples \cup {Fingerprint(replaying.repeat, replaying.record)}
    /\ replaying' = [replaying EXCEPT !.sampled = TRUE]
    /\ UNCHANGED <<scheduler, records, output, manifest, attempt, active, source,
                   driver, status, verdict, history>>

(* A bug: the record is written before the samples. *)
WriteRecordFirst ==
    /\ replaying # NoReplay
    /\ records' = [records EXCEPT ![replaying.repeat] = replaying.record]
    /\ replaying' = IF replaying.sampled THEN NoReplay ELSE replaying
    /\ UNCHANGED <<scheduler, samples, output, manifest, attempt, active, source,
                   driver, status, verdict, history>>

WriteRecord ==
    /\ replaying # NoReplay
    /\ replaying.sampled
    /\ records' = [records EXCEPT ![replaying.repeat] = replaying.record]
    /\ replaying' = NoReplay
    /\ UNCHANGED <<scheduler, samples, output, manifest, attempt, active, source,
                   driver, status, verdict, history>>

(* A bug: the number of failed requests as the exit status. *)
WriteOutputCountingErrors ==
    /\ driver = "replaying"
    /\ \A r \in Repeats : records[r] # NoRecord
    /\ output' = records
    /\ status' = SumFunctionOnSet([r \in Repeats |-> records[r].failed], Repeats)
    /\ driver' = "replayed"
    /\ UNCHANGED <<scheduler, samples, records, manifest, attempt, active, source,
                   replaying, verdict, history>>

(* The output, and exit status 2 when any request of any repeat failed.     *)
WriteOutput ==
    /\ driver = "replaying"
    /\ \A r \in Repeats : records[r] # NoRecord
    /\ output' = records
    /\ status' = IF \A r \in Repeats : records[r].failed = 0 THEN 0 ELSE 2
    /\ driver' = "replayed"
    /\ UNCHANGED <<scheduler, samples, records, manifest, attempt, active, source,
                   replaying, verdict, history>>

(* stop_vllm *)
StopEngine ==
    /\ driver = "replayed"
    /\ driver' = "stopped"
    /\ UNCHANGED <<disk, attempt, active, source, replaying, status, verdict, history>>

(* collect_vllm_evidence, which refuses to overwrite what the trap archived: *)
(* set -e ends the driver then, and the trap knows no attempt any more.  An  *)
(* attempt that is not archived is still pending.                          *)
Collect ==
    /\ driver = "stopped"
    /\ IF attempt.order = "missing"
       THEN /\ attempt' = Archived("pending")
            /\ driver' = "judging"
            /\ UNCHANGED <<disk, active, source, replaying, status, verdict>>
       ELSE /\ Exit(attempt, "failed")
            /\ UNCHANGED <<scheduler, samples, records, output>>
    /\ UNCHANGED history

(* mark_attempt_status complete: the trap still knows the attempt.          *)
MarkComplete ==
    /\ attempt' = [attempt EXCEPT !.status = "complete"]
    /\ driver' = "marked"
    /\ UNCHANGED <<manifest, active, source, replaying, status, verdict>>

(* A bug: a complete output is enough. *)
JudgeByOutput ==
    /\ driver = "judging"
    /\ IF OutputComplete
       THEN MarkComplete
       ELSE Exit([attempt EXCEPT !.status = "failed"], "failed")
    /\ UNCHANGED <<scheduler, samples, records, output, history>>

(* Complete if the output is, whatever the runner said, and a scheduler that *)
(* must write an order log did.  Otherwise the attempt is marked failed, as  *)
(* a trap in between would mark it again.                                  *)
Judge ==
    /\ driver = "judging"
    /\ IF OutputComplete /\ (scheduler = "custom" => attempt.order = "full")
       THEN MarkComplete
       ELSE Exit([attempt EXCEPT !.status = "failed"], "failed")
    /\ UNCHANGED <<scheduler, samples, records, output, history>>

(* The tag is cleared and run_policy returns 0, whatever the attempt's       *)
(* status has become.                                                      *)
Accept ==
    /\ driver = "marked"
    /\ Exit(attempt, "accepted")
    /\ UNCHANGED <<scheduler, samples, records, output, history>>

-----------------------------------------------------------------------------
(* Faults                                                                  *)

(* A bug: a failed launch leaves no evidence behind. *)
LaunchFailsUnarchived ==
    /\ driver = "launched"
    /\ Exit([attempt EXCEPT !.status = "failed"], "failed")
    /\ UNCHANGED <<scheduler, samples, records, output, history>>

(* vLLM does not come up: set -e ends the driver, and the trap archives the *)
(* attempt and marks it failed.                                            *)
LaunchFails ==
    /\ driver = "launched"
    /\ Exit(Left, "failed")
    /\ UNCHANGED <<scheduler, samples, records, output, history>>

(* The runner ends without an output, at any point of the replay. *)
RunnerDies ==
    /\ driver = "replaying"
    /\ status' = 1
    /\ replaying' = NoReplay
    /\ driver' = "replayed"
    /\ disturbed' = TRUE
    /\ UNCHANGED <<disk, attempt, active, source, verdict, trapped>>

(* stop_vllm gives up on an engine that still answers after a minute, and    *)
(* set -e ends the driver: before anything is registered, or after the      *)
(* replay, whatever its output is.                                         *)
EngineStays ==
    /\ \/ driver = "prepared" /\ Exit(NoAttempt, "failed") /\ UNCHANGED disturbed
       \/ driver = "replayed" /\ Exit(Left, "failed") /\ disturbed' = TRUE
    /\ UNCHANGED <<scheduler, samples, records, output, trapped>>

(* INT or TERM: bash runs the trap when the foreground command has ended,   *)
(* and goes on where it was.  Between the assignments of lines 407 and 408  *)
(* the trap knows the tag but not the manifest.                            *)
Interrupt ==
    /\ active /\ driver # "replaying"
    /\ \/ attempt' = Trapped
       \/ driver = "launching" /\ attempt' = Archived("pending")
    /\ active' = FALSE
    /\ trapped' = TRUE
    /\ disturbed' = TRUE
    /\ UNCHANGED <<disk, source, replaying, driver, status, verdict>>

(* The machine or the driver is gone, and the trap with it.  An archive that *)
(* is cut off between its two files is as good as none.                    *)
Crash ==
    /\ driver # "idle"
    /\ Exit(attempt, "crashed")
    /\ disturbed' = TRUE
    /\ UNCHANGED <<scheduler, samples, records, output, trapped>>

Run ==
    \/ Start \/ Register \/ Activate \/ Launch \/ StartRunner
    \/ \E r \in Repeats : Replay(r)
    \/ WriteSamples \/ WriteRecord \/ WriteOutput
    \/ StopEngine \/ Collect \/ Judge \/ Accept

Fault == LaunchFails \/ RunnerDies \/ EngineStays \/ Interrupt \/ Crash

Next == Run \/ Fault

Spec == Init /\ [][Next]_vars

-----------------------------------------------------------------------------
Attempts ==
    [status : {"pending", "failed", "complete"},
     order : {"missing", "empty", "full"}, log : BOOLEAN]

TypeOK ==
    /\ scheduler \in Schedulers
    /\ samples \subseteq Repeats \X Failures
    /\ records \in [Repeats -> Record \cup {NoRecord}]
    /\ output \in [Repeats -> Record \cup {NoRecord}]
    /\ manifest \subseteq Attempts
    /\ attempt \in Attempts \cup {NoAttempt}
    /\ active \in BOOLEAN
    /\ source \in [order : {"empty", "full"}, log : BOOLEAN]
    /\ replaying \in [repeat : Repeats, record : Record, sampled : BOOLEAN] \cup {NoReplay}
    /\ driver \in {"idle", "prepared", "registered", "launching", "launched",
                  "replaying", "replayed", "stopped", "judging", "marked"}
    /\ status \in 0..2
    /\ verdict \in {"none", "accepted", "refused", "failed", "crashed"}
    /\ trapped \in BOOLEAN
    /\ disturbed \in BOOLEAN

(* A record that may be resumed has its samples, wherever the runner was    *)
(* cut off: a record without them stops every later runner at its start.    *)
RecordsHaveTheirSamples ==
    \A r \in Repeats :
        records[r] # NoRecord => Fingerprint(r, records[r]) \in samples

(* Resuming never measures a repeat twice, and no later attempt, failing or *)
(* not, changes what a complete cell reports.                              *)
KeepsMeasurements ==
    /\ \A r \in Repeats : records[r] # NoRecord => records'[r] = records[r]
    /\ OutputComplete => output' = output
MeasurementsAreKept == [][KeepsMeasurements]_vars

(* A cell the driver accepts, after a run or by skipping it, has all its    *)
(* repeats with their samples and an attempt with both its files, whose      *)
(* order log shows that a custom scheduler really ran.  That attempt is      *)
(* complete, unless the trap ran while the same driver run marked it so.     *)
AcceptedCellIsBacked ==
    verdict = "accepted" =>
        /\ output = records
        /\ \A r \in Repeats : Fingerprint(r, output[r]) \in samples
        /\ \E a \in manifest :
              /\ a.status = "complete" \/ (trapped /\ a.status = "failed")
              /\ a.log /\ a.order # "missing"
              /\ scheduler = "custom" => a.order = "full"

(* As long as nothing was cut off and every engine stopped, a complete cell  *)
(* is skipped by the next driver run: launches that failed, and attempts with *)
(* too many errors, leave their evidence behind.  StockFCFSShim, whose empty  *)
(* order log run_policy accepts and require_completed_evidence does not, is  *)
(* excepted.                                                               *)
UndisturbedCellIsResumable ==
    ~disturbed /\ scheduler # "StockFCFSShim" => verdict # "refused"

(* "Marking it failed here is what previously sent the driver into a resume *)
(* loop it could never leave": a cell whose output is complete is accepted   *)
(* by the next run.  A driver that is cut off after the runner wrote its    *)
(* output, or whose engine does not stop then, refutes it.                  *)
CompleteOutputIsResumable ==
    driver = "idle" /\ OutputComplete => EvidenceComplete

(* "decision-path failures (429/503/timeout/fail-open) are NOT covered by   *)
(* this tolerance and still invalidate the cell".  Nothing the driver reads  *)
(* tells it of them.                                                       *)
DecisionFailuresInvalidateTheCell ==
    verdict = "accepted" => \A r \in Repeats : ~output[r].degraded
=============================================================================
