------------------------------ MODULE MatrixBatch ------------------------------
(***************************************************************************)
(* The scripts that run whole matrices: run_matrix.sh (preflight, mixed     *)
(* cells, parity, OOD cells, overhead, upload) and run_block1_matrix.sh     *)
(* (sentinels around two rounds of cells, parity, summary).  Each is a      *)
(* sequence of stages under set -e: a stage that fails ends the script, and *)
(* the script is run again under the same RUN_TAG, where complete cells are *)
(* skipped.  How one cell is run and accepted is MatrixCell's subject.      *)
(***************************************************************************)
EXTENDS Naturals, Sequences

CONSTANTS
    Plans,         \* script -> its stages: cells, and the names of Stages
    MaxBatchFaults \* bounds the failures and kills

Stages == {"preflight", "parity", "overhead", "upload", "summary"}
CellsOf(s) == {Plans[s][i] : i \in DOMAIN Plans[s]} \ Stages

(* A script that has a preflight begins with it, it publishes last, and it   *)
(* measures the overhead in one place.                                     *)
ASSUME BatchAssumption ==
    /\ \A s \in DOMAIN Plans :
          /\ Plans[s] \in Seq(Stages \cup CellsOf(s)) /\ Plans[s] # <<>>
          /\ \A i \in DOMAIN Plans[s] :
                /\ Plans[s][i] = "preflight" => i = 1
                /\ Plans[s][i] \in {"upload", "summary"} => i = Len(Plans[s])
          /\ \A i, j \in DOMAIN Plans[s] :
                Plans[s][i] = "overhead" /\ Plans[s][j] = "overhead" => i = j
    /\ MaxBatchFaults \in Nat

VARIABLES
    script,    \* the script that is run, again and again
    stage,     \* the index of its stage, or 0 when it is not running
    probe,     \* where the preflight or the overhead measurement is
    chain,     \* whether the gateway and the decision service answer
    orderLog,  \* the rows of the preflight's log: whose they are and what they prove
    gated,     \* this invocation's preflight gate has passed
    accepted,  \* the cells run_policy has accepted
    overhead,  \* the status of the last overhead attempt
    valid,     \* the last overhead attempt was measured with status 0 and archived
    trapped,   \* history: INT or TERM had the trap fail the last overhead attempt
    results,   \* what was last uploaded or summarized
    batchFaults

overheadVars == <<overhead, valid, trapped>>
batchVars == <<script, stage, probe, chain, orderLog, gated, accepted, overheadVars,
               results, batchFaults>>

NoResults == [published |-> FALSE, cells |-> {}, overhead |-> "none", valid |-> FALSE,
              trapped |-> FALSE]

(* What the gate looks for: a reliable prediction, and two requests in one   *)
(* row, which depends on when they came.                                   *)
Proofs == {"reliable", "together"}

BatchInit ==
    /\ script \in DOMAIN Plans
    /\ stage = 0 /\ probe = "none" /\ chain = TRUE
    /\ orderLog = {} /\ gated = FALSE
    /\ accepted = {} /\ results = NoResults
    /\ overhead = "none" /\ valid = FALSE /\ trapped = FALSE
    /\ batchFaults = 0

At(name) == stage # 0 /\ Plans[script][stage] = name
NextStage == IF stage = Len(Plans[script]) THEN 0 ELSE stage + 1

(* Another invocation: both services must be healthy.  What an earlier one  *)
(* logged is not this one's.                                               *)
BatchStarts ==
    /\ stage = 0
    /\ stage' = IF chain THEN 1 ELSE 0
    /\ gated' = FALSE
    /\ orderLog' = {<<"earlier", row[2]>> : row \in orderLog}
    /\ UNCHANGED <<script, probe, chain, accepted, overheadVars, results, batchFaults>>

(* A bug: the preflight appends to the log its tag already has. *)
KeepLog ==
    /\ At("preflight") /\ probe = "none"
    /\ probe' = "probing"
    /\ UNCHANGED <<script, stage, chain, orderLog, gated, accepted, overheadVars, results, batchFaults>>

(* The preflight's tag is the same in every invocation: its log is emptied  *)
(* before the engine is launched.                                          *)
EmptyLog ==
    /\ At("preflight") /\ probe = "none"
    /\ probe' = "probing"
    /\ orderLog' = {}
    /\ UNCHANGED <<script, stage, chain, gated, accepted, overheadVars, results, batchFaults>>

(* The probes, whose own failures are ignored.  A reliable prediction can   *)
(* only reach the log through the services.                                *)
SendProbes ==
    /\ At("preflight") /\ probe = "probing"
    /\ probe' = "gate"
    /\ \E seen \in SUBSET (IF chain THEN Proofs ELSE {"together"}) :
          orderLog' = orderLog \cup {<<"this", proof>> : proof \in seen}
    /\ UNCHANGED <<script, stage, chain, gated, accepted, overheadVars, results, batchFaults>>

GatePasses == \A proof \in Proofs : \E row \in orderLog : row[2] = proof

Gate ==
    /\ At("preflight") /\ probe = "gate"
    /\ probe' = "none"
    /\ gated' = GatePasses
    /\ stage' = IF GatePasses THEN NextStage ELSE 0
    /\ UNCHANGED <<script, chain, orderLog, accepted, overheadVars, results, batchFaults>>

(* run_policy: skipped when complete, otherwise run until it is.            *)
RunCell ==
    /\ \E cell \in CellsOf(script) : At(cell) /\ accepted' = accepted \cup {cell}
    /\ stage' = NextStage
    /\ UNCHANGED <<script, probe, chain, orderLog, gated, overheadVars, results, batchFaults>>

(* Parity is recorded, whatever it says.                                    *)
Parity ==
    /\ At("parity")
    /\ stage' = NextStage
    /\ UNCHANGED <<script, probe, chain, orderLog, gated, accepted, overheadVars, results, batchFaults>>

(* ACTIVE_ATTEMPT_TAG is the overhead attempt's. *)
AttemptIsActive == At("overhead") /\ probe # "none" /\ ~trapped

(* The overhead is measured anew by every invocation that gets there: its    *)
(* attempt is registered, and from then on the trap knows it.               *)
RegisterOverhead ==
    /\ At("overhead") /\ probe = "none"
    /\ probe' = "measuring"
    /\ overhead' = "pending" /\ valid' = FALSE /\ trapped' = FALSE
    /\ UNCHANGED <<script, stage, chain, orderLog, gated, accepted, results, batchFaults>>

(* A bug: the status of the measurement is not looked at. *)
OverheadUnchecked ==
    /\ At("overhead") /\ probe = "measuring"
    /\ overhead = "pending"
    /\ valid' \in BOOLEAN
    /\ probe' = "measured"
    /\ UNCHANGED <<script, stage, chain, orderLog, gated, accepted, overhead, trapped, results,
                   batchFaults>>

(* A valid measurement, stop_vllm and collect_vllm_evidence.                *)
MeasureOverhead ==
    /\ At("overhead") /\ probe = "measuring"
    /\ overhead = "pending"
    /\ valid' = TRUE
    /\ probe' = "measured"
    /\ UNCHANGED <<script, stage, chain, orderLog, gated, accepted, overhead, trapped, results,
                   batchFaults>>

(* collect_vllm_evidence refuses what the trap archived.                    *)
OverheadRefused ==
    /\ At("overhead") /\ probe = "measuring"
    /\ overhead = "failed"
    /\ stage' = 0 /\ probe' = "none"
    /\ UNCHANGED <<script, chain, orderLog, gated, accepted, overheadVars, results, batchFaults>>

MarkOverhead ==
    /\ At("overhead") /\ probe = "measured"
    /\ overhead' = "complete"
    /\ probe' = "marked"
    /\ UNCHANGED <<script, stage, chain, orderLog, gated, accepted, valid, trapped, results,
                   batchFaults>>

(* The tag is cleared and the script goes on, whatever the status is by now. *)
PassOverhead ==
    /\ At("overhead") /\ probe = "marked"
    /\ probe' = "none" /\ stage' = NextStage
    /\ UNCHANGED <<script, chain, orderLog, gated, accepted, overheadVars, results, batchFaults>>

(* INT or TERM, whose trap does not exit: the overhead attempt it knows is   *)
(* archived and failed.  What a signal does to a cell is MatrixCell's        *)
(* subject.                                                                *)
OverheadSignalled ==
    /\ AttemptIsActive
    /\ batchFaults < MaxBatchFaults /\ batchFaults' = batchFaults + 1
    /\ overhead' = "failed" /\ trapped' = TRUE
    /\ UNCHANGED <<script, stage, probe, chain, orderLog, gated, accepted, valid, results>>

(* run_matrix.sh uploads the run's directory; block 1 lists its outputs.    *)
Publish ==
    /\ At("upload") \/ At("summary")
    /\ results' = [published |-> TRUE, cells |-> accepted, overhead |-> overhead,
                   valid |-> valid, trapped |-> trapped]
    /\ stage' = NextStage
    /\ UNCHANGED <<script, probe, chain, orderLog, gated, accepted, overheadVars, batchFaults>>

(* set -e: a stage other than parity fails, or the script is killed in it.  *)
(* A measurement that fails is marked so, by the script or the trap.        *)
BatchFails ==
    /\ stage # 0
    /\ batchFaults < MaxBatchFaults /\ batchFaults' = batchFaults + 1
    /\ stage' = 0 /\ probe' = "none"
    /\ overhead' \in {overhead} \cup (IF AttemptIsActive THEN {"failed"} ELSE {})
    /\ UNCHANGED <<script, chain, orderLog, gated, accepted, valid, trapped, results>>

(* The persistent services die, or their wrapper starts them again.         *)
ChainChanges ==
    /\ chain => batchFaults < MaxBatchFaults
    /\ chain' = ~ chain
    /\ batchFaults' = IF chain THEN batchFaults + 1 ELSE batchFaults
    /\ UNCHANGED <<script, stage, probe, orderLog, gated, accepted, overheadVars, results>>

BatchNext ==
    \/ BatchStarts \/ EmptyLog \/ SendProbes \/ Gate \/ RunCell \/ Parity
    \/ RegisterOverhead \/ MeasureOverhead \/ OverheadRefused \/ MarkOverhead
    \/ PassOverhead \/ OverheadSignalled \/ Publish \/ BatchFails \/ ChainChanges

BatchSpec == BatchInit /\ [][BatchNext]_batchVars

-----------------------------------------------------------------------------
(* The gate is passed on what this invocation's probes put through the      *)
(* gateway, the decision service and the scheduler, never on the log an     *)
(* earlier invocation left under the same tag.                             *)
GateSawThisChain == gated => \A proof \in Proofs : <<"this", proof>> \in orderLog

(* What is published holds every cell of the plan, and where the plan has    *)
(* one a valid overhead measurement, however often the script failed, was   *)
(* killed or signalled and run again on the way.  The attempt of that        *)
(* measurement is complete, unless the trap failed it while it was marked.   *)
PublishedRunIsWhole ==
    results.published =>
        /\ results.cells = CellsOf(script)
        /\ \A i \in DOMAIN Plans[script] :
              Plans[script][i] = "overhead" =>
                  /\ results.valid
                  /\ results.overhead = "complete" \/ (results.trapped /\ results.overhead = "failed")
=============================================================================
