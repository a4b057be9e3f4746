----------------------------- MODULE OverheadArms -----------------------------
(***************************************************************************)
(* Block 2, scripts/server/run_block2_overhead.sh: one vLLM, and one arm    *)
(* after the other that is meant to add one component to the request path,  *)
(* each measured by run_gateway_overhead.py.  The arms start the gateway    *)
(* through launch_gateway.sh and the decision service directly.             *)
(*                                                                         *)
(* The block runs next to processes it does not wait for: the decision      *)
(* service it forked, and the gateway's launcher, which is a process of its *)
(* own that leaves the gateway behind when it ends.  Port 9100, port 9200   *)
(* and port 8000 are each answered by at most one process, which is all a   *)
(* health check asks.                                                      *)
(***************************************************************************)
EXTENDS Naturals, Sequences

CONSTANTS
    Order,      \* the arms in the order they are measured, FORWARD then REVERSE
    Persistent  \* whether the run wrapper's decision service and gateway are up

Modes == [G1 |-> "stub", G2 |-> "cpu_nogate", G3 |-> "cpu_gated", G4 |-> "gpu_gated"]

ASSUME ArmsAssumption ==
    /\ Order \in Seq({"D0", "G0", "G1", "G2", "G3", "G4"}) /\ Order # <<>>
    /\ Persistent \subseteq BOOLEAN

VARIABLES
    armStep,  \* where the block is
    engine,   \* what answers port 8000
    attempt,  \* the block's attempt in the manifest
    active,   \* ACTIVE_ATTEMPT_TAG is set: the trap knows the attempt
    decision, \* what answers port 9200: the mode it was started in
    decider,  \* the process DECISION_PID names
    gateway,  \* what answers port 9100: how it was configured
    launcher, \* the process GATEWAY_PID names
    measured  \* what each arm's output was measured against

armVars == <<armStep, engine, attempt, active, decision, decider, gateway, launcher, measured>>
services == <<decision, decider, gateway, launcher>>

Arm == Order[Len(measured) + 1]
Mode == Modes[Arm]

ArmsInit ==
    /\ armStep = "stopping"
    /\ engine \in {"none", "recorded", "stray"}
    /\ attempt = "none"
    /\ active = FALSE
    /\ \E up \in Persistent :
          /\ decision = IF up THEN "wrapper" ELSE "none"
          /\ gateway = IF up THEN "deciding" ELSE "none"
    /\ decider = "unset"
    /\ launcher = "unset"
    /\ measured = <<>>

-----------------------------------------------------------------------------
(* The decision service of an arm: it answers once the port is free, and    *)
(* dies at its bind, or of anything else, before.                          *)
DecisionBinds ==
    /\ decider = "loading" /\ decision = "none"
    /\ decision' = Mode
    /\ decider' = "serving"
    /\ UNCHANGED <<armStep, engine, attempt, active, gateway, launcher, measured>>

DecisionDies ==
    /\ decider = "loading"
    /\ decider' = "dead"
    /\ UNCHANGED <<armStep, engine, attempt, active, decision, gateway, launcher, measured>>

(* launch_gateway.sh: refuses while the pidfile's process is alive, and     *)
(* otherwise leaves a gateway behind when it is healthy.                    *)
LauncherChecks ==
    /\ launcher = "started"
    /\ launcher' = IF gateway = "none" THEN "loading" ELSE "ended"
    /\ UNCHANGED <<armStep, engine, attempt, active, decision, decider, gateway, measured>>

GatewayBinds ==
    /\ launcher = "loading"
    /\ gateway' = IF Arm = "G0" THEN "proxying" ELSE "deciding"
    /\ launcher' = "polling"
    /\ UNCHANGED <<armStep, engine, attempt, active, decision, decider, measured>>

GatewayFails ==
    /\ launcher = "loading"
    /\ launcher' = "ended"
    /\ UNCHANGED <<armStep, engine, attempt, active, decision, decider, gateway, measured>>

LauncherEnds ==
    /\ launcher = "polling"
    /\ launcher' = "ended"
    /\ UNCHANGED <<armStep, engine, attempt, active, decision, decider, gateway, measured>>

Processes ==
    \/ DecisionBinds \/ DecisionDies
    \/ LauncherChecks \/ GatewayBinds \/ GatewayFails \/ LauncherEnds

-----------------------------------------------------------------------------
(* A bug: kill without the wait that follows it. *)
StopWithoutWait ==
    /\ gateway' = IF launcher = "polling" THEN "none" ELSE gateway
    /\ launcher' = "unset"
    /\ decision' = decision
    /\ decider' = "unset"

(* stop_gateway and stop_decision.  The launcher's trap stops the gateway   *)
(* only while the launcher still waits for its health.                     *)
StopServices ==
    /\ gateway' = IF launcher = "polling" THEN "none" ELSE gateway
    /\ launcher' = "unset"
    /\ decision' = IF decider = "serving" THEN "none" ELSE decision
    /\ decider' = "unset"

(* set -e, then the EXIT trap block2_cleanup, which replaced the library's. *)
EndFailed ==
    /\ armStep' = "failed"
    /\ StopServices
    /\ UNCHANGED <<engine, attempt, active, measured>>

(* A bug: stop_vllm takes the port's being answered for a warning. *)
PrepareAnyway ==
    /\ armStep = "stopping"
    /\ engine' = IF engine = "recorded" THEN "none" ELSE engine
    /\ attempt' = "pending"
    /\ active' = TRUE
    /\ armStep' = "launching"
    /\ UNCHANGED <<services, measured>>

(* stop_vllm gives up on an engine no pidfile names; then write_manifest.   *)
Prepare ==
    /\ armStep = "stopping"
    /\ engine # "stray"
    /\ engine' = "none"
    /\ attempt' = "pending"
    /\ active' = TRUE
    /\ armStep' = "launching"
    /\ UNCHANGED <<services, measured>>

EngineIsInTheWay == armStep = "stopping" /\ engine = "stray" /\ EndFailed

(* launch_vllm.sh: healthy is whatever answers the port.                    *)
Launch ==
    /\ armStep = "launching"
    /\ engine' = IF engine = "none" THEN "block" ELSE engine
    /\ armStep' = "starting"
    /\ UNCHANGED <<attempt, active, services, measured>>

LaunchFails == armStep = "launching" /\ EndFailed

(* run_arm *)
StartDecision ==
    /\ armStep = "starting"
    /\ Arm \in DOMAIN Modes
    /\ decider' = "loading"
    /\ armStep' = "awaiting decision"
    /\ UNCHANGED <<engine, attempt, active, decision, gateway, launcher, measured>>

DecisionHealthy ==
    /\ armStep = "awaiting decision"
    /\ decision # "none"
    /\ armStep' = "starting gateway"
    /\ UNCHANGED <<engine, attempt, active, services, measured>>

StartGateway ==
    /\ armStep = "starting gateway" \/ (armStep = "starting" /\ Arm = "G0")
    /\ launcher' = "started"
    /\ armStep' = "awaiting gateway"
    /\ UNCHANGED <<engine, attempt, active, decision, decider, gateway, measured>>

GatewayHealthy ==
    /\ armStep = "awaiting gateway"
    /\ gateway # "none"
    /\ armStep' = "measuring"
    /\ UNCHANGED <<engine, attempt, active, services, measured>>

StartDirect ==
    /\ armStep = "starting" /\ Arm = "D0"
    /\ armStep' = "measuring"
    /\ UNCHANGED <<engine, attempt, active, services, measured>>

(* A bug: wait_healthy without its deadline. *)
WaitForever ==
    /\ armStep \in {"awaiting decision", "awaiting gateway"}
    /\ FALSE
    /\ EndFailed

(* wait_healthy gives up after 60 seconds without an answer. *)
WaitTimesOut ==
    /\ \/ armStep = "awaiting decision" /\ decision = "none"
       \/ armStep = "awaiting gateway" /\ gateway = "none"
    /\ EndFailed

(* What the requests of an arm pass through. *)
Path ==
    IF Arm = "D0" THEN [engine |-> engine, gateway |-> "none", decision |-> "none"]
    ELSE [engine   |-> engine,
          gateway  |-> gateway,
          decision |-> IF gateway = "deciding" THEN decision ELSE "none"]

(* Warm-up, drain and a valid measurement, then the next arm. *)
Measure ==
    /\ armStep = "measuring"
    /\ engine # "none"
    /\ measured' = Append(measured, Path)
    /\ armStep' = IF Len(measured) + 1 < Len(Order) THEN "starting" ELSE "finishing"
    /\ StopServices
    /\ UNCHANGED <<engine, attempt, active>>

(* One failed request makes the measurement invalid, and set -e ends it.    *)
MeasureFails == armStep = "measuring" /\ EndFailed

(* stop_vllm, which gives up on an engine that still answers. *)
StopEngine ==
    /\ armStep = "finishing"
    /\ engine' = "none"
    /\ armStep' = "archiving"
    /\ UNCHANGED <<attempt, active, services, measured>>

EngineStays == armStep = "finishing" /\ engine # "none" /\ EndFailed

(* A bug: evidence that is already archived is archived again. *)
ArchiveOverwriting ==
    /\ armStep = "archiving"
    /\ armStep' = "marking"
    /\ UNCHANGED <<engine, attempt, active, services, measured>>

(* collect_vllm_evidence: the evidence of an attempt the trap has archived   *)
(* is not archived again, and set -e ends the block.                       *)
Archive ==
    /\ armStep = "archiving"
    /\ IF attempt = "pending"
       THEN armStep' = "marking" /\ UNCHANGED <<engine, attempt, active, services, measured>>
       ELSE EndFailed

(* mark_attempt_status complete, whatever the status is by now.             *)
MarkComplete ==
    /\ armStep = "marking"
    /\ attempt' = "complete"
    /\ armStep' = "marked"
    /\ UNCHANGED <<engine, active, services, measured>>

(* The tag is cleared, and the outputs of the arms are summarized.          *)
Summarize ==
    /\ armStep = "marked"
    /\ active' = FALSE
    /\ armStep' = "complete"
    /\ UNCHANGED <<engine, attempt, services, measured>>

Block ==
    \/ Prepare \/ EngineIsInTheWay \/ Launch \/ LaunchFails
    \/ StartDecision \/ DecisionHealthy \/ StartGateway \/ GatewayHealthy
    \/ StartDirect \/ WaitTimesOut \/ Measure \/ MeasureFails
    \/ StopEngine \/ EngineStays \/ Archive \/ MarkComplete \/ Summarize

(* INT or TERM, whose trap is still the library's: it stops the engine,      *)
(* archives the attempt it knows as failed, and the block goes on.          *)
ArmsInterrupted ==
    /\ armStep \notin {"complete", "failed"}
    /\ engine' = IF engine = "stray" THEN engine ELSE "none"
    /\ attempt' = IF active THEN "failed" ELSE attempt
    /\ active' = FALSE
    /\ UNCHANGED <<armStep, services, measured>>

ArmsNext == Block \/ Processes \/ ArmsInterrupted

ArmsSpec == ArmsInit /\ [][ArmsNext]_armVars

(* The script and the processes it started keep running. *)
ArmsFairness == WF_armVars(Block) /\ WF_armVars(Processes)

-----------------------------------------------------------------------------
(* A block whose attempt is marked complete measured every arm, all of them *)
(* on the vLLM the attempt launched: whatever else answered port 8000, and   *)
(* whenever a signal had the trap take the engine down.                     *)
CompleteBlockHasOneEngine ==
    attempt = "complete" =>
        /\ Len(measured) = Len(Order)
        /\ \A i \in DOMAIN measured : measured[i].engine = "block"

(* An attempt that a signal had the trap archive as failed is never marked   *)
(* complete by the block, which goes on through all of its arms and to the   *)
(* end.  Only a signal that comes while the block itself archives or marks   *)
(* its evidence is overruled.                                              *)
FailedAttemptStaysFailed ==
    [](attempt = "failed" /\ armStep # "marking" => [](attempt = "failed"))

(* No arm is measured with the decision service of an earlier arm, whose    *)
(* end only the wait in stop_decision ensures: it is the arm's own, or the   *)
(* run wrapper's when that one has the port.                                *)
NoArmInheritsADecider ==
    \A i \in DOMAIN measured :
        measured[i].decision \in
            {"none", "wrapper"} \cup
            (IF Order[i] \in DOMAIN Modes THEN {Modes[Order[i]]} ELSE {})

(* Block 2 ends, whatever dies on the way: each of its waits has a deadline. *)
BlockEnds == armStep = "stopping" ~> armStep \in {"complete", "failed"}

(* "Each arm brings up exactly the components it needs", and "Each          *)
(* successive arm adds exactly one component".  From the second gateway arm *)
(* on, the gateway is the one the first of them left running.               *)
Components(arm) ==
    [engine   |-> "block",
     gateway  |-> CASE arm = "D0" -> "none" [] arm = "G0" -> "proxying" [] OTHER -> "deciding",
     decision |-> IF arm \in DOMAIN Modes THEN Modes[arm] ELSE "none"]

EachArmHasItsComponents ==
    \A i \in DOMAIN measured : measured[i] = Components(Order[i])
=============================================================================
