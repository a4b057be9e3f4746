---------------------------- MODULE MCExperiments ----------------------------
(* Small instances, for TLC, of the modules away from the serving path.     *)
(* They share no variable but the labelling campaign's ledger, which the    *)
(* restore repairs; so a behaviour is one of a single part, and the others  *)
(* stay as they began.                                                     *)
EXTENDS OverheadArms, QueueSimulation, ReleaseRestore, TrainingMatrix,
        MatrixBatch, WorkloadReplay, ServiceLauncher

VARIABLE part

AllParts == {"arms", "simulation", "campaign", "restore", "training", "batch",
             "replay", "launcher"}
OnlyArms == {"arms"}

CONSTANT Parts

vars == <<part, armVars, simVars, restoreVars, trainVars, batchVars, replayVars, launcherVars>>

(* Block 2 measures five arms forward, then in reverse: the arms that       *)
(* differ in what they need, and the second pass's first ones.             *)
ArmOrder == <<"D0", "G0", "G1", "G4", "G1", "D0">>

(* Two models and a baseline per driver; Tier 2 starts from Tier 1.         *)
TwoTiers == [tier1 |-> <<"t1a", "t1b", "t1l">>, tier2 |-> <<"t2a", "t2b", "t2l">>]
TierStarts == [t2a |-> "t1a", t2b |-> "t1b"]

(* The stages of the two matrix drivers, with a cell or two of each kind.   *)
ScriptPlans ==
    [run_matrix |-> <<"preflight", "mixed 1", "mixed 2", "parity", "ood 1", "overhead", "upload">>,
     run_block1_matrix |-> <<"sentinel 1", "round a 1", "round a 2", "sentinel 2",
                             "round b 1", "sentinel 3", "parity", "summary">>]

(* What the parts that are left out look like: a block and a restore that   *)
(* have ended, and one of the states the others may begin in.              *)
EndedBlock ==
    /\ armStep = "failed" /\ engine = "none" /\ attempt = "none" /\ active = FALSE
    /\ decision = "none" /\ gateway = "none" /\ decider = "unset" /\ launcher = "unset"
    /\ measured = <<>>

NoRestore ==
    /\ restoreStep = "done" /\ release = FALSE /\ current = FALSE /\ source = "none"
    /\ exclusions = {} /\ merged = None
    /\ sidecar = None /\ sidecarTmp = None /\ manifest = None /\ manifestTmp = None

OneQueue ==
    /\ algorithm = CHOOSE a \in Algorithms : TRUE
    /\ arrival = CHOOSE a \in [Jobs -> Times] : \A i, j \in Jobs : i < j => a[i] < a[j]
    /\ work = [j \in Jobs |-> CHOOSE w \in Works : TRUE]
    /\ cost = [j \in Jobs |-> CHOOSE k \in Costs : TRUE]

Init ==
    /\ part \in Parts
    /\ IF part = "arms" THEN ArmsInit ELSE EndedBlock
    /\ part # "simulation" => OneQueue
    /\ SimInit
    /\ IF part = "restore" THEN RestoreInit ELSE LedgerInit /\ NoRestore
    /\ TrainInit
    /\ part # "batch" => script = CHOOSE s \in DOMAIN Plans : TRUE
    /\ BatchInit
    /\ part # "replay" => offset = [r \in Workload |-> 0]
    /\ ReplayInit
    /\ LauncherInit

Others(p) ==
    /\ part = p /\ UNCHANGED part
    /\ p # "arms" => UNCHANGED armVars
    /\ p # "simulation" => UNCHANGED simVars
    /\ p \notin {"campaign", "restore"} => UNCHANGED ledgerVars
    /\ p # "restore" => UNCHANGED <<restoreStep, directory>>
    /\ p # "training" => UNCHANGED trainVars
    /\ p # "batch" => UNCHANGED batchVars
    /\ p # "replay" => UNCHANGED replayVars
    /\ p # "launcher" => UNCHANGED launcherVars

Next ==
    \/ ArmsNext /\ Others("arms")
    \/ SimNext /\ Others("simulation")
    \/ CampaignNext /\ Others("campaign")
    \/ RestoreNext /\ Others("restore")
    \/ TrainNext /\ Others("training")
    \/ BatchNext /\ Others("batch")
    \/ ReplayNext /\ Others("replay")
    \/ LauncherNext /\ Others("launcher")

(* The scripts and the processes they started keep running; nobody has to   *)
(* start a driver.                                                         *)
Fairness ==
    /\ WF_vars(Block /\ Others("arms")) /\ WF_vars(Processes /\ Others("arms"))
    /\ WF_vars(RestoreWork /\ Others("restore"))
    /\ WF_vars(DriverWork /\ Others("training"))

Spec == Init /\ [][Next]_vars /\ Fairness
=============================================================================
