---------------------------- MODULE TrainingMatrix ----------------------------
(***************************************************************************)
(* The training drivers: run_matrix (training_matrix.py), run_tier2_matrix  *)
(* and run_nested_learning_curve (tier2_training.py) around train           *)
(* (train_ranker.py).  A driver trains its runs one after the other, each   *)
(* in a work directory whose final model is then copied to the results; a   *)
(* run whose metrics are among the results is not trained again.  A run     *)
(* may start from the result of another: Tier 2 from Tier 1.               *)
(*                                                                         *)
(* A LightGBM baseline has no work directory: its model and its metrics are *)
(* written to the results directly.                                        *)
(*                                                                         *)
(* Nothing is renamed into place: between the opening of a metrics file and *)
(* its last byte a kill leaves a file that exists and that json.loads       *)
(* refuses.                                                                *)
(***************************************************************************)
EXTENDS Naturals, Sequences

CONSTANTS
    Drivers,    \* driver -> the sequence of its runs
    Baselines,  \* the runs that are LightGBM baselines
    StartsFrom, \* run -> the run whose result it starts from, where there is one
    MaxKills    \* bounds the kills

Runs == UNION {{Drivers[d][i] : i \in DOMAIN Drivers[d]} : d \in DOMAIN Drivers}

ASSUME TrainingAssumption ==
    /\ \A d \in DOMAIN Drivers : Drivers[d] \in Seq(Runs) /\ Drivers[d] # <<>>
    /\ Baselines \subseteq Runs /\ MaxKills \in Nat
    /\ DOMAIN StartsFrom \subseteq Runs \ Baselines
    /\ \A r \in DOMAIN StartsFrom : StartsFrom[r] \in Runs

VARIABLES
    driver,     \* the driver that runs, or "none"
    trainStep,  \* where it is with its run
    workdir,    \* run -> "none", "checkpoint" or "final"
    result,     \* run -> what there is of its final directory
    summary,    \* driver -> how many runs its summary lists
    listed,     \* how many runs this invocation has listed
    kills

trainVars == <<driver, trainStep, workdir, result, summary, listed, kills>>

Files == {"directory", "model", "torn metrics", "metrics"}

TrainInit ==
    /\ driver = "none" /\ trainStep = "stopped"
    /\ workdir = [r \in Runs |-> "none"]
    /\ result = [r \in Runs |-> {}]
    /\ summary = [d \in DOMAIN Drivers |-> 0]
    /\ listed = 0
    /\ kills = 0

Run == Drivers[driver][listed + 1]
MetricsExist(r) == {"torn metrics", "metrics"} \cap result[r] # {}
HasMetrics(r) == "metrics" \in result[r]

DriverStarts(d) ==
    /\ trainStep = "stopped"
    /\ driver' = d
    /\ listed' = 0
    /\ trainStep' = "choosing"
    /\ UNCHANGED <<workdir, result, summary, kills>>

(* A bug: a run is trained whether it has a result or not. *)
AlwaysTrain(r) == FALSE

(* There is a metrics file: the run is not trained. *)
Reused(r) == MetricsExist(r)

(* The next run is reused, when its metrics can be read, begun, or refused:  *)
(* its start must exist, in whatever state.                                *)
ChooseRun ==
    /\ trainStep = "choosing"
    /\ trainStep' =
          IF Reused(Run) THEN IF "torn metrics" \in result[Run] THEN "stopped" ELSE "listing"
          ELSE IF Run \in Baselines THEN "making"
          ELSE IF Run \in DOMAIN StartsFrom /\ result[StartsFrom[Run]] = {} THEN "stopped"
          ELSE "training"
    /\ UNCHANGED <<driver, workdir, result, summary, listed, kills>>

(* train saves a checkpoint after its first step, and its final model, into *)
(* directories that must not exist.                                        *)
FirstCheckpoint ==
    /\ trainStep = "training"
    /\ IF workdir[Run] = "none"
       THEN trainStep' = "stepping" /\ workdir' = [workdir EXCEPT ![Run] = "checkpoint"]
       ELSE trainStep' = "stopped" /\ UNCHANGED workdir
    /\ UNCHANGED <<driver, result, summary, listed, kills>>

SaveFinal ==
    /\ trainStep = "stepping"
    /\ workdir' = [workdir EXCEPT ![Run] = "final"]
    /\ trainStep' = "making"
    /\ UNCHANGED <<driver, result, summary, listed, kills>>

(* copytree, and the baseline's mkdir, refuse a directory that exists.      *)
MakeResult ==
    /\ trainStep = "making"
    /\ IF result[Run] = {}
       THEN trainStep' = "filling" /\ result' = [result EXCEPT ![Run] = {"directory"}]
       ELSE trainStep' = "stopped" /\ UNCHANGED result
    /\ UNCHANGED <<driver, workdir, summary, listed, kills>>

(* copytree copies in the order the directory lists; the baseline saves its *)
(* model before its metrics.                                               *)
FillModel ==
    /\ trainStep = "filling"
    /\ "model" \notin result[Run] /\ "torn metrics" \notin result[Run]
    /\ result' = [result EXCEPT ![Run] = @ \cup {"model"}]
    /\ trainStep' = IF HasMetrics(Run) THEN "listing" ELSE "filling"
    /\ UNCHANGED <<driver, workdir, summary, listed, kills>>

OpenMetrics ==
    /\ trainStep = "filling"
    /\ ~ MetricsExist(Run)
    /\ Run \in Baselines => "model" \in result[Run]
    /\ result' = [result EXCEPT ![Run] = @ \cup {"torn metrics"}]
    /\ UNCHANGED <<driver, trainStep, workdir, summary, listed, kills>>

FinishMetrics ==
    /\ trainStep = "filling"
    /\ "torn metrics" \in result[Run]
    /\ result' = [result EXCEPT ![Run] = (@ \ {"torn metrics"}) \cup {"metrics"}]
    /\ trainStep' = IF "model" \in result[Run] THEN "listing" ELSE "filling"
    /\ UNCHANGED <<driver, workdir, summary, listed, kills>>

(* The summary is rewritten after every run, with the runs of this          *)
(* invocation.                                                             *)
ListRun ==
    /\ trainStep = "listing"
    /\ listed' = listed + 1
    /\ summary' = [summary EXCEPT ![driver] = listed + 1]
    /\ trainStep' = IF listed + 1 = Len(Drivers[driver]) THEN "stopped" ELSE "choosing"
    /\ UNCHANGED <<driver, workdir, result, kills>>

DriverKilled ==
    /\ trainStep # "stopped"
    /\ kills < MaxKills /\ kills' = kills + 1
    /\ trainStep' = "stopped"
    /\ UNCHANGED <<driver, workdir, result, summary, listed>>

DriverWork ==
    \/ ChooseRun \/ FirstCheckpoint \/ SaveFinal \/ MakeResult
    \/ FillModel \/ OpenMetrics \/ FinishMetrics \/ ListRun
TrainNext == DriverWork \/ DriverKilled \/ \E d \in DOMAIN Drivers : DriverStarts(d)

TrainSpec == TrainInit /\ [][TrainNext]_trainVars

-----------------------------------------------------------------------------
Complete(d) == summary[d] = Len(Drivers[d])

(* What a kill leaves of a run that no later invocation gets past: a work    *)
(* directory or a result directory without metrics, or a torn metrics file. *)
Stuck(d) ==
    trainStep = "stopped" /\
    \E i \in DOMAIN Drivers[d] :
        LET r == Drivers[d][i]
        IN ~ HasMetrics(r) /\ (workdir[r] # "none" \/ result[r] # {})

(* A driver that is started again until its summary is complete completes   *)
(* it, unless a kill left a run half done, which no later start repairs, or  *)
(* the runs start from those of another driver.                            *)
MatrixGetsDone ==
    \A d \in DOMAIN Drivers :
        (\A i \in DOMAIN Drivers[d] : Drivers[d][i] \notin DOMAIN StartsFrom)
        => ([]<>(trainStep # "stopped" /\ driver = d) => <>(Complete(d) \/ Stuck(d)))
=============================================================================
