--------------------------- MODULE Drivers_proofs ---------------------------
(***************************************************************************)
(* The launchers and stop commands signal nothing they did not start, a     *)
(* complete Block 2 measured one engine, a matrix publishes what its gate   *)
(* and its stages saw through, and a training summary lists trained runs:   *)
(* for any number of process ids, any order of arms, any plan of a batch    *)
(* and any runs.                                                           *)
(***************************************************************************)
EXTENDS ServiceLauncher, OverheadArms, MatrixBatch, TrainingMatrix, SequenceTheorems, TLAPS

(* The launchers, as a specification of their own. *)
LauncherSpec == LauncherInit /\ [][LauncherNext]_launcherVars

(* A start time is given to one process only, and not before it is read.    *)
StartTimes ==
    /\ starts \in Nat
    /\ \A p \in Pids : Alive(p) => process[p].start \in 0..(starts - 1)
    /\ \A p, q \in Pids :
          Alive(p) /\ Alive(q) /\ process[p].start = process[q].start => p = q

(* Until its start time is written the launcher's child is its own.         *)
ChildIsTheService ==
    launching \in {"spawned", "recorded"} =>
        child \in Pids /\ (Alive(child) => process[child].kind = "service")

(* The start time on the disk is one of a service, dead or alive.           *)
StartFileIsOfAService ==
    /\ startfile = Missing \/ (startfile \in Nat /\ startfile < starts)
    /\ \A p \in Pids :
          Alive(p) /\ process[p].start = startfile => process[p].kind = "service"

LauncherInv ==
    /\ DOMAIN process = Pids /\ process = [p \in Pids |-> process[p]]
    /\ StartTimes /\ ChildIsTheService /\ StartFileIsOfAService
    /\ OnlyServicesAreSignalled

(* A process that starts has a start time of its own. *)
LEMMA StartedProcessIsNew ==
  ASSUME LauncherInv, NEW p \in Pids, NEW kind \in {"service", "twin", "other"},
         StartsProcess(p, kind), UNCHANGED startfile
  PROVE  /\ process' = [q \in Pids |-> process'[q]] /\ DOMAIN process' = Pids
         /\ \A q \in Pids : q # p => process'[q] = process[q]
         /\ process'[p] = [kind |-> kind, start |-> starts]
         /\ StartTimes' /\ StartFileIsOfAService'
<1> USE DEF StartsProcess, LauncherInv
<1>1. /\ process' = [q \in Pids |-> process'[q]] /\ DOMAIN process' = Pids
      /\ \A q \in Pids : q # p => process'[q] = process[q]
      /\ process'[p] = [kind |-> kind, start |-> starts]
  OBVIOUS
<1>2. \A q \in Pids : q # p => (Alive(q)' <=> Alive(q))
  BY <1>1 DEF Alive
<1>3. starts \in Nat /\ starts' = starts + 1
  BY DEF StartTimes
<1>4. \A q \in Pids : q # p /\ Alive(q)' => process'[q].start \in 0..(starts - 1)
  BY <1>1, <1>2 DEF StartTimes
<1>5. process'[p].start = starts
  BY <1>1
<1>6. StartTimes'
  <2>1. \A q \in Pids : Alive(q)' => process'[q].start \in 0..(starts' - 1)
    BY <1>3, <1>4, <1>5
  <2>2. \A q, r \in Pids :
           Alive(q)' /\ Alive(r)' /\ process'[q].start = process'[r].start => q = r
    BY <1>1, <1>2, <1>3, <1>4, <1>5 DEF StartTimes
  <2> QED BY <1>3, <2>1, <2>2 DEF StartTimes
<1>7. StartFileIsOfAService'
  <2>1. startfile # starts
    BY <1>3 DEF StartFileIsOfAService, Missing
  <2>2. startfile' = Missing \/ (startfile' \in Nat /\ startfile' < starts')
    BY <1>3 DEF StartFileIsOfAService
  <2> QED BY <1>1, <1>2, <1>5, <2>1, <2>2 DEF StartFileIsOfAService
<1> QED BY <1>1, <1>6, <1>7

(* What is signalled has the start time on the disk. *)
LEMMA SignalledIsAService ==
  ASSUME LauncherInv, Alive(pidfile), process[pidfile].start = startfile, Signals(pidfile)
  PROVE  OnlyServicesAreSignalled'
BY DEF LauncherInv, StartFileIsOfAService, Signals, OnlyServicesAreSignalled, Alive

(* Removing the files and signalling leave the processes alone. *)
LEMMA RemovingKeeps ==
  ASSUME LauncherInv, RemoveFiles, UNCHANGED <<process, child, starts>>,
         launching' \in {launching, "ended"}, OnlyServicesAreSignalled'
  PROVE  LauncherInv'
<1>1. \A p : Alive(p)' <=> Alive(p)
  BY DEF Alive
<1>2. StartTimes'
  BY <1>1 DEF LauncherInv, StartTimes
<1>3. ChildIsTheService'
  BY <1>1 DEF LauncherInv, ChildIsTheService
<1>4. StartFileIsOfAService'
  BY <1>1, <1>2 DEF RemoveFiles, StartFileIsOfAService, StartTimes, Missing
<1> QED BY <1>2, <1>3, <1>4 DEF LauncherInv

(* A launcher's cleanup signals a process with the saved start time. *)
LEMMA CleanupKeeps ==
  ASSUME LauncherInv, LauncherCleanup, UNCHANGED <<process, child, starts>>,
         launching' \in {launching, "ended"}
  PROVE  LauncherInv'
<1>1. OnlyServicesAreSignalled'
  BY SignalledIsAService DEF LauncherCleanup, LauncherInv, OnlyServicesAreSignalled
<1> QED BY <1>1, RemovingKeeps DEF LauncherCleanup

(* Every step of launchers, drivers and other processes keeps the invariant. *)
LEMMA LauncherStep ==
  ASSUME LauncherInv, [LauncherNext]_launcherVars
  PROVE  LauncherInv'
<1>1. ASSUME NEW p \in Pids, OthersStart(p) PROVE LauncherInv'
  <2> USE <1>1 DEF OthersStart
  <2>1. PICK kind \in {"twin", "other"} : StartsProcess(p, kind)
    OBVIOUS
  <2>2. /\ process' = [q \in Pids |-> process'[q]] /\ DOMAIN process' = Pids
        /\ \A q \in Pids : q # p => process'[q] = process[q]
        /\ StartTimes' /\ StartFileIsOfAService'
    BY <2>1, StartedProcessIsNew
  <2>3. ChildIsTheService'
    BY <2>2 DEF LauncherInv, ChildIsTheService, Alive
  <2>4. OnlyServicesAreSignalled'
    BY DEF LauncherInv, OnlyServicesAreSignalled
  <2> QED BY <2>2, <2>3, <2>4 DEF LauncherInv
<1>2. ASSUME NEW p \in Pids, Spawn(p) PROVE LauncherInv'
  <2> USE <1>2 DEF Spawn
  <2>1. /\ process' = [q \in Pids |-> process'[q]] /\ DOMAIN process' = Pids
        /\ process'[p] = [kind |-> "service", start |-> starts]
        /\ StartTimes' /\ StartFileIsOfAService'
    BY StartedProcessIsNew
  <2>2. ChildIsTheService'
    BY <2>1 DEF ChildIsTheService
  <2>3. OnlyServicesAreSignalled'
    BY DEF LauncherInv, OnlyServicesAreSignalled
  <2> QED BY <2>1, <2>2, <2>3 DEF LauncherInv
<1>3. ASSUME NEW p \in Pids, Exits(p) PROVE LauncherInv'
  <2> USE <1>3 DEF Exits
  <2>1. /\ DOMAIN process' = Pids /\ process' = [q \in Pids |-> process'[q]]
        /\ \A q \in Pids : Alive(q)' => Alive(q) /\ process'[q] = process[q]
    BY DEF LauncherInv, Alive
  <2>2. StartTimes'
    BY <2>1 DEF LauncherInv, StartTimes
  <2>3. ChildIsTheService'
    BY <2>1 DEF LauncherInv, ChildIsTheService
  <2>4. StartFileIsOfAService' /\ OnlyServicesAreSignalled'
    BY <2>1 DEF LauncherInv, StartFileIsOfAService, OnlyServicesAreSignalled
  <2> QED BY <2>1, <2>2, <2>3, <2>4 DEF LauncherInv
<1>4. CASE LaunchBegins \/ WritePid \/ Healthy \/ LauncherKilled
  <2> USE <1>4 DEF LaunchBegins, WritePid, Healthy, LauncherKilled
  <2>1. UNCHANGED <<process, startfile, child, starts, signalled>>
    OBVIOUS
  <2>2. \A p : Alive(p)' <=> Alive(p)
    BY <2>1 DEF Alive
  <2>3. StartTimes' /\ StartFileIsOfAService' /\ OnlyServicesAreSignalled'
    BY <2>1, <2>2 DEF LauncherInv, StartTimes, StartFileIsOfAService, OnlyServicesAreSignalled
  <2>4. ChildIsTheService'
    BY <2>1, <2>2 DEF LauncherInv, ChildIsTheService
  <2> QED BY <2>1, <2>3, <2>4 DEF LauncherInv
<1>5. CASE WriteStart /\ Alive(child)
  <2> USE <1>5 DEF WriteStart
  <2>1. \A p : Alive(p)' <=> Alive(p)
    BY DEF Alive
  <2>2. child \in Pids /\ process[child].kind = "service"
    BY DEF LauncherInv, ChildIsTheService
  <2>3. StartFileIsOfAService'
    BY <2>1, <2>2 DEF LauncherInv, StartTimes, StartFileIsOfAService
  <2>4. StartTimes' /\ ChildIsTheService' /\ OnlyServicesAreSignalled'
    BY <2>1 DEF LauncherInv, StartTimes, ChildIsTheService, OnlyServicesAreSignalled
  <2> QED BY <2>3, <2>4 DEF LauncherInv
<1>6. CASE WriteStart /\ ~ Alive(child)
  BY <1>6, RemovingKeeps DEF WriteStart, LauncherInv, OnlyServicesAreSignalled
<1>7. CASE Unhealthy \/ LauncherTrapped
  BY <1>7, CleanupKeeps DEF Unhealthy, LauncherTrapped
<1>8. CASE SafeStop
  <2>1. OnlyServicesAreSignalled'
    BY <1>8, SignalledIsAService
       DEF SafeStop, IsTheService, LauncherInv, OnlyServicesAreSignalled
  <2> QED BY <1>8, <2>1, RemovingKeeps DEF SafeStop
<1>9. CASE UNCHANGED launcherVars
  BY <1>9 DEF launcherVars, LauncherInv, StartTimes, ChildIsTheService,
              StartFileIsOfAService, OnlyServicesAreSignalled, Alive
<1> QED BY <1>1, <1>2, <1>3, <1>4, <1>5, <1>6, <1>7, <1>8, <1>9 DEF LauncherNext

(* No launcher, trap or stop command signals a process of somebody else,    *)
(* however often pids are reused.                                          *)
THEOREM StopsOnlyItsOwn == LauncherSpec => []OnlyServicesAreSignalled
<1>1. LauncherInit => LauncherInv
  BY DEF LauncherInit, LauncherInv, StartTimes, ChildIsTheService, StartFileIsOfAService,
         OnlyServicesAreSignalled, Alive, Missing
<1>2. LauncherInv => OnlyServicesAreSignalled
  BY DEF LauncherInv
<1> QED BY <1>1, <1>2, LauncherStep, PTL DEF LauncherSpec

-----------------------------------------------------------------------------
Arming == {"starting", "awaiting decision", "starting gateway", "awaiting gateway",
           "measuring"}

Ending == {"finishing", "archiving", "marking", "marked", "complete"}

(* The attempt is registered after the old engine is gone, and marked        *)
(* complete at the end only.                                               *)
AttemptFollowsTheBlock ==
    /\ attempt \in {"none", "pending", "failed", "complete"}
    /\ armStep \in {"stopping", "launching", "failed"} \cup Arming \cup Ending
    /\ armStep = "stopping" => attempt = "none" /\ active = FALSE
    /\ attempt = "complete" => armStep \in {"marked", "complete"}

(* After the launch port 8000 is the block's own engine's or nobody's.      *)
EngineIsTheBlocks ==
    /\ armStep = "launching" => engine = "none"
    /\ armStep \in Arming => engine \in {"none", "block"}

(* One measurement per arm so far, each of the block's engine. *)
MeasuredSoFar ==
    /\ \E Paths : measured \in Seq(Paths)
    /\ armStep \in {"stopping", "launching"} => measured = <<>>
    /\ armStep \in Arming => Len(measured) < Len(Order)
    /\ armStep \in Ending => Len(measured) = Len(Order)
    /\ \A i \in 1..Len(measured) : measured[i].engine = "block"

ArmsInv == AttemptFollowsTheBlock /\ EngineIsTheBlocks /\ MeasuredSoFar

(* The services of an arm do not touch the engine, the attempt or what was   *)
(* measured.                                                               *)
LEMMA BlockStaysPut ==
  ASSUME ArmsInv, UNCHANGED <<engine, attempt, measured>>, active' \in {active, FALSE},
         \/ armStep' = armStep
         \/ armStep' = "failed" /\ attempt # "complete"
         \/ armStep \in Arming /\ armStep' \in Arming
         \/ armStep = "archiving" /\ armStep' = "marking"
         \/ armStep = "marked" /\ armStep' = "complete"
  PROVE  ArmsInv'
<1>1. AttemptFollowsTheBlock'
  BY DEF ArmsInv, AttemptFollowsTheBlock, Arming, Ending
<1>2. EngineIsTheBlocks'
  BY DEF ArmsInv, EngineIsTheBlocks, Arming
<1>3. MeasuredSoFar'
  BY DEF ArmsInv, MeasuredSoFar, Arming, Ending
<1> QED BY <1>1, <1>2, <1>3 DEF ArmsInv

(* Every step of the block, of what it started and of a signal keeps the    *)
(* invariant.                                                              *)
LEMMA ArmsStep ==
  ASSUME ArmsAssumption, ArmsInv, [ArmsNext]_armVars
  PROVE  ArmsInv'
<1> USE DEF services
<1>1. CASE Processes
  BY <1>1, BlockStaysPut DEF Processes, DecisionBinds, DecisionDies, LauncherChecks,
     GatewayBinds, GatewayFails, LauncherEnds
<1>2. CASE EndFailed /\ armStep \notin {"marked", "complete"}
  <2>1. attempt # "complete"
    BY <1>2 DEF ArmsInv, AttemptFollowsTheBlock
  <2> QED BY <1>2, <2>1, BlockStaysPut DEF EndFailed
<1>3. CASE StartDecision \/ DecisionHealthy \/ StartGateway \/ GatewayHealthy \/ StartDirect
  BY <1>3, BlockStaysPut DEF StartDecision, DecisionHealthy, StartGateway,
     GatewayHealthy, StartDirect, Arming
<1>4. CASE Prepare
  BY <1>4 DEF Prepare, ArmsInv, AttemptFollowsTheBlock, EngineIsTheBlocks,
     MeasuredSoFar, Arming, Ending
<1>5. CASE Launch
  <2>1. Len(Order) > 0
    BY DEF ArmsAssumption
  <2> QED BY <1>5, <2>1 DEF Launch, ArmsInv, AttemptFollowsTheBlock, EngineIsTheBlocks,
             MeasuredSoFar, Arming, Ending
<1>6. CASE Measure
  <2> USE <1>6 DEF Measure
  <2>1. /\ armStep = "measuring" /\ Len(measured) < Len(Order)
        /\ engine = "block" /\ Path.engine = "block"
    BY DEF ArmsInv, EngineIsTheBlocks, MeasuredSoFar, Arming, Path
  <2>2. PICK Paths : measured \in Seq(Paths)
    BY DEF ArmsInv, MeasuredSoFar
  <2>3. measured \in Seq(Paths \cup {Path})
    BY <2>2
  <2>4. /\ measured' \in Seq(Paths \cup {Path})
        /\ Len(measured') = Len(measured) + 1
        /\ \A i \in 1..Len(measured) : measured'[i] = measured[i]
        /\ measured'[Len(measured) + 1] = Path
    BY <2>3
  <2>5. Len(measured) \in Nat /\ Len(Order) \in Nat
    BY <2>2 DEF ArmsAssumption
  <2>6. \A i \in 1..Len(measured') : measured'[i].engine = "block"
    BY <2>1, <2>4, <2>5 DEF ArmsInv, MeasuredSoFar
  <2>7. MeasuredSoFar'
    BY <2>1, <2>4, <2>5, <2>6 DEF MeasuredSoFar, Arming, Ending
  <2>8. AttemptFollowsTheBlock' /\ EngineIsTheBlocks'
    BY DEF ArmsInv, AttemptFollowsTheBlock, EngineIsTheBlocks, Arming, Ending
  <2> QED BY <2>7, <2>8 DEF ArmsInv
<1>7. CASE StopEngine \/ MarkComplete
  BY <1>7 DEF StopEngine, MarkComplete, ArmsInv, AttemptFollowsTheBlock, EngineIsTheBlocks,
     MeasuredSoFar, Arming, Ending
<1>8. CASE (Archive /\ attempt = "pending") \/ Summarize
  BY <1>8, BlockStaysPut DEF Archive, Summarize
<1>9. CASE ArmsInterrupted
  <2> USE <1>9 DEF ArmsInterrupted
  <2>1. AttemptFollowsTheBlock'
    BY DEF ArmsInv, AttemptFollowsTheBlock
  <2>2. EngineIsTheBlocks' /\ MeasuredSoFar'
    BY DEF ArmsInv, EngineIsTheBlocks, MeasuredSoFar, Arming
  <2> QED BY <2>1, <2>2 DEF ArmsInv
<1>10. CASE UNCHANGED armVars
  BY <1>10, BlockStaysPut DEF armVars
<1>11. ASSUME \/ EngineIsInTheWay \/ LaunchFails \/ WaitTimesOut \/ MeasureFails
              \/ EngineStays \/ (Archive /\ attempt # "pending")
       PROVE  EndFailed /\ armStep \notin {"marked", "complete"}
  BY <1>11 DEF EngineIsInTheWay, LaunchFails, WaitTimesOut, MeasureFails, EngineStays, Archive
<1> QED BY <1>1, <1>2, <1>3, <1>4, <1>5, <1>6, <1>7, <1>8, <1>9, <1>10, <1>11
        DEF ArmsNext, Block

(* The invariant holds in every reachable state. *)
THEOREM ArmsInvariant == ArmsSpec => []ArmsInv
<1>1. ArmsInit => ArmsInv
  <2> SUFFICES ASSUME ArmsInit PROVE ArmsInv
    OBVIOUS
  <2>1. measured = <<>> /\ measured \in Seq({})
    BY DEF ArmsInit
  <2> QED BY <2>1 DEF ArmsInit, ArmsInv, AttemptFollowsTheBlock, EngineIsTheBlocks,
             MeasuredSoFar, Arming, Ending
<1> QED BY <1>1, ArmsStep, ArmsAssumption, PTL DEF ArmsSpec

(* A block that is complete measured every arm of any order, and each on    *)
(* the engine its attempt launched.                                        *)
THEOREM OneEnginePerBlock == ArmsSpec => []CompleteBlockHasOneEngine
<1>1. ArmsInv => CompleteBlockHasOneEngine
  <2> SUFFICES ASSUME ArmsInv, attempt = "complete"
               PROVE  /\ Len(measured) = Len(Order)
                      /\ \A i \in DOMAIN measured : measured[i].engine = "block"
    BY DEF CompleteBlockHasOneEngine
  <2>1. PICK Paths : measured \in Seq(Paths)
    BY DEF ArmsInv, MeasuredSoFar
  <2>2. DOMAIN measured = 1..Len(measured)
    BY <2>1
  <2> QED BY <2>2 DEF ArmsInv, AttemptFollowsTheBlock, MeasuredSoFar, Ending
<1> QED BY <1>1, ArmsInvariant, PTL

(* The trap has failed the attempt, and not while the block marked it.       *)
FailedForGood == attempt = "failed" /\ armStep # "marking"

(* The evidence the trap archived is not archived again, which is what the   *)
(* block would have to do before it marks its attempt.                      *)
LEMMA FailureStays ==
  ASSUME ArmsInv, [ArmsNext]_armVars, FailedForGood
  PROVE  FailedForGood'
<1> USE DEF FailedForGood
<1>1. attempt = "failed" /\ armStep # "marking" /\ armStep # "stopping"
  BY DEF ArmsInv, AttemptFollowsTheBlock
<1>2. CASE Processes \/ UNCHANGED armVars
  BY <1>1, <1>2 DEF Processes, DecisionBinds, DecisionDies, LauncherChecks, GatewayBinds,
     GatewayFails, LauncherEnds, armVars
<1>3. CASE Prepare \/ MarkComplete \/ (Archive /\ attempt = "pending")
  BY <1>1, <1>3 DEF Prepare, MarkComplete
<1>4. CASE Launch \/ StartDecision \/ DecisionHealthy \/ StartGateway \/ GatewayHealthy
           \/ StartDirect \/ StopEngine \/ Summarize
  BY <1>1, <1>4 DEF Launch, StartDecision, DecisionHealthy, StartGateway, GatewayHealthy,
     StartDirect, StopEngine, Summarize
<1>5. CASE Measure
  BY <1>1, <1>5 DEF Measure
<1>6. CASE EndFailed
  BY <1>1, <1>6 DEF EndFailed
<1>7. CASE ArmsInterrupted
  BY <1>1, <1>7 DEF ArmsInterrupted
<1>8. ASSUME \/ EngineIsInTheWay \/ LaunchFails \/ WaitTimesOut \/ MeasureFails
              \/ EngineStays \/ (Archive /\ attempt # "pending")
      PROVE  EndFailed
  BY <1>8 DEF EngineIsInTheWay, LaunchFails, WaitTimesOut, MeasureFails, EngineStays, Archive
<1> QED BY <1>2, <1>3, <1>4, <1>5, <1>6, <1>7, <1>8 DEF ArmsNext, Block

(* An attempt that the trap failed stays failed to the end of the block, and *)
(* after it, for any order of arms and any further signals: all but one that *)
(* was failed between the archive and the mark.                             *)
THEOREM FailureIsFinal == ArmsSpec => FailedAttemptStaysFailed
<1>1. FailedForGood <=> attempt = "failed" /\ armStep # "marking"
  BY DEF FailedForGood
<1> QED BY <1>1, FailureStays, ArmsInvariant, PTL DEF ArmsSpec, FailedAttemptStaysFailed

(* What answers port 9200 is the run wrapper's, or the current arm's own:   *)
(* a decider of an arm that is over has been waited for.                    *)
DeciderIsTheArms ==
    /\ decider \in {"unset", "loading", "serving", "dead"}
    /\ decider # "unset" => /\ Arm \in DOMAIN Modes
                            /\ armStep \in Arming \ {"starting"}
    /\ decision \in {"none", "wrapper"} \/ (decider = "serving" /\ decision = Mode)

DeciderInv == DeciderIsTheArms /\ NoArmInheritsADecider

(* A step that leaves the measurements alone leaves the deciders to their    *)
(* arms, if it stops the services when it leaves the arm.                   *)
LEMMA DeciderStaysPut ==
  ASSUME DeciderInv, UNCHANGED measured,
         \/ UNCHANGED <<decision, decider>> /\ (decider # "unset" => armStep' \in Arming \ {"starting"})
         \/ StopServices
  PROVE  DeciderInv'
<1>1. UNCHANGED <<Arm, Mode>>
  BY DEF Arm, Mode
<1>2. DeciderIsTheArms'
  BY <1>1 DEF DeciderInv, DeciderIsTheArms, StopServices
<1>3. NoArmInheritsADecider'
  BY DEF DeciderInv, NoArmInheritsADecider
<1> QED BY <1>2, <1>3 DEF DeciderInv

(* Every step of the block, of what it started and of a signal keeps it.    *)
LEMMA DeciderStep ==
  ASSUME ArmsInv, DeciderInv, [ArmsNext]_armVars
  PROVE  DeciderInv'
<1> USE DEF services
<1>1. CASE DecisionBinds \/ DecisionDies
  <2> USE <1>1 DEF DecisionBinds, DecisionDies
  <2>1. UNCHANGED <<Arm, Mode>>
    BY DEF Arm, Mode
  <2>2. DeciderIsTheArms'
    BY <2>1 DEF DeciderInv, DeciderIsTheArms
  <2>3. NoArmInheritsADecider'
    BY DEF DeciderInv, NoArmInheritsADecider
  <2> QED BY <2>2, <2>3 DEF DeciderInv
<1>2. CASE LauncherChecks \/ GatewayBinds \/ GatewayFails \/ LauncherEnds \/ ArmsInterrupted
           \/ UNCHANGED armVars
  <2>1. UNCHANGED <<decision, decider, measured, armStep>>
    BY <1>2 DEF LauncherChecks, GatewayBinds, GatewayFails, LauncherEnds, ArmsInterrupted,
       armVars
  <2>2. decider # "unset" => armStep' \in Arming \ {"starting"}
    BY <2>1 DEF DeciderInv, DeciderIsTheArms
  <2> QED BY <2>1, <2>2, DeciderStaysPut
<1>3. CASE EndFailed
  BY <1>3, DeciderStaysPut DEF EndFailed
<1>4. ASSUME \/ EngineIsInTheWay \/ LaunchFails \/ WaitTimesOut \/ MeasureFails
              \/ EngineStays \/ (Archive /\ attempt # "pending")
      PROVE  EndFailed
  BY <1>4 DEF EngineIsInTheWay, LaunchFails, WaitTimesOut, MeasureFails, EngineStays, Archive
<1>5. CASE Prepare \/ Launch \/ DecisionHealthy \/ StartGateway \/ GatewayHealthy
           \/ StartDirect \/ StopEngine \/ (Archive /\ attempt = "pending")
           \/ MarkComplete \/ Summarize
  <2>1. UNCHANGED <<decision, decider, measured>>
    BY <1>5 DEF Prepare, Launch, DecisionHealthy, StartGateway, GatewayHealthy, StartDirect,
       StopEngine, Archive, MarkComplete, Summarize
  <2>2. decider # "unset" => armStep' \in Arming \ {"starting"}
    BY <1>5 DEF Prepare, Launch, DecisionHealthy, StartGateway, GatewayHealthy, StartDirect,
       StopEngine, Archive, MarkComplete, Summarize, DeciderInv, DeciderIsTheArms, Arming
  <2> QED BY <2>1, <2>2, DeciderStaysPut
<1>6. CASE StartDecision
  <2> USE <1>6 DEF StartDecision
  <2>1. UNCHANGED <<Arm, Mode>>
    BY DEF Arm, Mode
  <2>2. decider = "unset"
    BY DEF DeciderInv, DeciderIsTheArms
  <2>3. DeciderIsTheArms'
    BY <2>1, <2>2 DEF DeciderInv, DeciderIsTheArms, Arming
  <2>4. NoArmInheritsADecider'
    BY DEF DeciderInv, NoArmInheritsADecider
  <2> QED BY <2>3, <2>4 DEF DeciderInv
<1>7. CASE Measure
  <2> USE <1>7 DEF Measure
  <2>1. DeciderIsTheArms'
    BY DEF DeciderInv, DeciderIsTheArms, StopServices
  <2>2. PICK Paths : measured \in Seq(Paths)
    BY DEF ArmsInv, MeasuredSoFar
  <2>3. measured \in Seq(Paths \cup {Path})
    BY <2>2
  <2>4. /\ Len(measured) \in Nat /\ DOMAIN measured = 1..Len(measured)
        /\ DOMAIN measured' = 1..(Len(measured) + 1)
        /\ \A i \in 1..Len(measured) : measured'[i] = measured[i]
        /\ measured'[Len(measured) + 1] = Path
    BY <2>3
  <2>5. Path.decision \in {"none", decision}
    BY DEF Path
  <2>6. decision \in {"none", "wrapper"} \/ (Arm \in DOMAIN Modes /\ decision = Modes[Arm])
    BY DEF DeciderInv, DeciderIsTheArms, Mode
  <2>7. Path.decision \in {"none", "wrapper"} \cup
                          (IF Arm \in DOMAIN Modes THEN {Modes[Arm]} ELSE {})
    BY <2>5, <2>6
  <2>8. ASSUME NEW i \in DOMAIN measured'
        PROVE  measured'[i].decision \in {"none", "wrapper"} \cup
                   (IF Order[i] \in DOMAIN Modes THEN {Modes[Order[i]]} ELSE {})
    <3>1. CASE i \in DOMAIN measured
      BY <2>4, <3>1 DEF DeciderInv, NoArmInheritsADecider
    <3>2. CASE i = Len(measured) + 1
      BY <2>4, <2>7, <3>2 DEF Arm
    <3> QED BY <2>4, <3>1, <3>2
  <2>9. NoArmInheritsADecider'
    BY <2>8 DEF NoArmInheritsADecider
  <2> QED BY <2>1, <2>9 DEF DeciderInv
<1> QED BY <1>1, <1>2, <1>3, <1>4, <1>5, <1>6, <1>7 DEF ArmsNext, Block, Processes

(* For any order of arms, no arm is measured with the decision service of an *)
(* earlier one.                                                            *)
THEOREM NoInheritedDecider == ArmsSpec => []NoArmInheritsADecider
<1>1. ArmsInit => DeciderInv
  <2> SUFFICES ASSUME ArmsInit PROVE DeciderInv
    OBVIOUS
  <2>1. decision \in {"none", "wrapper"} /\ decider = "unset" /\ measured = <<>>
    BY DEF ArmsInit
  <2> QED BY <2>1 DEF DeciderInv, DeciderIsTheArms, NoArmInheritsADecider
<1>2. DeciderInv => NoArmInheritsADecider
  BY DEF DeciderInv
<1> QED BY <1>1, <1>2, DeciderStep, ArmsInvariant, PTL DEF ArmsSpec

-----------------------------------------------------------------------------
(* A script runs its stages in order, and nothing else.                     *)
StageIsOfThePlan ==
    /\ script \in DOMAIN Plans
    /\ stage \in 0..Len(Plans[script])

(* What stands behind the preflight's gate: the probes write to a log that  *)
(* was emptied, and the gate is looked at once per invocation.              *)
ProbesAreOfThisRun ==
    /\ probe \in {"none", "probing", "gate", "measuring", "measured", "marked"}
    /\ probe \in {"probing", "gate"} =>
          At("preflight") /\ orderLog \subseteq {<<"this", proof>> : proof \in Proofs}
    /\ stage = 1 => ~ gated

(* A valid measurement, whose attempt only the trap fails.                  *)
OverheadIsDone ==
    valid /\ (overhead = "complete" \/ (trapped /\ overhead = "failed"))

(* The overhead stage marks what it measured.                               *)
OverheadIsMeasured ==
    /\ probe \in {"measuring", "measured", "marked"} => At("overhead")
    /\ probe \in {"measured", "marked"} => valid
    /\ probe = "marked" => OverheadIsDone

(* Every stage that an invocation has passed left what it is there for.     *)
StagesLeftTheirWork ==
    /\ accepted \subseteq CellsOf(script)
    /\ \A i \in 1..Len(Plans[script]) :
          i < stage =>
              /\ Plans[script][i] \in CellsOf(script) => Plans[script][i] \in accepted
              /\ Plans[script][i] = "overhead" => OverheadIsDone

BatchInv ==
    /\ StageIsOfThePlan /\ ProbesAreOfThisRun /\ OverheadIsMeasured /\ StagesLeftTheirWork
    /\ GateSawThisChain /\ PublishedRunIsWhole

(* The stages of the plan and the one that follows. *)
LEMMA PlanStages ==
  ASSUME BatchAssumption, StageIsOfThePlan
  PROVE  /\ Len(Plans[script]) \in Nat \ {0}
         /\ DOMAIN Plans[script] = 1..Len(Plans[script])
         /\ stage # 0 => stage \in DOMAIN Plans[script]
         /\ stage # 0 => NextStage \in 0..Len(Plans[script]) /\ NextStage # 1
         /\ stage # 0 /\ NextStage # 0 => NextStage = stage + 1
<1>1. Plans[script] \in Seq(Stages \cup CellsOf(script)) /\ Plans[script] # <<>>
  BY DEF BatchAssumption, StageIsOfThePlan
<1>2. Len(Plans[script]) \in Nat \ {0} /\ DOMAIN Plans[script] = 1..Len(Plans[script])
  BY <1>1
<1>3. stage # 0 => stage \in DOMAIN Plans[script]
  BY <1>2 DEF StageIsOfThePlan
<1> QED BY <1>2, <1>3 DEF NextStage

(* The preflight is the first stage, and what publishes the last.           *)
LEMMA PlanPlaces ==
  ASSUME BatchAssumption, StageIsOfThePlan
  PROVE  /\ At("preflight") => stage = 1
         /\ At("upload") \/ At("summary") => stage = Len(Plans[script])
BY PlanStages DEF BatchAssumption, StageIsOfThePlan, At

(* Between its stages, and in most of them, the script has no probe. *)
LEMMA NoProbe ==
  ASSUME BatchInv, ~ At("preflight"), ~ At("overhead")
  PROVE  probe = "none"
BY DEF BatchInv, ProbesAreOfThisRun, OverheadIsMeasured

(* Where the script ends or fails, nothing but the probes and the overhead's *)
(* status is lost.                                                         *)
LEMMA StoppingKeeps ==
  ASSUME BatchAssumption, BatchInv, stage' = 0, probe' = "none",
         UNCHANGED <<script, orderLog, accepted, results>>,
         gated' => \A proof \in Proofs : <<"this", proof>> \in orderLog
  PROVE  BatchInv'
<1>1. StageIsOfThePlan'
  BY PlanStages DEF BatchInv, StageIsOfThePlan
<1>2. ProbesAreOfThisRun' /\ OverheadIsMeasured'
  BY DEF ProbesAreOfThisRun, OverheadIsMeasured
<1>3. StagesLeftTheirWork'
  <2>1. \A i \in 1..Len(Plans[script]) : ~ (i < 0)
    OBVIOUS
  <2> QED BY <2>1 DEF BatchInv, StagesLeftTheirWork, CellsOf
<1>4. GateSawThisChain' /\ PublishedRunIsWhole'
  BY DEF BatchInv, GateSawThisChain, PublishedRunIsWhole, CellsOf
<1> QED BY <1>1, <1>2, <1>3, <1>4 DEF BatchInv

(* A stage other than the preflight leaves its work and goes on to the next. *)
LEMMA StageKeeps ==
  ASSUME BatchAssumption, BatchInv, stage # 0, ~ At("preflight"),
         stage' = NextStage, probe' = "none",
         UNCHANGED <<script, orderLog, gated, overheadVars>>,
         At("overhead") => OverheadIsDone,
         accepted \subseteq accepted', accepted' \subseteq CellsOf(script),
         Plans[script][stage] \in CellsOf(script) => Plans[script][stage] \in accepted',
         PublishedRunIsWhole'
  PROVE  BatchInv'
<1>1. /\ stage' \in 0..Len(Plans[script]) /\ stage' # 1
      /\ stage' # 0 => stage' = stage + 1
      /\ stage \in Nat /\ Len(Plans[script]) \in Nat
  <2>1. StageIsOfThePlan
    BY DEF BatchInv
  <2>2. Len(Plans[script]) \in Nat /\ stage \in Nat
    BY <2>1, PlanStages DEF StageIsOfThePlan
  <2> QED BY <2>1, <2>2, PlanStages
<1>2. StageIsOfThePlan'
  BY <1>1 DEF BatchInv, StageIsOfThePlan
<1>3. ProbesAreOfThisRun' /\ OverheadIsMeasured' /\ GateSawThisChain'
  BY <1>1 DEF BatchInv, ProbesAreOfThisRun, OverheadIsMeasured, GateSawThisChain
<1>4. StagesLeftTheirWork'
  <2>1. accepted' \subseteq CellsOf(script)'
    BY DEF CellsOf
  <2>2. OverheadIsDone' <=> OverheadIsDone
    BY DEF OverheadIsDone, overheadVars
  <2>3. ASSUME NEW i \in 1..Len(Plans[script]), i < stage'
        PROVE  /\ Plans[script][i] \in CellsOf(script) => Plans[script][i] \in accepted'
               /\ Plans[script][i] = "overhead" => OverheadIsDone
    <3>1. i < stage \/ i = stage
      BY <1>1, <2>3
    <3> QED BY <3>1, <2>3 DEF BatchInv, StagesLeftTheirWork, At
  <2> QED BY <2>1, <2>2, <2>3 DEF StagesLeftTheirWork, CellsOf
<1> QED BY <1>2, <1>3, <1>4 DEF BatchInv

(* A step inside the overhead stage disturbs nothing but its measurement,    *)
(* which no earlier stage of the plan left.                                *)
LEMMA OverheadKeeps ==
  ASSUME BatchAssumption, BatchInv, At("overhead"),
         UNCHANGED <<script, stage, orderLog, gated, accepted, results>>,
         probe' \in {"measuring", "measured", "marked"},
         probe' # "measuring" => valid', probe' = "marked" => OverheadIsDone'
  PROVE  BatchInv'
<1>1. At("overhead")' /\ StageIsOfThePlan /\ StageIsOfThePlan'
  BY DEF At, BatchInv, StageIsOfThePlan
<1>2. ProbesAreOfThisRun' /\ OverheadIsMeasured'
  BY <1>1 DEF BatchInv, ProbesAreOfThisRun, OverheadIsMeasured
<1>3. \A i \in 1..Len(Plans[script]) : i < stage => Plans[script][i] # "overhead"
  <2>1. /\ DOMAIN Plans[script] = 1..Len(Plans[script]) /\ stage \in DOMAIN Plans[script]
        /\ Len(Plans[script]) \in Nat
    BY <1>1, PlanStages DEF At
  <2>2. \A i \in DOMAIN Plans[script] : Plans[script][i] = "overhead" => i = stage
    BY <2>1 DEF BatchAssumption, BatchInv, StageIsOfThePlan, At
  <2> QED BY <2>1, <2>2
<1>4. StagesLeftTheirWork'
  BY <1>3 DEF BatchInv, StagesLeftTheirWork, CellsOf
<1>5. GateSawThisChain' /\ PublishedRunIsWhole'
  BY DEF BatchInv, GateSawThisChain, PublishedRunIsWhole, CellsOf
<1> QED BY <1>1, <1>2, <1>4, <1>5 DEF BatchInv

(* Every step of the script, of a failure and of the services keeps it.     *)
LEMMA BatchStep ==
  ASSUME BatchAssumption, BatchInv, [BatchNext]_batchVars
  PROVE  BatchInv'
<1>1. CASE BatchStarts
  <2> USE <1>1 DEF BatchStarts
  <2>1. probe = "none"
    BY DEF BatchInv, ProbesAreOfThisRun, OverheadIsMeasured, At
  <2>2. stage' \in 0..Len(Plans[script]) /\ stage' \in {0, 1}
    <3>1. Len(Plans[script]) \in Nat \ {0}
      BY PlanStages DEF BatchInv
    <3> QED BY <3>1
  <2>3. StageIsOfThePlan' /\ ProbesAreOfThisRun' /\ OverheadIsMeasured'
    BY <2>1, <2>2 DEF BatchInv, StageIsOfThePlan, ProbesAreOfThisRun, OverheadIsMeasured
  <2>4. StagesLeftTheirWork'
    <3>1. \A i \in 1..Len(Plans[script]) : ~ (i < stage')
      BY <2>2
    <3> QED BY <3>1 DEF BatchInv, StagesLeftTheirWork, CellsOf
  <2>5. GateSawThisChain' /\ PublishedRunIsWhole'
    BY DEF BatchInv, GateSawThisChain, PublishedRunIsWhole, CellsOf
  <2> QED BY <2>3, <2>4, <2>5 DEF BatchInv
<1>2. CASE EmptyLog \/ SendProbes
  <2>1. /\ At("preflight") /\ probe' \in {"probing", "gate"}
        /\ UNCHANGED <<script, stage, gated, accepted, overheadVars, results>>
    BY <1>2 DEF EmptyLog, SendProbes
  <2>2. stage = 1 /\ ~ gated
    <3>1. StageIsOfThePlan
      BY DEF BatchInv
    <3>2. stage = 1
      BY <2>1, <3>1, PlanPlaces
    <3> QED BY <3>2 DEF BatchInv, ProbesAreOfThisRun
  <2>3. orderLog' \subseteq {<<"this", proof>> : proof \in Proofs}
    <3>1. CASE EmptyLog
      BY <3>1 DEF EmptyLog
    <3>2. CASE SendProbes
      <4>1. orderLog \subseteq {<<"this", proof>> : proof \in Proofs}
        BY <3>2 DEF SendProbes, BatchInv, ProbesAreOfThisRun
      <4>2. PICK seen \in SUBSET Proofs :
               orderLog' = orderLog \cup {<<"this", proof>> : proof \in seen}
        BY <3>2 DEF SendProbes, Proofs
      <4> QED BY <4>1, <4>2
    <3> QED BY <1>2, <3>1, <3>2
  <2>4. ProbesAreOfThisRun' /\ OverheadIsMeasured'
    BY <2>1, <2>2, <2>3 DEF ProbesAreOfThisRun, OverheadIsMeasured, At
  <2>5. StageIsOfThePlan' /\ StagesLeftTheirWork' /\ GateSawThisChain' /\ PublishedRunIsWhole'
    BY <2>1, <2>2 DEF BatchInv, StageIsOfThePlan, StagesLeftTheirWork, GateSawThisChain,
                PublishedRunIsWhole, OverheadIsDone, overheadVars, CellsOf
  <2> QED BY <2>4, <2>5 DEF BatchInv
<1>3. CASE Gate
  <2>1. /\ At("preflight") /\ probe' = "none" /\ gated' = GatePasses
        /\ stage' = IF GatePasses THEN NextStage ELSE 0
        /\ UNCHANGED <<script, orderLog, accepted, overheadVars, results>>
        /\ orderLog \subseteq {<<"this", proof>> : proof \in Proofs}
    BY <1>3 DEF Gate, BatchInv, ProbesAreOfThisRun
  <2>2. gated' => \A proof \in Proofs : <<"this", proof>> \in orderLog
    <3> SUFFICES ASSUME gated', NEW proof \in Proofs PROVE <<"this", proof>> \in orderLog
      OBVIOUS
    <3>1. PICK row \in orderLog : row[2] = proof
      BY <2>1 DEF GatePasses
    <3>2. PICK seen \in Proofs : row = <<"this", seen>>
      BY <2>1, <3>1
    <3>3. row = <<"this", proof>>
      BY <3>1, <3>2
    <3> QED BY <3>1, <3>3
  <2>3. CASE stage' = 0
    BY <2>1, <2>2, <2>3, StoppingKeeps
  <2>4. CASE stage' # 0
    <3>1. StageIsOfThePlan
      BY DEF BatchInv
    <3>2. stage = 1 /\ stage' = NextStage /\ stage # 0
      BY <2>1, <2>4, <3>1, PlanPlaces
    <3>3. stage' = 2 /\ stage' \in 0..Len(Plans[script]) /\ Len(Plans[script]) \in Nat
      <4>1. /\ Len(Plans[script]) \in Nat /\ NextStage \in 0..Len(Plans[script])
            /\ NextStage # 0 => NextStage = stage + 1
        BY <3>1, <3>2, PlanStages
      <4>2. NextStage # 0
        BY <2>4, <3>2
      <4> QED BY <3>2, <4>1, <4>2
    <3>4. StageIsOfThePlan' /\ ProbesAreOfThisRun' /\ OverheadIsMeasured'
      BY <2>1, <3>1, <3>3 DEF StageIsOfThePlan, ProbesAreOfThisRun, OverheadIsMeasured
    <3>5. StagesLeftTheirWork'
      <4>1. \A i \in 1..Len(Plans[script]) : i < 2 => i = 1
        BY <3>3
      <4>2. Plans[script][1] = "preflight" /\ Plans[script][1] \notin CellsOf(script)
        BY <2>1, <3>2 DEF At, CellsOf, Stages
      <4> QED BY <2>1, <3>3, <4>1, <4>2 DEF BatchInv, StagesLeftTheirWork, CellsOf
    <3>6. GateSawThisChain' /\ PublishedRunIsWhole'
      BY <2>1, <2>2 DEF BatchInv, GateSawThisChain, PublishedRunIsWhole, CellsOf
    <3> QED BY <3>4, <3>5, <3>6 DEF BatchInv
  <2> QED BY <2>3, <2>4
<1>4. CASE RunCell
  <2>1. PICK cell \in CellsOf(script) : At(cell) /\ accepted' = accepted \cup {cell}
    BY <1>4 DEF RunCell
  <2>2. stage # 0 /\ ~ At("preflight") /\ ~ At("overhead") /\ cell = Plans[script][stage]
    BY <2>1 DEF At, CellsOf, Stages
  <2>3. PublishedRunIsWhole' /\ probe' = "none"
    BY <1>4, <2>2, NoProbe DEF RunCell, BatchInv, PublishedRunIsWhole, CellsOf
  <2>4. accepted' \subseteq CellsOf(script)
    BY <2>1 DEF BatchInv, StagesLeftTheirWork
  <2> QED BY <1>4, <2>1, <2>2, <2>3, <2>4, StageKeeps DEF RunCell
<1>5. CASE Parity
  <2>1. /\ stage # 0 /\ ~ At("preflight") /\ ~ At("overhead")
        /\ Plans[script][stage] \notin CellsOf(script)
    BY <1>5 DEF Parity, At, CellsOf, Stages
  <2>2. PublishedRunIsWhole' /\ accepted \subseteq CellsOf(script) /\ probe' = "none"
    BY <1>5, <2>1, NoProbe
       DEF Parity, BatchInv, PublishedRunIsWhole, StagesLeftTheirWork, CellsOf
  <2> QED BY <1>5, <2>1, <2>2, StageKeeps DEF Parity
<1>6. CASE RegisterOverhead
  BY <1>6, OverheadKeeps DEF RegisterOverhead
<1>7. CASE MeasureOverhead
  BY <1>7, OverheadKeeps DEF MeasureOverhead
<1>8. CASE MarkOverhead
  <2>1. valid' /\ OverheadIsDone'
    BY <1>8 DEF MarkOverhead, BatchInv, OverheadIsMeasured, OverheadIsDone
  <2> QED BY <1>8, <2>1, OverheadKeeps DEF MarkOverhead
<1>9. CASE OverheadSignalled
  <2>1. /\ At("overhead") /\ probe \in {"measuring", "measured", "marked"}
        /\ UNCHANGED <<script, stage, probe, orderLog, gated, accepted, valid, results>>
        /\ overhead' = "failed" /\ trapped' = TRUE
    <3>1. At("overhead") /\ probe # "none" /\ ~ At("preflight")
      BY <1>9 DEF OverheadSignalled, AttemptIsActive, At
    <3>2. probe \in {"measuring", "measured", "marked"}
      BY <3>1 DEF BatchInv, ProbesAreOfThisRun
    <3> QED BY <1>9, <3>1, <3>2 DEF OverheadSignalled
  <2>2. probe # "measuring" => valid
    BY <2>1 DEF BatchInv, OverheadIsMeasured
  <2>3. probe' # "measuring" => valid' /\ OverheadIsDone'
    BY <2>1, <2>2 DEF OverheadIsDone
  <2> QED BY <2>1, <2>3, OverheadKeeps
<1>10. CASE PassOverhead
  <2>1. /\ stage # 0 /\ ~ At("preflight") /\ OverheadIsDone
        /\ Plans[script][stage] \notin CellsOf(script)
    BY <1>10 DEF PassOverhead, At, CellsOf, Stages, BatchInv, OverheadIsMeasured
  <2>2. PublishedRunIsWhole' /\ accepted \subseteq CellsOf(script)
    BY <1>10 DEF PassOverhead, BatchInv, PublishedRunIsWhole, StagesLeftTheirWork, CellsOf
  <2> QED BY <1>10, <2>1, <2>2, StageKeeps DEF PassOverhead
<1>11. CASE Publish
  <2>1. /\ stage # 0 /\ ~ At("preflight") /\ ~ At("overhead")
        /\ Plans[script][stage] \notin CellsOf(script)
    BY <1>11 DEF Publish, At, CellsOf, Stages
  <2>2. /\ stage = Len(Plans[script]) /\ DOMAIN Plans[script] = 1..Len(Plans[script])
        /\ stage \in Nat
    <3>1. StageIsOfThePlan
      BY DEF BatchInv
    <3>2. stage = Len(Plans[script])
      BY <1>11, <3>1, PlanPlaces DEF Publish
    <3> QED BY <3>1, <3>2, PlanStages
  <2>3. \A i \in DOMAIN Plans[script] :
          /\ Plans[script][i] \in CellsOf(script) => Plans[script][i] \in accepted
          /\ Plans[script][i] = "overhead" => OverheadIsDone
    <3> SUFFICES ASSUME NEW i \in DOMAIN Plans[script]
                 PROVE  /\ Plans[script][i] \in CellsOf(script) => Plans[script][i] \in accepted
                        /\ Plans[script][i] = "overhead" => OverheadIsDone
      OBVIOUS
    <3>1. i < stage \/ i = stage
      BY <2>2
    <3>2. CASE i < stage
      BY <2>2, <3>2 DEF BatchInv, StagesLeftTheirWork
    <3>3. CASE i = stage
      BY <2>1, <3>3 DEF At
    <3> QED BY <3>1, <3>2, <3>3
  <2>4. accepted = CellsOf(script)
    BY <2>3 DEF BatchInv, StagesLeftTheirWork, CellsOf
  <2>5. PublishedRunIsWhole'
    BY <1>11, <2>3, <2>4 DEF Publish, PublishedRunIsWhole, OverheadIsDone, CellsOf
  <2>6. probe' = "none"
    BY <1>11, <2>1, NoProbe DEF Publish
  <2> QED BY <1>11, <2>1, <2>4, <2>5, <2>6, StageKeeps DEF Publish
<1>12. CASE BatchFails \/ OverheadRefused
  <2>1. gated => \A proof \in Proofs : <<"this", proof>> \in orderLog
    BY DEF BatchInv, GateSawThisChain
  <2> QED BY <1>12, <2>1, StoppingKeeps DEF BatchFails, OverheadRefused
<1>13. CASE ChainChanges \/ UNCHANGED batchVars
  BY <1>13 DEF ChainChanges, batchVars, overheadVars, BatchInv, StageIsOfThePlan,
     ProbesAreOfThisRun, OverheadIsMeasured, OverheadIsDone, StagesLeftTheirWork,
     GateSawThisChain, PublishedRunIsWhole, At, CellsOf
<1> QED BY <1>1, <1>2, <1>3, <1>4, <1>5, <1>6, <1>7, <1>8, <1>9, <1>10, <1>11, <1>12, <1>13
        DEF BatchNext

(* The invariant holds in every reachable state. *)
THEOREM BatchInvariant == BatchSpec => []BatchInv
<1>1. ASSUME BatchInit PROVE BatchInv
  <2> USE <1>1 DEF BatchInit
  <2>1. Len(Plans[script]) \in Nat
    BY BatchAssumption DEF BatchAssumption
  <2>2. StageIsOfThePlan /\ ProbesAreOfThisRun /\ OverheadIsMeasured
    BY <2>1 DEF StageIsOfThePlan, ProbesAreOfThisRun, OverheadIsMeasured
  <2>3. StagesLeftTheirWork
    BY <2>1 DEF StagesLeftTheirWork
  <2> QED BY <2>2, <2>3 DEF BatchInv, GateSawThisChain, PublishedRunIsWhole, NoResults
<1> QED BY <1>1, BatchStep, BatchAssumption, PTL DEF BatchSpec

(* In every plan that begins with its preflight, the gate is passed only on *)
(* what this invocation's probes put through the chain.                     *)
THEOREM GateIsHonest == BatchSpec => []GateSawThisChain
<1>1. BatchInv => GateSawThisChain
  BY DEF BatchInv
<1> QED BY <1>1, BatchInvariant, PTL

(* What any plan that publishes last publishes is whole, however often it   *)
(* was run again on the way.                                               *)
THEOREM PublishedIsWhole == BatchSpec => []PublishedRunIsWhole
<1>1. BatchInv => PublishedRunIsWhole
  BY DEF BatchInv
<1> QED BY <1>1, BatchInvariant, PTL

-----------------------------------------------------------------------------
TrainSteps ==
    {"stopped", "choosing", "training", "stepping", "making", "filling", "listing"}

TrainTypes ==
    /\ trainStep \in TrainSteps
    /\ workdir \in [Runs -> {"none", "checkpoint", "final"}]
    /\ result \in [Runs -> SUBSET Files]
    /\ summary \in [DOMAIN Drivers -> Nat] /\ listed \in Nat
    /\ trainStep # "stopped" => driver \in DOMAIN Drivers /\ listed < Len(Drivers[driver])

(* A result is copied from a training that ended, and a baseline's metrics  *)
(* are opened after its model is written.                                  *)
ResultIsOfAFinalModel(r) ==
    /\ r \notin Baselines /\ result[r] # {} => workdir[r] = "final"
    /\ r \in Baselines /\ MetricsExist(r) => "model" \in result[r]

(* Every run a summary lists was trained to its end, and its metrics are    *)
(* among the results, whatever kills and other drivers came in between.     *)
ListedRunsAreTrained ==
    \A d \in DOMAIN Drivers : \A i \in DOMAIN Drivers[d] :
        i <= summary[d] =>
            /\ HasMetrics(Drivers[d][i])
            /\ ResultIsOfAFinalModel(Drivers[d][i])

TrainInv ==
    /\ TrainTypes
    /\ \A r \in Runs : ResultIsOfAFinalModel(r)
    /\ trainStep \in {"making", "filling"} => Run \in Baselines \/ workdir[Run] = "final"
    /\ trainStep = "listing" => HasMetrics(Run)
    /\ trainStep # "stopped" =>
          \A i \in DOMAIN Drivers[driver] : i <= listed => HasMetrics(Drivers[driver][i])
    /\ \A d \in DOMAIN Drivers : \A i \in DOMAIN Drivers[d] :
          i <= summary[d] => HasMetrics(Drivers[d][i])

(* The runs of a driver are runs. *)
LEMMA DriversRun ==
  ASSUME NEW d \in DOMAIN Drivers
  PROVE  /\ Len(Drivers[d]) \in Nat /\ Len(Drivers[d]) # 0
         /\ DOMAIN Drivers[d] = 1..Len(Drivers[d])
         /\ \A i \in DOMAIN Drivers[d] : Drivers[d][i] \in Runs
<1>1. Drivers[d] \in Seq(Runs) /\ Drivers[d] # <<>>
  BY TrainingAssumption DEF TrainingAssumption
<1> DEFINE q == Drivers[d]
<1>2. q \in Seq(Runs) /\ q # <<>>
  BY <1>1
<1> HIDE DEF q
<1>3. Len(q) \in Nat /\ DOMAIN q = 1..Len(q) /\ \A i \in 1..Len(q) : q[i] \in Runs
  BY <1>2, LenProperties, ElementOfSeq
<1>4. Len(q) # 0
  BY <1>2, EmptySeq
<1> QED BY <1>3, <1>4 DEF q

(* Every step of a driver, and every kill, keeps the invariant.             *)
LEMMA TrainStep ==
  ASSUME TrainInv, [TrainNext]_trainVars
  PROVE  TrainInv'
<1>1. ASSUME trainStep # "stopped"
      PROVE  /\ driver \in DOMAIN Drivers /\ listed + 1 \in DOMAIN Drivers[driver]
             /\ Run \in Runs /\ listed \in Nat
  <2>1. driver \in DOMAIN Drivers /\ listed < Len(Drivers[driver]) /\ listed \in Nat
    BY <1>1 DEF TrainInv, TrainTypes
  <2> QED BY <2>1, DriversRun DEF Run
<1>2. ASSUME NEW d \in DOMAIN Drivers, DriverStarts(d) PROVE TrainInv'
  <2> USE <1>2 DEF DriverStarts
  <2>1. TrainTypes'
    BY DriversRun DEF TrainInv, TrainTypes, TrainSteps
  <2>2. \A i \in DOMAIN Drivers[d] : ~ (i <= 0)
    BY DriversRun
  <2> QED BY <2>1, <2>2 DEF TrainInv, ResultIsOfAFinalModel, MetricsExist, HasMetrics
<1>3. CASE ChooseRun
  <2> USE <1>3 DEF ChooseRun
  <2>1. trainStep' \in {"listing", "making", "training", "stopped"}
    OBVIOUS
  <2>2. TrainTypes'
    BY <2>1 DEF TrainInv, TrainTypes, TrainSteps
  <2>3. UNCHANGED Run
    BY DEF Run
  <2>4. (trainStep' = "listing" => HasMetrics(Run)) /\ (trainStep' = "making" => Run \in Baselines)
    BY DEF Reused, MetricsExist, HasMetrics
  <2> QED BY <2>1, <2>2, <2>3, <2>4 DEF TrainInv, ResultIsOfAFinalModel, MetricsExist, HasMetrics
<1>4. CASE FirstCheckpoint
  <2> USE <1>4 DEF FirstCheckpoint
  <2>1. Run \in Runs /\ UNCHANGED Run /\ trainStep' \in {"stepping", "stopped"}
    BY <1>1 DEF Run
  <2>2. workdir' \in [Runs -> {"none", "checkpoint", "final"}]
        /\ \A r \in Runs : workdir[r] = "final" => workdir'[r] = "final"
    BY <2>1 DEF TrainInv, TrainTypes
  <2>3. TrainTypes'
    BY <2>1, <2>2 DEF TrainInv, TrainTypes, TrainSteps
  <2> QED BY <2>1, <2>2, <2>3 DEF TrainInv, ResultIsOfAFinalModel, MetricsExist, HasMetrics
<1>5. CASE SaveFinal
  <2> USE <1>5 DEF SaveFinal
  <2>1. Run \in Runs /\ UNCHANGED Run
    BY <1>1 DEF Run
  <2>2. workdir' \in [Runs -> {"none", "checkpoint", "final"}] /\ workdir'[Run] = "final"
        /\ \A r \in Runs : workdir[r] = "final" => workdir'[r] = "final"
    BY <2>1 DEF TrainInv, TrainTypes
  <2>3. TrainTypes'
    BY <2>1, <2>2 DEF TrainInv, TrainTypes, TrainSteps
  <2> QED BY <2>1, <2>2, <2>3 DEF TrainInv, ResultIsOfAFinalModel, MetricsExist, HasMetrics
<1>6. CASE MakeResult
  <2> USE <1>6 DEF MakeResult
  <2>1. Run \in Runs /\ UNCHANGED Run /\ trainStep' \in {"filling", "stopped"}
        /\ (Run \in Baselines \/ workdir[Run] = "final")
    BY <1>1 DEF Run, TrainInv
  <2>2. /\ result' \in [Runs -> SUBSET Files]
        /\ \A r \in Runs : r # Run => result'[r] = result[r]
        /\ result[Run] \subseteq result'[Run]
        /\ result'[Run] \subseteq result[Run] \cup {"directory"}
    BY <2>1 DEF TrainInv, TrainTypes, Files
  <2>3. TrainTypes'
    BY <2>1, <2>2 DEF TrainInv, TrainTypes, TrainSteps
  <2>4. \A r \in Runs : ResultIsOfAFinalModel(r)'
    BY <2>1, <2>2 DEF TrainInv, ResultIsOfAFinalModel, MetricsExist, HasMetrics
  <2>5. \A r \in Runs : HasMetrics(r) => HasMetrics(r)'
    BY <2>1, <2>2 DEF HasMetrics
  <2>6. \A d \in DOMAIN Drivers : \A i \in DOMAIN Drivers[d] :
            HasMetrics(Drivers[d][i]) => HasMetrics(Drivers[d][i])'
    BY <2>5, DriversRun DEF HasMetrics
  <2> QED BY <1>1, <2>1, <2>3, <2>4, <2>6 DEF TrainInv, HasMetrics
<1>7. CASE FillModel \/ OpenMetrics \/ FinishMetrics
  <2>1. /\ Run \in Runs /\ UNCHANGED <<driver, listed, summary, workdir, Run>>
        /\ trainStep' \in {"filling", "listing"}
        /\ (Run \in Baselines \/ workdir[Run] = "final")
    BY <1>1, <1>7 DEF FillModel, OpenMetrics, FinishMetrics, Run, TrainInv
  <2>2. /\ result' \in [Runs -> SUBSET Files]
        /\ \A r \in Runs : r # Run => result'[r] = result[r]
        /\ result[Run] \ {"torn metrics"} \subseteq result'[Run]
    <3>1. result \in [Runs -> SUBSET Files] /\ result[Run] \subseteq Files
      BY <2>1 DEF TrainInv, TrainTypes
    <3>2. PICK now \in SUBSET Files :
             /\ result[Run] \ {"torn metrics"} \subseteq now
             /\ result' = [result EXCEPT ![Run] = now]
      <4>1. CASE FillModel
        BY <3>1, <4>1 DEF FillModel, Files
      <4>2. CASE OpenMetrics
        BY <3>1, <4>2 DEF OpenMetrics, Files
      <4>3. CASE FinishMetrics
        BY <3>1, <4>3 DEF FinishMetrics, Files
      <4> QED BY <1>7, <4>1, <4>2, <4>3
    <3> QED BY <2>1, <3>1, <3>2
  <2>3. TrainTypes'
    BY <1>7, <2>1, <2>2
       DEF FillModel, OpenMetrics, FinishMetrics, TrainInv, TrainTypes, TrainSteps
  <2>4. Run \in Baselines => "model" \in result'[Run]
    BY <1>7, <2>1, <2>2 DEF FillModel, OpenMetrics, FinishMetrics, TrainInv, TrainTypes,
       ResultIsOfAFinalModel, MetricsExist
  <2>5. \A r \in Runs : ResultIsOfAFinalModel(r)'
    BY <2>1, <2>2, <2>4 DEF TrainInv, ResultIsOfAFinalModel, MetricsExist
  <2>6. \A r \in Runs : HasMetrics(r) => HasMetrics(r)'
    BY <2>1, <2>2 DEF HasMetrics
  <2>7. \A d \in DOMAIN Drivers : \A i \in DOMAIN Drivers[d] :
            HasMetrics(Drivers[d][i]) => HasMetrics(Drivers[d][i])'
    BY <2>6, DriversRun DEF HasMetrics
  <2>8. trainStep' = "listing" => HasMetrics(Run)'
    <3>1. CASE FillModel
      BY <1>7, <2>1, <2>2, <3>1 DEF FillModel, HasMetrics
    <3>2. CASE OpenMetrics
      BY <3>2 DEF OpenMetrics
    <3>3. CASE FinishMetrics
      BY <2>1, <3>3 DEF FinishMetrics, HasMetrics, TrainInv, TrainTypes
    <3> QED BY <1>7, <3>1, <3>2, <3>3
  <2> QED BY <1>1, <1>7, <2>1, <2>3, <2>5, <2>7, <2>8
          DEF FillModel, OpenMetrics, FinishMetrics, TrainInv, HasMetrics
<1>8. CASE ListRun
  <2> DEFINE n == Len(Drivers[driver])
  <2>1. /\ trainStep = "listing" /\ driver \in DOMAIN Drivers
        /\ HasMetrics(Drivers[driver][listed + 1])
        /\ UNCHANGED <<driver, workdir, result>>
        /\ listed' = listed + 1
        /\ summary' = [summary EXCEPT ![driver] = listed + 1]
        /\ trainStep' = IF listed + 1 = n THEN "stopped" ELSE "choosing"
    BY <1>1, <1>8 DEF ListRun, TrainInv, Run
  <2>2. listed \in Nat /\ n \in Nat /\ listed < n
    BY <2>1, <1>1, DriversRun DEF TrainInv, TrainTypes
  <2>3. listed + 1 \in Nat /\ (listed + 1 # n => listed + 1 < n)
    <3> HIDE DEF n
    <3> QED BY <2>2
  <2>4. \A i \in DOMAIN Drivers[driver] :
            i <= listed + 1 => HasMetrics(Drivers[driver][i])
    <3> SUFFICES ASSUME NEW i \in DOMAIN Drivers[driver], i <= listed + 1
                 PROVE  HasMetrics(Drivers[driver][i])
      OBVIOUS
    <3>1. i \in Nat
      BY <2>1, DriversRun
    <3>2. i = listed + 1 \/ i <= listed
      BY <2>2, <3>1
    <3>3. CASE i <= listed
      BY <2>1, <3>3 DEF TrainInv
    <3> QED BY <2>1, <3>2, <3>3
  <2>5. /\ summary' \in [DOMAIN Drivers -> Nat] /\ summary'[driver] = listed + 1
        /\ \A d \in DOMAIN Drivers : d # driver => summary'[d] = summary[d]
    BY <2>1, <2>3 DEF TrainInv, TrainTypes
  <2>6. TrainTypes'
    BY <2>1, <2>3, <2>5 DEF TrainInv, TrainTypes, TrainSteps
  <2> QED BY <2>1, <2>4, <2>5, <2>6 DEF TrainInv, ResultIsOfAFinalModel, MetricsExist, HasMetrics
<1>9. CASE DriverKilled
  <2> USE <1>9 DEF DriverKilled
  <2>1. TrainTypes'
    BY DEF TrainInv, TrainTypes, TrainSteps
  <2> QED BY <2>1 DEF TrainInv, ResultIsOfAFinalModel, MetricsExist, HasMetrics
<1>10. CASE UNCHANGED trainVars
  BY <1>10 DEF trainVars, TrainInv, TrainTypes, ResultIsOfAFinalModel, MetricsExist, HasMetrics, Run
<1> QED BY <1>2, <1>3, <1>4, <1>5, <1>6, <1>7, <1>8, <1>9, <1>10 DEF TrainNext, DriverWork

(* What a training summary lists is trained, for any drivers and any runs.  *)
THEOREM SummariesListTrainedRuns == TrainSpec => []ListedRunsAreTrained
<1>1. ASSUME TrainInit PROVE TrainInv
  <2> USE <1>1 DEF TrainInit
  <2>1. TrainTypes
    BY DEF TrainTypes, TrainSteps
  <2>2. \A d \in DOMAIN Drivers : \A i \in DOMAIN Drivers[d] : ~ (i <= 0)
    BY DriversRun
  <2> QED BY <2>1, <2>2 DEF TrainInv, ResultIsOfAFinalModel, MetricsExist, HasMetrics
<1>2. TrainInv => ListedRunsAreTrained
  BY DriversRun DEF TrainInv, ListedRunsAreTrained
<1> QED BY <1>1, <1>2, TrainStep, PTL DEF TrainSpec
=============================================================================
