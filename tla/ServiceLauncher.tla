---------------------------- MODULE ServiceLauncher ----------------------------
(***************************************************************************)
(* The pidfile protocol of launch_vllm.sh, launch_decision.sh and           *)
(* launch_gateway.sh, which are the same script but for the command they    *)
(* start, and of safe_stop_pidfile (_matrix_common.sh), which stops what    *)
(* they started.  A pid outlives its process in the pidfile and is given to *)
(* another process by the system, so a second file holds the time the       *)
(* process started.                                                        *)
(*                                                                         *)
(* Start times are ticks since boot and no two processes share one: the     *)
(* machine is not restarted.  Reading /proc and the kill that follows are   *)
(* one step, and a pid is not given again between the start of a process    *)
(* and the launcher's next two commands.                                   *)
(***************************************************************************)
EXTENDS Integers

CONSTANTS
    Pids,      \* process ids
    MaxStarts  \* bounds how many processes are started

ASSUME LauncherAssumption == Pids # {} /\ MaxStarts \in Nat

VARIABLES
    process,   \* pid -> its process: what it is, and its start time
    pidfile, startfile,  \* what the two files hold, or Missing
    launching, \* where the launcher is
    child,     \* the pid of what it started
    starts,    \* the clock start times are read from
    signalled  \* the kinds of process that were sent a signal

launcherVars == <<process, pidfile, startfile, launching, child, starts, signalled>>

Missing == -1
Nothing == [kind |-> "none", start |-> Missing]

LauncherInit ==
    /\ process = [p \in Pids |-> Nothing]
    /\ pidfile = Missing /\ startfile = Missing
    /\ launching = "ended" /\ child = Missing
    /\ starts = 0
    /\ signalled = {}

Alive(p) == p \in Pids /\ process[p] # Nothing

StartsProcess(p, kind) ==
    /\ ~ Alive(p) /\ starts < MaxStarts
    /\ starts' = starts + 1
    /\ process' = [process EXCEPT ![p] = [kind |-> kind, start |-> starts]]

(* Somebody else's process: one with the service's command line (another    *)
(* run's engine, started by hand) or any other.                            *)
OthersStart(p) ==
    /\ ~ (p = child /\ launching \in {"spawned", "recorded"})
    /\ \E kind \in {"twin", "other"} : StartsProcess(p, kind)
    /\ UNCHANGED <<pidfile, startfile, launching, child, signalled>>

Exits(p) ==
    /\ Alive(p)
    /\ process' = [process EXCEPT ![p] = Nothing]
    /\ UNCHANGED <<pidfile, startfile, launching, child, starts, signalled>>

(* A process that is sent TERM may take its time to exit.                   *)
Signals(p) == signalled' = signalled \cup {process[p].kind}

RemoveFiles == pidfile' = Missing /\ startfile' = Missing

-----------------------------------------------------------------------------
(* The launcher refuses while the pid in the pidfile is anyone's.           *)
LaunchBegins ==
    /\ launching = "ended"
    /\ ~ Alive(pidfile)
    /\ launching' = "spawning"
    /\ UNCHANGED <<process, pidfile, startfile, child, starts, signalled>>

Spawn(p) ==
    /\ launching = "spawning"
    /\ StartsProcess(p, "service")
    /\ child' = p
    /\ launching' = "spawned"
    /\ UNCHANGED <<pidfile, startfile, signalled>>

WritePid ==
    /\ launching = "spawned"
    /\ pidfile' = child
    /\ launching' = "recorded"
    /\ UNCHANGED <<process, startfile, child, starts, signalled>>

(* A child that is gone already is not there to read the start time of.     *)
WriteStart ==
    /\ launching = "recorded"
    /\ IF Alive(child)
       THEN launching' = "waiting" /\ startfile' = process[child].start /\ UNCHANGED pidfile
       ELSE launching' = "ended" /\ RemoveFiles
    /\ UNCHANGED <<process, child, starts, signalled>>

(* The port answers, whoever it is that answers. *)
Healthy ==
    /\ launching = "waiting"
    /\ launching' = "ended"
    /\ UNCHANGED <<process, pidfile, startfile, child, starts, signalled>>

(* cleanup in the launchers compares the start time alone.                  *)
LauncherCleanup ==
    /\ IF Alive(pidfile) /\ process[pidfile].start = startfile
       THEN Signals(pidfile) ELSE UNCHANGED signalled
    /\ RemoveFiles

(* The child died, or the health check timed out. *)
Unhealthy ==
    /\ launching = "waiting"
    /\ launching' = "ended"
    /\ LauncherCleanup
    /\ UNCHANGED <<process, child, starts>>

(* INT or TERM: the trap cleans up and does not exit; the script goes on.   *)
LauncherTrapped ==
    /\ launching \in {"spawning", "spawned", "recorded", "waiting"}
    /\ LauncherCleanup
    /\ UNCHANGED <<process, launching, child, starts>>

LauncherKilled ==
    /\ launching # "ended"
    /\ launching' = "ended"
    /\ UNCHANGED <<process, pidfile, startfile, child, starts, signalled>>

-----------------------------------------------------------------------------
(* A bug: the command line alone tells whose process it is. *)
SameCommand(p) == process[p].kind \in {"service", "twin"}

(* The start time is the saved one, and the command line has the signature. *)
IsTheService(p) == process[p].start = startfile /\ process[p].kind \in {"service", "twin"}

(* safe_stop_pidfile: a stale pair of files is removed without a signal.    *)
SafeStop ==
    /\ pidfile # Missing
    /\ IF startfile # Missing /\ Alive(pidfile) /\ IsTheService(pidfile)
       THEN Signals(pidfile) ELSE UNCHANGED signalled
    /\ RemoveFiles
    /\ UNCHANGED <<process, launching, child, starts>>

LauncherNext ==
    \/ \E p \in Pids : OthersStart(p) \/ Exits(p) \/ Spawn(p)
    \/ LaunchBegins \/ WritePid \/ WriteStart
    \/ Healthy \/ Unhealthy \/ LauncherTrapped \/ LauncherKilled \/ SafeStop

-----------------------------------------------------------------------------
(* Nothing but a service that a launcher started is ever sent a signal,     *)
(* though pids are reused between any two of the launchers' and the         *)
(* drivers' steps and a killed launcher leaves one of its files of another  *)
(* launch than the other.                                                  *)
OnlyServicesAreSignalled == signalled \subseteq {"service"}
=============================================================================
