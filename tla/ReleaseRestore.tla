---------------------------- MODULE ReleaseRestore ----------------------------
(***************************************************************************)
(* scripts/server/restore_from_oss.sh with PREPARE_QUANTILES: a release is  *)
(* downloaded, unpacked and linked, its label source and sample are         *)
(* rebuilt, its ledger is repaired by one more replay, and the rank         *)
(* quantiles the decision service reads are built from the merged labels    *)
(* (merge_quantile_labels.py, rank_quantiles.py).                          *)
(*                                                                         *)
(* Every run works in the same release directory, so what a killed run      *)
(* leaves there is what the next one finds.  A file written under another   *)
(* name and renamed is there whole or not at all; a file written in place   *)
(* may be torn.                                                            *)
(***************************************************************************)
EXTENDS LabelLedger

CONSTANT MaxExclusions  \* how many samples may be excluded (5)

None == <<>>

VARIABLES
    restoreStep,  \* where the script is
    release,      \* whether the release directory is in place
    current,      \* whether artifacts/current names it
    source,       \* the label source: "none", "torn" or "whole"
    exclusions,   \* structural-exclusions.json
    merged,       \* labels-merged-6k.jsonl: sample -> length, or Failed
    sidecar, sidecarTmp, manifest, manifestTmp  \* what labels each was built from

artifacts == <<sidecar, sidecarTmp, manifest, manifestTmp>>
directory == <<release, current, source, exclusions, merged, artifacts>>
restoreVars == <<ledgerVars, restoreStep, directory>>

(* The archived ledger has a row for every sample; some of them failed.     *)
RestoreInit ==
    /\ \E failed \in SUBSET Ids :
          ledger = [l \in Ledgers |->
              IF l # "full" THEN EmptyLedger
              ELSE [rows |-> [s \in Ids |->
                                IF s \in failed \/ s \notin Labelable THEN <<Failed>>
                                ELSE <<CHOOSE n \in Lengths : TRUE>>],
                    tail |-> "whole"]]
    /\ replayer = Idle
    /\ report = [l \in Ledgers |-> "none"]
    /\ campaign = "complete"
    /\ faults = 0
    /\ restoreStep = "downloading"
    /\ release = FALSE /\ current = FALSE /\ source = "none"
    /\ exclusions = {} /\ merged = None
    /\ sidecar = None /\ sidecarTmp = None /\ manifest = None /\ manifestTmp = None

Goes(from, to) == restoreStep = from /\ restoreStep' = to

-----------------------------------------------------------------------------
(* Objects are downloaded under another name, checked by size and sha256,   *)
(* and renamed; the release is unpacked under another name and moved.       *)
MoveRelease ==
    /\ Goes("downloading", "linking")
    /\ release' = TRUE
    /\ UNCHANGED <<ledgerVars, current, source, exclusions, merged, artifacts>>

LinkRelease ==
    /\ Goes("linking", "unpacking")
    /\ current' = release
    /\ UNCHANGED <<ledgerVars, release, source, exclusions, merged, artifacts>>

(* The label source is unpacked or extracted in place, unless it is found.  *)
UnpackSource ==
    /\ Goes("unpacking", "sampling")
    /\ source' = IF source = "none" THEN "whole" ELSE source
    /\ UNCHANGED <<ledgerVars, release, current, exclusions, merged, artifacts>>

(* rebuild_tier2_sample.py: a source of another sha256 is a NO-GO.  Without *)
(* PREPARE_QUANTILES the script is done after it.                          *)
RebuildSample ==
    /\ restoreStep = "sampling"
    /\ restoreStep' \in IF source = "whole" THEN {"repairing", "done"} ELSE {"failed"}
    /\ UNCHANGED <<ledgerVars, directory>>

RepairStarts ==
    /\ Goes("repairing", "replaying")
    /\ ReplayStarts("full", Samples)
    /\ UNCHANGED <<ledger, report, campaign, faults, directory>>

RepairEnds ==
    /\ restoreStep = "replaying" /\ replayer.step # "replaying"
    /\ restoreStep' = IF replayer.step = "ended" THEN "excluding" ELSE "failed"
    /\ replayer' = Idle
    /\ UNCHANGED <<ledger, report, campaign, faults, directory>>

(* Every failing row is probed once more: one the engine can answer is a    *)
(* NO-GO, and so are too many that it cannot.                              *)
Exclude ==
    /\ restoreStep = "excluding"
    /\ LET failing == LatestFailed(ledger["full"].rows)
       IN IF failing \cap Labelable = {} /\ Cardinality(failing) <= MaxExclusions
          THEN Goes("excluding", "merging") /\ exclusions' = failing
          ELSE Goes("excluding", "failed") /\ UNCHANGED exclusions
    /\ UNCHANGED <<ledgerVars, release, current, source, merged, artifacts>>

(* A row's last word: its length, or Failed for the excluded. *)
LastLabels(rows) == [s \in Ids |-> rows[s][Len(rows[s])]]

(* merge: every sample has a row, and those that failed are the excluded.   *)
Merge ==
    /\ restoreStep = "merging"
    /\ LET rows == ledger["full"].rows
       IN IF Attempted(rows) = Ids /\ LatestFailed(rows) = exclusions
          THEN Goes("merging", "building") /\ merged' = LastLabels(rows)
          ELSE Goes("merging", "failed") /\ UNCHANGED merged
    /\ UNCHANGED <<ledgerVars, release, current, source, exclusions, artifacts>>

(* A bug: what an earlier build left is written over. *)
BuildAgain ==
    /\ Goes("building", "sidecar.tmp")
    /\ sidecarTmp' = merged
    /\ UNCHANGED <<ledgerVars, release, current, source, exclusions, merged,
                   sidecar, manifest, manifestTmp>>

(* _write_artifacts refuses what exists under any of the four names, ...    *)
Build ==
    /\ restoreStep = "building"
    /\ IF <<sidecar, sidecarTmp, manifest, manifestTmp>> = <<None, None, None, None>>
       THEN Goes("building", "sidecar.tmp") /\ sidecarTmp' = merged
       ELSE Goes("building", "failed") /\ UNCHANGED sidecarTmp
    /\ UNCHANGED <<ledgerVars, release, current, source, exclusions, merged,
                   sidecar, manifest, manifestTmp>>

WriteManifest ==
    /\ Goes("sidecar.tmp", "manifest.tmp")
    /\ manifestTmp' = merged
    /\ UNCHANGED <<ledgerVars, release, current, source, exclusions, merged,
                   sidecar, sidecarTmp, manifest>>

(* ... then renames the sidecar and, last, the manifest.                    *)
ReplaceSidecar ==
    /\ Goes("manifest.tmp", "sidecar")
    /\ sidecar' = sidecarTmp /\ sidecarTmp' = None
    /\ UNCHANGED <<ledgerVars, release, current, source, exclusions, merged,
                   manifest, manifestTmp>>

ReplaceManifest ==
    /\ Goes("sidecar", "done")
    /\ manifest' = manifestTmp /\ manifestTmp' = None
    /\ UNCHANGED <<ledgerVars, release, current, source, exclusions, merged,
                   sidecar, sidecarTmp>>

(* An exception of a write or a rename removes what this build made.        *)
BuildFails ==
    /\ restoreStep \in {"sidecar.tmp", "manifest.tmp", "sidecar"}
    /\ faults < MaxFaults /\ faults' = faults + 1
    /\ restoreStep' = "failed"
    /\ sidecarTmp' = None /\ manifestTmp' = None
    /\ sidecar' = IF restoreStep = "sidecar" THEN None ELSE sidecar
    /\ UNCHANGED <<ledger, replayer, report, campaign, release, current, source,
                   exclusions, merged, manifest>>

(* A kill, or a command that fails for a reason of its own, ends the script *)
(* where it is; an unpacking in place may leave a part of the source.       *)
RestoreKilled ==
    /\ restoreStep \notin {"done", "failed", "replaying"}
    /\ faults < MaxFaults /\ faults' = faults + 1
    /\ restoreStep' = "failed"
    /\ source' \in IF restoreStep = "unpacking" /\ source = "none" THEN {"none", "torn"} ELSE {source}
    /\ UNCHANGED <<ledger, replayer, report, campaign, release, current,
                   exclusions, merged, artifacts>>

RestoreRestarts ==
    /\ restoreStep \in {"done", "failed"}
    /\ restoreStep' = "downloading"
    /\ UNCHANGED <<ledgerVars, directory>>

RestoreWork ==
    \/ MoveRelease \/ LinkRelease \/ UnpackSource \/ RebuildSample
    \/ RepairStarts \/ RepairEnds
    \/ restoreStep = "replaying" /\ ReplaySteps /\ UNCHANGED <<restoreStep, directory>>
    \/ Exclude \/ Merge \/ Build \/ WriteManifest \/ ReplaceSidecar \/ ReplaceManifest
    \/ RestoreRestarts

RestoreNext ==
    \/ RestoreWork
    \/ ReplayKilled /\ UNCHANGED <<restoreStep, directory>>
    \/ BuildFails \/ RestoreKilled

RestoreSpec == RestoreInit /\ [][RestoreNext]_restoreVars

-----------------------------------------------------------------------------
(* The manifest the decision service reads is there only with the sidecar   *)
(* it was built with, and both agree with the merged labels beside them,    *)
(* however often the restore is killed, fails or is run again: a second run *)
(* merges the same labels, because no label that is there is replayed.      *)
ManifestMatchesItsLabels ==
    manifest # None => sidecar = manifest /\ merged = manifest

(* What keeps every later restore that prepares the quantiles from ending.  *)
Blocked ==
    /\ restoreStep = "failed"
    /\ \/ source = "torn" \/ ledger["full"].tail = "torn"
       \/ sidecar # None \/ sidecarTmp # None \/ manifestTmp # None

(* A restore that is run again until it is done gets done, unless a kill    *)
(* left one of the files it trusts or refuses: a failed label is replayed,  *)
(* and the files of a build that raised are gone.                          *)
RestoreGetsDone == restoreStep = "downloading" ~> (restoreStep = "done" \/ Blocked)
=============================================================================
