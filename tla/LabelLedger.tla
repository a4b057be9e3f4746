------------------------------ MODULE LabelLedger ------------------------------
(***************************************************************************)
(* The replay of label requests into an append-only ledger (replay_labels,  *)
(* ltr_training/tier2.py, run by scripts/replay_tier2_labels.py), and the   *)
(* labelling campaign of scripts/run_post_matrix_tier2.sh, which replays a  *)
(* few samples for a smoke test, then a pilot, gates on the pilot's failures *)
(* and carries its ledger over to the full replay.                         *)
(*                                                                         *)
(* A ledger is, per sample, the rows written for it, and the state of its   *)
(* last line, which decides whether json.loads can read the file at all.    *)
(***************************************************************************)
EXTENDS Integers, Sequences, FiniteSets

CONSTANTS
    Samples,    \* how many samples the label file holds
    Smoke,      \* how many of them the smoke test replays
    Pilot,      \* how many of them the pilot replays
    Lengths,    \* the output lengths a replay may see
    Labelable,  \* the samples whose request fits the engine's context
    MaxFaults   \* bounds the failed calls and the kills

Ids == 1..Samples
Failed == -1      \* an "error" row
Unanswered == -2  \* the worker is still in its call

ASSUME LedgerAssumption ==
    /\ Samples \in Nat /\ Smoke \in 1..Samples /\ Pilot \in 1..Samples /\ MaxFaults \in Nat
    /\ Lengths \subseteq Nat /\ Lengths # {} /\ Labelable \subseteq Ids

VARIABLES
    ledger,    \* the rows and the tail of each of Ledgers
    replayer,  \* the replay process: its step, target, limit, pending, answers
    report,    \* d4_passed of the last report on each ledger
    campaign,  \* where the campaign is
    faults     \* failed calls and kills so far

ledgerVars == <<ledger, replayer, report, campaign, faults>>

Ledgers == {"smoke", "pilot", "full"}
NoRows == [s \in Ids |-> <<>>]
EmptyLedger == [rows |-> NoRows, tail |-> "whole"]
Idle == [step |-> "idle", target |-> "full", limit |-> 0, pending |-> {},
         answers |-> [s \in Ids |-> Unanswered]]

LedgerInit ==
    /\ ledger = [l \in Ledgers |-> EmptyLedger]
    /\ replayer = Idle
    /\ report = [l \in Ledgers |-> "none"]
    /\ campaign = "polling"
    /\ faults = 0

-----------------------------------------------------------------------------
(* completed_sample_ids: any "ok" row; latest_results: the last row.        *)
Completed(rows, s) == \E i \in DOMAIN rows[s] : rows[s][i] # Failed
Attempted(rows) == {s \in Ids : rows[s] # <<>>}
LatestFailed(rows) == {s \in Attempted(rows) : rows[s][Len(rows[s])] = Failed}

(* A bug: a sample that has any row is not pending. *)
NeverTried(l, limit) == {s \in 1..limit : ledger[l].rows[s] = <<>>}

(* The samples of the label file's head that have no "ok" row. *)
Pending(l, limit) == {s \in 1..limit : ~ Completed(ledger[l].rows, s)}

(* replay_labels reads the ledger before it opens it to append. *)
ReplayStarts(l, limit) ==
    /\ replayer.step # "replaying"
    /\ replayer' = IF ledger[l].tail = "torn" THEN [Idle EXCEPT !.step = "raised", !.target = l]
                   ELSE [Idle EXCEPT !.step = "replaying", !.target = l, !.limit = limit,
                                     !.pending = Pending(l, limit)]

(* A worker's call: a length, or an error row for whatever it raised.       *)
Answer(s) ==
    /\ replayer.step = "replaying"
    /\ s \in replayer.pending /\ replayer.answers[s] = Unanswered
    /\ \E row \in Lengths \cup {Failed} :
          /\ row # Failed => s \in Labelable
          /\ (row = Failed /\ s \in Labelable) => faults < MaxFaults
          /\ faults' = IF row = Failed /\ s \in Labelable THEN faults + 1 ELSE faults
          /\ replayer' = [replayer EXCEPT !.answers[s] = row]
    /\ UNCHANGED <<ledger, report, campaign>>

(* One line is written: after a line that lacks its newline it is glued on. *)
(* Error rows in a row tell a reader no more than one, and are kept as one. *)
Written(book, s, row) ==
    [rows |-> [book.rows EXCEPT ![s] =
                  IF row = Failed /\ s \in LatestFailed(book.rows) THEN @ ELSE Append(@, row)],
     tail |-> IF book.tail = "whole" THEN "whole" ELSE "torn"]

(* The main thread is the only writer, in the order the calls complete.     *)
AppendRow(s) ==
    /\ replayer.step = "replaying"
    /\ s \in replayer.pending /\ replayer.answers[s] # Unanswered
    /\ ledger' = [ledger EXCEPT ![replayer.target] = Written(@, s, replayer.answers[s])]
    /\ replayer' = [replayer EXCEPT !.pending = @ \ {s}, !.answers[s] = Unanswered]
    /\ UNCHANGED <<report, campaign, faults>>

(* The ledger is read once more, summarized and reported: d4_passed is a    *)
(* failure rate of at most one percent.                                    *)
ReplayEnds ==
    /\ replayer.step = "replaying" /\ replayer.pending = {}
    /\ LET l == replayer.target
           rows == ledger[l].rows
           passed == 100 * Cardinality(LatestFailed(rows)) <= Cardinality(Attempted(rows))
       IN IF ledger[l].tail = "torn"
          THEN replayer' = [replayer EXCEPT !.step = "raised"] /\ UNCHANGED report
          ELSE /\ replayer' = [replayer EXCEPT !.step = "ended"]
               /\ report' = [report EXCEPT ![l] = IF passed THEN "passed" ELSE "failed"]
    /\ UNCHANGED <<ledger, campaign, faults>>

ReplaySteps == ReplayEnds \/ \E s \in Ids : Answer(s) \/ AppendRow(s)

(* What a kill in the middle of a write leaves of the row for s: nothing,   *)
(* the line without its newline, or a part of the line.                     *)
Interrupted(book, s, row) ==
    {book,
     [book EXCEPT !.tail = "torn"],
     [Written(book, s, row) EXCEPT !.tail = IF @ = "whole" THEN "unterminated" ELSE "torn"]}

ReplayKilled ==
    /\ replayer.step = "replaying"
    /\ faults < MaxFaults
    /\ faults' = faults + 1
    /\ replayer' = [Idle EXCEPT !.step = "killed"]
    /\ \/ UNCHANGED ledger
       \/ \E s \in replayer.pending :
             /\ replayer.answers[s] # Unanswered
             /\ \E book \in Interrupted(ledger[replayer.target], s, replayer.answers[s]) :
                   ledger' = [ledger EXCEPT ![replayer.target] = book]
    /\ UNCHANGED <<report, campaign>>

-----------------------------------------------------------------------------
(* run_post_matrix_tier2.sh: wait for the Tier-1 matrix and the engine, or  *)
(* give up; then the smoke test, and the pilot when its replay has ended.   *)
CampaignGivesUp ==
    /\ campaign = "polling"
    /\ campaign' = "stopped"
    /\ UNCHANGED <<ledger, replayer, report, faults>>

SmokeStarts ==
    /\ campaign = "polling"
    /\ ReplayStarts("smoke", Smoke)
    /\ campaign' = "smoke"
    /\ UNCHANGED <<ledger, report, faults>>

SmokeFails ==
    /\ campaign = "smoke" /\ replayer.step \in {"raised", "killed"}
    /\ campaign' = "stopped"
    /\ replayer' = Idle
    /\ UNCHANGED <<ledger, report, faults>>

PilotStarts ==
    /\ campaign = "smoke" /\ replayer.step = "ended"
    /\ ReplayStarts("pilot", Pilot)
    /\ campaign' = "pilot"
    /\ UNCHANGED <<ledger, report, faults>>

(* A bug: the full replay begins with the ledger it finds. *)
PilotIsNotInstalled ==
    /\ campaign = "pilot" /\ replayer.step # "replaying"
    /\ campaign' = IF replayer.step = "ended" /\ report["pilot"] = "passed"
                   THEN "full" ELSE "stopped"
    /\ replayer' = Idle
    /\ UNCHANGED <<ledger, report, faults>>

(* The D4 gate reads the pilot's report; install puts the pilot's ledger    *)
(* where the full ledger is, whatever that holds; then the full replay      *)
(* resumes from it.                                                        *)
PilotEnds ==
    /\ campaign = "pilot" /\ replayer.step # "replaying"
    /\ IF replayer.step = "ended" /\ report["pilot"] = "passed"
       THEN campaign' = "full" /\ ledger' = [ledger EXCEPT !["full"] = ledger["pilot"]]
       ELSE campaign' = "stopped" /\ UNCHANGED ledger
    /\ replayer' = Idle
    /\ UNCHANGED <<report, faults>>

FullStarts ==
    /\ campaign = "full" /\ replayer.step = "idle"
    /\ ReplayStarts("full", Samples)
    /\ UNCHANGED <<ledger, report, campaign, faults>>

FullEnds ==
    /\ campaign = "full" /\ replayer.step \in {"ended", "raised", "killed"}
    /\ campaign' = IF replayer.step = "ended" THEN "complete" ELSE "stopped"
    /\ replayer' = Idle
    /\ UNCHANGED <<ledger, report, faults>>

(* A campaign that stopped is started again, once its replay is over.       *)
CampaignRestarts ==
    /\ campaign = "stopped"
    /\ campaign' = "polling"
    /\ UNCHANGED <<ledger, replayer, report, faults>>

CampaignWork ==
    \/ SmokeStarts \/ SmokeFails \/ PilotStarts \/ PilotEnds \/ FullStarts \/ FullEnds
    \/ CampaignRestarts \/ ReplaySteps

CampaignNext == CampaignWork \/ CampaignGivesUp \/ ReplayKilled

LedgerSpec == LedgerInit /\ [][CampaignNext]_ledgerVars

-----------------------------------------------------------------------------
(* The ledgers whose labels a replay into l is to make use of. *)
Inherited(l) == IF l = "full" THEN {"pilot", "full"} ELSE {l}

(* No request is sent for a sample that has a label, in the ledger of the    *)
(* replay or in the pilot's that it continues: through kills in the middle   *)
(* of a row, resumes, and campaigns that are started again.  What is asked   *)
(* for again is what no ledger holds: a label answered but not yet written   *)
(* when the replay was killed, and a label beyond the pilot that an earlier  *)
(* campaign wrote to the full ledger, which install replaces.              *)
NoLabelIsAskedForAgain ==
    [][\A s \in Ids :
          replayer.answers[s] = Unanswered /\ replayer'.answers[s] # Unanswered =>
              \A l \in Inherited(replayer.target) : ~ Completed(ledger[l].rows, s)]_ledgerVars
=============================================================================
