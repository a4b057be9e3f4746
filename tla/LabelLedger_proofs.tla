------------------------- MODULE LabelLedger_proofs -------------------------
(***************************************************************************)
(* No label is asked for that a ledger in use already holds, and no manifest *)
(* is beside labels it was not built from: for any number of samples,       *)
(* failures, kills and restarts, and whatever a kill leaves of the line     *)
(* being written.                                                          *)
(***************************************************************************)
EXTENDS ReleaseRestore, TLAPS

Row == Lengths \cup {Failed}
Books == [rows : [Ids -> Seq(Row)], tail : {"whole", "unterminated", "torn"}]

Replayers ==
    [step : {"idle", "replaying", "ended", "raised", "killed"},
     target : Ledgers, limit : Nat, pending : SUBSET Ids,
     answers : [Ids -> Row \cup {Unanswered}]]

(* The samples a replay still works on have no "ok" row, neither in its      *)
(* ledger nor in the pilot's that it continues.                             *)
PendingIsUnlabelled ==
    replayer.step = "replaying" =>
        \A s \in replayer.pending : \A l \in Inherited(replayer.target) :
            ~ Completed(ledger[l].rows, s)

(* A replay works on the ledger of the campaign's stage; that of a restore,  *)
(* on the full one.                                                        *)
ReplayIsTheStages ==
    replayer.step = "replaying" =>
        \/ campaign = replayer.target
        \/ campaign = "complete" /\ replayer.target = "full"

(* The full ledger has the labels the pilot has. *)
PilotIsCarriedOver ==
    campaign \in {"full", "complete"} =>
        \A s \in Ids : Completed(ledger["pilot"].rows, s) => Completed(ledger["full"].rows, s)

LedgerInv ==
    /\ ledger \in [Ledgers -> Books]
    /\ replayer \in Replayers
    /\ PendingIsUnlabelled /\ ReplayIsTheStages /\ PilotIsCarriedOver

(* A row is added to one sample's, and no "ok" row is lost. *)
LEMMA WrittenAddsARow ==
  ASSUME NEW book \in Books, NEW s \in Ids, NEW row \in Row
  PROVE  /\ Written(book, s, row) \in Books
         /\ \A r \in Ids : Completed(book.rows, r) => Completed(Written(book, s, row).rows, r)
         /\ \A r \in Ids \ {s} : Written(book, s, row).rows[r] = book.rows[r]
<1> DEFINE old == book.rows[s]
           new == IF row = Failed /\ s \in LatestFailed(book.rows) THEN old
                  ELSE Append(old, row)
           written == Written(book, s, row)
<1>1. book.rows \in [Ids -> Seq(Row)] /\ book.tail \in {"whole", "unterminated", "torn"}
  BY DEF Books
<1>2. old \in Seq(Row)
  BY <1>1
<1>3. /\ written.rows = [book.rows EXCEPT ![s] = new]
      /\ written.tail \in {"whole", "torn"}
      /\ written = [rows |-> written.rows, tail |-> written.tail]
  BY DEF Written
<1> HIDE DEF written
<1>4. /\ new \in Seq(Row)
      /\ \A i \in DOMAIN old : i \in DOMAIN new /\ new[i] = old[i]
  <2>1. CASE new = old
    BY <1>2, <2>1
  <2>2. CASE new = Append(old, row)
    <3> HIDE DEF new, old
    <3>1. /\ new \in Seq(Row) /\ Len(new) = Len(old) + 1 /\ Len(old) \in Nat
          /\ \A i \in 1..Len(old) : new[i] = old[i]
      BY <1>2, <2>2
    <3>2. DOMAIN new = 1..Len(new) /\ DOMAIN old = 1..Len(old)
      BY <1>2, <3>1
    <3> QED BY <3>1, <3>2
  <2> QED BY <2>1, <2>2
<1> HIDE DEF new
<1>5. /\ written.rows \in [Ids -> Seq(Row)] /\ written.rows[s] = new
      /\ \A r \in Ids \ {s} : written.rows[r] = book.rows[r]
  BY <1>1, <1>3, <1>4
<1>6. \A r \in Ids : Completed(book.rows, r) => Completed(written.rows, r)
  <2>1. Completed(book.rows, s) => Completed(written.rows, s)
    BY <1>4, <1>5 DEF Completed
  <2>2. \A r \in Ids \ {s} : Completed(book.rows, r) => Completed(written.rows, r)
    BY <1>5 DEF Completed
  <2> QED BY <2>1, <2>2
<1>7. written \in Books
  BY <1>3, <1>5 DEF Books
<1> QED BY <1>5, <1>6, <1>7 DEF written

(* The ledger of a replay is replaced by one that has its labels.           *)
LEMMA LedgerGrows ==
  ASSUME LedgerInv, replayer.step = "replaying", NEW book \in Books,
         \A r \in Ids : Completed(ledger[replayer.target].rows, r) => Completed(book.rows, r),
         ledger' = [ledger EXCEPT ![replayer.target] = book], UNCHANGED campaign
  PROVE  /\ ledger' \in [Ledgers -> Books] /\ PilotIsCarriedOver'
         /\ ledger'[replayer.target] = book
         /\ \A l \in Ledgers \ {replayer.target} : ledger'[l] = ledger[l]
<1>1. replayer.target \in Ledgers
  BY DEF LedgerInv, Replayers
<1>2. /\ ledger' \in [Ledgers -> Books] /\ ledger'[replayer.target] = book
      /\ \A l \in Ledgers \ {replayer.target} : ledger'[l] = ledger[l]
  BY <1>1 DEF LedgerInv
<1>3. ASSUME campaign' \in {"full", "complete"}, NEW s \in Ids,
             Completed(ledger'["pilot"].rows, s)
      PROVE  Completed(ledger'["full"].rows, s)
  <2>1. replayer.target = "full" /\ campaign \in {"full", "complete"}
    <3>1. campaign \in {"full", "complete"}
      BY <1>3
    <3>2. campaign = replayer.target \/ replayer.target = "full"
      BY DEF LedgerInv, ReplayIsTheStages
    <3>3. replayer.target # "complete"
      BY <1>1 DEF Ledgers
    <3> QED BY <3>1, <3>2, <3>3
  <2>2. ledger'["pilot"] = ledger["pilot"] /\ ledger'["full"] = book
    BY <1>2, <2>1 DEF Ledgers
  <2>3. Completed(ledger["full"].rows, s)
    BY <1>3, <2>1, <2>2 DEF LedgerInv, PilotIsCarriedOver
  <2> QED BY <2>1, <2>2, <2>3
<1>4. PilotIsCarriedOver'
  BY <1>3 DEF PilotIsCarriedOver
<1> QED BY <1>2, <1>4

(* A replay that is over asks nothing of the ledger. *)
LEMMA OverIsFine ==
  ASSUME ledger' \in [Ledgers -> Books], PilotIsCarriedOver',
         replayer' \in Replayers, replayer'.step # "replaying"
  PROVE  LedgerInv'
BY DEF LedgerInv, PendingIsUnlabelled, ReplayIsTheStages

(* A replayer that has nothing to do. *)
LEMMA IdleIsAReplayer ==
  Idle \in Replayers /\ Idle.step = "idle" /\ Idle.answers = [s \in Ids |-> Unanswered]
<1>1. [s \in Ids |-> Unanswered] \in [Ids -> Row \cup {Unanswered}]
  OBVIOUS
<1> QED BY <1>1 DEF Idle, Replayers, Ledgers

(* A replay starts with the samples that have no "ok" row yet. *)
LEMMA StartFits ==
  ASSUME LedgerAssumption, LedgerInv, NEW l \in Ledgers, NEW limit \in 1..Samples,
         ReplayStarts(l, limit), UNCHANGED ledger,
         campaign' = l \/ (campaign' = "complete" /\ l = "full"),
         l = "full" => campaign' = campaign
  PROVE  LedgerInv'
<1> USE DEF ReplayStarts
<1>1. Pending(l, limit) \subseteq Ids /\ limit \in Nat
  BY DEF Pending, Ids, LedgerAssumption
<1>2. [s \in Ids |-> Unanswered] \in [Ids -> Row \cup {Unanswered}]
  OBVIOUS
<1>3. PilotIsCarriedOver'
  <2>1. campaign' \in {"full", "complete"} => campaign' = campaign
    BY DEF Ledgers
  <2> QED BY <2>1 DEF LedgerInv, PilotIsCarriedOver
<1>4. CASE ledger[l].tail = "torn"
  <2>1. replayer' \in Replayers /\ replayer'.step # "replaying"
    BY <1>2, <1>4 DEF Idle, Replayers
  <2> QED BY <1>3, <2>1, OverIsFine DEF LedgerInv
<1>5. CASE ledger[l].tail # "torn"
  <2>1. /\ replayer' \in Replayers
        /\ replayer'.target = l /\ replayer'.pending = Pending(l, limit)
    BY <1>1, <1>2, <1>5 DEF Idle, Replayers
  <2>2. ASSUME NEW s \in Pending(l, limit), NEW k \in Inherited(l)
        PROVE  ~ Completed(ledger[k].rows, s)
    <3>1. s \in Ids /\ ~ Completed(ledger[l].rows, s)
      BY <1>1 DEF Pending
    <3>2. CASE k = l
      BY <3>1, <3>2
    <3>3. CASE k # l
      <4>1. l = "full" /\ k = "pilot"
        BY <3>3 DEF Inherited
      <4>2. campaign \in {"full", "complete"}
        BY <4>1
      <4> QED BY <3>1, <4>1, <4>2 DEF LedgerInv, PilotIsCarriedOver
    <3> QED BY <3>2, <3>3
  <2>3. PendingIsUnlabelled'
    BY <2>1, <2>2 DEF PendingIsUnlabelled
  <2>4. ReplayIsTheStages'
    BY <2>1 DEF ReplayIsTheStages
  <2> QED BY <1>3, <2>1, <2>3, <2>4 DEF LedgerInv
<1> QED BY <1>4, <1>5

(* A worker answers for a sample that is pending and stays so. *)
LEMMA AnswerFits ==
  ASSUME LedgerInv, NEW s \in Ids, Answer(s)
  PROVE  LedgerInv'
<1> USE DEF Answer
<1>1. PICK row \in Row : replayer' = [replayer EXCEPT !.answers[s] = row]
  BY DEF Row
<1>2. /\ replayer' \in Replayers
      /\ replayer'.step = replayer.step /\ replayer'.target = replayer.target
      /\ replayer'.pending = replayer.pending
  BY <1>1 DEF LedgerInv, Replayers
<1> QED BY <1>2 DEF LedgerInv, PendingIsUnlabelled, ReplayIsTheStages, PilotIsCarriedOver

(* An answer is written for a pending sample, which is pending no more.     *)
LEMMA AppendFits ==
  ASSUME LedgerInv, NEW s \in Ids, AppendRow(s)
  PROVE  LedgerInv'
<1> DEFINE book == ledger[replayer.target]
           row == replayer.answers[s]
           written == Written(book, s, row)
<1> USE DEF AppendRow
<1>1. book \in Books /\ replayer.target \in Ledgers /\ row \in Row
      /\ replayer.pending \subseteq Ids
  BY DEF LedgerInv, Replayers
<1>2. /\ written \in Books
      /\ \A r \in Ids : Completed(book.rows, r) => Completed(written.rows, r)
      /\ \A r \in Ids \ {s} : written.rows[r] = book.rows[r]
  BY <1>1, WrittenAddsARow
<1>3. ledger' = [ledger EXCEPT ![replayer.target] = written]
  OBVIOUS
<1> HIDE DEF written
<1>4. /\ ledger' \in [Ledgers -> Books] /\ PilotIsCarriedOver'
      /\ ledger'[replayer.target] = written
      /\ \A l \in Ledgers \ {replayer.target} : ledger'[l] = ledger[l]
  BY <1>2, <1>3, LedgerGrows
<1>5. /\ replayer' \in Replayers /\ replayer'.target = replayer.target
      /\ replayer'.step = "replaying" /\ replayer'.pending = replayer.pending \ {s}
  BY DEF LedgerInv, Replayers
<1>6. ASSUME NEW r \in replayer.pending \ {s}, NEW l \in Inherited(replayer.target)
      PROVE  ~ Completed(ledger'[l].rows, r)
  <2>1. ~ Completed(ledger[l].rows, r) /\ l \in Ledgers /\ r \in Ids \ {s}
    BY <1>1, <1>6 DEF LedgerInv, PendingIsUnlabelled, Inherited, Ledgers
  <2>2. ledger'[l].rows[r] = ledger[l].rows[r]
    <3>1. CASE l = replayer.target
      BY <1>2, <1>4, <2>1, <3>1
    <3>2. CASE l # replayer.target
      BY <1>4, <2>1, <3>2
    <3> QED BY <3>1, <3>2
  <2> QED BY <2>1, <2>2 DEF Completed
<1>7. PendingIsUnlabelled'
  BY <1>5, <1>6 DEF PendingIsUnlabelled
<1>8. ReplayIsTheStages'
  BY <1>5 DEF LedgerInv, ReplayIsTheStages
<1> QED BY <1>4, <1>5, <1>7, <1>8 DEF LedgerInv

(* A kill in the middle of a write leaves the ledger as it was, or with the  *)
(* row, but for the line's end.                                            *)
LEMMA KillFits ==
  ASSUME LedgerInv, ReplayKilled
  PROVE  LedgerInv'
<1>1. replayer' \in Replayers /\ replayer'.step # "replaying"
  <2>1. [s \in Ids |-> Unanswered] \in [Ids -> Row \cup {Unanswered}]
    OBVIOUS
  <2> QED BY <2>1 DEF ReplayKilled, Idle, Replayers, Ledgers
<1>2. CASE UNCHANGED ledger
  <2>1. PilotIsCarriedOver'
    BY <1>2 DEF ReplayKilled, LedgerInv, PilotIsCarriedOver
  <2> QED BY <1>1, <1>2, <2>1, OverIsFine DEF LedgerInv
<1>3. CASE ~ UNCHANGED ledger
  <2>1. PICK s \in replayer.pending :
           /\ replayer.answers[s] # Unanswered
           /\ \E book \in Interrupted(ledger[replayer.target], s, replayer.answers[s]) :
                 ledger' = [ledger EXCEPT ![replayer.target] = book]
    BY <1>3 DEF ReplayKilled
  <2> DEFINE old == ledger[replayer.target]
             written == Written(old, s, replayer.answers[s])
  <2>2. PICK book \in Interrupted(old, s, replayer.answers[s]) :
           ledger' = [ledger EXCEPT ![replayer.target] = book]
    BY <2>1
  <2>3. old \in Books /\ s \in Ids /\ replayer.answers[s] \in Row
    BY <2>1 DEF LedgerInv, Replayers
  <2>4. /\ written \in Books
        /\ \A r \in Ids : Completed(old.rows, r) => Completed(written.rows, r)
    BY <2>3, WrittenAddsARow
  <2>5. \/ book = old
        \/ book = [old EXCEPT !.tail = "torn"]
        \/ book = [written EXCEPT
                     !.tail = IF @ = "whole" THEN "unterminated" ELSE "torn"]
    BY <2>2 DEF Interrupted
  <2> HIDE DEF old, written
  <2>6. book \in Books /\ (book.rows = old.rows \/ book.rows = written.rows)
    BY <2>3, <2>4, <2>5 DEF Books
  <2>7. \A r \in Ids : Completed(old.rows, r) => Completed(book.rows, r)
    BY <2>4, <2>6
  <2>8. replayer.step = "replaying" /\ UNCHANGED campaign
    BY DEF ReplayKilled
  <2>9. ledger' \in [Ledgers -> Books] /\ PilotIsCarriedOver'
    BY <2>2, <2>6, <2>7, <2>8, LedgerGrows DEF old
  <2> QED BY <1>1, <2>9, OverIsFine
<1> QED BY <1>2, <1>3

(* The replay's end changes what is reported, not what is written. *)
LEMMA ReplayEndsFits ==
  ASSUME LedgerInv, ReplayEnds
  PROVE  LedgerInv'
<1>1. replayer' \in Replayers /\ replayer'.step # "replaying"
  <2>1. \/ replayer' = [replayer EXCEPT !.step = "raised"]
        \/ replayer' = [replayer EXCEPT !.step = "ended"]
    BY DEF ReplayEnds
  <2> QED BY <2>1 DEF LedgerInv, Replayers
<1>2. UNCHANGED <<ledger, campaign>>
  BY DEF ReplayEnds
<1>3. PilotIsCarriedOver'
  BY <1>2 DEF LedgerInv, PilotIsCarriedOver
<1> QED BY <1>1, <1>2, <1>3, OverIsFine DEF LedgerInv

(* Between its replays the campaign carries the pilot's ledger over. *)
LEMMA CampaignFits ==
  ASSUME LedgerAssumption, LedgerInv,
         CampaignGivesUp \/ SmokeStarts \/ SmokeFails \/ PilotStarts \/ PilotEnds
            \/ FullStarts \/ FullEnds \/ CampaignRestarts
  PROVE  LedgerInv'
<1>1. CASE CampaignGivesUp \/ CampaignRestarts
  <2>1. /\ campaign \in {"polling", "stopped"} /\ campaign' \in {"polling", "stopped"}
        /\ UNCHANGED <<ledger, replayer>>
    BY <1>1 DEF CampaignGivesUp, CampaignRestarts
  <2>2. replayer.step # "replaying" /\ replayer \in Replayers
    BY <2>1 DEF LedgerInv, ReplayIsTheStages, Replayers, Ledgers
  <2>3. PilotIsCarriedOver'
    BY <2>1 DEF PilotIsCarriedOver
  <2> QED BY <2>1, <2>2, <2>3, OverIsFine DEF LedgerInv
<1>2. CASE SmokeStarts
  BY <1>2, StartFits DEF SmokeStarts, LedgerAssumption, Ledgers
<1>3. CASE PilotStarts
  BY <1>3, StartFits DEF PilotStarts, LedgerAssumption, Ledgers
<1>4. CASE FullStarts
  <2>1. Samples \in 1..Samples
    BY DEF LedgerAssumption
  <2> QED BY <1>4, <2>1, StartFits DEF FullStarts, Ledgers
<1>5. CASE SmokeFails \/ (PilotEnds /\ campaign' = "stopped")
  <2>1. ledger' \in [Ledgers -> Books] /\ replayer' = Idle /\ campaign' = "stopped"
    BY <1>5 DEF SmokeFails, PilotEnds, LedgerInv
  <2>2. PilotIsCarriedOver'
    BY <2>1 DEF PilotIsCarriedOver
  <2> QED BY <2>1, <2>2, IdleIsAReplayer, OverIsFine
<1>6. CASE PilotEnds /\ campaign' # "stopped"
  <2>1. /\ ledger' = [ledger EXCEPT !["full"] = ledger["pilot"]] /\ replayer' = Idle
        /\ ledger \in [Ledgers -> Books]
    BY <1>6 DEF PilotEnds, LedgerInv
  <2>2. ledger' \in [Ledgers -> Books] /\ ledger'["full"] = ledger'["pilot"]
    BY <2>1 DEF Ledgers
  <2>3. PilotIsCarriedOver'
    BY <2>2 DEF PilotIsCarriedOver
  <2> QED BY <2>1, <2>2, <2>3, IdleIsAReplayer, OverIsFine
<1>7. CASE FullEnds
  <2>1. /\ campaign = "full" /\ replayer' = Idle
        /\ UNCHANGED ledger /\ ledger \in [Ledgers -> Books]
    BY <1>7 DEF FullEnds, LedgerInv
  <2>2. PilotIsCarriedOver'
    BY <2>1 DEF LedgerInv, PilotIsCarriedOver
  <2> QED BY <2>1, <2>2, IdleIsAReplayer, OverIsFine
<1> QED BY <1>1, <1>2, <1>3, <1>4, <1>5, <1>6, <1>7

(* The invariant holds in every reachable state. *)
THEOREM LedgerInvariant == LedgerSpec => []LedgerInv
<1>1. LedgerInit => LedgerInv
  <2> SUFFICES ASSUME LedgerInit PROVE LedgerInv
    OBVIOUS
  <2>1. NoRows \in [Ids -> Seq(Row)] /\ EmptyLedger \in Books
    BY DEF NoRows, EmptyLedger, Books
  <2> QED BY <2>1, IdleIsAReplayer DEF LedgerInit, LedgerInv, PendingIsUnlabelled,
             ReplayIsTheStages, PilotIsCarriedOver
<1>2. ASSUME LedgerInv, [CampaignNext]_ledgerVars PROVE LedgerInv'
  <2>1. CASE ReplaySteps
    BY <1>2, <2>1, ReplayEndsFits, AnswerFits, AppendFits DEF ReplaySteps
  <2>2. CASE UNCHANGED ledgerVars
    BY <1>2, <2>2 DEF ledgerVars, LedgerInv, PendingIsUnlabelled, ReplayIsTheStages,
       PilotIsCarriedOver
  <2> QED BY <1>2, <2>1, <2>2, KillFits, CampaignFits, LedgerAssumption
          DEF CampaignNext, CampaignWork
<1> QED BY <1>1, <1>2, PTL DEF LedgerSpec

(* A worker asks for the label of a pending sample, and nobody else asks.   *)
LEMMA AskedIsUnlabelled ==
  ASSUME LedgerInv, NEW s \in Ids,
         replayer.answers[s] = Unanswered, replayer'.answers[s] # Unanswered,
         \/ ReplaySteps \/ replayer' = replayer
         \/ replayer'.answers = [t \in Ids |-> Unanswered]
  PROVE  \A l \in Inherited(replayer.target) : ~ Completed(ledger[l].rows, s)
<1>1. ReplaySteps /\ replayer' # replayer
  OBVIOUS
<1>2. replayer \in Replayers
  BY DEF LedgerInv
<1>3. CASE ReplayEnds
  <2>1. \/ replayer' = [replayer EXCEPT !.step = "raised"]
        \/ replayer' = [replayer EXCEPT !.step = "ended"]
    BY <1>3 DEF ReplayEnds
  <2> QED BY <1>2, <2>1 DEF Replayers
<1>4. ASSUME NEW t \in Ids, AppendRow(t) PROVE FALSE
  BY <1>2, <1>4 DEF AppendRow, Replayers
<1>5. ASSUME NEW t \in Ids, Answer(t)
      PROVE  \A l \in Inherited(replayer.target) : ~ Completed(ledger[l].rows, s)
  <2>1. s = t
    BY <1>2, <1>5 DEF Answer, Replayers
  <2> QED BY <1>5, <2>1 DEF Answer, LedgerInv, PendingIsUnlabelled
<1> QED BY <1>1, <1>3, <1>4, <1>5 DEF ReplaySteps

(* For any number of samples and over any number of campaigns, no request    *)
(* is sent for a label that the ledger of the replay, or the pilot's that    *)
(* it continues, holds.                                                    *)
THEOREM NoLabelIsPaidForAgain == LedgerSpec => NoLabelIsAskedForAgain
<1>1. ASSUME LedgerInv, [CampaignNext]_ledgerVars, NEW s \in Ids,
             replayer.answers[s] = Unanswered, replayer'.answers[s] # Unanswered
      PROVE  \A l \in Inherited(replayer.target) : ~ Completed(ledger[l].rows, s)
  <2>1. CASE SmokeStarts \/ PilotStarts \/ FullStarts
    BY <1>1, <2>1, AskedIsUnlabelled
       DEF SmokeStarts, PilotStarts, FullStarts, ReplayStarts, Idle
  <2>2. CASE SmokeFails \/ PilotEnds \/ FullEnds
    BY <1>1, <2>2, AskedIsUnlabelled, IdleIsAReplayer DEF SmokeFails, PilotEnds, FullEnds
  <2>3. CASE ReplayKilled
    BY <1>1, <2>3, AskedIsUnlabelled DEF ReplayKilled, Idle
  <2>4. CASE CampaignGivesUp \/ CampaignRestarts \/ UNCHANGED ledgerVars
    BY <1>1, <2>4, AskedIsUnlabelled DEF CampaignGivesUp, CampaignRestarts, ledgerVars
  <2> QED BY <1>1, <2>1, <2>2, <2>3, <2>4, AskedIsUnlabelled DEF CampaignNext, CampaignWork
<1>2. LedgerInv /\ [CampaignNext]_ledgerVars =>
         [\A s \in Ids :
            replayer.answers[s] = Unanswered /\ replayer'.answers[s] # Unanswered =>
                \A l \in Inherited(replayer.target) : ~ Completed(ledger[l].rows, s)]_ledgerVars
  BY <1>1
<1> QED BY <1>2, LedgerInvariant, PTL DEF LedgerSpec, NoLabelIsAskedForAgain

-----------------------------------------------------------------------------
(* What a worker learned of a sample beyond the context is that it failed.   *)
AnswersFit ==
    /\ replayer.target = "full" /\ campaign = "complete"
    /\ \A s \in Ids : replayer.answers[s] \in Lengths => s \in Labelable

(* The merged labels are the ledger's last words, and a failure among them  *)
(* is one that no replay can mend.                                         *)
MergedIsLast ==
    merged # None =>
        /\ merged \in [Ids -> Row]
        /\ \A s \in Ids :
              /\ ledger["full"].rows[s] # <<>>
              /\ ledger["full"].rows[s][Len(ledger["full"].rows[s])] = merged[s]
              /\ merged[s] = Failed => s \notin Labelable

(* What a build has made so far, of the labels that are merged. *)
BuildIsOfMerged ==
    /\ restoreStep \in {"sidecar.tmp", "manifest.tmp", "sidecar"} => manifest = None
    /\ restoreStep = "sidecar.tmp" =>
          sidecar = None /\ sidecarTmp = merged /\ manifestTmp = None
    /\ restoreStep = "manifest.tmp" =>
          sidecar = None /\ sidecarTmp = merged /\ manifestTmp = merged
    /\ restoreStep = "sidecar" =>
          sidecar = merged /\ sidecarTmp = None /\ manifestTmp = merged

RestoreInv ==
    /\ LedgerInv /\ AnswersFit
    /\ exclusions \subseteq Ids \ Labelable
    /\ MergedIsLast /\ BuildIsOfMerged
    /\ ManifestMatchesItsLabels

(* The replay of a repair writes nothing that would change a merged label.   *)
LEMMA RepairKeepsMerged ==
  ASSUME LedgerAssumption, RestoreInv, merged # None, replayer.step = "replaying",
         NEW s \in replayer.pending, replayer.answers[s] # Unanswered
  PROVE  Written(ledger["full"], s, replayer.answers[s]).rows = ledger["full"].rows
<1> DEFINE book == ledger["full"]
           rows == book.rows[s]
<1>1. /\ s \in Ids /\ replayer.answers[s] \in Lengths \cup {Failed}
      /\ book.rows \in [Ids -> Seq(Row)]
      /\ \A i \in 1..Len(rows) : rows[i] = Failed
  <2>1. /\ s \in Ids /\ replayer.answers[s] \in Lengths \cup {Failed}
        /\ book.rows \in [Ids -> Seq(Row)]
    BY DEF RestoreInv, LedgerInv, Replayers, Row, Books, Ledgers
  <2>2. ~ Completed(book.rows, s)
    BY DEF RestoreInv, LedgerInv, AnswersFit, PendingIsUnlabelled, Inherited
  <2>3. rows \in Seq(Row)
    BY <2>1
  <2>4. DOMAIN rows = 1..Len(rows)
    BY <2>3
  <2> QED BY <2>1, <2>2, <2>4 DEF Completed
<1>2. /\ rows # <<>> /\ rows[Len(rows)] = merged[s]
      /\ merged[s] = Failed => s \notin Labelable
  BY <1>1 DEF RestoreInv, MergedIsLast
<1>3. rows \in Seq(Row)
  BY <1>1
<1> HIDE DEF rows
<1>4. Len(rows) \in 1..Len(rows)
  BY <1>2, <1>3
<1>5. merged[s] = Failed /\ rows[Len(rows)] = Failed
  BY <1>1, <1>2, <1>4
<1>6. replayer.answers[s] = Failed
  BY <1>1, <1>2, <1>5 DEF RestoreInv, AnswersFit
<1>7. s \in LatestFailed(book.rows)
  BY <1>1, <1>2, <1>5 DEF LatestFailed, Attempted, rows
<1> HIDE DEF book
<1>8. Written(book, s, Failed).rows = [book.rows EXCEPT ![s] = @]
  BY <1>7 DEF Written
<1>9. [book.rows EXCEPT ![s] = @] = book.rows
  BY <1>1
<1> QED BY <1>6, <1>8, <1>9 DEF book

(* Whatever leaves the merged labels, the ledger's rows and the built files  *)
(* as they are leaves what is known of them.                               *)
LEMMA FilesStayPut ==
  ASSUME RestoreInv, LedgerInv', AnswersFit', UNCHANGED <<merged, artifacts>>,
         exclusions' \subseteq Ids \ Labelable,
         merged # None => ledger'["full"].rows = ledger["full"].rows,
         restoreStep' = restoreStep
            \/ restoreStep' \notin {"sidecar.tmp", "manifest.tmp", "sidecar"}
  PROVE  RestoreInv'
<1> USE DEF artifacts
<1>1. MergedIsLast'
  BY DEF RestoreInv, MergedIsLast
<1>2. BuildIsOfMerged'
  BY DEF RestoreInv, BuildIsOfMerged
<1>3. ManifestMatchesItsLabels'
  BY DEF RestoreInv, ManifestMatchesItsLabels
<1> QED BY <1>1, <1>2, <1>3 DEF RestoreInv

(* The steps of the repair's replay keep it, killed or not. *)
LEMMA RepairFits ==
  ASSUME LedgerAssumption, RestoreInv, UNCHANGED <<restoreStep, directory>>,
         ReplaySteps \/ ReplayKilled
  PROVE  RestoreInv'
<1> USE DEF directory
<1>1. LedgerInv'
  BY KillFits, ReplayEndsFits, AnswerFits, AppendFits DEF ReplaySteps, RestoreInv
<1>2. replayer.target = "full" /\ replayer \in Replayers /\ ledger \in [Ledgers -> Books]
  BY DEF RestoreInv, AnswersFit, LedgerInv
<1>3. AnswersFit' /\ (merged # None => ledger'["full"].rows = ledger["full"].rows)
  <2>1. CASE ReplayEnds
    <3>1. \/ replayer' = [replayer EXCEPT !.step = "raised"]
          \/ replayer' = [replayer EXCEPT !.step = "ended"]
      BY <2>1 DEF ReplayEnds
    <3> QED BY <1>2, <2>1, <3>1 DEF ReplayEnds, RestoreInv, AnswersFit, Replayers
  <2>2. ASSUME NEW s \in Ids, Answer(s)
        PROVE  AnswersFit' /\ UNCHANGED ledger
    BY <1>2, <2>2, LedgerAssumption
       DEF Answer, RestoreInv, AnswersFit, Replayers, LedgerAssumption, Failed
  <2>3. ASSUME NEW s \in Ids, AppendRow(s)
        PROVE  AnswersFit' /\ (merged # None => ledger'["full"].rows = ledger["full"].rows)
    <3>1. AnswersFit'
      BY <1>2, <2>3 DEF AppendRow, RestoreInv, AnswersFit, Replayers, LedgerAssumption,
         Unanswered
    <3>2. merged # None => Written(ledger["full"], s, replayer.answers[s]).rows
                             = ledger["full"].rows
      BY <2>3, RepairKeepsMerged DEF AppendRow
    <3>3. ledger'["full"] = Written(ledger["full"], s, replayer.answers[s])
      BY <1>2, <2>3 DEF AppendRow, Ledgers
    <3> QED BY <3>1, <3>2, <3>3
  <2>4. CASE ReplayKilled
    <3>1. AnswersFit'
      <4>1. /\ replayer' = [Idle EXCEPT !.step = "killed"]
            /\ campaign' = campaign /\ campaign = "complete"
        BY <2>4 DEF ReplayKilled, RestoreInv, AnswersFit
      <4>2. replayer'.target = "full" /\ replayer'.answers = [s \in Ids |-> Unanswered]
        BY <4>1 DEF Idle
      <4> QED BY <4>1, <4>2 DEF AnswersFit, LedgerAssumption, Unanswered
    <3>2. ASSUME merged # None, NEW s \in replayer.pending, replayer.answers[s] # Unanswered,
                 NEW book \in Interrupted(ledger["full"], s, replayer.answers[s])
          PROVE  book.rows = ledger["full"].rows
      <4> DEFINE written == Written(ledger["full"], s, replayer.answers[s])
      <4>1. written.rows = ledger["full"].rows
        BY <2>4, <3>2, RepairKeepsMerged DEF ReplayKilled
      <4>2. \/ book = ledger["full"]
            \/ book = [ledger["full"] EXCEPT !.tail = "torn"]
            \/ book = [written EXCEPT
                         !.tail = IF @ = "whole" THEN "unterminated" ELSE "torn"]
        BY DEF Interrupted
      <4> HIDE DEF written
      <4>3. ledger["full"] \in Books
        BY <1>2 DEF Ledgers
      <4>4. written = [rows |-> written.rows, tail |-> written.tail]
        BY DEF written, Written
      <4> QED BY <4>1, <4>2, <4>3, <4>4 DEF Books
    <3>3. merged # None => ledger'["full"].rows = ledger["full"].rows
      BY <1>2, <2>4, <3>2 DEF ReplayKilled
    <3> QED BY <3>1, <3>3
  <2> QED BY <2>1, <2>2, <2>3, <2>4 DEF ReplaySteps
<1> QED BY <1>1, <1>3, FilesStayPut DEF RestoreInv

(* Starting and ending the repair's replay keep it. *)
LEMMA RepairTurns ==
  ASSUME LedgerAssumption, RestoreInv, RepairStarts \/ RepairEnds
  PROVE  RestoreInv'
<1> USE DEF directory
<1>1. LedgerInv'
  <2>1. CASE RepairStarts
    <3>1. Samples \in 1..Samples
      BY DEF LedgerAssumption
    <3>2. /\ ReplayStarts("full", Samples) /\ UNCHANGED <<ledger, campaign>>
          /\ campaign = "complete" /\ LedgerInv /\ "full" \in Ledgers
      BY <2>1 DEF RepairStarts, RestoreInv, AnswersFit, Ledgers
    <3> QED BY <3>1, <3>2, StartFits
  <2>2. CASE RepairEnds
    <3>1. UNCHANGED <<ledger, campaign>> /\ replayer' = Idle /\ LedgerInv
      BY <2>2 DEF RepairEnds, RestoreInv
    <3>2. PilotIsCarriedOver' /\ ledger' \in [Ledgers -> Books]
      BY <3>1 DEF LedgerInv, PilotIsCarriedOver
    <3> QED BY <3>1, <3>2, IdleIsAReplayer, OverIsFine
  <2> QED BY <2>1, <2>2
<1>2. AnswersFit'
  <2>1. replayer'.target = "full" /\ replayer'.answers = [s \in Ids |-> Unanswered]
    <3>1. \/ replayer' = [Idle EXCEPT !.step = "raised", !.target = "full"]
          \/ replayer' = [Idle EXCEPT !.step = "replaying", !.target = "full",
                                      !.limit = Samples, !.pending = Pending("full", Samples)]
          \/ replayer' = Idle
      BY DEF RepairStarts, ReplayStarts, RepairEnds
    <3>2. /\ Idle.target = "full" /\ Idle.answers = [s \in Ids |-> Unanswered]
          /\ DOMAIN Idle = {"step", "target", "limit", "pending", "answers"}
      BY DEF Idle
    <3> QED BY <3>1, <3>2
  <2>2. campaign' = "complete"
    BY DEF RepairStarts, RepairEnds, RestoreInv, AnswersFit
  <2> QED BY <2>1, <2>2 DEF AnswersFit, LedgerAssumption, Unanswered
<1>3. UNCHANGED <<ledger, exclusions, merged, artifacts>>
  BY DEF RepairStarts, RepairEnds
<1>4. restoreStep' \notin {"sidecar.tmp", "manifest.tmp", "sidecar"}
  BY DEF RepairStarts, RepairEnds, Goes
<1> QED BY <1>1, <1>2, <1>3, <1>4, FilesStayPut DEF RestoreInv

(* The ledger's facts do not depend on where the restore is. *)
LEMMA LedgerStaysPut ==
  ASSUME RestoreInv, UNCHANGED <<ledger, replayer, campaign>>
  PROVE  LedgerInv' /\ AnswersFit'
BY DEF RestoreInv, LedgerInv, PendingIsUnlabelled, ReplayIsTheStages, PilotIsCarriedOver,
       AnswersFit

(* Merging again merges the labels that are merged already.                 *)
LEMMA MergeFits ==
  ASSUME RestoreInv, Merge
  PROVE  RestoreInv'
<1> USE DEF Merge, Goes
<1>1. LedgerInv' /\ AnswersFit'
  BY LedgerStaysPut DEF ledgerVars
<1>2. CASE restoreStep' = "failed"
  BY <1>1, <1>2, FilesStayPut DEF RestoreInv, ledgerVars
<1>3. CASE restoreStep' = "building"
  <2> DEFINE rows == ledger["full"].rows
  <2>1. /\ Attempted(rows) = Ids /\ LatestFailed(rows) = exclusions
        /\ merged' = LastLabels(rows)
    BY <1>3
  <2>2. \A s \in Ids : /\ rows[s] # <<>> /\ merged'[s] = rows[s][Len(rows[s])]
                       /\ merged'[s] = Failed => s \notin Labelable
    BY <2>1 DEF Attempted, LatestFailed, LastLabels, RestoreInv
  <2>3. MergedIsLast'
    <3>1. merged' \in [Ids -> Row]
      <4>1. rows \in [Ids -> Seq(Row)]
        BY DEF RestoreInv, LedgerInv, Books, Ledgers
      <4> HIDE DEF rows
      <4>2. \A s \in Ids : rows[s][Len(rows[s])] \in Row
        BY <2>2, <4>1
      <4> QED BY <2>1, <4>2 DEF LastLabels
    <3>2. UNCHANGED ledger
      BY DEF ledgerVars
    <3> HIDE DEF rows
    <3>3. \A s \in Ids : /\ ledger'["full"].rows[s] # <<>>
                         /\ ledger'["full"].rows[s][Len(ledger'["full"].rows[s])] = merged'[s]
                         /\ merged'[s] = Failed => s \notin Labelable
      BY <2>2, <3>2 DEF rows
    <3> QED BY <3>1, <3>3 DEF MergedIsLast
  <2>4. merged # None => merged' = merged
    <3>1. ASSUME merged # None PROVE merged' = merged
      <4>1. merged \in [Ids -> Row]
        BY <3>1 DEF RestoreInv, MergedIsLast
      <4>2. \A s \in Ids : merged[s] = rows[s][Len(rows[s])]
        BY <3>1 DEF RestoreInv, MergedIsLast
      <4>3. merged' = [s \in Ids |-> rows[s][Len(rows[s])]]
        BY <2>1 DEF LastLabels
      <4> HIDE DEF rows
      <4>4. [s \in Ids |-> rows[s][Len(rows[s])]] = [s \in Ids |-> merged[s]]
        BY <4>2
      <4> QED BY <4>1, <4>3, <4>4
    <3> QED BY <3>1
  <2>5. ManifestMatchesItsLabels'
    BY <2>4 DEF RestoreInv, ManifestMatchesItsLabels, artifacts
  <2>6. BuildIsOfMerged'
    BY <1>3 DEF BuildIsOfMerged
  <2> QED BY <1>1, <2>3, <2>5, <2>6 DEF RestoreInv
<1> QED BY <1>2, <1>3

(* A build makes the files of the merged labels, one after the other, and   *)
(* one that fails leaves none of its own.                                  *)
LEMMA BuildFits ==
  ASSUME RestoreInv,
         Build \/ WriteManifest \/ ReplaceSidecar \/ ReplaceManifest \/ BuildFails
  PROVE  RestoreInv'
<1>1. LedgerInv' /\ AnswersFit'
  BY LedgerStaysPut DEF Build, WriteManifest, ReplaceSidecar, ReplaceManifest, BuildFails,
     ledgerVars
<1>2. UNCHANGED <<ledger, exclusions, merged>>
  BY DEF Build, WriteManifest, ReplaceSidecar, ReplaceManifest, BuildFails, ledgerVars
<1>3. MergedIsLast' /\ exclusions' \subseteq Ids \ Labelable
  BY <1>2 DEF RestoreInv, MergedIsLast
<1>4. BuildIsOfMerged' /\ ManifestMatchesItsLabels'
  <2>1. CASE Build
    BY <2>1, <1>2 DEF Build, Goes, RestoreInv, BuildIsOfMerged, ManifestMatchesItsLabels
  <2>2. CASE WriteManifest
    BY <2>2, <1>2 DEF WriteManifest, Goes, RestoreInv, BuildIsOfMerged, ManifestMatchesItsLabels
  <2>3. CASE ReplaceSidecar
    BY <2>3, <1>2 DEF ReplaceSidecar, Goes, RestoreInv, BuildIsOfMerged, ManifestMatchesItsLabels
  <2>4. CASE ReplaceManifest
    BY <2>4, <1>2 DEF ReplaceManifest, Goes, RestoreInv, BuildIsOfMerged, ManifestMatchesItsLabels
  <2>5. CASE BuildFails
    BY <2>5, <1>2 DEF BuildFails, Goes, RestoreInv, BuildIsOfMerged, ManifestMatchesItsLabels
  <2> QED BY <2>1, <2>2, <2>3, <2>4, <2>5 DEF RestoreInv
<1> QED BY <1>1, <1>3, <1>4 DEF RestoreInv

(* Every step of the restore, and every kill of it, keeps the invariant.    *)
LEMMA RestoreKeepsInv ==
  ASSUME LedgerAssumption, RestoreInv, [RestoreNext]_restoreVars
  PROVE  RestoreInv'
<1>1. CASE MoveRelease \/ LinkRelease \/ UnpackSource \/ RebuildSample \/ RestoreRestarts
           \/ RestoreKilled \/ UNCHANGED restoreVars
  <2>1. UNCHANGED <<ledger, replayer, campaign, exclusions, merged, artifacts>>
    BY <1>1 DEF MoveRelease, LinkRelease, UnpackSource, RebuildSample, RestoreRestarts,
       RestoreKilled, restoreVars, ledgerVars, directory
  <2>2. restoreStep' = restoreStep
           \/ restoreStep' \notin {"sidecar.tmp", "manifest.tmp", "sidecar"}
    BY <1>1 DEF MoveRelease, LinkRelease, UnpackSource, RebuildSample, RestoreRestarts,
       RestoreKilled, restoreVars, Goes
  <2> QED BY <2>1, <2>2, LedgerStaysPut, FilesStayPut DEF RestoreInv
<1>2. CASE Exclude
  <2>1. UNCHANGED <<ledger, replayer, campaign, merged, artifacts>>
    BY <1>2 DEF Exclude, ledgerVars
  <2>2. exclusions' \subseteq Ids \ Labelable
    BY <1>2 DEF Exclude, RestoreInv, LatestFailed, Attempted
  <2>3. restoreStep' \notin {"sidecar.tmp", "manifest.tmp", "sidecar"}
    BY <1>2 DEF Exclude, Goes
  <2> QED BY <2>1, <2>2, <2>3, LedgerStaysPut, FilesStayPut
<1>3. CASE ReplaySteps /\ UNCHANGED <<restoreStep, directory>>
  BY <1>3, RepairFits
<1>4. CASE ReplayKilled /\ UNCHANGED <<restoreStep, directory>>
  BY <1>4, RepairFits
<1> QED BY <1>1, <1>2, <1>3, <1>4, RepairTurns, MergeFits, BuildFits
        DEF RestoreNext, RestoreWork

(* The invariant holds in every reachable state. *)
THEOREM RestoreInvariant == RestoreSpec => []RestoreInv
<1>1. ASSUME RestoreInit PROVE RestoreInv
  <2> USE <1>1 DEF RestoreInit
  <2>1. PICK failed \in SUBSET Ids :
          ledger = [l \in Ledgers |->
              IF l # "full" THEN EmptyLedger
              ELSE [rows |-> [s \in Ids |->
                                IF s \in failed \/ s \notin Labelable THEN <<Failed>>
                                ELSE <<CHOOSE n \in Lengths : TRUE>>],
                    tail |-> "whole"]]
    OBVIOUS
  <2>2. PICK n \in Lengths : n = CHOOSE k \in Lengths : TRUE
    BY LedgerAssumption DEF LedgerAssumption
  <2> DEFINE rows == [s \in Ids |-> IF s \in failed \/ s \notin Labelable
                                    THEN <<Failed>> ELSE <<n>>]
  <2>3. /\ ledger["pilot"] = EmptyLedger
        /\ ledger \in [Ledgers -> {EmptyLedger, [rows |-> rows, tail |-> "whole"]}]
    BY <2>1, <2>2 DEF Ledgers
  <2>4. NoRows \in [Ids -> Seq(Row)] /\ EmptyLedger \in Books
        /\ \A s \in Ids : ~ Completed(EmptyLedger.rows, s)
    BY DEF NoRows, EmptyLedger, Books, Completed
  <2>5. \A r \in Row : <<r>> \in Seq(Row)
    OBVIOUS
  <2>6. Failed \in Row /\ n \in Row
    BY DEF Row
  <2>7. rows \in [Ids -> Seq(Row)]
    BY <2>5, <2>6
  <2> HIDE DEF rows
  <2>8. Idle \in Replayers /\ Idle.step = "idle" /\ AnswersFit
    <3>1. Idle.target = "full"
      BY DEF Idle
    <3> QED BY <3>1, IdleIsAReplayer, LedgerAssumption
            DEF AnswersFit, LedgerAssumption, Unanswered
  <2>9. LedgerInv
    <3>1. [rows |-> rows, tail |-> "whole"] \in Books
      BY <2>7 DEF Books
    <3>2. ledger \in [Ledgers -> Books]
      BY <2>3, <2>4, <3>1
    <3>3. PilotIsCarriedOver
      BY <2>3, <2>4 DEF PilotIsCarriedOver
    <3> QED BY <2>8, <3>2, <3>3 DEF LedgerInv, PendingIsUnlabelled, ReplayIsTheStages
  <2> QED BY <2>8, <2>9 DEF RestoreInv, MergedIsLast, BuildIsOfMerged,
             ManifestMatchesItsLabels
<1> QED BY <1>1, RestoreKeepsInv, LedgerAssumption, PTL DEF RestoreSpec

(* However often a restore is killed, fails or is run again, its manifest is *)
(* beside the sidecar and the labels it was built from.                     *)
THEOREM ManifestFitsItsLabels == RestoreSpec => []ManifestMatchesItsLabels
<1>1. RestoreInv => ManifestMatchesItsLabels
  BY DEF RestoreInv
<1> QED BY <1>1, RestoreInvariant, PTL

(* The repair of a restore asks for no label the ledger has, however often   *)
(* the restore is run.                                                     *)
THEOREM RepairAsksForNoLabelAgain == RestoreSpec => NoLabelIsAskedForAgain
<1>1. ASSUME RestoreInv, [RestoreNext]_restoreVars, NEW s \in Ids,
             replayer.answers[s] = Unanswered, replayer'.answers[s] # Unanswered
      PROVE  \A l \in Inherited(replayer.target) : ~ Completed(ledger[l].rows, s)
  <2>1. LedgerInv
    BY <1>1 DEF RestoreInv
  <2>2. CASE ReplaySteps
    BY <1>1, <2>1, <2>2, AskedIsUnlabelled
  <2>3. CASE RepairStarts \/ RepairEnds \/ ReplayKilled
    <3>1. replayer'.answers = [t \in Ids |-> Unanswered]
      BY <2>3, IdleIsAReplayer DEF RepairStarts, ReplayStarts, RepairEnds, ReplayKilled, Idle
    <3> QED BY <1>1, <2>1, <3>1, AskedIsUnlabelled
  <2>4. CASE replayer' = replayer
    BY <1>1, <2>4
  <2>5. ASSUME \/ MoveRelease \/ LinkRelease \/ UnpackSource \/ RebuildSample
               \/ Exclude \/ Merge \/ RestoreRestarts
        PROVE  replayer' = replayer
    BY <2>5 DEF MoveRelease, LinkRelease, UnpackSource, RebuildSample, Exclude, Merge,
       RestoreRestarts, ledgerVars
  <2>6. ASSUME \/ Build \/ WriteManifest \/ ReplaceSidecar \/ ReplaceManifest
               \/ BuildFails \/ RestoreKilled \/ UNCHANGED restoreVars
        PROVE  replayer' = replayer
    BY <2>6 DEF Build, WriteManifest, ReplaceSidecar, ReplaceManifest, BuildFails,
       RestoreKilled, restoreVars, ledgerVars
  <2> QED BY <1>1, <2>2, <2>3, <2>4, <2>5, <2>6 DEF RestoreNext, RestoreWork
<1>2. RestoreInv /\ [RestoreNext]_restoreVars =>
         [\A s \in Ids :
            replayer.answers[s] = Unanswered /\ replayer'.answers[s] # Unanswered =>
                \A l \in Inherited(replayer.target) : ~ Completed(ledger[l].rows, s)]_ledgerVars
  BY <1>1
<1> QED BY <1>2, RestoreInvariant, PTL DEF RestoreSpec, NoLabelIsAskedForAgain
=============================================================================
