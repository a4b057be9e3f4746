-------------------------- MODULE MatrixCell_proofs --------------------------
(***************************************************************************)
(* What the runner leaves on the disk can be resumed, an accepted cell has  *)
(* the evidence it needs and no measurement is ever replaced, for every     *)
(* number of repeats, every tolerance, and whatever is cut off where.       *)
(***************************************************************************)
EXTENDS MatrixCell, TLAPS

(* A replay that has ended is of a repeat that has no record, and its        *)
(* samples are there once it says so.                                      *)
ReplayIsNew ==
    replaying # NoReplay =>
        /\ driver = "replaying"
        /\ records[replaying.repeat] = NoRecord
        /\ replaying.sampled => Fingerprint(replaying.repeat, replaying.record) \in samples

(* What the output reports is what is recorded. *)
OutputIsRecorded == \A r \in Repeats : output[r] # NoRecord => output[r] = records[r]

(* A driver that got past its start found an output that is not complete.   *)
RunIsNeeded ==
    driver \in {"prepared", "registered", "launching", "launched", "replaying"}
        => ~OutputComplete

(* The files of an attempt are there when it is judged. *)
EvidenceIsGathered ==
    /\ driver \in {"launched", "replaying", "replayed", "stopped"} => source.log
    /\ driver \in {"judging", "marked"} => attempt.log /\ attempt.order # "missing"

(* What the driver is about to accept: only the trap may have undone the    *)
(* mark it has just made.                                                  *)
MarkedIsBacked ==
    driver = "marked" =>
        /\ OutputComplete
        /\ scheduler = "custom" => attempt.order = "full"
        /\ attempt.status = "complete" \/ (trapped /\ attempt.status = "failed")

VerdictIsOfTheLast == verdict # "none" => driver = "idle"

CellInv ==
    /\ TypeOK /\ RecordsHaveTheirSamples
    /\ ReplayIsNew /\ OutputIsRecorded /\ RunIsNeeded
    /\ EvidenceIsGathered /\ MarkedIsBacked /\ VerdictIsOfTheLast
    /\ AcceptedCellIsBacked

(* The runner's exit code, the driver and the traps ask only the output     *)
(* whether it is complete.                                                 *)
LEMMA SameOutputSameAnswer ==
  ASSUME UNCHANGED output
  PROVE  OutputComplete' <=> OutputComplete
BY DEF OutputComplete, FailedRequests

(* A complete output reports exactly the records. *)
LEMMA CompleteOutputIsTheRecords ==
  ASSUME TypeOK, OutputIsRecorded, OutputComplete
  PROVE  output = records
BY DEF TypeOK, OutputIsRecorded, OutputComplete

(* The cell has nothing to begin with. *)
LEMMA CellInit ==
  ASSUME CellAssumption, Init
  PROVE  CellInv
<1> USE DEF Init, NoOutput, NoReplay, NoAttempt, NoSource, NoRecord
<1>1. TypeOK
  <2>1. NoOutput \in [Repeats -> Record \cup {NoRecord}]
    OBVIOUS
  <2>2. NoSource \in [order : {"empty", "full"}, log : BOOLEAN]
    OBVIOUS
  <2> QED
    <3> HIDE DEF NoOutput, NoReplay, NoAttempt, NoSource, NoRecord
    <3>1. active \in BOOLEAN /\ trapped \in BOOLEAN /\ disturbed \in BOOLEAN
      BY Zenon
    <3> QED BY <2>1, <2>2, <3>1 DEF TypeOK
<1>2. RecordsHaveTheirSamples /\ OutputIsRecorded
  BY DEF RecordsHaveTheirSamples, OutputIsRecorded
<1>3. ReplayIsNew /\ RunIsNeeded /\ EvidenceIsGathered
      /\ MarkedIsBacked /\ VerdictIsOfTheLast /\ AcceptedCellIsBacked
  BY DEF ReplayIsNew, RunIsNeeded, EvidenceIsGathered, MarkedIsBacked,
         VerdictIsOfTheLast, AcceptedCellIsBacked
<1> QED BY <1>1, <1>2, <1>3 DEF CellInv

(* A driver accepts a cell it finds complete only with its evidence. *)
LEMMA StartKeeps == ASSUME CellInv, Start PROVE CellInv'
<1> USE DEF Start, disk
<1>1. TypeOK'
  <2>1. trapped' \in BOOLEAN
    BY Zenon
  <2> QED BY <2>1 DEF CellInv, TypeOK
<1>2. RecordsHaveTheirSamples' /\ OutputIsRecorded'
  BY DEF CellInv, RecordsHaveTheirSamples, OutputIsRecorded, Fingerprint
<1>3. ReplayIsNew'
  BY DEF CellInv, ReplayIsNew, Fingerprint
<1>4. RunIsNeeded'
  BY SameOutputSameAnswer DEF CellInv, RunIsNeeded
<1>5. EvidenceIsGathered' /\ MarkedIsBacked' /\ VerdictIsOfTheLast'
  BY DEF CellInv, EvidenceIsGathered, MarkedIsBacked, VerdictIsOfTheLast
<1>6. ASSUME verdict' = "accepted" PROVE AcceptedCellIsBacked'
  <2>1. OutputComplete /\ EvidenceComplete
    BY <1>6
  <2>2. output = records
    BY <2>1, CompleteOutputIsTheRecords DEF CellInv
  <2>3. \A r \in Repeats : Fingerprint(r, output[r]) \in samples
    BY <2>1, <2>2 DEF CellInv, RecordsHaveTheirSamples, OutputComplete
  <2>4. \E a \in manifest :
            /\ a.status = "complete" /\ a.log /\ a.order # "missing"
            /\ scheduler = "custom" => a.order = "full"
    BY <2>1 DEF EvidenceComplete
  <2> QED BY <2>2, <2>3, <2>4 DEF AcceptedCellIsBacked, Fingerprint
<1>7. AcceptedCellIsBacked'
  BY <1>6 DEF AcceptedCellIsBacked
<1> QED BY <1>1, <1>2, <1>3, <1>4, <1>5, <1>7 DEF CellInv

(* The driver's steps from the registration of the attempt to the start of *)
(* the runner.                                                             *)
LEMMA DriverKeeps ==
  ASSUME CellInv, Register \/ Activate \/ Launch \/ StartRunner \/ StopEngine
  PROVE  CellInv'
<1> USE DEF Register, Activate, Launch, StartRunner, StopEngine, disk, history
<1>1. TypeOK'
  <2>1. Registered \in Attempts
    BY DEF Registered, Attempts
  <2>2. [source EXCEPT !.log = TRUE] \in [order : {"empty", "full"}, log : BOOLEAN]
    BY DEF CellInv, TypeOK
  <2>3. CASE Register
    BY <2>1, <2>3 DEF CellInv, TypeOK
  <2>4. CASE Activate
    BY <2>4 DEF CellInv, TypeOK
  <2>5. CASE Launch
    BY <2>2, <2>5 DEF CellInv, TypeOK
  <2>6. CASE StartRunner \/ StopEngine
    BY <2>6 DEF CellInv, TypeOK
  <2> QED BY <2>3, <2>4, <2>5, <2>6
<1>2. RecordsHaveTheirSamples' /\ OutputIsRecorded'
  BY DEF CellInv, RecordsHaveTheirSamples, OutputIsRecorded, Fingerprint
<1>3. ReplayIsNew'
  BY DEF CellInv, ReplayIsNew, Fingerprint
<1>4. RunIsNeeded'
  BY SameOutputSameAnswer DEF CellInv, RunIsNeeded
<1>5. EvidenceIsGathered' /\ MarkedIsBacked'
  BY DEF CellInv, EvidenceIsGathered, MarkedIsBacked, TypeOK
<1>6. VerdictIsOfTheLast' /\ AcceptedCellIsBacked'
  BY DEF CellInv, VerdictIsOfTheLast, AcceptedCellIsBacked
<1> QED BY <1>1, <1>2, <1>3, <1>4, <1>5, <1>6 DEF CellInv

(* A repeat that is replayed has no record yet. *)
LEMMA ReplayKeeps ==
  ASSUME CellInv, NEW r \in Repeats, Replay(r)
  PROVE  CellInv'
<1> USE DEF Replay, disk, history
<1>1. TypeOK'
  BY DEF CellInv, TypeOK
<1>2. RecordsHaveTheirSamples' /\ OutputIsRecorded'
  BY DEF CellInv, RecordsHaveTheirSamples, OutputIsRecorded, Fingerprint
<1>3. ReplayIsNew'
  BY DEF CellInv, ReplayIsNew
<1>4. RunIsNeeded'
  BY SameOutputSameAnswer DEF CellInv, RunIsNeeded
<1>5. EvidenceIsGathered' /\ MarkedIsBacked'
  BY DEF CellInv, EvidenceIsGathered, MarkedIsBacked, TypeOK
<1>6. VerdictIsOfTheLast' /\ AcceptedCellIsBacked'
  BY DEF CellInv, VerdictIsOfTheLast, AcceptedCellIsBacked
<1> QED BY <1>1, <1>2, <1>3, <1>4, <1>5, <1>6 DEF CellInv

(* The samples of a replay are written before its record.                  *)
LEMMA WriteSamplesKeeps == ASSUME CellInv, WriteSamples PROVE CellInv'
<1> USE DEF WriteSamples, history
<1>1. replaying \in [repeat : Repeats, record : Record, sampled : BOOLEAN]
  BY DEF CellInv, TypeOK
<1>2. TypeOK'
  <2>1. Fingerprint(replaying.repeat, replaying.record) \in Repeats \X Failures
    BY <1>1 DEF Fingerprint, Record
  <2>2. samples' \subseteq Repeats \X Failures
    BY <2>1 DEF CellInv, TypeOK
  <2>3. replaying' \in [repeat : Repeats, record : Record, sampled : BOOLEAN]
    BY <1>1
  <2> QED BY <2>2, <2>3 DEF CellInv, TypeOK
<1>3. RecordsHaveTheirSamples' /\ OutputIsRecorded'
  BY DEF CellInv, RecordsHaveTheirSamples, OutputIsRecorded, Fingerprint
<1>4. ReplayIsNew'
  BY <1>1 DEF CellInv, ReplayIsNew, Fingerprint
<1>5. RunIsNeeded'
  BY SameOutputSameAnswer DEF CellInv, RunIsNeeded
<1>6. EvidenceIsGathered' /\ MarkedIsBacked' /\ VerdictIsOfTheLast'
  BY DEF CellInv, ReplayIsNew, EvidenceIsGathered, MarkedIsBacked, VerdictIsOfTheLast
<1>7. AcceptedCellIsBacked'
  BY DEF CellInv, AcceptedCellIsBacked, ReplayIsNew, VerdictIsOfTheLast
<1> QED BY <1>2, <1>3, <1>4, <1>5, <1>6, <1>7 DEF CellInv

(* A record is written for a repeat that had none and whose samples are there.*)
LEMMA WriteRecordKeeps == ASSUME CellInv, WriteRecord PROVE CellInv'
<1> USE DEF WriteRecord, history
<1>1. replaying \in [repeat : Repeats, record : Record, sampled : BOOLEAN]
  BY DEF CellInv, TypeOK
<1>2. /\ records[replaying.repeat] = NoRecord
      /\ Fingerprint(replaying.repeat, replaying.record) \in samples
      /\ driver = "replaying"
  BY DEF CellInv, ReplayIsNew
<1>3. \A r \in Repeats :
         records'[r] = IF r = replaying.repeat THEN replaying.record ELSE records[r]
  BY <1>1 DEF CellInv, TypeOK
<1>4. TypeOK'
  BY <1>1 DEF CellInv, TypeOK
<1>5. RecordsHaveTheirSamples'
  BY <1>2, <1>3 DEF CellInv, RecordsHaveTheirSamples, Fingerprint
<1>6. OutputIsRecorded'
  BY <1>2, <1>3 DEF CellInv, OutputIsRecorded
<1>7. RunIsNeeded'
  BY SameOutputSameAnswer DEF CellInv, RunIsNeeded
<1>8. ReplayIsNew' /\ EvidenceIsGathered' /\ MarkedIsBacked' /\ VerdictIsOfTheLast'
  BY <1>2 DEF CellInv, ReplayIsNew, EvidenceIsGathered, MarkedIsBacked, VerdictIsOfTheLast
<1>9. AcceptedCellIsBacked'
  BY <1>2 DEF CellInv, AcceptedCellIsBacked, VerdictIsOfTheLast
<1> QED BY <1>4, <1>5, <1>6, <1>7, <1>8, <1>9 DEF CellInv

(* The output is made of all the records.                                  *)
LEMMA WriteOutputKeeps == ASSUME CellInv, WriteOutput PROVE CellInv'
<1> USE DEF WriteOutput, history
<1>1. TypeOK'
  BY DEF CellInv, TypeOK
<1>2. RecordsHaveTheirSamples' /\ OutputIsRecorded'
  BY DEF CellInv, RecordsHaveTheirSamples, OutputIsRecorded, Fingerprint
<1>3. ReplayIsNew'
  <2>1. replaying = NoReplay
    BY DEF CellInv, TypeOK, ReplayIsNew
  <2> QED BY <2>1 DEF ReplayIsNew, NoReplay
<1>4. RunIsNeeded' /\ EvidenceIsGathered' /\ MarkedIsBacked'
  BY DEF CellInv, RunIsNeeded, EvidenceIsGathered, MarkedIsBacked
<1>5. VerdictIsOfTheLast' /\ AcceptedCellIsBacked'
  BY DEF CellInv, VerdictIsOfTheLast, AcceptedCellIsBacked
<1> QED BY <1>1, <1>2, <1>3, <1>4, <1>5 DEF CellInv

(* An attempt that is archived has the files its vLLM left. *)
LEMMA ArchivedIsAnAttempt ==
  ASSUME TypeOK, NEW s \in {"pending", "failed", "complete"}
  PROVE  /\ Archived(s) \in Attempts
         /\ Archived(s).status = s
         /\ Archived(s).order = source.order /\ Archived(s).log = source.log
BY DEF TypeOK, Archived, Attempts, NoAttempt

(* An attempt that is marked with its status is an attempt. *)
LEMMA MarkedIsAnAttempt ==
  ASSUME TypeOK, NEW s \in {"pending", "failed", "complete"}
  PROVE  /\ [attempt EXCEPT !.status = s] \in Attempts
         /\ [attempt EXCEPT !.status = s].status = s
         /\ [attempt EXCEPT !.status = s].order = attempt.order
         /\ [attempt EXCEPT !.status = s].log = attempt.log
<1>1. CASE attempt \in Attempts
  BY <1>1 DEF Attempts
<1>2. CASE attempt = NoAttempt
  BY <1>2 DEF Attempts, NoAttempt
<1> QED BY <1>1, <1>2 DEF TypeOK

(* The trap marks the attempt failed and leaves the files of an archived one. *)
LEMMA TrappedIsAnAttempt ==
  ASSUME TypeOK
  PROVE  /\ Trapped \in Attempts
         /\ Trapped.status = "failed"
         /\ attempt.order # "missing" =>
               Trapped.order = attempt.order /\ Trapped.log = attempt.log
BY ArchivedIsAnAttempt, MarkedIsAnAttempt DEF Trapped

(* Whatever ends a driver run without accepting the cell. *)
LEMMA ExitKeeps ==
  ASSUME CellInv, NEW a \in Attempts \cup {NoAttempt},
         NEW v \in {"failed", "crashed"}, Exit(a, v),
         UNCHANGED <<scheduler, samples, records, output>>,
         trapped' \in BOOLEAN, disturbed' \in BOOLEAN
  PROVE  CellInv'
<1> USE DEF Exit
<1>1. TypeOK'
  <2>1. NoSource \in [order : {"empty", "full"}, log : BOOLEAN]
    BY DEF NoSource
  <2>2. manifest' \subseteq Attempts
    BY DEF CellInv, TypeOK
  <2>3. active' \in BOOLEAN
    BY Zenon
  <2> QED BY <2>1, <2>2, <2>3 DEF CellInv, TypeOK
<1>2. RecordsHaveTheirSamples' /\ OutputIsRecorded'
  BY DEF CellInv, RecordsHaveTheirSamples, OutputIsRecorded, Fingerprint
<1>3. ReplayIsNew' /\ RunIsNeeded' /\ EvidenceIsGathered' /\ MarkedIsBacked'
  BY DEF ReplayIsNew, RunIsNeeded, EvidenceIsGathered, MarkedIsBacked
<1>4. VerdictIsOfTheLast' /\ AcceptedCellIsBacked'
  BY DEF VerdictIsOfTheLast, AcceptedCellIsBacked
<1> QED BY <1>1, <1>2, <1>3, <1>4 DEF CellInv

(* Collecting gives the attempt the files its vLLM left, or ends the driver. *)
LEMMA CollectKeeps == ASSUME CellInv, Collect PROVE CellInv'
<1> USE DEF Collect, disk, history
<1>1. CASE attempt.order = "missing"
  <2>2. /\ attempt' \in Attempts
        /\ attempt'.order = source.order /\ attempt'.log = source.log
    BY <1>1, ArchivedIsAnAttempt DEF CellInv
  <2>3. TypeOK'
    BY <1>1, <2>2 DEF CellInv, TypeOK
  <2>4. RecordsHaveTheirSamples' /\ OutputIsRecorded'
    BY <1>1 DEF CellInv, RecordsHaveTheirSamples, OutputIsRecorded, Fingerprint
  <2>5. ReplayIsNew'
    BY <1>1 DEF CellInv, ReplayIsNew
  <2>6. RunIsNeeded' /\ MarkedIsBacked'
    BY <1>1 DEF RunIsNeeded, MarkedIsBacked
  <2>7. EvidenceIsGathered'
    BY <1>1, <2>2 DEF CellInv, EvidenceIsGathered, TypeOK
  <2>8. VerdictIsOfTheLast' /\ AcceptedCellIsBacked'
    BY <1>1 DEF CellInv, VerdictIsOfTheLast, AcceptedCellIsBacked
  <2> QED BY <2>3, <2>4, <2>5, <2>6, <2>7, <2>8 DEF CellInv
<1>2. CASE attempt.order # "missing"
  <2>1. /\ attempt \in Attempts \cup {NoAttempt}
        /\ trapped' \in BOOLEAN /\ disturbed' \in BOOLEAN
    BY DEF CellInv, TypeOK
  <2>2. Exit(attempt, "failed") /\ UNCHANGED <<scheduler, samples, records, output>>
    BY <1>2
  <2> QED BY <2>1, <2>2, ExitKeeps
<1> QED BY <1>1, <1>2

(* A judgement of "complete" is about a complete output and an archive.     *)
LEMMA JudgeKeeps == ASSUME CellInv, Judge PROVE CellInv'
<1> DEFINE judged == [attempt EXCEPT !.status = "complete"]
<1>1. CASE Exit([attempt EXCEPT !.status = "failed"], "failed")
  <2>1. trapped' \in BOOLEAN /\ disturbed' \in BOOLEAN
    BY DEF Judge, history, CellInv, TypeOK
  <2> QED BY <1>1, <2>1, ExitKeeps, MarkedIsAnAttempt DEF Judge, CellInv
<1>2. CASE /\ OutputComplete /\ (scheduler = "custom" => attempt.order = "full")
           /\ MarkComplete
  <2> USE DEF Judge, MarkComplete, history
  <2>1. /\ attempt' \in Attempts /\ attempt'.status = "complete"
        /\ attempt'.order = attempt.order /\ attempt'.log = attempt.log
    BY <1>2, MarkedIsAnAttempt DEF CellInv
  <2>2. TypeOK'
    BY <1>2, <2>1 DEF CellInv, TypeOK
  <2>3. RecordsHaveTheirSamples' /\ OutputIsRecorded'
    BY DEF CellInv, RecordsHaveTheirSamples, OutputIsRecorded, Fingerprint
  <2>4. ReplayIsNew' /\ RunIsNeeded'
    BY <1>2 DEF CellInv, ReplayIsNew, RunIsNeeded
  <2>5. EvidenceIsGathered'
    BY <1>2, <2>1 DEF CellInv, EvidenceIsGathered
  <2>6. MarkedIsBacked'
    <3>1. OutputComplete' /\ scheduler' = scheduler
      BY <1>2, SameOutputSameAnswer
    <3> QED BY <1>2, <2>1, <3>1 DEF MarkedIsBacked
  <2>7. VerdictIsOfTheLast' /\ AcceptedCellIsBacked'
    BY <1>2 DEF CellInv, VerdictIsOfTheLast, AcceptedCellIsBacked
  <2> QED BY <2>2, <2>3, <2>4, <2>5, <2>6, <2>7 DEF CellInv
<1> QED BY <1>1, <1>2 DEF Judge

(* What is accepted was judged complete, whatever the trap made of its mark. *)
LEMMA AcceptKeeps == ASSUME CellInv, Accept PROVE CellInv'
<1> USE DEF Accept, Exit, history
<1>1. /\ attempt \in Attempts /\ attempt # NoAttempt
      /\ attempt.log /\ attempt.order # "missing"
      /\ attempt.status = "complete" \/ (trapped /\ attempt.status = "failed")
      /\ scheduler = "custom" => attempt.order = "full"
  BY DEF CellInv, TypeOK, EvidenceIsGathered, MarkedIsBacked, NoAttempt
<1>2. manifest' = manifest \cup {attempt}
  BY <1>1
<1>3. TypeOK'
  <2>1. NoSource \in [order : {"empty", "full"}, log : BOOLEAN]
    BY DEF NoSource
  <2>2. manifest' \subseteq Attempts
    BY <1>1, <1>2 DEF CellInv, TypeOK
  <2>3. active' \in BOOLEAN
    BY Zenon
  <2> QED BY <2>1, <2>2, <2>3 DEF CellInv, TypeOK
<1>4. RecordsHaveTheirSamples' /\ OutputIsRecorded'
  BY DEF CellInv, RecordsHaveTheirSamples, OutputIsRecorded, Fingerprint
<1>5. ReplayIsNew' /\ RunIsNeeded' /\ EvidenceIsGathered' /\ MarkedIsBacked'
      /\ VerdictIsOfTheLast'
  BY DEF ReplayIsNew, RunIsNeeded, EvidenceIsGathered, MarkedIsBacked, VerdictIsOfTheLast
<1>6. OutputComplete /\ output = records
  BY CompleteOutputIsTheRecords DEF CellInv, MarkedIsBacked
<1>7. \A r \in Repeats : Fingerprint(r, output[r]) \in samples
  BY <1>6 DEF CellInv, RecordsHaveTheirSamples, OutputComplete, Fingerprint
<1>8. AcceptedCellIsBacked'
  BY <1>1, <1>2, <1>6, <1>7 DEF AcceptedCellIsBacked, Fingerprint
<1> QED BY <1>3, <1>4, <1>5, <1>8 DEF CellInv

(* A launch that fails, or an engine that does not stop, ends the driver run *)
(* with the attempt archived.                                              *)
LEMMA GivingUpKeeps == ASSUME CellInv, LaunchFails \/ EngineStays PROVE CellInv'
<1>1. trapped' \in BOOLEAN /\ disturbed' \in BOOLEAN
  <2>1. trapped \in BOOLEAN /\ disturbed \in BOOLEAN
    BY DEF CellInv, TypeOK
  <2> QED BY <2>1, Zenon DEF LaunchFails, EngineStays, history
<1>2. Left \in Attempts \cup {NoAttempt}
  BY TrappedIsAnAttempt DEF Left, CellInv, TypeOK
<1>3. PICK a \in {Left, NoAttempt} : Exit(a, "failed")
  BY DEF LaunchFails, EngineStays
<1>4. UNCHANGED <<scheduler, samples, records, output>>
  BY DEF LaunchFails, EngineStays
<1> QED BY <1>1, <1>2, <1>3, <1>4, ExitKeeps

(* A crash ends the driver run with the attempt as it stands.              *)
LEMMA CrashKeeps == ASSUME CellInv, Crash PROVE CellInv'
<1>1. attempt \in Attempts \cup {NoAttempt}
  BY DEF CellInv, TypeOK
<1>2. trapped' \in BOOLEAN /\ disturbed' \in BOOLEAN
  <2>1. trapped' \in BOOLEAN
    BY DEF Crash, CellInv, TypeOK
  <2> QED BY <2>1, Zenon DEF Crash
<1> QED BY <1>1, <1>2, ExitKeeps DEF Crash

(* A runner that dies leaves the records it wrote.                         *)
LEMMA RunnerDiesKeeps == ASSUME CellInv, RunnerDies PROVE CellInv'
<1> USE DEF RunnerDies, disk
<1>1. TypeOK'
  BY DEF CellInv, TypeOK
<1>2. RecordsHaveTheirSamples' /\ OutputIsRecorded'
  BY DEF CellInv, RecordsHaveTheirSamples, OutputIsRecorded, Fingerprint
<1>3. ReplayIsNew' /\ RunIsNeeded' /\ EvidenceIsGathered' /\ MarkedIsBacked'
  BY DEF CellInv, ReplayIsNew, RunIsNeeded, EvidenceIsGathered, MarkedIsBacked
<1>4. VerdictIsOfTheLast' /\ AcceptedCellIsBacked'
  BY DEF CellInv, VerdictIsOfTheLast, AcceptedCellIsBacked
<1> QED BY <1>1, <1>2, <1>3, <1>4 DEF CellInv

(* The trap archives the attempt, or marks the one that is being judged.   *)
LEMMA InterruptKeeps == ASSUME CellInv, Interrupt PROVE CellInv'
<1> USE DEF Interrupt, disk
<1>1. attempt' \in Attempts
  BY TrappedIsAnAttempt, ArchivedIsAnAttempt DEF CellInv
<1>2. driver \in {"judging", "marked"} =>
         /\ attempt'.order = attempt.order /\ attempt'.log = attempt.log
         /\ attempt'.status = "failed"
  BY TrappedIsAnAttempt DEF CellInv, EvidenceIsGathered
<1>3. TypeOK'
  BY <1>1 DEF CellInv, TypeOK
<1>4. RecordsHaveTheirSamples' /\ OutputIsRecorded'
  BY DEF CellInv, RecordsHaveTheirSamples, OutputIsRecorded, Fingerprint
<1>5. ReplayIsNew'
  BY DEF CellInv, ReplayIsNew, Fingerprint
<1>6. RunIsNeeded'
  BY SameOutputSameAnswer DEF CellInv, RunIsNeeded
<1>7. EvidenceIsGathered'
  BY <1>2 DEF CellInv, EvidenceIsGathered
<1>8. MarkedIsBacked'
  BY <1>2, SameOutputSameAnswer DEF CellInv, MarkedIsBacked
<1>9. VerdictIsOfTheLast'
  BY DEF CellInv, VerdictIsOfTheLast
<1>10. AcceptedCellIsBacked'
  BY DEF CellInv, AcceptedCellIsBacked, Fingerprint
<1> QED BY <1>3, <1>4, <1>5, <1>6, <1>7, <1>8, <1>9, <1>10 DEF CellInv

(* A step of something else changes nothing.                               *)
LEMMA CellStutters == ASSUME CellInv, UNCHANGED vars PROVE CellInv'
<1> USE DEF vars
<1>1. TypeOK'
  BY DEF CellInv, TypeOK
<1>2. RecordsHaveTheirSamples' /\ OutputIsRecorded'
  BY DEF CellInv, RecordsHaveTheirSamples, OutputIsRecorded, Fingerprint
<1>3. RunIsNeeded' /\ MarkedIsBacked'
  BY SameOutputSameAnswer DEF CellInv, RunIsNeeded, MarkedIsBacked
<1>4. ReplayIsNew' /\ EvidenceIsGathered' /\ VerdictIsOfTheLast'
  BY DEF CellInv, ReplayIsNew, EvidenceIsGathered, VerdictIsOfTheLast, Fingerprint
<1>5. AcceptedCellIsBacked'
  BY DEF CellInv, AcceptedCellIsBacked, Fingerprint
<1> QED BY <1>1, <1>2, <1>3, <1>4, <1>5 DEF CellInv

(* Every step keeps the invariant. *)
LEMMA CellNext ==
  ASSUME CellInv, [Next]_vars
  PROVE  CellInv'
<1>1. CASE Run
  BY <1>1, StartKeeps, DriverKeeps, ReplayKeeps, WriteSamplesKeeps, WriteRecordKeeps,
     WriteOutputKeeps, CollectKeeps, JudgeKeeps, AcceptKeeps DEF Run
<1>2. CASE Fault
  BY <1>2, GivingUpKeeps, RunnerDiesKeeps, InterruptKeeps, CrashKeeps DEF Fault
<1>3. CASE UNCHANGED vars
  BY <1>3, CellStutters
<1> QED BY <1>1, <1>2, <1>3 DEF Next

(* The invariant holds in every reachable state.                           *)
THEOREM CellInvariant == Spec => []CellInv
<1>1. Init => CellInv
  BY CellInit, CellAssumption
<1> QED BY <1>1, CellNext, PTL DEF Spec

(* Every variable keeps its type. *)
THEOREM CellTypes == Spec => []TypeOK
<1>1. CellInv => TypeOK
  BY DEF CellInv
<1> QED BY <1>1, CellInvariant, PTL

(* A runner that is cut off anywhere leaves records that can be resumed.     *)
THEOREM EveryRecordHasItsSamples == Spec => []RecordsHaveTheirSamples
<1>1. CellInv => RecordsHaveTheirSamples
  BY DEF CellInv
<1> QED BY <1>1, CellInvariant, PTL

(* No cell is accepted without its samples and its evidence. *)
THEOREM AcceptanceIsBacked == Spec => []AcceptedCellIsBacked
<1>1. CellInv => AcceptedCellIsBacked
  BY DEF CellInv
<1> QED BY <1>1, CellInvariant, PTL

(* Resumption never replaces a measurement, nor what a complete cell says.  *)
LEMMA StepKeepsMeasurements ==
  ASSUME CellInv, [Next]_vars
  PROVE  KeepsMeasurements
<1>1. ASSUME WriteRecord PROVE KeepsMeasurements
  <2>1. /\ replaying \in [repeat : Repeats, record : Record, sampled : BOOLEAN]
        /\ records[replaying.repeat] = NoRecord
    BY <1>1 DEF WriteRecord, CellInv, TypeOK, ReplayIsNew
  <2> QED BY <1>1, <2>1 DEF WriteRecord, CellInv, TypeOK, KeepsMeasurements
<1>2. ASSUME WriteOutput PROVE KeepsMeasurements
  BY <1>2 DEF WriteOutput, CellInv, RunIsNeeded, KeepsMeasurements
<1>3. ASSUME UNCHANGED <<records, output>> PROVE KeepsMeasurements
  BY <1>3 DEF KeepsMeasurements
<1>4. Next => WriteRecord \/ WriteOutput \/ UNCHANGED <<records, output>>
  BY DEF Next, Run, Fault, Start, Register, Activate, Launch, StartRunner, Replay,
         WriteSamples, StopEngine, Collect, Judge, Accept, LaunchFails, RunnerDies,
         EngineStays, Interrupt, Crash, disk
<1>5. UNCHANGED vars => UNCHANGED <<records, output>>
  BY DEF vars
<1> QED BY <1>1, <1>2, <1>3, <1>4, <1>5

(* The theorem for whole behaviours. *)
THEOREM NothingIsMeasuredTwice == Spec => MeasurementsAreKept
<1>1. CellInv /\ [Next]_vars => [KeepsMeasurements]_vars
  BY StepKeepsMeasurements
<1> QED BY <1>1, CellInvariant, PTL DEF Spec, MeasurementsAreKept
-----------------------------------------------------------------------------
(* What holds as long as nothing was cut off.  An order log is written by a  *)
(* replay, so what an output gained over the one before was measured by an  *)
(* attempt whose order log is full.                                        *)
NothingIsHalfDone ==
    /\ \A a \in manifest : a.order # "missing" /\ a.log
    /\ driver # "replaying" => records = output
    /\ driver = "replaying" /\ scheduler = "custom"
          /\ (replaying # NoReplay \/ records # output) => source.order = "full"
    /\ driver \in {"replayed", "stopped"} /\ OutputComplete /\ scheduler = "custom"
          => source.order = "full"
    /\ driver \in {"registered", "launching", "launched", "replaying", "replayed",
                  "stopped"} => attempt = Registered
    /\ driver \in {"launching", "launched"} => active
    /\ driver = "judging" /\ OutputComplete /\ scheduler = "custom"
          => attempt.order = "full"
    /\ driver = "marked" => attempt.status = "complete"
    /\ driver = "idle" /\ OutputComplete /\ scheduler # "StockFCFSShim"
          => EvidenceComplete

ResumeInv ==
    /\ ~disturbed => NothingIsHalfDone
    /\ UndisturbedCellIsResumable

(* The driver's steps up to the start of the runner leave the output, the    *)
(* records and the earlier attempts alone.                                 *)
LEMMA BeforeTheReplayIsResumable ==
  ASSUME CellInv, ResumeInv, Start \/ Register \/ Activate \/ Launch \/ StartRunner
  PROVE  ResumeInv'
<1> USE DEF Start, Register, Activate, Launch, StartRunner, disk, history
<1>1. UNCHANGED <<scheduler, records, output, manifest, disturbed>>
  OBVIOUS
<1>2. OutputComplete' <=> OutputComplete
  BY <1>1, SameOutputSameAnswer
<1>3. EvidenceComplete' <=> EvidenceComplete
  BY <1>1 DEF EvidenceComplete
<1>4. RecordsHaveTheirSamples
  BY DEF CellInv
<1>5. ~disturbed' => NothingIsHalfDone'
  <2>1. ASSUME ~disturbed, Start PROVE NothingIsHalfDone'
    BY <1>1, <1>2, <1>3, <2>1 DEF ResumeInv, NothingIsHalfDone
  <2>2. ASSUME ~disturbed, Register \/ Activate \/ Launch PROVE NothingIsHalfDone'
    BY <1>1, <1>2, <2>2 DEF ResumeInv, NothingIsHalfDone
  <2>3. ASSUME ~disturbed, StartRunner PROVE NothingIsHalfDone'
    <3>1. replaying = NoReplay /\ driver' = "replaying"
      BY <1>4, <2>3 DEF CellInv, ReplayIsNew, RecordsHaveTheirSamples
    <3> QED BY <1>1, <2>3, <3>1 DEF ResumeInv, NothingIsHalfDone
  <2> QED BY <1>1, <2>1, <2>2, <2>3
<1>6. UndisturbedCellIsResumable'
  BY <1>1 DEF ResumeInv, NothingIsHalfDone, UndisturbedCellIsResumable
<1> QED BY <1>5, <1>6 DEF ResumeInv

(* A replay fills the order log of a custom scheduler. *)
LEMMA RunnerIsResumable ==
  ASSUME CellInv, ResumeInv,
         (\E r \in Repeats : Replay(r)) \/ WriteSamples \/ WriteRecord
  PROVE  ResumeInv'
<1> USE DEF Replay, WriteSamples, WriteRecord, disk, history
<1>1. /\ UNCHANGED <<scheduler, output, manifest, attempt, active, driver, verdict,
                      disturbed>>
      /\ driver = "replaying"
  BY DEF CellInv, ReplayIsNew
<1>2. ASSUME ~disturbed, scheduler = "custom" PROVE source'.order = "full"
  <2>1. CASE \E r \in Repeats : Replay(r)
    <3>1. ~EngineStopped
      BY <1>1, <1>2 DEF ResumeInv, NothingIsHalfDone, EngineStopped, Registered
    <3> QED BY <1>2, <2>1, <3>1 DEF CellInv, TypeOK
  <2>2. CASE WriteSamples \/ WriteRecord
    BY <1>1, <1>2, <2>2 DEF ResumeInv, NothingIsHalfDone
  <2> QED BY <2>1, <2>2
<1>3. ~disturbed' => NothingIsHalfDone'
  BY <1>1, <1>2 DEF ResumeInv, NothingIsHalfDone
<1>4. UndisturbedCellIsResumable'
  BY <1>1 DEF ResumeInv, UndisturbedCellIsResumable
<1> QED BY <1>3, <1>4 DEF ResumeInv

(* An output that became complete reports a replay of this attempt. *)
LEMMA OutputIsResumable ==
  ASSUME CellInv, ResumeInv, WriteOutput
  PROVE  ResumeInv'
<1> USE DEF WriteOutput, history
<1>1. ~OutputComplete
  BY DEF CellInv, RunIsNeeded
<1>2. records = output => UNCHANGED output
  OBVIOUS
<1>3. OutputComplete' => records # output
  BY <1>1, <1>2, SameOutputSameAnswer
<1>4. ~disturbed' => NothingIsHalfDone'
  BY <1>3 DEF ResumeInv, NothingIsHalfDone
<1>5. UndisturbedCellIsResumable'
  BY DEF ResumeInv, UndisturbedCellIsResumable
<1> QED BY <1>4, <1>5 DEF ResumeInv

(* The attempt's order log is what its vLLM wrote. *)
LEMMA CollectIsResumable ==
  ASSUME CellInv, ResumeInv, StopEngine \/ Collect
  PROVE  ResumeInv'
<1> USE DEF StopEngine, Collect, disk, history
<1>1. CASE disturbed
  BY <1>1 DEF Exit, ResumeInv, UndisturbedCellIsResumable
<1>2. CASE ~disturbed /\ StopEngine
  <2>1. OutputComplete' <=> OutputComplete
    BY <1>2, SameOutputSameAnswer
  <2>2. NothingIsHalfDone'
    BY <1>2, <2>1 DEF ResumeInv, NothingIsHalfDone
  <2> QED BY <1>2, <2>2 DEF ResumeInv, UndisturbedCellIsResumable
<1>3. CASE ~disturbed /\ Collect
  <2>1. attempt.order = "missing"
    BY <1>3 DEF ResumeInv, NothingIsHalfDone, Registered
  <2>2. /\ attempt' = Archived("pending") /\ driver' = "judging"
        /\ UNCHANGED <<disk, active, source, replaying, status, verdict, disturbed>>
    BY <1>3, <2>1
  <2>3. OutputComplete' <=> OutputComplete
    BY <2>2, SameOutputSameAnswer
  <2>4. attempt'.order = source.order
    BY <2>2, ArchivedIsAnAttempt DEF CellInv
  <2>5. NothingIsHalfDone'
    BY <1>3, <2>2, <2>3, <2>4 DEF ResumeInv, NothingIsHalfDone
  <2> QED BY <2>2, <2>5 DEF ResumeInv, UndisturbedCellIsResumable
<1> QED BY <1>1, <1>2, <1>3

(* An attempt that ends without completing the cell leaves both its files.  *)
LEMMA FailedAttemptIsResumable ==
  ASSUME CellInv, ResumeInv, ~OutputComplete, records = output,
         NEW a \in Attempts, a.order # "missing", a.log, Exit(a, "failed"),
         UNCHANGED <<scheduler, samples, records, output, disturbed>>
  PROVE  ResumeInv'
<1>1. ~OutputComplete'
  BY SameOutputSameAnswer
<1>2. ~disturbed' => NothingIsHalfDone'
  BY <1>1 DEF Exit, ResumeInv, NothingIsHalfDone
<1>3. UndisturbedCellIsResumable'
  BY DEF Exit, UndisturbedCellIsResumable
<1> QED BY <1>2, <1>3 DEF ResumeInv

(* A launch that fails happens to a cell that is not complete. *)
LEMMA LaunchFailsIsResumable ==
  ASSUME CellInv, ResumeInv, LaunchFails
  PROVE  ResumeInv'
<1> USE DEF LaunchFails, history
<1>1. CASE disturbed
  BY <1>1 DEF ResumeInv, UndisturbedCellIsResumable
<1>2. CASE ~disturbed
  <2>1. ~OutputComplete /\ source.log /\ source.order # "missing" /\ records = output
    BY <1>2 DEF CellInv, RunIsNeeded, EvidenceIsGathered, TypeOK,
                ResumeInv, NothingIsHalfDone
  <2>2. active /\ attempt.order = "missing"
    BY <1>2 DEF ResumeInv, NothingIsHalfDone, Registered
  <2>3. Left = Archived("failed")
    BY <2>2 DEF Left, Trapped
  <2>4. /\ Archived("failed") \in Attempts
        /\ Archived("failed").order # "missing" /\ Archived("failed").log
    BY <2>1, ArchivedIsAnAttempt DEF CellInv
  <2> QED BY <2>1, <2>3, <2>4, FailedAttemptIsResumable
<1> QED BY <1>1, <1>2

(* An engine that does not stop before the attempt leaves nothing behind.    *)
LEMMA EngineStaysIsResumable ==
  ASSUME CellInv, ResumeInv, EngineStays
  PROVE  ResumeInv'
<1> USE DEF EngineStays, Exit
<1>1. CASE driver = "replayed"
  <2>1. disturbed'
    BY <1>1
  <2> QED BY <2>1 DEF ResumeInv, UndisturbedCellIsResumable
<1>2. CASE driver # "replayed" /\ disturbed
  BY <1>2 DEF ResumeInv, UndisturbedCellIsResumable
<1>3. CASE driver # "replayed" /\ ~disturbed
  <2>1. driver = "prepared" /\ Exit(NoAttempt, "failed") /\ UNCHANGED disturbed
    BY <1>3
  <2>2. ~OutputComplete /\ records = output
    BY <1>3, <2>1 DEF CellInv, RunIsNeeded, ResumeInv, NothingIsHalfDone
  <2>3. ~OutputComplete'
    BY <2>2, SameOutputSameAnswer
  <2>4. manifest' = manifest
    BY <2>1
  <2>5. NothingIsHalfDone'
    BY <1>3, <2>1, <2>2, <2>3, <2>4 DEF ResumeInv, NothingIsHalfDone
  <2> QED BY <2>1, <2>5 DEF ResumeInv, UndisturbedCellIsResumable
<1> QED BY <1>1, <1>2, <1>3

(* A complete output is judged complete, as its order log was archived.     *)
LEMMA JudgeIsResumable ==
  ASSUME CellInv, ResumeInv, Judge
  PROVE  ResumeInv'
<1> USE DEF Judge, history
<1>1. CASE disturbed
  BY <1>1 DEF Exit, MarkComplete, ResumeInv, UndisturbedCellIsResumable
<1>2. ASSUME ~disturbed PROVE ResumeInv'
  <2>1. attempt.order # "missing" /\ attempt.log /\ records = output
    BY <1>2 DEF CellInv, EvidenceIsGathered, ResumeInv, NothingIsHalfDone
  <2>2. CASE ~OutputComplete
    <3> DEFINE marked == [attempt EXCEPT !.status = "failed"]
    <3>1. Exit(marked, "failed")
      BY <2>2
    <3>2. /\ marked \in Attempts
          /\ marked.order = attempt.order /\ marked.log = attempt.log
      BY MarkedIsAnAttempt DEF CellInv
    <3> HIDE DEF marked
    <3> QED BY <2>1, <2>2, <3>1, <3>2, FailedAttemptIsResumable
  <2>3. CASE OutputComplete
    <3>1. scheduler = "custom" => attempt.order = "full"
      BY <1>2, <2>3 DEF ResumeInv, NothingIsHalfDone
    <3>2. MarkComplete
      BY <2>3, <3>1
    <3>3. attempt'.status = "complete"
      BY <3>2, MarkedIsAnAttempt DEF MarkComplete, CellInv
    <3>4. NothingIsHalfDone'
      BY <1>2, <2>1, <3>2, <3>3 DEF MarkComplete, ResumeInv, NothingIsHalfDone
    <3>5. UndisturbedCellIsResumable'
      BY <3>2 DEF MarkComplete, ResumeInv, UndisturbedCellIsResumable
    <3> QED BY <3>4, <3>5 DEF ResumeInv
  <2> QED BY <2>2, <2>3
<1> QED BY <1>1, <1>2

(* A completed cell has the evidence the next driver run will ask for. *)
LEMMA AcceptIsResumable ==
  ASSUME CellInv, ResumeInv, Accept
  PROVE  ResumeInv'
<1> USE DEF Accept, Exit, history
<1>1. CASE disturbed
  BY <1>1 DEF ResumeInv, UndisturbedCellIsResumable
<1>2. CASE ~disturbed
  <2>1. /\ attempt # NoAttempt /\ attempt.status = "complete"
        /\ attempt.log /\ attempt.order # "missing"
        /\ scheduler = "custom" => attempt.order = "full"
    BY <1>2 DEF CellInv, EvidenceIsGathered, MarkedIsBacked, NoAttempt,
                ResumeInv, NothingIsHalfDone
  <2>2. manifest' = manifest \cup {attempt}
    BY <2>1
  <2>3. \A a \in manifest' : a.order # "missing" /\ a.log
    BY <1>2, <2>1, <2>2 DEF ResumeInv, NothingIsHalfDone
  <2>4. scheduler # "StockFCFSShim" => EvidenceComplete'
    <3>1. scheduler \in {"stock", "StockFCFSShim", "custom"}
      BY CellAssumption DEF CellInv, TypeOK, CellAssumption
    <3>2. scheduler' = scheduler
      OBVIOUS
    <3> QED BY <2>1, <2>2, <2>3, <3>1, <3>2 DEF EvidenceComplete
  <2>5. records' = output'
    BY <1>2 DEF ResumeInv, NothingIsHalfDone
  <2>6. NothingIsHalfDone'
    BY <2>3, <2>4, <2>5 DEF NothingIsHalfDone
  <2>7. UndisturbedCellIsResumable'
    BY DEF UndisturbedCellIsResumable
  <2> QED BY <2>6, <2>7 DEF ResumeInv
<1> QED BY <1>1, <1>2

(* Every step keeps an undisturbed cell resumable. *)
LEMMA ResumeNext ==
  ASSUME CellInv, ResumeInv, [Next]_vars
  PROVE  ResumeInv'
<1>1. CASE Run
  BY <1>1, BeforeTheReplayIsResumable, RunnerIsResumable, OutputIsResumable,
     CollectIsResumable, JudgeIsResumable, AcceptIsResumable DEF Run
<1>2. CASE RunnerDies \/ Interrupt \/ Crash
  <2>1. disturbed'
    BY <1>2 DEF RunnerDies, Interrupt, Crash
  <2> QED BY <2>1 DEF ResumeInv, UndisturbedCellIsResumable
<1>3. CASE LaunchFails \/ EngineStays
  BY <1>3, LaunchFailsIsResumable, EngineStaysIsResumable
<1>4. CASE UNCHANGED vars
  <2>1. OutputComplete' <=> OutputComplete
    BY <1>4, SameOutputSameAnswer DEF vars
  <2>2. EvidenceComplete' <=> EvidenceComplete
    BY <1>4 DEF vars, EvidenceComplete
  <2>3. NothingIsHalfDone' <=> NothingIsHalfDone
    BY <1>4, <2>1, <2>2 DEF vars, NothingIsHalfDone
  <2> QED BY <1>4, <2>3 DEF vars, ResumeInv, UndisturbedCellIsResumable
<1> QED BY <1>1, <1>2, <1>3, <1>4 DEF Next, Fault

(* Launches that fail and replays with too many errors, however many, leave  *)
(* a cell the next driver run can accept or go on with.                    *)
THEOREM UndisturbedResumption == Spec => []UndisturbedCellIsResumable
<1>1. Init => CellInv /\ ResumeInv
  <2>1. ASSUME Init PROVE ~OutputComplete
    <3>1. PICK r \in Repeats : TRUE
      BY CellAssumption DEF CellAssumption
    <3> QED BY <2>1, <3>1 DEF Init, NoOutput, OutputComplete
  <2>2. Init => ResumeInv
    BY <2>1 DEF Init, ResumeInv, NothingIsHalfDone, UndisturbedCellIsResumable
  <2> QED BY <2>2, CellInit, CellAssumption
<1>2. CellInv /\ ResumeInv /\ [Next]_vars => CellInv' /\ ResumeInv'
  BY CellNext, ResumeNext
<1>3. ResumeInv => UndisturbedCellIsResumable
  BY DEF ResumeInv
<1> QED BY <1>1, <1>2, <1>3, PTL DEF Spec
=============================================================================
