-------------------------- MODULE ReportingProofs --------------------------
(***************************************************************************)
(* Theorems of Reporting: a report is one step of the pipeline, and what   *)
(* its four queries return stays true of the log, whatever other runs      *)
(* record before the workbook is saved.                                    *)
(***************************************************************************)
EXTENDS Reporting, PipelineProofs

allVars == <<vars, reportVars>>

(***************************************************************************)
(* Refinement of the pipeline.                                             *)
(***************************************************************************)

\* A step of the reporting module is a step of the pipeline or changes
\* nothing that the pipeline has.
LEMMA ReportingStepIsPipelineStep ==
  ASSUME [ReportingNext]_allVars
  PROVE  [Next]_vars
  <1>1. ASSUME NEW r \in Runs, GeneratesReport(r)
        PROVE  [Next]_vars
    <2>1. CASE ReadCandidates(r) \/ ReadTerminal(r) \/ ReadHistory(r) \/ ReadResults(r)
      BY <2>1 DEF ReadCandidates, ReadTerminal, ReadHistory, ReadResults, Reads
    <2>2. CASE SaveWorkbook(r)
      BY <2>2 DEF SaveWorkbook
    <2>3. CASE Deliver(r)
      BY <2>3 DEF Deliver, Next, Progresses
    <2>4. QED
      BY <1>1, <2>1, <2>2, <2>3 DEF GeneratesReport
  <1>2. ASSUME NEW r \in Runs, Works(r) \/ Die(r)
        PROVE  Next
    BY <1>2 DEF Next, Progresses
  <1>3. Environment => Next
    BY DEF Next
  <1>4. UNCHANGED allVars => UNCHANGED vars
    BY DEF allVars
  <1>5. QED
    BY <1>1, <1>2, <1>3, <1>4 DEF ReportingNext

\* Reading, saving and delivering reports, however a delivery ends, adds no
\* behaviour to the pipeline: every theorem about it holds with reports.
THEOREM ReportingImplementsPipeline == ReportingSpec => ImplementsPipeline
  <1>1. ReportingInit => Init
    BY DEF ReportingInit
  <1>2. [ReportingNext]_allVars => [Next]_vars
    BY ReportingStepIsPipelineStep
  <1>3. QED
    BY <1>1, <1>2, PTL DEF ReportingSpec, ImplementsPipeline, Spec, allVars

(***************************************************************************)
(* Types.                                                                  *)
(***************************************************************************)
\* Each query fills its field.
LEMMA ReadingTyped ==
  ASSUME NEW rep \in Readings,
         NEW rows \in [Candidates -> CandidateRow],
         NEW terminal \in SUBSET Candidates,
         NEW dated \in [Candidates -> Nat \cup {NeverSeen}],
         NEW results \in SUBSET PostLogRow
  PROVE  /\ [rep EXCEPT !.rows = rows] \in Readings
         /\ [rep EXCEPT !.terminal = terminal] \in Readings
         /\ [rep EXCEPT !.dated = dated] \in Readings
         /\ [rep EXCEPT !.results = results] \in Readings
BY DEF Readings

LEMMA ReportingTyped ==
  ASSUME TypeOK, ReportTypeOK, [ReportingNext]_allVars
  PROVE  ReportTypeOK'
  <1> USE DEF ReportTypeOK
  <1>1. ASSUME NEW r \in Runs, GeneratesReport(r)
        PROVE  ReportTypeOK'
    <2>1. ASSUME NEW from \in Pages, NEW to \in Pages, Reads(r, from, to),
                 NEW rep \in Readings, report' = [report EXCEPT ![r] = rep]
          PROVE  ReportTypeOK'
      BY <2>1 DEF Reads, Turns
    <2>2. TerminalEids \in SUBSET Candidates /\ RowsOfRun(r) \in SUBSET PostLogRow
      BY DEF TerminalEids, RowsOfRun, TypeOK, StoreTypeOK
    <2>3. /\ [report[r] EXCEPT !.rows = cand] \in Readings
          /\ [report[r] EXCEPT !.terminal = TerminalEids] \in Readings
          /\ [report[r] EXCEPT !.dated = firstSeen] \in Readings
          /\ [report[r] EXCEPT !.results = RowsOfRun(r)] \in Readings
      BY <2>2, ReadingTyped DEF TypeOK, StoreTypeOK
    <2>4. CASE ReadCandidates(r)
      BY <2>1, <2>3, <2>4 DEF ReadCandidates, Pages
    <2>5. CASE ReadTerminal(r)
      BY <2>1, <2>3, <2>5 DEF ReadTerminal, Pages
    <2>6. CASE ReadHistory(r)
      BY <2>1, <2>3, <2>6 DEF ReadHistory, Pages
    <2>7. CASE ReadResults(r)
      BY <2>1, <2>3, <2>7 DEF ReadResults, Pages
    <2>8. CASE SaveWorkbook(r)
      BY <2>8 DEF SaveWorkbook, Turns, Pages, TypeOK, StoreTypeOK
    <2>9. CASE Deliver(r)
      BY <2>9 DEF Deliver
    <2>10. QED
      BY <1>1, <2>4, <2>5, <2>6, <2>7, <2>8, <2>9 DEF GeneratesReport
  <1>2. UNCHANGED reportVars => ReportTypeOK'
    BY DEF reportVars
  <1>3. QED
    BY <1>1, <1>2 DEF ReportingNext, allVars

(***************************************************************************)
(* What a report has read stays true.                                      *)
(***************************************************************************)

\* A run that has begun its report records nothing any more.
OnlyWhileReporting ==
  \A r \in Runs : page[r] # "unread" => pc[r] \in {"report", "done", "failed"}

\* From its query on, the results are those of the log.
ResultsKept ==
  \A r \in Runs : page[r] \in {"results", "saved"} => report[r].results = RowsOfRun(r)

\* Whoever was read as POSTED has a terminal row, before the terminal eids
\* are read, and is among them afterwards.
PostedKept ==
  \A r \in Runs : page[r] # "unread" =>
    \A e \in Candidates : report[r].rows[e].status = Posted =>
      IF page[r] = "candidates" THEN HasTerminalRow(e, "CREATE_USER")
                                ELSE e \in report[r].terminal

\* Reporting reads the store and turns the pages of its own run.
LEMMA ReportingFrame ==
  ASSUME ReportTypeOK, NEW r \in Runs, GeneratesReport(r)
  PROVE  /\ pc[r] = "report"
         /\ UNCHANGED storeVars
         /\ pc' = pc \/ GoTo(r, "done")
         /\ \A s \in Runs \ {r} : page'[s] = page[s] /\ report'[s] = report[s]
  <1>1. CASE ReadCandidates(r) \/ ReadTerminal(r) \/ ReadHistory(r) \/ ReadResults(r)
    BY <1>1 DEF ReadCandidates, ReadTerminal, ReadHistory, ReadResults, Reads, Turns, vars,
                ReportTypeOK
  <1>2. CASE SaveWorkbook(r)
    BY <1>2 DEF SaveWorkbook, Turns, vars, ReportTypeOK
  <1>3. CASE Deliver(r)
    BY <1>3 DEF Deliver, Report
  <1>4. QED
    BY <1>1, <1>2, <1>3 DEF GeneratesReport

LEMMA OnlyWhileReportingStep ==
  ASSUME TypeOK, ReportTypeOK, OnlyWhileReporting, [ReportingNext]_allVars
  PROVE  OnlyWhileReporting'
  <1>1. pc \in [Runs -> Stages]
    BY DEF TypeOK, InvocationsTypeOK
  <1> USE <1>1 DEF OnlyWhileReporting
  <1>2. ASSUME NEW r \in Runs, GeneratesReport(r)
        PROVE  OnlyWhileReporting'
    BY <1>2, ReportingFrame DEF GoTo
  <1>3. ASSUME NEW r \in Runs, Works(r), UNCHANGED reportVars
        PROVE  OnlyWhileReporting'
    BY <1>3, WorksStage DEF reportVars
  <1>4. ASSUME NEW r \in Runs, Die(r), UNCHANGED reportVars
        PROVE  OnlyWhileReporting'
    BY <1>4 DEF Die, GoTo, reportVars
  <1>5. CASE Environment /\ UNCHANGED reportVars
    BY <1>5 DEF Environment, reportVars
  <1>6. CASE UNCHANGED allVars
    BY <1>6 DEF allVars, vars, reportVars
  <1>7. QED
    BY <1>2, <1>3, <1>4, <1>5, <1>6 DEF ReportingNext

LEMMA ResultsKeptStep ==
  ASSUME TypeOK, ReportTypeOK, OnlyWhileReporting, ResultsKept, [ReportingNext]_allVars
  PROVE  ResultsKept'
  <1>1. ASSUME NEW r \in Runs, GeneratesReport(r)
        PROVE  ResultsKept'
    <2>1. postLog' = postLog
      BY <1>1, ReportingFrame DEF storeVars
    <2>2. ASSUME page'[r] \in {"results", "saved"}
          PROVE  report'[r].results = {row \in postLog : row.run = r}
      <3>1. CASE ReadResults(r)
        <4>1. report[r] \in Readings
          BY DEF ReportTypeOK
        <4>2. report'[r] = [report[r] EXCEPT !.results = RowsOfRun(r)]
          BY <3>1 DEF ReadResults, ReportTypeOK
        <4>3. QED
          BY <4>1, <4>2 DEF Readings, RowsOfRun
      <3>2. CASE SaveWorkbook(r) \/ Deliver(r)
        BY <2>2, <3>2 DEF SaveWorkbook, Turns, Deliver, ReportTypeOK, ResultsKept, RowsOfRun
      <3>3. CASE ReadCandidates(r) \/ ReadTerminal(r) \/ ReadHistory(r)
        BY <2>2, <3>3 DEF ReadCandidates, ReadTerminal, ReadHistory, Reads, Turns, ReportTypeOK
      <3>4. QED
        BY <1>1, <3>1, <3>2, <3>3 DEF GeneratesReport
    <2>3. QED
      BY <1>1, <2>1, <2>2, ReportingFrame DEF ResultsKept, RowsOfRun
  <1>2. ASSUME UNCHANGED reportVars, [Next]_vars
        PROVE  ResultsKept'
    <2>1. CASE postLog' = postLog
      BY <1>2, <2>1 DEF reportVars, ResultsKept, RowsOfRun
    <2>2. CASE postLog' # postLog
      <3>1. PICK q \in Runs, e \in Candidates : RecordResult(q, e)
        BY <1>2, <2>2, OnlyRecordingLogs
      <3> DEFINE new == {CreateRow(q, e, batch[q][e])} \cup CaseRows(q, e, batch[q][e])
      <3>2. /\ postLog' \in {postLog, postLog \cup new}
            /\ \A row \in new : row.run = q
        <4>1. batch[q][e] \in Outcomes /\ postLog' \in {postLog, postLog \cup new}
          BY <3>1, RecordedRows
        <4>2. ASSUME NEW row \in new PROVE row.run = q
          BY <4>1, RowsOfResult
        <4>3. QED
          BY <4>1, <4>2
      <3> HIDE DEF new
      <3>3. pc[q] = "record"
        BY <3>1 DEF RecordResult
      <3>4. ASSUME NEW r \in Runs, page[r] \in {"results", "saved"}
            PROVE  {row \in postLog' : row.run = r} = {row \in postLog : row.run = r}
        BY <3>2, <3>3, <3>4 DEF OnlyWhileReporting
      <3>5. QED
        BY <1>2, <3>4 DEF reportVars, ResultsKept, RowsOfRun
    <2>3. QED
      BY <2>1, <2>2
  <1>3. QED
    BY <1>1, <1>2, ReportingStepIsPipelineStep DEF ReportingNext, allVars

LEMMA PostedKeptStep ==
  ASSUME ReportTypeOK, PostedIsLogged, PostedKept, [ReportingNext]_allVars
  PROVE  PostedKept'
  <1>1. ASSUME NEW r \in Runs, GeneratesReport(r)
        PROVE  PostedKept'
    <2> DEFINE Kept(s) ==
          page[s] # "unread" =>
            \A e \in Candidates : report[s].rows[e].status = Posted =>
              IF page[s] = "candidates" THEN HasTerminalRow(e, "CREATE_USER")
                                        ELSE e \in report[s].terminal
    <2>1. \A s \in Runs : Kept(s)
      BY DEF PostedKept
    <2>2. \A e \in Candidates : HasTerminalRow(e, "CREATE_USER")' = HasTerminalRow(e, "CREATE_USER")
      BY <1>1, ReportingFrame DEF storeVars, HasTerminalRow
    <2>3. report[r] \in Readings
      BY DEF ReportTypeOK
    <2>4. CASE ReadCandidates(r)
      <3>1. page'[r] = "candidates" /\ report'[r].rows = cand
        BY <2>3, <2>4 DEF ReadCandidates, Reads, Turns, ReportTypeOK, Readings
      <3>2. Kept(r)'
        BY <2>2, <3>1 DEF PostedIsLogged
      <3>3. QED
        BY <1>1, <2>1, <2>2, <3>2, ReportingFrame DEF PostedKept
    <2>5. CASE ReadTerminal(r)
      <3>1. /\ page[r] = "candidates" /\ page'[r] = "terminal"
            /\ report'[r].rows = report[r].rows
            /\ report'[r].terminal = TerminalEids
        BY <2>3, <2>5 DEF ReadTerminal, Reads, Turns, ReportTypeOK, Readings
      <3>2. Kept(r)'
        BY <2>1, <3>1 DEF TerminalEids
      <3>3. QED
        BY <1>1, <2>1, <2>2, <3>2, ReportingFrame DEF PostedKept
    <2>6. CASE ReadHistory(r) \/ ReadResults(r) \/ SaveWorkbook(r) \/ Deliver(r)
      <3>1. /\ report'[r].rows = report[r].rows
            /\ report'[r].terminal = report[r].terminal
            /\ \/ page'[r] = page[r]
               \/ /\ page[r] \notin {"unread", "candidates"}
                  /\ page'[r] \notin {"unread", "candidates"}
        BY <2>3, <2>6 DEF ReadHistory, ReadResults, SaveWorkbook, Deliver, Reads, Turns,
                          ReportTypeOK, Readings
      <3>2. Kept(r)'
        BY <2>1, <2>2, <3>1
      <3>3. QED
        BY <1>1, <2>1, <2>2, <3>2, ReportingFrame DEF PostedKept
    <2>7. QED
      BY <1>1, <2>4, <2>5, <2>6 DEF GeneratesReport
  <1>2. ASSUME UNCHANGED reportVars, [Next]_vars
        PROVE  PostedKept'
    BY <1>2, TerminalRowsStay DEF reportVars, PostedKept
  <1>3. QED
    BY <1>1, <1>2, ReportingStepIsPipelineStep DEF ReportingNext, allVars

(***************************************************************************)
(* Files.                                                                  *)
(***************************************************************************)

\* A file bears the second that its run remembers, and a run that has not
\* saved has neither a file nor been delivered by anybody.
FilesAreNamed ==
  \A f \in files : Saved(f.by) /\ f.second = savedAt[f.by]

\* Whatever was delivered was saved in the second of the run that sent it.
DeliveryHasItsSecond ==
  \A r \in Runs : \A b \in delivered[r] :
    Saved(r) /\ Saved(b) /\ savedAt[b] = savedAt[r]

LEMMA FilesStep ==
  ASSUME TypeOK, ReportTypeOK, FilesAreNamed, DeliveryHasItsSecond,
         [ReportingNext]_allVars
  PROVE  FilesAreNamed' /\ DeliveryHasItsSecond'
  <1> USE DEF FilesAreNamed, DeliveryHasItsSecond, Saved
  <1>1. ASSUME NEW r \in Runs, GeneratesReport(r)
        PROVE  FilesAreNamed' /\ DeliveryHasItsSecond'
    <2>1. CASE ReadCandidates(r) \/ ReadTerminal(r) \/ ReadHistory(r) \/ ReadResults(r)
      <3>1. /\ UNCHANGED <<files, savedAt, delivered>>
            /\ \A s \in Runs : page[s] = "saved" => page'[s] = "saved"
        BY <2>1 DEF ReadCandidates, ReadTerminal, ReadHistory, ReadResults, Reads, Turns,
                    ReportTypeOK
      <3>2. QED
        BY <3>1 DEF ReportTypeOK
    <2>2. CASE SaveWorkbook(r)
      <3>1. /\ page[r] = "results"
            /\ page' = [page EXCEPT ![r] = "saved"]
            /\ savedAt' = [savedAt EXCEPT ![r] = clock]
            /\ files' = {f \in files : f.second # clock} \cup {[second |-> clock, by |-> r]}
            /\ delivered' = delivered
        BY <2>2 DEF SaveWorkbook, Turns
      <3>2. FilesAreNamed'
        BY <3>1 DEF ReportTypeOK
      <3>3. DeliveryHasItsSecond'
        BY <3>1 DEF ReportTypeOK
      <3>4. QED
        BY <3>2, <3>3
    <2>3. CASE Deliver(r)
      <3>1. /\ page[r] = "saved"
            /\ UNCHANGED <<page, files, savedAt>>
            /\ \/ \E f \in files : /\ f.second = savedAt[r]
                                   /\ delivered' = [delivered EXCEPT ![r] = {f.by}]
               \/ UNCHANGED delivered
        BY <2>3 DEF Deliver
      <3>2. FilesAreNamed'
        BY <3>1
      <3>3. DeliveryHasItsSecond'
        BY <3>1 DEF ReportTypeOK
      <3>4. QED
        BY <3>2, <3>3
    <2>4. QED
      BY <1>1, <2>1, <2>2, <2>3 DEF GeneratesReport
  <1>2. UNCHANGED reportVars => FilesAreNamed' /\ DeliveryHasItsSecond'
    BY DEF reportVars
  <1>3. QED
    BY <1>1, <1>2 DEF ReportingNext, allVars

(***************************************************************************)
(* What a run had selected, and what its report says of it.                *)
(***************************************************************************)

\* A run whose report has begun holds what it held.
LEMMA SelectionIsOver ==
  ASSUME TypeOK, ReportTypeOK, OnlyWhileReporting, [ReportingNext]_allVars,
         NEW r \in Runs, page[r] # "unread"
  PROVE  batch'[r] = batch[r]
  <1>1. ASSUME NEW q \in Runs, Works(q)
        PROVE  batch'[r] = batch[r]
    <2>1. q # r
      BY <1>1, WorksStage DEF OnlyWhileReporting
    <2>2. QED
      BY <1>1, <2>1, OnlyItsOwnBatch
  <1>2. ASSUME NEW q \in Runs, GeneratesReport(q)
        PROVE  batch' = batch
    BY <1>2 DEF GeneratesReport, ReadCandidates, ReadTerminal, ReadHistory, ReadResults,
                Reads, SaveWorkbook, Deliver, Report, vars
  <1>3. \A q \in Runs : Die(q) => batch' = batch
    BY DEF Die
  <1>4. (Environment \/ UNCHANGED allVars) => batch' = batch
    BY DEF Environment, allVars, vars
  <1>5. QED
    BY <1>1, <1>2, <1>3, <1>4 DEF ReportingNext

\* From its query on, the report has a date for whomever the run holds, and
\* the date passes the gate.
HeldPassGate ==
  \A r \in Runs, e \in Candidates :
    /\ page[r] \in {"history", "results", "saved"}
    /\ Selection[r] = "normal" /\ batch[r][e] # "out" /\ GoLive # Unset
    => report[r].dated[e] # NeverSeen /\ report[r].dated[e] >= GoLive

LEMMA HeldPassGateStep ==
  ASSUME TypeOK, ReportTypeOK, OnlyWhileReporting, BacklogStaysOut, HeldPassGate,
         [ReportingNext]_allVars
  PROVE  HeldPassGate'
  <1>1. SUFFICES ASSUME NEW r \in Runs, NEW e \in Candidates,
                        page'[r] \in {"history", "results", "saved"},
                        Selection[r] = "normal", batch'[r][e] # "out", GoLive # Unset
                 PROVE  report'[r].dated[e] # NeverSeen /\ report'[r].dated[e] >= GoLive
    BY DEF HeldPassGate
  <1>2. CASE page'[r] = page[r] /\ report'[r] = report[r]
    <2>1. batch'[r] = batch[r]
      BY <1>1, <1>2, SelectionIsOver
    <2>2. QED
      BY <1>1, <1>2, <2>1 DEF HeldPassGate
  <1>3. ASSUME NEW q \in Runs, GeneratesReport(q)
        PROVE  report'[r].dated[e] # NeverSeen /\ report'[r].dated[e] >= GoLive
    <2>1. CASE q # r
      BY <1>2, <1>3, <2>1, ReportingFrame
    <2>2. CASE q = r
      <3>1. page[r] # "unread"
        BY <1>1, <1>3, <2>2 DEF GeneratesReport, ReadCandidates, ReadTerminal, ReadHistory,
             ReadResults, Reads, SaveWorkbook, Deliver, Turns, ReportTypeOK
      <3>2. batch'[r] = batch[r]
        BY <3>1, SelectionIsOver
      <3>3. report[r] \in Readings
        BY DEF ReportTypeOK
      <3>4. CASE ReadHistory(r)
        <4>1. report'[r].dated = firstSeen
          BY <3>3, <3>4 DEF ReadHistory, ReportTypeOK, Readings
        <4>2. QED
          BY <1>1, <3>2, <4>1 DEF BacklogStaysOut
      <3>5. CASE ReadCandidates(r) \/ ReadTerminal(r)
        BY <1>1, <3>5 DEF ReadCandidates, ReadTerminal, Reads, Turns, ReportTypeOK
      <3>6. CASE ReadResults(r) \/ SaveWorkbook(r) \/ Deliver(r)
        <4>1. /\ page[r] \in {"history", "results", "saved"}
              /\ report'[r].dated = report[r].dated
          BY <3>3, <3>6 DEF ReadResults, SaveWorkbook, Deliver, Reads, Turns, ReportTypeOK,
                            Readings
        <4>2. QED
          BY <1>1, <3>2, <4>1 DEF HeldPassGate
      <3>7. QED
        BY <1>3, <2>2, <3>4, <3>5, <3>6 DEF GeneratesReport
    <2>3. QED
      BY <2>1, <2>2
  <1>4. UNCHANGED reportVars => page'[r] = page[r] /\ report'[r] = report[r]
    BY DEF reportVars
  <1>5. QED
    BY <1>2, <1>3, <1>4 DEF ReportingNext, allVars

(***************************************************************************)
(* The rows of a run.                                                      *)
(***************************************************************************)

\* The CREATE_USER rows that run r wrote of e.
Created(r, e) ==
  {row \in postLog : row.run = r /\ row.eid = e /\ row.action = "CREATE_USER"}

\* One for each recorded, none for anybody else.
OneRowEach ==
  \A r \in Runs, e \in Candidates :
    IF batch[r][e] = "recorded" THEN \E row : Created(r, e) = {row}
                                ELSE Created(r, e) = {}

\* "recorded" is reached by recording and never left.
LEMMA RecordedStays ==
  ASSUME TypeOK, BatchFollowsStage, [Next]_vars, NEW r \in Runs, NEW e \in Candidates
  PROVE  /\ batch[r][e] = "recorded" => batch'[r][e] = "recorded"
         /\ batch'[r][e] = "recorded" /\ batch[r][e] # "recorded" => RecordResult(r, e)
  <1> DEFINE Kept == /\ batch[r][e] = "recorded" => batch'[r][e] = "recorded"
                     /\ batch'[r][e] = "recorded" /\ batch[r][e] # "recorded"
                          => RecordResult(r, e)
  <1>1. batch'[r] = batch[r] => Kept
    OBVIOUS
  <1>2. ASSUME NEW f \in Candidates, NEW progress, Advance(r, f, progress),
               batch[r][f] # "recorded",
               progress = "recorded" => RecordResult(r, f)
        PROVE  Kept
    <2>1. batch'[r][e] = IF e = f THEN progress ELSE batch[r][e]
      BY <1>2 DEF Advance, TypeOK, PostingTypeOK
    <2>2. QED
      BY <1>2, <2>1
  <1>3. CASE PostingStep(r)
    <2>1. CASE Select(r)
      <3>1. batch[r][e] = "out"
        BY <2>1 DEF Select, BatchFollowsStage, StageHolds, BeforeSelection, NoBatch
      <3>2. batch'[r][e] = CASE e \notin ReadyCandidates -> "out"
                             [] e \in ReadyCandidates /\ Postable(e) -> "ready"
                             [] e \in ReadyCandidates /\ ~Postable(e) -> "incomplete"
        BY <2>1 DEF Select, TypeOK, PostingTypeOK
      <3>3. batch'[r][e] # "recorded"
        BY <3>2
      <3>4. QED
        BY <3>1, <3>3
    <2>2. CASE Authorize(r) \/ RequestRaises(r) \/ EndPosting(r) \/ EndRecording(r)
      BY <1>1, <2>2 DEF Authorize, RequestRaises, EndPosting, EndRecording
    <2>3. ASSUME NEW f \in Candidates,
                 RejectLocally(r, f) \/ LookUp(r, f) \/ CreateUser(r, f) \/ UpdateCase(r, f)
          PROVE  Kept
      <3>1. batch[r][f] # "recorded"
        BY <2>3 DEF RejectLocally, LookUp, CreateUser, UpdateCase, TurnsTo, IsFirst
      <3>2. \E progress : Advance(r, f, progress) /\ progress # "recorded"
        BY <2>3 DEF RejectLocally, LookUp, CreateUser, UpdateCase
      <3>3. QED
        BY <1>2, <3>1, <3>2
    <2>4. ASSUME NEW f \in Candidates, RecordResult(r, f)
          PROVE  Kept
      <3>1. batch' = batch \/ Advance(r, f, "recorded")
        BY <2>4 DEF RecordResult
      <3>2. batch[r][f] # "recorded"
        BY <2>4 DEF RecordResult, IsFirst, Outcomes
      <3>3. QED
        BY <1>1, <1>2, <2>4, <3>1, <3>2
    <2>5. QED
      BY <1>3, <2>1, <2>2, <2>3, <2>4 DEF PostingStep
  <1>4. CASE ExplicitStep(r)
    <2>1. CASE OpenBatch(r) \/ OpenUat(r)
      <3>1. batch[r][e] = "out"
        BY <2>1 DEF OpenBatch, OpenUat, BatchFollowsStage, StageHolds, BeforeSelection, NoBatch
      <3>2. batch'[r][e] \in {"out", "pending"}
        BY <2>1, <3>1 DEF OpenBatch, OpenUat, TypeOK, PostingTypeOK
      <3>3. QED
        BY <3>1, <3>2
    <2>2. ASSUME NEW f \in Candidates, Fetch(r, f) \/ CheckLive(r, f) \/ CheckUnposted(r, f)
          PROVE  Kept
      <3>1. batch[r][f] # "recorded"
        BY <2>2 DEF Fetch, CheckLive, CheckUnposted, EvaluatesNext, IsFirst
      <3>2. \E progress : Advance(r, f, progress) /\ progress # "recorded"
        BY <2>2 DEF Fetch, CheckLive, CheckUnposted
      <3>3. QED
        BY <1>2, <3>1, <3>2
    <2>3. CASE EndEvaluation(r)
      BY <1>1, <2>3 DEF EndEvaluation
    <2>4. QED
      BY <1>4, <2>1, <2>2, <2>3 DEF ExplicitStep
  <1>5. CASE Works(r)
    BY <1>1, <1>3, <1>4, <1>5 DEF Works, Start
  <1>6. ASSUME NEW q \in Runs, Works(q), q # r
        PROVE  batch'[r] = batch[r]
    BY <1>6, OnlyItsOwnBatch
  <1>7. ASSUME NEW q \in Runs, Report(q) \/ Die(q)
        PROVE  batch' = batch
    BY <1>7 DEF Report, Die
  <1>8. \A q \in Runs : ~Reschedule(q)
    BY ReportingAssumption DEF ReportingAssumption, Reschedule
  <1>9. (Environment \/ UNCHANGED vars) => batch' = batch
    BY DEF Environment, vars
  <1>10. Kept
    BY <1>1, <1>5, <1>6, <1>7, <1>8, <1>9 DEF Next, Progresses
  <1>11. QED
    BY <1>10

LEMMA OneRowEachStep ==
  ASSUME TypeOK, BatchFollowsStage, OneRowEach, [Next]_vars
  PROVE  OneRowEach'
  <1>1. SUFFICES ASSUME NEW r \in Runs, NEW e \in Candidates
                 PROVE  IF batch'[r][e] = "recorded"
                          THEN \E row : Created(r, e)' = {row}
                          ELSE Created(r, e)' = {}
    BY DEF OneRowEach
  <1>2. CASE batch'[r][e] = "recorded" /\ batch[r][e] # "recorded"
    <2> DEFINE new  == CreateRow(r, e, batch[r][e])
               rows == {new} \cup CaseRows(r, e, batch[r][e])
    <2>1. RecordResult(r, e)
      BY <1>2, RecordedStays
    <2>2. /\ postLog' = postLog \cup rows
          /\ batch[r][e] \in Outcomes
      BY <1>2, <2>1 DEF RecordResult, IsFirst
    <2>3. Created(r, e) = {}
      BY <1>2 DEF OneRowEach
    <2>4. /\ new \in rows /\ new.run = r /\ new.eid = e /\ new.action = "CREATE_USER"
          /\ \A row \in rows : row.action = "CREATE_USER" => row = new
      <3>1. \A row \in rows : row.action = "CREATE_USER" => row = new
        BY <2>2, RowsOfResult
      <3>2. QED
        BY <3>1 DEF CreateRow
    <2> HIDE DEF new, rows
    <2>5. Created(r, e)' = {new}
      BY <2>2, <2>3, <2>4 DEF Created
    <2>6. QED
      BY <1>2, <2>5
  <1>3. CASE ~(batch'[r][e] = "recorded" /\ batch[r][e] # "recorded")
    <2>1. batch'[r][e] = "recorded" <=> batch[r][e] = "recorded"
      BY <1>3, RecordedStays
    <2>2. Created(r, e)' = Created(r, e)
      <3>1. CASE postLog' = postLog
        BY <3>1 DEF Created
      <3>2. CASE postLog' # postLog
        <4>1. PICK q \in Runs, f \in Candidates : RecordResult(q, f)
          BY <3>2, OnlyRecordingLogs
        <4> DEFINE rows == {CreateRow(q, f, batch[q][f])} \cup CaseRows(q, f, batch[q][f])
        <4>2. /\ batch[q][f] \in Outcomes
              /\ postLog' = postLog \cup rows
          BY <3>2, <4>1, RecordedRows
        <4>3. \A row \in rows : row.run = q /\ row.eid = f
          BY <4>2, RowsOfResult
        <4>4. Advance(q, f, "recorded")
          BY <3>2, <4>1 DEF RecordResult
        <4>5. ~(q = r /\ f = e)
          BY <2>1, <4>2, <4>4 DEF Advance, Outcomes, TypeOK, PostingTypeOK
        <4> HIDE DEF rows
        <4>6. QED
          BY <4>2, <4>3, <4>5 DEF Created
      <3>3. QED
        BY <3>1, <3>2
    <2>3. QED
      BY <2>1, <2>2 DEF OneRowEach
  <1>4. QED
    BY <1>2, <1>3

\* A real run that reports has recorded everybody it selected.
ReportedIsRecorded ==
  \A r \in Runs : page[r] # "unread" /\ PostsForReal(r) =>
    \A e \in Candidates : batch[r][e] \in {"out", "recorded"}

LEMMA ReportedIsRecordedStep ==
  ASSUME TypeOK, ReportTypeOK, OnlyWhileReporting, BatchFollowsStage, ReportedIsRecorded,
         [ReportingNext]_allVars
  PROVE  ReportedIsRecorded'
  <1>1. SUFFICES ASSUME NEW r \in Runs, page'[r] # "unread", PostsForReal(r),
                        NEW e \in Candidates
                 PROVE  batch'[r][e] \in {"out", "recorded"}
    BY DEF ReportedIsRecorded, PostsForReal
  <1>2. CASE page[r] # "unread"
    BY <1>1, <1>2, SelectionIsOver DEF ReportedIsRecorded
  <1>3. CASE page[r] = "unread"
    <2>1. PICK q \in Runs : GeneratesReport(q)
      BY <1>1, <1>3 DEF ReportingNext, reportVars, allVars
    <2>2. q = r
      BY <1>1, <1>3, <2>1, ReportingFrame
    <2>3. batch' = batch
      BY <2>1 DEF GeneratesReport, ReadCandidates, ReadTerminal, ReadHistory, ReadResults,
                  Reads, SaveWorkbook, Deliver, Report, vars
    <2>4. QED
      BY <1>1, <2>1, <2>2, <2>3, ReportingFrame DEF BatchFollowsStage, StageHolds
  <1>4. QED
    BY <1>2, <1>3

\* One row each: as many CREATE_USER rows as applications.
LEMMA RowsCountSelected ==
  ASSUME TypeOK, OneRowEach, NEW r \in Runs,
         \A e \in Candidates : batch[r][e] \in {"out", "recorded"}
  PROVE  LET created  == {row \in RowsOfRun(r) : row.action = "CREATE_USER"}
             selected == {e \in Candidates : batch[r][e] # "out"}
         IN /\ {row.eid : row \in created} = selected
            /\ Cardinality(created) = Cardinality(selected)
  <1> DEFINE created  == {row \in RowsOfRun(r) : row.action = "CREATE_USER"}
             selected == {e \in Candidates : batch[r][e] # "out"}
             rowOf    == [e \in selected |-> CHOOSE row : Created(r, e) = {row}]
  <1>1. \A row \in created : row.eid \in Candidates /\ row \in Created(r, row.eid)
    BY DEF RowsOfRun, Created, TypeOK, StoreTypeOK, PostLogRow
  <1>2. \A e \in selected : Created(r, e) = {rowOf[e]}
    BY DEF OneRowEach
  <1>3. \A e \in Candidates : e \in selected <=> Created(r, e) # {}
    BY DEF OneRowEach
  <1>4. \A e \in Candidates : Created(r, e) = {row \in created : row.eid = e}
    BY DEF RowsOfRun, Created
  <1> HIDE DEF created, rowOf
  <1>5. \A e \in selected : rowOf[e] \in created /\ rowOf[e].eid = e
    BY <1>2, <1>4
  <1>6. \A row \in created : row.eid \in selected /\ row = rowOf[row.eid]
    BY <1>1, <1>2, <1>3
  <1>7. {row.eid : row \in created} = selected
    BY <1>5, <1>6
  <1>8. rowOf \in Bijection(selected, created)
    <2>1. rowOf \in [selected -> created]
      BY <1>5 DEF rowOf
    <2>2. QED
      BY <1>5, <1>6, <2>1 DEF Bijection, Injection, Surjection, IsInjective
  <1>9. IsFiniteSet(selected)
    BY StoreAssumption, FS_Subset DEF StoreAssumption
  <1>10. Cardinality(created) = Cardinality(selected)
    BY <1>8, <1>9, FS_Bijection DEF ExistsBijection
  <1>11. QED
    BY <1>7, <1>10 DEF created

(***************************************************************************)
(* The theorems.                                                           *)
(***************************************************************************)
\* What the report has read, and what its run holds meanwhile.
ReportInv == ReportTypeOK /\ OnlyWhileReporting /\ ResultsKept /\ PostedKept
FilesInv == FilesAreNamed /\ DeliveryHasItsSecond
RowsInv == OneRowEach /\ ReportedIsRecorded

LEMMA ReportingIsPipeline == ReportingSpec => Spec
BY ReportingImplementsPipeline DEF ImplementsPipeline

LEMMA ReportInvHolds == ReportingSpec => []ReportInv
  <1>1. ReportingInit => ReportInv
    <2>1. SUFFICES ASSUME ReportingInit PROVE ReportInv
      OBVIOUS
    <2>2. NoReport \in Readings
      BY AbsentRows DEF NoReport, Readings, NeverSeen
    <2>3. ReportTypeOK
      BY <2>1, <2>2 DEF ReportingInit, ReportInit, ReportTypeOK, Pages
    <2>4. QED
      BY <2>1, <2>3 DEF ReportingInit, ReportInit, ReportInv, OnlyWhileReporting,
                        ResultsKept, PostedKept
  <1>2. TypeOK /\ PostedIsLogged /\ ReportInv /\ [ReportingNext]_allVars => ReportInv'
    BY ReportingTyped, OnlyWhileReportingStep, ResultsKeptStep, PostedKeptStep
    DEF ReportInv
  <1>3. QED
    BY <1>1, <1>2, ReportingIsPipeline, TypeCorrect, PostedHasTerminalRow, PTL
    DEF ReportingSpec, allVars

\* Type correctness of the reports: what the four queries return, the files
\* and the deliveries, beside any number of runs.
THEOREM ReportTypeCorrect == ReportingSpec => []ReportTypeOK
  <1>1. ReportInv => ReportTypeOK
    BY DEF ReportInv
  <1>2. QED
    BY <1>1, ReportInvHolds, PTL

LEMMA FilesInvHolds == ReportingSpec => []FilesInv
  <1>1. ReportingInit => FilesInv
    BY DEF ReportingInit, ReportInit, FilesInv, FilesAreNamed, DeliveryHasItsSecond
  <1>2. TypeOK /\ ReportInv /\ FilesInv /\ [ReportingNext]_allVars => FilesInv'
    BY FilesStep DEF FilesInv, ReportInv
  <1>3. QED
    BY <1>1, <1>2, ReportInvHolds, ReportingIsPipeline, TypeCorrect, PTL
    DEF ReportingSpec, allVars

LEMMA RowsInvHolds == ReportingSpec => []RowsInv
  <1>1. ReportingInit => RowsInv
    BY DEF ReportingInit, Init, ReportInit, StoreInit, InvocationsInit, PostingInit, NoBatch,
           RowsInv, OneRowEach, Created, ReportedIsRecorded
  <1>2. TypeOK /\ BatchFollowsStage /\ ReportInv /\ RowsInv /\ [ReportingNext]_allVars
          => RowsInv'
    BY ReportingStepIsPipelineStep, OneRowEachStep, ReportedIsRecordedStep
    DEF RowsInv, ReportInv
  <1>3. QED
    BY <1>1, <1>2, ReportInvHolds, ReportingIsPipeline, TypeCorrect,
       BatchFollowsStageHolds, PTL
    DEF ReportingSpec, allVars

\* What a saved report says of its run stays the whole truth, whatever the
\* other runs record: get_post_log_rows_for_run() reads after the last own
\* row was written.
THEOREM SavedResultsAreFinal == ReportingSpec => []ResultsAreFinal
  <1>1. ReportInv => ResultsAreFinal
    BY DEF ReportInv, ResultsKept, ResultsAreFinal, Saved, RowsOfRun
  <1>2. QED
    BY <1>1, ReportInvHolds, PTL

\* Whoever a saved report calls Already Posted is among its terminal
\* candidates: the candidates are read first, and a terminal row precedes
\* the status and stays.
THEOREM AlreadyPostedIsTerminal == ReportingSpec => []PostedLabelIsBacked
  <1>1. ReportInv => PostedLabelIsBacked
    BY DEF ReportInv, PostedKept, PostedLabelIsBacked, Saved, GoLiveStatus, GoLiveCategory,
           MobilityCandidates
  <1>2. QED
    BY <1>1, ReportInvHolds, PTL

\* The totals of a real run add up: one CREATE_USER row for each candidate
\* selected and none besides, in the report of any run that got so far,
\* whatever was lost, refused or recorded by others.
THEOREM TotalsAddUp == ReportingSpec => []SelectionIsReported
  <1>1. TypeOK /\ ReportInv /\ RowsInv => SelectionIsReported
    <2>1. SUFFICES ASSUME TypeOK, ReportInv, RowsInv,
                          NEW r \in Runs, Saved(r), PostsForReal(r)
                   PROVE  LET created  == {row \in report[r].results :
                                             row.action = "CREATE_USER"}
                              selected == {e \in Candidates : batch[r][e] # "out"}
                          IN /\ {row.eid : row \in created} = selected
                             /\ Cardinality(created) = Cardinality(selected)
      BY DEF SelectionIsReported
    <2>2. report[r].results = RowsOfRun(r)
      BY <2>1 DEF ReportInv, ResultsKept, Saved
    <2>3. \A e \in Candidates : batch[r][e] \in {"out", "recorded"}
      BY <2>1 DEF RowsInv, ReportedIsRecorded, Saved
    <2>4. QED
      BY <2>1, <2>2, <2>3, RowsCountSelected DEF RowsInv
  <1>2. QED
    BY <1>1, ReportInvHolds, RowsInvHolds, ReportingIsPipeline, TypeCorrect, PTL

\* Report and selection agree about the go-live although the dates are read
\* long after the selection, while synchronizations go on: nobody whom a run
\* of the normal path took is called backlog by its report.
THEOREM SelectedIsNeverBacklog ==
  ASSUME GoLive # Unset
  PROVE  ReportingSpec => []SelectedIsNotBacklog
  <1>1. ReportingInit => HeldPassGate
    BY DEF ReportingInit, ReportInit, HeldPassGate
  <1>2. TypeOK /\ BacklogStaysOut /\ ReportInv /\ HeldPassGate /\ [ReportingNext]_allVars
          => HeldPassGate'
    BY HeldPassGateStep DEF ReportInv
  <1>3. TypeOK /\ ReportInv /\ HeldPassGate => SelectedIsNotBacklog
    <2>1. SUFFICES ASSUME ReportInv, HeldPassGate, NEW r \in Runs, Saved(r),
                          Selection[r] = "normal", NEW e \in Candidates,
                          batch[r][e] # "out"
                   PROVE  e \notin GoLiveStatus(report[r], "Pre-Go-Live Backlog")
      BY DEF SelectedIsNotBacklog, GoLiveStatus, MobilityCandidates
    <2>2. report[r].dated[e] # NeverSeen /\ report[r].dated[e] >= GoLive
      BY <2>1 DEF HeldPassGate, Saved
    <2>3. report[r].dated[e] \in Nat /\ GoLive \in Nat
      BY <2>1, <2>2, StoreAssumption DEF ReportInv, ReportTypeOK, Readings, StoreAssumption
    <2>4. GoLiveCategory(report[r].rows[e].status, report[r].dated[e]) # "Pre-Go-Live Backlog"
      BY <2>2, <2>3 DEF GoLiveCategory
    <2>5. QED
      BY <2>4 DEF GoLiveStatus
  <1>4. QED
    BY <1>1, <1>2, <1>3, ReportInvHolds, ReportingIsPipeline, TypeCorrect,
       BacklogIsNeverInHand, PTL
    DEF ReportingSpec, allVars

\* A report is sent by two runs only if both saved in the same second, in
\* whatever order the runs save, send, fail and die.
THEOREM OneDeliveryEach == ReportingSpec => []DeliveredOnce
  <1>1. FilesInv => DeliveredOnce
    <2>1. SUFFICES ASSUME FilesInv, NEW q \in Runs, NEW r \in Runs,
                          NEW b \in delivered[q] \cap delivered[r]
                   PROVE  savedAt[q] = savedAt[r]
      BY DEF DeliveredOnce
    <2>2. QED
      BY <2>1 DEF FilesInv, DeliveryHasItsSecond
  <1>2. QED
    BY <1>1, FilesInvHolds, PTL

=============================================================================
