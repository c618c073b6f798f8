---------------------------- MODULE SerialProofs ----------------------------
(***************************************************************************)
(* Theorems about Pipeline when invocations do not overlap, as the systemd *)
(* oneshot unit of docs/OPERATIONS.md arranges it.  Crashes, timeouts, the *)
(* ETL and any number of runs one after the other remain.                  *)
(*                                                                         *)
(* What a run reads in one statement and uses in a later one is then still *)
(* true when it uses it: the verdicts of classify(), the terminal eids of  *)
(* an approved batch, the absence of a row at selection, the absence of an *)
(* account at the lookup.                                                  *)
(***************************************************************************)
EXTENDS PipelineProofs

(***************************************************************************)
(* One active run.                                                         *)
(***************************************************************************)
ActiveAlone == \A q, r \in Runs : Active(q) /\ Active(r) => q = r

\* A run works only when it has started.
LEMMA WorksWhenActive ==
  ASSUME NEW r \in Runs, Works(r)
  PROVE  Start(r) \/ Active(r)
  <1>1. CASE IntakeStep(r)
    BY <1>1 DEF IntakeStep, SyncUpsert, SyncHistory, SyncCommit, ClassifyRead,
                ClassifyCommit, Active, InFlight
  <1>2. CASE PostingStep(r)
    <2>1. CASE Select(r) \/ Authorize(r) \/ EndPosting(r) \/ EndRecording(r)
      BY <2>1 DEF Select, Authorize, EndPosting, EndRecording, Active, InFlight
    <2>2. CASE RequestRaises(r)
      BY <2>2 DEF RequestRaises, TurnsTo, Active, InFlight
    <2>3. ASSUME NEW e \in Candidates,
                 \/ RejectLocally(r, e) \/ LookUp(r, e) \/ CreateUser(r, e)
                 \/ UpdateCase(r, e) \/ RecordResult(r, e)
          PROVE  Active(r)
      BY <2>3 DEF RejectLocally, LookUp, CreateUser, UpdateCase, RecordResult, TurnsTo,
                  Active, InFlight
    <2>4. QED
      BY <1>2, <2>1, <2>2, <2>3 DEF PostingStep
  <1>3. CASE ExplicitStep(r)
    BY <1>3 DEF ExplicitStep, OpenBatch, OpenUat, Fetch, CheckLive, CheckUnposted,
                EndEvaluation, EvaluatesNext, Active, InFlight
  <1>4. QED
    BY <1>1, <1>2, <1>3 DEF Works

\* Nothing of what the active run relies on changes.
Rests(r) ==
  /\ pc'[r] = pc[r]
  /\ batch'[r] = batch[r]
  /\ verdicts'[r] = verdicts[r]
  /\ terminalSnap'[r] = terminalSnap[r]
  /\ UNCHANGED <<cand, postLog, benivoVars>>

\* Whoever is active after a step has made it, or nobody has disturbed it.
LEMMA WorksOrRests ==
  ASSUME TypeOK, ~Overlap, ActiveAlone, [Next]_vars, NEW r \in Runs, Active(r)'
  PROVE  Works(r) \/ Rests(r)
  <1> USE DEF TypeOK, InvocationsTypeOK
  <1>1. ASSUME NEW q \in Runs, Works(q), q # r
        PROVE  FALSE
    <2>1. pc'[r] = pc[r]
      BY <1>1, WorksStage
    <2>2. Active(r)
      BY <2>1 DEF Active
    <2>3. ~Start(q)
      BY <2>2 DEF Start, MayStart
    <2>4. QED
      BY <1>1, <2>2, <2>3, WorksWhenActive DEF ActiveAlone
  <1>2. ASSUME NEW q \in Runs, Report(q) \/ Die(q)
        PROVE  FALSE
    <2>1. Active(q)
      BY <1>2 DEF Report, Die, Active, InFlight
    <2>2. pc' = [pc EXCEPT ![q] = "done"] \/ pc' = [pc EXCEPT ![q] = "failed"]
      BY <1>2 DEF Report, Die, GoTo
    <2>3. QED
      BY <2>1, <2>2 DEF Active, InFlight, ActiveAlone
  <1>3. ASSUME NEW q \in Runs, Reschedule(q)
        PROVE  Rests(r)
    <2>1. q # r
      BY <1>3 DEF Reschedule, GoTo, Active, InFlight
    <2>2. QED
      BY <1>3, <2>1 DEF Reschedule, GoTo, Rests, storeVars, intakeVars, PostingTypeOK
  <1>4. (Environment \/ UNCHANGED vars) => Rests(r)
    BY DEF Environment, Tick, EtlRewrites, vars, storeVars, intakeVars, benivoVars, Rests
  <1>5. QED
    BY <1>1, <1>2, <1>3, <1>4 DEF Next, Progresses

LEMMA ActiveAloneStep ==
  ASSUME TypeOK, ~Overlap, ActiveAlone, [Next]_vars
  PROVE  ActiveAlone'
  <1>1. ASSUME NEW r \in Runs, Active(r)', ~Active(r)
        PROVE  Start(r)
    <2>1. Works(r)
      BY <1>1, WorksOrRests DEF Rests, Active
    <2>2. QED
      BY <1>1, <2>1, WorksWhenActive
  <1>2. ASSUME NEW q \in Runs, NEW r \in Runs, Active(q)', Active(r)', q # r
        PROVE  ~Start(q)
    <2>1. SUFFICES ASSUME Start(q) PROVE FALSE
      OBVIOUS
    <2>2. pc'[r] = pc[r] /\ ~Active(r)
      BY <1>2, <2>1 DEF Start, MayStart, GoTo, TypeOK, InvocationsTypeOK
    <2>3. QED
      BY <1>2, <2>2 DEF Active
  <1>3. SUFFICES ASSUME NEW q \in Runs, NEW r \in Runs, Active(q)', Active(r)', q # r
                 PROVE  FALSE
    BY DEF ActiveAlone
  <1>4. Active(q) /\ Active(r)
    BY <1>1, <1>2, <1>3
  <1>5. QED
    BY <1>3, <1>4 DEF ActiveAlone

(***************************************************************************)
(* Classification.                                                         *)
(***************************************************************************)

\* What classify() is about to write was decided on the rows as they are.
VerdictsAreCurrent ==
  \A r \in Runs, e \in Candidates :
    pc[r] = "classify_write" /\ verdicts[r][e] # "NO_ROW" =>
      /\ cand[e].status # Posted
      /\ verdicts[r][e] = "READY_TO_POST" => cand[e].workflow = "Mobility"

LEMMA OnlyReadReachesWrite ==
  ASSUME TypeOK, NEW r \in Runs, Works(r), pc'[r] = "classify_write"
  PROVE  ClassifyRead(r)
  <1>1. pc[r] = "classify" \/ pc[r] = "classify_write" \/ Start(r)
    <2>1. StageAfterSync(r) # "classify_write" /\ StageAfterClassify(r) # "classify_write"
          /\ StageAfterSelection(r) # "classify_write"
      BY DEF StageAfterSync, StageAfterClassify, StageAfterSelection
    <2>2. CASE pc'[r] # pc[r]
      BY <2>1, <2>2, StageSteps
    <2>3. QED
      BY <2>2
  <1>2. ~Start(r)
    BY InvocationsAssumption
    DEF Start, GoTo, FirstStage, Commands, InvocationsAssumption, TypeOK, InvocationsTypeOK
  <1>3. IntakeStep(r)
    <2>1. ~PostingStep(r)
      BY <1>1, <1>2 DEF PostingStep, Select, Authorize, RequestRaises, EndPosting,
           EndRecording, RejectLocally, LookUp, CreateUser, UpdateCase, RecordResult, TurnsTo
    <2>2. ~ExplicitStep(r)
      BY <1>1, <1>2 DEF ExplicitStep, OpenBatch, OpenUat, Fetch, CheckLive, CheckUnposted,
           EndEvaluation, EvaluatesNext
    <2>3. QED
      BY <1>2, <2>1, <2>2 DEF Works
  <1>4. ~ClassifyCommit(r)
    BY DEF ClassifyCommit, GoTo, StageAfterClassify, TypeOK, InvocationsTypeOK
  <1>5. QED
    BY <1>1, <1>2, <1>3, <1>4 DEF IntakeStep, SyncUpsert, SyncHistory, SyncCommit

LEMMA VerdictsAreCurrentStep ==
  ASSUME TypeOK, ~Overlap, ActiveAlone, VerdictsAreCurrent, [Next]_vars
  PROVE  VerdictsAreCurrent'
  <1>1. SUFFICES ASSUME NEW r \in Runs, NEW e \in Candidates,
                        pc'[r] = "classify_write", verdicts'[r][e] # "NO_ROW"
                 PROVE  /\ cand'[e].status # Posted
                        /\ verdicts'[r][e] = "READY_TO_POST" => cand'[e].workflow = "Mobility"
    BY DEF VerdictsAreCurrent
  <1>2. Active(r)'
    BY <1>1 DEF Active, InFlight
  <1>3. CASE Rests(r)
    BY <1>1, <1>3 DEF Rests, VerdictsAreCurrent
  <1>4. CASE Works(r)
    <2>1. ClassifyRead(r)
      BY <1>1, <1>4, OnlyReadReachesWrite
    <2>2. cand' = cand /\ Classifiable(e) /\ verdicts'[r][e] = Classify(cand[e], source[e])
      BY <1>1, <2>1 DEF ClassifyRead, TypeOK, IntakeTypeOK, storeVars
    <2>3. QED
      BY <2>2 DEF Classifiable, Classify
  <1>5. QED
    BY <1>2, <1>3, <1>4, WorksOrRests

(***************************************************************************)
(* Selection.                                                              *)
(***************************************************************************)
Unlogged(e) == ~HasTerminalRow(e, "CREATE_USER")

\* The terminal eids of the batch are those of the log, and whoever has
\* passed the check against them, or the UAT check, has no terminal row.
EvaluationIsCurrent(r) ==
  pc[r] = "evaluate" =>
    /\ Selection[r] # "normal"
    /\ Selection[r] = "batch" => terminalSnap[r] = TerminalEids
    /\ \A e \in Candidates :
         \/ batch[r][e] \in {"ready", "incomplete"}
         \/ Selection[r] = "batch" /\ batch[r][e] \in {"fetched", "fetched_incomplete"}
         => Unlogged(e)

EvaluationsAreCurrent == \A r \in Runs : EvaluationIsCurrent(r)

\* One step of the evaluation.
LEMMA EvaluationAdvances ==
  ASSUME TypeOK, NEW r \in Runs, EvaluationIsCurrent(r), NEW e \in Candidates,
         Fetch(r, e) \/ CheckLive(r, e) \/ CheckUnposted(r, e)
  PROVE  EvaluationIsCurrent(r)'
  <1>1. PICK progress :
          /\ Advance(r, e, progress)
          /\ \/ progress \in {"ready", "incomplete"}
             \/ Selection[r] = "batch" /\ progress \in {"fetched", "fetched_incomplete"}
             => Unlogged(e)
    <2>1. pc[r] = "evaluate"
      BY DEF Fetch, CheckLive, CheckUnposted, EvaluatesNext
    <2>2. CASE Fetch(r, e)
      <3>1. CASE FetchedRowPasses(r, e)
        <4>1. Selection[r] = "batch" => Unlogged(e)
          BY <2>1, <3>1 DEF FetchedRowPasses, EvaluationIsCurrent, TerminalEids, Unlogged
        <4>2. QED
          BY <2>2, <3>1, <4>1 DEF Fetch
      <3>2. CASE ~FetchedRowPasses(r, e)
        BY <2>2, <3>2 DEF Fetch
      <3>3. QED
        BY <3>1, <3>2
    <2>3. CASE CheckLive(r, e)
      <3>1. Selection[r] # "uat" => Unlogged(e)
        BY <2>1, <2>3, PostingAssumption
        DEF CheckLive, EvaluationIsCurrent, PostingAssumption
      <3>2. QED
        BY <2>3, <3>1 DEF CheckLive
    <2>4. CASE CheckUnposted(r, e)
      BY <2>4 DEF CheckUnposted, TerminalEids, Unlogged
    <2>5. QED
      BY <2>2, <2>3, <2>4
  <1>2. \A f \in Candidates : batch'[r][f] = IF f = e THEN progress ELSE batch[r][f]
    BY <1>1 DEF Advance, TypeOK, PostingTypeOK
  <1>3. /\ UNCHANGED <<pc, postLog, terminalSnap>>
        /\ \A f \in Candidates : Unlogged(f)' = Unlogged(f)
        /\ TerminalEids' = TerminalEids
    BY DEF Fetch, CheckLive, CheckUnposted, storeVars, Unlogged, HasTerminalRow, TerminalEids
  <1>4. QED
    BY <1>1, <1>2, <1>3 DEF EvaluationIsCurrent

LEMMA EvaluationsAreCurrentStep ==
  ASSUME TypeOK, BatchFollowsStage, ~Overlap, ActiveAlone, EvaluationsAreCurrent, [Next]_vars
  PROVE  EvaluationsAreCurrent'
  <1>1. SUFFICES ASSUME NEW r \in Runs, pc'[r] = "evaluate" PROVE EvaluationIsCurrent(r)'
    BY DEF EvaluationsAreCurrent, EvaluationIsCurrent
  <1>2. Active(r)'
    BY <1>1 DEF Active, InFlight
  <1>3. CASE Rests(r)
    <2>1. /\ \A e \in Candidates : Unlogged(e)' = Unlogged(e)
          /\ TerminalEids' = TerminalEids
      BY <1>3 DEF Rests, Unlogged, HasTerminalRow, TerminalEids
    <2>2. QED
      BY <1>1, <1>3, <2>1 DEF Rests, EvaluationsAreCurrent, EvaluationIsCurrent
  <1>4. CASE Works(r)
    <2>1. \A stage : GoTo(r, stage) => pc'[r] = stage
      BY DEF GoTo, TypeOK, InvocationsTypeOK
    <2>2. ~Start(r) /\ ~IntakeStep(r)
      BY <1>1, <2>1, InvocationsAssumption
      DEF Start, FirstStage, Commands, InvocationsAssumption, IntakeStep, SyncUpsert,
          SyncHistory, SyncCommit, ClassifyRead, ClassifyCommit, StageAfterSync,
          StageAfterClassify
    <2>3. ~PostingStep(r)
      BY <1>1, <2>1 DEF PostingStep, Select, StageAfterSelection, Authorize, RequestRaises,
         EndPosting, EndRecording, RejectLocally, LookUp, CreateUser, UpdateCase,
         RecordResult, TurnsTo
    <2>4. CASE OpenBatch(r) \/ OpenUat(r)
      <3>1. \A e \in Candidates : batch[r][e] = "out"
        BY <2>4 DEF OpenBatch, OpenUat, BatchFollowsStage, StageHolds, BeforeSelection, NoBatch
      <3>2. \A e \in Candidates : batch'[r][e] \in {"out", "pending"}
        BY <2>4, <3>1 DEF OpenBatch, OpenUat, TypeOK, PostingTypeOK
      <3>3. Selection[r] # "normal"
        BY <2>4 DEF OpenBatch, OpenUat
      <3>4. TerminalEids' = TerminalEids
        BY <2>4 DEF OpenBatch, OpenUat, storeVars, TerminalEids, HasTerminalRow
      <3>5. Selection[r] = "batch" => terminalSnap'[r] = TerminalEids
        BY <1>1, <2>1, <2>4 DEF OpenBatch, OpenUat, StageAfterSelection, TypeOK, ExplicitTypeOK
      <3>6. QED
        BY <3>2, <3>3, <3>4, <3>5 DEF EvaluationIsCurrent
    <2>5. ASSUME NEW e \in Candidates, Fetch(r, e) \/ CheckLive(r, e) \/ CheckUnposted(r, e)
          PROVE  EvaluationIsCurrent(r)'
      BY <2>5, EvaluationAdvances DEF EvaluationsAreCurrent
    <2>6. ~EndEvaluation(r)
      BY <1>1, <2>1 DEF EndEvaluation, StageAfterSelection
    <2>7. QED
      BY <1>4, <2>2, <2>3, <2>4, <2>5, <2>6 DEF Works, ExplicitStep
  <1>5. QED
    BY <1>2, <1>3, <1>4, WorksOrRests

(***************************************************************************)
(* Posting.                                                                *)
(***************************************************************************)
InHand == {"authorize", "post", "record"}

\* Recording one application leaves the log of the others as it is.
LEMMA RecordingConcernsOne ==
  ASSUME NEW r \in Runs, NEW e \in Candidates, RecordResult(r, e), NEW f \in Candidates \ {e}
  PROVE  Unlogged(f)' = Unlogged(f)
  <1> DEFINE rows == {CreateRow(r, e, batch[r][e])} \cup CaseRows(r, e, batch[r][e])
  <1>1. batch[r][e] \in Outcomes /\ postLog' \in {postLog, postLog \cup rows}
    BY RecordedRows
  <1>2. \A row \in rows : row.eid = e
    BY <1>1, RowsOfResult
  <1> HIDE DEF rows
  <1>3. QED
    BY <1>1, <1>2 DEF Unlogged, HasTerminalRow

LEMMA PostingInHand ==
  ASSUME TypeOK, InHandIsUnlogged, NEW r \in Runs, PostingStep(r), pc'[r] \in InHand,
         NEW e \in Candidates, batch'[r][e] \notin {"out", "recorded"}
  PROVE  Unlogged(e)'
  <1>1. \A stage : GoTo(r, stage) => pc'[r] = stage
    BY DEF GoTo, TypeOK, InvocationsTypeOK
  <1>2. (/\ pc[r] \in InHand /\ postLog' = postLog
         /\ batch[r][e] \notin {"out", "recorded"}) => Unlogged(e)'
    BY DEF InHandIsUnlogged, Unlogged, InHand, HasTerminalRow
  <1>3. CASE Select(r)
    <2>1. batch'[r][e] = CASE e \notin ReadyCandidates -> "out"
                           [] e \in ReadyCandidates /\ Postable(e) -> "ready"
                           [] e \in ReadyCandidates /\ ~Postable(e) -> "incomplete"
      BY <1>3 DEF Select, TypeOK, PostingTypeOK
    <2>2. e \in ReadyCandidates
      BY <2>1
    <2>3. postLog' = postLog
      BY <1>3 DEF Select, storeVars
    <2>4. QED
      BY <2>2, <2>3 DEF ReadyCandidates, Selectable, Unlogged, HasTerminalRow
  <1>4. CASE Authorize(r) \/ EndPosting(r)
    BY <1>2, <1>4 DEF Authorize, EndPosting, InHand, storeVars
  <1>5. CASE RequestRaises(r) \/ EndRecording(r)
    BY <1>1, <1>5 DEF RequestRaises, EndRecording, InHand
  <1>6. ASSUME NEW f \in Candidates,
               RejectLocally(r, f) \/ LookUp(r, f) \/ CreateUser(r, f) \/ UpdateCase(r, f)
        PROVE  Unlogged(e)'
    <2>1. /\ pc[r] = "post" /\ postLog' = postLog
          /\ batch[r][f] \notin {"out", "recorded"}
      BY <1>6 DEF RejectLocally, LookUp, CreateUser, UpdateCase, TurnsTo, IsFirst, storeVars
    <2>2. \E progress : Advance(r, f, progress)
      BY <1>6 DEF RejectLocally, LookUp, CreateUser, UpdateCase
    <2>3. batch[r][e] \notin {"out", "recorded"}
      BY <2>1, <2>2 DEF Advance, TypeOK, PostingTypeOK
    <2>4. QED
      BY <1>2, <2>1, <2>3 DEF InHand
  <1>7. ASSUME NEW f \in Candidates, RecordResult(r, f)
        PROVE  Unlogged(e)'
    <2>1. Advance(r, f, "recorded") /\ pc[r] = "record"
      BY <1>1, <1>7 DEF RecordResult, InHand
    <2>2. e # f /\ batch[r][e] \notin {"out", "recorded"}
      BY <2>1 DEF Advance, TypeOK, PostingTypeOK
    <2>3. Unlogged(e)
      BY <2>1, <2>2 DEF InHandIsUnlogged, Unlogged
    <2>4. QED
      BY <1>7, <2>2, <2>3, RecordingConcernsOne
  <1>8. QED
    BY <1>3, <1>4, <1>5, <1>6, <1>7 DEF PostingStep

LEMMA ExplicitInHand ==
  ASSUME TypeOK, BatchFollowsStage, EvaluationsAreCurrent, NEW r \in Runs, ExplicitStep(r),
         pc'[r] \in InHand, NEW e \in Candidates, batch'[r][e] # "out"
  PROVE  Unlogged(e)'
  <1>1. \A stage : GoTo(r, stage) => pc'[r] = stage
    BY DEF GoTo, TypeOK, InvocationsTypeOK
  <1>2. ~OpenBatch(r) /\ ~OpenUat(r)
    BY <1>1 DEF OpenBatch, OpenUat, InHand, BatchFollowsStage, StageHolds, BeforeSelection,
                NoBatch
  <1>3. \A f \in Candidates : ~Fetch(r, f) /\ ~CheckLive(r, f) /\ ~CheckUnposted(r, f)
    BY DEF Fetch, CheckLive, CheckUnposted, EvaluatesNext, InHand
  <1>4. EndEvaluation(r)
    BY <1>2, <1>3 DEF ExplicitStep
  <1>5. batch[r][e] \in {"ready", "incomplete"}
    BY <1>4 DEF EndEvaluation, BatchFollowsStage, StageHolds
  <1>6. Unlogged(e)
    BY <1>4, <1>5 DEF EndEvaluation, EvaluationsAreCurrent, EvaluationIsCurrent
  <1>7. QED
    BY <1>4, <1>6 DEF EndEvaluation, storeVars, Unlogged, HasTerminalRow

LEMMA InHandIsUnloggedStep ==
  ASSUME TypeOK, BatchFollowsStage, ~Overlap, ActiveAlone, EvaluationsAreCurrent,
         InHandIsUnlogged, [Next]_vars
  PROVE  InHandIsUnlogged'
  <1>1. SUFFICES ASSUME NEW r \in Runs, NEW e \in Candidates, pc'[r] \in InHand,
                        batch'[r][e] \notin {"out", "recorded"}
                 PROVE  Unlogged(e)'
    BY DEF InHandIsUnlogged, InHand, Unlogged
  <1>2. Active(r)'
    BY <1>1 DEF Active, InFlight, InHand
  <1>3. CASE Rests(r)
    BY <1>1, <1>3 DEF Rests, InHandIsUnlogged, InHand, Unlogged, HasTerminalRow
  <1>4. CASE Start(r) \/ IntakeStep(r)
    <2>1. \A stage : GoTo(r, stage) => pc'[r] = stage
      BY DEF GoTo, TypeOK, InvocationsTypeOK
    <2>2. QED
      BY <1>1, <1>4, <2>1, InvocationsAssumption
      DEF Start, FirstStage, Commands, InvocationsAssumption, IntakeStep, SyncUpsert,
          SyncHistory, SyncCommit, ClassifyRead, ClassifyCommit, StageAfterSync,
          StageAfterClassify, InHand
  <1>5. QED
    BY <1>1, <1>2, <1>3, <1>4, WorksOrRests, PostingInHand, ExplicitInHand DEF Works

(***************************************************************************)
(* The status and the log.                                                 *)
(***************************************************************************)

\* Nothing takes POSTED away: a classification does not hold a verdict on a
\* POSTED row, and nobody who is being recorded has been posted before.
LEMMA PostedStays ==
  ASSUME TypeOK, PostedIsLogged, VerdictsAreCurrent, InHandIsUnlogged, [Next]_vars,
         NEW e \in Candidates, cand[e].status = Posted
  PROVE  cand'[e].status = Posted
  <1>1. CASE cand' = cand
    BY <1>1
  <1>2. ASSUME NEW r \in Runs, SyncCommit(r)
        PROVE  cand'[e].status = Posted
    BY <1>2, SyncCommitRows
  <1>3. ASSUME NEW r \in Runs, ClassifyCommit(r)
        PROVE  cand'[e].status = Posted
    BY <1>3 DEF ClassifyCommit, VerdictsAreCurrent
  <1>4. ASSUME NEW r \in Runs, NEW f \in Candidates, RecordResult(r, f)
        PROVE  cand'[e].status = Posted
    <2>1. Unlogged(f)
      BY <1>4 DEF RecordResult, IsFirst, Outcomes, InHandIsUnlogged, Unlogged
    <2>2. e # f
      BY <2>1 DEF PostedIsLogged, Unlogged
    <2>3. QED
      BY <1>4, <2>2 DEF RecordResult, TypeOK, StoreTypeOK
  <1>5. CASE cand' # cand
    <2>1. PICK r \in Runs : IntakeStep(r) \/ \E f \in Candidates : RecordResult(r, f)
      BY <1>5, OnlyIntakeAndRecordingWrite
    <2>2. ~SyncUpsert(r) /\ ~SyncHistory(r) /\ ~ClassifyRead(r)
      BY <1>5 DEF SyncUpsert, SyncHistory, ClassifyRead, storeVars
    <2>3. QED
      BY <1>2, <1>3, <1>4, <2>1, <2>2 DEF IntakeStep
  <1>6. QED
    BY <1>1, <1>5

LEMMA LoggedIsPostedStep ==
  ASSUME TypeOK, PostedIsLogged, VerdictsAreCurrent, InHandIsUnlogged, LoggedIsPosted,
         [Next]_vars
  PROVE  LoggedIsPosted'
  <1>1. SUFFICES ASSUME NEW e \in Candidates, ~Unlogged(e)' PROVE cand'[e].status = Posted
    BY DEF LoggedIsPosted, Unlogged
  <1>2. CASE ~Unlogged(e)
    BY <1>2, PostedStays DEF LoggedIsPosted, Unlogged
  <1>3. CASE Unlogged(e)
    <2>1. postLog' # postLog
      BY <1>1, <1>3 DEF Unlogged, HasTerminalRow
    <2>2. PICK r \in Runs, f \in Candidates : RecordResult(r, f)
      BY <2>1, OnlyRecordingLogs
    <2>3. e = f
      BY <1>1, <1>3, <2>2, RecordingConcernsOne
    <2> DEFINE rows == {CreateRow(r, e, batch[r][e])} \cup CaseRows(r, e, batch[r][e])
    <2>4. /\ batch[r][e] \in Outcomes
          /\ postLog' = postLog \cup rows
          /\ cand' = [cand EXCEPT ![e].status = CandidateStatusOf(LogStatusOf(batch[r][e]))]
      BY <2>1, <2>2, <2>3 DEF RecordResult, IsFirst
    <2>5. \A row \in rows : row.action = "CREATE_USER" => row = CreateRow(r, e, batch[r][e])
      BY <2>4, RowsOfResult
    <2> HIDE DEF rows
    <2>6. LogStatusOf(batch[r][e]) \in TerminalPostLogStatuses
      BY <1>1, <1>3, <2>4, <2>5 DEF Unlogged, HasTerminalRow, CreateRow
    <2>7. cand[e] \in CandidateRow /\ cand \in [Candidates -> CandidateRow]
      BY DEF TypeOK, StoreTypeOK
    <2>8. QED
      BY <2>4, <2>6, <2>7 DEF CandidateStatusOf, CandidateRow
  <1>4. QED
    BY <1>2, <1>3

LEMMA ReadyIsCachedStep ==
  ASSUME TypeOK, VerdictsAreCurrent, ReadyIsCachedInMobility, [Next]_vars
  PROVE  ReadyIsCachedInMobility'
  <1>1. SUFFICES ASSUME NEW e \in Candidates, cand'[e].status = "READY_TO_POST"
                 PROVE  cand'[e].workflow = "Mobility"
    BY DEF ReadyIsCachedInMobility
  <1>2. cand \in [Candidates -> CandidateRow]
    BY DEF TypeOK, StoreTypeOK
  <1>3. CASE cand' = cand
    BY <1>1, <1>3 DEF ReadyIsCachedInMobility
  <1>4. ASSUME NEW r \in Runs, SyncCommit(r)
        PROVE  cand'[e].workflow = "Mobility"
    BY <1>1, <1>4, SyncCommitRows DEF ReadyIsCachedInMobility
  <1>5. ASSUME NEW r \in Runs, ClassifyCommit(r)
        PROVE  cand'[e].workflow = "Mobility"
    <2>1. cand'[e] = IF verdicts[r][e] = "NO_ROW" THEN cand[e]
                     ELSE [cand[e] EXCEPT !.status = verdicts[r][e]]
      BY <1>5 DEF ClassifyCommit
    <2>2. CASE verdicts[r][e] = "NO_ROW"
      BY <1>1, <2>1, <2>2 DEF ReadyIsCachedInMobility
    <2>3. CASE verdicts[r][e] # "NO_ROW"
      <3>1. cand'[e].status = verdicts[r][e] /\ cand'[e].workflow = cand[e].workflow
        BY <1>2, <2>1, <2>3 DEF CandidateRow
      <3>2. QED
        BY <1>1, <1>5, <2>3, <3>1 DEF ClassifyCommit, VerdictsAreCurrent
    <2>4. QED
      BY <2>2, <2>3
  <1>6. ASSUME NEW r \in Runs, NEW f \in Candidates, RecordResult(r, f)
        PROVE  cand'[e].workflow = "Mobility"
    <2> DEFINE status == CandidateStatusOf(LogStatusOf(batch[r][f]))
    <2>1. cand' = cand \/ cand' = [cand EXCEPT ![f].status = status]
      BY <1>6 DEF RecordResult
    <2>2. status # "READY_TO_POST"
      BY DEF CandidateStatusOf, Posted
    <2> HIDE DEF status
    <2>3. QED
      BY <1>1, <1>2, <2>1, <2>2 DEF CandidateRow, ReadyIsCachedInMobility
  <1>7. CASE cand' # cand
    <2>1. PICK r \in Runs : IntakeStep(r) \/ \E f \in Candidates : RecordResult(r, f)
      BY <1>7, OnlyIntakeAndRecordingWrite
    <2>2. ~SyncUpsert(r) /\ ~SyncHistory(r) /\ ~ClassifyRead(r)
      BY <1>7 DEF SyncUpsert, SyncHistory, ClassifyRead, storeVars
    <2>3. QED
      BY <1>4, <1>5, <1>6, <2>1, <2>2 DEF IntakeStep
  <1>8. QED
    BY <1>3, <1>7

(***************************************************************************)
(* Accounts.                                                               *)
(***************************************************************************)

\* The loop is under way with one application at a time, and whoever is
\* unknown to the run is unknown to Benivo.
LoopHolds(r) ==
  pc[r] = "post" => \A e \in Candidates :
    /\ \A f \in Candidates : batch[r][e] \in UnderWay /\ batch[r][f] \in UnderWay => e = f
    /\ batch[r][e] = "unknown" => ~HasAccount(EmailOf[e])

LoopsHold == \A r \in Runs : LoopHolds(r)

\* The loop takes one application a step further.
LEMMA LoopAdvances ==
  ASSUME TypeOK, NEW r \in Runs, LoopHolds(r), pc[r] = "post", NEW e \in Candidates,
         NEW progress, Advance(r, e, progress),
         \/ /\ \A f \in Candidates : batch[r][f] \notin UnderWay
            /\ progress = "unknown" => ~HasAccount(EmailOf[e])
            /\ UNCHANGED accounts
         \/ /\ batch[r][e] \in UnderWay
            /\ progress # "unknown"
  PROVE  LoopHolds(r)'
  <1>1. \A f \in Candidates : batch'[r][f] = IF f = e THEN progress ELSE batch[r][f]
    BY DEF Advance, TypeOK, PostingTypeOK
  <1>2. CASE /\ \A f \in Candidates : batch[r][f] \notin UnderWay
             /\ progress = "unknown" => ~HasAccount(EmailOf[e])
             /\ UNCHANGED accounts
    BY <1>1, <1>2 DEF LoopHolds, UnderWay, HasAccount
  <1>3. CASE batch[r][e] \in UnderWay /\ progress # "unknown"
    <2>1. \A f \in Candidates \ {e} : batch[r][f] \notin UnderWay
      BY <1>3 DEF LoopHolds
    <2>2. QED
      BY <1>1, <1>3, <2>1 DEF LoopHolds, UnderWay
  <1>4. QED
    BY <1>2, <1>3

LEMMA LoopsHoldStep ==
  ASSUME TypeOK, BatchFollowsStage, ~Overlap, "lookup" \notin Faults, ActiveAlone,
         LoopsHold, [Next]_vars
  PROVE  LoopsHold'
  <1>1. SUFFICES ASSUME NEW r \in Runs, pc'[r] = "post" PROVE LoopHolds(r)'
    BY DEF LoopsHold, LoopHolds
  <1>2. Active(r)' /\ LoopHolds(r)
    BY <1>1 DEF Active, InFlight, LoopsHold
  <1>3. CASE Rests(r)
    BY <1>1, <1>2, <1>3 DEF Rests, benivoVars, LoopHolds, HasAccount
  <1>4. CASE Works(r)
    <2>1. \A stage : GoTo(r, stage) => pc'[r] = stage
      BY DEF GoTo, TypeOK, InvocationsTypeOK
    <2>2. ~Start(r) /\ ~IntakeStep(r) /\ ~ExplicitStep(r)
      BY <1>1, <2>1, InvocationsAssumption
      DEF Start, FirstStage, Commands, InvocationsAssumption, IntakeStep, SyncUpsert,
          SyncHistory, SyncCommit, ClassifyRead, ClassifyCommit, StageAfterSync,
          StageAfterClassify, ExplicitStep, OpenBatch, OpenUat, Fetch, CheckLive,
          CheckUnposted, EndEvaluation, EvaluatesNext, StageAfterSelection
    <2>3. ~Select(r) /\ ~RequestRaises(r) /\ ~EndPosting(r) /\ ~EndRecording(r)
      BY <1>1, <2>1 DEF Select, StageAfterSelection, RequestRaises, EndPosting, EndRecording
    <2>4. CASE Authorize(r)
      <3>1. \A e \in Candidates : batch'[r][e] \in {"out", "ready", "incomplete"}
        BY <2>4 DEF Authorize, BatchFollowsStage, StageHolds
      <3>2. QED
        BY <3>1 DEF LoopHolds, UnderWay
    <2>5. ASSUME NEW e \in Candidates, RejectLocally(r, e) \/ LookUp(r, e)
          PROVE  LoopHolds(r)'
      <3>1. /\ pc[r] = "post"
            /\ \A f \in Candidates : batch[r][f] \notin UnderWay
            /\ UNCHANGED accounts
        BY <2>5 DEF RejectLocally, LookUp, TurnsTo, benivoVars
      <3>2. \E progress : /\ Advance(r, e, progress)
                          /\ progress = "unknown" => ~HasAccount(EmailOf[e])
        BY <1>4, <2>5 DEF RejectLocally, LookUp, FindsUser, Suffer
      <3>3. QED
        BY <1>2, <3>1, <3>2, LoopAdvances
    <2>6. ASSUME NEW e \in Candidates, CreateUser(r, e) \/ UpdateCase(r, e)
          PROVE  LoopHolds(r)'
      <3>1. pc[r] = "post" /\ batch[r][e] \in UnderWay
        BY <2>6 DEF CreateUser, UpdateCase, UnderWay
      <3>2. \E progress : Advance(r, e, progress) /\ progress # "unknown"
        BY <2>6 DEF CreateUser, UpdateCase
      <3>3. QED
        BY <1>2, <3>1, <3>2, LoopAdvances
    <2>7. \A e \in Candidates : ~RecordResult(r, e)
      BY <1>1, <2>1 DEF RecordResult
    <2>8. QED
      BY <1>4, <2>2, <2>3, <2>4, <2>5, <2>6, <2>7 DEF Works, PostingStep
  <1>5. QED
    BY <1>2, <1>3, <1>4, WorksOrRests

\* An account is opened for an address that has none, because Benivo refuses
\* a second one or because the lookup has just said so.
LEMMA OneAccountStep ==
  ASSUME TypeOK, RefusesDuplicates \/ LoopsHold, OneAccountPerAddress, [Next]_vars
  PROVE  OneAccountPerAddress'
  <1>1. ASSUME NEW e \in Candidates, ~HasAccount(EmailOf[e]), OpenAccount(EmailOf[e])
        PROVE  OneAccountPerAddress'
    <2>1. accounts[EmailOf[e]] = 0
      BY <1>1, EmailTyped DEF HasAccount, TypeOK, BenivoTypeOK
    <2>2. QED
      BY <1>1, <2>1, EmailTyped DEF OpenAccount, OneAccountPerAddress, TypeOK, BenivoTypeOK
  <1>2. accounts' = accounts => OneAccountPerAddress'
    BY DEF OneAccountPerAddress
  <1>3. ASSUME NEW r \in Runs, NEW e \in Candidates, pc[r] = "post", batch[r][e] = "unknown",
               ~Refuses(EmailOf[e]), OpenAccount(EmailOf[e])
        PROVE  OneAccountPerAddress'
    BY <1>1, <1>3 DEF Refuses, LoopsHold, LoopHolds
  <1>4. CASE benivoVars' # benivoVars
    <2>1. PICK r \in Runs : \/ RequestRaises(r)
                            \/ \E e \in Candidates : CreateUser(r, e) \/ UpdateCase(r, e)
      BY <1>4, OnlyRequestsReachBenivo
    <2>2. CASE RequestRaises(r)
      BY <1>2, <1>3, <2>2 DEF RequestRaises, benivoVars
    <2>3. ASSUME NEW e \in Candidates, CreateUser(r, e)
          PROVE  OneAccountPerAddress'
      BY <1>2, <1>3, <2>3 DEF CreateUser
    <2>4. ASSUME NEW e \in Candidates, UpdateCase(r, e)
          PROVE  OneAccountPerAddress'
      BY <1>2, <2>4 DEF UpdateCase
    <2>5. QED
      BY <2>1, <2>2, <2>3, <2>4
  <1>5. CASE benivoVars' = benivoVars
    BY <1>2, <1>5 DEF benivoVars
  <1>6. QED
    BY <1>4, <1>5

(***************************************************************************)
(* The theorems.                                                           *)
(***************************************************************************)

\* What makes the serial pipeline safe: one active run, and everything it
\* has read and will use is still so.
SerialInv ==
  /\ ActiveAlone
  /\ VerdictsAreCurrent
  /\ EvaluationsAreCurrent
  /\ InHandIsUnlogged
  /\ LoggedIsPosted
  /\ ReadyIsCachedInMobility

\* The invariant of serial invocations, for any number of them, any faults
\* and any rewriting of the source.
THEOREM SerialInvHolds ==
  ASSUME ~Overlap
  PROVE  Spec => []SerialInv
  <1>1. Init => SerialInv
    BY DEF Init, StoreInit, InvocationsInit, SerialInv, ActiveAlone, Active, InFlight,
           VerdictsAreCurrent, EvaluationsAreCurrent, EvaluationIsCurrent, InHandIsUnlogged,
           LoggedIsPosted, HasTerminalRow, ReadyIsCachedInMobility, NoCandidate
  <1>2. TypeOK /\ PostedIsLogged /\ BatchFollowsStage /\ SerialInv /\ [Next]_vars
          => SerialInv'
    BY ActiveAloneStep, VerdictsAreCurrentStep, EvaluationsAreCurrentStep,
       InHandIsUnloggedStep, LoggedIsPostedStep, ReadyIsCachedStep
    DEF SerialInv
  <1>3. QED
    BY <1>1, <1>2, TypeCorrect, PostedHasTerminalRow, BatchFollowsStageHolds, PTL DEF Spec

\* Nobody whom a run is about to post or to record has a terminal row: what
\* the selection found holds to the last record, whichever route selected.
THEOREM InHandStaysUnlogged ==
  ASSUME ~Overlap
  PROVE  Spec => []InHandIsUnlogged
  <1>1. SerialInv => InHandIsUnlogged
    BY DEF SerialInv
  <1>2. QED
    BY <1>1, SerialInvHolds, PTL

\* A terminal CREATE_USER row and POSTED come and stay together; with
\* PostedHasTerminalRow the table and the audit trail agree.
THEOREM LogAndStatusAgree ==
  ASSUME ~Overlap
  PROVE  Spec => []LoggedIsPosted
  <1>1. SerialInv => LoggedIsPosted
    BY DEF SerialInv
  <1>2. QED
    BY <1>1, SerialInvHolds, PTL

\* No sync, classification or attempt takes POSTED away.
THEOREM PostedStaysPosted ==
  ASSUME ~Overlap
  PROVE  Spec => PostedIsTerminal
  <1>1. TypeOK /\ PostedIsLogged /\ SerialInv /\ [Next]_vars
          => [\A e \in Candidates : cand[e].status = Posted => cand'[e].status = Posted]_vars
    BY PostedStays DEF SerialInv
  <1>2. QED
    BY <1>1, TypeCorrect, PostedHasTerminalRow, SerialInvHolds, PTL DEF Spec, PostedIsTerminal

\* Nobody is READY_TO_POST whose cached workflow is not Mobility.
THEOREM ReadyIsInMobility ==
  ASSUME ~Overlap
  PROVE  Spec => []ReadyIsCachedInMobility
  <1>1. SerialInv => ReadyIsCachedInMobility
    BY DEF SerialInv
  <1>2. QED
    BY <1>1, SerialInvHolds, PTL

\* No address gets two accounts, although timeouts, lost replies and crashes
\* make runs try again, and applications share addresses: because Benivo
\* refuses the second, or, if it does not, because the lookup before each
\* creation is answered and nobody creates in between.
THEOREM NoSecondAccount ==
  ASSUME RefusesDuplicates \/ (~Overlap /\ "lookup" \notin Faults)
  PROVE  Spec => []OneAccountPerAddress
  <1>1. Init => OneAccountPerAddress /\ LoopsHold
    BY DEF Init, BenivoInit, InvocationsInit, OneAccountPerAddress, LoopsHold, LoopHolds
  <1>2. CASE RefusesDuplicates
    <2>1. TypeOK /\ OneAccountPerAddress /\ [Next]_vars => OneAccountPerAddress'
      BY <1>2, OneAccountStep
    <2>2. QED
      BY <1>1, <2>1, TypeCorrect, PTL DEF Spec
  <1>3. CASE ~Overlap /\ "lookup" \notin Faults
    <2>1. SerialInv => ActiveAlone
      BY DEF SerialInv
    <2>2. Spec => []SerialInv
      BY <1>3, SerialInvHolds
    <2>3. TypeOK /\ BatchFollowsStage /\ ActiveAlone /\ OneAccountPerAddress /\ LoopsHold
            /\ [Next]_vars => (OneAccountPerAddress /\ LoopsHold)'
      BY <1>3, LoopsHoldStep, OneAccountStep
    <2>4. QED
      BY <1>1, <2>1, <2>2, <2>3, TypeCorrect, BatchFollowsStageHolds, PTL DEF Spec
  <1>4. QED
    BY <1>2, <1>3

=============================================================================
