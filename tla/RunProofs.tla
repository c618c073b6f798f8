------------------------------ MODULE RunProofs ------------------------------
(***************************************************************************)
(* What one invocation does, beside any number of others that overlap with *)
(* it: it leaves alone whoever is settled, it never goes back, and it is   *)
(* never stuck.  The last two are the part of termination that needs no    *)
(* fairness.                                                               *)
(***************************************************************************)
EXTENDS PipelineProofs, FunctionTheorems, WellFoundedInduction

(***************************************************************************)
(* Each entry of a configuration is evaluated by the overrides only.       *)
(***************************************************************************)
OnlyOverridesEvaluate ==
  \A r \in Runs : pc[r] = "evaluate" => Selection[r] \in {"batch", "uat"}

LEMMA OnlyOverridesEvaluateStep ==
  ASSUME TypeOK, OnlyOverridesEvaluate, [Next]_vars
  PROVE  OnlyOverridesEvaluate'
  <1>1. SUFFICES ASSUME NEW r \in Runs, pc'[r] = "evaluate", pc[r] # "evaluate"
                 PROVE  Selection[r] \in {"batch", "uat"}
    BY DEF OnlyOverridesEvaluate
  <1>2. ASSUME NEW q \in Runs, Works(q)
        PROVE  Selection[r] \in {"batch", "uat"}
    <2>1. q = r
      BY <1>1, <1>2, WorksStage DEF TypeOK, InvocationsTypeOK
    <2>2. pc[r] = "select"
      <3>1. ~Start(r)
        BY <1>1, InvocationsAssumption
        DEF Start, GoTo, FirstStage, TypeOK, InvocationsTypeOK, InvocationsAssumption, Commands
      <3>2. StageAfterSync(r) # "evaluate" /\ StageAfterClassify(r) # "evaluate"
        BY DEF StageAfterSync, StageAfterClassify
      <3>3. QED
        BY <1>1, <1>2, <2>1, <3>1, <3>2, StageSteps
    <2>3. CASE IntakeStep(r) \/ Start(r)
      BY <2>2, <2>3 DEF Start, IntakeStep, SyncUpsert, SyncHistory, SyncCommit,
                        ClassifyRead, ClassifyCommit
    <2>4. CASE PostingStep(r)
      <3>1. ~\E e \in Candidates : \/ RejectLocally(r, e) \/ LookUp(r, e) \/ CreateUser(r, e)
                                   \/ UpdateCase(r, e) \/ RecordResult(r, e)
        BY <2>2 DEF RejectLocally, LookUp, CreateUser, UpdateCase, RecordResult, TurnsTo
      <3>2. ~(Authorize(r) \/ EndPosting(r) \/ EndRecording(r) \/ RequestRaises(r))
        BY <2>2 DEF Authorize, EndPosting, EndRecording, RequestRaises, TurnsTo
      <3>3. Select(r)
        BY <2>4, <3>1, <3>2 DEF PostingStep
      <3>4. pc'[r] = StageAfterSelection(r)
        BY <3>3 DEF Select, GoTo, TypeOK, InvocationsTypeOK
      <3>5. QED
        BY <1>1, <3>4 DEF StageAfterSelection
    <2>5. CASE ExplicitStep(r)
      BY <2>2, <2>5 DEF ExplicitStep, OpenBatch, OpenUat, Fetch, CheckLive, CheckUnposted,
                        EvaluatesNext, EndEvaluation
    <2>6. QED
      BY <1>2, <2>1, <2>3, <2>4, <2>5 DEF Works
  <1>3. ASSUME NEW q \in Runs, Report(q) \/ Reschedule(q) \/ Die(q)
        PROVE  FALSE
    BY <1>1, <1>3 DEF Report, Reschedule, Die, GoTo, TypeOK, InvocationsTypeOK
  <1>4. ~Environment /\ ~UNCHANGED vars
    BY <1>1 DEF Environment, vars
  <1>5. QED
    BY <1>2, <1>3, <1>4 DEF Next, Progresses

LEMMA OnlyOverridesEvaluateHolds == Spec => []OnlyOverridesEvaluate
  <1>1. Init => OnlyOverridesEvaluate
    BY DEF Init, InvocationsInit, OnlyOverridesEvaluate
  <1>2. TypeOK /\ OnlyOverridesEvaluate /\ [Next]_vars => OnlyOverridesEvaluate'
    BY OnlyOverridesEvaluateStep
  <1>3. QED
    BY <1>1, <1>2, TypeCorrect, PTL DEF Spec

(***************************************************************************)
(* Whoever is settled.                                                     *)
(***************************************************************************)
LEMMA IntakeLeavesSettled ==
  ASSUME TypeOK, NEW r \in Runs, StageHolds(r), NEW e \in Candidates,
         Start(r) \/ IntakeStep(r), UNCHANGED batch
  PROVE  ~Pursues(r, e)'
  <1>1. pc[r] \in BeforeSelection
    BY DEF Start, IntakeStep, SyncUpsert, SyncHistory, SyncCommit, ClassifyRead,
           ClassifyCommit, BeforeSelection
  <1>2. batch'[r][e] = "out"
    BY <1>1 DEF StageHolds, NoBatch
  <1>3. QED
    BY <1>2 DEF Pursues, Evaluated

LEMMA PostingLeavesSettled ==
  ASSUME TypeOK, NEW r \in Runs, NEW e \in Candidates, HasTerminalRow(e, "CREATE_USER"),
         ~Pursues(r, e), PostingStep(r), UNCHANGED terminalSnap
  PROVE  ~Pursues(r, e)'
  <1>1. \A stage : GoTo(r, stage) => pc'[r] = stage
    BY DEF GoTo, TypeOK, InvocationsTypeOK
  <1>2. CASE Select(r)
    <2>1. e \notin ReadyCandidates
      BY DEF ReadyCandidates, Selectable
    <2>2. batch'[r][e] = "out"
      BY <1>2, <2>1 DEF Select, TypeOK, PostingTypeOK
    <2>3. QED
      BY <2>2 DEF Pursues, Evaluated
  <1>3. CASE Authorize(r) \/ RequestRaises(r) \/ EndPosting(r) \/ EndRecording(r)
    <2>1. batch' = batch /\ pc'[r] \in {"post", "failed", "record", "report"}
      BY <1>1, <1>3 DEF Authorize, RequestRaises, EndPosting, EndRecording
    <2>2. pc[r] \in {"authorize", "post", "record"}
      BY <1>3 DEF Authorize, RequestRaises, EndPosting, EndRecording, TurnsTo
    <2>3. QED
      BY <2>1, <2>2 DEF Pursues
  <1>4. ASSUME NEW f \in Candidates,
               \/ RejectLocally(r, f) \/ LookUp(r, f) \/ CreateUser(r, f)
               \/ UpdateCase(r, f) \/ RecordResult(r, f)
        PROVE  ~Pursues(r, e)'
    <2>1. /\ pc[r] \in {"post", "record"}
          /\ batch[r][f] \notin Evaluated \cup {"out", "recorded"}
      BY <1>4 DEF RejectLocally, LookUp, CreateUser, UpdateCase, RecordResult, TurnsTo,
                  IsFirst, Outcomes, Evaluated
    <2>2. f # e
      BY <2>1 DEF Pursues
    <2>3. batch' = batch \/ \E progress : Advance(r, f, progress)
      BY <1>4 DEF RejectLocally, LookUp, CreateUser, UpdateCase, RecordResult
    <2>4. batch'[r][e] = batch[r][e]
      BY <2>2, <2>3 DEF Advance, TypeOK, PostingTypeOK
    <2>5. pc' = pc \/ pc'[r] = "failed"
      BY <1>1, <1>4 DEF RejectLocally, LookUp, CreateUser, UpdateCase, RecordResult
    <2>6. QED
      BY <2>1, <2>4, <2>5 DEF Pursues
  <1>5. QED
    BY <1>2, <1>3, <1>4 DEF PostingStep

LEMMA ExplicitLeavesSettled ==
  ASSUME TypeOK, NEW r \in Runs, StageHolds(r), OnlyOverridesEvaluate,
         NEW e \in Candidates, HasTerminalRow(e, "CREATE_USER"),
         ~Pursues(r, e), ExplicitStep(r)
  PROVE  ~Pursues(r, e)'
  <1> USE DEF Evaluated
  <1>1. \A stage : GoTo(r, stage) => pc'[r] = stage
    BY DEF GoTo, TypeOK, InvocationsTypeOK
  <1>2. e \in TerminalEids
    BY DEF TerminalEids
  <1>3. CASE OpenBatch(r) \/ OpenUat(r)
    <2>1. batch[r][e] = "out"
      BY <1>3 DEF OpenBatch, OpenUat, StageHolds, BeforeSelection, NoBatch
    <2>2. \/ batch'[r][e] = "out"
          \/ /\ batch'[r][e] = "pending"
             /\ Selection[r] = "batch" => terminalSnap'[r] = TerminalEids
      BY <1>3, <2>1 DEF OpenBatch, OpenUat, TypeOK, PostingTypeOK, ExplicitTypeOK
    <2>3. QED
      BY <1>2, <2>2 DEF Pursues
  <1>4. ASSUME NEW f \in Candidates, Fetch(r, f) \/ CheckLive(r, f) \/ CheckUnposted(r, f)
        PROVE  ~Pursues(r, e)'
    <2>1. /\ pc[r] = "evaluate" /\ pc' = pc /\ terminalSnap' = terminalSnap
          /\ Selection[r] \in {"batch", "uat"}
      BY <1>4 DEF Fetch, CheckLive, CheckUnposted, EvaluatesNext, OnlyOverridesEvaluate
    <2>2. PICK progress : Advance(r, f, progress)
      BY <1>4 DEF Fetch, CheckLive, CheckUnposted
    <2>3. CASE f # e
      BY <2>1, <2>2, <2>3 DEF Pursues, Advance, TypeOK, PostingTypeOK
    <2>4. CASE f = e
      <3>1. batch'[r][e] = progress
        BY <2>2, <2>4 DEF Advance, TypeOK, PostingTypeOK
      <3>2. \A p : Advance(r, e, p) => p = progress
        BY <2>2, <2>4 DEF Advance, TypeOK, PostingTypeOK
      <3>3. ASSUME Fetch(r, e)
            PROVE  progress = "out" \/ (Selection[r] = "uat" /\ progress \in Evaluated)
        <4>1. Selection[r] = "batch" => ~FetchedRowPasses(r, e)
          BY <2>1, <3>3 DEF Pursues, Fetch, EvaluatesNext, IsFirst, FetchedRowPasses
        <4>2. QED
          BY <2>1, <3>2, <3>3, <4>1 DEF Fetch
      <3>4. ASSUME CheckLive(r, e)
            PROVE  Selection[r] = "uat" /\ progress \in {"out", "live"}
        <4>1. Selection[r] = "uat"
          BY <2>1, <3>4 DEF CheckLive, Pursues
        <4>2. QED
          BY <3>2, <3>4, <4>1 DEF CheckLive
      <3>5. ASSUME CheckUnposted(r, e)
            PROVE  progress = "out"
        BY <1>2, <3>2, <3>5 DEF CheckUnposted
      <3>6. QED
        BY <1>4, <2>1, <2>4, <3>1, <3>3, <3>4, <3>5 DEF Pursues
    <2>5. QED
      BY <2>3, <2>4
  <1>5. CASE EndEvaluation(r)
    <2>1. batch' = batch /\ pc[r] = "evaluate" /\ batch[r][e] \notin Evaluated
      BY <1>5 DEF EndEvaluation
    <2>2. QED
      BY <2>1 DEF Pursues
  <1>6. QED
    BY <1>3, <1>4, <1>5 DEF ExplicitStep

\* No run moves another one.
LEMMA OthersStandStill ==
  ASSUME TypeOK, NEW q \in Runs, NEW r \in Runs \ {q}, Progresses(q) \/ Die(q)
  PROVE  pc'[r] = pc[r] /\ batch'[r] = batch[r]
  <1>1. CASE Works(q)
    BY <1>1, WorksStage, OnlyItsOwnBatch DEF TypeOK, InvocationsTypeOK
  <1>2. CASE Report(q) \/ Reschedule(q) \/ Die(q)
    BY <1>2 DEF Report, Reschedule, Die, GoTo, TypeOK, InvocationsTypeOK, PostingTypeOK
  <1>3. QED
    BY <1>1, <1>2 DEF Progresses

LEMMA OthersKeepPursuit ==
  ASSUME TypeOK, NEW q \in Runs, NEW r \in Runs \ {q}, NEW e \in Candidates,
         ~Pursues(r, e), Progresses(q) \/ Die(q)
  PROVE  ~Pursues(r, e)'
  <1>1. pc'[r] = pc[r] /\ batch'[r] = batch[r]
    BY OthersStandStill
  <1>2. terminalSnap'[r] = terminalSnap[r]
    <2>1. terminalSnap' = terminalSnap \/ \E x : terminalSnap' = [terminalSnap EXCEPT ![q] = x]
      <3>1. CASE ExplicitStep(q)
        BY <3>1 DEF ExplicitStep, OpenBatch, OpenUat, Fetch, CheckLive, CheckUnposted,
                    EndEvaluation
      <3>2. CASE Start(q) \/ Report(q) \/ Reschedule(q) \/ Die(q)
        BY <3>2 DEF Start, Report, Reschedule, Die
      <3>3. QED
        BY <3>1, <3>2 DEF Progresses, Works
    <2>2. QED
      BY <2>1 DEF TypeOK, ExplicitTypeOK
  <1>3. QED
    BY <1>1, <1>2 DEF Pursues

LEMMA NobodyTakesUpSettled ==
  ASSUME TypeOK, BatchFollowsStage, OnlyOverridesEvaluate, [Next]_vars,
         NEW e \in Candidates, Settled(e), NEW r \in Runs
  PROVE  ~Pursues(r, e)'
  <1>1. ~Pursues(r, e) /\ HasTerminalRow(e, "CREATE_USER") /\ StageHolds(r)
    BY DEF Settled, BatchFollowsStage
  <1>2. CASE Environment \/ UNCHANGED vars
    BY <1>1, <1>2 DEF Environment, vars, Pursues
  <1>3. ASSUME NEW q \in Runs \ {r}, Progresses(q) \/ Die(q)
        PROVE  ~Pursues(r, e)'
    BY <1>1, <1>3, OthersKeepPursuit
  <1>4. CASE Works(r)
    <2>1. CASE Start(r) \/ (IntakeStep(r) /\ UNCHANGED batch)
      BY <1>1, <2>1, IntakeLeavesSettled DEF Start
    <2>2. CASE PostingStep(r) /\ UNCHANGED terminalSnap
      BY <1>1, <2>2, PostingLeavesSettled
    <2>3. CASE ExplicitStep(r)
      BY <1>1, <2>3, ExplicitLeavesSettled
    <2>4. QED
      BY <1>4, <2>1, <2>2, <2>3 DEF Works
  <1>5. CASE Report(r) \/ Reschedule(r) \/ Die(r)
    BY <1>5 DEF Report, Reschedule, Die, GoTo, TypeOK, InvocationsTypeOK, Pursues
  <1>6. QED
    BY <1>2, <1>3, <1>4, <1>5 DEF Next, Progresses

LEMMA LogOfSettledIsFinal ==
  ASSUME TypeOK, [Next]_vars, NEW e \in Candidates, Settled(e),
         NEW row \in postLog' \ postLog
  PROVE  row.eid # e
  <1>1. PICK r \in Runs, f \in Candidates : RecordResult(r, f)
    BY OnlyRecordingLogs
  <1>2. Pursues(r, f)
    BY <1>1 DEF RecordResult, IsFirst, Pursues, Outcomes, Evaluated
  <1>3. f # e
    BY <1>2 DEF Settled
  <1>4. /\ batch[r][f] \in Outcomes
        /\ row \in {CreateRow(r, f, batch[r][f])} \cup CaseRows(r, f, batch[r][f])
    BY <1>1, RecordedRows
  <1>5. row.eid = f
    BY <1>4, RowsOfResult
  <1>6. QED
    BY <1>3, <1>5

\* Also when runs overlap and the status POSTED has been lost: whoever is
\* logged and in nobody's hands is left alone by the query, by every batch
\* and by the UAT route, for ever.
THEOREM SettledStaysSettled == Spec => SettledIsLeftAlone
  <1>1. TypeOK /\ BatchFollowsStage /\ OnlyOverridesEvaluate /\ [Next]_vars =>
          [\A e \in Candidates :
             Settled(e) => Settled(e)' /\ \A row \in postLog' \ postLog : row.eid # e]_vars
    <2>1. SUFFICES ASSUME TypeOK, BatchFollowsStage, OnlyOverridesEvaluate, [Next]_vars,
                          NEW e \in Candidates, Settled(e)
                   PROVE  Settled(e)' /\ \A row \in postLog' \ postLog : row.eid # e
      OBVIOUS
    <2>2. HasTerminalRow(e, "CREATE_USER")'
      BY <2>1, TerminalRowsStay DEF Settled
    <2>3. \A r \in Runs : ~Pursues(r, e)'
      BY <2>1, NobodyTakesUpSettled
    <2>4. QED
      BY <2>1, <2>2, <2>3, LogOfSettledIsFinal DEF Settled
  <1>2. QED
    BY <1>1, TypeCorrect, BatchFollowsStageHolds, OnlyOverridesEvaluateHolds, PTL
    DEF Spec, SettledIsLeftAlone

(***************************************************************************)
(* Every step of a run takes it forward.                                   *)
(***************************************************************************)
LEMMA StageRanks ==
  /\ StageRank("idle") = 0 /\ StageRank("sync") = 1 /\ StageRank("sync_history") = 2
  /\ StageRank("sync_mark") = 3 /\ StageRank("classify") = 4
  /\ StageRank("classify_write") = 5 /\ StageRank("select") = 6
  /\ StageRank("evaluate") = 7 /\ StageRank("authorize") = 8 /\ StageRank("post") = 9
  /\ StageRank("record") = 10 /\ StageRank("report") = 11
  /\ StageRank("done") = 12 /\ StageRank("failed") = 12
BY DEF StageRank

LEMMA AttemptRanks ==
  /\ AttemptRank("pending") = 0
  /\ AttemptRank("fetched") = 1 /\ AttemptRank("fetched_incomplete") = 1
  /\ AttemptRank("live") = 2
  /\ AttemptRank("out") = 3 /\ AttemptRank("ready") = 3 /\ AttemptRank("incomplete") = 3
  /\ AttemptRank("unknown") = 4 /\ AttemptRank("created") = 5
  /\ \A outcome \in Outcomes : AttemptRank(outcome) = 6
  /\ AttemptRank("recorded") = 7
BY DEF AttemptRank, Outcomes

\* The control flow of posting and recording.
LEMMA LaterStages ==
  ASSUME TypeOK, NEW r \in Runs, Works(r), pc'[r] # pc[r],
         pc[r] \in {"authorize", "post", "record"}
  PROVE  \/ pc[r] = "authorize" /\ pc'[r] \in {"post", "failed"}
         \/ pc[r] = "post" /\ pc'[r] \in {"record", "failed"}
         \/ pc[r] = "record" /\ pc'[r] \in {"report", "failed"}
  <1>1. \A stage : GoTo(r, stage) => pc'[r] = stage
    BY DEF GoTo, TypeOK, InvocationsTypeOK
  <1>2. ~Start(r) /\ ~IntakeStep(r)
    BY DEF Start, IntakeStep, SyncUpsert, SyncHistory, SyncCommit, ClassifyRead,
           ClassifyCommit
  <1>3. ~ExplicitStep(r)
    BY DEF ExplicitStep, OpenBatch, OpenUat, Fetch, CheckLive, CheckUnposted,
           EvaluatesNext, EndEvaluation
  <1>4. PostingStep(r)
    BY <1>2, <1>3 DEF Works
  <1>5. CASE Select(r) \/ Authorize(r) \/ EndPosting(r) \/ EndRecording(r)
    BY <1>1, <1>5 DEF Select, Authorize, EndPosting, EndRecording
  <1>6. CASE RequestRaises(r)
    BY <1>1, <1>6 DEF RequestRaises, TurnsTo
  <1>7. ASSUME NEW e \in Candidates,
               RejectLocally(r, e) \/ LookUp(r, e) \/ CreateUser(r, e) \/ UpdateCase(r, e)
        PROVE  FALSE
    BY <1>7 DEF RejectLocally, LookUp, CreateUser, UpdateCase
  <1>8. ASSUME NEW e \in Candidates, RecordResult(r, e)
        PROVE  pc[r] = "record" /\ pc'[r] = "failed"
    BY <1>1, <1>8 DEF RecordResult
  <1>9. QED
    BY <1>4, <1>5, <1>6, <1>7, <1>8 DEF PostingStep

LEMMA NextCandidate ==
  ASSUME TypeOK, NEW r \in Runs, NEW e \in Candidates, NEW progress,
         Advance(r, e, progress), pc' = pc, AttemptRank(progress) > AttemptRank(batch[r][e])
  PROVE  StepsForward(r)
  <1>1. /\ batch'[r][e] = progress
        /\ \A f \in Candidates \ {e} : batch'[r][f] = batch[r][f]
    BY DEF Advance, TypeOK, PostingTypeOK
  <1>2. QED
    BY <1>1 DEF StepsForward

LEMMA StagesAdvance ==
  ASSUME TypeOK, NEW r \in Runs, Works(r), pc'[r] # pc[r]
  PROVE  StepsForward(r)
  <1>1. StageRank(pc'[r]) > StageRank(pc[r])
    <2>1. CASE Start(r)
      <3>1. pc[r] = "idle" /\ pc'[r] = FirstStage(r)
        BY <2>1 DEF Start, GoTo, TypeOK, InvocationsTypeOK
      <3>2. FirstStage(r) \in {"sync", "classify", "select"}
        BY InvocationsAssumption DEF InvocationsAssumption, Commands, FirstStage
      <3>3. QED
        BY <3>1, <3>2, StageRanks
    <2>2. CASE ~Start(r)
      <3>1. /\ StageAfterSync(r) \in {"classify", "done"}
            /\ StageAfterClassify(r) \in {"select", "done"}
            /\ StageAfterSelection(r) \in {"authorize", "report"}
        BY DEF StageAfterSync, StageAfterClassify, StageAfterSelection
      <3>2. CASE pc[r] \in {"authorize", "post", "record"}
        <4>1. pc'[r] \in {"post", "record", "report", "failed"}
          BY <2>2, <3>2, StageSteps
        <4>2. \/ pc[r] = "authorize" /\ pc'[r] \in {"post", "failed"}
              \/ pc[r] = "post" /\ pc'[r] \in {"record", "failed"}
              \/ pc[r] = "record" /\ pc'[r] \in {"report", "failed"}
          BY <2>2, <3>2, <4>1, LaterStages
        <4>3. QED
          BY <4>2, StageRanks
      <3>3. CASE pc[r] \notin {"authorize", "post", "record"}
        BY <2>2, <3>1, <3>3, StageSteps, StageRanks
      <3>4. QED
        BY <3>2, <3>3
    <2>3. QED
      BY <2>1, <2>2
  <1>2. QED
    BY <1>1 DEF StepsForward

LEMMA WorkAdvances ==
  ASSUME TypeOK, NEW r \in Runs, Works(r)
  PROVE  StepsForward(r)
  <1>1. \A stage : GoTo(r, stage) => pc'[r] = stage
    BY DEF GoTo, TypeOK, InvocationsTypeOK
  <1>2. CASE pc'[r] # pc[r]
    BY <1>2, StagesAdvance
  <1>3. CASE pc'[r] = pc[r]
    <2>1. ~Start(r)
      BY <1>1, <1>3, InvocationsAssumption
      DEF Start, FirstStage, InvocationsAssumption, Commands
    <2>2. ~IntakeStep(r)
      BY <1>1, <1>3 DEF IntakeStep, SyncUpsert, SyncHistory, SyncCommit, ClassifyRead,
                        ClassifyCommit, StageAfterSync, StageAfterClassify
    <2>3. ASSUME PostingStep(r)
          PROVE  StepsForward(r)
      <3>1. ~(Select(r) \/ Authorize(r) \/ EndPosting(r) \/ EndRecording(r))
        BY <1>1, <1>3 DEF Select, StageAfterSelection, Authorize, EndPosting, EndRecording
      <3>2. ~RequestRaises(r)
        BY <1>1, <1>3 DEF RequestRaises, TurnsTo
      <3>3. PICK e \in Candidates : \/ RejectLocally(r, e) \/ LookUp(r, e) \/ CreateUser(r, e)
                                    \/ UpdateCase(r, e) \/ RecordResult(r, e)
        BY <2>3, <3>1, <3>2 DEF PostingStep
      <3>4. CASE RejectLocally(r, e)
        <4>1. /\ pc' = pc /\ Advance(r, e, "failed")
              /\ batch[r][e] \in {"ready", "incomplete"}
          BY <3>4 DEF RejectLocally, TurnsTo, IsFirst
        <4>2. QED
          BY <4>1, AttemptRanks, NextCandidate DEF Outcomes
      <3>5. CASE LookUp(r, e)
        <4>1. PICK progress \in {"already_exists", "unknown"} : Advance(r, e, progress)
          BY <3>5 DEF LookUp
        <4>2. pc' = pc /\ batch[r][e] = "ready"
          BY <3>5 DEF LookUp
        <4>3. QED
          BY <4>1, <4>2, AttemptRanks, NextCandidate DEF Outcomes
      <3>6. CASE CreateUser(r, e)
        <4>1. PICK progress \in {"created", "failed"} : Advance(r, e, progress)
          BY <3>6 DEF CreateUser
        <4>2. pc' = pc /\ batch[r][e] = "unknown"
          BY <3>6 DEF CreateUser
        <4>3. QED
          BY <4>1, <4>2, AttemptRanks, NextCandidate DEF Outcomes
      <3>7. CASE UpdateCase(r, e)
        <4>1. PICK progress \in {"success", "success_unpatched"} : Advance(r, e, progress)
          BY <3>7 DEF UpdateCase
        <4>2. pc' = pc /\ batch[r][e] = "created"
          BY <3>7 DEF UpdateCase
        <4>3. QED
          BY <4>1, <4>2, AttemptRanks, NextCandidate DEF Outcomes
      <3>8. CASE RecordResult(r, e)
        <4>1. pc[r] = "record" /\ batch[r][e] \in Outcomes
          BY <3>8 DEF RecordResult, IsFirst
        <4>2. pc' = pc /\ Advance(r, e, "recorded")
          BY <1>1, <1>3, <3>8, <4>1 DEF RecordResult
        <4>3. QED
          BY <4>1, <4>2, AttemptRanks, NextCandidate
      <3>9. QED
        BY <3>3, <3>4, <3>5, <3>6, <3>7, <3>8
    <2>4. ASSUME ExplicitStep(r)
          PROVE  StepsForward(r)
      <3>1. ~(OpenBatch(r) \/ OpenUat(r) \/ EndEvaluation(r))
        BY <1>1, <1>3 DEF OpenBatch, OpenUat, EndEvaluation, StageAfterSelection
      <3>2. PICK e \in Candidates : Fetch(r, e) \/ CheckLive(r, e) \/ CheckUnposted(r, e)
        BY <2>4, <3>1 DEF ExplicitStep
      <3>3. CASE Fetch(r, e)
        <4>1. PICK progress \in {"out", "fetched", "fetched_incomplete"} :
                Advance(r, e, progress)
          BY <3>3 DEF Fetch
        <4>2. pc' = pc /\ batch[r][e] = "pending"
          BY <3>3 DEF Fetch, EvaluatesNext, IsFirst
        <4>3. QED
          BY <4>1, <4>2, AttemptRanks, NextCandidate
      <3>4. CASE CheckLive(r, e)
        <4>1. PICK progress \in {"out", "live", "ready", "incomplete"} :
                Advance(r, e, progress)
          BY <3>4 DEF CheckLive
        <4>2. pc' = pc /\ batch[r][e] \in {"fetched", "fetched_incomplete"}
          BY <3>4 DEF CheckLive
        <4>3. QED
          BY <4>1, <4>2, AttemptRanks, NextCandidate
      <3>5. CASE CheckUnposted(r, e)
        <4>1. PICK progress \in {"out", "ready"} : Advance(r, e, progress)
          BY <3>5 DEF CheckUnposted
        <4>2. pc' = pc /\ batch[r][e] = "live"
          BY <3>5 DEF CheckUnposted
        <4>3. QED
          BY <4>1, <4>2, AttemptRanks, NextCandidate
      <3>6. QED
        BY <3>2, <3>3, <3>4, <3>5
    <2>5. QED
      BY <2>1, <2>2, <2>3, <2>4 DEF Works
  <1>4. QED
    BY <1>2, <1>3

\* Whatever fails and whatever overlaps: no loop of an invocation goes over a
\* candidate twice and no stage comes back, so that an invocation ends after
\* a number of steps that depends on the number of candidates alone.
THEOREM EveryStepIsForward == Spec => RunsAdvance
  <1>1. TypeOK /\ [Next]_vars =>
          [\A r \in Runs :
             /\ Progresses(r) \/ Die(r) => StepsForward(r) \/ Reschedule(r)
             /\ pc'[r] # pc[r] \/ batch'[r] # batch[r] => Progresses(r) \/ Die(r)]_vars
    <2>1. SUFFICES ASSUME TypeOK, Next, NEW r \in Runs
                   PROVE  /\ Progresses(r) \/ Die(r) => StepsForward(r) \/ Reschedule(r)
                          /\ pc'[r] # pc[r] \/ batch'[r] # batch[r]
                               => Progresses(r) \/ Die(r)
      OBVIOUS
    <2>2. ASSUME Report(r) \/ Die(r)
          PROVE  StepsForward(r)
      <3>1. pc[r] \in InFlight /\ pc'[r] \in {"done", "failed"}
        BY <2>1, <2>2 DEF Report, Die, GoTo, Active, InFlight, TypeOK, InvocationsTypeOK
      <3>2. StageRank(pc'[r]) = 12 /\ StageRank(pc[r]) \in 1..11
        BY <3>1, StageRanks DEF InFlight
      <3>3. QED
        BY <3>2 DEF StepsForward
    <2>3. ASSUME Environment
          PROVE  pc'[r] = pc[r] /\ batch'[r] = batch[r]
      BY <2>3 DEF Environment
    <2>4. QED
      BY <2>1, <2>2, <2>3, WorkAdvances, OthersStandStill DEF Next, Progresses
  <1>2. QED
    BY <1>1, TypeCorrect, PTL DEF Spec, RunsAdvance

(***************************************************************************)
(* No run is stuck.                                                        *)
(***************************************************************************)

\* In any order of the natural numbers that a list gives its candidates,
\* also one with ties, somebody comes first.
LEMMA SomebodyIsFirst ==
  ASSUME NEW T, T # {}, T \subseteq Candidates, NEW place \in [T -> Nat]
  PROVE  \E e \in T : \A f \in T : place[e] <= place[f]
  <1> DEFINE R == OpToRel(<, Nat)
  <1>1. IsWellFoundedOn(R, Nat)
    BY NatLessThanWellFounded
  <1> DEFINE places == {place[e] : e \in T}
  <1>2. places \subseteq Nat /\ places # {}
    OBVIOUS
  <1>3. PICK n \in places : \A m \in places : ~(<<m, n>> \in R)
    <2> HIDE DEF R, places
    <2> QED
      BY <1>1, <1>2, WFMin
  <1>4. \A m \in places : n <= m
    <2>1. R = {pair \in Nat \X Nat : pair[1] < pair[2]}
      BY Zenon DEF OpToRel
    <2>2. ASSUME NEW i \in Nat, NEW j \in Nat, <<i, j>> \notin R
          PROVE  j <= i
      <3> HIDE DEF R
      <3> QED
        BY <2>1, <2>2
    <2>3. QED
      <3> HIDE DEF R, places
      <3> QED
        BY <1>2, <1>3, <2>2
  <1>5. PICK e \in T : place[e] = n
    BY <1>3
  <1>6. QED
    BY <1>4, <1>5

\* Whoever a batch still holds is named by its file.
LEMMA PositionTyped ==
  ASSUME TypeOK, ExplicitStaysWithinFile, NEW r \in Runs, NEW e \in Candidates,
         batch[r][e] # "out"
  PROVE  Position(r, e) \in Nat
  <1>1. CASE Selection[r] = "batch"
    <2>1. Cardinality(Places(r, e)) = 1
      BY <1>1 DEF ExplicitStaysWithinFile, Places
    <2>2. Places(r, e) # {}
      BY <2>1, FS_EmptySet
    <2>3. PICK i \in 1..Len(Explicit[r]) : Explicit[r][i] = e
      BY <2>2 DEF Places
    <2>4. Position(r, e) \in 1..Len(Explicit[r])
      BY <1>1, <2>3 DEF Position
    <2>5. Len(Explicit[r]) \in Nat
      BY PostingAssumption DEF PostingAssumption
    <2>6. QED
      BY <2>4, <2>5
  <1>2. CASE Selection[r] # "batch"
    BY <1>2 DEF Position, TypeOK, StoreTypeOK, CandidateRow
  <1>3. QED
    BY <1>1, <1>2

LEMMA LoopHasFirst ==
  ASSUME TypeOK, ExplicitStaysWithinFile, NEW r \in Runs, NEW S, "out" \notin S,
         \E e \in Candidates : batch[r][e] \in S
  PROVE  \E e \in Candidates : IsFirst(r, e, S)
  <1> DEFINE T == {e \in Candidates : batch[r][e] \in S}
  <1> DEFINE place == [e \in T |-> Position(r, e)]
  <1>1. place \in [T -> Nat]
    BY PositionTyped
  <1>2. \E e \in T : \A f \in T : place[e] <= place[f]
    <2> HIDE DEF place
    <2> QED
      BY <1>1, SomebodyIsFirst
  <1>3. PICK e \in T : \A f \in T : place[e] <= place[f]
    BY <1>2
  <1>4. QED
    BY <1>3 DEF IsFirst

\* What the posting loop may find in the list it goes through.
PostingHolds ==
  \A r \in Runs, e \in Candidates :
    pc[r] = "post" =>
      batch[r][e] \in {"out", "ready", "incomplete"} \cup UnderWay \cup Outcomes

LEMMA PostingHoldsStep ==
  ASSUME TypeOK, BatchFollowsStage, PostingHolds, [Next]_vars
  PROVE  PostingHolds'
  <1>1. SUFFICES ASSUME NEW r \in Runs, NEW e \in Candidates, pc'[r] = "post"
                 PROVE  batch'[r][e] \in
                          {"out", "ready", "incomplete"} \cup UnderWay \cup Outcomes
    BY DEF PostingHolds
  <1>2. \A stage : GoTo(r, stage) => pc'[r] = stage
    BY DEF GoTo, TypeOK, InvocationsTypeOK
  <1>3. CASE pc[r] # "post"
    <2>1. Works(r)
      BY <1>1, <1>2, <1>3, OthersStandStill
      DEF Next, Progresses, Environment, vars, Report, Reschedule, Die
    <2>2. pc[r] = "authorize"
      <3>1. FirstStage(r) # "post"
        BY InvocationsAssumption DEF InvocationsAssumption, Commands, FirstStage
      <3>2. ~Start(r)
        BY <1>1, <1>2, <3>1 DEF Start
      <3>3. QED
        BY <1>1, <1>3, <2>1, <3>2, StageSteps, LaterStages
        DEF StageAfterSync, StageAfterClassify, StageAfterSelection
    <2>3. Authorize(r)
      <3>1. ~Start(r) /\ ~IntakeStep(r)
        BY <2>2 DEF Start, IntakeStep, SyncUpsert, SyncHistory, SyncCommit, ClassifyRead,
                    ClassifyCommit
      <3>2. ~ExplicitStep(r)
        BY <2>2 DEF ExplicitStep, OpenBatch, OpenUat, Fetch, CheckLive, CheckUnposted,
                    EvaluatesNext, EndEvaluation
      <3>3. PostingStep(r)
        BY <2>1, <3>1, <3>2 DEF Works
      <3>4. ~RequestRaises(r)
        BY <1>1, <1>2 DEF RequestRaises
      <3>5. QED
        BY <2>2, <3>3, <3>4 DEF PostingStep, Select, EndPosting, EndRecording, RejectLocally,
                                LookUp, CreateUser, UpdateCase, RecordResult, TurnsTo
    <2>4. QED
      BY <2>2, <2>3 DEF Authorize, BatchFollowsStage, StageHolds
  <1>4. CASE pc[r] = "post"
    <2>1. CASE batch'[r] = batch[r]
      BY <1>4, <2>1 DEF PostingHolds
    <2>2. CASE batch'[r] # batch[r]
      <3>1. Works(r)
        BY <1>1, <1>2, <1>4, <2>2, OthersStandStill
        DEF Next, Progresses, Environment, vars, Report, Reschedule, Die
      <3>2. PICK f \in Candidates, progress \in UnderWay \cup Outcomes :
              Advance(r, f, progress)
        <4>1. ~Start(r) /\ ~IntakeStep(r) /\ ~ExplicitStep(r)
          BY <1>4 DEF Start, IntakeStep, SyncUpsert, SyncHistory, SyncCommit, ClassifyRead,
                      ClassifyCommit, ExplicitStep, OpenBatch, OpenUat, Fetch, CheckLive,
                      CheckUnposted, EvaluatesNext, EndEvaluation
        <4>2. PostingStep(r)
          BY <3>1, <4>1 DEF Works
        <4>3. ~(\/ Select(r) \/ Authorize(r) \/ RequestRaises(r)
                \/ EndPosting(r) \/ EndRecording(r))
          BY <1>4, <2>2 DEF Select, Authorize, RequestRaises, EndPosting, EndRecording
        <4>4. PICK f \in Candidates : \/ RejectLocally(r, f) \/ LookUp(r, f)
                                      \/ CreateUser(r, f) \/ UpdateCase(r, f)
          BY <1>4, <4>2, <4>3 DEF PostingStep, RecordResult
        <4>5. \E progress \in UnderWay \cup Outcomes : Advance(r, f, progress)
          BY <4>4 DEF RejectLocally, LookUp, CreateUser, UpdateCase, UnderWay, Outcomes
        <4>6. QED
          BY <4>5
      <3>3. batch'[r][e] \in {batch[r][e], progress}
        BY <3>2 DEF Advance, TypeOK, PostingTypeOK
      <3>4. QED
        BY <1>4, <3>2, <3>3 DEF PostingHolds
    <2>3. QED
      BY <2>1, <2>2
  <1>5. QED
    BY <1>3, <1>4

LEMMA NoRunIsStuckNow ==
  ASSUME TypeOK, BatchFollowsStage, PostingHolds, ExplicitStaysWithinFile
  PROVE  NoRunIsStuck
  <1>1. SUFFICES ASSUME NEW r \in Runs
                 PROVE  /\ pc[r] = "evaluate" =>
                             \/ \E e \in Candidates :
                                  \/ EvaluatesNext(r, e)
                                  \/ batch[r][e] \in Evaluated \ {"pending"}
                             \/ \A e \in Candidates : batch[r][e] \notin Evaluated
                        /\ pc[r] = "post" =>
                             \/ \E e \in Candidates :
                                  TurnsTo(r, e) \/ batch[r][e] \in UnderWay
                             \/ \A e \in Candidates :
                                  batch[r][e] \in {"out"} \cup Outcomes
                        /\ pc[r] = "record" =>
                             \/ \E e \in Candidates : IsFirst(r, e, Outcomes)
                             \/ \A e \in Candidates : batch[r][e] \notin Outcomes
    BY DEF NoRunIsStuck
  <1>2. ASSUME pc[r] = "evaluate",
               \A e \in Candidates : batch[r][e] \notin Evaluated \ {"pending"},
               ~\A e \in Candidates : batch[r][e] \notin Evaluated
        PROVE  \E e \in Candidates : EvaluatesNext(r, e)
    <2>1. \E e \in Candidates : batch[r][e] \in {"pending"}
      BY <1>2
    <2>2. \E e \in Candidates : IsFirst(r, e, {"pending"})
      BY <2>1, LoopHasFirst
    <2>3. QED
      BY <1>2, <2>2 DEF EvaluatesNext
  <1>3. ASSUME pc[r] = "post",
               \A e \in Candidates : batch[r][e] \notin UnderWay,
               ~\A e \in Candidates : batch[r][e] \in {"out"} \cup Outcomes
        PROVE  \E e \in Candidates : TurnsTo(r, e)
    <2>1. \E e \in Candidates : batch[r][e] \in {"ready", "incomplete"}
      BY <1>3 DEF PostingHolds
    <2>2. \E e \in Candidates : IsFirst(r, e, {"ready", "incomplete"})
      BY <2>1, LoopHasFirst
    <2>3. QED
      BY <1>3, <2>2 DEF TurnsTo
  <1>4. ASSUME pc[r] = "record", ~\A e \in Candidates : batch[r][e] \notin Outcomes
        PROVE  \E e \in Candidates : IsFirst(r, e, Outcomes)
    <2>1. "out" \notin Outcomes
      BY DEF Outcomes
    <2>2. QED
      BY <1>4, <2>1, LoopHasFirst
  <1>5. QED
    BY <1>2, <1>3, <1>4

\* The one step that has to choose something from a set that could be empty:
\* there are enough new ids for the rows a synchronization inserts.
LEMMA RowsCanBeNumbered ==
  ASSUME NEW new \in SUBSET Candidates, NEW last \in Nat
  PROVE  Bijection(new, (last + 1)..(last + Cardinality(new))) # {}
  <1> DEFINE n == Cardinality(new)
             ids == (last + 1)..(last + n)
  <1>1. n \in Nat /\ ExistsBijection(1..n, new)
    BY FS_Subset, FS_CardinalityType, StoreAssumption DEF StoreAssumption
  <1>2. PICK f : f \in Bijection(1..n, new)
    BY <1>1 DEF ExistsBijection
  <1>3. PICK place : place \in Bijection(new, 1..n)
    BY <1>2, Fun_BijInverse
  <1> DEFINE id == [e \in new |-> last + place[e]]
  <1>4. /\ place \in [new -> 1..n]
        /\ \A d, e \in new : place[d] = place[e] => d = e
        /\ \A i \in 1..n : \E e \in new : place[e] = i
    BY <1>3 DEF Bijection, Injection, IsInjective, Surjection
  <1> HIDE DEF n
  <1>5. id \in [new -> ids]
    BY <1>1, <1>4
  <1>6. \A d, e \in new : id[d] = id[e] => d = e
    BY <1>1, <1>4
  <1>7. ASSUME NEW i \in ids
        PROVE  \E e \in new : id[e] = i
    <2>1. i - last \in 1..n
      BY <1>1
    <2>2. PICK e \in new : place[e] = i - last
      BY <1>4, <2>1
    <2>3. id[e] = i
      BY <2>2
    <2>4. QED
      BY <2>3
  <1>8. id \in Bijection(new, ids)
    BY <1>5, <1>6, <1>7, Fun_IsBij
  <1>9. QED
    BY <1>8 DEF n

\* With EveryStepIsForward the whole of termination but the fairness: a live
\* invocation always has a next step, whatever the other runs do to the
\* table whose order its loops follow (RowsCanBeNumbered for the commit of a
\* synchronization).
THEOREM RunsAreNeverStuck == Spec => []NoRunIsStuck
  <1>1. Init => PostingHolds
    BY DEF Init, InvocationsInit, PostingHolds
  <1>2. TypeOK /\ BatchFollowsStage /\ PostingHolds /\ [Next]_vars => PostingHolds'
    BY PostingHoldsStep
  <1>3. TypeOK /\ BatchFollowsStage /\ PostingHolds /\ ExplicitStaysWithinFile
          => NoRunIsStuck
    BY NoRunIsStuckNow
  <1>4. QED
    BY <1>1, <1>2, <1>3, TypeCorrect, BatchFollowsStageHolds, ExplicitIsNamedOnce, PTL
    DEF Spec

=============================================================================
