--------------------------- MODULE PipelineProofs ---------------------------
(***************************************************************************)
(* Theorems about Pipeline that hold for every set of applications, runs,  *)
(* addresses and source rows, every selection mode, every kind of fault    *)
(* and every degree of overlap.                                            *)
(***************************************************************************)
EXTENDS Pipeline, TLAPS, FiniteSetTheorems

(***************************************************************************)
(* Domain: what the rules return.                                          *)
(***************************************************************************)

\* classify() answers with one of the statuses it is documented to assign,
\* and never with POSTED or POST_FAILED.
LEMMA ClassifyVerdict ==
  ASSUME NEW c, NEW live
  PROVE  Classify(c, live) \in ReclassifiedStatuses
BY DEF Classify, ReclassifiedStatuses

\* The absent rows are rows.
LEMMA AbsentRows == AbsentRow \in SourceRow /\ NoCandidate \in CandidateRow
BY DEF AbsentRow, SourceRow, NoCandidate, CandidateRow, Relocations

\* Writing a status leaves a candidate row.
LEMMA RestatusedRow ==
  ASSUME NEW c \in CandidateRow, NEW status \in CandidateStatuses
  PROVE  [c EXCEPT !.status = status] \in CandidateRow
BY DEF CandidateRow

\* The upsert turns a candidate row and a Jobvite row into a candidate row;
\* only a row that did not exist changes its status.
LEMMA UpsertedRow ==
  ASSUME NEW c \in CandidateRow, NEW row \in SourceRow, NEW id \in Nat
  PROVE  /\ Upserted(c, row, id) \in CandidateRow
         /\ Upserted(c, row, id).status =
              IF c.status = "NO_ROW" THEN "PENDING" ELSE c.status
         /\ Upserted(c, row, id).workflow = row.workflow
BY DEF Upserted, CandidateRow, SourceRow, CandidateStatuses

\* The mark never produces POSTED and never touches it; no row disappears.
LEMMA MarkedRow ==
  ASSUME NEW c \in CandidateRow, NEW live \in SourceRow
  PROVE  /\ Marked(c, live) \in CandidateRow
         /\ Marked(c, live).status = Posted <=> c.status = Posted
         /\ Marked(c, live).status = "NO_ROW" <=> c.status = "NO_ROW"
         /\ Marked(c, live).status = "READY_TO_POST" => Marked(c, live) = c
  <1>1. CASE c.status \notin {"NO_ROW", Posted} /\ ~InScope(live)
    <2>1. Marked(c, live) = [c EXCEPT !.status = "NO_LONGER_ELIGIBLE",
                    !.workflow = IF live.workflow = "Absent" THEN c.workflow
                                                             ELSE live.workflow]
      BY <1>1 DEF Marked
    <2>2. QED
      BY <1>1, <2>1 DEF CandidateRow, SourceRow, CandidateStatuses,
                        ReclassifiedStatuses, Posted
  <1>2. CASE ~(c.status \notin {"NO_ROW", Posted} /\ ~InScope(live))
    BY <1>2 DEF Marked
  <1>3. QED
    BY <1>1, <1>2

(***************************************************************************)
(* Type correctness.                                                       *)
(***************************************************************************)
LEMMA InitTyped == Init => TypeOK
  <1>1. SUFFICES ASSUME Init PROVE TypeOK
    OBVIOUS
  <1>2. StoreTypeOK
    <2>1. source \in [Candidates -> SourceRow]
      BY <1>1, StoreAssumption DEF Init, StoreInit, StoreAssumption
    <2>2. QED
      BY <1>1, <2>1, AbsentRows DEF Init, StoreInit, StoreTypeOK, NeverSeen
  <1>3. InvocationsTypeOK
    BY <1>1 DEF Init, InvocationsInit, InvocationsTypeOK, Stages
  <1>4. IntakeTypeOK
    BY <1>1, AbsentRows DEF Init, IntakeInit, IntakeTypeOK, NothingRead, Unread
  <1>5. BenivoTypeOK /\ PostingTypeOK /\ ExplicitTypeOK
    BY <1>1 DEF Init, BenivoInit, BenivoTypeOK, PostingInit, PostingTypeOK,
                NoBatch, Progress, ExplicitInit, ExplicitTypeOK
  <1>6. QED
    BY <1>2, <1>3, <1>4, <1>5 DEF TypeOK


(***************************************************************************)
(* What the helpers of the actions leave typed.                            *)
(***************************************************************************)
LEMMA GoToTyped ==
  ASSUME pc \in [Runs -> Stages], NEW r \in Runs, NEW stage \in Stages, GoTo(r, stage)
  PROVE  pc' \in [Runs -> Stages]
BY DEF GoTo

LEMMA ForgetIntakeTyped ==
  ASSUME IntakeTypeOK, NEW r \in Runs, ForgetIntake(r)
  PROVE  IntakeTypeOK'
BY AbsentRows DEF IntakeTypeOK, ForgetIntake, NothingRead, Unread

LEMMA AdvanceTyped ==
  ASSUME PostingTypeOK, NEW r \in Runs, NEW e \in Candidates,
         NEW progress \in Progress, Advance(r, e, progress)
  PROVE  PostingTypeOK'
  <1> DEFINE b == [batch[r] EXCEPT ![e] = progress]
  <1>1. b \in [Candidates -> Progress]
    BY DEF PostingTypeOK
  <1>2. batch' = [batch EXCEPT ![r] = b]
    BY DEF Advance
  <1> HIDE DEF b
  <1>3. QED
    BY <1>1, <1>2 DEF PostingTypeOK

LEMMA SufferTyped ==
  ASSUME failures \in Nat, NEW kind, Suffer(kind)
  PROVE  failures' \in Nat
BY DEF Suffer

LEMMA OpenAccountTyped ==
  ASSUME accounts \in [Emails -> Nat], NEW m \in Emails, OpenAccount(m)
  PROVE  accounts' \in [Emails -> Nat]
BY DEF OpenAccount

LEMMA EmailTyped == ASSUME NEW e \in Candidates PROVE EmailOf[e] \in Emails
BY StoreAssumption DEF StoreAssumption

LEMMA ResultRowsTyped ==
  ASSUME NEW r \in Runs, NEW e \in Candidates, NEW outcome \in Outcomes
  PROVE  {CreateRow(r, e, outcome)} \cup CaseRows(r, e, outcome) \in SUBSET PostLogRow
BY DEF CreateRow, CaseRows, LogStatusOf, PostLogRow, PostLogStatuses,
       TerminalPostLogStatuses, Outcomes

(***************************************************************************)
(* Synchronization and classification.                                     *)
(***************************************************************************)
LEMMA SyncCommitRows ==
  ASSUME TypeOK, NEW r \in Runs, SyncCommit(r)
  PROVE  /\ cand' \in [Candidates -> CandidateRow]
         /\ \A e \in Candidates :
              /\ cand'[e].status = Posted <=> cand[e].status = Posted
              /\ cand'[e].status = "NO_ROW" => cand[e].status = "NO_ROW"
              /\ cand'[e].status = "READY_TO_POST" =>
                   /\ cand[e].status = "READY_TO_POST"
                   /\ cand'[e].workflow \in {"Mobility", cand[e].workflow}
  <1> DEFINE rows     == upsertSnap[r].rows
             upserted == {e \in Candidates : InScope(rows[e])}
             new      == {e \in upserted : ~Exists(e)}
             last     == Cardinality({e \in Candidates : Exists(e)})
             chosen(id, e) == IF e \in new THEN id[e] ELSE cand[e].id
             fresh(id, e)  == IF e \in upserted
                                THEN Upserted(cand[e], rows[e], chosen(id, e))
                                ELSE cand[e]
  <1>1. rows \in [Candidates -> SourceRow]
    BY DEF TypeOK, IntakeTypeOK
  <1>2. cand \in [Candidates -> CandidateRow] /\ source \in [Candidates -> SourceRow]
    BY DEF TypeOK, StoreTypeOK
  <1>3. last \in Nat
    BY FS_Subset, FS_CardinalityType, StoreAssumption DEF StoreAssumption
  <1>4. PICK id \in Bijection(new, (last + 1)..(last + Cardinality(new))) :
          cand' = [e \in Candidates |-> Marked(fresh(id, e), source[e])]
    BY DEF SyncCommit
  <1>5. id \in [new -> (last + 1)..(last + Cardinality(new))]
    BY DEF Bijection, Injection
  <1>6. \A e \in upserted : rows[e].workflow = "Mobility"
    BY DEF InScope
  <1> HIDE DEF last, new, upserted, rows
  <1>7. ASSUME NEW e \in Candidates
        PROVE  /\ fresh(id, e) \in CandidateRow
               /\ fresh(id, e).status = Posted <=> cand[e].status = Posted
               /\ fresh(id, e).status = "NO_ROW" => cand[e].status = "NO_ROW"
               /\ fresh(id, e).status = "READY_TO_POST" => cand[e].status = "READY_TO_POST"
               /\ fresh(id, e).workflow \in {"Mobility", cand[e].workflow}
    <2>1. chosen(id, e) \in Nat
      <3>1. CASE e \in new
        <4>1. id[e] \in (last + 1)..(last + Cardinality(new))
          BY <3>1, <1>5
        <4>2. id[e] \in Int /\ last + 1 <= id[e]
          BY <4>1, <1>3
        <4>3. QED
          BY <3>1, <4>2, <1>3
      <3>2. CASE e \notin new
        BY <3>2, <1>2 DEF CandidateRow
      <3>3. QED
        BY <3>1, <3>2
    <2> HIDE DEF chosen
    <2>2. Upserted(cand[e], rows[e], chosen(id, e)) \in CandidateRow
      BY <1>1, <1>2, <2>1, UpsertedRow
    <2>3. /\ Upserted(cand[e], rows[e], chosen(id, e)).status = Posted
               <=> cand[e].status = Posted
          /\ Upserted(cand[e], rows[e], chosen(id, e)).status # "NO_ROW"
          /\ Upserted(cand[e], rows[e], chosen(id, e)).status = "READY_TO_POST"
               => cand[e].status = "READY_TO_POST"
          /\ Upserted(cand[e], rows[e], chosen(id, e)).workflow = rows[e].workflow
      BY <1>1, <1>2, <2>1, UpsertedRow DEF Posted
    <2>4. QED
      BY <1>2, <1>6, <2>2, <2>3
  <1> HIDE DEF fresh
  <1>8. ASSUME NEW e \in Candidates
        PROVE  /\ cand'[e] \in CandidateRow
               /\ cand'[e].status = Posted <=> cand[e].status = Posted
               /\ cand'[e].status = "NO_ROW" => cand[e].status = "NO_ROW"
               /\ cand'[e].status = "READY_TO_POST" =>
                    /\ cand[e].status = "READY_TO_POST"
                    /\ cand'[e].workflow \in {"Mobility", cand[e].workflow}
    BY <1>2, <1>4, <1>7, MarkedRow
  <1>9. QED
    BY <1>4, <1>8

LEMMA IntakeTyped ==
  ASSUME TypeOK, NEW r \in Runs, IntakeStep(r),
         UNCHANGED <<benivoVars, batch, terminalSnap>>
  PROVE  TypeOK'
  <1> USE DEF TypeOK
  <1>1. CASE SyncUpsert(r)
    <2>1. IntakeTypeOK'
      BY <1>1 DEF SyncUpsert, IntakeTypeOK, StoreTypeOK
    <2>2. InvocationsTypeOK'
      BY <1>1, GoToTyped DEF SyncUpsert, InvocationsTypeOK, Stages, InFlight
    <2>3. QED
      BY <1>1, <2>1, <2>2 DEF SyncUpsert, storeVars, benivoVars, StoreTypeOK,
                              BenivoTypeOK, PostingTypeOK, ExplicitTypeOK
  <1>2. CASE SyncHistory(r)
    <2>1. IntakeTypeOK'
      BY <1>2 DEF SyncHistory, IntakeTypeOK
    <2>2. InvocationsTypeOK'
      BY <1>2, GoToTyped DEF SyncHistory, InvocationsTypeOK, Stages, InFlight
    <2>3. QED
      BY <1>2, <2>1, <2>2 DEF SyncHistory, storeVars, benivoVars, StoreTypeOK,
                              BenivoTypeOK, PostingTypeOK, ExplicitTypeOK
  <1>3. CASE SyncCommit(r)
    <2>1. cand' \in [Candidates -> CandidateRow]
      BY <1>3, SyncCommitRows
    <2>2. firstSeen' \in [Candidates -> Nat \cup {NeverSeen}]
      BY <1>3 DEF SyncCommit, FirstSeenAfter, StoreTypeOK, IntakeTypeOK
    <2>3. InvocationsTypeOK'
      BY <1>3, GoToTyped DEF SyncCommit, InvocationsTypeOK, Stages, InFlight, StageAfterSync
    <2>4. IntakeTypeOK'
      BY <1>3, ForgetIntakeTyped DEF SyncCommit
    <2>5. UNCHANGED <<source, postLog, clock, edits>>
      BY <1>3 DEF SyncCommit
    <2>6. QED
      BY <2>1, <2>2, <2>3, <2>4, <2>5 DEF benivoVars, StoreTypeOK,
                              BenivoTypeOK, PostingTypeOK, ExplicitTypeOK
  <1>4. CASE ClassifyRead(r)
    <2>1. ASSUME NEW e \in Candidates
          PROVE  (IF Classifiable(e) THEN Classify(cand[e], source[e]) ELSE "NO_ROW")
                   \in ReclassifiedStatuses \cup {"NO_ROW"}
      BY ClassifyVerdict
    <2>2. IntakeTypeOK'
      BY <1>4, <2>1 DEF ClassifyRead, IntakeTypeOK
    <2>3. InvocationsTypeOK'
      BY <1>4, GoToTyped DEF ClassifyRead, InvocationsTypeOK, Stages, InFlight
    <2>4. QED
      BY <1>4, <2>2, <2>3 DEF ClassifyRead, storeVars, benivoVars, StoreTypeOK,
                              BenivoTypeOK, PostingTypeOK, ExplicitTypeOK
  <1>5. CASE ClassifyCommit(r)
    <2>1. cand' \in [Candidates -> CandidateRow]
      <3>1. ASSUME NEW e \in Candidates, verdicts[r][e] # "NO_ROW"
            PROVE  [cand[e] EXCEPT !.status = verdicts[r][e]] \in CandidateRow
        BY <3>1, RestatusedRow DEF StoreTypeOK, IntakeTypeOK, CandidateStatuses
      <3>2. QED
        BY <1>5, <3>1 DEF ClassifyCommit, StoreTypeOK
    <2>2. InvocationsTypeOK'
      BY <1>5, GoToTyped DEF ClassifyCommit, InvocationsTypeOK, Stages, InFlight,
                             StageAfterClassify
    <2>3. IntakeTypeOK'
      BY <1>5, ForgetIntakeTyped DEF ClassifyCommit
    <2>4. UNCHANGED <<source, firstSeen, postLog, clock, edits>>
      BY <1>5 DEF ClassifyCommit
    <2>5. QED
      BY <2>1, <2>2, <2>3, <2>4 DEF benivoVars, StoreTypeOK,
                              BenivoTypeOK, PostingTypeOK, ExplicitTypeOK
  <1>6. QED
    BY <1>1, <1>2, <1>3, <1>4, <1>5 DEF IntakeStep


(***************************************************************************)
(* Posting and recording.                                                  *)
(***************************************************************************)
LEMMA RecordResultTyped ==
  ASSUME TypeOK, NEW r \in Runs, NEW e \in Candidates, RecordResult(r, e)
  PROVE  StoreTypeOK' /\ InvocationsTypeOK' /\ BenivoTypeOK' /\ PostingTypeOK'
  <1> USE DEF TypeOK
  <1> DEFINE rows == {CreateRow(r, e, batch[r][e])} \cup CaseRows(r, e, batch[r][e])
             status == CandidateStatusOf(LogStatusOf(batch[r][e]))
  <1>1. BenivoTypeOK'
    BY DEF RecordResult, BenivoTypeOK, benivoVars
  <1>2. CASE ViolatesIndex(rows)
    <2>1. GoTo(r, "failed") /\ UNCHANGED <<postLog, cand, batch>>
      BY <1>2 DEF RecordResult
    <2>2. InvocationsTypeOK'
      BY <2>1, GoToTyped DEF RecordResult, InvocationsTypeOK, Stages
    <2>3. QED
      BY <1>1, <2>1, <2>2 DEF RecordResult, StoreTypeOK, PostingTypeOK
  <1>3. CASE ~ViolatesIndex(rows)
    <2>1. /\ postLog' = postLog \cup rows
          /\ cand' = [cand EXCEPT ![e].status = status]
          /\ Advance(r, e, "recorded")
          /\ UNCHANGED pc
      BY <1>3 DEF RecordResult
    <2>2. postLog' \in SUBSET PostLogRow
      <3>1. rows \in SUBSET PostLogRow
        BY ResultRowsTyped DEF RecordResult, IsFirst
      <3> HIDE DEF rows
      <3>2. QED
        BY <2>1, <3>1 DEF StoreTypeOK
    <2>3. cand' \in [Candidates -> CandidateRow]
      <3>1. status \in CandidateStatuses
        BY DEF CandidateStatusOf, CandidateStatuses
      <3> HIDE DEF status
      <3>2. [cand[e] EXCEPT !.status = status] \in CandidateRow
        BY <3>1, RestatusedRow DEF StoreTypeOK
      <3>3. cand' = [cand EXCEPT ![e] = [cand[e] EXCEPT !.status = status]]
        BY <2>1
      <3>4. QED
        BY <3>2, <3>3 DEF StoreTypeOK
    <2>4. PostingTypeOK'
      BY <2>1, AdvanceTyped DEF Progress
    <2>5. InvocationsTypeOK'
      BY <2>1 DEF RecordResult, InvocationsTypeOK
    <2>6. QED
      BY <1>1, <2>2, <2>3, <2>4, <2>5 DEF RecordResult, StoreTypeOK
  <1>4. QED
    BY <1>2, <1>3

LEMMA PostingTyped ==
  ASSUME TypeOK, NEW r \in Runs, PostingStep(r), UNCHANGED <<intakeVars, terminalSnap>>
  PROVE  TypeOK'
  <1> USE DEF TypeOK
  <1>1. IntakeTypeOK' /\ ExplicitTypeOK'
    BY DEF intakeVars, IntakeTypeOK, ExplicitTypeOK
  <1>2. CASE Select(r)
    <2>1. PostingTypeOK'
      BY <1>2 DEF Select, PostingTypeOK, Progress
    <2>2. InvocationsTypeOK'
      BY <1>2, GoToTyped DEF Select, InvocationsTypeOK, Stages, InFlight,
                             StageAfterSelection
    <2>3. QED
      BY <1>1, <1>2, <2>1, <2>2 DEF Select, storeVars, StoreTypeOK, benivoVars, BenivoTypeOK
  <1>3. CASE Authorize(r)
    <2>1. InvocationsTypeOK'
      BY <1>3, GoToTyped, SufferTyped DEF Authorize, InvocationsTypeOK, Stages, InFlight
    <2>2. QED
      BY <1>1, <1>3, <2>1 DEF Authorize, storeVars, StoreTypeOK, benivoVars,
                              BenivoTypeOK, PostingTypeOK
  <1>4. ASSUME NEW e \in Candidates, RejectLocally(r, e)
        PROVE  TypeOK'
    <2>1. PostingTypeOK'
      BY <1>4, AdvanceTyped DEF RejectLocally, Progress, Outcomes
    <2>2. InvocationsTypeOK'
      BY <1>4, SufferTyped DEF RejectLocally, InvocationsTypeOK
    <2>3. QED
      BY <1>1, <1>4, <2>1, <2>2 DEF RejectLocally, storeVars, StoreTypeOK,
                                    benivoVars, BenivoTypeOK
  <1>5. ASSUME NEW e \in Candidates, LookUp(r, e)
        PROVE  TypeOK'
    <2>1. PostingTypeOK'
      BY <1>5, AdvanceTyped DEF LookUp, Progress, Outcomes, UnderWay
    <2>2. InvocationsTypeOK'
      BY <1>5, SufferTyped DEF LookUp, InvocationsTypeOK
    <2>3. QED
      BY <1>1, <1>5, <2>1, <2>2 DEF LookUp, storeVars, StoreTypeOK,
                                    benivoVars, BenivoTypeOK
  <1>6. ASSUME NEW e \in Candidates, CreateUser(r, e)
        PROVE  TypeOK'
    <2>1. PostingTypeOK'
      BY <1>6, AdvanceTyped DEF CreateUser, Progress, Outcomes, UnderWay
    <2>2. InvocationsTypeOK'
      BY <1>6, SufferTyped DEF CreateUser, InvocationsTypeOK
    <2>3. BenivoTypeOK'
      BY <1>6, OpenAccountTyped, EmailTyped DEF CreateUser, BenivoTypeOK
    <2>4. QED
      BY <1>1, <1>6, <2>1, <2>2, <2>3 DEF CreateUser, storeVars, StoreTypeOK
  <1>7. ASSUME NEW e \in Candidates, UpdateCase(r, e)
        PROVE  TypeOK'
    <2>1. PostingTypeOK'
      BY <1>7, AdvanceTyped DEF UpdateCase, Progress, Outcomes
    <2>2. InvocationsTypeOK'
      BY <1>7, SufferTyped DEF UpdateCase, InvocationsTypeOK
    <2>3. BenivoTypeOK'
      BY <1>7, EmailTyped DEF UpdateCase, BenivoTypeOK, PatchCase
    <2>4. QED
      BY <1>1, <1>7, <2>1, <2>2, <2>3 DEF UpdateCase, storeVars, StoreTypeOK
  <1>8. ASSUME NEW e \in Candidates, RecordResult(r, e)
        PROVE  TypeOK'
    BY <1>1, <1>8, RecordResultTyped
  <1>9. CASE RequestRaises(r)
    <2>1. InvocationsTypeOK'
      BY <1>9, GoToTyped, SufferTyped DEF RequestRaises, InvocationsTypeOK, Stages
    <2>2. BenivoTypeOK'
      BY <1>9, OpenAccountTyped, EmailTyped
      DEF RequestRaises, BenivoTypeOK, benivoVars, PatchCase
    <2>3. QED
      BY <1>1, <1>9, <2>1, <2>2 DEF RequestRaises, storeVars, StoreTypeOK, PostingTypeOK
  <1>10. CASE EndPosting(r)
    <2>1. InvocationsTypeOK'
      BY <1>10, GoToTyped DEF EndPosting, InvocationsTypeOK, Stages, InFlight
    <2>2. QED
      BY <1>1, <1>10, <2>1 DEF EndPosting, storeVars, StoreTypeOK, benivoVars,
                               BenivoTypeOK, PostingTypeOK
  <1>11. CASE EndRecording(r)
    <2>1. InvocationsTypeOK'
      BY <1>11, GoToTyped DEF EndRecording, InvocationsTypeOK, Stages, InFlight
    <2>2. QED
      BY <1>1, <1>11, <2>1 DEF EndRecording, storeVars, StoreTypeOK, benivoVars,
                               BenivoTypeOK, PostingTypeOK
  <1>12. QED
    BY <1>2, <1>3, <1>4, <1>5, <1>6, <1>7, <1>8, <1>9, <1>10, <1>11 DEF PostingStep

(***************************************************************************)
(* The overrides of the selection.                                         *)
(***************************************************************************)
LEMMA NamedBatchTyped ==
  ASSUME PostingTypeOK, NEW r \in Runs,
         batch' = [batch EXCEPT ![r] =
                     [e \in Candidates |-> IF e \in Named(r) THEN "pending" ELSE "out"]]
  PROVE  PostingTypeOK'
BY DEF PostingTypeOK, Progress, Evaluated

LEMMA ExplicitTyped ==
  ASSUME TypeOK, NEW r \in Runs, ExplicitStep(r), UNCHANGED intakeVars
  PROVE  TypeOK'
  <1> USE DEF TypeOK
  <1>1. IntakeTypeOK'
    BY DEF intakeVars, IntakeTypeOK
  <1>2. StoreTypeOK' /\ BenivoTypeOK'
    BY DEF ExplicitStep, OpenBatch, OpenUat, Fetch, CheckLive, CheckUnposted,
           EndEvaluation, storeVars, StoreTypeOK, benivoVars, BenivoTypeOK
  <1>3. CASE OpenBatch(r)
    <2>1. InvocationsTypeOK'
      BY <1>3, GoToTyped DEF OpenBatch, InvocationsTypeOK, Stages, InFlight,
                             StageAfterSelection
    <2>2. ExplicitTypeOK'
      BY <1>3 DEF OpenBatch, ExplicitTypeOK, TerminalEids
    <2>3. PostingTypeOK'
      BY <1>3, NamedBatchTyped DEF OpenBatch, PostingTypeOK
    <2>4. QED
      BY <1>1, <1>2, <2>1, <2>2, <2>3
  <1>4. CASE OpenUat(r)
    <2>1. InvocationsTypeOK'
      BY <1>4, GoToTyped, SufferTyped DEF OpenUat, InvocationsTypeOK, Stages, InFlight,
                             StageAfterSelection
    <2>2. PostingTypeOK'
      BY <1>4, NamedBatchTyped DEF OpenUat, PostingTypeOK
    <2>3. QED
      BY <1>1, <1>2, <1>4, <2>1, <2>2 DEF OpenUat, ExplicitTypeOK
  <1>5. ASSUME NEW e \in Candidates, Fetch(r, e) \/ CheckLive(r, e) \/ CheckUnposted(r, e)
        PROVE  TypeOK'
    <2>1. PostingTypeOK'
      <3>1. \E progress \in Progress : Advance(r, e, progress)
        BY <1>5 DEF Fetch, CheckLive, CheckUnposted, Progress, Evaluated, PostingTypeOK,
                    FetchedRowPasses
      <3>2. QED
        BY <3>1, AdvanceTyped
    <2>2. InvocationsTypeOK' /\ ExplicitTypeOK'
      BY <1>5 DEF Fetch, CheckLive, CheckUnposted, InvocationsTypeOK, ExplicitTypeOK
    <2>3. QED
      BY <1>1, <1>2, <2>1, <2>2
  <1>6. CASE EndEvaluation(r)
    <2>1. InvocationsTypeOK'
      BY <1>6, GoToTyped DEF EndEvaluation, InvocationsTypeOK, Stages, InFlight,
                             StageAfterSelection
    <2>2. QED
      BY <1>1, <1>2, <1>6, <2>1 DEF EndEvaluation, ExplicitTypeOK, PostingTypeOK
  <1>7. QED
    BY <1>3, <1>4, <1>5, <1>6 DEF ExplicitStep


(***************************************************************************)
(* Every step, and the theorem.                                            *)
(***************************************************************************)
LEMMA NextTyped ==
  ASSUME TypeOK, [Next]_vars
  PROVE  TypeOK'
  <1> USE DEF TypeOK
  <1>1. ASSUME NEW r \in Runs, Progresses(r)
        PROVE  TypeOK'
    <2>1. CASE Start(r)
      <3>1. InvocationsTypeOK'
        BY <2>1, GoToTyped, InvocationsAssumption
        DEF Start, FirstStage, InvocationsTypeOK, Stages, InFlight,
            InvocationsAssumption, Commands
      <3>2. QED
        BY <2>1, <3>1 DEF Start, storeVars, StoreTypeOK, intakeVars, IntakeTypeOK,
             benivoVars, BenivoTypeOK, PostingTypeOK, ExplicitTypeOK
    <2>2. CASE IntakeStep(r) /\ UNCHANGED <<benivoVars, batch, terminalSnap>>
      BY <2>2, IntakeTyped
    <2>3. CASE PostingStep(r) /\ UNCHANGED <<intakeVars, terminalSnap>>
      BY <2>3, PostingTyped
    <2>4. CASE ExplicitStep(r) /\ UNCHANGED intakeVars
      BY <2>4, ExplicitTyped
    <2>5. CASE Report(r)
      <3>1. InvocationsTypeOK'
        BY <2>5, GoToTyped DEF Report, InvocationsTypeOK, Stages
      <3>2. QED
        BY <2>5, <3>1 DEF Report, storeVars, StoreTypeOK, intakeVars, IntakeTypeOK,
             benivoVars, BenivoTypeOK, PostingTypeOK, ExplicitTypeOK
    <2>6. CASE Reschedule(r)
      <3>1. InvocationsTypeOK'
        BY <2>6, GoToTyped DEF Reschedule, InvocationsTypeOK, Stages
      <3>2. PostingTypeOK'
        BY <2>6 DEF Reschedule, PostingTypeOK, NoBatch, Progress
      <3>3. QED
        BY <2>6, <3>1, <3>2 DEF Reschedule, storeVars, StoreTypeOK, intakeVars,
             IntakeTypeOK, benivoVars, BenivoTypeOK, ExplicitTypeOK
    <2>7. QED
      BY <1>1, <2>1, <2>2, <2>3, <2>4, <2>5, <2>6 DEF Progresses, Works
  <1>2. ASSUME NEW r \in Runs, Die(r)
        PROVE  TypeOK'
    <2>1. InvocationsTypeOK'
      BY <1>2, GoToTyped, SufferTyped DEF Die, InvocationsTypeOK, Stages
    <2>2. IntakeTypeOK'
      BY <1>2, ForgetIntakeTyped DEF Die
    <2>3. QED
      BY <1>2, <2>1, <2>2 DEF Die, storeVars, StoreTypeOK, benivoVars, BenivoTypeOK,
             PostingTypeOK, ExplicitTypeOK
  <1>3. CASE /\ Tick \/ \E e \in Candidates : EtlRewrites(e)
             /\ UNCHANGED <<pc, failures, intakeVars, benivoVars, batch, terminalSnap>>
    <2>1. StoreTypeOK'
      <3>1. CASE Tick
        BY <3>1 DEF Tick, StoreTypeOK
      <3>2. ASSUME NEW e \in Candidates, EtlRewrites(e)
            PROVE  StoreTypeOK'
        <4>1. SourceRows \subseteq SourceRow
          BY StoreAssumption DEF StoreAssumption
        <4>2. QED
          BY <3>2, <4>1 DEF EtlRewrites, StoreTypeOK
      <3>3. QED
        BY <1>3, <3>1, <3>2
    <2>2. QED
      BY <1>3, <2>1 DEF InvocationsTypeOK, intakeVars, IntakeTypeOK, benivoVars,
             BenivoTypeOK, PostingTypeOK, ExplicitTypeOK
  <1>4. CASE UNCHANGED vars
    BY <1>4 DEF vars, storeVars, StoreTypeOK, InvocationsTypeOK, intakeVars,
                IntakeTypeOK, benivoVars, BenivoTypeOK, PostingTypeOK, ExplicitTypeOK
  <1>5. QED
    BY <1>1, <1>2, <1>3, <1>4 DEF Next, Environment

\* The state of the program, of its database and of Benivo keeps its type:
\* in particular a candidate row only ever holds a documented status, and a
\* verdict that waits to be written is never POSTED.
THEOREM TypeCorrect == Spec => []TypeOK
  <1>1. Init => TypeOK
    BY InitTyped
  <1>2. TypeOK /\ [Next]_vars => TypeOK'
    BY NextTyped
  <1>3. QED
    BY <1>1, <1>2, PTL DEF Spec

(***************************************************************************)
(* Frames: the few actions that can disturb what the invariants speak of.  *)
(***************************************************************************)

\* The intake transactions leave the log and the source alone.
LEMMA IntakeFrame ==
  ASSUME NEW r \in Runs, IntakeStep(r)
  PROVE  UNCHANGED <<source, postLog, clock, edits>>
BY DEF IntakeStep, SyncUpsert, SyncHistory, SyncCommit, ClassifyRead, ClassifyCommit,
       storeVars

\* The overrides only read.
LEMMA ExplicitFrame ==
  ASSUME NEW r \in Runs, ExplicitStep(r)
  PROVE  UNCHANGED <<storeVars, benivoVars>>
BY DEF ExplicitStep, OpenBatch, OpenUat, Fetch, CheckLive, CheckUnposted, EndEvaluation

\* The store is written by record_post_result(), Benivo by the requests.
LEMMA PostingFrame ==
  ASSUME NEW r \in Runs, PostingStep(r)
  PROVE  /\ \/ UNCHANGED storeVars
            \/ \E e \in Candidates : RecordResult(r, e)
         /\ \/ UNCHANGED benivoVars
            \/ RequestRaises(r)
            \/ \E e \in Candidates : CreateUser(r, e) \/ UpdateCase(r, e)
  <1>1. CASE \/ Select(r) \/ Authorize(r) \/ EndPosting(r) \/ EndRecording(r)
             \/ \E e \in Candidates : RejectLocally(r, e) \/ LookUp(r, e)
    BY <1>1 DEF Select, Authorize, EndPosting, EndRecording, RejectLocally, LookUp
  <1>2. CASE RequestRaises(r) \/ \E e \in Candidates : CreateUser(r, e) \/ UpdateCase(r, e)
    BY <1>2 DEF RequestRaises, CreateUser, UpdateCase
  <1>3. CASE \E e \in Candidates : RecordResult(r, e)
    BY <1>3 DEF RecordResult
  <1>4. QED
    BY <1>1, <1>2, <1>3 DEF PostingStep

\* post_log is written by record_post_result() only.
LEMMA OnlyRecordingLogs ==
  ASSUME [Next]_vars, postLog' # postLog
  PROVE  \E r \in Runs, e \in Candidates : RecordResult(r, e)
  <1>1. ASSUME NEW r \in Runs, Start(r) \/ Report(r) \/ Reschedule(r) \/ Die(r)
        PROVE  postLog' = postLog
    BY <1>1 DEF Start, Report, Reschedule, Die, storeVars
  <1>2. UNCHANGED vars => postLog' = postLog
    BY DEF vars, storeVars
  <1>3. (Tick \/ \E e \in Candidates : EtlRewrites(e)) => postLog' = postLog
    BY DEF Tick, EtlRewrites
  <1>4. QED
    BY <1>1, <1>2, <1>3, IntakeFrame, ExplicitFrame, PostingFrame
    DEF Next, Environment, Progresses, Works, storeVars

\* benivo.candidates is written by the two intake transactions and by
\* record_post_result().
LEMMA OnlyIntakeAndRecordingWrite ==
  ASSUME [Next]_vars, cand' # cand
  PROVE  \E r \in Runs : IntakeStep(r) \/ \E e \in Candidates : RecordResult(r, e)
  <1>1. ASSUME NEW r \in Runs, Start(r) \/ Report(r) \/ Reschedule(r) \/ Die(r)
        PROVE  cand' = cand
    BY <1>1 DEF Start, Report, Reschedule, Die, storeVars
  <1>2. UNCHANGED vars => cand' = cand
    BY DEF vars, storeVars
  <1>3. (Tick \/ \E e \in Candidates : EtlRewrites(e)) => cand' = cand
    BY DEF Tick, EtlRewrites
  <1>4. QED
    BY <1>1, <1>2, <1>3, ExplicitFrame, PostingFrame
    DEF Next, Environment, Progresses, Works, storeVars

\* Benivo is changed by the two requests only, answered or not.
LEMMA OnlyRequestsReachBenivo ==
  ASSUME [Next]_vars, benivoVars' # benivoVars
  PROVE  \E r \in Runs :
           \/ RequestRaises(r)
           \/ \E e \in Candidates : CreateUser(r, e) \/ UpdateCase(r, e)
  <1>1. ASSUME NEW r \in Runs, Start(r) \/ Report(r) \/ Reschedule(r) \/ Die(r)
        PROVE  benivoVars' = benivoVars
    BY <1>1 DEF Start, Report, Reschedule, Die
  <1>2. UNCHANGED vars => benivoVars' = benivoVars
    BY DEF vars
  <1>3. QED
    BY <1>1, <1>2, ExplicitFrame, PostingFrame DEF Next, Environment, Progresses, Works

\* Accounts are never closed and patches never undone.
LEMMA BenivoGrows ==
  ASSUME TypeOK, [Next]_vars
  PROVE  /\ \A m \in Emails : HasAccount(m) => HasAccount(m)'
         /\ patched \subseteq patched'
  <1>1. CASE benivoVars' = benivoVars
    BY <1>1 DEF benivoVars, HasAccount
  <1>2. CASE benivoVars' # benivoVars
    <2>1. /\ \/ accounts' = accounts
             \/ \E m \in Emails : accounts' = [accounts EXCEPT ![m] = @ + 1]
          /\ \/ patched' = patched
             \/ \E m \in Emails : patched' = patched \cup {m}
      BY <1>2, OnlyRequestsReachBenivo, EmailTyped
      DEF RequestRaises, CreateUser, UpdateCase, OpenAccount, PatchCase, benivoVars
    <2>2. accounts \in [Emails -> Nat]
      BY DEF TypeOK, BenivoTypeOK
    <2>3. QED
      BY <2>1, <2>2 DEF HasAccount
  <1>3. QED
    BY <1>1, <1>2


\* A record that is written at all appends its rows and passes the index.
LEMMA RecordedRows ==
  ASSUME NEW r \in Runs, NEW e \in Candidates, RecordResult(r, e),
         NEW rows, rows = {CreateRow(r, e, batch[r][e])} \cup CaseRows(r, e, batch[r][e])
  PROVE  /\ batch[r][e] \in Outcomes
         /\ postLog' \in {postLog, postLog \cup rows}
         /\ postLog' # postLog => ~ViolatesIndex(rows)
BY DEF RecordResult, IsFirst

\* No statement of the program deletes a log row.
LEMMA LogGrows ==
  ASSUME [Next]_vars
  PROVE  postLog \subseteq postLog'
BY OnlyRecordingLogs, RecordedRows

\* The rows of one record: their application, and an action each.
LEMMA RowsOfResult ==
  ASSUME NEW r \in Runs, NEW e \in Candidates, NEW outcome \in Outcomes,
         NEW row \in {CreateRow(r, e, outcome)} \cup CaseRows(r, e, outcome)
  PROVE  /\ row.eid = e /\ row.run = r
         /\ row.action = "CREATE_USER" => row = CreateRow(r, e, outcome)
         /\ row.action = "UPDATE_CASE" => /\ CaseRows(r, e, outcome) = {row}
                                          /\ outcome \in {"success", "success_unpatched"}
                                          /\ row.status = "SUCCESS" => outcome = "success"
         /\ row.status \notin {"ALREADY_EXISTS"} \/ row.action = "CREATE_USER"
BY DEF CreateRow, CaseRows, Outcomes

(***************************************************************************)
(* At most one terminal row.                                               *)
(***************************************************************************)
LEMMA OneTerminalRowStep ==
  ASSUME OneTerminalRow, [Next]_vars
  PROVE  OneTerminalRow'
  <1>1. CASE postLog' = postLog
    BY <1>1 DEF OneTerminalRow
  <1>2. CASE postLog' # postLog
    <2>1. PICK r \in Runs, e \in Candidates : RecordResult(r, e)
      BY <1>2, OnlyRecordingLogs
    <2> DEFINE rows == {CreateRow(r, e, batch[r][e])} \cup CaseRows(r, e, batch[r][e])
    <2>2. /\ batch[r][e] \in Outcomes
          /\ postLog' = postLog \cup rows
          /\ ~ViolatesIndex(rows)
      BY <1>2, <2>1, RecordedRows
    <2>3. ASSUME NEW p \in rows, NEW q \in rows, p.action = q.action
          PROVE  p = q
      BY <2>2, <2>3 DEF CreateRow, CaseRows, Outcomes
    <2>4. ASSUME NEW p \in rows, NEW q \in postLog,
                 p.status \in TerminalPostLogStatuses, q.status \in TerminalPostLogStatuses,
                 p.eid = q.eid, p.action = q.action
          PROVE  FALSE
      BY <2>2, <2>4 DEF ViolatesIndex, HasTerminalRow
    <2> HIDE DEF rows
    <2>5. QED
      BY <2>2, <2>3, <2>4 DEF OneTerminalRow
  <1>3. QED
    BY <1>1, <1>2

\* However many runs record the same application, and whenever: the log
\* holds one terminal row per application and action.
THEOREM TerminalRowIsUnique == Spec => []OneTerminalRow
  <1>1. Init => OneTerminalRow
    BY DEF Init, StoreInit, OneTerminalRow
  <1>2. OneTerminalRow /\ [Next]_vars => OneTerminalRow'
    BY OneTerminalRowStep
  <1>3. QED
    BY <1>1, <1>2, PTL DEF Spec

(***************************************************************************)
(* POSTED has a terminal row behind it.                                    *)
(***************************************************************************)
LEMMA TerminalRowsStay ==
  ASSUME [Next]_vars, NEW e \in Candidates, HasTerminalRow(e, "CREATE_USER")
  PROVE  HasTerminalRow(e, "CREATE_USER")'
BY LogGrows DEF HasTerminalRow

LEMMA RecordingPosts ==
  ASSUME TypeOK, NEW r \in Runs, NEW e \in Candidates, RecordResult(r, e),
         NEW f \in Candidates, cand'[f].status = Posted, cand[f].status # Posted
  PROVE  HasTerminalRow(f, "CREATE_USER")'
  <1> DEFINE created == CreateRow(r, e, batch[r][e])
             status  == LogStatusOf(batch[r][e])
  <1>1. /\ cand' = [cand EXCEPT ![e].status = CandidateStatusOf(status)]
        /\ created \in postLog'
    BY DEF RecordResult
  <1>2. f = e
    BY <1>1 DEF TypeOK, StoreTypeOK
  <1>3. status \in TerminalPostLogStatuses
    <2>1. cand'[e].status = CandidateStatusOf(status)
      BY <1>1 DEF TypeOK, StoreTypeOK, CandidateRow
    <2>2. QED
      BY <1>2, <2>1 DEF CandidateStatusOf, Posted
  <1>4. created.eid = e /\ created.action = "CREATE_USER" /\ created.status = status
    BY DEF CreateRow
  <1> HIDE DEF created, status
  <1>5. QED
    BY <1>1, <1>2, <1>3, <1>4 DEF HasTerminalRow

LEMMA IntakePostsNobody ==
  ASSUME TypeOK, NEW r \in Runs, IntakeStep(r), NEW e \in Candidates,
         cand'[e].status = Posted
  PROVE  cand[e].status = Posted
  <1>1. CASE SyncUpsert(r) \/ SyncHistory(r) \/ ClassifyRead(r)
    BY <1>1 DEF SyncUpsert, SyncHistory, ClassifyRead, storeVars
  <1>2. CASE SyncCommit(r)
    BY <1>2, SyncCommitRows
  <1>3. CASE ClassifyCommit(r)
    <2>1. cand'[e] = IF verdicts[r][e] = "NO_ROW" THEN cand[e]
                     ELSE [cand[e] EXCEPT !.status = verdicts[r][e]]
      BY <1>3 DEF ClassifyCommit
    <2>2. /\ verdicts[r][e] \in ReclassifiedStatuses \cup {"NO_ROW"}
          /\ cand[e] \in CandidateRow
      BY DEF TypeOK, IntakeTypeOK, StoreTypeOK
    <2>3. [cand[e] EXCEPT !.status = verdicts[r][e]].status = verdicts[r][e]
      BY <2>2 DEF CandidateRow
    <2>4. QED
      BY <2>1, <2>2, <2>3 DEF ReclassifiedStatuses, Posted
  <1>4. QED
    BY <1>1, <1>2, <1>3 DEF IntakeStep

LEMMA PostedIsLoggedStep ==
  ASSUME TypeOK, PostedIsLogged, [Next]_vars
  PROVE  PostedIsLogged'
  <1>1. SUFFICES ASSUME NEW e \in Candidates, cand'[e].status = Posted
                 PROVE  HasTerminalRow(e, "CREATE_USER")'
    BY DEF PostedIsLogged
  <1>2. CASE cand[e].status = Posted
    BY <1>2, TerminalRowsStay DEF PostedIsLogged
  <1>3. CASE cand[e].status # Posted
    <2>1. cand' # cand
      BY <1>1, <1>3
    <2>2. PICK r \in Runs : \/ IntakeStep(r)
                            \/ \E f \in Candidates : RecordResult(r, f)
      BY <2>1, OnlyIntakeAndRecordingWrite
    <2>3. QED
      BY <1>1, <1>3, <2>2, IntakePostsNobody, RecordingPosts
  <1>4. QED
    BY <1>2, <1>3

\* No sync, no classification and no failed attempt makes a candidate
\* POSTED: the status always has a terminal CREATE_USER row behind it.
THEOREM PostedHasTerminalRow == Spec => []PostedIsLogged
  <1>1. Init => PostedIsLogged
    BY DEF Init, StoreInit, PostedIsLogged, NoCandidate, Posted
  <1>2. TypeOK /\ PostedIsLogged /\ [Next]_vars => PostedIsLogged'
    BY PostedIsLoggedStep
  <1>3. QED
    BY <1>1, <1>2, TypeCorrect, PTL DEF Spec


(***************************************************************************)
(* Neither the memory of a run nor the log claims what Benivo lacks.       *)
(***************************************************************************)
BelievesInAccount == {"created", "success", "success_unpatched", "already_exists"}

\* batch[r][e] after a step that advances one application, and after one
\* that starts a new batch.
LEMMA AdvanceBacked ==
  ASSUME TypeOK, MemoryIsBacked, [Next]_vars,
         NEW r \in Runs, NEW e \in Candidates, NEW progress, Advance(r, e, progress),
         progress \in BelievesInAccount => HasAccount(EmailOf[e])',
         progress = "success" => EmailOf[e] \in patched'
  PROVE  MemoryIsBacked'
  <1>1. ASSUME NEW s \in Runs, NEW f \in Candidates
        PROVE  /\ batch'[s][f] \in BelievesInAccount => HasAccount(EmailOf[f])'
               /\ batch'[s][f] = "success" => EmailOf[f] \in patched'
    <2>1. batch'[s][f] = IF s = r /\ f = e THEN progress ELSE batch[s][f]
      BY DEF Advance, TypeOK, PostingTypeOK
    <2>2. CASE s = r /\ f = e
      BY <2>1, <2>2
    <2>3. CASE ~(s = r /\ f = e)
      <3>1. batch'[s][f] = batch[s][f]
        BY <2>1, <2>3
      <3>2. /\ batch[s][f] \in BelievesInAccount => HasAccount(EmailOf[f])
            /\ batch[s][f] = "success" => EmailOf[f] \in patched
        BY DEF MemoryIsBacked, BelievesInAccount
      <3>3. QED
        BY <3>1, <3>2, BenivoGrows, EmailTyped
    <2>4. QED
      BY <2>2, <2>3
  <1>2. QED
    BY <1>1 DEF MemoryIsBacked, BelievesInAccount

LEMMA SameMemoryBacked ==
  ASSUME TypeOK, MemoryIsBacked, [Next]_vars, batch' = batch
  PROVE  MemoryIsBacked'
BY BenivoGrows, EmailTyped DEF MemoryIsBacked

LEMMA NewMemoryBacked ==
  ASSUME TypeOK, MemoryIsBacked, [Next]_vars, NEW r \in Runs,
         NEW b \in [Candidates -> Progress \ BelievesInAccount],
         batch' = [batch EXCEPT ![r] = b]
  PROVE  MemoryIsBacked'
  <1>1. ASSUME NEW s \in Runs, NEW f \in Candidates
        PROVE  /\ batch'[s][f] \in BelievesInAccount => HasAccount(EmailOf[f])'
               /\ batch'[s][f] = "success" => EmailOf[f] \in patched'
    <2>1. batch'[s] = IF s = r THEN b ELSE batch[s]
      BY DEF TypeOK, PostingTypeOK
    <2>2. b[f] \notin BelievesInAccount
      OBVIOUS
    <2>3. /\ batch[s][f] \in BelievesInAccount => HasAccount(EmailOf[f])
          /\ batch[s][f] = "success" => EmailOf[f] \in patched
      BY DEF MemoryIsBacked, BelievesInAccount
    <2>4. QED
      BY <2>1, <2>2, <2>3, BenivoGrows, EmailTyped DEF BelievesInAccount
  <1>2. QED
    BY <1>1 DEF MemoryIsBacked, BelievesInAccount

LEMMA PostingMemoryBacked ==
  ASSUME TypeOK, MemoryIsBacked, [Next]_vars, NEW r \in Runs, PostingStep(r)
  PROVE  MemoryIsBacked'
  <1>1. CASE Select(r)
    <2> DEFINE b == [e \in Candidates |->
                       CASE e \notin ReadyCandidates -> "out"
                         [] e \in ReadyCandidates /\ Postable(e) -> "ready"
                         [] e \in ReadyCandidates /\ ~Postable(e) -> "incomplete"]
    <2>1. b \in [Candidates -> Progress \ BelievesInAccount]
      BY DEF Progress, BelievesInAccount
    <2>2. batch' = [batch EXCEPT ![r] = b]
      BY <1>1 DEF Select
    <2> HIDE DEF b
    <2>3. QED
      BY <2>1, <2>2, NewMemoryBacked
  <1>2. CASE Authorize(r) \/ RequestRaises(r) \/ EndPosting(r) \/ EndRecording(r)
    BY <1>2, SameMemoryBacked DEF Authorize, RequestRaises, EndPosting, EndRecording
  <1>3. ASSUME NEW e \in Candidates, RejectLocally(r, e)
        PROVE  MemoryIsBacked'
    BY <1>3, AdvanceBacked DEF RejectLocally, BelievesInAccount
  <1>4. ASSUME NEW e \in Candidates, LookUp(r, e)
        PROVE  MemoryIsBacked'
    <2>1. CASE Advance(r, e, "unknown")
      BY <2>1, AdvanceBacked DEF BelievesInAccount
    <2>2. CASE Advance(r, e, "already_exists") /\ HasAccount(EmailOf[e])
      BY <2>2, AdvanceBacked, BenivoGrows, EmailTyped
    <2>3. QED
      BY <1>4, <2>1, <2>2 DEF LookUp, FindsUser
  <1>5. ASSUME NEW e \in Candidates, CreateUser(r, e)
        PROVE  MemoryIsBacked'
    <2>1. CASE Advance(r, e, "failed")
      BY <2>1, AdvanceBacked DEF BelievesInAccount
    <2>2. CASE Advance(r, e, "created") /\ OpenAccount(EmailOf[e])
      <3>1. HasAccount(EmailOf[e])'
        BY <2>2, EmailTyped DEF OpenAccount, HasAccount, TypeOK, BenivoTypeOK
      <3>2. QED
        BY <2>2, <3>1, AdvanceBacked
    <2>3. QED
      BY <1>5, <2>1, <2>2 DEF CreateUser
  <1>6. ASSUME NEW e \in Candidates, UpdateCase(r, e)
        PROVE  MemoryIsBacked'
    <2>1. HasAccount(EmailOf[e])'
      BY <1>6, BenivoGrows, EmailTyped DEF UpdateCase, MemoryIsBacked
    <2>2. CASE Advance(r, e, "success") /\ PatchCase(EmailOf[e])
      BY <2>1, <2>2, AdvanceBacked DEF PatchCase
    <2>3. CASE Advance(r, e, "success_unpatched")
      BY <2>1, <2>3, AdvanceBacked
    <2>4. QED
      BY <1>6, <2>2, <2>3 DEF UpdateCase
  <1>7. ASSUME NEW e \in Candidates, RecordResult(r, e)
        PROVE  MemoryIsBacked'
    <2>1. CASE Advance(r, e, "recorded")
      BY <2>1, AdvanceBacked DEF BelievesInAccount
    <2>2. QED
      BY <1>7, <2>1, SameMemoryBacked DEF RecordResult
  <1>8. QED
    BY <1>1, <1>2, <1>3, <1>4, <1>5, <1>6, <1>7 DEF PostingStep

LEMMA ExplicitMemoryBacked ==
  ASSUME TypeOK, MemoryIsBacked, [Next]_vars, NEW r \in Runs, ExplicitStep(r)
  PROVE  MemoryIsBacked'
  <1> DEFINE b == [e \in Candidates |-> IF e \in Named(r) THEN "pending" ELSE "out"]
  <1>1. b \in [Candidates -> Progress \ BelievesInAccount]
    BY DEF Progress, Evaluated, BelievesInAccount
  <1>2. CASE OpenBatch(r) \/ OpenUat(r)
    <2>1. batch' = [batch EXCEPT ![r] = b] \/ batch' = batch
      BY <1>2 DEF OpenBatch, OpenUat
    <2> HIDE DEF b
    <2>2. QED
      BY <1>1, <2>1, NewMemoryBacked, SameMemoryBacked
  <1>3. ASSUME NEW e \in Candidates, Fetch(r, e) \/ CheckLive(r, e) \/ CheckUnposted(r, e)
        PROVE  MemoryIsBacked'
    <2>1. PICK progress \in {"out", "fetched", "fetched_incomplete", "live", "ready",
                             "incomplete"} :
            Advance(r, e, progress)
      BY <1>3 DEF Fetch, CheckLive, CheckUnposted
    <2>2. progress \notin BelievesInAccount
      BY DEF BelievesInAccount
    <2>3. QED
      BY <2>1, <2>2, AdvanceBacked DEF BelievesInAccount
  <1>4. CASE EndEvaluation(r)
    BY <1>4, SameMemoryBacked DEF EndEvaluation
  <1>5. QED
    BY <1>2, <1>3, <1>4 DEF ExplicitStep

LEMMA MemoryIsBackedStep ==
  ASSUME TypeOK, MemoryIsBacked, [Next]_vars
  PROVE  MemoryIsBacked'
  <1>1. ASSUME NEW r \in Runs, Reschedule(r)
        PROVE  MemoryIsBacked'
    <2>1. NoBatch \in [Candidates -> Progress \ BelievesInAccount]
      BY DEF NoBatch, Progress, BelievesInAccount
    <2>2. QED
      BY <1>1, <2>1, NewMemoryBacked DEF Reschedule
  <1>2. ASSUME NEW r \in Runs, Start(r) \/ Report(r) \/ Die(r)
        PROVE  MemoryIsBacked'
    BY <1>2, SameMemoryBacked DEF Start, Report, Die
  <1>3. CASE UNCHANGED vars
    BY <1>3, SameMemoryBacked DEF vars
  <1>4. QED
    BY <1>1, <1>2, <1>3, PostingMemoryBacked, ExplicitMemoryBacked, SameMemoryBacked
    DEF Next, Environment, Progresses, Works

LEMMA LogIsBackedStep ==
  ASSUME TypeOK, MemoryIsBacked, LogIsBacked, [Next]_vars
  PROVE  LogIsBacked'
  <1> SUFFICES ASSUME NEW row \in postLog', row.status \in TerminalPostLogStatuses
               PROVE  /\ row.action = "CREATE_USER" => HasAccount(EmailOf[row.eid])'
                      /\ row.action = "UPDATE_CASE" => EmailOf[row.eid] \in patched'
    BY DEF LogIsBacked
  <1>1. CASE row \in postLog
    <2>1. /\ row.action = "CREATE_USER" => HasAccount(EmailOf[row.eid])
          /\ row.action = "UPDATE_CASE" => EmailOf[row.eid] \in patched
      BY <1>1 DEF LogIsBacked
    <2>2. row.eid \in Candidates
      BY <1>1 DEF TypeOK, StoreTypeOK, PostLogRow
    <2>3. QED
      BY <2>1, <2>2, BenivoGrows, EmailTyped
  <1>2. CASE row \notin postLog
    <2>1. PICK r \in Runs, e \in Candidates : RecordResult(r, e)
      BY <1>2, OnlyRecordingLogs
    <2>2. /\ batch[r][e] \in Outcomes
          /\ row \in {CreateRow(r, e, batch[r][e])} \cup CaseRows(r, e, batch[r][e])
          /\ UNCHANGED benivoVars
      BY <1>2, <2>1, RecordedRows DEF RecordResult
    <2>3. /\ row.eid = e
          /\ row.action = "CREATE_USER" => batch[r][e] # "failed"
          /\ row.action = "UPDATE_CASE" => batch[r][e] = "success"
      BY <2>2 DEF CreateRow, CaseRows, LogStatusOf, Outcomes, TerminalPostLogStatuses
    <2>4. /\ batch[r][e] # "failed" => HasAccount(EmailOf[e])
          /\ batch[r][e] = "success" => EmailOf[e] \in patched
      BY <2>2 DEF MemoryIsBacked, Outcomes
    <2>5. QED
      BY <2>2, <2>3, <2>4, BenivoGrows, EmailTyped
  <1>3. QED
    BY <1>1, <1>2

\* What a run believes of Benivo is so, however long it goes on believing it
\* while other runs create, patch and die: a hint never goes stale, because
\* the program only ever adds.
THEOREM MemoryTellsTheTruth == Spec => []MemoryIsBacked
  <1>1. Init => MemoryIsBacked
    BY DEF Init, PostingInit, NoBatch, MemoryIsBacked
  <1>2. TypeOK /\ MemoryIsBacked /\ [Next]_vars => MemoryIsBacked'
    BY MemoryIsBackedStep
  <1>3. QED
    BY <1>1, <1>2, TypeCorrect, PTL DEF Spec

\* A terminal row is never a claim about an account that does not exist, a
\* SUCCESS of UPDATE_CASE never one about a case that was not patched: true
\* for any number of overlapping runs, crashes, timeouts and lost replies.
THEOREM LogTellsTheTruth == Spec => []LogIsBacked
  <1>1. Init => LogIsBacked
    BY DEF Init, StoreInit, LogIsBacked
  <1>2. TypeOK /\ MemoryIsBacked /\ LogIsBacked /\ [Next]_vars => LogIsBacked'
    BY LogIsBackedStep
  <1>3. QED
    BY <1>1, <1>2, TypeCorrect, MemoryTellsTheTruth, PTL DEF Spec

(***************************************************************************)
(* The two rows of a success.                                              *)
(***************************************************************************)

\* Of one result: a case row comes with the SUCCESS of the creation, and the
\* only SUCCESS of a creation is the row that CreateRow makes of a success.
LEMMA ResultPairs ==
  ASSUME NEW r \in Runs, NEW e \in Candidates, NEW outcome \in Outcomes,
         NEW rows, rows = {CreateRow(r, e, outcome)} \cup CaseRows(r, e, outcome)
  PROVE  (\E row \in rows : row.action = "UPDATE_CASE")
           <=> CreateRow(r, e, "success") \in rows
  <1>1. CASE outcome \in {"success", "success_unpatched"}
    <2>1. CreateRow(r, e, outcome) = CreateRow(r, e, "success")
      BY <1>1 DEF CreateRow, LogStatusOf
    <2>2. \E row \in CaseRows(r, e, outcome) : row.action = "UPDATE_CASE"
      BY <1>1 DEF CaseRows
    <2>3. QED
      BY <2>1, <2>2
  <1>2. CASE outcome \in {"already_exists", "failed"}
    <2>1. rows = {CreateRow(r, e, outcome)}
      BY <1>2 DEF CaseRows
    <2>2. CreateRow(r, e, outcome).status # CreateRow(r, e, "success").status
      BY <1>2 DEF CreateRow, LogStatusOf
    <2>3. CreateRow(r, e, outcome).action = "CREATE_USER"
      BY DEF CreateRow
    <2>4. QED
      BY <2>1, <2>2, <2>3
  <1>3. QED
    BY <1>1, <1>2 DEF Outcomes

LEMMA CaseRowPairsStep ==
  ASSUME CaseRowPairsWithSuccess, [Next]_vars
  PROVE  CaseRowPairsWithSuccess'
  <1>1. CASE postLog' = postLog
    BY <1>1 DEF CaseRowPairsWithSuccess
  <1>2. CASE postLog' # postLog
    <2>1. PICK q \in Runs, f \in Candidates : RecordResult(q, f)
      BY <1>2, OnlyRecordingLogs
    <2> DEFINE rows == {CreateRow(q, f, batch[q][f])} \cup CaseRows(q, f, batch[q][f])
    <2>2. batch[q][f] \in Outcomes /\ postLog' = postLog \cup rows
      BY <1>2, <2>1, RecordedRows
    <2>3. \A row \in rows : row.eid = f /\ row.run = q
      BY <2>2, RowsOfResult
    <2>4. (\E row \in rows : row.action = "UPDATE_CASE")
            <=> CreateRow(q, f, "success") \in rows
      BY <2>2, ResultPairs
    <2> HIDE DEF rows
    <2>5. ASSUME NEW e \in Candidates, NEW r \in Runs
          PROVE  (\E row \in postLog' :
                    row.eid = e /\ row.run = r /\ row.action = "UPDATE_CASE")
                   <=> CreateRow(r, e, "success") \in postLog'
      <3>1. (\E row \in postLog :
               row.eid = e /\ row.run = r /\ row.action = "UPDATE_CASE")
              <=> CreateRow(r, e, "success") \in postLog
        BY DEF CaseRowPairsWithSuccess
      <3>2. CASE r = q /\ e = f
        BY <2>2, <2>3, <2>4, <3>1, <3>2
      <3>3. CASE ~(r = q /\ e = f)
        <4>1. CreateRow(r, e, "success").eid = e /\ CreateRow(r, e, "success").run = r
          BY DEF CreateRow
        <4>2. CreateRow(r, e, "success") \notin rows
          BY <2>3, <3>3, <4>1
        <4>3. QED
          BY <2>2, <2>3, <3>1, <3>3, <4>2
      <3>4. QED
        BY <3>2, <3>3
    <2>6. QED
      BY <2>5 DEF CaseRowPairsWithSuccess, CreateRow
  <1>3. QED
    BY <1>1, <1>2

\* Neither row of a success is ever there without the other, also after a
\* crash between any two steps: they are one transaction.
THEOREM CaseRowsPair == Spec => []CaseRowPairsWithSuccess
  <1>1. Init => CaseRowPairsWithSuccess
    BY DEF Init, StoreInit, CaseRowPairsWithSuccess
  <1>2. CaseRowPairsWithSuccess /\ [Next]_vars => CaseRowPairsWithSuccess'
    BY CaseRowPairsStep
  <1>3. QED
    BY <1>1, <1>2, PTL DEF Spec

(***************************************************************************)
(* Pipeline implements Ledger.                                             *)
(***************************************************************************)

\* CreateUser and RequestRaises open at most one account and patch at most
\* one case, never both, and the case only of an account that is there.
LEMMA RequestsFollowLedger ==
  ASSUME TypeOK, MemoryIsBacked, NEW r \in Runs,
         \/ RequestRaises(r)
         \/ \E e \in Candidates : CreateUser(r, e) \/ UpdateCase(r, e)
  PROVE  /\ UNCHANGED postLog
         /\ \/ /\ UNCHANGED patched
               /\ \/ UNCHANGED accounts
                  \/ \E m \in Emails : OpenAccount(m)
            \/ /\ UNCHANGED accounts
               /\ \E m \in Emails : HasAccount(m) /\ PatchCase(m)
  <1>1. CASE RequestRaises(r)
    BY <1>1, EmailTyped DEF RequestRaises, storeVars, benivoVars, MemoryIsBacked
  <1>2. CASE \E e \in Candidates : CreateUser(r, e)
    BY <1>2, EmailTyped DEF CreateUser, storeVars
  <1>3. CASE \E e \in Candidates : UpdateCase(r, e)
    BY <1>3, EmailTyped DEF UpdateCase, storeVars, MemoryIsBacked
  <1>4. QED
    BY <1>1, <1>2, <1>3

LEMMA RecordingFollowsLedger ==
  ASSUME TypeOK, MemoryIsBacked, NEW r \in Runs, NEW e \in Candidates, RecordResult(r, e)
  PROVE  \/ TerminalEids' = TerminalEids
         \/ /\ e \notin TerminalEids
            /\ HasAccount(EmailOf[e])
            /\ TerminalEids' = TerminalEids \cup {e}
  <1> DEFINE rows == {CreateRow(r, e, batch[r][e])} \cup CaseRows(r, e, batch[r][e])
  <1>1. CASE postLog' = postLog
    BY <1>1 DEF TerminalEids, HasTerminalRow
  <1>2. CASE postLog' # postLog
    <2>1. /\ batch[r][e] \in Outcomes
          /\ postLog' = postLog \cup rows
          /\ ~ViolatesIndex(rows)
      BY <1>2, RecordedRows
    <2>2. ASSUME NEW row \in rows, row.action = "CREATE_USER"
          PROVE  row = CreateRow(r, e, batch[r][e])
      BY <2>1, <2>2 DEF CaseRows
    <2>3. /\ CreateRow(r, e, batch[r][e]) \in rows
          /\ CreateRow(r, e, batch[r][e]).eid = e
          /\ CreateRow(r, e, batch[r][e]).action = "CREATE_USER"
          /\ CreateRow(r, e, batch[r][e]).status = LogStatusOf(batch[r][e])
      BY DEF CreateRow
    <2> HIDE DEF rows
    <2>4. CASE LogStatusOf(batch[r][e]) \in TerminalPostLogStatuses
      <3>1. batch[r][e] # "failed"
        BY <2>4 DEF LogStatusOf, TerminalPostLogStatuses
      <3>2. HasAccount(EmailOf[e])
        BY <2>1, <3>1 DEF MemoryIsBacked, Outcomes
      <3>3. e \notin TerminalEids
        BY <2>1, <2>3, <2>4 DEF ViolatesIndex, TerminalEids
      <3>4. TerminalEids' = TerminalEids \cup {e}
        BY <2>1, <2>2, <2>3, <2>4 DEF TerminalEids, HasTerminalRow
      <3>5. QED
        BY <3>2, <3>3, <3>4
    <2>5. CASE LogStatusOf(batch[r][e]) \notin TerminalPostLogStatuses
      BY <2>1, <2>2, <2>3, <2>5 DEF TerminalEids, HasTerminalRow
    <2>6. QED
      BY <2>4, <2>5
  <1>3. QED
    BY <1>1, <1>2

Opened == {m \in Emails : HasAccount(m)}

LEMMA LedgerStep ==
  ASSUME TypeOK, MemoryIsBacked, [Next]_vars
  PROVE  [Promise!LedgerNext]_<<Opened, patched, TerminalEids>>
  <1> USE DEF Promise!LedgerNext
  <1>1. CASE benivoVars' # benivoVars
    <2>1. PICK r \in Runs : \/ RequestRaises(r)
                            \/ \E e \in Candidates : CreateUser(r, e) \/ UpdateCase(r, e)
      BY <1>1, OnlyRequestsReachBenivo
    <2>2. TerminalEids' = TerminalEids
      BY <2>1, RequestsFollowLedger DEF TerminalEids, HasTerminalRow
    <2>3. CASE UNCHANGED <<accounts, patched>>
      BY <1>1, <2>3 DEF benivoVars
    <2>4. ASSUME NEW m \in Emails, OpenAccount(m), UNCHANGED patched
          PROVE  Promise!Open(m)
      <3>1. Opened' = Opened \cup {m}
        BY <2>4 DEF OpenAccount, Opened, HasAccount, TypeOK, BenivoTypeOK
      <3>2. QED
        BY <2>2, <2>4, <3>1 DEF Promise!Open, Opened
    <2>5. ASSUME NEW m \in Emails, HasAccount(m), PatchCase(m), UNCHANGED accounts
          PROVE  Promise!PatchCaseOf(m)
      <3>1. Opened' = Opened
        BY <2>5 DEF Opened, HasAccount
      <3>2. QED
        BY <2>2, <2>5, <3>1 DEF Promise!PatchCaseOf, PatchCase, Opened
    <2>6. QED
      BY <2>1, <2>3, <2>4, <2>5, RequestsFollowLedger
  <1>2. CASE benivoVars' = benivoVars
    <2>1. Opened' = Opened /\ patched' = patched
      BY <1>2 DEF benivoVars, Opened, HasAccount
    <2>2. CASE postLog' = postLog
      <3>1. TerminalEids' = TerminalEids
        BY <2>2 DEF TerminalEids, HasTerminalRow
      <3>2. QED
        BY <2>1, <3>1
    <2>3. CASE postLog' # postLog
      <3>1. PICK r \in Runs, e \in Candidates : RecordResult(r, e)
        BY <2>3, OnlyRecordingLogs
      <3>2. CASE TerminalEids' = TerminalEids
        BY <2>1, <3>2
      <3>3. CASE /\ e \notin TerminalEids
                 /\ HasAccount(EmailOf[e])
                 /\ TerminalEids' = TerminalEids \cup {e}
        <4>1. Promise!Settle(e)
          BY <2>1, <3>3, EmailTyped DEF Promise!Settle, Opened
        <4>2. QED
          BY <4>1
      <3>4. QED
        BY <3>1, <3>2, <3>3, RecordingFollowsLedger
    <2>4. QED
      BY <2>2, <2>3
  <1>3. QED
    BY <1>1, <1>2

\* Every behaviour of the pipeline is one of the ledger: an application is
\* settled once, and on the strength of an account with its address.
THEOREM PipelineImplementsLedger == Spec => ImplementsLedger
  <1>1. Init => Promise!LedgerInit
    BY DEF Init, StoreInit, BenivoInit, Promise!LedgerInit, HasAccount, TerminalEids,
           HasTerminalRow
  <1>2. TypeOK /\ MemoryIsBacked /\ [Next]_vars => [Promise!LedgerNext]_Promise!ledgerVars
    BY LedgerStep DEF Promise!ledgerVars, Opened
  <1>3. QED
    BY <1>1, <1>2, TypeCorrect, MemoryTellsTheTruth, PTL
    DEF Spec, ImplementsLedger, Promise!LedgerSpec

LEMMA BooksBalanceStep ==
  ASSUME Promise!BooksBalance, [Promise!LedgerNext]_(Promise!ledgerVars)
  PROVE  Promise!BooksBalance'
  <1> USE DEF Promise!BooksBalance
  <1>1. ASSUME NEW m \in Emails, Promise!Open(m) \/ Promise!PatchCaseOf(m)
        PROVE  Promise!BooksBalance'
    BY <1>1 DEF Promise!Open, Promise!PatchCaseOf
  <1>2. ASSUME NEW e \in Candidates, Promise!Settle(e)
        PROVE  Promise!BooksBalance'
    BY <1>2 DEF Promise!Settle
  <1>3. CASE UNCHANGED Promise!ledgerVars
    BY <1>3 DEF Promise!ledgerVars
  <1>4. QED
    BY <1>1, <1>2, <1>3 DEF Promise!LedgerNext

\* What the ledger is good for, proved of the abstract specification and
\* carried over by the refinement: no case is patched and no application is
\* settled without an account with its address.
THEOREM BooksAlwaysBalance == Spec => []Promise!BooksBalance
  <1>1. Promise!LedgerInit => Promise!BooksBalance
    BY DEF Promise!LedgerInit, Promise!BooksBalance
  <1>2. Promise!BooksBalance /\ [Promise!LedgerNext]_(Promise!ledgerVars)
          => Promise!BooksBalance'
    BY BooksBalanceStep
  <1>3. ImplementsLedger => []Promise!BooksBalance
    BY <1>1, <1>2, PTL DEF ImplementsLedger, Promise!LedgerSpec
  <1>4. QED
    BY <1>3, PipelineImplementsLedger


(***************************************************************************)
(* Dates and the go-live gate.                                             *)
(***************************************************************************)

\* scope_history is written by the commit of a synchronization only.
LEMMA OnlySyncDates ==
  ASSUME [Next]_vars, firstSeen' # firstSeen
  PROVE  \E r \in Runs : SyncCommit(r)
  <1>1. ASSUME NEW r \in Runs, Start(r) \/ Report(r) \/ Reschedule(r) \/ Die(r)
        PROVE  firstSeen' = firstSeen
    BY <1>1 DEF Start, Report, Reschedule, Die, storeVars
  <1>2. ASSUME NEW r \in Runs, IntakeStep(r), ~SyncCommit(r)
        PROVE  firstSeen' = firstSeen
    BY <1>2 DEF IntakeStep, SyncUpsert, SyncHistory, ClassifyRead, ClassifyCommit, storeVars
  <1>3. ASSUME NEW r \in Runs, PostingStep(r)
        PROVE  firstSeen' = firstSeen
    BY <1>3, PostingFrame DEF RecordResult, storeVars
  <1>4. UNCHANGED vars => firstSeen' = firstSeen
    BY DEF vars, storeVars
  <1>5. (Tick \/ \E e \in Candidates : EtlRewrites(e)) => firstSeen' = firstSeen
    BY DEF Tick, EtlRewrites
  <1>6. QED
    BY <1>1, <1>2, <1>3, <1>4, <1>5, ExplicitFrame
    DEF Next, Environment, Progresses, Works, storeVars

\* ON CONFLICT DO NOTHING: a date stands.
LEMMA FirstSeenStays ==
  ASSUME [Next]_vars, NEW e \in Candidates, firstSeen[e] # NeverSeen
  PROVE  firstSeen'[e] = firstSeen[e]
  <1>1. CASE firstSeen' = firstSeen
    BY <1>1
  <1>2. CASE firstSeen' # firstSeen
    BY <1>2, OnlySyncDates DEF SyncCommit, FirstSeenAfter
  <1>3. QED
    BY <1>1, <1>2

\* However often a candidate leaves the scope and comes back, and however
\* many synchronizations overlap, its scope_history row never changes.
THEOREM FirstSeenIsWrittenOnce == Spec => FirstSeenIsKept
  <1>1. [Next]_vars =>
          [\A e \in Candidates : firstSeen[e] # NeverSeen => firstSeen'[e] = firstSeen[e]]_vars
    BY FirstSeenStays
  <1>2. QED
    BY <1>1, PTL DEF Spec, FirstSeenIsKept

\* A step that advances one selected application selects no other.
LEMMA AdvanceTakesNobody ==
  ASSUME TypeOK, NEW q \in Runs, NEW f \in Candidates, NEW progress,
         batch[q][f] # "out", Advance(q, f, progress),
         NEW r \in Runs, NEW e \in Candidates, batch[r][e] = "out"
  PROVE  batch'[r][e] = "out"
BY DEF Advance, TypeOK, PostingTypeOK

\* Nobody is held but whom the query returned or the configuration names.
LEMMA OnlyRoutesTake ==
  ASSUME TypeOK, [Next]_vars, NEW r \in Runs, NEW e \in Candidates,
         batch[r][e] = "out", batch'[r][e] # "out"
  PROVE  \/ Select(r) /\ e \in ReadyCandidates
         \/ OpenBatch(r) /\ LoadsBatch(Explicit[r]) /\ e \in Named(r)
         \/ OpenUat(r) /\ e \in Named(r)
  <1>1. ASSUME NEW q \in Runs, PostingStep(q)
        PROVE  Select(r) /\ e \in ReadyCandidates
    <2>1. CASE Select(q)
      <3>1. q = r
        BY <2>1 DEF Select, TypeOK, PostingTypeOK
      <3>2. batch'[r][e] = CASE e \notin ReadyCandidates -> "out"
                             [] e \in ReadyCandidates /\ Postable(e) -> "ready"
                             [] e \in ReadyCandidates /\ ~Postable(e) -> "incomplete"
        BY <2>1, <3>1 DEF Select, TypeOK, PostingTypeOK
      <3>3. QED
        BY <2>1, <3>1, <3>2
    <2>2. CASE Authorize(q) \/ RequestRaises(q) \/ EndPosting(q) \/ EndRecording(q)
      BY <2>2 DEF Authorize, RequestRaises, EndPosting, EndRecording
    <2>3. ASSUME NEW f \in Candidates,
                 \/ RejectLocally(q, f) \/ LookUp(q, f) \/ CreateUser(q, f)
                 \/ UpdateCase(q, f) \/ RecordResult(q, f)
          PROVE  FALSE
      <3>1. batch[q][f] # "out"
        BY <2>3 DEF RejectLocally, LookUp, CreateUser, UpdateCase, RecordResult,
                    TurnsTo, IsFirst, Outcomes
      <3>2. batch' = batch \/ \E progress : Advance(q, f, progress)
        BY <2>3 DEF RejectLocally, LookUp, CreateUser, UpdateCase, RecordResult
      <3>3. QED
        BY <3>1, <3>2, AdvanceTakesNobody
    <2>4. QED
      BY <1>1, <2>1, <2>2, <2>3 DEF PostingStep
  <1>2. ASSUME NEW q \in Runs, ExplicitStep(q)
        PROVE  \/ OpenBatch(r) /\ LoadsBatch(Explicit[r]) /\ e \in Named(r)
               \/ OpenUat(r) /\ e \in Named(r)
    <2>1. CASE OpenBatch(q)
      BY <2>1 DEF OpenBatch, TypeOK, PostingTypeOK
    <2>2. CASE OpenUat(q)
      BY <2>2 DEF OpenUat, TypeOK, PostingTypeOK
    <2>3. ASSUME NEW f \in Candidates, Fetch(q, f) \/ CheckLive(q, f) \/ CheckUnposted(q, f)
          PROVE  FALSE
      <3>1. batch[q][f] # "out"
        BY <2>3 DEF Fetch, CheckLive, CheckUnposted, EvaluatesNext, IsFirst
      <3>2. \E progress : Advance(q, f, progress)
        BY <2>3 DEF Fetch, CheckLive, CheckUnposted
      <3>3. QED
        BY <3>1, <3>2, AdvanceTakesNobody
    <2>4. CASE EndEvaluation(q)
      BY <2>4 DEF EndEvaluation
    <2>5. QED
      BY <1>2, <2>1, <2>2, <2>3, <2>4 DEF ExplicitStep
  <1>3. ASSUME NEW q \in Runs, \/ Start(q) \/ Report(q) \/ Reschedule(q) \/ Die(q)
                               \/ IntakeStep(q) /\ UNCHANGED batch
        PROVE  FALSE
    BY <1>3 DEF Start, Report, Reschedule, Die, NoBatch, TypeOK, PostingTypeOK
  <1>4. ~UNCHANGED batch
    OBVIOUS
  <1>5. ~Environment /\ ~UNCHANGED vars
    BY <1>4 DEF Environment, vars
  <1>6. PICK q \in Runs : Progresses(q) \/ Die(q)
    BY <1>5 DEF Next
  <1>7. \/ PostingStep(q) \/ ExplicitStep(q)
        \/ Start(q) \/ Report(q) \/ Reschedule(q) \/ Die(q)
        \/ IntakeStep(q) /\ UNCHANGED batch
    BY <1>6 DEF Progresses, Works
  <1>8. QED
    BY <1>1, <1>2, <1>3, <1>7

\* On the normal path nobody is held but whom the query returned.
LEMMA OnlySelectionTakes ==
  ASSUME TypeOK, [Next]_vars, NEW r \in Runs, NEW e \in Candidates,
         Selection[r] = "normal", batch[r][e] = "out", batch'[r][e] # "out"
  PROVE  Select(r) /\ e \in ReadyCandidates
BY OnlyRoutesTake DEF OpenBatch, OpenUat

LEMMA BacklogStaysOutStep ==
  ASSUME TypeOK, BacklogStaysOut, [Next]_vars
  PROVE  BacklogStaysOut'
  <1>1. SUFFICES ASSUME NEW r \in Runs, NEW e \in Candidates,
                        Selection[r] = "normal", batch'[r][e] # "out", GoLive # Unset
                 PROVE  firstSeen'[e] # NeverSeen /\ firstSeen'[e] >= GoLive
    BY DEF BacklogStaysOut
  <1>2. firstSeen[e] # NeverSeen /\ firstSeen[e] >= GoLive
    <2>1. CASE batch[r][e] # "out"
      BY <1>1, <2>1 DEF BacklogStaysOut
    <2>2. CASE batch[r][e] = "out"
      BY <1>1, <2>2, OnlySelectionTakes DEF ReadyCandidates, Selectable, PassesGoLive
    <2>3. QED
      BY <2>1, <2>2
  <1>3. QED
    BY <1>2, FirstSeenStays

\* The go-live gate holds beyond the moment of the query: whomever a run of
\* the normal path still has in hand was first seen at or after the cutover.
THEOREM BacklogIsNeverInHand == Spec => []BacklogStaysOut
  <1>1. Init => BacklogStaysOut
    BY DEF Init, PostingInit, NoBatch, BacklogStaysOut
  <1>2. TypeOK /\ BacklogStaysOut /\ [Next]_vars => BacklogStaysOut'
    BY BacklogStaysOutStep
  <1>3. QED
    BY <1>1, <1>2, TypeCorrect, PTL DEF Spec

(***************************************************************************)
(* The overrides.                                                          *)
(***************************************************************************)

\* Where e stands among the entries of the configuration.
Places(r, e) == {i \in 1..Len(Explicit[r]) : Explicit[r][i] = e}

\* A file that loads, and a single eid, name nobody twice.
LEMMA NamedOnce ==
  ASSUME NEW r \in Runs, NEW e \in Named(r),
         LoadsBatch(Explicit[r]) \/ Len(Explicit[r]) = 1
  PROVE  Cardinality(Places(r, e)) = 1
  <1>1. PICK i \in 1..Len(Explicit[r]) : Explicit[r][i] = e
    BY DEF Named
  <1>2. Places(r, e) = {i}
    <2>1. \A j \in 1..Len(Explicit[r]) : Explicit[r][j] = e => j = i
      BY <1>1 DEF LoadsBatch
    <2>2. QED
      BY <1>1, <2>1 DEF Places
  <1>3. QED
    BY <1>2, FS_Singleton

LEMMA ExplicitStaysStep ==
  ASSUME TypeOK, ExplicitStaysWithinFile, [Next]_vars
  PROVE  ExplicitStaysWithinFile'
  <1>1. SUFFICES ASSUME NEW r \in Runs, NEW e \in Candidates,
                        Selection[r] # "normal", batch'[r][e] # "out"
                 PROVE  Cardinality(Places(r, e)) = 1
    BY DEF ExplicitStaysWithinFile, Places
  <1>2. CASE batch[r][e] # "out"
    BY <1>1, <1>2 DEF ExplicitStaysWithinFile, Places
  <1>3. CASE batch[r][e] = "out"
    <2>1. /\ e \in Named(r)
          /\ LoadsBatch(Explicit[r]) \/ Len(Explicit[r]) = 1
      BY <1>1, <1>3, OnlyRoutesTake, PostingAssumption
      DEF Select, OpenUat, PostingAssumption
    <2>2. QED
      BY <2>1, NamedOnce
  <1>4. QED
    BY <1>2, <1>3

\* Neither override ever holds anybody whom its configuration does not name,
\* or names twice, whatever the other runs and the ETL commit while it looks.
THEOREM ExplicitIsNamedOnce == Spec => []ExplicitStaysWithinFile
  <1>1. Init => ExplicitStaysWithinFile
    BY DEF Init, PostingInit, NoBatch, ExplicitStaysWithinFile
  <1>2. TypeOK /\ ExplicitStaysWithinFile /\ [Next]_vars => ExplicitStaysWithinFile'
    BY ExplicitStaysStep
  <1>3. QED
    BY <1>1, <1>2, TypeCorrect, PTL DEF Spec

(***************************************************************************)
(* Stages, and rows that stay.                                             *)
(***************************************************************************)

\* The control flow of an invocation: main.py's stages one after the other.
LEMMA StageSteps ==
  ASSUME TypeOK, NEW r \in Runs, Works(r), pc'[r] # pc[r]
  PROVE  \/ Start(r)
         \/ pc[r] = "sync" /\ pc'[r] = "sync_history"
         \/ pc[r] = "sync_history" /\ pc'[r] = "sync_mark"
         \/ pc[r] = "sync_mark" /\ pc'[r] = StageAfterSync(r)
         \/ pc[r] = "classify" /\ pc'[r] = "classify_write"
         \/ pc[r] = "classify_write" /\ pc'[r] = StageAfterClassify(r)
         \/ pc[r] = "select" /\ pc'[r] \in {"evaluate", StageAfterSelection(r)}
         \/ pc[r] = "evaluate" /\ pc'[r] = StageAfterSelection(r)
         \/ /\ pc[r] \in {"authorize", "post", "record"}
            /\ pc'[r] \in {"post", "record", "report", "failed"}
  <1>1. \A stage : GoTo(r, stage) => pc'[r] = stage
    BY DEF GoTo, TypeOK, InvocationsTypeOK
  <1>2. CASE IntakeStep(r)
    BY <1>1, <1>2 DEF IntakeStep, SyncUpsert, SyncHistory, SyncCommit, ClassifyRead,
                      ClassifyCommit
  <1>3. CASE PostingStep(r)
    <2>1. CASE Select(r) \/ Authorize(r) \/ EndPosting(r) \/ EndRecording(r)
      BY <1>1, <2>1 DEF Select, Authorize, EndPosting, EndRecording
    <2>2. CASE RequestRaises(r)
      BY <1>1, <2>2 DEF RequestRaises, TurnsTo
    <2>3. ASSUME NEW e \in Candidates,
                 RejectLocally(r, e) \/ LookUp(r, e) \/ CreateUser(r, e) \/ UpdateCase(r, e)
          PROVE  FALSE
      BY <2>3 DEF RejectLocally, LookUp, CreateUser, UpdateCase
    <2>4. ASSUME NEW e \in Candidates, RecordResult(r, e)
          PROVE  pc[r] = "record" /\ pc'[r] = "failed"
      BY <1>1, <2>4 DEF RecordResult
    <2>5. QED
      BY <1>3, <2>1, <2>2, <2>3, <2>4 DEF PostingStep
  <1>4. CASE ExplicitStep(r)
    BY <1>1, <1>4 DEF ExplicitStep, OpenBatch, OpenUat, Fetch, CheckLive, CheckUnposted,
                      EndEvaluation
  <1>5. QED
    BY <1>2, <1>3, <1>4 DEF Works

\* No statement of the program deletes a candidates row.
LEMMA RowsStay ==
  ASSUME TypeOK, [Next]_vars, NEW e \in Candidates, Exists(e)
  PROVE  Exists(e)'
  <1> USE DEF Exists
  <1>1. CASE cand' = cand
    BY <1>1
  <1>2. ASSUME NEW r \in Runs, SyncCommit(r)
        PROVE  Exists(e)'
    BY <1>2, SyncCommitRows
  <1>3. ASSUME NEW r \in Runs, ClassifyCommit(r)
        PROVE  Exists(e)'
    <2>1. /\ cand[e] \in CandidateRow
          /\ cand'[e] = IF verdicts[r][e] = "NO_ROW" THEN cand[e]
                        ELSE [cand[e] EXCEPT !.status = verdicts[r][e]]
      BY <1>3 DEF ClassifyCommit, TypeOK, StoreTypeOK
    <2>2. [cand[e] EXCEPT !.status = verdicts[r][e]].status = verdicts[r][e]
      BY <2>1 DEF CandidateRow
    <2>3. QED
      BY <2>1, <2>2
  <1>4. ASSUME NEW r \in Runs, NEW f \in Candidates, RecordResult(r, f)
        PROVE  Exists(e)'
    <2> DEFINE status == CandidateStatusOf(LogStatusOf(batch[r][f]))
    <2>1. cand' = cand \/ cand' = [cand EXCEPT ![f].status = status]
      BY <1>4 DEF RecordResult
    <2>2. status # "NO_ROW"
      BY DEF CandidateStatusOf, Posted
    <2>3. cand \in [Candidates -> CandidateRow]
      BY DEF TypeOK, StoreTypeOK
    <2> HIDE DEF status
    <2>4. QED
      BY <2>1, <2>2, <2>3 DEF CandidateRow
  <1>5. CASE cand' # cand
    <2>1. PICK r \in Runs : IntakeStep(r) \/ \E f \in Candidates : RecordResult(r, f)
      BY <1>5, OnlyIntakeAndRecordingWrite
    <2>2. ASSUME SyncUpsert(r) \/ SyncHistory(r) \/ ClassifyRead(r)
          PROVE  FALSE
      BY <1>5, <2>2 DEF SyncUpsert, SyncHistory, ClassifyRead, storeVars
    <2>3. QED
      BY <1>2, <1>3, <1>4, <2>1, <2>2 DEF IntakeStep
  <1>6. QED
    BY <1>1, <1>5

\* A stage before the report is left by its own run and touches no other.
LEMMA WorksStage ==
  ASSUME NEW r \in Runs, Works(r)
  PROVE  /\ pc[r] \notin {"report", "done", "failed"}
         /\ pc' = pc \/ \E stage : pc' = [pc EXCEPT ![r] = stage]
  <1>1. CASE Start(r)
    BY <1>1 DEF Start, GoTo
  <1>2. CASE IntakeStep(r)
    BY <1>2 DEF IntakeStep, SyncUpsert, SyncHistory, SyncCommit, ClassifyRead,
                ClassifyCommit, GoTo
  <1>3. CASE PostingStep(r)
    <2>1. CASE Select(r) \/ Authorize(r) \/ EndPosting(r) \/ EndRecording(r)
      BY <2>1 DEF Select, Authorize, EndPosting, EndRecording, GoTo
    <2>2. CASE RequestRaises(r)
      BY <2>2 DEF RequestRaises, TurnsTo, GoTo
    <2>3. ASSUME NEW e \in Candidates,
                 RejectLocally(r, e) \/ LookUp(r, e) \/ CreateUser(r, e) \/ UpdateCase(r, e)
          PROVE  pc[r] = "post" /\ pc' = pc
      BY <2>3 DEF RejectLocally, LookUp, CreateUser, UpdateCase, TurnsTo
    <2>4. ASSUME NEW e \in Candidates, RecordResult(r, e)
          PROVE  pc[r] = "record" /\ (pc' = pc \/ GoTo(r, "failed"))
      BY <2>4 DEF RecordResult
    <2>5. QED
      BY <1>3, <2>1, <2>2, <2>3, <2>4 DEF PostingStep, GoTo
  <1>4. CASE ExplicitStep(r)
    BY <1>4 DEF ExplicitStep, OpenBatch, OpenUat, Fetch, CheckLive, CheckUnposted,
                EndEvaluation, EvaluatesNext, GoTo
  <1>5. QED
    BY <1>1, <1>2, <1>3, <1>4 DEF Works

\* What one run holds is written by its own stages.
LEMMA OnlyItsOwnBatch ==
  ASSUME TypeOK, NEW q \in Runs, Works(q), NEW r \in Runs \ {q}
  PROVE  batch'[r] = batch[r]
  <1> USE DEF TypeOK, PostingTypeOK
  <1>1. ASSUME NEW e, NEW progress, Advance(q, e, progress)
        PROVE  batch'[r] = batch[r]
    BY <1>1 DEF Advance
  <1>2. CASE Start(q) \/ (IntakeStep(q) /\ UNCHANGED batch)
    BY <1>2 DEF Start
  <1>3. CASE PostingStep(q)
    <2>1. CASE Select(q)
      BY <2>1 DEF Select
    <2>2. CASE Authorize(q) \/ RequestRaises(q) \/ EndPosting(q) \/ EndRecording(q)
      BY <2>2 DEF Authorize, RequestRaises, EndPosting, EndRecording
    <2>3. ASSUME NEW e \in Candidates,
                 \/ RejectLocally(q, e) \/ LookUp(q, e) \/ CreateUser(q, e)
                 \/ UpdateCase(q, e) \/ RecordResult(q, e)
          PROVE  batch'[r] = batch[r]
      BY <1>1, <2>3 DEF RejectLocally, LookUp, CreateUser, UpdateCase, RecordResult
    <2>4. QED
      BY <1>3, <2>1, <2>2, <2>3 DEF PostingStep
  <1>4. CASE ExplicitStep(q)
    <2>1. CASE OpenBatch(q) \/ OpenUat(q) \/ EndEvaluation(q)
      BY <2>1 DEF OpenBatch, OpenUat, EndEvaluation
    <2>2. ASSUME NEW e \in Candidates, Fetch(q, e) \/ CheckLive(q, e) \/ CheckUnposted(q, e)
          PROVE  batch'[r] = batch[r]
      BY <1>1, <2>2 DEF Fetch, CheckLive, CheckUnposted
    <2>3. QED
      BY <1>4, <2>1, <2>2 DEF ExplicitStep
  <1>5. QED
    BY <1>2, <1>3, <1>4 DEF Works

(***************************************************************************)
(* What a run holds in its memory at each stage.                           *)
(***************************************************************************)
BeforeSelection ==
  {"idle", "sync", "sync_history", "sync_mark", "classify", "classify_write", "select"}

\* A run holds nobody before its selection; evaluates before it posts; has
\* an outcome for everybody when it begins to record; and, when it reports
\* on a real posting, has recorded them.
StageHolds(r) ==
  /\ pc[r] \in BeforeSelection => batch[r] = NoBatch
  /\ \A e \in Candidates :
       /\ pc[r] = "evaluate" => batch[r][e] \in {"out", "ready", "incomplete"} \cup Evaluated
       /\ pc[r] = "authorize" => batch[r][e] \in {"out", "ready", "incomplete"}
       /\ pc[r] = "record" => batch[r][e] \in {"out", "recorded"} \cup Outcomes
       /\ pc[r] = "report" /\ PostsForReal(r) => batch[r][e] \in {"out", "recorded"}

BatchFollowsStage == \A r \in Runs : StageHolds(r)

LEMMA IntakeStageHolds ==
  ASSUME TypeOK, NEW r \in Runs, StageHolds(r), UNCHANGED batch,
         Start(r) \/ IntakeStep(r)
  PROVE  StageHolds(r)'
  <1>1. \A stage : GoTo(r, stage) => pc'[r] = stage
    BY DEF GoTo, TypeOK, InvocationsTypeOK
  <1>2. pc[r] \in BeforeSelection
    BY DEF Start, IntakeStep, SyncUpsert, SyncHistory, SyncCommit, ClassifyRead,
           ClassifyCommit, BeforeSelection
  <1>3. batch'[r] = NoBatch
    BY <1>2 DEF StageHolds
  <1>4. \A e \in Candidates : batch'[r][e] = "out"
    BY <1>3 DEF NoBatch
  <1>5. QED
    BY <1>3, <1>4 DEF StageHolds, NoBatch

LEMMA PostingStageHolds ==
  ASSUME TypeOK, NEW r \in Runs, StageHolds(r), PostingStep(r)
  PROVE  StageHolds(r)'
  <1>1. \A stage : GoTo(r, stage) => pc'[r] = stage
    BY DEF GoTo, TypeOK, InvocationsTypeOK
  <1>2. CASE Select(r)
    <2>1. \A e \in Candidates :
            batch'[r][e] = CASE e \notin ReadyCandidates -> "out"
                             [] e \in ReadyCandidates /\ Postable(e) -> "ready"
                             [] e \in ReadyCandidates /\ ~Postable(e) -> "incomplete"
      BY <1>2 DEF Select, TypeOK, PostingTypeOK
    <2>2. \A e \in Candidates : batch'[r][e] \in {"out", "ready", "incomplete"}
      BY <2>1
    <2>3. pc'[r] = StageAfterSelection(r)
      BY <1>1, <1>2 DEF Select
    <2>4. QED
      BY <2>2, <2>3 DEF StageAfterSelection, StageHolds, BeforeSelection, PostsForReal
  <1>3. CASE Authorize(r) \/ RequestRaises(r)
    <2>1. pc'[r] \in {"post", "failed"}
      BY <1>1, <1>3 DEF Authorize, RequestRaises
    <2>2. QED
      BY <2>1 DEF StageHolds, BeforeSelection
  <1>4. CASE EndPosting(r)
    BY <1>1, <1>4 DEF EndPosting, StageHolds, BeforeSelection
  <1>5. CASE EndRecording(r)
    BY <1>1, <1>5 DEF EndRecording, StageHolds, BeforeSelection, PostsForReal
  <1>6. ASSUME NEW e \in Candidates,
               RejectLocally(r, e) \/ LookUp(r, e) \/ CreateUser(r, e) \/ UpdateCase(r, e)
        PROVE  StageHolds(r)'
    <2>1. pc'[r] = "post"
      BY <1>6 DEF RejectLocally, LookUp, CreateUser, UpdateCase, TurnsTo
    <2>2. QED
      BY <2>1 DEF StageHolds, BeforeSelection
  <1>7. ASSUME NEW e \in Candidates, RecordResult(r, e)
        PROVE  StageHolds(r)'
    <2>1. CASE pc'[r] = "failed"
      BY <2>1 DEF StageHolds, BeforeSelection
    <2>2. CASE Advance(r, e, "recorded") /\ pc' = pc
      <3>1. pc[r] = "record"
        BY <1>7 DEF RecordResult
      <3>2. \A f \in Candidates : batch'[r][f] = IF f = e THEN "recorded" ELSE batch[r][f]
        BY <2>2 DEF Advance, TypeOK, PostingTypeOK
      <3>3. QED
        BY <2>2, <3>1, <3>2 DEF StageHolds, BeforeSelection, PostsForReal
    <2>3. QED
      BY <1>1, <1>7, <2>1, <2>2 DEF RecordResult
  <1>8. QED
    BY <1>2, <1>3, <1>4, <1>5, <1>6, <1>7 DEF PostingStep

LEMMA ExplicitStageHolds ==
  ASSUME TypeOK, NEW r \in Runs, StageHolds(r), ExplicitStep(r)
  PROVE  StageHolds(r)'
  <1>1. \A stage : GoTo(r, stage) => pc'[r] = stage
    BY DEF GoTo, TypeOK, InvocationsTypeOK
  <1>2. CASE OpenBatch(r) \/ OpenUat(r)
    <2>1. \A e \in Candidates : batch[r][e] = "out"
      BY <1>2 DEF OpenBatch, OpenUat, StageHolds, BeforeSelection, NoBatch
    <2>2. \A e \in Candidates :
            \/ batch'[r][e] = "out"
            \/ batch'[r][e] = "pending" /\ pc'[r] = "evaluate"
      BY <1>1, <1>2, <2>1 DEF OpenBatch, OpenUat, TypeOK, PostingTypeOK
    <2>3. pc'[r] \in {"evaluate", StageAfterSelection(r)}
      BY <1>1, <1>2 DEF OpenBatch, OpenUat
    <2>4. QED
      BY <2>2, <2>3 DEF StageHolds, BeforeSelection, StageAfterSelection, Evaluated
  <1>3. ASSUME NEW e \in Candidates, Fetch(r, e) \/ CheckLive(r, e) \/ CheckUnposted(r, e)
        PROVE  StageHolds(r)'
    <2>1. pc[r] = "evaluate" /\ pc'[r] = "evaluate"
      BY <1>3 DEF Fetch, CheckLive, CheckUnposted, EvaluatesNext
    <2>2. PICK progress \in {"out", "ready", "incomplete"} \cup Evaluated :
            Advance(r, e, progress)
      BY <1>3 DEF Fetch, CheckLive, CheckUnposted, Evaluated
    <2>3. \A f \in Candidates : batch'[r][f] = IF f = e THEN progress ELSE batch[r][f]
      BY <2>2 DEF Advance, TypeOK, PostingTypeOK
    <2>4. QED
      BY <2>1, <2>2, <2>3 DEF StageHolds, BeforeSelection
  <1>4. CASE EndEvaluation(r)
    <2>1. /\ pc'[r] = StageAfterSelection(r)
          /\ \A e \in Candidates : batch'[r][e] \in {"out", "ready", "incomplete"}
      BY <1>1, <1>4 DEF EndEvaluation, StageHolds
    <2>2. QED
      BY <2>1 DEF StageHolds, BeforeSelection, StageAfterSelection, PostsForReal
  <1>5. QED
    BY <1>2, <1>3, <1>4 DEF ExplicitStep

LEMMA BatchFollowsStageStep ==
  ASSUME TypeOK, BatchFollowsStage, [Next]_vars
  PROVE  BatchFollowsStage'
  <1>1. \A r \in Runs : StageHolds(r)
    BY DEF BatchFollowsStage
  <1>2. SUFFICES ASSUME NEW r \in Runs PROVE StageHolds(r)'
    BY DEF BatchFollowsStage
  <1>3. (pc'[r] = pc[r] /\ batch'[r] = batch[r]) => StageHolds(r)'
    BY <1>1 DEF StageHolds, PostsForReal
  <1>4. ASSUME NEW q \in Runs, Works(q)
        PROVE  StageHolds(r)'
    <2>1. CASE q = r
      BY <1>1, <1>4, <2>1, IntakeStageHolds, PostingStageHolds, ExplicitStageHolds
      DEF Works, Start
    <2>2. CASE q # r
      BY <1>3, <1>4, <2>2, WorksStage, OnlyItsOwnBatch DEF TypeOK, InvocationsTypeOK
    <2>3. QED
      BY <2>1, <2>2
  <1>5. ASSUME NEW q \in Runs, Report(q) \/ Die(q)
        PROVE  StageHolds(r)'
    <2>1. batch' = batch /\ (pc'[r] = pc[r] \/ pc'[r] \in {"done", "failed"})
      BY <1>5 DEF Report, Die, GoTo, TypeOK, InvocationsTypeOK
    <2>2. QED
      BY <1>3, <2>1 DEF StageHolds, BeforeSelection
  <1>6. ASSUME NEW q \in Runs, Reschedule(q)
        PROVE  StageHolds(r)'
    <2>1. CASE q = r
      BY <1>6, <2>1 DEF Reschedule, GoTo, TypeOK, InvocationsTypeOK, PostingTypeOK, StageHolds
    <2>2. CASE q # r
      BY <1>3, <1>6, <2>2 DEF Reschedule, GoTo, TypeOK, InvocationsTypeOK, PostingTypeOK
    <2>3. QED
      BY <2>1, <2>2
  <1>7. (Environment \/ UNCHANGED vars) => pc'[r] = pc[r] /\ batch'[r] = batch[r]
    BY DEF Environment, vars
  <1>8. QED
    BY <1>3, <1>4, <1>5, <1>6, <1>7 DEF Next, Progresses

LEMMA BatchFollowsStageHolds == Spec => []BatchFollowsStage
  <1>1. Init => BatchFollowsStage
    BY DEF Init, InvocationsInit, PostingInit, BatchFollowsStage, StageHolds
  <1>2. TypeOK /\ BatchFollowsStage /\ [Next]_vars => BatchFollowsStage'
    BY BatchFollowsStageStep
  <1>3. QED
    BY <1>1, <1>2, TypeCorrect, PTL DEF Spec

=============================================================================
