---------------------------- MODULE CutoverProofs ----------------------------
(***************************************************************************)
(* Theorems of Cutover: the go-live procedure keeps its promise for every  *)
(* set of candidates and runs, whatever synchronizations overlap with it   *)
(* and whoever leaves and re-enters the scope meanwhile.                   *)
(***************************************************************************)
EXTENDS Cutover, PipelineProofs

allVars == <<vars, cutoverVars>>

(***************************************************************************)
(* Every step is one of the service, of the operator's hands, of the       *)
(* backfill, or a statement that lacks its table.                          *)
(***************************************************************************)
ByHand == ApplyMigration \/ CreateBatch \/ CreateCanary \/ Activate

LEMMA CutoverCases ==
  ASSUME [CutoverNext]_allVars
  PROVE  \/ [Next]_vars /\ UNCHANGED cutoverVars
         \/ ByHand /\ UNCHANGED vars
         \/ Backfill
         \/ \E r \in Runs : Breaks(r)
  <1>1. ASSUME NEW r \in Runs, Serves(r) \/ (Die(r) /\ UNCHANGED cutoverVars)
        PROVE  Next /\ UNCHANGED cutoverVars
    BY <1>1 DEF Serves, Next
  <1>2. CASE ByHand
    BY <1>2 DEF ByHand, ApplyMigration, CreateBatch, CreateCanary, Activate
  <1>3. CASE Environment /\ UNCHANGED cutoverVars
    BY <1>3 DEF Next
  <1>4. CASE UNCHANGED allVars
    BY <1>4 DEF allVars
  <1>5. QED
    BY <1>1, <1>2, <1>3, <1>4 DEF CutoverNext, Operator, ByHand

(***************************************************************************)
(* Types.                                                                  *)
(***************************************************************************)
LEMMA LeftBehindRows ==
  ASSUME NEW known \in SUBSET Candidates, NEW tried \in SUBSET Candidates,
         NEW posted \in SUBSET Candidates, LeftBehind(known, tried, posted)
  PROVE  /\ cand \in [Candidates -> CandidateRow]
         /\ \A e \in Candidates : /\ Exists(e) <=> e \in known
                                  /\ cand[e].status = Posted => e \in posted
  <1>1. PICK row \in [known -> {s \in SourceRows : InScope(s)}],
             id \in Bijection(known, 1..Cardinality(known)),
             status \in [known -> Legacy],
             live \in [known -> SourceRows] :
          /\ \A e \in known : status[e] \in StatusesBefore(row[e], e \in tried, e \in posted)
          /\ cand = [e \in Candidates |->
                       IF e \in known
                         THEN LET c == Upserted(NoCandidate, row[e], id[e])
                              IN Marked([c EXCEPT !.status = status[e]], live[e])
                         ELSE NoCandidate]
    BY DEF LeftBehind
  <1>2. Cardinality(known) \in Nat
    BY FS_Subset, FS_CardinalityType, StoreAssumption DEF StoreAssumption
  <1>3. ASSUME NEW e \in known
        PROVE  /\ Upserted(NoCandidate, row[e], id[e]) \in CandidateRow
               /\ status[e] \in CandidateStatuses
               /\ status[e] = Posted => e \in posted
    <2>1. id[e] \in 1..Cardinality(known)
      BY DEF Bijection, Injection
    <2>2. id[e] \in Nat
      BY <1>2, <2>1
    <2>3. row[e] \in SourceRow
      BY StoreAssumption DEF StoreAssumption
    <2>4. Classify(Upserted(NoCandidate, row[e], 0), row[e]) # Posted
      BY ClassifyVerdict DEF ReclassifiedStatuses, Posted
    <2>5. status[e] = Posted => e \in posted
      BY <1>1, <2>4 DEF StatusesBefore, Posted
    <2>6. QED
      BY <2>2, <2>3, <2>5, AbsentRows, UpsertedRow, CutoverAssumption DEF CutoverAssumption
  <1>4. ASSUME NEW e \in known
        PROVE  /\ cand[e] \in CandidateRow
               /\ cand[e].status # "NO_ROW"
               /\ cand[e].status = Posted => e \in posted
    <2> DEFINE c == [Upserted(NoCandidate, row[e], id[e]) EXCEPT !.status = status[e]]
    <2>1. cand[e] = Marked(c, live[e])
      BY <1>1
    <2>2. c \in CandidateRow /\ c.status = status[e]
      BY <1>3 DEF CandidateRow
    <2>3. live[e] \in SourceRow
      BY StoreAssumption DEF StoreAssumption
    <2>4. status[e] # "NO_ROW"
      BY <1>3 DEF CandidateStatuses, ReclassifiedStatuses, Posted
    <2> HIDE DEF c
    <2>5. QED
      BY <1>3, <2>1, <2>2, <2>3, <2>4, MarkedRow
  <1>5. ASSUME NEW e \in Candidates \ known
        PROVE  cand[e] = NoCandidate
    BY <1>1
  <1>6. cand = [e \in Candidates |-> cand[e]]
    BY <1>1
  <1>7. cand \in [Candidates -> CandidateRow]
    BY <1>4, <1>5, <1>6, AbsentRows
  <1>8. ASSUME NEW e \in Candidates
        PROVE  /\ Exists(e) <=> e \in known
               /\ cand[e].status = Posted => e \in posted
    <2>1. CASE e \in known
      BY <1>4, <2>1 DEF Exists
    <2>2. CASE e \notin known
      BY <1>5, <2>2 DEF Exists, NoCandidate, Posted
    <2>3. QED
      BY <2>1, <2>2
  <1>9. QED
    BY <1>7, <1>8

LEMMA LeftBehindLog ==
  ASSUME NEW known \in SUBSET Candidates, NEW tried \in SUBSET Candidates,
         NEW posted \in SUBSET Candidates, LeftBehind(known, tried, posted)
  PROVE  /\ postLog \in SUBSET PostLogRow
         /\ accounts \in [Emails -> Nat] /\ patched = {}
         /\ \A row \in postLog :
              /\ row.action = "CREATE_USER"
              /\ row.status \in TerminalPostLogStatuses =>
                   row = PostedBefore(row.eid) /\ HasAccount(EmailOf[row.eid])
         /\ \A e \in posted : HasTerminalRow(e, "CREATE_USER")
         /\ \A e \in tried \cup posted : \E row \in postLog : row.eid = e
  <1>1. /\ postLog = {FailedBefore(e) : e \in tried} \cup {PostedBefore(e) : e \in posted}
        /\ accounts = [m \in Emails |-> IF \E e \in posted : EmailOf[e] = m THEN 1 ELSE 0]
        /\ patched = {}
    BY DEF LeftBehind
  <1>2. postLog \in SUBSET PostLogRow
    BY <1>1, CutoverAssumption
    DEF CutoverAssumption, FailedBefore, PostedBefore, PostLogRow, PostLogStatuses,
        TerminalPostLogStatuses
  <1>3. ASSUME NEW row \in postLog
        PROVE  /\ row.action = "CREATE_USER"
               /\ row.status \in TerminalPostLogStatuses =>
                    row = PostedBefore(row.eid) /\ row.eid \in posted
    BY <1>1 DEF FailedBefore, PostedBefore, TerminalPostLogStatuses
  <1>4. \A e \in posted : HasAccount(EmailOf[e])
    BY <1>1, EmailTyped DEF HasAccount
  <1>5. ASSUME NEW e \in posted
        PROVE  HasTerminalRow(e, "CREATE_USER") /\ \E row \in postLog : row.eid = e
    <2>1. PostedBefore(e) \in postLog
      BY <1>1
    <2>2. QED
      BY <2>1 DEF PostedBefore, HasTerminalRow, TerminalPostLogStatuses
  <1>6. ASSUME NEW e \in tried
        PROVE  \E row \in postLog : row.eid = e
    <2>1. FailedBefore(e) \in postLog
      BY <1>1
    <2>2. QED
      BY <2>1 DEF FailedBefore
  <1>7. QED
    BY <1>1, <1>2, <1>3, <1>4, <1>5, <1>6

LEMMA CutoverInitTyped == CutoverInit => CutoverTypeOK
  <1>1. SUFFICES ASSUME CutoverInit PROVE CutoverTypeOK
    OBVIOUS
  <1>2. PICK known \in SUBSET Candidates, tried \in SUBSET Candidates,
             posted \in SUBSET Candidates : LeftBehind(known, tried, posted)
    BY <1>1 DEF CutoverInit
  <1>3. source \in [Candidates -> SourceRow]
    BY <1>1, StoreAssumption DEF CutoverInit, StoreAssumption
  <1>4. StoreTypeOK
    BY <1>1, <1>2, <1>3, LeftBehindRows, LeftBehindLog DEF CutoverInit, StoreTypeOK, NeverSeen
  <1>5. InvocationsTypeOK
    BY <1>1 DEF CutoverInit, InvocationsTypeOK, Stages
  <1>6. IntakeTypeOK
    BY <1>1, AbsentRows DEF CutoverInit, IntakeInit, IntakeTypeOK, NothingRead, Unread
  <1>7. BenivoTypeOK
    BY <1>2, LeftBehindLog DEF BenivoTypeOK
  <1>8. PostingTypeOK /\ ExplicitTypeOK
    BY <1>1 DEF CutoverInit, PostingInit, PostingTypeOK, NoBatch, Progress, ExplicitInit,
                ExplicitTypeOK
  <1>9. baseline \subseteq Candidates
    BY <1>2 DEF LeftBehind
  <1>10. QED
    BY <1>1, <1>4, <1>5, <1>6, <1>7, <1>8, <1>9 DEF CutoverInit, CutoverTypeOK, TypeOK

LEMMA CutoverTyped ==
  ASSUME CutoverTypeOK, [CutoverNext]_allVars
  PROVE  CutoverTypeOK'
  <1> USE DEF CutoverTypeOK
  <1>1. CASE [Next]_vars /\ UNCHANGED cutoverVars
    BY <1>1, NextTyped DEF cutoverVars
  <1>2. CASE ByHand /\ UNCHANGED vars
    <2>1. TypeOK'
      BY <1>2, NextTyped
    <2>2. HistoricalBatch \subseteq Candidates
      BY DEF HistoricalBatch
    <2>3. \A chosen \in [Groups -> Candidates] :
            {chosen[group] : group \in Groups} \subseteq Candidates
      OBVIOUS
    <2>4. CASE CreateCanary
      BY <2>1, <2>3, <2>4 DEF CreateCanary
    <2>5. CASE ApplyMigration \/ CreateBatch \/ Activate
      BY <2>1, <2>2, <2>5 DEF ApplyMigration, CreateBatch, Activate
    <2>6. QED
      BY <1>2, <2>4, <2>5 DEF ByHand
  <1>3. CASE Backfill
    <2>1. firstSeen' \in [Candidates -> Nat \cup {NeverSeen}]
      BY <1>3 DEF Backfill, FirstSeenAfter, TypeOK, StoreTypeOK
    <2>2. TypeOK'
      BY <1>3, <2>1 DEF Backfill, TypeOK, StoreTypeOK, InvocationsTypeOK, intakeVars,
             IntakeTypeOK, benivoVars, BenivoTypeOK, PostingTypeOK, ExplicitTypeOK
    <2>3. QED
      BY <1>3, <2>2 DEF Backfill
  <1>4. ASSUME NEW r \in Runs, Breaks(r)
        PROVE  CutoverTypeOK'
    <2>1. InvocationsTypeOK'
      BY <1>4, GoToTyped DEF Breaks, TypeOK, InvocationsTypeOK, Stages
    <2>2. IntakeTypeOK'
      BY <1>4, ForgetIntakeTyped DEF Breaks, TypeOK
    <2>3. QED
      BY <1>4, <2>1, <2>2 DEF Breaks, cutoverVars, storeVars, TypeOK, StoreTypeOK,
             benivoVars, BenivoTypeOK, PostingTypeOK, ExplicitTypeOK
  <1>5. QED
    BY <1>1, <1>2, <1>3, <1>4, CutoverCases

\* The operator's steps and the state the release before leaves behind keep
\* the types of the service.
THEOREM CutoverTypeCorrect == CutoverSpec => []CutoverTypeOK
  <1>1. CutoverInit => CutoverTypeOK
    BY CutoverInitTyped
  <1>2. CutoverTypeOK /\ [CutoverNext]_allVars => CutoverTypeOK'
    BY CutoverTyped
  <1>3. QED
    BY <1>1, <1>2, PTL DEF CutoverSpec, allVars

(***************************************************************************)
(* Dates.                                                                  *)
(***************************************************************************)

\* Neither a synchronization nor the backfill changes a date.
LEMMA DatesStay ==
  ASSUME [CutoverNext]_allVars, NEW e \in Candidates, firstSeen[e] # NeverSeen
  PROVE  firstSeen'[e] = firstSeen[e]
  <1>1. CASE [Next]_vars
    BY <1>1, FirstSeenStays
  <1>2. CASE Backfill
    BY <1>2 DEF Backfill, FirstSeenAfter
  <1>3. ASSUME NEW r \in Runs, Breaks(r)
        PROVE  firstSeen'[e] = firstSeen[e]
    BY <1>3 DEF Breaks, storeVars
  <1>4. QED
    BY <1>1, <1>2, <1>3, CutoverCases

\* Neither a later synchronization nor a backfill that is run again, before
\* or after, moves the date of a candidate to the other side of the go-live.
THEOREM CutoverKeepsFirstSeen == CutoverSpec => FirstSeenIsKept
  <1>1. [CutoverNext]_allVars =>
          [\A e \in Candidates : firstSeen[e] # NeverSeen => firstSeen'[e] = firstSeen[e]]_vars
    BY DatesStay
  <1>2. QED
    BY <1>1, PTL DEF CutoverSpec, FirstSeenIsKept, allVars

\* Whoever is dated before T0.
Backlog == {e \in Candidates : firstSeen[e] # NeverSeen /\ firstSeen[e] < GoLive}

LEMMA BacklogGrows ==
  ASSUME [CutoverNext]_allVars
  PROVE  Backlog \subseteq Backlog'
BY DatesStay DEF Backlog

FilesAreBacklog == batchFile \cup canaryFile \subseteq Backlog

LEMMA FilesAreBacklogStep ==
  ASSUME FilesAreBacklog, [CutoverNext]_allVars
  PROVE  FilesAreBacklog'
  <1>1. batchFile' \cup canaryFile' \subseteq Backlog
    <2>1. CASE UNCHANGED <<batchFile, canaryFile>>
      BY <2>1 DEF FilesAreBacklog
    <2>2. CASE CreateBatch
      BY <2>2 DEF CreateBatch, HistoricalBatch, Backlog, FilesAreBacklog
    <2>3. CASE CreateCanary
      <3>1. PICK chosen \in [Groups -> Candidates] :
              /\ \A group \in Groups : chosen[group] \in EarliestOf(group)
              /\ canaryFile' = {chosen[group] : group \in Groups}
        BY <2>3 DEF CreateCanary
      <3>2. canaryFile' \subseteq batchFile
        BY <3>1 DEF EarliestOf
      <3>3. QED
        BY <2>3, <3>2 DEF CreateCanary, FilesAreBacklog
    <2>4. QED
      BY <2>1, <2>2, <2>3, CutoverCases
      DEF ByHand, ApplyMigration, Activate, Backfill, Breaks, cutoverVars
  <1>2. QED
    BY <1>1, BacklogGrows DEF FilesAreBacklog

LEMMA CutoverBacklogStep ==
  ASSUME CutoverTypeOK, BacklogStaysOut, [CutoverNext]_allVars
  PROVE  BacklogStaysOut'
  <1>1. CASE [Next]_vars
    BY <1>1, BacklogStaysOutStep DEF CutoverTypeOK
  <1>2. CASE UNCHANGED batch
    BY <1>2, DatesStay DEF BacklogStaysOut
  <1>3. QED
    BY <1>1, <1>2, CutoverCases DEF Backfill, Breaks

LEMMA CutoverStart == CutoverInit => BacklogStaysOut /\ FilesAreBacklog
BY DEF CutoverInit, PostingInit, NoBatch, BacklogStaysOut, FilesAreBacklog

\* The historical batch and the automatic selection exclude each other at
\* every moment and for every approved file, also one taken long before the
\* go-live: the boundary belongs to one side and dates do not move.
THEOREM RoutesAreExclusive == CutoverSpec => []OneRouteOnly
  <1> DEFINE Inv == CutoverTypeOK /\ BacklogStaysOut /\ FilesAreBacklog
  <1>1. CutoverInit => Inv
    BY CutoverInitTyped, CutoverStart
  <1>2. Inv /\ [CutoverNext]_allVars => Inv'
    BY CutoverTyped, CutoverBacklogStep, FilesAreBacklogStep
  <1>3. Inv => OneRouteOnly
    <2>1. SUFFICES ASSUME Inv, NEW r \in Runs, NEW e \in batchFile \cup canaryFile, Takes(r, e)
                   PROVE  FALSE
      BY DEF OneRouteOnly
    <2>2. e \in Candidates /\ firstSeen[e] # NeverSeen /\ firstSeen[e] < GoLive
      BY <2>1 DEF FilesAreBacklog, Backlog
    <2>3. firstSeen[e] >= GoLive
      BY <2>1, <2>2, CutoverAssumption DEF BacklogStaysOut, Takes, CutoverAssumption
    <2>4. firstSeen[e] \in Int /\ GoLive \in Int
      BY <2>1, <2>2, StoreAssumption
      DEF CutoverTypeOK, TypeOK, StoreTypeOK, StoreAssumption, NeverSeen, Unset
    <2>5. QED
      BY <2>2, <2>3, <2>4
  <1>4. QED
    BY <1>1, <1>2, <1>3, PTL DEF CutoverSpec, allVars

(***************************************************************************)
(* Who is known before the go-live is dated before it.                     *)
(***************************************************************************)

\* No date is in the future, nor one that a synchronization has yet to write.
PastDates ==
  /\ \A e \in Candidates : firstSeen[e] <= clock
  /\ \A r \in Runs : upsertSnap[r].now <= clock

BaselineIsKnown == baseline \subseteq Known

BaselineIsBacklog == backfilled => baseline \subseteq Backlog

LEMMA PastDatesStep ==
  ASSUME CutoverTypeOK, PastDates, [CutoverNext]_allVars
  PROVE  PastDates'
  <1>1. /\ clock \in Nat
        /\ \A e \in Candidates : firstSeen[e] \in Int
        /\ upsertSnap \in [Runs -> [rows : [Candidates -> SourceRow], now : Nat]]
    BY DEF CutoverTypeOK, TypeOK, StoreTypeOK, IntakeTypeOK, NeverSeen
  <1>2. clock' \in Nat /\ clock <= clock'
    <2>1. CASE [Next]_vars
      <3>1. ASSUME NEW r \in Runs, Progresses(r) \/ Die(r)
            PROVE  clock' = clock
        BY <3>1, IntakeFrame, ExplicitFrame, PostingFrame
        DEF Progresses, Works, Start, Report, Reschedule, Die, RecordResult, storeVars
      <3>2. UNCHANGED vars => clock' = clock
        BY DEF vars, storeVars
      <3>3. Environment => clock' = clock \/ clock' = clock + 1
        BY DEF Environment, Tick, EtlRewrites
      <3>4. QED
        BY <1>1, <2>1, <3>1, <3>2, <3>3 DEF Next
    <2>2. CASE clock' = clock
      BY <1>1, <2>2
    <2>3. QED
      BY <2>1, <2>2, CutoverCases DEF Backfill, Breaks, storeVars
  <1>3. ASSUME NEW r \in Runs
        PROVE  upsertSnap'[r].now \in {upsertSnap[r].now, clock, 0}
    <2>1. ASSUME NEW s \in Runs, ForgetIntake(s)
          PROVE  upsertSnap'[r].now \in {upsertSnap[r].now, 0}
      BY <1>1, <2>1 DEF ForgetIntake, NothingRead
    <2>2. ASSUME NEW s \in Runs, SyncUpsert(s)
          PROVE  upsertSnap'[r].now \in {upsertSnap[r].now, clock}
      BY <1>1, <2>2 DEF SyncUpsert
    <2>3. ASSUME NEW s \in Runs, IntakeStep(s)
          PROVE  upsertSnap'[r].now \in {upsertSnap[r].now, clock, 0}
      BY <2>1, <2>2, <2>3 DEF IntakeStep, SyncHistory, SyncCommit, ClassifyRead, ClassifyCommit
    <2>4. ASSUME NEW s \in Runs, Progresses(s) \/ Die(s)
          PROVE  upsertSnap'[r].now \in {upsertSnap[r].now, clock, 0}
      BY <2>1, <2>3, <2>4 DEF Progresses, Works, Start, Report, Reschedule, Die, intakeVars
    <2>5. Environment \/ UNCHANGED vars => upsertSnap' = upsertSnap
      BY DEF Environment, vars, intakeVars
    <2>6. [Next]_vars => upsertSnap'[r].now \in {upsertSnap[r].now, clock, 0}
      BY <2>4, <2>5 DEF Next
    <2>7. QED
      BY <2>1, <2>6, CutoverCases DEF Backfill, Breaks, intakeVars
  <1>4. ASSUME NEW e \in Candidates
        PROVE  firstSeen'[e] <= clock
    <2>1. CASE firstSeen' = firstSeen
      BY <2>1 DEF PastDates
    <2>2. ASSUME NEW r \in Runs, SyncCommit(r)
          PROVE  firstSeen'[e] <= clock
      BY <2>2 DEF SyncCommit, FirstSeenAfter, PastDates
    <2>3. CASE Backfill
      BY <1>1, <2>3 DEF Backfill, FirstSeenAfter, PastDates
    <2>4. QED
      BY <2>1, <2>2, <2>3, CutoverCases, OnlySyncDates DEF Breaks, vars, storeVars
  <1>5. ASSUME NEW e \in Candidates
        PROVE  firstSeen'[e] \in Int
    BY CutoverTyped DEF CutoverTypeOK, TypeOK, StoreTypeOK, NeverSeen
  <1>6. QED
    BY <1>1, <1>2, <1>3, <1>4, <1>5 DEF PastDates

LEMMA BaselineIsKnownStep ==
  ASSUME CutoverTypeOK, BaselineIsKnown, [CutoverNext]_allVars
  PROVE  BaselineIsKnown'
  <1>1. CASE [Next]_vars /\ UNCHANGED cutoverVars
    <2>1. Known \subseteq Known'
      BY <1>1, RowsStay, LogGrows DEF CutoverTypeOK, Known
    <2>2. QED
      BY <1>1, <2>1 DEF BaselineIsKnown, cutoverVars
  <1>2. CASE UNCHANGED <<cand, postLog, baseline>>
    BY <1>2 DEF BaselineIsKnown, Known, Exists
  <1>3. QED
    BY <1>1, <1>2, CutoverCases
    DEF ByHand, ApplyMigration, CreateBatch, CreateCanary, Activate, Backfill, Breaks,
        vars, storeVars, cutoverVars

LEMMA BaselineIsBacklogStep ==
  ASSUME CutoverTypeOK, PastDates, BaselineIsKnown, BaselineIsBacklog, [CutoverNext]_allVars
  PROVE  BaselineIsBacklog'
  <1>1. CASE Backfill
    <2>1. SUFFICES ASSUME NEW e \in baseline
                   PROVE  firstSeen'[e] # NeverSeen /\ firstSeen'[e] < GoLive /\ e \in Candidates
      BY <1>1 DEF Backfill, BaselineIsBacklog, Backlog
    <2>2. e \in Known /\ e \in Candidates
      BY DEF BaselineIsKnown, Known
    <2>3. firstSeen'[e] = IF firstSeen[e] = NeverSeen THEN clock ELSE firstSeen[e]
      BY <1>1, <2>2 DEF Backfill, FirstSeenAfter
    <2>4. clock \in Nat /\ clock < GoLive /\ firstSeen[e] <= clock
      BY <1>1, <2>2 DEF Backfill, PastDates, CutoverTypeOK, TypeOK, StoreTypeOK
    <2>5. firstSeen[e] \in Int /\ GoLive \in Int
      BY <2>2, StoreAssumption
      DEF CutoverTypeOK, TypeOK, StoreTypeOK, StoreAssumption, NeverSeen, Unset
    <2>6. QED
      BY <2>2, <2>3, <2>4, <2>5 DEF NeverSeen
  <1>2. CASE UNCHANGED <<backfilled, baseline>>
    BY <1>2, BacklogGrows DEF BaselineIsBacklog
  <1>3. QED
    BY <1>1, <1>2, CutoverCases
    DEF ByHand, ApplyMigration, CreateBatch, CreateCanary, Activate, Breaks, cutoverVars

(***************************************************************************)
(* Nobody is selected before the go-live.                                  *)
(***************************************************************************)
BackfillFirst == Disciplined /\ activated => backfilled

\* Only a command that selects comes to the selection.
OnlySelectingSelects == \A r \in Runs : pc[r] = "select" => Selects(r)

\* The runs that select start after the go-live.
LiveAfterGoLive ==
  \A r \in Runs : Selects(r) /\ pc[r] \notin {"idle", "done", "failed"} => activated

TakenAfterGoLive == \A r \in Runs, e \in Candidates : Takes(r, e) => activated

LEMMA BackfillFirstStep ==
  ASSUME BackfillFirst, [CutoverNext]_allVars
  PROVE  BackfillFirst'
BY CutoverCases
DEF BackfillFirst, ByHand, ApplyMigration, CreateBatch, CreateCanary, Activate, Backfill,
    Breaks, cutoverVars

LEMMA ActivatedStays ==
  ASSUME [CutoverNext]_allVars, activated
  PROVE  activated'
BY CutoverCases
DEF ByHand, ApplyMigration, CreateBatch, CreateCanary, Activate, Backfill, Breaks, cutoverVars

\* What a step of the cutover does to the stage of a run.
LEMMA CutoverStages ==
  ASSUME CutoverTypeOK, [CutoverNext]_allVars, NEW r \in Runs, pc'[r] # pc[r]
  PROVE  \/ Works(r) /\ Serves(r)
         \/ pc'[r] \in {"idle", "done", "failed"}
  <1>1. ASSUME NEW s \in Runs, NEW stage, GoTo(s, stage)
        PROVE  s = r /\ pc'[r] = stage
    BY <1>1 DEF GoTo, CutoverTypeOK, TypeOK, InvocationsTypeOK
  <1>2. ASSUME NEW s \in Runs, Works(s)
        PROVE  s = r
    BY <1>2, WorksStage DEF CutoverTypeOK, TypeOK, InvocationsTypeOK
  <1>3. ASSUME NEW s \in Runs, Report(s) \/ Reschedule(s) \/ Die(s) \/ Breaks(s)
        PROVE  pc'[r] \in {"idle", "done", "failed"}
    BY <1>1, <1>3 DEF Report, Reschedule, Die, Breaks
  <1>4. ASSUME NEW s \in Runs, Serves(s)
        PROVE  \/ Works(r) /\ Serves(r)
               \/ pc'[r] \in {"idle", "done", "failed"}
    BY <1>2, <1>3, <1>4 DEF Serves, Progresses
  <1>5. pc' # pc
    OBVIOUS
  <1>6. ~Operator /\ ~Environment /\ ~UNCHANGED allVars
    BY <1>5 DEF Operator, ApplyMigration, Backfill, CreateBatch, CreateCanary, Activate,
                Environment, allVars, vars
  <1>7. QED
    BY <1>3, <1>4, <1>6 DEF CutoverNext

LEMMA SelectingStep ==
  ASSUME CutoverTypeOK, OnlySelectingSelects, LiveAfterGoLive, [CutoverNext]_allVars
  PROVE  OnlySelectingSelects' /\ LiveAfterGoLive'
  <1>1. ASSUME NEW r \in Runs, pc'[r] = "select", pc[r] # "select"
        PROVE  Selects(r)
    <2>1. Works(r)
      BY <1>1, CutoverStages
    <2>2. pc'[r] = FirstStage(r) \/ pc'[r] = StageAfterClassify(r)
      BY <1>1, <2>1, StageSteps
      DEF CutoverTypeOK, TypeOK, InvocationsTypeOK, Start, GoTo, StageAfterSync,
          StageAfterSelection
    <2>3. QED
      BY <1>1, <2>2, InvocationsAssumption
      DEF FirstStage, StageAfterClassify, Selects, InvocationsAssumption, Commands
  <1>2. ASSUME NEW r \in Runs, Selects(r), pc'[r] \notin {"idle", "done", "failed"}
        PROVE  activated
    <2>1. CASE pc'[r] = pc[r]
      BY <1>2, <2>1 DEF LiveAfterGoLive
    <2>2. CASE pc'[r] # pc[r]
      <3>1. Works(r) /\ Serves(r)
        BY <1>2, <2>2, CutoverStages
      <3>2. pc[r] = "idle" \/ pc[r] \notin {"idle", "done", "failed"}
        BY <3>1, WorksStage
      <3>3. QED
        BY <1>2, <3>1, <3>2 DEF Serves, LiveAfterGoLive
    <2>3. QED
      BY <2>1, <2>2
  <1>3. QED
    BY <1>1, <1>2, ActivatedStays DEF OnlySelectingSelects, LiveAfterGoLive, Selects

LEMMA TakenAfterGoLiveStep ==
  ASSUME CutoverTypeOK, OnlySelectingSelects, LiveAfterGoLive, TakenAfterGoLive,
         [CutoverNext]_allVars
  PROVE  TakenAfterGoLive'
  <1>1. SUFFICES ASSUME NEW r \in Runs, NEW e \in Candidates,
                        Selection[r] = "normal", batch'[r][e] # "out"
                 PROVE  activated
    BY ActivatedStays DEF TakenAfterGoLive, Takes
  <1>2. CASE batch[r][e] # "out"
    BY <1>1, <1>2 DEF TakenAfterGoLive, Takes
  <1>3. CASE batch[r][e] = "out"
    <2>1. batch' # batch
      BY <1>1, <1>3
    <2>2. [Next]_vars
      BY <2>1, CutoverCases DEF Backfill, Breaks
    <2>3. Select(r)
      BY <1>1, <1>3, <2>2, OnlySelectionTakes DEF CutoverTypeOK
    <2>4. pc[r] = "select"
      BY <2>3 DEF Select
    <2>5. QED
      BY <2>4 DEF OnlySelectingSelects, LiveAfterGoLive
  <1>4. QED
    BY <1>2, <1>3

CutoverInv ==
  /\ CutoverTypeOK
  /\ BacklogStaysOut
  /\ PastDates
  /\ BaselineIsKnown
  /\ BaselineIsBacklog
  /\ BackfillFirst
  /\ OnlySelectingSelects
  /\ LiveAfterGoLive
  /\ TakenAfterGoLive

LEMMA CutoverInvHolds == CutoverSpec => []CutoverInv
  <1>1. CutoverInit => CutoverInv
    <2>1. SUFFICES ASSUME CutoverInit PROVE CutoverInv
      OBVIOUS
    <2>2. PastDates
      BY <2>1 DEF CutoverInit, PastDates, IntakeInit, NothingRead, NeverSeen
    <2>3. BaselineIsKnown
      <3>1. PICK known \in SUBSET Candidates, tried \in SUBSET Candidates,
                 posted \in SUBSET Candidates : LeftBehind(known, tried, posted)
        BY <2>1 DEF CutoverInit
      <3>2. baseline = known \cup tried \cup posted
        BY <3>1 DEF LeftBehind
      <3>3. QED
        BY <3>1, <3>2, LeftBehindRows, LeftBehindLog DEF BaselineIsKnown, Known
    <2>4. /\ ~backfilled /\ ~activated
          /\ \A r \in Runs : pc[r] \in {"idle", "done"}
          /\ \A r \in Runs, e \in Candidates : batch[r][e] = "out"
      BY <2>1 DEF CutoverInit, PostingInit, NoBatch
    <2>5. QED
      BY <2>1, <2>2, <2>3, <2>4, CutoverInitTyped, CutoverStart
      DEF CutoverInv, BaselineIsBacklog, BackfillFirst, OnlySelectingSelects,
          LiveAfterGoLive, TakenAfterGoLive, Takes
  <1>2. CutoverInv /\ [CutoverNext]_allVars => CutoverInv'
    BY CutoverTyped, CutoverBacklogStep, PastDatesStep, BaselineIsKnownStep,
       BaselineIsBacklogStep, BackfillFirstStep, SelectingStep, TakenAfterGoLiveStep
    DEF CutoverInv
  <1>3. QED
    BY <1>1, <1>2, PTL DEF CutoverSpec, allVars

\* The promise of the go-live: when the backfill precedes the activation,
\* nobody the release before knew of is ever selected automatically.
THEOREM BaselineStaysOut ==
  ASSUME Disciplined
  PROVE  CutoverSpec => []BaselineIsNeverTaken
  <1>1. CutoverInv => BaselineIsNeverTaken
    <2>1. SUFFICES ASSUME CutoverInv, NEW r \in Runs, NEW e \in baseline, Takes(r, e)
                   PROVE  FALSE
      BY DEF BaselineIsNeverTaken
    <2>2. e \in Candidates
      BY <2>1 DEF CutoverInv, CutoverTypeOK
    <2>3. backfilled
      BY <2>1, <2>2 DEF CutoverInv, TakenAfterGoLive, BackfillFirst
    <2>4. firstSeen[e] # NeverSeen /\ firstSeen[e] < GoLive
      BY <2>1, <2>3 DEF CutoverInv, BaselineIsBacklog, Backlog
    <2>5. firstSeen[e] >= GoLive
      BY <2>1, <2>2, CutoverAssumption DEF CutoverInv, BacklogStaysOut, Takes, CutoverAssumption
    <2>6. firstSeen[e] \in Int /\ GoLive \in Int
      BY <2>1, <2>2, StoreAssumption
      DEF CutoverInv, CutoverTypeOK, TypeOK, StoreTypeOK, StoreAssumption, NeverSeen, Unset
    <2>7. QED
      BY <2>4, <2>5, <2>6
  <1>2. QED
    BY <1>1, CutoverInvHolds, PTL

(***************************************************************************)
(* Before the migration no row appears.                                    *)
(***************************************************************************)

\* The stages that lie behind a statement on scope_history.
BehindHistory == {"sync_mark", "evaluate", "authorize", "post", "record"}

TableIsThere == \A r \in Runs : pc[r] \in BehindHistory => historyTable

\* A classification writes to the rows it has read.
VerdictsAreOnRows ==
  \A r \in Runs, e \in Candidates : verdicts[r][e] # "NO_ROW" => Exists(e)

LEMMA TableStays ==
  ASSUME [CutoverNext]_allVars, historyTable
  PROVE  historyTable'
BY CutoverCases
DEF ByHand, ApplyMigration, CreateBatch, CreateCanary, Activate, Backfill, Breaks, cutoverVars

LEMMA TableIsThereStep ==
  ASSUME CutoverTypeOK, TableIsThere, [CutoverNext]_allVars
  PROVE  TableIsThere'
  <1>1. SUFFICES ASSUME NEW r \in Runs, pc'[r] \in BehindHistory
                 PROVE  historyTable
    BY TableStays DEF TableIsThere
  <1>2. CASE pc'[r] = pc[r]
    BY <1>1, <1>2 DEF TableIsThere
  <1>3. CASE pc'[r] # pc[r]
    <2>1. Works(r) /\ Serves(r)
      BY <1>1, <1>3, CutoverStages DEF BehindHistory
    <2>2. ~Start(r)
      BY <1>1, InvocationsAssumption
      DEF Start, GoTo, FirstStage, BehindHistory, CutoverTypeOK, TypeOK, InvocationsTypeOK,
          InvocationsAssumption, Commands
    <2>3. pc[r] \in BehindHistory \cup {"sync_history", "select"}
      BY <1>1, <1>3, <2>1, <2>2, StageSteps
      DEF BehindHistory, CutoverTypeOK, StageAfterSync, StageAfterClassify
    <2>4. QED
      BY <2>1, <2>3 DEF TableIsThere, Serves
  <1>4. QED
    BY <1>2, <1>3

LEMMA CutoverRowsStay ==
  ASSUME CutoverTypeOK, [CutoverNext]_allVars, NEW e \in Candidates, Exists(e)
  PROVE  Exists(e)'
BY CutoverCases, RowsStay DEF CutoverTypeOK, Backfill, Breaks, storeVars, Exists

LEMMA VerdictsAreOnRowsStep ==
  ASSUME CutoverTypeOK, VerdictsAreOnRows, [CutoverNext]_allVars
  PROVE  VerdictsAreOnRows'
  <1>1. ASSUME NEW r \in Runs, NEW e \in Candidates, verdicts'[r][e] # "NO_ROW"
        PROVE  Exists(e)
    <2>1. verdicts \in [Runs -> [Candidates -> ReclassifiedStatuses \cup {"NO_ROW"}]]
      BY DEF CutoverTypeOK, TypeOK, IntakeTypeOK
    <2>2. CASE verdicts' = verdicts
      BY <1>1, <2>2 DEF VerdictsAreOnRows
    <2>3. ASSUME NEW s \in Runs, ForgetIntake(s)
          PROVE  Exists(e)
      BY <1>1, <2>1, <2>3 DEF ForgetIntake, Unread, VerdictsAreOnRows
    <2>4. ASSUME NEW s \in Runs, ClassifyRead(s)
          PROVE  Exists(e)
      BY <1>1, <2>1, <2>4 DEF ClassifyRead, Classifiable, VerdictsAreOnRows
    <2>5. ASSUME NEW s \in Runs, IntakeStep(s)
          PROVE  Exists(e)
      BY <2>2, <2>3, <2>4, <2>5 DEF IntakeStep, SyncUpsert, SyncHistory, SyncCommit,
                                    ClassifyCommit
    <2>6. ASSUME NEW s \in Runs, Progresses(s) \/ Die(s)
          PROVE  Exists(e)
      BY <2>2, <2>3, <2>5, <2>6
      DEF Progresses, Works, Start, Report, Reschedule, Die, intakeVars
    <2>7. Environment \/ UNCHANGED vars => verdicts' = verdicts
      BY DEF Environment, vars, intakeVars
    <2>8. QED
      BY <2>2, <2>3, <2>6, <2>7, CutoverCases DEF Next, Backfill, Breaks, intakeVars
  <1>2. QED
    BY <1>1, CutoverRowsStay DEF VerdictsAreOnRows

LEMMA NothingWithoutHistoryStep ==
  ASSUME CutoverTypeOK, TableIsThere, VerdictsAreOnRows, NothingWithoutHistory,
         [CutoverNext]_allVars
  PROVE  NothingWithoutHistory'
  <1>1. SUFFICES ASSUME ~historyTable, NEW e \in Candidates, Exists(e)'
                 PROVE  e \in baseline
    <2>1. baseline' = baseline
      BY CutoverCases DEF ByHand, ApplyMigration, CreateBatch, CreateCanary, Activate,
                          Backfill, Breaks, cutoverVars
    <2>2. QED
      BY <2>1, TableStays DEF NothingWithoutHistory
  <1>2. CASE Exists(e)
    BY <1>1, <1>2 DEF NothingWithoutHistory
  <1>3. CASE ~Exists(e)
    <2>1. cand' # cand
      BY <1>1, <1>3 DEF Exists
    <2>2. [Next]_vars
      BY <2>1, CutoverCases DEF Backfill, Breaks, storeVars
    <2>3. PICK r \in Runs : IntakeStep(r) \/ \E f \in Candidates : RecordResult(r, f)
      BY <2>1, <2>2, OnlyIntakeAndRecordingWrite
    <2>4. pc[r] \notin {"sync_mark", "record"}
      BY <1>1 DEF TableIsThere, BehindHistory
    <2>5. ClassifyCommit(r)
      BY <2>1, <2>3, <2>4 DEF IntakeStep, SyncUpsert, SyncHistory, SyncCommit, ClassifyRead,
                              RecordResult, storeVars
    <2>6. verdicts[r][e] # "NO_ROW"
      BY <1>1, <1>3, <2>5 DEF ClassifyCommit, Exists
    <2>7. QED
      BY <1>3, <2>6 DEF VerdictsAreOnRows
  <1>4. QED
    BY <1>2, <1>3

\* The release deployed before its migration does no harm: every
\* synchronization rolls back, so that nobody enters benivo.candidates
\* without a first-seen date to be judged by.
THEOREM NothingBeforeMigration == CutoverSpec => []NothingWithoutHistory
  <1> DEFINE Inv == CutoverTypeOK /\ TableIsThere /\ VerdictsAreOnRows /\ NothingWithoutHistory
  <1>1. CutoverInit => Inv
    <2>1. SUFFICES ASSUME CutoverInit PROVE Inv
      OBVIOUS
    <2>2. TableIsThere /\ VerdictsAreOnRows
      BY <2>1 DEF CutoverInit, TableIsThere, BehindHistory, IntakeInit, Unread,
                  VerdictsAreOnRows
    <2>3. NothingWithoutHistory
      <3>1. PICK known \in SUBSET Candidates, tried \in SUBSET Candidates,
                 posted \in SUBSET Candidates : LeftBehind(known, tried, posted)
        BY <2>1 DEF CutoverInit
      <3>2. known \subseteq baseline
        BY <3>1 DEF LeftBehind
      <3>3. QED
        BY <3>1, <3>2, LeftBehindRows DEF NothingWithoutHistory
    <2>4. QED
      BY <2>1, <2>2, <2>3, CutoverInitTyped
  <1>2. Inv /\ [CutoverNext]_allVars => Inv'
    BY CutoverTyped, TableIsThereStep, VerdictsAreOnRowsStep, NothingWithoutHistoryStep
  <1>3. QED
    BY <1>1, <1>2, PTL DEF CutoverSpec, allVars

(***************************************************************************)
(* What the pipeline promises is kept through the go-live, from the tables *)
(* that the release before has filled.                                     *)
(***************************************************************************)

\* Where a step is none of the pipeline's, it does not touch what the
\* promises speak of.
LEMMA OperatorLeavesPosting ==
  ASSUME [CutoverNext]_allVars
  PROVE  [Next]_vars \/ UNCHANGED <<cand, postLog, benivoVars, batch>>
  <1>1. CASE Backfill
    BY <1>1 DEF Backfill
  <1>2. ASSUME NEW r \in Runs, Breaks(r)
        PROVE  UNCHANGED <<cand, postLog, benivoVars, batch>>
    BY <1>2 DEF Breaks, storeVars
  <1>3. QED
    BY <1>1, <1>2, CutoverCases

LogPromises == OneTerminalRow /\ PostedIsLogged /\ LogIsBacked /\ MemoryIsBacked

LEMMA LogPromisesStep ==
  ASSUME CutoverTypeOK, LogPromises, [CutoverNext]_allVars
  PROVE  LogPromises'
  <1>1. CASE [Next]_vars
    BY <1>1, OneTerminalRowStep, PostedIsLoggedStep, LogIsBackedStep, MemoryIsBackedStep
    DEF LogPromises, CutoverTypeOK
  <1>2. CASE UNCHANGED <<cand, postLog, benivoVars, batch>>
    BY <1>2 DEF LogPromises, OneTerminalRow, PostedIsLogged, HasTerminalRow, LogIsBacked,
                MemoryIsBacked, benivoVars, HasAccount
  <1>3. QED
    BY <1>1, <1>2, OperatorLeavesPosting

LEMMA LogPromisesStart == CutoverInit => LogPromises
  <1>1. SUFFICES ASSUME CutoverInit PROVE LogPromises
    OBVIOUS
  <1>2. PICK known \in SUBSET Candidates, tried \in SUBSET Candidates,
             posted \in SUBSET Candidates : LeftBehind(known, tried, posted)
    BY <1>1 DEF CutoverInit
  <1>3. OneTerminalRow
    BY <1>2, LeftBehindLog DEF OneTerminalRow
  <1>4. PostedIsLogged
    BY <1>2, LeftBehindRows, LeftBehindLog DEF PostedIsLogged
  <1>5. LogIsBacked
    BY <1>2, LeftBehindLog DEF LogIsBacked
  <1>6. MemoryIsBacked
    BY <1>1 DEF CutoverInit, PostingInit, NoBatch, MemoryIsBacked
  <1>7. QED
    BY <1>3, <1>4, <1>5, <1>6 DEF LogPromises

LEMMA LogPromisesHold == CutoverSpec => [](CutoverTypeOK /\ LogPromises)
  <1>1. CutoverInit => CutoverTypeOK /\ LogPromises
    BY CutoverInitTyped, LogPromisesStart
  <1>2. CutoverTypeOK /\ LogPromises /\ [CutoverNext]_allVars
          => (CutoverTypeOK /\ LogPromises)'
    BY CutoverTyped, LogPromisesStep
  <1>3. QED
    BY <1>1, <1>2, PTL DEF CutoverSpec, allVars

\* The migration, the backfill, the files and a service that breaks for want
\* of a table leave the log as trustworthy as it was: unique terminal rows,
\* no POSTED without one, and none without an account behind it.
THEOREM PromisesSurviveGoLive ==
  CutoverSpec => [](OneTerminalRow /\ PostedIsLogged /\ LogIsBacked /\ MemoryIsBacked)
  <1>1. LogPromises => OneTerminalRow /\ PostedIsLogged /\ LogIsBacked /\ MemoryIsBacked
    BY DEF LogPromises
  <1>2. QED
    BY <1>1, LogPromisesHold, PTL

\* The go-live takes the ledger over: applications that the release before
\* settled stay so, and every later one is settled by a step of Ledger.
THEOREM GoLiveCarriesLedgerOn == CutoverSpec => CarriesLedgerOn
  <1>1. ASSUME CutoverTypeOK, LogPromises, [CutoverNext]_allVars
        PROVE  [Promise!LedgerNext]_(Promise!ledgerVars)
    <2>1. CASE [Next]_vars
      BY <1>1, <2>1, LedgerStep DEF CutoverTypeOK, LogPromises, Promise!ledgerVars, Opened
    <2>2. CASE UNCHANGED <<cand, postLog, benivoVars, batch>>
      BY <2>2 DEF Promise!ledgerVars, benivoVars, HasAccount, TerminalEids, HasTerminalRow
    <2>3. QED
      BY <1>1, <2>1, <2>2, OperatorLeavesPosting
  <1>2. QED
    BY <1>1, LogPromisesHold, PTL DEF CutoverSpec, CarriesLedgerOn, allVars

\* And its books balance: with or without the release before, no case is
\* patched and no application settled without an account.
THEOREM GoLiveBooksBalance == CutoverSpec => []Promise!BooksBalance
  <1>1. CutoverInit => Promise!BooksBalance
    <2>1. SUFFICES ASSUME CutoverInit PROVE Promise!BooksBalance
      OBVIOUS
    <2>2. PICK known \in SUBSET Candidates, tried \in SUBSET Candidates,
               posted \in SUBSET Candidates : LeftBehind(known, tried, posted)
      BY <2>1 DEF CutoverInit
    <2>3. QED
      BY <2>2, LeftBehindLog, EmailTyped
      DEF Promise!BooksBalance, TerminalEids, HasTerminalRow
  <1>2. Promise!BooksBalance /\ [Promise!LedgerNext]_(Promise!ledgerVars)
          => Promise!BooksBalance'
    BY BooksBalanceStep
  <1>3. QED
    BY <1>1, <1>2, GoLiveCarriesLedgerOn, PTL DEF CutoverSpec, CarriesLedgerOn

=============================================================================
