------------------------------- MODULE Cutover -------------------------------
(***************************************************************************)
(* The go-live procedure (docs/PHASE1_ARCHITECTURE.md): the operator       *)
(* applies migrations/0008, runs scripts/backfill_scope_history.py, takes  *)
(* the cutover batch and canary files and sets BENIVO_GO_LIVE_AT to T0 =   *)
(* GoLive, each with a script of its own, while synchronizations go on.    *)
(* Until then the service does not select: only afterwards may a run that  *)
(* selects start.                                                          *)
(***************************************************************************)
EXTENDS Pipeline

CONSTANTS
  Earlier,      \* a run of the release before, finished at the start
  Legacy,       \* bound: the statuses of its rows that are considered, where
                \* the candidate had not left the scope
  Groups,       \* CANARY_GROUPS
  GroupOf,      \* the group of a candidate's workplace; may be in none
  Disciplined   \* the backfill is run before BENIVO_GO_LIVE_AT is set

ASSUME CutoverAssumption ==
  /\ Earlier \in Runs
  /\ Legacy \subseteq CandidateStatuses
  /\ GoLive # Unset
  /\ Disciplined \in BOOLEAN
  /\ DOMAIN GroupOf = Candidates

VARIABLES
  historyTable,  \* migrations/0008 is applied
  backfilled,    \* backfill_scope_history.py --apply has committed
  batchFile,     \* application_eids of the cutover batch; {}: no file
  canaryFile,    \* those of the canary; {}: no file
  activated,     \* BENIVO_GO_LIVE_AT is set
  baseline       \* whom the release before knew

cutoverVars == <<historyTable, backfilled, batchFile, canaryFile, activated, baseline>>

CutoverTypeOK ==
  /\ TypeOK
  /\ historyTable \in BOOLEAN /\ backfilled \in BOOLEAN /\ activated \in BOOLEAN
  /\ batchFile \subseteq Candidates
  /\ canaryFile \subseteq Candidates
  /\ baseline \subseteq Candidates

(***************************************************************************)
(* The release before had no scope_history.  Of a candidate it knew there  *)
(* is the row of a synchronization, classified and posted like today's and *)
(* withdrawn when the candidate has left the scope since, or, from the     *)
(* time when rows were deleted instead, nothing but the log rows of the    *)
(* attempts.  Of a success only the CREATE_USER row is kept: no statement  *)
(* here reads a case row.                                                  *)
(***************************************************************************)
FailedBefore(e) ==
  [eid |-> e, action |-> "CREATE_USER", status |-> "FAILED", run |-> Earlier]

PostedBefore(e) ==
  [eid |-> e, action |-> "CREATE_USER", status |-> "SUCCESS", run |-> Earlier]

\* Seen as row at the last synchronization, the candidate may be unclassified
\* since, or have been attempted with one of the two results.
StatusesBefore(row, attempted, succeeded) ==
  {"PENDING", Classify(Upserted(NoCandidate, row, 0), row)}
    \cup (IF attempted THEN {"POST_FAILED"} ELSE {})
    \cup (IF succeeded THEN {Posted} ELSE {})

\* The tables of the release before: known have a row, tried a failed
\* attempt, posted a successful one.
LeftBehind(known, tried, posted) ==
  /\ \E row \in [known -> {s \in SourceRows : InScope(s)}],
        id \in Bijection(known, 1..Cardinality(known)),
        status \in [known -> Legacy],
        live \in [known -> SourceRows] :
       /\ \A e \in known : status[e] \in StatusesBefore(row[e], e \in tried, e \in posted)
       /\ cand = [e \in Candidates |->
                    IF e \in known
                      THEN LET c == Upserted(NoCandidate, row[e], id[e])
                           IN Marked([c EXCEPT !.status = status[e]], live[e])
                      ELSE NoCandidate]
  /\ postLog = {FailedBefore(e) : e \in tried} \cup {PostedBefore(e) : e \in posted}
  /\ accounts = [m \in Emails |-> IF \E e \in posted : EmailOf[e] = m THEN 1 ELSE 0]
  /\ patched = {}
  /\ baseline = known \cup tried \cup posted

CutoverInit ==
  /\ source \in [Candidates -> SourceRows]
  /\ \E known, tried, posted \in SUBSET Candidates : LeftBehind(known, tried, posted)
  /\ firstSeen = [e \in Candidates |-> NeverSeen]
  /\ clock = 0
  /\ edits = 0
  /\ pc = [r \in Runs |-> IF r = Earlier THEN "done" ELSE "idle"]
  /\ failures = 0
  /\ IntakeInit
  /\ PostingInit
  /\ ExplicitInit
  /\ historyTable = FALSE
  /\ backfilled = FALSE
  /\ batchFile = {}
  /\ canaryFile = {}
  /\ activated = FALSE

(***************************************************************************)
(* The operator.                                                           *)
(***************************************************************************)
ApplyMigration ==
  /\ ~historyTable
  /\ historyTable' = TRUE
  /\ UNCHANGED <<vars, backfilled, batchFile, canaryFile, activated, baseline>>

\* Mutant: the post_log half of the UNION is missing.
Known_CandidatesOnly == {e \in Candidates : Exists(e)}

\* benivo.candidates UNION benivo.post_log.
Known == {e \in Candidates : Exists(e) \/ \E row \in postLog : row.eid = e}

\* --apply, with NOW() before T0 because nothing is live yet.  The INSERT
\* waits for a synchronization that has inserted and not committed.
Backfill ==
  /\ historyTable
  /\ ~activated /\ clock < GoLive
  /\ \A r \in Runs : pc[r] # "sync_mark"
  /\ firstSeen' = [e \in Candidates |-> FirstSeenAfter(e, Known, clock)]
  /\ backfilled' = TRUE
  /\ UNCHANGED <<source, cand, postLog, clock, edits, pc, failures, intakeVars,
                 benivoVars, batch, terminalSnap, historyTable, batchFile, canaryFile,
                 activated, baseline>>

\* Mutant: the boundary is on both sides.
HistoricalBatch_LateBoundary ==
  {e \in Candidates : /\ cand[e].status = "READY_TO_POST"
                      /\ cand[e].relocation = "Yes"
                      /\ source[e].workflow = "Mobility"
                      /\ ~HasTerminalRow(e, "CREATE_USER")
                      /\ firstSeen[e] # NeverSeen /\ firstSeen[e] <= GoLive}

\* get_historical_batch_candidates(T0): the conditions of the selection,
\* and first seen before T0.
HistoricalBatch ==
  {e \in Candidates : /\ cand[e].status = "READY_TO_POST"
                      /\ cand[e].relocation = "Yes"
                      /\ source[e].workflow = "Mobility"
                      /\ ~HasTerminalRow(e, "CREATE_USER")
                      /\ firstSeen[e] # NeverSeen /\ firstSeen[e] < GoLive}

\* create_cutover_batch.py: never an empty file; --force replaces one.
CreateBatch ==
  /\ historyTable
  /\ HistoricalBatch # {}
  /\ batchFile' = HistoricalBatch
  /\ UNCHANGED <<vars, historyTable, backfilled, canaryFile, activated, baseline>>

\* get_workplace_and_first_seen(), INNER JOIN: members that still have both
\* rows; of one group, those that were seen first.
EarliestOf(group) ==
  LET members == {e \in batchFile : Exists(e) /\ firstSeen[e] # NeverSeen /\ GroupOf[e] = group}
  IN {e \in members : \A f \in members : firstSeen[e] <= firstSeen[f]}

\* create_cutover_canary.py: one of each group or no file at all.
CreateCanary ==
  /\ historyTable
  /\ batchFile # {}
  /\ \E chosen \in [Groups -> Candidates] :
       /\ \A group \in Groups : chosen[group] \in EarliestOf(group)
       /\ canaryFile' = {chosen[group] : group \in Groups}
  /\ UNCHANGED <<vars, historyTable, backfilled, batchFile, activated, baseline>>

\* BENIVO_GO_LIVE_AT is set, once.
Activate ==
  /\ ~activated
  /\ Disciplined => backfilled
  /\ activated' = TRUE
  /\ UNCHANGED <<vars, historyTable, backfilled, batchFile, canaryFile, baseline>>

Operator == ApplyMigration \/ Backfill \/ CreateBatch \/ CreateCanary \/ Activate

(***************************************************************************)
(* The service.                                                            *)
(***************************************************************************)

\* Mutant: the history statement is skipped and the rest is committed.
Breaks_Commits(r) ==
  /\ pc[r] = "sync_history" /\ ~historyTable
  /\ GoTo(r, "sync_mark")
  /\ UNCHANGED <<storeVars, failures, intakeVars, benivoVars, batch, terminalSnap,
                 cutoverVars>>

\* Without the table the second statement of a synchronization raises, and
\* everything is rolled back; so does the query of a selection.
Breaks(r) ==
  /\ pc[r] \in {"sync_history", "select"} /\ ~historyTable
  /\ GoTo(r, "failed")
  /\ ForgetIntake(r)
  /\ UNCHANGED <<storeVars, failures, benivoVars, batch, terminalSnap, cutoverVars>>

Selects(r) == Command[r] \in {"report", "post", "run"}

\* The service's own steps where its statements find their tables.
Serves(r) ==
  /\ Progresses(r)
  /\ pc[r] = "idle" /\ Selects(r) => activated
  /\ pc[r] \in {"sync_history", "select"} => historyTable
  /\ UNCHANGED cutoverVars

CutoverNext ==
  \/ Operator
  \/ Environment /\ UNCHANGED cutoverVars
  \/ \E r \in Runs : Serves(r) \/ Breaks(r) \/ (Die(r) /\ UNCHANGED cutoverVars)

CutoverSpec == CutoverInit /\ [][CutoverNext]_<<vars, cutoverVars>>

-----------------------------------------------------------------------------
(***************************************************************************)
(* Properties.                                                             *)
(***************************************************************************)
Takes(r, e) == Selection[r] = "normal" /\ batch[r][e] # "out"

\* The business requirement of the go-live: a candidate known before it is
\* never posted automatically, also when only an old log row tells of it
\* and it re-enters the scope after the go-live.
BaselineIsNeverTaken == \A r \in Runs, e \in baseline : ~Takes(r, e)

\* get_historical_batch_candidates() and get_ready_candidates() are mutually
\* exclusive at the same T0, however much time passes in between: nobody in
\* an approved cutover file is also selected automatically.
OneRouteOnly == \A r \in Runs, e \in batchFile \cup canaryFile : ~Takes(r, e)

\* Deployed before the migration, a synchronization fails and leaves nothing
\* behind: no candidate appears while its first sight cannot be recorded.
NothingWithoutHistory ==
  ~historyTable => \A e \in Candidates : Exists(e) => e \in baseline

\* The ledger is carried over: beside the operator, and from the log that
\* the release before has left, posting still takes only steps of Ledger.
CarriesLedgerOn == [][Promise!LedgerNext]_(Promise!ledgerVars)

=============================================================================
