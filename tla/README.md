# A formal model of the Jobvite to Benivo automation

This directory is a TLA+ development of the batch that takes relocating
candidates from Jobvite to Benivo: modules, TLC configurations that check them
on small instances, and proofs checked by TLAPS. Paths below are relative to
the repository.

Contents: [the system](#1-the-system), [the modules](#2-the-modules),
[the abstractions](#3-what-is-abstracted), [the runs](#4-the-runs),
[fairness](#5-fairness), [the proofs](#6-the-proofs),
[disagreements between code and documentation](#7-disagreements),
[what is not modelled](#8-what-is-not-modelled) and [the plan](#9-the-plan).

## 1. The system

An external ETL rewrites `jv_arrise_data_schema.jobvite_applications` in
PostgreSQL. The program is a command line (`app/main.py`) with five commands:
`sync`, `classify`, `report`, `post` and `run`, the last one going through all
stages. Each invocation is one sequential process that keeps its selection and
its results in memory; nothing but the database and Benivo outlives it.

```
 Jobvite table --sync--> benivo.candidates --classify--> statuses
 (ETL, external)     \-> benivo.scope_history               |
                                              select (query, batch file or UAT)
                                                            |
 Benivo API <--token, refdata, lookup, create-user, PATCH-- post all selected
                                                            |
 benivo.post_log + candidates.benivo_status <-- record one by one
                                                            |
                                                 report --> delivery
```

`docs/OPERATIONS.md:24-45` schedules `run` every three hours, by cron or by a
systemd oneshot timer. The oneshot unit does not start twice; the cron line and
an operator beside either of them can overlap it, and no lock in the program
keeps them apart.

### Components

| Component | State | Operations | What makes it correct |
|---|---|---|---|
| Vocabulary (`models/domain.py`) and `classify()` | none | status mappings, classification rule | POSTED only from a terminal log status; the verdict follows the cached row and the live mobility selection |
| Persistent state (`repositories/`, `migrations/`) | `candidates`, `scope_history`, `post_log` and its partial unique index | the selection query, inserts, updates | one terminal row per application and action; selection never returns a logged candidate |
| Synchronization | the snapshots of three statements | upsert, date, withdraw, commit | first-seen dates never move; a candidate out of scope is withdrawn; POSTED is left alone |
| Classification | the rows its SELECT returned | read, write back, commit | statuses settle on the verdict of the live row |
| Selection overrides | file, terminal eids read in bulk | load, evaluate each entry by three queries | fails closed; holds only named candidates, none already logged |
| Posting and recording | per-candidate progress in memory | token, refdata, lookup, create-user, Case PATCH, two log rows and the status in one transaction | the log is backed by Benivo; retry does not open a second account; log and status agree |
| Benivo (external) | accounts, cases | accept, refuse, fail to answer | only assumptions: see section 3 |
| Command line, scheduling | the stage of each process | start, stop, crash, repeat | the stages in order, any failure ends the run |
| Cutover scripts (`scripts/`) | `scope_history` as the backfill leaves it, batch file, canary file, `BENIVO_GO_LIVE_AT` | migration 0008, backfill, create batch, create canary, activate | whoever was known before the go-live is never posted automatically; batch files and selection exclude each other |
| Reporting, delivery | what the queries returned, the report folder | four queries, the sheets, save, one HTTP request | a saved report tells the truth of its run, its categories agree with the selection, and it changes nothing |
| Migration runner (`migrate.py`, `migrations/`) | `_schema_migrations`, the schema, table locks | read the table, apply, record and commit each pending file, roll back | the tracked files are a prefix and the schema is the one they make; the service loses no record to a migration |
| Eligibility rules, formatters and payload builders | none | office, population, start date, mobility scope; country, phone, gender; the two payloads and three readings of readiness | what a report, a dry run or a gate showed is what is sent; what was called ready is not turned down |

### What is hard

* **Overlap.** Two invocations read, post and record the same candidates.
* **Snapshots.** Each statement at Read Committed sees a database of its own;
  the ETL commits between the statements of one transaction.
* **Failure between Benivo and the log.** A run posts every selected candidate
  before it records the first one, and a request that raises ends the run.
* **Retry.** `POST_FAILED` and unrecorded candidates come back through
  classification; the lookup by address is all that keeps a retry from opening
  a second account.
* **Stale copies.** Scope is decided on the cached row, the live row, or both,
  depending on the field.
* **The go-live.** A one-time procedure of five steps by hand, with the service
  synchronizing in between, decides for ever who is posted without asking.
* **Reports of a moving database.** A report reads by four queries of their own
  while other runs record.
* **The same decision in several places.** Readiness is judged by `classify()`,
  the report, the validation script, the UAT gate and the attempt, each from
  its own reading of the row, the calendar and Benivo's reference data.
* **A schema that changes under a running service**, by runners that read the
  ledger once and lock tables in another order than the service.

`PROJECT.json` lists each hazard at its line with the properties that cover it.

## 2. The modules

```
Domain <- Store <- Invocations <- Intake ------------------------+
                        ^                                        |
                        +---- Benivo <- Posting <- ExplicitSelection
                                                                 |
              INSTANCE Ledger -------- Pipeline  (both branches) +
                                      /    |    \
                             Reporting     |     Cutover
                            (refines it)   |    (adds the operator)

   Domain <- Payload <- Handover            what is shown and what is sent
   MigrationFiles <- Migrations             INSTANCE SchemaVersions

   MCPipeline,  MCReporting,  MCCutover        instances for TLC
   MCHandover,  MCMigrations
   PipelineProofs <- SerialProofs, RunProofs, ReportingProofs, CutoverProofs
   HandoverProofs,  MigrationsProofs                                theorems
```

`A <- B` reads "B extends A".

| Module | Models | State and actions |
|---|---|---|
| `Domain` | `models/domain.py`, the scope predicate of the sync SQL, `classify()` | no state; `InScope`, `Classify`, `CandidateStatusOf` |
| `Store` | the source table, the benivo schema, `get_ready_candidates()` | `source`, `cand`, `firstSeen`, `postLog`, `clock`; `Selectable`, `ReadyCandidates`; `EtlRewrites`, `Tick` |
| `Invocations` | `main.py` | `pc[r]`, the statement or request that run `r` makes next; `failures` counts failures |
| `Intake` | `synchronization_service.py`, `classification_service.py` | `upsertSnap`, `datedSnap`, `verdicts`; `SyncUpsert`, `SyncHistory`, `SyncCommit`, `ClassifyRead`, `ClassifyCommit` |
| `Benivo` | the service as `benivo_client.py` uses it | `accounts`, `patched` |
| `Posting` | `posting_service.py` | `batch[r][e]`, how far run `r` is with candidate `e`; `Select`, `Authorize`, `RejectLocally`, `LookUp`, `CreateUser`, `UpdateCase`, `RequestRaises`, `EndPosting`, `RecordResult`, `EndRecording` |
| `ExplicitSelection` | `approved_batch_service.py`, the UAT override | `terminalSnap`; `OpenBatch`, `OpenUat`, `Fetch`, `CheckLive`, `CheckUnposted`, `EndEvaluation` |
| `Pipeline` | all of it together, and its properties | `Start`, `Die`, `Report`, `Reschedule`; `Works` (the stages up to the report), `Progresses`, `Environment`; `Spec`, `FairSpec` |
| `Ledger` | the abstract promise of posting | `opened`, `cased`, `settled`; `Open`, `PatchCaseOf`, `Settle` |
| `Reporting` | `reporting_service.py`, `report_delivery_service.py` | `page`, `report`, `files`, `savedAt`, `delivered`; `ReadCandidates`, `ReadTerminal`, `ReadHistory`, `ReadResults`, `SaveWorkbook`, `Deliver` in the place of `Report` |
| `Cutover` | `backfill_scope_history.py`, `create_cutover_batch.py`, `create_cutover_canary.py`, migration 0008 | `historyTable`, `backfilled`, `batchFile`, `canaryFile`, `activated`, `baseline`; `ApplyMigration`, `Backfill`, `CreateBatch`, `CreateCanary`, `Activate`, and `Breaks`, a statement that lacks its table |
| `Payload` | the pure services, `build_benivo_payload()`, `build_case_update_payload()`, `_validate_payload()`, `payload_ready`, `classify()` on fields | no state; `ResolveOffice`, `Population`, `EffectiveStartDate`, `PayloadReady`, `ClassifyFields` |
| `Handover` | the readings of a candidate from Jobvite to the request, and what the operator is shown in between | `jobvite`, `cand`, `posted`, `offices`, `today`, `evidence`, `run`; `Sync`, `ClassifyAll`, `Report`, `DryRun`, `ValidateReadyCandidates`, `Select`, `Fetch`, `Post`, `Record`; outside, `Rewrite`, `MonthEnds`, `OfficesChange` |
| `MigrationFiles` | the ten files of `migrations/` | no state; `Script`, `SchemaAt` |
| `Migrations` | `migrate.py --apply`, the service's selection and recording as far as they need the schema | `tracked`, `schema`, `at`, `seen`, `file`, `got`, `post`; `List`, `Begin`, `Lock`, `Commit`, `RollBack`, `Finish`, `Die`, `TakeInHand`, `Insert`, `Record`, `BreakDeadlock` |
| `SchemaVersions` | the abstract promise of the runner | `tracked`, `schema`; `Advance` |
| `MCPipeline`, `MCReporting`, `MCCutover`, `MCHandover`, `MCMigrations` | instances for TLC | rows, maps, command lines, office lists |
| `PipelineProofs`, `SerialProofs`, `RunProofs`, `ReportingProofs`, `CutoverProofs`, `HandoverProofs`, `MigrationsProofs` | theorems | section 6 |

Notes on the correspondence:

* **A transaction is its statements.** Row locks are held to the commit, so what
  a statement *writes* is applied at the commit, to the row as it is then; what
  it *read* of other tables stays as it was when it read it. Hence
  `SyncUpsert`, `SyncHistory`, `SyncCommit` are the three statements of
  `sync_candidates()`, the last together with the commit, and the
  classification is a read and a write with other commits in between.
* **Selection** of the normal path is one SQL statement and one action. The two
  overrides run several queries in connections of their own, one action each.
* **A request is an action** whose disjuncts are its answers: an accepted
  request, an error status, an answer that cannot be used. `RequestRaises`
  covers timeouts and connection errors of any request, with the effect carried
  out or not; nobody below `main()` catches them.
* **Recording** (`RecordResult`) is the transaction of `record_post_result()`:
  the `CREATE_USER` row, the `UPDATE_CASE` row and the status. The unique index
  may refuse it, and then the exception ends the run with the remaining results
  unrecorded.
* **Rollback.** `Die` before a commit leaves the database as it was. `batch` is
  kept after a death, because properties speak of it; no action reads it before
  `Reschedule` clears it.

* **A report** is kept as what its four queries returned (`Readings`); the
  sheets are functions of that. The report folder is a set of files named by
  the second they were saved in; the delivery opens its file by that name again,
  as the code does.
* **The go-live** starts from what the release before leaves (`LeftBehind`): rows
  in `candidates` as a synchronization, a classification and an attempt made
  them, the READY_TO_POST backlog among them, withdrawn where the candidate has
  left the scope since; the log rows of failed and successful attempts with the
  accounts behind them; and candidates of whom the log alone tells, because that
  release deleted rows. All of them are the `baseline`. `Activate` is the setting of
  `BENIVO_GO_LIVE_AT`; the constant `Disciplined` says whether the operator
  keeps to the documented order. Before it only commands that do not select are
  started, and the backfill commits while `NOW()` is before T0. Both are
  assumptions of `Cutover`: `docs/PHASE1_ARCHITECTURE.md:251-274` says during its steps
  that "the cutover isn't enabled yet", and a run that selected before the last of
  them would post the backlog, since the unset gate filters nothing.
* **`evidence`** is what the operator was shown last: the rows of the workbook,
  the previews of a dry run, or the green exit code of the validation script.
  It is no variable of the program. It is dropped as soon as anything changes
  that it was read from, unless the run under way has read its last input by
  then, so that the properties say: *as long as nothing has changed, what was
  shown is what is sent*. The readings themselves stay separate: the report,
  the selection and the attempt each evaluate the rules again. A dry run keeps
  what the code returns: the payload as `_sanitize_payload()` leaves it, with
  the email masked (`MaskEmail`), and the Case request. The workbook shows the
  email itself.
* **Domain and Payload.** `Pipeline` knows a row by what the stages decide on it,
  `Handover` by its fields. `ClassifiesAsDomain` and `RejectedAsDomain` say that
  `OfRow`, the view the first takes of the second, loses nothing that either
  decision needs.
* **A migration's transaction** holds each table from the first statement that
  alters it to its end (`got` counts the locks it has). The service's
  transaction is `Insert` (holds `post_log`) and `Record` (then `candidates`), so
  the two can wait for each other; PostgreSQL aborts either (`BreakDeadlock`).
  A column that is missing when an application is recorded makes it `lost`.

## 3. What is abstracted

* In `Pipeline`, a workplace is mapped or not (`office`), a `mobility_support`
  selection qualifies or not (`support`), and the payload is valid or not
  (`complete`). The rules that compute these are `Payload`.
* In `Payload` a text is its normalized word and whether it was stored in that
  form; the separators of a `mobility_support` text are gone, a phone number is
  the shape of its characters, first and last name are one name, of the table
  of countries two stand for all, and of the email addresses three, two of which
  are the same once masked. `Handover` synchronizes and classifies
  in one step each and has one run at a time; LIMIT and the go-live gate are
  `Pipeline`'s.
* The columns that one migration adds to one table go by one name. `ByHand` is
  how many files were applied before the runner existed; the runner's docstring
  says four. A file takes the same locks whenever it is executed. Executed
  again, file 2 finds no index to drop and takes only the share lock of its
  CREATE INDEX, so the model makes runners wait where PostgreSQL need not, never
  the reverse. The service beside the runners is the one of this release, whose
  statements need the columns of all files; `LostOnlyToStaleRunner` says nothing
  about an older service that is still running.
* An address is a model value, which stands for `LOWER(TRIM(email))`;
  `EmailOf` may give two applications one address.
* Time is a counter that ticks; `scope_history` stores it, the go-live gate
  compares it.
* `id` stands for the position in `ORDER BY created_at, id`. The rows of one
  `INSERT ... SELECT` get consecutive ids in any order.
* Benivo is what the code expects of it: an account exists or not, the lookup
  finds an account that exists unless it answers with an error. Whether
  create-user refuses an address it has is unknown to the program and is the
  constant `RefusesDuplicates`.
* Bounds, all of them in guards: `MaxEdits` rewrites by the ETL, `MaxClock`
  ticks, `MaxFaults` failures. `MaxCandidates` is not a bound but
  `BENIVO_MAX_CANDIDATES`.

## 4. The runs

Each configuration asks one question. Two candidates are enough for the
properties, which each speak of one application, or of two that share an
address, a place in line or a batch; two overlapping runs are enough for a race
between a reader and a writer, and three or four serial ones for fail, retry, and
look again.

| Run | Instance | Question and answer |
|---|---|---|
| `interleaved` | 2 overlapping `run`s, 2 applications of one address, 8 kinds of failure, 2 failures | May the log, the statuses and the memory of the runs ever claim what did not happen? No: `OneTerminalRow`, `PostedIsLogged`, `LogIsBacked`, `MemoryIsBacked`, `CaseRowPairsWithSuccess`, and the pipeline implements `Ledger`. Is whoever is logged and in nobody's hands ever taken up again? No (`SettledIsLeftAlone`) |
| `serial` | 4 runs one at a time in any order: the query, a batch file, a file with a duplicate, a UAT candidate; 1 ETL rewrite, crashes, timeouts and lost replies, Benivo accepts duplicates | Without overlap: POSTED is never taken away, log and status agree (`LoggedIsPosted`, `PostedIsTerminal`), a retry by any route opens no second account (`OneAccountPerAddress`), a ready row is cached in the Mobility state, and overrides hold only candidates they name, once, none already logged (`ExplicitStaysWithinFile`, `InHandIsUnlogged`) |
| `golive` | a release before with any part of both candidates known, tried or posted, its rows ready or withdrawn; a `sync` before the go-live, a `run` after it, one at a time; the operator's five steps, 2 rewrites, 1 crash, clock 0 and 1, T0 = 1 | Is anyone known before the go-live ever selected automatically, or anyone in a cutover file? No (`BaselineIsNeverTaken`, `OneRouteOnly`), since the gate holds (`BacklogStaysOut`) and dates stand (`FirstSeenIsKept`); and before the migration no row appears (`NothingWithoutHistory`) |
| `sheets` | 2 overlapping runs that post and report, 1 rewrite, 1 failure, clock 0 and 1, go-live at 1 | Does a saved report tell the truth? Its results are final (`ResultsAreFinal`) and complete (`SelectionIsReported`), its labels are backed by its counts (`PostedLabelIsBacked`) and agree with the selection (`SelectedIsNotBacklog`), reports are mixed up only within one second (`DeliveredOnce`), and reporting is one step of the pipeline |
| `recovery` | a timer that fires for ever, 2 failures, Benivo refuses duplicates | Is a ready candidate attempted, and one whose account exists POSTED in the end? Yes, with room for both in one run |
| `settles` | dry runs for ever, 3 source rows in a row, a deleted one among them | Do statuses settle on the verdict of the live row? Yes |
| `migrate` | 2 runners that start any time and may die once, a service with 2 applications, files 1 to 4 applied by hand | Is the schema always a version, whoever runs the runner? Yes (`ImplementsSchemaVersions`); is a posted candidate always recordable? Yes (`InHandIsRecordable`), because the selection needs the last columns; exit code 0 means complete (`DoneIsComplete`), a record is only lost to a second, stale runner (`LostOnlyToStaleRunner`), nobody waits for a lock in a circle that is not broken (`WaitsEnd`), and every runner ends (`RunnersEnd`) |
| `payload` | 2 candidates, each of 7 rows, 3 office lists, months from November 2026, 1 outside change | Is what the operator was shown what is sent? Yes, field by field, except the gender in the workbook (`ReviewedIsSent`) and the email, which a dry run masks (`DryRunIsSent`); is what was called ready accepted? Yes (`ReadyIsNotRejected`); one calculated date per run, over the turn of the year (`DatesAreOfOneRun`); and `Domain` decides as the fields do (`ClassifiesAsDomain`, `RejectedAsDomain`) |
| `stale`, `unrecorded`, `unterminal`, `previewed` | the smallest instance that shows each | the claims of section 7, each refuted |

Every failure can strike at every step, and two failures are enough for the two
orders that matter: a failure, then a failure of what repairs it. Two rewrites
let a candidate leave the scope and return. A clock of 0 and 1 with the go-live
at 1 puts a date before T0 and one exactly at T0, the two sides of every
comparison. The seven rows of `payload` are a VIP without a start date who needs
every fallback and conversion, a game presenter with a date, one with an email of
blanks, one at an unmapped workplace, one whose mobility support qualifies for
nothing, one that has moved on and one that is gone from Jobvite; the lists of offices have the office, lack it,
or have it without an id. Two
candidates are enough, since rows meet only in the shared timestamp and office
list of a run, and are interchangeable (symmetry; no liveness is checked there).
In `golive` they are so together with their addresses. Its two invocations do
not overlap, for the size of the instance; the theorems of `CutoverProofs` allow
any overlap. `Legacy`, the statuses of old rows that are considered, is the one
that matters to the selection, READY_TO_POST, beside the withdrawn rows.
One outside change separates any two of the readings. Two runners are enough to
make one of them stale, and the two applications put a recorded one beside one
under way, which is what the index of file 2 and the locks of file 3 could hit.
`CHECK_DEADLOCK FALSE` stands where the instance ends: non-recurring runs stop
after their last invocation. `recovery`, `settles` and `payload` never stop and
check deadlock. Each property of a passing run has a mutant of a mapped definition
that breaks it (`PROJECT.json`); the mutants stand beside the definition they
replace, under a name with a suffix.

The properties that fail with two overlapping runs (`PostedIsTerminal`,
`LoggedIsPosted`, `InHandIsUnlogged`, `OneAccountPerAddress`) are checked with
`Overlap = FALSE`, and `unterminal` shows what overlap does to the first.

## 5. Fairness

`FairSpec` adds `WF_vars(Progresses(r))` for each invocation `r`: the timer
keeps firing, a process that can take a step takes one. Both are what the
operating system and systemd give. A failure (`Die`, or a failing disjunct) is
bounded by `MaxFaults` and never required; of the ETL and the clock nothing is
assumed. `Progresses` contains the failing answers too, so weak fairness does
not promise that a request ever succeeds before the failures are spent. The
liveness properties therefore say: *after finitely many failures* the pipeline
recovers.

`Migrations` has `WF` of the next step of a runner that has been started, of the
service's statements once an application is in hand, and of PostgreSQL's
deadlock detection. Nothing makes a runner start, and a death is bounded by
`MaxCrashes` and never required. Weak fairness is enough although locks are
contended: a lock that is asked for is held by a transaction that ends.

## 6. The proofs

Every theorem holds for every value of the constants: any number of runs,
addresses and source rows, any failures, overlapping or not, unless the table
names a condition. With them every safety property of a passing run is proved.
The type invariants of `Reporting` and `Cutover` are proved and not checked by
a run.

| Module | Theorem | Statement |
|---|---|---|
| `PipelineProofs` | `TypeCorrect` | `Spec => []TypeOK` |
| | `TerminalRowIsUnique` | `Spec => []OneTerminalRow` |
| | `PostedHasTerminalRow` | `Spec => []PostedIsLogged` |
| | `MemoryTellsTheTruth` | `Spec => []MemoryIsBacked` |
| | `LogTellsTheTruth` | `Spec => []LogIsBacked` |
| | `CaseRowsPair` | `Spec => []CaseRowPairsWithSuccess` |
| | `PipelineImplementsLedger` | `Spec => ImplementsLedger` |
| | `BooksAlwaysBalance` | `Spec => []Promise!BooksBalance` |
| | `FirstSeenIsWrittenOnce` | `Spec => FirstSeenIsKept` |
| | `BacklogIsNeverInHand` | `Spec => []BacklogStaysOut` |
| | `ExplicitIsNamedOnce` | `Spec => []ExplicitStaysWithinFile` |
| `SerialProofs` | `SerialInvHolds` | `ASSUME ~Overlap PROVE Spec => []SerialInv` |
| | `InHandStaysUnlogged` | `ASSUME ~Overlap PROVE Spec => []InHandIsUnlogged` |
| | `LogAndStatusAgree` | `ASSUME ~Overlap PROVE Spec => []LoggedIsPosted` |
| | `PostedStaysPosted` | `ASSUME ~Overlap PROVE Spec => PostedIsTerminal` |
| | `ReadyIsInMobility` | `ASSUME ~Overlap PROVE Spec => []ReadyIsCachedInMobility` |
| | `NoSecondAccount` | `ASSUME RefusesDuplicates`, or `~Overlap` and no `"lookup"` failures, `PROVE Spec => []OneAccountPerAddress` |
| `RunProofs` | `SettledStaysSettled` | `Spec => SettledIsLeftAlone` |
| | `EveryStepIsForward` | `Spec => RunsAdvance` |
| | `RunsAreNeverStuck` | `Spec => []NoRunIsStuck` |
| `ReportingProofs` | `ReportingImplementsPipeline` | `ReportingSpec => ImplementsPipeline` |
| | `ReportTypeCorrect` | `ReportingSpec => []ReportTypeOK` |
| | `SavedResultsAreFinal` | `ReportingSpec => []ResultsAreFinal` |
| | `AlreadyPostedIsTerminal` | `ReportingSpec => []PostedLabelIsBacked` |
| | `TotalsAddUp` | `ReportingSpec => []SelectionIsReported` |
| | `SelectedIsNeverBacklog` | `ASSUME GoLive # Unset PROVE ReportingSpec => []SelectedIsNotBacklog` |
| | `OneDeliveryEach` | `ReportingSpec => []DeliveredOnce` |
| `CutoverProofs` | `CutoverTypeCorrect` | `CutoverSpec => []CutoverTypeOK` |
| | `CutoverKeepsFirstSeen` | `CutoverSpec => FirstSeenIsKept` |
| | `RoutesAreExclusive` | `CutoverSpec => []OneRouteOnly` |
| | `BaselineStaysOut` | `ASSUME Disciplined PROVE CutoverSpec => []BaselineIsNeverTaken` |
| | `NothingBeforeMigration` | `CutoverSpec => []NothingWithoutHistory` |
| | `PromisesSurviveGoLive` | `CutoverSpec => [](OneTerminalRow /\ PostedIsLogged /\ LogIsBacked /\ MemoryIsBacked)` |
| | `GoLiveCarriesLedgerOn` | `CutoverSpec => CarriesLedgerOn` |
| | `GoLiveBooksBalance` | `CutoverSpec => []Promise!BooksBalance` |
| `HandoverProofs` | `HandoverInvHolds` | `Spec => []HandoverInv` |
| | `PreviewShowsWhatIsSent` | `Spec => []ReviewedIsSent` |
| | `DryRunShowsWhatIsSent` | `Spec => []DryRunIsSent` |
| | `ReadyMeansAccepted` | `Spec => []ReadyIsNotRejected` |
| | `OneCalculatedDate` | `Spec => []DatesAreOfOneRun` |
| | `FieldsClassifyAsDomain` | `Spec => []ClassifiesAsDomain` |
| | `RejectionsAreDomains` | `Spec => []RejectedAsDomain` |
| `MigrationsProofs` | `MigrationsInvHolds` | `Spec => []MigrationsInv` |
| | `MigrationsImplementVersions` | `Spec => ImplementsSchemaVersions` |
| | `HandsAreRecordable` | `Spec => []InHandIsRecordable` |
| | `DoneMeansComplete` | `Spec => []DoneIsComplete` |
| | `StaleRunnersOnly` | `Spec => LostOnlyToStaleRunner` |
| | `NobodyWaitsInACircle` | `Spec => []WaitsEnd` |

Assumptions: `StoreAssumption`, `InvocationsAssumption`, `BenivoAssumption`,
`PostingAssumption`, `ReportingAssumption`, `CutoverAssumption`,
`HandoverAssumption` and `MigrationsAssumption` only say what the constants are. The
ones with content: there are finitely many candidates, without which no ids
could be given; a UAT run names one candidate; in `Cutover` there is a go-live; in
`Reporting` no run recurs, so that a run and its report have one identifier.

**The pipeline.** `TypeOK` is inductive, one lemma per group of actions.
`OneTerminalRow` and `PostedIsLogged` are inductive relative to it: only
`RecordResult` changes the log (`OnlyRecordingLogs`), it adds a terminal row only
when the index finds none, and it alone writes POSTED, in the step that writes
the row. `LogIsBacked` is not inductive: `RecordResult` writes what the memory of
the run says, possibly long after the request and after other runs have come
and gone. The strengthening is `MemoryIsBacked`: a run believes in an account,
or a patched case, only if Benivo has it. It is inductive because only requests
reach Benivo (`OnlyRequestsReachBenivo`) and accounts and patches only grow
(`BenivoGrows`). The same invariant gives the refinement: `CreateUser` and the
raising request are `Open`, `UpdateCase` is `PatchCaseOf` (its guard `m \in opened`
needs `MemoryIsBacked`), `RecordResult` with a terminal row is `Settle` (its two
guards are the index and `MemoryIsBacked`), every other step stutters. What the
ledger guarantees by itself (`BooksBalance`: no case and no settled application
without an account) is proved of `Ledger` and carried over by the refinement.
`BacklogStaysOut` is inductive because the normal path takes nobody but whom the
query returned (`OnlyRoutesTake`) and dates never move (`FirstSeenStays`);
`ExplicitStaysWithinFile` for the same reason, since a file that loads names
nobody twice (`NamedOnce`). `CaseRowPairsWithSuccess` is inductive because one
`RecordResult` writes both rows of a success (`ResultPairs`).

**Serial invocations.** Under `~Overlap` at most one run is active (`ActiveAlone`),
therefore whoever is active after a step has made it or nobody has disturbed it
(`WorksOrRests`). With this lemma each thing a run read stays true until used,
one conjunct of `SerialInv` for each: the verdicts between the two statements of
a classification (`VerdictsAreCurrent`), the terminal eids of a batch and the
checks behind a candidate (`EvaluationsAreCurrent`), the absence of a terminal
row from the selection to the record (`InHandIsUnlogged`). `PostedStays` and
`LoggedIsPosted` follow, neither is inductive alone: a classification would
overwrite POSTED by a verdict, a record by a FAILED. `BatchFollowsStage`, which
needs no such condition, says what a run can hold at each stage. For the accounts
`LoopsHold` adds that the loop is under way with one application at a time, and
that the address of one it calls unknown has no account. An error status of the
lookup breaks exactly this, hence the condition of `NoSecondAccount`; with
`RefusesDuplicates` no invariant is needed.

**One invocation among others.** `RunProofs` asks what overlap leaves standing and
why a run ends. An application is `Settled` when it has a terminal CREATE_USER row
and no run `Pursues` it, that is, holds it beyond the checks of its route.
`SettledStaysSettled` says that then nothing takes it up again: the query asks for
the absence of the row, the batch relies on the terminal eids it read in bulk,
hence the clause of `Pursues` on a snapshot that lacks the application, and the
UAT check reads them once more. So with any overlap the log of a settled
application is final, although its status need not be (`unterminal`).
Termination is proved up to fairness: each stage, and within the loops each
attempt, has a rank that only rises (`EveryStepIsForward`: at most twelve stages,
and seven steps for each candidate), and `RunsAreNeverStuck` shows that
a loop which has not ended has a next candidate. The latter is not obvious,
since the order of the loop is the id column of a table that other runs write:
it needs that a finite set of positions has a least one, that whoever is held
has a position, and what each loop inherits from the stage before
(`PostingHolds`, `BatchFollowsStage`). `RowsCanBeNumbered` does the same for the ids
that the commit of a synchronization gives.

**Reports.** The refinement lets the theorems of the pipeline be used. The
results of a report are final because a run that has opened its report is past
recording (`OnlyWhileReporting`), and rows carry the run that wrote them
(`ResultsKept`). `PostedLabelIsBacked` follows the order of the queries
(`PostedKept`): whoever is read as POSTED has a terminal row then
(`PostedIsLogged`), keeps it, and so is among the terminal eids read next; with
the two queries swapped it would fail. The totals add up because "recorded" is
reached by recording only and never left (`RecordedStays`), so that each recorded
application has exactly one row of the run and nobody else has any (`OneRowEach`),
and the rows of a report are in bijection with its selection
(`RowsCountSelected`). For the go-live label the dates are read after the
selection and dates stand (`HeldPassGate`). `DeliveredOnce` needs that a file
carries the second its writer remembers (`FilesAreNamed`).

**The go-live.** The initial state is not one of the pipeline, so the lemmas
about steps are reused and not its theorems: `LeftBehindRows` and `LeftBehindLog`
say what holds of the tables at the start, and every step is one of the pipeline
or leaves alone what the promises of the pipeline speak of
(`OperatorLeavesPosting`). Hence `PromisesSurviveGoLive`, and the ledger is carried
on from a settled part (`GoLiveCarriesLedgerOn`; `CarriesLedgerOn` has no initial
condition, because the ledger does not start empty). `RoutesAreExclusive` needs that
both files are drawn from candidates dated before T0 (`FilesAreBacklog`) and
that the gate holds. `BaselineStaysOut` needs nine parts (`CutoverInv`): nobody
of the baseline is forgotten before the backfill looks (`BaselineIsKnown`, from
`RowsStay` and `LogGrows`); no date, also none that a synchronization still
holds in its transaction, is in the future (`PastDates`), therefore after the
backfill the baseline is dated before T0 (`BaselineIsBacklog`); and nobody is
taken before the activation (`OnlySelectingSelects`, `LiveAfterGoLive`,
`TakenAfterGoLive`), which the backfill precedes (`BackfillFirst`).

**What is shown and what is sent.** `HandoverInv` follows the evidence along the
stages: before a run has read its inputs, the evidence equals what would be
shown now (`EvidenceIsCurrent`, `GreenIsCurrent`), and whom the run has taken is
as it would take them now (`TakenIsCurrent`); reading the inputs turns this into
a relation between the evidence and the run's own copies (`EvidenceIsOfRun`),
which no later change can disturb; and a result is what the attempt made of such
a copy (`ResultsAreAttempts`). The properties are then facts about the rules:
`payload_ready` asks for at least what `_validate_payload()` asks
(`ReadyIsAcceptable`), neither the population nor the start date can be missing
(`AlwaysAPopulation`, `AlwaysAStartDate`), and counting months modulo twelve is
turning the calendar's page three times, in every month of every year
(`ThirdMonthAfter`).

**Migrations.** `MigrationsInv` says that the tracking table is a prefix, that
the schema is the prefix's, that a runner which has passed a file that was not
in its list has seen it tracked, and which of the service's states need which
version. From it every commit is `Advance` (a stale runner's insert violates the
primary key, and is rolled back) and `DoneIsComplete` follows although the table
is read only once. `SchemaAt` is a finite table, evaluated file by file.
`WaitsEnd` needs that what a runner holds are the first locks of its file
(`LocksAreOfFile`) and that every file takes `candidates` before `post_log`
(`FilesLockInOrder`): whoever a runner waits for can commit, can take its next
lock, waits for a runner that is about to commit, or is in the deadlock with a
transaction of the service that PostgreSQL breaks. A file that locked `post_log`
first would make two runners wait for each other.

Only model-checked: liveness (`ReadyIsAttempted`, `OpenedIsPosted`,
`StatusSettles`, `RunnersEnd`), since fairness and ENABLED are beyond the prover;
`RunsAdvance`, `NoRunIsStuck` and `WaitsEnd` are the parts of it that are proved.
`RunsAdvance`, `NoRunIsStuck`, `CarriesLedgerOn` and `BooksBalance` are theorems
without a run of their own.

## 7. Disagreements

Six claims of the documentation that the code does not keep (`findings` in
`PROJECT.json` quotes the lines). Four have a run that violates the claim:

* `stale`: the relocation field is not re-read. `README.md` says that a
  candidate can never be posted purely because `benivo.candidates` is stale;
  one whose relocation field was blanked in Jobvite is.
* `unrecorded`: `OPERATIONS.md` says that a failing candidate is recorded as
  FAILED and the run continues; a timeout ends the run and the results of all
  candidates before it are lost.
* `unterminal`: `domain.py` calls POSTED terminal; an overlapping run takes it
  away, by a classification that read the row earlier or by a slower run's
  FAILED.
* `previewed`: the report says that its `create_*` columns reflect exactly what
  would be sent; its query has no gender column, which the ready query has. The
  batch and UAT routes read the same columns as the report, so a candidate
  posted by an override goes without the gender that the normal path sends.

Two are rules that `README.md` states and the code has replaced. Here the
documents claim that something blocks, and properties of `payload` that *hold*
show that it does not; the mutant of each is the documented rule, and TLC
refutes it with a row that the document would block:

* `ClassifiesAsDomain`: the tables at `README.md:111` and `:121` say that a
  missing start date makes a candidate `PENDING_MISSING_START_DATE`. The code
  calculates a date (`start_date_service.py:67`) and classifies with it: the
  candidate becomes READY_TO_POST or PENDING_OFFICE_MAPPING, and the status is
  never given to anybody.
* `RejectedAsDomain`: "VIP is blocked, on purpose" (`README.md:157-164`) says
  that a VIP has no API value, fails the payload validation and is not created.
  The code sends a VIP as "Tier 1" (`population_service.py:116`), or as a game
  presenter if the selector says so, and nobody is ever turned down for the
  population.

Observations without a run of their own:

* `README.md:262-264` describes the index of `migrations/0002`, on
  `application_eid` alone. The one in force, which `Store` models, is that of
  `migrations/0006` on application and action; with the older one a CREATE_USER
  and an UPDATE_CASE row of one candidate could not both be terminal.

* With the default limit of one candidate per run, a ready candidate that can
  never be posted and comes first in the order of the query keeps all later
  ones waiting; `recovery` therefore leaves room for both.
* With `BENIVO_GO_LIVE_AT` unset the report calls everyone "Pre-Go-Live Backlog"
  while the query selects them; `SelectedIsNotBacklog` is checked with a go-live.
* The Pending Recruiter Review sheet is filled by relocation value and not by
  status.
* Two runs that save in the same second share one report file; `DeliveredOnce`
  states the exception.
* `config.py:130-136` says that without the backfill the backlog has no
  scope_history rows and is excluded for ever. The next synchronization gives
  everyone in scope such a row, dated after the go-live; `BaselineStaysOut`
  therefore assumes the documented order (`Disciplined`).
* `synchronization_service.py:224-225` says that upsert and scope history never
  disagree about who is in scope; at Read Committed they read different
  snapshots, and a candidate can get the row of the first and not the second
  until the next run.
* `migrate.py:8-10` says that a tracked file is never executed again. A second
  runner that read the table before does execute it; the primary key stops it
  and the transaction is rolled back, at the price of its locks.
* `start_date_service.py:25-29` asks for one timestamp per run; the stages of one
  `run` each take their own (`classification_service.py:146`,
  `posting_service.py:563`, `reporting_service.py:1175`), so a run over the end
  of a month reports another calculated date than it posted.
* The error message at `posting_service.py:453-456` blames the population, which
  is never the missing field (`RejectedAsDomain`).
* `sync` followed by `post` without `classify` selects by a status that the new
  fields no longer earn; the query does not look at `mobility_support`.
* A name or home country made of blanks is present for every check and is sent.

## 8. What is not modelled

* The sheets of the report beyond Posting Results and Go-Live Status, its counts
  by country and population, and its layout.
* `migrate.py --check`, which prints; the triggers and types inside a migration.
* `check_cutover_status.py`, `derive_historical_batch.py`: they print.
* `config.py`, logging, the wording of messages, the Excel layout.
* `legacy/`: standalone predecessors that nothing imports.
* `validate_uat_candidate.py` and `validate_approved_batch.py` print what the
  selections of `ExplicitSelection` compute, `run_*.py` call `main()`. The
  validation of the reference data reads the gated query and at most 1000 rows,
  so it says nothing of candidates before the go-live; `AllReady` is its verdict
  within those limits.

## 9. The plan

1. (done) The core pipeline and the ledger.
2. (done) `Cutover`: the go-live procedure against concurrent syncs.
3. (done) `Reporting`: four queries, categories, file name, delivery; a
   refinement of the pipeline.
4. (done) The theorems of section 6.
5. (done) `Migrations`: the runner, its table and its transactions, two runners
   at once and the service beside them.
6. (done) `Payload` and `Handover`: the rules on fields, and what is shown against
   what is sent.
7. (done) `SerialProofs`, and with it a theorem for every safety property of a
   passing run.
8. (done) `RunProofs`, the waits of the migration runners, and the promises of
   the pipeline through the go-live.
9. Open: the sheets of the report that section 8 leaves out.
