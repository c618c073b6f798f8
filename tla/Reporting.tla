------------------------------ MODULE Reporting ------------------------------
(***************************************************************************)
(* reporting_service.generate_reports() and                                *)
(* report_delivery_service.deliver_report(), which Pipeline takes for one  *)
(* step that only reads.  Here that step is four queries in connections of *)
(* their own, the saving of the workbook and its delivery, between which   *)
(* other runs and the ETL go on.                                           *)
(*                                                                         *)
(* A report is kept as what its queries returned; the sheets are functions *)
(* of that.  Layout, percentages and payload preview are left out.  Every  *)
(* report, post or run invocation has a run_id of its own: r.              *)
(***************************************************************************)
EXTENDS Pipeline

ASSUME ReportingAssumption == ~Recurring

VARIABLES
  page,       \* how far generate_reports() is
  report,     \* what its queries have returned
  files,      \* REPORT_FOLDER: the second in the file name, the run that wrote it
  savedAt,    \* the second in the file name that the run remembers
  delivered   \* whose report the webhook has received from this run

reportVars == <<page, report, files, savedAt, delivered>>

Pages == {"unread", "candidates", "terminal", "history", "results", "saved"}

NoReport ==
  [rows     |-> [e \in Candidates |-> NoCandidate],
   terminal |-> {},
   dated    |-> [e \in Candidates |-> NeverSeen],
   results  |-> {}]

\* What the four queries return.
Readings ==
  [rows     : [Candidates -> CandidateRow],
   terminal : SUBSET Candidates,
   dated    : [Candidates -> Nat \cup {NeverSeen}],
   results  : SUBSET PostLogRow]

ReportTypeOK ==
  /\ page \in [Runs -> Pages]
  /\ report \in [Runs -> Readings]
  /\ files \in SUBSET [second : Nat, by : Runs]
  /\ savedAt \in [Runs -> Nat]
  /\ delivered \in [Runs -> SUBSET Runs]

ReportInit ==
  /\ page = [r \in Runs |-> "unread"]
  /\ report = [r \in Runs |-> NoReport]
  /\ files = {}
  /\ savedAt = [r \in Runs |-> 0]
  /\ delivered = [r \in Runs |-> {}]

(***************************************************************************)
(* The sheets.                                                             *)
(***************************************************************************)

\* Mutant: the boundary belongs to the backlog.
GoLiveCategory_LateBoundary(status, first) ==
  IF status = Posted THEN "Already Posted"
  ELSE IF GoLive = Unset \/ first = NeverSeen \/ first <= GoLive
    THEN "Pre-Go-Live Backlog"
  ELSE IF status = "READY_TO_POST" THEN "Automatically Eligible"
  ELSE "Newly Eligible"

GoLiveCategory(status, first) ==
  IF status = Posted THEN "Already Posted"
  ELSE IF GoLive = Unset \/ first = NeverSeen \/ first < GoLive
    THEN "Pre-Go-Live Backlog"
  ELSE IF status = "READY_TO_POST" THEN "Automatically Eligible"
  ELSE "Newly Eligible"

\* mobility_candidates: by the cached workflow.
MobilityCandidates(rep) == {e \in Candidates : rep.rows[e].workflow = "Mobility"}

\* Go-Live Status: those of one category.
GoLiveStatus(rep, category) ==
  {e \in MobilityCandidates(rep) :
     GoLiveCategory(rep.rows[e].status, rep.dated[e]) = category}

\* Mutant: no filter on the run.
RowsOfRun_Everybody(r) == postLog

\* get_post_log_rows_for_run()
RowsOfRun(r) == {row \in postLog : row.run = r}

(***************************************************************************)
(* generate_reports(), query by query.                                     *)
(***************************************************************************)
Turns(r, from, to) ==
  /\ pc[r] = "report"
  /\ page[r] = from
  /\ page' = [page EXCEPT ![r] = to]

Reads(r, from, to) ==
  /\ Turns(r, from, to)
  /\ UNCHANGED <<vars, files, savedAt, delivered>>

ReadCandidates(r) ==
  /\ Reads(r, "unread", "candidates")
  /\ report' = [report EXCEPT ![r].rows = cand]

ReadTerminal(r) ==
  /\ Reads(r, "candidates", "terminal")
  /\ report' = [report EXCEPT ![r].terminal = TerminalEids]

ReadHistory(r) ==
  /\ Reads(r, "terminal", "history")
  /\ report' = [report EXCEPT ![r].dated = firstSeen]

ReadResults(r) ==
  /\ Reads(r, "history", "results")
  /\ report' = [report EXCEPT ![r].results = RowsOfRun(r)]

\* The file name has a resolution of one second; wb.save() overwrites.
SaveWorkbook(r) ==
  /\ Turns(r, "results", "saved")
  /\ files' = {f \in files : f.second # clock} \cup {[second |-> clock, by |-> r]}
  /\ savedAt' = [savedAt EXCEPT ![r] = clock]
  /\ UNCHANGED <<vars, report, delivered>>

\* Mutant: a delivery that fails is raised to main().
Deliver_Raises(r) ==
  /\ page[r] = "saved"
  /\ pc[r] = "report"
  /\ GoTo(r, "failed")
  /\ UNCHANGED <<storeVars, failures, intakeVars, benivoVars, batch, terminalSnap,
                 reportVars>>

\* Mutant: the newest file of the folder is sent.
Deliver_Newest(r) ==
  /\ page[r] = "saved"
  /\ Report(r)
  /\ \/ \E f \in files : /\ \A g \in files : g.second <= f.second
                         /\ delivered' = [delivered EXCEPT ![r] = {f.by}]
     \/ UNCHANGED delivered
  /\ UNCHANGED <<page, report, files, savedAt>>

\* deliver_report() reads the file again by its name.  Disabled, without
\* URL, unanswered or refused, it returns all the same and the run is done.
Deliver(r) ==
  /\ page[r] = "saved"
  /\ Report(r)
  /\ \/ \E f \in files : /\ f.second = savedAt[r]
                         /\ delivered' = [delivered EXCEPT ![r] = {f.by}]
     \/ UNCHANGED delivered
  /\ UNCHANGED <<page, report, files, savedAt>>

GeneratesReport(r) ==
  \/ ReadCandidates(r) \/ ReadTerminal(r) \/ ReadHistory(r) \/ ReadResults(r)
  \/ SaveWorkbook(r) \/ Deliver(r)

ReportingInit == Init /\ ReportInit

ReportingNext ==
  \/ \E r \in Runs : \/ GeneratesReport(r)
                     \/ (Works(r) \/ Die(r)) /\ UNCHANGED reportVars
  \/ Environment /\ UNCHANGED reportVars

ReportingSpec == ReportingInit /\ [][ReportingNext]_<<vars, reportVars>>

-----------------------------------------------------------------------------
(***************************************************************************)
(* Properties.                                                             *)
(***************************************************************************)
Saved(r) == page[r] = "saved"

\* Reading, saving and delivering a report, however the delivery ends, is
\* one step of the pipeline that changes nothing but the stage of the run:
\* no status, no log row, no retry.
ImplementsPipeline == Spec

\* get_post_log_rows_for_run(): the Posting Results sheet can never diverge
\* from what was persisted; what a saved report shows of its run stays the
\* whole truth whatever other runs record later.
ResultsAreFinal ==
  \A r \in Runs : Saved(r) => report[r].results = {row \in postLog : row.run = r}

\* The totals of a real run add up: posted, already existing and failed are
\* together the candidates selected, one CREATE_USER row each.
SelectionIsReported ==
  \A r \in Runs :
    Saved(r) /\ PostsForReal(r) =>
      LET created  == {row \in report[r].results : row.action = "CREATE_USER"}
          selected == {e \in Candidates : batch[r][e] # "out"}
      IN /\ {row.eid : row \in created} = selected
         /\ Cardinality(created) = Cardinality(selected)

\* Whoever the report counts as Already Posted is among the terminal
\* candidates it counts, although the two come from different queries and
\* other runs record in between.
PostedLabelIsBacked ==
  \A r \in Runs : Saved(r) =>
    GoLiveStatus(report[r], "Already Posted") \subseteq report[r].terminal

\* _go_live_category(): the same rule as get_ready_candidates(), so that
\* report and posting never disagree: nobody whom this run selected by the
\* query is called backlog that is excluded from automatic posting.
SelectedIsNotBacklog ==
  \A r \in Runs : Saved(r) /\ Selection[r] = "normal" =>
    \A e \in GoLiveStatus(report[r], "Pre-Go-Live Backlog") : batch[r][e] = "out"

\* _generate_and_deliver_report(): a generated report gets at most one
\* delivery.  It is sent twice, and another one lost, only when two runs
\* save within the one second that the file name resolves.
DeliveredOnce ==
  \A q, r \in Runs : delivered[q] \cap delivered[r] # {} => savedAt[q] = savedAt[r]

=============================================================================
