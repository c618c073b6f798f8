------------------------------- MODULE Handover -------------------------------
(***************************************************************************)
(* What Benivo is handed: from the Jobvite row, through the cached         *)
(* candidate, the selection and the reference data of a posting run, to    *)
(* the payloads of its attempts, and what the operator was shown before:   *)
(* the Payload Preview sheet, a dry run, the validation script and the UAT *)
(* gate.  Each of them reads the tables, the calendar and the reference    *)
(* data again, and all of these change between two readings.               *)
(*                                                                         *)
(* One posting run at a time, synchronization and classification in one    *)
(* step each; their interleavings, crashes and the bookkeeping of the      *)
(* results are Pipeline's.  LIMIT and go-live are Pipeline's too: here the *)
(* query may return any part of the rows that match the rest of it.        *)
(***************************************************************************)
EXTENDS Payload

CONSTANTS
  Candidates,   \* application_eids
  Rows,         \* the Jobvite rows the ETL may write
  RefData,      \* the office lists Benivo may answer, name |-> id
  StartMonth,   \* the month in which the checks begin
  MaxChanges    \* bound: changes of rows, of the office list and of the month

\* How a run selects: the ready query, an approved batch, a UAT candidate.
Routes == {"query", "batch", "uat"}
Answers == {"found", "created", "refused"}

RowFields ==
  {"workflow", "relocation", "support", "name", "email", "workplace", "dealer",
   "vip", "start", "home", "current", "phone", "gender", "title"}

MonthAfter(m) ==
  IF m.month = 12 THEN [year |-> m.year + 1, month |-> 1]
  ELSE [year |-> m.year, month |-> m.month + 1]

Months == [year : Nat \ {0}, month : 1..12]

ASSUME HandoverAssumption ==
  /\ \A row \in Rows : row = [field \in RowFields |-> row[field]]
  /\ StartMonth \in Months
  /\ MaxChanges \in Nat

VARIABLES
  jobvite,   \* the source row of each application
  cand,      \* benivo.candidates: the status, and the row of the last sync
  posted,    \* application_eids with a terminal CREATE_USER row
  offices,   \* GET RefData, as Benivo would answer it now
  today,     \* the month of datetime.now()
  changes,   \* outside changes so far
  evidence,  \* what the operator was shown last, while it is up to date
  run        \* the posting run under way

inputs == <<jobvite, cand, posted, offices, today>>
vars == <<jobvite, cand, posted, offices, today, changes, evidence, run>>

(***************************************************************************)
(* What was shown last: the workbook's rows, or the previews of a dry run  *)
(* by some route, or the validation script's exit code 0.                  *)
(***************************************************************************)
NoEvidence == [workbook |-> <<>>, route |-> "query", dryRun |-> <<>>, green |-> FALSE]

Idle ==
  [phase |-> "idle", route |-> "query", taken |-> <<>>, refdata |-> <<>>,
   now |-> StartMonth, waiting |-> {}, results |-> {}]

EmptyRow ==
  [workflow |-> "Absent", relocation |-> "Blank", support |-> {}, name |-> Blank,
   email |-> Blank, workplace |-> Blank, dealer |-> Blank, vip |-> FALSE,
   start |-> NoDate, home |-> Blank, current |-> Blank, phone |-> Blank,
   gender |-> Blank, title |-> Blank]

Init ==
  /\ jobvite \in [Candidates -> Rows]
  /\ cand = [e \in Candidates |-> [status |-> "NO_ROW", row |-> EmptyRow]]
  /\ posted = {}
  /\ offices \in RefData
  /\ today = StartMonth
  /\ changes = 0
  /\ evidence = NoEvidence
  /\ run = Idle

Present(e) == cand[e].status # "NO_ROW"

(***************************************************************************)
(* What was shown is out of date once anything it was read from changes,   *)
(* unless a run has by then read the last of its inputs, the calendar and  *)
(* the reference data: what that run sends can no longer change.           *)
(***************************************************************************)
AgeEvidence ==
  evidence' = IF inputs' = inputs \/ run.phase = "posting" THEN evidence ELSE NoEvidence

(***************************************************************************)
(* Outside: the ETL, the calendar, Benivo's office list.                   *)
(***************************************************************************)
Change == changes < MaxChanges /\ changes' = changes + 1

Rewrite(e, row) ==
  /\ Change
  /\ jobvite' = [jobvite EXCEPT ![e] = row]
  /\ UNCHANGED <<cand, posted, offices, today, run>>
  /\ AgeEvidence

MonthEnds ==
  /\ Change
  /\ today' = MonthAfter(today)
  /\ UNCHANGED <<jobvite, cand, posted, offices, run>>
  /\ AgeEvidence

OfficesChange(list) ==
  /\ Change
  /\ offices' = list
  /\ UNCHANGED <<jobvite, cand, posted, today, run>>
  /\ AgeEvidence

(***************************************************************************)
(* Synchronization: rows in scope are copied, the email lowered and        *)
(* trimmed; a row that left the scope keeps its fields and gets the live   *)
(* workflow state, unless the source row is gone, when it keeps that too.  *)
(* Classification: every row that is not POSTED.                           *)
(***************************************************************************)
Copied(row) == [row EXCEPT !.email = Plain(Normal(row.email))]

Synced(e) ==
  IF InScope(jobvite[e]) THEN
    [status |-> IF Present(e) THEN cand[e].status ELSE "PENDING", row |-> Copied(jobvite[e])]
  ELSE IF Present(e) /\ cand[e].status # Posted THEN
    [status |-> "NO_LONGER_ELIGIBLE",
     row    |-> IF jobvite[e].workflow = "Absent" THEN cand[e].row
                ELSE [cand[e].row EXCEPT !.workflow = jobvite[e].workflow]]
  ELSE cand[e]

Sync ==
  /\ cand' = [e \in Candidates |-> Synced(e)]
  /\ UNCHANGED <<jobvite, posted, offices, today, changes, run>>
  /\ AgeEvidence

Verdict(e) == ClassifyFields(cand[e].row, jobvite[e].support, today)

ClassifyAll ==
  /\ cand' = [e \in Candidates |->
                IF Present(e) /\ cand[e].status # Posted
                THEN [cand[e] EXCEPT !.status = Verdict(e)] ELSE cand[e]]
  /\ UNCHANGED <<jobvite, posted, offices, today, changes, run>>
  /\ AgeEvidence

(***************************************************************************)
(* A candidate as a query returns it: the cached row with the live         *)
(* dealer_shuffler.  FULL_REPORT_FIELDS, which the workbook and the two    *)
(* explicit routes read, have no gender; READY_CANDIDATE_FIELDS have it.   *)
(***************************************************************************)
ReadyFields(e) == [cand[e].row EXCEPT !.dealer = jobvite[e].dealer]

\* Mutant: one more column is forgotten.
FullReportFields_NoPhone(e) == [ReadyFields(e) EXCEPT !.gender = Blank, !.phone = Blank]

FullReportFields(e) == [ReadyFields(e) EXCEPT !.gender = Blank]

Fetched(route, e) == IF route = "query" THEN ReadyFields(e) ELSE FullReportFields(e)

\* The conditions common to the ready query and to the explicit routes.
Selectable(e) ==
  /\ cand[e].status = "READY_TO_POST"
  /\ cand[e].row.relocation = "Yes"
  /\ jobvite[e].workflow = "Mobility"
  /\ e \notin posted

(***************************************************************************)
(* The payload of a fetched candidate, for an office list and a month.     *)
(***************************************************************************)
OfficeFor(c, refdata) == ResolveOffice(c.workplace, refdata)

PayloadFor(c, refdata, now) ==
  BuildBenivoPayload(c, OfficeFor(c, refdata), EffectiveStartDate(c.start, now))

Acceptable(c, refdata, now) ==
  OfficeFor(c, refdata).found /\ ValidatePayload(PayloadFor(c, refdata, now))

UatEligible(e) ==
  /\ Selectable(e)
  /\ cand[e].row.workflow = "Mobility"
  /\ Acceptable(FullReportFields(e), offices, today)

MaySelect(route) ==
  IF route = "uat" THEN {{e} : e \in {f \in Candidates : UatEligible(f)}}
  ELSE SUBSET {e \in Candidates : Selectable(e)}

(***************************************************************************)
(* What the operator is shown.  The reference data of a workbook or a dry  *)
(* run may be left out (BENIVO_ALLOW_REFERENCE_DATA_CALLS, a failed call). *)
(* What is shown during a run is out of date as soon as the run records,   *)
(* so only what is shown between runs is kept.                             *)
(***************************************************************************)
RefDataIfAllowed == {offices, <<>>}

\* The columns of the sheet: create_* but for the phone, which it shows as it
\* is in the tables, and case_*.
PreviewRow(c, refdata, now) ==
  LET payload == PayloadFor(c, refdata, now)
      case == BuildCaseUpdatePayload(c)
  IN [payload |-> [payload EXCEPT !.phoneNumber = Blank], phone |-> c.phone,
      case |-> case, ready |-> PayloadReady(payload, case)]

PayloadPreview(refdata) ==
  [e \in {f \in Candidates : /\ cand[f].status = "READY_TO_POST"
                             /\ cand[f].row.workflow = "Mobility"
                             /\ f \notin posted}
     |-> PreviewRow(FullReportFields(e), refdata, today)]

Report ==
  /\ run.phase = "idle"
  /\ \E refdata \in RefDataIfAllowed :
       evidence' = [NoEvidence EXCEPT !.workbook = PayloadPreview(refdata)]
  /\ UNCHANGED <<jobvite, cand, posted, offices, today, changes, run>>

\* A preview of a dry run: what would be sent, with the email masked.
DryRunPreview(c, refdata, now) ==
  [payload |-> SanitizePayload(PayloadFor(c, refdata, now)), case |-> BuildCaseUpdatePayload(c)]

DryRun(route) ==
  /\ run.phase = "idle"
  /\ \E chosen \in MaySelect(route), refdata \in RefDataIfAllowed :
       evidence' = [NoEvidence EXCEPT !.route = route,
                      !.dryRun = [e \in chosen |-> DryRunPreview(Fetched(route, e), refdata, today)]]
  /\ UNCHANGED <<jobvite, cand, posted, offices, today, changes, run>>

\* Neither an unresolved office nor a payload that is not ready.
AllReady(refdata, now) ==
  \A e \in Candidates : Selectable(e) => Acceptable(ReadyFields(e), refdata, now)

ValidateReadyCandidates ==
  /\ run.phase = "idle"
  /\ evidence' = [NoEvidence EXCEPT !.green = AllReady(offices, today)]
  /\ UNCHANGED <<jobvite, cand, posted, offices, today, changes, run>>

(***************************************************************************)
(* A posting run: select the candidates, then take one timestamp and one   *)
(* office list for all of them, attempt each, record the results.          *)
(***************************************************************************)
\* The script reads what the query reads; a UAT candidate has passed its own gate.
Vouched(route) == route = "uat" \/ (route = "query" /\ evidence.green)

Select(route) ==
  /\ run.phase = "idle"
  /\ \E chosen \in MaySelect(route) :
       /\ chosen # {}
       /\ run' = [Idle EXCEPT !.phase = "selected", !.route = route, !.waiting = chosen,
                              !.taken = [e \in chosen |-> Fetched(route, e)]]
  /\ evidence' = [evidence EXCEPT !.green = Vouched(route)]
  /\ UNCHANGED <<jobvite, cand, posted, offices, today, changes>>

\* The timestamp is taken just before the office list; a month that ends
\* between the two is one that ends before both, to whatever was shown.
Fetch ==
  /\ run.phase = "selected"
  /\ run' = [run EXCEPT !.phase = "posting", !.refdata = offices, !.now = today]
  /\ UNCHANGED <<jobvite, cand, posted, offices, today, changes, evidence>>

\* post_single_candidate(): answer is what Benivo says if it is asked.
Outcome(e, c, now, answer) ==
  LET payload == PayloadFor(c, run.refdata, now)
  IN IF ~OfficeFor(c, run.refdata).found
     THEN [eid |-> e, verdict |-> "no_office", request |-> {}, casePatch |-> {}]
     ELSE IF ~ValidatePayload(payload)
     THEN [eid |-> e, verdict |-> "invalid", request |-> {payload}, casePatch |-> {}]
     ELSE [eid |-> e, verdict |-> answer, request |-> {payload},
           casePatch |-> IF answer = "created" THEN {BuildCaseUpdatePayload(c)} ELSE {}]

\* Mutant: datetime.now() at every candidate.
Attempt_OwnTimestamp(e, answer) == Outcome(e, run.taken[e], today, answer)

\* Mutant: the attempt reads the candidate again, with the fields of the report.
Attempt_Refetched(e, answer) == Outcome(e, [run.taken[e] EXCEPT !.gender = Blank], run.now, answer)

Attempt(e, answer) == Outcome(e, run.taken[e], run.now, answer)

Post(e) ==
  /\ run.phase = "posting"
  /\ e \in run.waiting
  /\ \E answer \in Answers :
       run' = [run EXCEPT !.waiting = @ \ {e}, !.results = @ \cup {Attempt(e, answer)}]
  /\ UNCHANGED <<jobvite, cand, posted, offices, today, changes, evidence>>

Attempted == {result.eid : result \in run.results}
Succeeded == {result.eid : result \in {r \in run.results : r.verdict \in {"found", "created"}}}

Record ==
  /\ run.phase = "posting"
  /\ run.waiting = {}
  /\ cand' = [e \in Candidates |->
                IF e \in Succeeded THEN [cand[e] EXCEPT !.status = Posted]
                ELSE IF e \in Attempted THEN [cand[e] EXCEPT !.status = "POST_FAILED"]
                ELSE cand[e]]
  /\ posted' = posted \cup Succeeded
  /\ run' = Idle
  /\ evidence' = NoEvidence
  /\ UNCHANGED <<jobvite, offices, today, changes>>

Next ==
  \/ \E e \in Candidates, row \in Rows : Rewrite(e, row)
  \/ \E list \in RefData : OfficesChange(list)
  \/ MonthEnds
  \/ Sync
  \/ ClassifyAll
  \/ Report
  \/ ValidateReadyCandidates
  \/ Fetch
  \/ Record
  \/ \E route \in Routes : DryRun(route) \/ Select(route)
  \/ \E e \in Candidates : Post(e)

Spec == Init /\ [][Next]_vars

(***************************************************************************)
(* Properties.                                                             *)
(***************************************************************************)

\* The Payload Preview sheet, while it is up to date, shows every field that
\* the next run sends for the candidate, the phone as the tables have it --
\* except the gender, which the ready query reads and the report does not.  The
\* workbook, the selection and the attempt each read the candidate, the calendar
\* and the office list again.
ReviewedIsSent ==
  \A result \in run.results : \A payload \in result.request :
    LET workbook == evidence.workbook
    IN (result.eid \in DOMAIN workbook /\ Given(workbook[result.eid].payload.officeId))
       => /\ workbook[result.eid].payload = [payload EXCEPT !.gender = Blank, !.phoneNumber = Blank]
          /\ PhoneNumber(workbook[result.eid].phone) = payload.phoneNumber
          /\ result.casePatch \subseteq {workbook[result.eid].case}

\* reporting_service.py:217-220 says of the columns create_* and case_* that the
\* sheet "always reflects exactly what would actually be sent".
PreviewIsWhatIsSent ==
  \A result \in run.results : \A payload \in result.request :
    LET workbook == evidence.workbook
    IN (result.eid \in DOMAIN workbook /\ Given(workbook[result.eid].payload.officeId))
       => workbook[result.eid].payload = [payload EXCEPT !.phoneNumber = Blank]

\* A dry run with reference data shows what a real run by the same route sends
\* as long as nothing has changed since: every field of the create-user request
\* and of the Case request as it is, except the email, which it masks.
DryRunIsSent ==
  \A result \in run.results : \A payload \in result.request :
    LET shown == evidence.dryRun
    IN (evidence.route = run.route /\ result.eid \in DOMAIN shown /\ Given(shown[result.eid].payload.officeId))
       => /\ shown[result.eid].payload = SanitizePayload(payload)
          /\ result.casePatch \subseteq {shown[result.eid].case}

\* What the workbook calls payload_ready, what the validation script passed and
\* what the UAT gate let through is not turned down by the posting itself.
ReadyIsNotRejected ==
  \A result \in run.results :
    \/ evidence.green
    \/ result.eid \in DOMAIN evidence.workbook /\ evidence.workbook[result.eid].ready
    => result.verdict \in Answers

\* All calculated start dates of one run are the same day, the first of the
\* third month after the one the run took its timestamp in, however long the
\* run goes on and whichever year the month falls in.
DatesAreOfOneRun ==
  LET third == MonthAfter(MonthAfter(MonthAfter(run.now)))
  IN \A result \in run.results : \A payload \in result.request :
       payload.startDate =
         IF run.taken[result.eid].start = NoDate
         THEN [year |-> third.year, month |-> third.month, day |-> 1]
         ELSE run.taken[result.eid].start

(***************************************************************************)
(* What Domain, and with it Pipeline, keeps of these rows.                 *)
(***************************************************************************)
OfRow(row) ==
  [workflow |-> row.workflow, relocation |-> row.relocation,
   support |-> MobilitySupportQualifies(row.support),
   office |-> IsMapped(row.workplace),
   complete |-> Given(row.name) /\ Given(row.email)]

\* classify() on the fields decides what Domain's rule decides on its view of
\* the cached and the live row, and Domain's has no missing start date: one is
\* calculated.  src/README.md:111 and :121 say that a missing one makes the row
\* PENDING_MISSING_START_DATE; no row ever gets that status.
ClassifiesAsDomain ==
  \A e \in Candidates :
    Present(e) => Verdict(e) = Classify(OfRow(cand[e].row), OfRow(jobvite[e]))

\* An attempt is turned down without asking Benivo exactly when Domain's view
\* says the candidate is incomplete or unmapped, or this run's office list has
\* no id under the office of its workplace: never for want of a population or
\* of a start date.  src/README.md:157-164 says that a VIP is turned down by the
\* payload validation on purpose; a VIP is sent as "Tier 1".
RejectedAsDomain ==
  \A result \in run.results :
    LET c == run.taken[result.eid]
    IN result.verdict \in Answers <=>
         /\ OfRow(c).complete
         /\ OfRow(c).office
         /\ OfficeName(c.workplace) \in DOMAIN run.refdata
         /\ Given(run.refdata[OfficeName(c.workplace)])

=============================================================================
