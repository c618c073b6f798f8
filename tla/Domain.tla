------------------------------- MODULE Domain -------------------------------
(***************************************************************************)
(* The vocabulary of app/models/domain.py and the pure rules that every    *)
(* stage of the pipeline shares: the candidate and post_log statuses, what *)
(* a Jobvite row and a benivo.candidates row carry, the scope predicate of *)
(* the synchronization SQL and the classification rule.                    *)
(*                                                                         *)
(* Data is kept as far as a decision reads it.  A workplace is known by    *)
(* whether WORKPLACE_TO_OFFICE_NAME maps it, a mobility_support selection  *)
(* by whether it qualifies, and the names, the email and the other payload *)
(* fields by whether _validate_payload accepts them.                       *)
(***************************************************************************)
EXTENDS Integers, FiniteSets

(***************************************************************************)
(* Statuses.                                                               *)
(***************************************************************************)
Posted == "POSTED"

ReclassifiedStatuses ==
  {"READY_TO_POST", "PENDING_OFFICE_MAPPING", "NEEDS_RECRUITER_REVIEW",
   "EXCLUDED_MOBILITY_SUPPORT", "NO_LONGER_ELIGIBLE"}

CandidateStatuses == ReclassifiedStatuses \cup {"PENDING", "POST_FAILED", Posted}

TerminalPostLogStatuses == {"SUCCESS", "ALREADY_EXISTS"}

PostLogStatuses == TerminalPostLogStatuses \cup {"FAILED"}

\* Mutant: the log status is stored without the mapping.
CandidateStatusOf_Unmapped(logStatus) == logStatus

\* Mutant: any attempt counts as posted.
CandidateStatusOf_Attempted(logStatus) == Posted

CandidateStatusOf(logStatus) ==
  IF logStatus \in TerminalPostLogStatuses THEN Posted ELSE "POST_FAILED"

(***************************************************************************)
(* Rows.  A row that does not exist has workflow "Absent" in Jobvite and   *)
(* status "NO_ROW" in benivo.candidates.  id stands for the position in    *)
(* ORDER BY created_at, id.                                                *)
(***************************************************************************)
Relocations == {"Yes", "No", "Blank"}

SourceRow ==
  [workflow   : {"Mobility", "Other", "Absent"},
   relocation : Relocations,
   support    : BOOLEAN,
   office     : BOOLEAN,
   complete   : BOOLEAN]

AbsentRow ==
  [workflow |-> "Absent", relocation |-> "Blank", support |-> FALSE,
   office |-> FALSE, complete |-> FALSE]

CandidateRow ==
  [status     : CandidateStatuses \cup {"NO_ROW"},
   workflow   : {"Mobility", "Other", "Absent"},
   relocation : Relocations,
   office     : BOOLEAN,
   complete   : BOOLEAN,
   id         : Nat]

NoCandidate ==
  [status |-> "NO_ROW", workflow |-> "Absent", relocation |-> "Blank",
   office |-> FALSE, complete |-> FALSE, id |-> 0]

(***************************************************************************)
(* The predicate that _UPSERT_SQL, _SCOPE_HISTORY_UPSERT_SQL and           *)
(* _MARK_OUT_OF_SCOPE_SQL repeat.                                          *)
(***************************************************************************)
InScope(row) == row.workflow = "Mobility" /\ row.relocation \in {"Yes", "No"}

\* Mutant: classify() without the workflow rule it tries first.
Classify_AnyWorkflow(c, live) ==
  IF c.relocation # "Yes" THEN "NEEDS_RECRUITER_REVIEW"
  ELSE IF ~live.support THEN "EXCLUDED_MOBILITY_SUPPORT"
  ELSE IF ~c.office THEN "PENDING_OFFICE_MAPPING"
  ELSE "READY_TO_POST"

(***************************************************************************)
(* classify(): the cached candidate row c, and the live Jobvite row that   *)
(* MOBILITY_SUPPORT_SUBQUERY reads.  The effective start date always       *)
(* resolves (start_date_service supplies a calculated one), which leaves   *)
(* PENDING_MISSING_START_DATE without a branch to reach it.                *)
(***************************************************************************)
Classify(c, live) ==
  IF c.workflow # "Mobility" THEN "NO_LONGER_ELIGIBLE"
  ELSE IF c.relocation # "Yes" THEN "NEEDS_RECRUITER_REVIEW"
  ELSE IF ~live.support THEN "EXCLUDED_MOBILITY_SUPPORT"
  ELSE IF ~c.office THEN "PENDING_OFFICE_MAPPING"
  ELSE "READY_TO_POST"

=============================================================================
