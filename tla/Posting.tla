------------------------------- MODULE Posting -------------------------------
(***************************************************************************)
(* posting_service.py: selection, the real posting loop of                 *)
(* post_candidates() / post_single_candidate(), and record_post_result().  *)
(*                                                                         *)
(* The loop posts EVERY selected candidate before main._select_and_post()  *)
(* records the first outcome.  batch[r][e] is how far run r has come with  *)
(* candidate e, all of it in the memory of the process:                    *)
(*   out         not selected                                              *)
(*   pending, fetched, fetched_incomplete, live                            *)
(*               being evaluated by ExplicitSelection                      *)
(*   ready       selected, its copied row is Postable                      *)
(*   incomplete  selected, its copied row is not                           *)
(*   unknown     the lookup found no user, create-user is next             *)
(*   created     create-user succeeded, the Case PATCH is next             *)
(*   success, success_unpatched, already_exists, failed                    *)
(*               the result of post_single_candidate()                     *)
(*   recorded    post_log and the candidate status are committed           *)
(***************************************************************************)
EXTENDS Benivo, Sequences

CONSTANTS
  Selection,  \* how each run selects: BENIVO_APPROVED_BATCH_FILE is checked
              \* first, then BENIVO_UAT_APPLICATION_EID, then the query
  Explicit    \* the entries of the batch file, or the one UAT eid

ASSUME PostingAssumption ==
  /\ Selection \in [Runs -> {"normal", "batch", "uat"}]
  /\ Explicit \in [Runs -> Seq(Candidates \cup {"blank"})]
  /\ \A r \in Runs : Selection[r] = "uat" => Len(Explicit[r]) = 1

VARIABLE batch

Outcomes == {"success", "success_unpatched", "already_exists", "failed"}

UnderWay == {"unknown", "created"}

Evaluated == {"pending", "fetched", "fetched_incomplete", "live"}

Progress ==
  {"out", "ready", "incomplete", "recorded"} \cup Evaluated \cup UnderWay \cup Outcomes

NoBatch == [e \in Candidates |-> "out"]

PostingTypeOK == batch \in [Runs -> [Candidates -> Progress]]

PostingInit == batch = [r \in Runs |-> NoBatch]

Advance(r, e, progress) == batch' = [batch EXCEPT ![r][e] = progress]

\* The row as copied now: resolve_office() knows its workplace, and
\* _validate_payload() accepts what build_benivo_payload() makes of it.
Postable(e) == cand[e].office /\ cand[e].complete

\* Where e stands in the list: the batch file's order, or that of the query.
Position(r, e) ==
  IF Selection[r] = "batch"
    THEN CHOOSE i \in 1..Len(Explicit[r]) : Explicit[r][i] = e
    ELSE cand[e].id

\* e is the first of those in one of the states S.
IsFirst(r, e, S) ==
  /\ batch[r][e] \in S
  /\ \A f \in Candidates : batch[r][f] \in S => Position(r, e) <= Position(r, f)

\* The loop turns to e once nobody is under way.
TurnsTo(r, e) ==
  /\ pc[r] = "post"
  /\ \A f \in Candidates : batch[r][f] \notin UnderWay
  /\ IsFirst(r, e, {"ready", "incomplete"})

StageAfterSelection(r) == IF PostsForReal(r) THEN "authorize" ELSE "report"

(***************************************************************************)
(* Selection: get_ready_candidates() returns copies of the rows.  A dry    *)
(* run only previews them.                                                 *)
(***************************************************************************)
Select(r) ==
  /\ pc[r] = "select"
  /\ Selection[r] = "normal"
  /\ batch' = [batch EXCEPT ![r] =
       [e \in Candidates |->
          CASE e \notin ReadyCandidates -> "out"
            [] e \in ReadyCandidates /\ Postable(e) -> "ready"
            [] e \in ReadyCandidates /\ ~Postable(e) -> "incomplete"]]
  /\ GoTo(r, StageAfterSelection(r))
  /\ UNCHANGED <<storeVars, failures, benivoVars>>

(***************************************************************************)
(* One token and one refdata per run; either failing raises.               *)
(***************************************************************************)
Authorize(r) ==
  /\ pc[r] = "authorize"
  /\ \/ GoTo(r, "post") /\ UNCHANGED failures
     \/ GoTo(r, "failed") /\ Suffer("auth")
  /\ UNCHANGED <<storeVars, benivoVars, batch>>

(***************************************************************************)
(* post_single_candidate(), request by request.                            *)
(***************************************************************************)

\* office is None, or the payload is invalid: no request is made.
RejectLocally(r, e) ==
  /\ TurnsTo(r, e)
  /\ \/ batch[r][e] = "incomplete" /\ UNCHANGED failures
     \/ Suffer("refdata")
  /\ Advance(r, e, "failed")
  /\ UNCHANGED <<storeVars, pc, benivoVars>>

\* An error status of the lookup is taken for "not found".
LookUp(r, e) ==
  /\ TurnsTo(r, e)
  /\ batch[r][e] = "ready"
  /\ \/ Advance(r, e, IF FindsUser(EmailOf[e]) THEN "already_exists" ELSE "unknown")
        /\ UNCHANGED failures
     \/ Advance(r, e, "unknown") /\ Suffer("lookup")
  /\ UNCHANGED <<storeVars, pc, benivoVars>>

CreateUser(r, e) ==
  /\ pc[r] = "post"
  /\ batch[r][e] = "unknown"
  /\ \/ /\ ~Refuses(EmailOf[e])
        /\ OpenAccount(EmailOf[e])
        /\ \/ Advance(r, e, "created") /\ UNCHANGED failures
           \/ Advance(r, e, "failed") /\ Suffer("lost_reply")
     \/ /\ Refuses(EmailOf[e])
        /\ Advance(r, e, "failed")
        /\ UNCHANGED <<accounts, failures>>
     \/ /\ Suffer("create")
        /\ Advance(r, e, "failed")
        /\ UNCHANGED accounts
  /\ UNCHANGED <<storeVars, pc, patched>>

UpdateCase(r, e) ==
  /\ pc[r] = "post"
  /\ batch[r][e] = "created"
  /\ \/ Advance(r, e, "success") /\ PatchCase(EmailOf[e]) /\ UNCHANGED failures
     \/ Advance(r, e, "success_unpatched") /\ Suffer("patch") /\ UNCHANGED patched
  /\ UNCHANGED <<storeVars, pc, accounts>>

\* A timeout or a connection error is caught by nobody before main(): the
\* run ends, whether or not Benivo carried the request out.
RequestRaises(r) ==
  /\ Suffer("timeout")
  /\ \/ pc[r] = "authorize" /\ UNCHANGED benivoVars
     \/ \E e \in Candidates :
          \/ TurnsTo(r, e) /\ batch[r][e] = "ready" /\ UNCHANGED benivoVars
          \/ /\ pc[r] = "post" /\ batch[r][e] = "unknown"
             /\ \/ UNCHANGED accounts
                \/ ~Refuses(EmailOf[e]) /\ OpenAccount(EmailOf[e])
             /\ UNCHANGED patched
          \/ /\ pc[r] = "post" /\ batch[r][e] = "created"
             /\ UNCHANGED patched \/ PatchCase(EmailOf[e])
             /\ UNCHANGED accounts
  /\ GoTo(r, "failed")
  /\ UNCHANGED <<storeVars, batch>>

\* post_candidates() returns its results.
EndPosting(r) ==
  /\ pc[r] = "post"
  /\ \A e \in Candidates : batch[r][e] \in {"out"} \cup Outcomes
  /\ GoTo(r, "record")
  /\ UNCHANGED <<storeVars, failures, benivoVars, batch>>

(***************************************************************************)
(* record_post_result(): the CREATE_USER row, the UPDATE_CASE row if the   *)
(* case was attempted, and the status, in one transaction.                 *)
(***************************************************************************)
\* Mutant: an answered request is a success, whatever the answer says.
LogStatusOf_Answered(outcome) ==
  IF outcome = "already_exists" THEN "ALREADY_EXISTS" ELSE "SUCCESS"

LogStatusOf(outcome) ==
  CASE outcome \in {"success", "success_unpatched"} -> "SUCCESS"
    [] outcome = "already_exists" -> "ALREADY_EXISTS"
    [] outcome = "failed" -> "FAILED"

CreateRow(r, e, outcome) ==
  [eid |-> e, action |-> "CREATE_USER", status |-> LogStatusOf(outcome), run |-> r]

\* Mutant: a case row for whoever has an account, also without a PATCH.
CaseRows_AnyAccount(r, e, outcome) ==
  IF outcome # "failed"
    THEN {[eid |-> e, action |-> "UPDATE_CASE", status |-> "FAILED", run |-> r]}
    ELSE {}

CaseRows(r, e, outcome) ==
  IF outcome \in {"success", "success_unpatched"}
    THEN {[eid |-> e, action |-> "UPDATE_CASE", run |-> r,
           status |-> IF outcome = "success" THEN "SUCCESS" ELSE "FAILED"]}
    ELSE {}

\* Mutant: migrations/0002 and 0006 were never applied.
ViolatesIndex_None(rows) == FALSE

\* Mutant: the index is not partial, any earlier row of the action clashes.
ViolatesIndex_AnyStatus(rows) ==
  \E row \in rows, old \in postLog : old.eid = row.eid /\ old.action = row.action

\* The partial unique index refuses a second terminal row of an action.
ViolatesIndex(rows) ==
  \E row \in rows :
    row.status \in TerminalPostLogStatuses /\ HasTerminalRow(row.eid, row.action)

RecordResult(r, e) ==
  LET rows == {CreateRow(r, e, batch[r][e])} \cup CaseRows(r, e, batch[r][e])
  IN /\ pc[r] = "record"
     /\ IsFirst(r, e, Outcomes)
     /\ \/ /\ ~ViolatesIndex(rows)
           /\ postLog' = postLog \cup rows
           /\ cand' = [cand EXCEPT ![e].status =
                         CandidateStatusOf(LogStatusOf(batch[r][e]))]
           /\ Advance(r, e, "recorded")
           /\ UNCHANGED pc
        \/ /\ ViolatesIndex(rows)
           /\ GoTo(r, "failed")
           /\ UNCHANGED <<postLog, cand, batch>>
     /\ UNCHANGED <<source, firstSeen, clock, edits, failures, benivoVars>>

\* Mutant: the report may begin before every result is recorded.
EndRecording_Early(r) ==
  /\ pc[r] = "record"
  /\ GoTo(r, "report")
  /\ UNCHANGED <<storeVars, failures, benivoVars, batch>>

EndRecording(r) ==
  /\ pc[r] = "record"
  /\ \A e \in Candidates : batch[r][e] \notin Outcomes
  /\ GoTo(r, "report")
  /\ UNCHANGED <<storeVars, failures, benivoVars, batch>>

PostingStep(r) ==
  \/ Select(r) \/ Authorize(r)
  \/ \E e \in Candidates :
       \/ RejectLocally(r, e) \/ LookUp(r, e) \/ CreateUser(r, e)
       \/ UpdateCase(r, e) \/ RecordResult(r, e)
  \/ RequestRaises(r)
  \/ EndPosting(r) \/ EndRecording(r)

=============================================================================
