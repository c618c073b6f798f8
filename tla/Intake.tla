------------------------------- MODULE Intake -------------------------------
(***************************************************************************)
(* synchronization_service.sync_candidates() and                           *)
(* classification_service.classify_candidates(), the two transactions that *)
(* bring benivo.candidates up to date.                                     *)
(*                                                                         *)
(* At Read Committed each statement has a snapshot of its own, so the ETL  *)
(* and other runs commit between the statements of one transaction.  Row   *)
(* locks are held to the commit, therefore what a statement writes is      *)
(* applied here at the commit, to the row as it is then; what it read of   *)
(* other tables is kept from the moment it read it.                        *)
(***************************************************************************)
EXTENDS Invocations, Functions

VARIABLES
  upsertSnap,  \* the source rows that _UPSERT_SQL read, and NOW()
  datedSnap,   \* the eids that _SCOPE_HISTORY_UPSERT_SQL found in scope
  verdicts     \* what classify() made of each row the SELECT returned

intakeVars == <<upsertSnap, datedSnap, verdicts>>

NothingRead == [rows |-> [e \in Candidates |-> AbsentRow], now |-> 0]

Unread == [e \in Candidates |-> "NO_ROW"]

IntakeTypeOK ==
  /\ upsertSnap \in [Runs -> [rows : [Candidates -> SourceRow], now : Nat]]
  /\ datedSnap \in [Runs -> SUBSET Candidates]
  /\ verdicts \in [Runs -> [Candidates -> ReclassifiedStatuses \cup {"NO_ROW"}]]

IntakeInit ==
  /\ upsertSnap = [r \in Runs |-> NothingRead]
  /\ datedSnap = [r \in Runs |-> {}]
  /\ verdicts = [r \in Runs |-> Unread]

ForgetIntake(r) ==
  /\ upsertSnap' = [upsertSnap EXCEPT ![r] = NothingRead]
  /\ datedSnap' = [datedSnap EXCEPT ![r] = {}]
  /\ verdicts' = [verdicts EXCEPT ![r] = Unread]

(***************************************************************************)
(* Synchronization.                                                        *)
(***************************************************************************)

\* Mutant: workflow_state is missing from the DO UPDATE list.
Upserted_KeepsWorkflow(c, row, id) ==
  [status     |-> IF c.status = "NO_ROW" THEN "PENDING" ELSE c.status,
   workflow   |-> IF c.status = "NO_ROW" THEN row.workflow ELSE c.workflow,
   relocation |-> row.relocation,
   office     |-> row.office,
   complete   |-> row.complete,
   id         |-> IF c.status = "NO_ROW" THEN id ELSE c.id]

\* INSERT ... ON CONFLICT DO UPDATE: source-owned fields only; a new row is
\* PENDING and takes the next id.
Upserted(c, row, id) ==
  [status     |-> IF c.status = "NO_ROW" THEN "PENDING" ELSE c.status,
   workflow   |-> row.workflow,
   relocation |-> row.relocation,
   office     |-> row.office,
   complete   |-> row.complete,
   id         |-> IF c.status = "NO_ROW" THEN id ELSE c.id]

\* Mutant: POSTED rows are withdrawn like the others.
Marked_EvenPosted(c, live) ==
  IF c.status # "NO_ROW" /\ ~InScope(live)
    THEN [c EXCEPT !.status = "NO_LONGER_ELIGIBLE",
                   !.workflow = IF live.workflow = "Absent" THEN c.workflow
                                                            ELSE live.workflow]
    ELSE c

\* _MARK_OUT_OF_SCOPE_SQL: the workflow is refreshed (COALESCE keeps the
\* last one when the source row is gone), the status withdrawn, every other
\* cached field left as it was.
Marked(c, live) ==
  IF c.status \notin {"NO_ROW", Posted} /\ ~InScope(live)
    THEN [c EXCEPT !.status = "NO_LONGER_ELIGIBLE",
                   !.workflow = IF live.workflow = "Absent" THEN c.workflow
                                                            ELSE live.workflow]
    ELSE c

\* Mutant: ON CONFLICT DO UPDATE instead of DO NOTHING.
FirstSeenAfter_Refreshed(e, dated, now) ==
  IF e \in dated THEN now ELSE firstSeen[e]

\* _SCOPE_HISTORY_UPSERT_SQL: ON CONFLICT DO NOTHING.
FirstSeenAfter(e, dated, now) ==
  IF e \in dated /\ firstSeen[e] = NeverSeen THEN now ELSE firstSeen[e]

SyncUpsert(r) ==
  /\ pc[r] = "sync"
  /\ upsertSnap' = [upsertSnap EXCEPT ![r] = [rows |-> source, now |-> clock]]
  /\ GoTo(r, "sync_history")
  /\ UNCHANGED <<storeVars, failures, datedSnap, verdicts>>

SyncHistory(r) ==
  /\ pc[r] = "sync_history"
  /\ datedSnap' = [datedSnap EXCEPT ![r] = {e \in Candidates : InScope(source[e])}]
  /\ GoTo(r, "sync_mark")
  /\ UNCHANGED <<storeVars, failures, upsertSnap, verdicts>>

\* The third statement and the commit.
SyncCommit(r) ==
  LET rows     == upsertSnap[r].rows
      upserted == {e \in Candidates : InScope(rows[e])}
      new      == {e \in upserted : ~Exists(e)}
      last     == Cardinality({e \in Candidates : Exists(e)})
  IN /\ pc[r] = "sync_mark"
     /\ \E id \in Bijection(new, (last + 1)..(last + Cardinality(new))) :
          cand' = [e \in Candidates |->
                     LET c == IF e \in upserted
                                THEN Upserted(cand[e], rows[e],
                                              IF e \in new THEN id[e] ELSE cand[e].id)
                                ELSE cand[e]
                     IN Marked(c, source[e])]
     /\ firstSeen' = [e \in Candidates |->
                        FirstSeenAfter(e, datedSnap[r], upsertSnap[r].now)]
     /\ GoTo(r, StageAfterSync(r))
     /\ ForgetIntake(r)
     /\ UNCHANGED <<source, postLog, clock, edits, failures>>

(***************************************************************************)
(* Classification.                                                         *)
(***************************************************************************)

\* Mutant: POSTED rows are classified like the others.
Classifiable_EvenPosted(e) == Exists(e)

\* The WHERE clause of _fetch_classifiable_candidates().
Classifiable(e) == Exists(e) /\ cand[e].status # Posted

ClassifyRead(r) ==
  /\ pc[r] = "classify"
  /\ verdicts' = [verdicts EXCEPT ![r] =
       [e \in Candidates |->
          IF Classifiable(e) THEN Classify(cand[e], source[e]) ELSE "NO_ROW"]]
  /\ GoTo(r, "classify_write")
  /\ UNCHANGED <<storeVars, failures, upsertSnap, datedSnap>>

\* UPDATE ... WHERE id = %s AND benivo_status IS DISTINCT FROM %s, once for
\* every row read, and the commit.
ClassifyCommit(r) ==
  /\ pc[r] = "classify_write"
  /\ cand' = [e \in Candidates |->
                IF verdicts[r][e] = "NO_ROW" THEN cand[e]
                ELSE [cand[e] EXCEPT !.status = verdicts[r][e]]]
  /\ GoTo(r, StageAfterClassify(r))
  /\ ForgetIntake(r)
  /\ UNCHANGED <<source, firstSeen, postLog, clock, edits, failures>>

IntakeStep(r) ==
  \/ SyncUpsert(r) \/ SyncHistory(r) \/ SyncCommit(r)
  \/ ClassifyRead(r) \/ ClassifyCommit(r)

=============================================================================
