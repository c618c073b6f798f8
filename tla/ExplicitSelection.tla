-------------------------- MODULE ExplicitSelection --------------------------
(***************************************************************************)
(* The two overrides of select_postable_candidates(): the approved batch   *)
(* file of approved_batch_service.py and the single UAT candidate of       *)
(* validate_uat_candidate().                                               *)
(*                                                                         *)
(* Unlike the query of the normal path neither is one statement: each      *)
(* check is a connection and a snapshot of its own, and other runs and the *)
(* ETL commit in between.  Neither has a LIMIT or a go-live gate, and      *)
(* neither falls back to another candidate.                                *)
(***************************************************************************)
EXTENDS Posting

VARIABLE terminalSnap  \* get_terminal_post_log_application_eids() of the run

ExplicitTypeOK == terminalSnap \in [Runs -> SUBSET Candidates]

ExplicitInit == terminalSnap = [r \in Runs |-> {}]

TerminalEids == {e \in Candidates : HasTerminalRow(e, "CREATE_USER")}

\* Mutant: a duplicate entry is tolerated.
LoadsBatch_Deduplicates(file) ==
  /\ Len(file) > 0
  /\ \A i \in 1..Len(file) : file[i] # "blank"

\* load_approved_batch() fails closed on an unreadable or empty file, on an
\* entry that is blank or no string, and on a duplicate.
LoadsBatch(file) ==
  /\ Len(file) > 0
  /\ \A i \in 1..Len(file) : file[i] # "blank"
  /\ \A i, j \in 1..Len(file) : file[i] = file[j] => i = j

Named(r) == {e \in Candidates : \E i \in 1..Len(Explicit[r]) : Explicit[r][i] = e}

\* evaluate_approved_batch(): one bulk read of the terminal eids first.
OpenBatch(r) ==
  /\ pc[r] = "select"
  /\ Selection[r] = "batch"
  /\ IF LoadsBatch(Explicit[r])
       THEN /\ terminalSnap' = [terminalSnap EXCEPT ![r] = TerminalEids]
            /\ batch' = [batch EXCEPT ![r] =
                 [e \in Candidates |-> IF e \in Named(r) THEN "pending" ELSE "out"]]
            /\ GoTo(r, "evaluate")
       ELSE /\ GoTo(r, StageAfterSelection(r))
            /\ UNCHANGED <<terminalSnap, batch>>
  /\ UNCHANGED <<storeVars, failures, benivoVars>>

\* _select_explicit_uat_candidate(): token and refdata first; without them
\* the office does not resolve and the candidate is not eligible.
OpenUat(r) ==
  /\ pc[r] = "select"
  /\ Selection[r] = "uat"
  /\ \/ /\ batch' = [batch EXCEPT ![r] =
             [e \in Candidates |-> IF e \in Named(r) THEN "pending" ELSE "out"]]
        /\ GoTo(r, "evaluate")
        /\ UNCHANGED failures
     \/ /\ Suffer("auth") \/ Suffer("timeout") \/ Suffer("refdata")
        /\ GoTo(r, StageAfterSelection(r))
        /\ UNCHANGED batch
  /\ UNCHANGED <<storeVars, benivoVars, terminalSnap>>

EvaluatesNext(r, e) ==
  /\ pc[r] = "evaluate"
  /\ \A f \in Candidates : batch[r][f] \notin Evaluated \ {"pending"}
  /\ IsFirst(r, e, {"pending"})

\* Mutant: a named candidate is trusted to be unposted.
FetchedRowPasses_Trusted(r, e) == cand[e].relocation = "Yes"

\* The checks on the row that get_candidate_by_application_eid() returns.
FetchedRowPasses(r, e) ==
  /\ cand[e].status = "READY_TO_POST"
  /\ cand[e].relocation = "Yes"
  /\ Selection[r] = "batch" => e \notin terminalSnap[r]
  /\ Selection[r] = "uat" => cand[e].workflow = "Mobility" /\ Postable(e)

Fetch(r, e) ==
  /\ EvaluatesNext(r, e)
  /\ \/ ~FetchedRowPasses(r, e) /\ Advance(r, e, "out")
     \/ /\ FetchedRowPasses(r, e)
        /\ Advance(r, e, IF Postable(e) THEN "fetched" ELSE "fetched_incomplete")
  /\ UNCHANGED <<storeVars, pc, failures, benivoVars, terminalSnap>>

\* get_source_workflow_state(), the live check both overrides share.
CheckLive(r, e) ==
  /\ pc[r] = "evaluate"
  /\ batch[r][e] \in {"fetched", "fetched_incomplete"}
  /\ \/ source[e].workflow # "Mobility" /\ Advance(r, e, "out")
     \/ /\ source[e].workflow = "Mobility"
        /\ Advance(r, e, IF Selection[r] = "uat" THEN "live"
                         ELSE IF batch[r][e] = "fetched" THEN "ready"
                         ELSE "incomplete")
  /\ UNCHANGED <<storeVars, pc, failures, benivoVars, terminalSnap>>

\* validate_uat_candidate() reads the terminal eids last.
CheckUnposted(r, e) ==
  /\ pc[r] = "evaluate"
  /\ batch[r][e] = "live"
  /\ Advance(r, e, IF e \in TerminalEids THEN "out" ELSE "ready")
  /\ UNCHANGED <<storeVars, pc, failures, benivoVars, terminalSnap>>

EndEvaluation(r) ==
  /\ pc[r] = "evaluate"
  /\ \A e \in Candidates : batch[r][e] \notin Evaluated
  /\ terminalSnap' = [terminalSnap EXCEPT ![r] = {}]
  /\ GoTo(r, StageAfterSelection(r))
  /\ UNCHANGED <<storeVars, failures, benivoVars, batch>>

ExplicitStep(r) ==
  \/ OpenBatch(r) \/ OpenUat(r)
  \/ \E e \in Candidates : Fetch(r, e) \/ CheckLive(r, e) \/ CheckUnposted(r, e)
  \/ EndEvaluation(r)

=============================================================================
