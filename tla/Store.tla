-------------------------------- MODULE Store --------------------------------
(***************************************************************************)
(* What outlives a run: the Jobvite source table, which an external ETL    *)
(* keeps rewriting, and the three tables of the benivo schema.  Every      *)
(* statement of the program runs against these at Read Committed, each in  *)
(* a connection of its own.                                                *)
(***************************************************************************)
EXTENDS Domain

CONSTANTS
  Candidates,     \* application_eids
  Emails,         \* addresses, after LOWER(TRIM(email))
  EmailOf,        \* the address of each application; two may share one
  SourceRows,     \* the Jobvite rows the ETL may write
  Runs,           \* process invocations, each with its own run_id
  MaxCandidates,  \* BENIVO_MAX_CANDIDATES
  GoLive,         \* BENIVO_GO_LIVE_AT, or Unset
  MaxEdits,       \* bound: rewrites of source rows by the ETL
  MaxClock        \* bound: ticks of the database clock

Unset == -1
NeverSeen == -1

ASSUME StoreAssumption ==
  /\ IsFiniteSet(Candidates)
  /\ EmailOf \in [Candidates -> Emails]
  /\ SourceRows \subseteq SourceRow
  /\ MaxCandidates \in Nat \ {0}
  /\ GoLive \in Nat \cup {Unset}
  /\ MaxEdits \in Nat
  /\ MaxClock \in Nat

VARIABLES
  source,     \* jv_arrise_data_schema.jobvite_applications
  cand,       \* benivo.candidates
  firstSeen,  \* benivo.scope_history.first_seen_in_scope_at
  postLog,    \* benivo.post_log, a set of rows
  clock,      \* NOW() of the database
  edits       \* rewrites made so far by the ETL

storeVars == <<source, cand, firstSeen, postLog, clock, edits>>

PostLogRow ==
  [eid    : Candidates,
   action : {"CREATE_USER", "UPDATE_CASE"},
   status : PostLogStatuses,
   run    : Runs]

StoreTypeOK ==
  /\ source \in [Candidates -> SourceRow]
  /\ cand \in [Candidates -> CandidateRow]
  /\ firstSeen \in [Candidates -> Nat \cup {NeverSeen}]
  /\ postLog \in SUBSET PostLogRow
  /\ clock \in Nat
  /\ edits \in Nat

(***************************************************************************)
(* Before the first sync the benivo tables are empty.                      *)
(***************************************************************************)
StoreInit ==
  /\ source \in [Candidates -> SourceRows]
  /\ cand = [e \in Candidates |-> NoCandidate]
  /\ firstSeen = [e \in Candidates |-> NeverSeen]
  /\ postLog = {}
  /\ clock = 0
  /\ edits = 0

(***************************************************************************)
(* Queries.                                                                *)
(***************************************************************************)
Exists(e) == cand[e].status # "NO_ROW"

\* ux_benivo_post_terminal_application_action, and the NOT EXISTS of the
\* selection: a terminal row of this action.
HasTerminalRow(e, action) ==
  \E row \in postLog :
    row.eid = e /\ row.action = action /\ row.status \in TerminalPostLogStatuses

\* Mutant: no scope_history row is taken for a new candidate.
PassesGoLive_UnseenIsNew(e) ==
  GoLive = Unset \/ firstSeen[e] = NeverSeen \/ firstSeen[e] >= GoLive

PassesGoLive(e) ==
  GoLive = Unset \/ (firstSeen[e] # NeverSeen /\ firstSeen[e] >= GoLive)

\* Mutant: the status alone keeps a posted candidate out of the selection.
Selectable_StatusOnly(e) ==
  /\ cand[e].status = "READY_TO_POST"
  /\ cand[e].relocation = "Yes"
  /\ source[e].workflow = "Mobility"
  /\ PassesGoLive(e)

\* The WHERE clause of get_ready_candidates().
Selectable(e) ==
  /\ cand[e].status = "READY_TO_POST"
  /\ cand[e].relocation = "Yes"
  /\ source[e].workflow = "Mobility"
  /\ ~HasTerminalRow(e, "CREATE_USER")
  /\ PassesGoLive(e)

\* ORDER BY created_at, id LIMIT n: those with fewer than n selectable
\* candidates before them.
ReadyCandidates ==
  {e \in Candidates :
     /\ Selectable(e)
     /\ Cardinality({f \in Candidates : Selectable(f) /\ cand[f].id < cand[e].id})
          < MaxCandidates}

(***************************************************************************)
(* The environment.                                                        *)
(***************************************************************************)
EtlRewrites(e) ==
  /\ edits < MaxEdits
  /\ \E row \in SourceRows \ {source[e]} : source' = [source EXCEPT ![e] = row]
  /\ edits' = edits + 1
  /\ UNCHANGED <<cand, firstSeen, postLog, clock>>

Tick ==
  /\ clock < MaxClock
  /\ clock' = clock + 1
  /\ UNCHANGED <<source, cand, firstSeen, postLog, edits>>

=============================================================================
