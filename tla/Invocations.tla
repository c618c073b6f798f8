----------------------------- MODULE Invocations -----------------------------
(***************************************************************************)
(* app/main.py: which stages a command goes through, and how an invocation *)
(* starts, ends and dies.  A run holds everything in memory; pc says which *)
(* statement or request it makes next.                                     *)
(*                                                                         *)
(* Nothing in the program keeps two invocations apart: the systemd oneshot *)
(* unit of docs/OPERATIONS.md does (Overlap = FALSE), the cron line, and   *)
(* an operator beside either of them, do not (Overlap = TRUE).             *)
(***************************************************************************)
EXTENDS Store

CONSTANTS
  Command,      \* the command line of each run
  DryRun,       \* BENIVO_DRY_RUN
  Overlap,      \* may a run start while another is active?
  Recurring,    \* does the scheduler start a finished slot again?
  Faults,       \* the kinds of failure that may happen
  MaxFaults     \* bound: failures in a behaviour

Commands == {"sync", "classify", "report", "post", "run"}

FaultKinds ==
  {"kill",        \* the process dies, or a statement raises psycopg2.Error
   "auth",        \* token or refdata request answers with an error
   "timeout",     \* a request raises instead of returning
   "refdata",     \* refdata does not list the office
   "lookup",      \* the user lookup answers with an error status
   "create",      \* create-user is answered with an error
   "lost_reply",  \* the user is created, the answer cannot be used
   "patch"}       \* the Case PATCH is answered with an error

ASSUME InvocationsAssumption ==
  /\ Command \in [Runs -> Commands]
  /\ DryRun \in BOOLEAN
  /\ Overlap \in BOOLEAN
  /\ Recurring \in BOOLEAN
  /\ Faults \subseteq FaultKinds
  /\ MaxFaults \in Nat

VARIABLES
  pc,       \* the stage of each run
  failures  \* failures that have happened so far

InFlight ==
  {"sync", "sync_history", "sync_mark", "classify", "classify_write", "select",
   "evaluate", "authorize", "post", "record", "report"}

Stages == {"idle", "done", "failed"} \cup InFlight

InvocationsTypeOK ==
  /\ pc \in [Runs -> Stages]
  /\ failures \in Nat

InvocationsInit ==
  /\ pc = [r \in Runs |-> "idle"]
  /\ failures = 0

\* cmd_report() forces the dry run; cmd_post() and cmd_run() read the flag.
PostsForReal(r) == Command[r] \in {"post", "run"} /\ ~DryRun

FirstStage(r) ==
  CASE Command[r] \in {"sync", "run"} -> "sync"
    [] Command[r] = "classify" -> "classify"
    [] Command[r] \in {"report", "post"} -> "select"

StageAfterSync(r) == IF Command[r] = "run" THEN "classify" ELSE "done"

StageAfterClassify(r) == IF Command[r] = "run" THEN "select" ELSE "done"

GoTo(r, stage) == pc' = [pc EXCEPT ![r] = stage]

Suffer(kind) ==
  /\ kind \in Faults
  /\ failures < MaxFaults
  /\ failures' = failures + 1

Active(r) == pc[r] \in InFlight

MayStart(r) == Overlap \/ \A other \in Runs : ~Active(other)

=============================================================================
