------------------------------ MODULE Pipeline ------------------------------
(***************************************************************************)
(* The whole batch: invocations of the CLI, one after the other or at the  *)
(* same time, going through synchronization, classification, selection,    *)
(* posting, recording and reporting, over one database and one Benivo      *)
(* tenant, while the ETL rewrites the source and processes die.            *)
(***************************************************************************)
EXTENDS Intake, ExplicitSelection

vars == <<storeVars, pc, failures, intakeVars, benivoVars, batch, terminalSnap>>

TypeOK ==
  /\ StoreTypeOK
  /\ InvocationsTypeOK
  /\ IntakeTypeOK
  /\ BenivoTypeOK
  /\ PostingTypeOK
  /\ ExplicitTypeOK

Init ==
  /\ StoreInit
  /\ InvocationsInit
  /\ IntakeInit
  /\ BenivoInit
  /\ PostingInit
  /\ ExplicitInit

(***************************************************************************)
(* Life of an invocation.                                                  *)
(***************************************************************************)
Start(r) ==
  /\ pc[r] = "idle"
  /\ MayStart(r)
  /\ GoTo(r, FirstStage(r))
  /\ UNCHANGED <<storeVars, failures, intakeVars, benivoVars, batch, terminalSnap>>

\* The process is killed, or a statement raises: its open transaction is
\* rolled back and what it held in memory is gone.  batch is kept for the
\* properties; nothing reads it again.
Die(r) ==
  /\ Active(r)
  /\ Suffer("kill")
  /\ GoTo(r, "failed")
  /\ ForgetIntake(r)
  /\ terminalSnap' = [terminalSnap EXCEPT ![r] = {}]
  /\ UNCHANGED <<storeVars, benivoVars, batch>>

\* generate_reports() and deliver_report() only read the database.
Report(r) ==
  /\ pc[r] = "report"
  /\ GoTo(r, "done")
  /\ UNCHANGED <<storeVars, failures, intakeVars, benivoVars, batch, terminalSnap>>

\* The scheduler's next firing.
Reschedule(r) ==
  /\ Recurring
  /\ pc[r] \in {"done", "failed"}
  /\ GoTo(r, "idle")
  /\ batch' = [batch EXCEPT ![r] = NoBatch]
  /\ UNCHANGED <<storeVars, failures, intakeVars, benivoVars, terminalSnap>>

\* Every stage up to the report.
Works(r) ==
  \/ Start(r)
  \/ IntakeStep(r) /\ UNCHANGED <<benivoVars, batch, terminalSnap>>
  \/ PostingStep(r) /\ UNCHANGED <<intakeVars, terminalSnap>>
  \/ ExplicitStep(r) /\ UNCHANGED intakeVars

Progresses(r) == Works(r) \/ Report(r) \/ Reschedule(r)

Environment ==
  /\ Tick \/ \E e \in Candidates : EtlRewrites(e)
  /\ UNCHANGED <<pc, failures, intakeVars, benivoVars, batch, terminalSnap>>

Next == Environment \/ \E r \in Runs : Progresses(r) \/ Die(r)

Spec == Init /\ [][Next]_vars

\* The scheduler keeps firing and a live process keeps running; nothing is
\* promised about faults, the ETL or the clock.
Fairness == \A r \in Runs : WF_vars(Progresses(r))

FairSpec == Spec /\ Fairness

-----------------------------------------------------------------------------
(***************************************************************************)
(* Safety, whatever the interleaving of the runs.                          *)
(***************************************************************************)

\* The index of migrations/0006 and the transaction of record_post_result()
\* keep at most one terminal post_log row per application and action, also
\* when two runs record the same candidate.
OneTerminalRow ==
  \A p, q \in postLog :
    /\ p.status \in TerminalPostLogStatuses /\ q.status \in TerminalPostLogStatuses
    /\ p.eid = q.eid /\ p.action = q.action
    => p = q

\* No candidate shows POSTED without a terminal CREATE_USER row behind it:
\* neither sync nor classify nor a failed attempt can produce the status.
PostedIsLogged ==
  \A e \in Candidates : cand[e].status = Posted => HasTerminalRow(e, "CREATE_USER")

\* The log never claims what Benivo does not have: a terminal CREATE_USER
\* row means an account with the candidate's address, a successful
\* UPDATE_CASE row a patched case, whatever replies were lost on the way.
LogIsBacked ==
  \A row \in postLog :
    row.status \in TerminalPostLogStatuses =>
      /\ row.action = "CREATE_USER" => HasAccount(EmailOf[row.eid])
      /\ row.action = "UPDATE_CASE" => EmailOf[row.eid] \in patched

\* What a run still holds in memory is backed as well: it believes in an
\* account, or in a patched case, only when Benivo has it.  This is what
\* carries LogIsBacked from the request to the record.
MemoryIsBacked ==
  \A r \in Runs, e \in Candidates :
    /\ batch[r][e] \in {"created", "success", "success_unpatched", "already_exists"}
         => HasAccount(EmailOf[e])
    /\ batch[r][e] = "success" => EmailOf[e] \in patched

\* The two rows of one success are written together: an UPDATE_CASE row
\* exists exactly for the runs whose own create-user succeeded, never for
\* an account that was already there.
CaseRowPairsWithSuccess ==
  \A e \in Candidates, r \in Runs :
    (\E row \in postLog : row.eid = e /\ row.run = r /\ row.action = "UPDATE_CASE")
      <=> CreateRow(r, e, "success") \in postLog

\* The go-live gate of get_ready_candidates() together with the write-once
\* scope_history: whatever run holds a candidate, the candidate was first
\* seen in scope at or after the cutover.
BacklogStaysOut ==
  \A r \in Runs, e \in Candidates :
    Selection[r] = "normal" /\ batch[r][e] # "out" /\ GoLive # Unset =>
      firstSeen[e] # NeverSeen /\ firstSeen[e] >= GoLive

\* An entry of scope_history never changes (migrations/0008), although the
\* candidate may leave the scope and come back any number of times.
FirstSeenIsKept ==
  [][\A e \in Candidates : firstSeen[e] # NeverSeen => firstSeen'[e] = firstSeen[e]]_vars

\* Posting as a whole: every step of every run is a step of the abstract
\* ledger or changes nothing it sees.
Promise ==
  INSTANCE Ledger WITH opened  <- {m \in Emails : HasAccount(m)},
                       cased   <- patched,
                       settled <- TerminalEids

ImplementsLedger == Promise!LedgerSpec

\* The overrides never fall back and never guess: a run in batch or UAT
\* mode holds only candidates that its configuration names exactly once.
ExplicitStaysWithinFile ==
  \A r \in Runs, e \in Candidates :
    Selection[r] # "normal" /\ batch[r][e] # "out" =>
      Cardinality({i \in 1..Len(Explicit[r]) : Explicit[r][i] = e}) = 1

\* Run r may still ask Benivo about e, or record it.  A batch relies on the
\* terminal eids it has read in bulk; the UAT check reads them once more.
Pursues(r, e) ==
  \/ /\ pc[r] \in {"evaluate", "authorize", "post", "record"}
     /\ batch[r][e] \notin Evaluated \cup {"out", "recorded"}
  \/ /\ pc[r] = "evaluate" /\ Selection[r] = "batch"
     /\ batch[r][e] \in Evaluated
     /\ batch[r][e] = "pending" => e \notin terminalSnap[r]

Settled(e) == HasTerminalRow(e, "CREATE_USER") /\ \A r \in Runs : ~Pursues(r, e)

\* What is left of the terminality of POSTED when runs overlap: the status
\* may be lost, but an application that is logged and in nobody's hands is
\* never taken up again, by any route, and its log is final.
SettledIsLeftAlone ==
  [][\A e \in Candidates :
       Settled(e) => Settled(e)' /\ \A row \in postLog' \ postLog : row.eid # e]_vars

-----------------------------------------------------------------------------
(***************************************************************************)
(* Safety when invocations do not overlap (the systemd oneshot unit).      *)
(***************************************************************************)

\* domain.py: POSTED is the terminal candidate status; no later sync,
\* classification or attempt takes it away.
PostedIsTerminal ==
  [][\A e \in Candidates : cand[e].status = Posted => cand'[e].status = Posted]_vars

\* The converse of PostedIsLogged: a successful create-user always remains
\* POSTED, so the operational table and the audit trail agree.
LoggedIsPosted ==
  \A e \in Candidates : HasTerminalRow(e, "CREATE_USER") => cand[e].status = Posted

\* A run that is about to call Benivo for a candidate, or to record it, is
\* the first to succeed with it: what selection read is still true.
InHandIsUnlogged ==
  \A r \in Runs, e \in Candidates :
    /\ pc[r] \in {"authorize", "post", "record"}
    /\ batch[r][e] \notin {"out", "recorded"}
    => ~HasTerminalRow(e, "CREATE_USER")

\* The lookup before create-user makes the retry safe even if Benivo accepts
\* an address twice: a crash, a timeout or a lost reply between create-user
\* and the record, or a second application of the same person, does not
\* lead to a second account.
OneAccountPerAddress == \A m \in Emails : accounts[m] <= 1

\* A READY_TO_POST row is cached as Mobility: the mark of sync and the first
\* rule of classify() leave no row ready whose workflow is known to have
\* moved on.
ReadyIsCachedInMobility ==
  \A e \in Candidates : cand[e].status = "READY_TO_POST" => cand[e].workflow = "Mobility"

-----------------------------------------------------------------------------
(***************************************************************************)
(* Claims of the documentation that the code does not keep.                *)
(***************************************************************************)

\* README, status section: the live check at selection means a candidate
\* can never be posted purely because benivo.candidates is stale.
OnlyInScopeIsSelected ==
  [][\A r \in Runs, e \in Candidates :
       batch[r][e] = "out" /\ batch'[r][e] # "out" => InScope(source[e])]_vars

\* OPERATIONS.md: an individual candidate failing to post does not fail the
\* batch, it is recorded and the run continues.  So a run that ends in
\* failure has no result in memory that it has not recorded.
AttemptsAreRecorded ==
  \A r \in Runs, e \in Candidates :
    pc[r] = "failed" => batch[r][e] \notin Outcomes

-----------------------------------------------------------------------------
(***************************************************************************)
(* Why a run ends: it is never stuck, and every step takes it forward.     *)
(***************************************************************************)

\* How far an invocation, and an attempt of it, has come.
StageRank(stage) ==
  CASE stage = "idle" -> 0        [] stage = "sync" -> 1
    [] stage = "sync_history" -> 2 [] stage = "sync_mark" -> 3
    [] stage = "classify" -> 4    [] stage = "classify_write" -> 5
    [] stage = "select" -> 6      [] stage = "evaluate" -> 7
    [] stage = "authorize" -> 8   [] stage = "post" -> 9
    [] stage = "record" -> 10     [] stage = "report" -> 11
    [] stage \in {"done", "failed"} -> 12

AttemptRank(progress) ==
  CASE progress = "pending" -> 0
    [] progress \in {"fetched", "fetched_incomplete"} -> 1
    [] progress = "live" -> 2
    [] progress \in {"out", "ready", "incomplete"} -> 3
    [] progress = "unknown" -> 4
    [] progress = "created" -> 5
    [] progress \in Outcomes -> 6
    [] progress = "recorded" -> 7

\* The next stage, or within a stage one candidate further.
StepsForward(r) ==
  \/ StageRank(pc'[r]) > StageRank(pc[r])
  \/ /\ pc'[r] = pc[r]
     /\ \E e \in Candidates :
          /\ AttemptRank(batch'[r][e]) > AttemptRank(batch[r][e])
          /\ \A f \in Candidates \ {e} : batch'[r][f] = batch[r][f]

\* main.py has no loop but those over candidates, and these go over each
\* candidate once: whatever fails, an invocation takes at most twelve stages
\* and seven steps for each candidate, and no other run moves it.
RunsAdvance ==
  [][\A r \in Runs :
       /\ Progresses(r) \/ Die(r) => StepsForward(r) \/ Reschedule(r)
       /\ pc'[r] # pc[r] \/ batch'[r] # batch[r] => Progresses(r) \/ Die(r)]_vars

\* The loops have a next candidate or end.  The order of the batch file and
\* that of the query always have a first one, and no state that the loop
\* does not expect is left over from the stage before.
NoRunIsStuck ==
  \A r \in Runs :
    /\ pc[r] = "evaluate" =>
         \/ \E e \in Candidates :
              EvaluatesNext(r, e) \/ batch[r][e] \in Evaluated \ {"pending"}
         \/ \A e \in Candidates : batch[r][e] \notin Evaluated
    /\ pc[r] = "post" =>
         \/ \E e \in Candidates : TurnsTo(r, e) \/ batch[r][e] \in UnderWay
         \/ \A e \in Candidates : batch[r][e] \in {"out"} \cup Outcomes
    /\ pc[r] = "record" =>
         \/ \E e \in Candidates : IsFirst(r, e, Outcomes)
         \/ \A e \in Candidates : batch[r][e] \notin Outcomes

-----------------------------------------------------------------------------
(***************************************************************************)
(* Liveness, under FairSpec.                                               *)
(***************************************************************************)
Attempted(e) == \E row \in postLog : row.eid = e

\* README: READY_TO_POST means eligible, will be selected for posting.
ReadyIsAttempted ==
  \A e \in Candidates : Selectable(e) ~> (Attempted(e) \/ ~Selectable(e))

\* Recovery: when an account exists for the candidate, although the run that
\* opened it timed out, lost the reply or died, a later run finds it by its
\* address and the candidate ends as POSTED.
OpenedIsPosted ==
  \A e \in Candidates : HasAccount(EmailOf[e]) ~> (cand[e].status = Posted)

\* When the ETL has stopped, the status of every synced row settles on the
\* verdict of its live source row: a candidate who left the workflow is
\* withdrawn for good, one who came back is adopted again.
StatusSettles ==
  \A e \in Candidates :
    <>[](/\ Exists(e)
         /\ cand[e].status \in ReclassifiedStatuses
         /\ InScope(source[e]) \/ source[e].workflow = "Other"
         => cand[e].status = Classify([cand[e] EXCEPT !.workflow   = source[e].workflow,
                                                      !.relocation = source[e].relocation,
                                                      !.office     = source[e].office],
                                      source[e]))


=============================================================================
