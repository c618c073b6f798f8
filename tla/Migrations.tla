----------------------------- MODULE Migrations -----------------------------
(***************************************************************************)
(* scripts/migrate.py --apply, several of them at once, beside the service *)
(* that posts and records while they run.                                  *)
(*                                                                         *)
(* A runner reads the tracking table once, and then gives each file that   *)
(* was not in it a transaction of its own: the statements of the file, its *)
(* row in benivo._schema_migrations, the commit.  The tables a statement   *)
(* alters stay locked until the transaction ends.  record_post_result()    *)
(* locks post_log by its INSERTs and candidates by its UPDATE.             *)
(***************************************************************************)
EXTENDS MigrationFiles, FiniteSets

CONSTANTS
  ByHand,        \* files 0001 to this one were applied directly
  Runners,       \* invocations of migrate.py
  Applications,  \* applications a run of the service may post
  MaxCrashes     \* bound: how often a runner may be killed

ASSUME MigrationsAssumption ==
  /\ ByHand \in 0..4
  /\ MaxCrashes \in Nat

VARIABLES
  tracked,   \* the rows of benivo._schema_migrations
  schema,    \* the columns, tables and indexes that are there
  at,        \* idle, listed, applying, done or failed, for each runner
  seen,      \* `applied`, as each runner has read it
  file,      \* the file each runner has come to, 0 before the first
  got,       \* how many of its locks the file's transaction holds
  post,      \* idle, in_hand, inserted, recorded or lost, per application
  crashes

runnerVars == <<at, seen, file, got>>
vars == <<tracked, schema, runnerVars, post, crashes>>

Versions == INSTANCE SchemaVersions

MigrationsTypeOK ==
  /\ tracked \subseteq Files
  /\ schema \subseteq Objects
  /\ at \in [Runners -> {"idle", "listed", "applying", "done", "failed"}]
  /\ seen \in [Runners -> SUBSET Files]
  /\ file \in [Runners -> 0..Last]
  /\ got \in [Runners -> 0..2]
  /\ post \in [Applications -> {"idle", "in_hand", "inserted", "recorded", "lost"}]
  /\ crashes \in 0..MaxCrashes

Init ==
  /\ tracked = {}
  /\ schema = SchemaAt(ByHand)
  /\ at = [r \in Runners |-> "idle"]
  /\ seen = [r \in Runners |-> {}]
  /\ file = [r \in Runners |-> 0]
  /\ got = [r \in Runners |-> 0]
  /\ post = [a \in Applications |-> "idle"]
  /\ crashes = 0

(***************************************************************************)
(* Table locks.                                                            *)
(***************************************************************************)
\* Mutant: 0003 alters post_log first.
Locks_LogFirst(r) ==
  IF file[r] = 3 THEN <<"post_log", "candidates">> ELSE Script[file[r]].locks

Locks(r) == Script[file[r]].locks

\* Mutant: the connection of a failed runner is neither rolled back nor closed.
Held_Leaked(r) ==
  IF at[r] \in {"applying", "failed"} /\ file[r] # 0
    THEN {Locks(r)[i] : i \in 1..got[r]} ELSE {}

Held(r) == IF at[r] = "applying" THEN {Locks(r)[i] : i \in 1..got[r]} ELSE {}

\* No runner keeps the service out of table t.
Accessible(t) == \A r \in Runners : t \notin Held(r)

\* Neither another runner nor a transaction of the service is in table t.
Lockable(t) ==
  /\ Accessible(t)
  /\ t = "post_log" => \A a \in Applications : post[a] # "inserted"

(***************************************************************************)
(* The runner.                                                             *)
(***************************************************************************)
Pending(r) == {f \in Files : f > file[r] /\ f \notin seen[r]}

NextFile(r) == CHOOSE f \in Pending(r) : \A g \in Pending(r) : f <= g

\* The tracking table is created when it is missing, and read once.
List(r) ==
  /\ at[r] = "idle"
  /\ at' = [at EXCEPT ![r] = "listed"]
  /\ seen' = [seen EXCEPT ![r] = tracked]
  /\ UNCHANGED <<tracked, schema, file, got, post, crashes>>

Begin(r) ==
  /\ at[r] = "listed"
  /\ Pending(r) # {}
  /\ at' = [at EXCEPT ![r] = "applying"]
  /\ file' = [file EXCEPT ![r] = NextFile(r)]
  /\ got' = [got EXCEPT ![r] = 0]
  /\ UNCHANGED <<tracked, schema, seen, post, crashes>>

Lock(r) ==
  /\ at[r] = "applying"
  /\ got[r] < Len(Locks(r))
  /\ Lockable(Locks(r)[got[r] + 1])
  /\ got' = [got EXCEPT ![r] = @ + 1]
  /\ UNCHANGED <<tracked, schema, at, seen, file, post, crashes>>

Ready(r) == at[r] = "applying" /\ got[r] = Len(Locks(r))

\* CREATE UNIQUE INDEX finds two terminal rows of one application: those of
\* its create-user and of its Case PATCH.
FindsDuplicates(f) ==
  /\ ApplicationIndex \in Script[f].adds \ schema
  /\ \E a \in Applications : post[a] = "recorded"

\* Mutant: the INSERT into the tracking table has ON CONFLICT DO NOTHING.
Fails_Duplicates(r) == FindsDuplicates(file[r])

\* The file fails, or its row is in the tracking table already.
Fails(r) == FindsDuplicates(file[r]) \/ file[r] \in tracked

Commit(r) ==
  /\ Ready(r)
  /\ ~Fails(r)
  /\ tracked' = tracked \cup {file[r]}
  /\ schema' = (schema \ Script[file[r]].drops) \cup Script[file[r]].adds
  /\ at' = [at EXCEPT ![r] = "listed"]
  /\ UNCHANGED <<seen, file, got, post, crashes>>

\* Mutant: a file that somebody else is applying ends the run, with code 0.
RollBack_Quietly(r) ==
  /\ Ready(r)
  /\ Fails(r)
  /\ at' = [at EXCEPT ![r] = "done"]
  /\ UNCHANGED <<tracked, schema, seen, file, got, post, crashes>>

RollBack(r) ==
  /\ Ready(r)
  /\ Fails(r)
  /\ at' = [at EXCEPT ![r] = "failed"]
  /\ UNCHANGED <<tracked, schema, seen, file, got, post, crashes>>

Finish(r) ==
  /\ at[r] = "listed"
  /\ Pending(r) = {}
  /\ at' = [at EXCEPT ![r] = "done"]
  /\ UNCHANGED <<tracked, schema, seen, file, got, post, crashes>>

\* The process is killed; PostgreSQL rolls its transaction back.
Die(r) ==
  /\ at[r] \in {"listed", "applying"}
  /\ crashes < MaxCrashes
  /\ crashes' = crashes + 1
  /\ at' = [at EXCEPT ![r] = "failed"]
  /\ UNCHANGED <<tracked, schema, seen, file, got, post>>

(***************************************************************************)
(* The service.  Its runs synchronize, or at least select, before they     *)
(* post: those statements name columns up to agency_name, and              *)
(* scope_history.  An application that is posted here gets the rows that   *)
(* ask most of the schema, a CREATE_USER and an UPDATE_CASE SUCCESS.       *)
(***************************************************************************)

\* Mutant: the queries do not read agency_name yet.
Read_NoAgency == {"candidates.is_vip", "candidates.current_country", "scope_history"}

Read ==
  {"candidates.is_vip", "candidates.current_country", "candidates.agency_name",
   "scope_history"}

Written ==
  {"post_log.benivo_assignment_id", "post_log.policy_name",
   "post_log.policy_api_value", "post_log.effective_start_date",
   "post_log.http_status_code", "candidates.benivo_assignment_id"}

\* record_post_result() can write its rows: no column is missing, and no
\* index takes the two rows of one application for duplicates.
Recordable ==
  /\ Written \subseteq schema
  /\ schema \cap {SuccessIndex, ApplicationIndex} = {}

\* The application is selected; from here on Benivo may know of it.
TakeInHand(a) ==
  /\ post[a] = "idle"
  /\ Read \subseteq schema
  /\ \A t \in {"candidates", "post_log", "scope_history"} : Accessible(t)
  /\ post' = [post EXCEPT ![a] = "in_hand"]
  /\ UNCHANGED <<tracked, schema, runnerVars, crashes>>

Insert(a) ==
  /\ post[a] = "in_hand"
  /\ Accessible("post_log")
  /\ post' = [post EXCEPT ![a] = IF Recordable THEN "inserted" ELSE "lost"]
  /\ UNCHANGED <<tracked, schema, runnerVars, crashes>>

Record(a) ==
  /\ post[a] = "inserted"
  /\ Accessible("candidates")
  /\ post' = [post EXCEPT ![a] = "recorded"]
  /\ UNCHANGED <<tracked, schema, runnerVars, crashes>>

\* A runner that has candidates waits for post_log, a transaction of the
\* service that has post_log for candidates: PostgreSQL aborts one of them.
Deadlocked(r, a) ==
  /\ at[r] = "applying"
  /\ got[r] = 1
  /\ Locks(r) = <<"candidates", "post_log">>
  /\ post[a] = "inserted"

BreakDeadlock(r, a) ==
  /\ Deadlocked(r, a)
  /\ \/ at' = [at EXCEPT ![r] = "failed"] /\ UNCHANGED post
     \/ post' = [post EXCEPT ![a] = "lost"] /\ UNCHANGED at
  /\ UNCHANGED <<tracked, schema, seen, file, got, crashes>>

RunnerStep(r) ==
  List(r) \/ Begin(r) \/ Lock(r) \/ Commit(r) \/ RollBack(r) \/ Finish(r)

Next ==
  \/ \E r \in Runners : RunnerStep(r) \/ Die(r)
  \/ \E a \in Applications : TakeInHand(a) \/ Insert(a) \/ Record(a)
  \/ \E r \in Runners, a \in Applications : BreakDeadlock(r, a)

Spec == Init /\ [][Next]_vars

\* A runner that was started goes on until it ends or dies; a transaction of
\* the service ends; PostgreSQL looks for deadlocks every second.
Fairness ==
  /\ \A r \in Runners : WF_vars(RunnerStep(r) /\ at[r] # "idle")
  /\ \A a \in Applications : WF_vars(Insert(a)) /\ WF_vars(Record(a))
  /\ \A r \in Runners : WF_vars(\E a \in Applications : BreakDeadlock(r, a))

FairSpec == Spec /\ Fairness

-----------------------------------------------------------------------------
\* Whatever runners there are, and wherever they die, the tracking table
\* holds a prefix of the files and the schema is the one this prefix makes.
ImplementsSchemaVersions == Versions!VersionsSpec

\* Whoever may have an account at Benivo can be recorded: no selection
\* succeeds on a schema that the later INSERTs and the index do not fit.
InHandIsRecordable ==
  (\E a \in Applications : post[a] \in {"in_hand", "inserted"}) => Recordable

\* A runner that ends with exit code 0 leaves no file behind, although it
\* has read the tracking table only once.
DoneIsComplete == \A r \in Runners : at[r] = "done" => tracked = Files

\* Re-running the runner on a live database costs nobody a record, unless a
\* second runner executes a file again that the first one has tracked since.
LostOnlyToStaleRunner ==
  [][\A a \in Applications :
       post[a] # "lost" /\ post'[a] = "lost" =>
         \E r \in Runners : at[r] = "applying" /\ file[r] \in tracked]_vars

\* The next table of r is held by q.
Blocks(q, r) ==
  /\ at[r] = "applying" /\ got[r] < Len(Locks(r))
  /\ Locks(r)[got[r] + 1] \in Held(q)

\* The transaction of a keeps r out of post_log.
KeepsOut(a, r) ==
  /\ at[r] = "applying" /\ got[r] < Len(Locks(r))
  /\ Locks(r)[got[r] + 1] = "post_log"
  /\ post[a] = "inserted"

\* PostgreSQL resolves only the deadlock of one runner with one transaction
\* of the service.  There is no other: every file takes candidates before
\* post_log, so that whoever is waited for can commit, is waiting for one
\* who can, or is part of a deadlock that is broken.
NoCircleOfRunners ==
  \A r, q \in Runners :
    Blocks(q, r) =>
      \/ Ready(q)
      \/ Lockable(Locks(q)[got[q] + 1])
      \/ \E s \in Runners : Blocks(s, q) /\ Ready(s)
      \/ \E a \in Applications : Deadlocked(q, a)

\* So it is with a transaction of the service that a runner waits for.
NoCircleWithService ==
  \A r \in Runners, a \in Applications :
    KeepsOut(a, r) =>
      \/ Accessible("candidates")
      \/ \E q \in Runners : "candidates" \in Held(q) /\ (Ready(q) \/ Deadlocked(q, a))

WaitsEnd == NoCircleOfRunners /\ NoCircleWithService

\* Every runner ends, done or failed: neither another runner nor a
\* transaction of the service can keep it waiting for ever.
RunnersEnd == \A r \in Runners : at[r] = "listed" ~> at[r] \in {"done", "failed"}

=============================================================================
