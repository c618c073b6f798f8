-------------------------- MODULE MigrationsProofs --------------------------
(***************************************************************************)
(* Proofs about Migrations, for any number of runners, applications and    *)
(* crashes, and for every ByHand up to 0004.                               *)
(***************************************************************************)
EXTENDS Migrations, TLAPS

-----------------------------------------------------------------------------
(***************************************************************************)
(* The files.                                                              *)
(***************************************************************************)
LEMMA ScriptFacts ==
  ASSUME NEW f \in Files
  PROVE  /\ Script[f].adds \subseteq Objects
         /\ Script[f].adds = Adds(f)
         /\ Script[f].drops = Drops(f)
         /\ Len(Script[f].locks) \in 1..2
         /\ Adds(f) \cap Drops(f) = {}
<1>1. f \in 1..10
  BY DEF Files, Last
<1>2. Script[f].adds = Adds(f) /\ Script[f].drops = Drops(f)
  BY <1>1 DEF Adds, Drops
<1>3. Adds(f) \subseteq Objects
  BY <1>1 DEF Objects, Last
<1>4. Len(Script[f].locks) \in 1..2
  BY <1>1 DEF Script
<1>5. Script[f].adds \cap Script[f].drops = {}
  BY <1>1 DEF Script, SuccessIndex, ApplicationIndex, ActionIndex
<1> QED
  BY <1>2, <1>3, <1>4, <1>5

\* One file more is what that file drops and adds.
LEMMA NextVersion ==
  ASSUME NEW f \in Files
  PROVE  SchemaAt(f) = (SchemaAt(f - 1) \ Drops(f)) \cup Adds(f)
<1>0. f \in 1..10 /\ f \in Nat /\ f - 1 \in Nat
  BY DEF Files, Last
<1>1. ASSUME NEW o \in SchemaAt(f)
      PROVE  o \in (SchemaAt(f - 1) \ Drops(f)) \cup Adds(f)
  <2>1. PICK k \in 0..f : o \in Adds(k) /\ \A g \in (k + 1)..f : o \notin Drops(g)
    BY <1>1 DEF SchemaAt
  <2>2. CASE k = f
    BY <2>1, <2>2
  <2>3. CASE k # f
    <3>1. k \in 0..(f - 1) /\ f \in (k + 1)..f
      BY <1>0, <2>3
    <3>2. \A g \in (k + 1)..(f - 1) : o \notin Drops(g)
      BY <1>0, <2>1, <3>1
    <3>3. o \in Objects
      BY <1>1 DEF SchemaAt
    <3> QED
      BY <2>1, <3>1, <3>2, <3>3 DEF SchemaAt
  <2> QED
    BY <2>2, <2>3
<1>2. ASSUME NEW o \in (SchemaAt(f - 1) \ Drops(f)) \cup Adds(f)
      PROVE  o \in SchemaAt(f)
  <2>1. CASE o \in Adds(f)
    <3>1. f \in 0..f /\ \A g \in (f + 1)..f : o \notin Drops(g)
      BY <1>0
    <3>2. o \in Objects
      BY <2>1, ScriptFacts
    <3> QED
      BY <2>1, <3>1, <3>2 DEF SchemaAt
  <2>2. CASE o \in SchemaAt(f - 1) /\ o \notin Drops(f)
    <3>1. PICK k \in 0..(f - 1) :
            o \in Adds(k) /\ \A g \in (k + 1)..(f - 1) : o \notin Drops(g)
      BY <2>2 DEF SchemaAt
    <3>2. k \in 0..f /\ \A g \in (k + 1)..f : o \notin Drops(g)
      BY <1>0, <2>2, <3>1
    <3>3. o \in Objects
      BY <2>2 DEF SchemaAt
    <3> QED
      BY <3>1, <3>2, <3>3 DEF SchemaAt
  <2> QED
    BY <1>2, <2>1, <2>2
<1> QED
  BY <1>1, <1>2

\* A file that was applied directly can be applied again: it drops nothing
\* that is there and adds nothing that is not.
LEMMA ReplayIsNoOp ==
  ASSUME NEW f \in Files, f <= ByHand
  PROVE  /\ Adds(f) \subseteq SchemaAt(ByHand)
         /\ Drops(f) \cap SchemaAt(ByHand) = {}
<1>1. ByHand \in {1, 2, 3, 4} /\ f \in {1, 2, 3, 4}
  BY MigrationsAssumption DEF Files, Last
<1>2. /\ Adds(1) = {"candidates.benivo_assignment_id", "post_log.benivo_assignment_id"}
      /\ Adds(2) = {ApplicationIndex}
      /\ Adds(3) = {"candidates.is_vip", "post_log.policy_name"}
      /\ Adds(4) = {"post_log.policy_api_value"}
  BY DEF Adds, Script
<1>3. Drops(1) = {} /\ Drops(2) = {SuccessIndex} /\ Drops(3) = {} /\ Drops(4) = {}
  BY DEF Drops, Script
<1>4. Adds(f) \subseteq SchemaAt(ByHand)
  <2>1. SUFFICES ASSUME NEW o \in Adds(f) PROVE o \in SchemaAt(ByHand)
    OBVIOUS
  <2>2. o # SuccessIndex
    BY <1>1, <1>2, <2>1 DEF SuccessIndex, ApplicationIndex
  <2>3. \A g \in (f + 1)..ByHand : o \notin Drops(g)
    <3> SUFFICES ASSUME NEW g \in (f + 1)..ByHand PROVE o \notin Drops(g)
      OBVIOUS
    <3>1. g \in {1, 2, 3, 4}
      BY <1>1
    <3> QED
      BY <1>3, <2>2, <3>1
  <2>4. f \in 0..ByHand /\ o \in Objects
    BY <1>1, <2>1, ScriptFacts
  <2> QED
    BY <2>1, <2>3, <2>4 DEF SchemaAt
<1>5. ASSUME NEW o \in Drops(f) PROVE o \notin SchemaAt(ByHand)
  <2>1. f = 2 /\ o = SuccessIndex
    BY <1>1, <1>3, <1>5
  <2>2. SUFFICES ASSUME NEW k \in 0..ByHand, o \in Adds(k),
                        \A g \in (k + 1)..ByHand : o \notin Drops(g)
                 PROVE  FALSE
    BY DEF SchemaAt
  <2>3. k \in {0, 1, 2, 3, 4}
    BY <1>1
  <2>4. k = 0
    BY <1>2, <2>1, <2>2, <2>3 DEF SuccessIndex, ApplicationIndex
  <2>5. 2 \in (k + 1)..ByHand
    BY <1>1, <2>1, <2>4
  <2> QED
    BY <1>3, <2>1, <2>2, <2>5
<1> QED
  BY <1>4, <1>5

\* The mapped specification has the files and the schemas of this one.
LEMMA SameFiles ==
  /\ Versions!Files = Files
  /\ \A n : Versions!SchemaAt(n) = SchemaAt(n)
BY DEF Versions!Files, Versions!Last, Files, Last, Versions!SchemaAt, SchemaAt,
       Versions!Objects, Objects, Versions!Adds, Adds, Versions!Drops, Drops,
       Versions!Before, Before, Versions!Script, Script,
       Versions!SuccessIndex, SuccessIndex, Versions!ApplicationIndex,
       ApplicationIndex, Versions!ActionIndex, ActionIndex

\* The version that n tracked files make, the files applied directly included.
SchemaAfter(n) == SchemaAt(Versions!Version(n))

LEMMA OneMoreFile ==
  ASSUME NEW f \in Files
  PROVE  SchemaAfter(f) = (SchemaAfter(f - 1) \ Drops(f)) \cup Adds(f)
<1>0. f \in 1..10 /\ ByHand \in 0..4
  BY MigrationsAssumption DEF Files, Last
<1>1. CASE f > ByHand
  <2>1. Versions!Version(f) = f /\ Versions!Version(f - 1) = f - 1
    BY <1>0, <1>1 DEF Versions!Version
  <2> QED
    BY <2>1, NextVersion DEF SchemaAfter
<1>2. CASE f <= ByHand
  <2>1. Versions!Version(f) = ByHand /\ Versions!Version(f - 1) = ByHand
    BY <1>0, <1>2 DEF Versions!Version
  <2>2. Adds(f) \subseteq SchemaAt(ByHand) /\ Drops(f) \cap SchemaAt(ByHand) = {}
    BY <1>2, ReplayIsNoOp
  <2> QED
    BY <2>1, <2>2 DEF SchemaAfter
<1> QED
  BY <1>0, <1>1, <1>2

\* agency_name comes with the last file, so who can read it has them all.
LEMMA AgencyIsLast ==
  ASSUME NEW n \in 0..Last, "candidates.agency_name" \in SchemaAfter(n)
  PROVE  n = Last
<1>1. PICK k \in 0..Versions!Version(n) : "candidates.agency_name" \in Adds(k)
  BY DEF SchemaAfter, SchemaAt
<1>2. Versions!Version(n) \in 0..10 /\ (Versions!Version(n) = 10 => n = 10)
  BY MigrationsAssumption DEF Versions!Version, Last
<1>3. k \in 0..10
  BY <1>2
<1>4. k = 10
  BY <1>1, <1>3 DEF Adds, Script, Before, SuccessIndex, ApplicationIndex, ActionIndex
<1> QED
  BY <1>2, <1>4 DEF Last

\* The last schema is the one the rows of the service are written for.
LEMMA LastSchemaFits ==
  /\ Written \subseteq SchemaAfter(Last)
  /\ SchemaAfter(Last) \cap {SuccessIndex, ApplicationIndex} = {}
<1>1. Versions!Version(Last) = 10
  BY MigrationsAssumption DEF Versions!Version, Last
<1>2. /\ Drops(2) = {SuccessIndex} /\ Drops(6) = {ApplicationIndex}
      /\ \A g \in 1..10 : g # 2 /\ g # 6 => Drops(g) = {}
  <2>1. Drops(2) = {SuccessIndex}
    BY DEF Drops, Script
  <2>0. Drops(6) = {ApplicationIndex}
    BY DEF Drops, Script
  <2>2. /\ Drops(1) = {} /\ Drops(3) = {} /\ Drops(4) = {} /\ Drops(5) = {}
        /\ Drops(7) = {} /\ Drops(8) = {} /\ Drops(9) = {} /\ Drops(10) = {}
    BY DEF Drops, Script
  <2>3. \A g \in 1..10 : g \in {1, 2, 3, 4, 5, 6, 7, 8, 9, 10}
    OBVIOUS
  <2> QED
    BY <2>0, <2>1, <2>2, <2>3
<1>3. \A o \in Written : \E f \in 1..10 : o \in Adds(f)
  <2>1. /\ "post_log.benivo_assignment_id" \in Adds(1)
        /\ "candidates.benivo_assignment_id" \in Adds(1)
        /\ "post_log.policy_name" \in Adds(3)
        /\ "post_log.policy_api_value" \in Adds(4)
        /\ "post_log.effective_start_date" \in Adds(5)
        /\ "post_log.http_status_code" \in Adds(9)
    BY DEF Adds, Script
  <2> QED
    BY <2>1 DEF Written
<1>4. ASSUME NEW o \in Written PROVE o \in SchemaAt(10)
  <2>1. PICK f \in 1..10 : o \in Adds(f)
    BY <1>3, <1>4
  <2>2. o # SuccessIndex /\ o # ApplicationIndex
    BY <1>4 DEF Written, SuccessIndex, ApplicationIndex
  <2>3. \A g \in (f + 1)..10 : o \notin Drops(g)
    BY <1>2, <2>2
  <2>4. o \in Objects
    BY <2>1, ScriptFacts DEF Files, Last
  <2> QED
    BY <2>1, <2>3, <2>4 DEF SchemaAt
<1>5. SuccessIndex \notin SchemaAt(10)
  <2> SUFFICES ASSUME NEW k \in 0..10, SuccessIndex \in Adds(k),
                      \A g \in (k + 1)..10 : SuccessIndex \notin Drops(g)
               PROVE  FALSE
    BY DEF SchemaAt
  <2>1. k = 0
    BY DEF Adds, Script, SuccessIndex, ApplicationIndex, ActionIndex
  <2> QED
    BY <1>2, <2>1
<1>6. ApplicationIndex \notin SchemaAt(10)
  <2> SUFFICES ASSUME NEW k \in 0..10, ApplicationIndex \in Adds(k),
                      \A g \in (k + 1)..10 : ApplicationIndex \notin Drops(g)
               PROVE  FALSE
    BY DEF SchemaAt
  <2>1. k = 2
    BY DEF Adds, Script, Before, SuccessIndex, ApplicationIndex, ActionIndex
  <2> QED
    BY <1>2, <2>1
<1> QED
  BY <1>1, <1>4, <1>5, <1>6 DEF SchemaAfter

-----------------------------------------------------------------------------
(***************************************************************************)
(* The inductive invariant.                                                *)
(***************************************************************************)
IsPrefix(n) == tracked = 1..n /\ schema = SchemaAfter(n)

\* What a runner goes by is true of the tracking table: whatever it has read
\* there, and every file it has left behind.
RunnerIsInOrder(r) ==
  /\ at[r] = "idle" => file[r] = 0
  /\ at[r] = "listed" => file[r] = 0 \/ file[r] \in tracked
  /\ at[r] = "applying" => file[r] \in Files
  /\ at[r] \in {"listed", "applying"} =>
       seen[r] \subseteq tracked /\ \A g \in Files : g < file[r] => g \in tracked
  /\ at[r] = "done" => tracked = Files

MigrationsInv ==
  /\ MigrationsTypeOK
  /\ \E n \in 0..Last : IsPrefix(n)
  /\ \A r \in Runners : RunnerIsInOrder(r)
  /\ \A a \in Applications : post[a] # "idle" => "candidates.agency_name" \in schema

LEMMA InitHolds == Init => MigrationsInv
<1> SUFFICES ASSUME Init PROVE MigrationsInv
  OBVIOUS
<1>1. ByHand \in 0..4 /\ Versions!Version(0) = ByHand
  BY MigrationsAssumption DEF Versions!Version
<1>2. MigrationsTypeOK
  <2>1. schema \subseteq Objects
    BY DEF Init, SchemaAt
  <2> QED
    BY <2>1, MigrationsAssumption DEF Init, MigrationsTypeOK, Last
<1>3. IsPrefix(0) /\ 0 \in 0..Last
  <2>1. 1..0 = {}
    OBVIOUS
  <2> QED
    BY <1>1, <2>1 DEF Init, IsPrefix, SchemaAfter, Last
<1>4. \A r \in Runners : RunnerIsInOrder(r)
  BY DEF Init, RunnerIsInOrder
<1>5. \A a \in Applications : post[a] = "idle"
  BY DEF Init
<1> QED
  BY <1>2, <1>3, <1>4, <1>5 DEF MigrationsInv

\* The next file is the least one the runner has not seen behind the last.
LEMMA NextFileIsLeast ==
  ASSUME NEW r \in Runners, MigrationsTypeOK, Pending(r) # {}
  PROVE  NextFile(r) \in Pending(r) /\ \A g \in Pending(r) : NextFile(r) <= g
<1> DEFINE P == Pending(r)
<1>1. P \subseteq 1..10 /\ P # {}
  BY DEF Pending, Files, Last
<1>2. \E f \in P : \A g \in P : f <= g
  <2> HIDE DEF P
  <2> SUFFICES ASSUME \A f \in P : \E g \in P : g < f PROVE FALSE
    BY <1>1
  <2>1. 1 \notin P /\ 2 \notin P /\ 3 \notin P
    BY <1>1
  <2>2. 4 \notin P /\ 5 \notin P /\ 6 \notin P
    BY <1>1, <2>1
  <2>3. 7 \notin P /\ 8 \notin P /\ 9 \notin P /\ 10 \notin P
    BY <1>1, <2>1, <2>2
  <2>4. \A f \in 1..10 : f \in {1, 2, 3, 4, 5, 6, 7, 8, 9, 10}
    OBVIOUS
  <2> QED
    BY <1>1, <2>1, <2>2, <2>3, <2>4
<1> QED
  BY <1>2 DEF NextFile

\* A commit makes the next version: the file it applies is the first one
\* that is not tracked.
LEMMA CommitIsNextVersion ==
  ASSUME NEW r \in Runners, MigrationsInv, Commit(r)
  PROVE  /\ file[r] \in Files
         /\ IsPrefix(file[r] - 1)
         /\ tracked' = 1..file[r]
         /\ schema' = SchemaAfter(file[r])
<1>1. PICK n \in 0..Last : IsPrefix(n)
  BY DEF MigrationsInv
<1>2. /\ file[r] \in Files /\ file[r] \notin tracked
      /\ \A g \in Files : g < file[r] => g \in tracked
  BY DEF Commit, Ready, Fails, MigrationsInv, RunnerIsInOrder
<1>3. tracked = 1..n /\ schema = SchemaAfter(n)
  BY <1>1 DEF IsPrefix
<1>4. n = file[r] - 1
  BY <1>1, <1>2, <1>3 DEF Files, Last
<1>5. tracked' = 1..file[r]
  <2>1. tracked' = tracked \cup {file[r]}
    BY DEF Commit
  <2> QED
    BY <1>2, <1>3, <1>4, <2>1 DEF Files, Last
<1>6. schema' = SchemaAfter(file[r])
  <2>1. schema' = (schema \ Drops(file[r])) \cup Adds(file[r])
    BY <1>2, ScriptFacts DEF Commit
  <2> QED
    BY <1>2, <1>3, <1>4, <2>1, OneMoreFile
<1> QED
  BY <1>1, <1>2, <1>4, <1>5, <1>6

\* Every step leaves the types and the version in order.
LEMMA NextTyped ==
  ASSUME MigrationsInv, [Next]_vars PROVE MigrationsTypeOK'
<1> USE DEF MigrationsInv, MigrationsTypeOK
<1>1. ASSUME NEW r \in Runners, List(r) PROVE MigrationsTypeOK'
  BY <1>1 DEF List
<1>2. ASSUME NEW r \in Runners, Begin(r) PROVE MigrationsTypeOK'
  <2>1. NextFile(r) \in 0..Last
    BY <1>2, NextFileIsLeast DEF Begin, Pending, Files
  <2> QED
    BY <1>2, <2>1 DEF Begin
<1>3. ASSUME NEW r \in Runners, Lock(r) PROVE MigrationsTypeOK'
  <2>1. file[r] \in Files
    BY <1>3 DEF Lock, RunnerIsInOrder
  <2>2. Len(Locks(r)) \in 1..2
    BY <2>1, ScriptFacts DEF Locks
  <2>3. got[r] + 1 \in 0..2
    BY <1>3, <2>2 DEF Lock
  <2> QED
    BY <1>3, <2>3 DEF Lock
<1>4. ASSUME NEW r \in Runners, Commit(r) PROVE MigrationsTypeOK'
  <2>1. file[r] \in Files
    BY <1>4, CommitIsNextVersion
  <2>2. Script[file[r]].adds \subseteq Objects
    BY <2>1, ScriptFacts
  <2> QED
    BY <1>4, <2>1, <2>2 DEF Commit
<1>5. ASSUME NEW r \in Runners, RollBack(r) \/ Finish(r) PROVE MigrationsTypeOK'
  BY <1>5 DEF RollBack, Finish
<1>6. ASSUME NEW r \in Runners, Die(r) PROVE MigrationsTypeOK'
  BY <1>6, MigrationsAssumption DEF Die
<1>7. ASSUME NEW a \in Applications, TakeInHand(a) \/ Insert(a) \/ Record(a)
      PROVE  MigrationsTypeOK'
  BY <1>7 DEF TakeInHand, Insert, Record, runnerVars
<1>8. ASSUME NEW r \in Runners, NEW a \in Applications, BreakDeadlock(r, a)
      PROVE  MigrationsTypeOK'
  BY <1>8 DEF BreakDeadlock
<1>9. CASE UNCHANGED vars
  BY <1>9 DEF vars, runnerVars
<1> QED
  BY <1>1, <1>2, <1>3, <1>4, <1>5, <1>6, <1>7, <1>8, <1>9 DEF Next, RunnerStep

\* Only a commit moves the tracking table and the schema.
LEMMA OnlyCommitsMigrate ==
  ASSUME [Next]_vars
  PROVE  \/ \E r \in Runners : Commit(r)
         \/ UNCHANGED <<tracked, schema>>
<1>1. ASSUME NEW r \in Runners, RunnerStep(r) \/ Die(r), ~Commit(r)
      PROVE  UNCHANGED <<tracked, schema>>
  BY <1>1 DEF RunnerStep, List, Begin, Lock, RollBack, Finish, Die
<1>2. ASSUME NEW a \in Applications, TakeInHand(a) \/ Insert(a) \/ Record(a)
      PROVE  UNCHANGED <<tracked, schema>>
  BY <1>2 DEF TakeInHand, Insert, Record
<1>3. ASSUME NEW r \in Runners, NEW a \in Applications, BreakDeadlock(r, a)
      PROVE  UNCHANGED <<tracked, schema>>
  BY <1>3 DEF BreakDeadlock
<1>4. CASE UNCHANGED vars
  BY <1>4 DEF vars
<1> QED
  BY <1>1, <1>2, <1>3, <1>4 DEF Next

\* The tracked files stay a prefix, and there are never fewer of them.
LEMMA PrefixStays ==
  ASSUME MigrationsInv, [Next]_vars
  PROVE  (\E n \in 0..Last : IsPrefix(n))' /\ tracked \subseteq tracked'
<1>1. ASSUME NEW r \in Runners, Commit(r)
      PROVE  (\E n \in 0..Last : IsPrefix(n))' /\ tracked \subseteq tracked'
  <2>1. file[r] \in Files /\ tracked' = 1..file[r] /\ schema' = SchemaAfter(file[r])
    BY <1>1, CommitIsNextVersion
  <2>2. file[r] \in 0..Last
    BY <2>1 DEF Files, Last
  <2>3. tracked \subseteq tracked'
    BY <1>1 DEF Commit
  <2> QED
    BY <2>1, <2>2, <2>3 DEF IsPrefix, SchemaAfter
<1>2. CASE UNCHANGED <<tracked, schema>>
  BY <1>2 DEF IsPrefix, MigrationsInv, SchemaAfter
<1> QED
  BY <1>1, <1>2, OnlyCommitsMigrate

\* Somebody else's step leaves a runner in order.
LEMMA OrderStays ==
  ASSUME NEW r \in Runners, RunnerIsInOrder(r), MigrationsTypeOK',
         at'[r] = at[r], seen'[r] = seen[r], file'[r] = file[r],
         tracked \subseteq tracked'
  PROVE  RunnerIsInOrder(r)'
BY DEF RunnerIsInOrder, MigrationsTypeOK

\* The steps of a runner keep it in order.
LEMMA RunnerStaysInOrder ==
  ASSUME MigrationsInv, [Next]_vars, NEW r \in Runners
  PROVE  RunnerIsInOrder(r)'
<1>1. MigrationsTypeOK' /\ tracked \subseteq tracked'
  BY NextTyped, PrefixStays
<1>2. RunnerIsInOrder(r) /\ MigrationsTypeOK
  BY DEF MigrationsInv
<1>3. CASE List(r)
  BY <1>2, <1>3 DEF List, RunnerIsInOrder, MigrationsTypeOK, Files, Last
<1>4. CASE Begin(r)
  <2>1. /\ NextFile(r) \in Files /\ NextFile(r) > file[r]
        /\ \A g \in Pending(r) : NextFile(r) <= g
    BY <1>2, <1>4, NextFileIsLeast DEF Begin, Pending
  <2>2. ASSUME NEW g \in Files, g < NextFile(r) PROVE g \in tracked
    <3>1. g \notin Pending(r)
      BY <2>1, <2>2 DEF Files, Last
    <3>2. g <= file[r] \/ g \in seen[r]
      BY <1>2, <3>1 DEF Pending, Files, Last, MigrationsTypeOK
    <3>3. g < file[r] \/ g = file[r] \/ g \in seen[r]
      BY <1>2, <3>2 DEF Files, Last, MigrationsTypeOK
    <3> QED
      BY <1>2, <1>4, <3>3 DEF Begin, RunnerIsInOrder, Files, Last
  <2>3. /\ at'[r] = "applying" /\ file'[r] = NextFile(r) /\ seen'[r] = seen[r]
        /\ tracked' = tracked
    BY <1>2, <1>4 DEF Begin, MigrationsTypeOK
  <2>4. seen[r] \subseteq tracked
    BY <1>2, <1>4 DEF Begin, RunnerIsInOrder
  <2> QED
    BY <2>1, <2>2, <2>3, <2>4 DEF RunnerIsInOrder
<1>5. CASE Lock(r)
  BY <1>1, <1>2, <1>5, OrderStays DEF Lock
<1>6. CASE Commit(r)
  BY <1>2, <1>6 DEF Commit, Ready, RunnerIsInOrder, MigrationsTypeOK
<1>7. CASE RollBack(r)
  BY <1>2, <1>7 DEF RollBack, RunnerIsInOrder, MigrationsTypeOK
<1>8. CASE Finish(r)
  <2>1. \A g \in Files : g \in tracked
    <3>1. \A g \in Files : g <= file[r] \/ g \in seen[r]
      BY <1>2, <1>8 DEF Finish, Pending, Files, Last, MigrationsTypeOK
    <3>2. \A g \in Files : g < file[r] \/ g = file[r] \/ g \in seen[r]
      BY <1>2, <3>1 DEF Files, Last, MigrationsTypeOK
    <3> QED
      BY <1>2, <1>8, <3>2 DEF Finish, RunnerIsInOrder, Files, Last
  <2>2. tracked' = Files
    BY <1>2, <1>8, <2>1 DEF Finish, MigrationsTypeOK
  <2> QED
    BY <1>2, <1>8, <2>2 DEF Finish, RunnerIsInOrder, MigrationsTypeOK
<1>9. CASE Die(r)
  BY <1>2, <1>9 DEF Die, RunnerIsInOrder, MigrationsTypeOK
<1>10. ASSUME NEW q \in Runners, q # r, RunnerStep(q) \/ Die(q)
       PROVE  RunnerIsInOrder(r)'
  <2>1. at'[r] = at[r] /\ seen'[r] = seen[r] /\ file'[r] = file[r]
    BY <1>2, <1>10 DEF RunnerStep, List, Begin, Lock, Commit, RollBack, Finish,
                       Die, MigrationsTypeOK
  <2> QED
    BY <1>1, <1>2, <2>1, OrderStays
<1>11. ASSUME NEW a \in Applications, TakeInHand(a) \/ Insert(a) \/ Record(a)
       PROVE  RunnerIsInOrder(r)'
  BY <1>1, <1>2, <1>11, OrderStays DEF TakeInHand, Insert, Record, runnerVars
<1>12. ASSUME NEW q \in Runners, NEW a \in Applications, BreakDeadlock(q, a)
       PROVE  RunnerIsInOrder(r)'
  <2>1. seen' = seen /\ file' = file
    BY <1>12 DEF BreakDeadlock
  <2>2. CASE at'[r] = at[r]
    BY <1>1, <1>2, <2>1, <2>2, OrderStays
  <2>3. CASE at'[r] # at[r]
    <3>1. at'[r] = "failed"
      BY <1>2, <1>12, <2>3 DEF BreakDeadlock, MigrationsTypeOK
    <3> QED
      BY <3>1 DEF RunnerIsInOrder
  <2> QED
    BY <2>2, <2>3
<1>13. CASE UNCHANGED vars
  BY <1>1, <1>2, <1>13, OrderStays DEF vars, runnerVars
<1> QED
  BY <1>3, <1>4, <1>5, <1>6, <1>7, <1>8, <1>9, <1>10, <1>11, <1>12, <1>13
     DEF Next, RunnerStep

\* With agency_name every file is there, and nothing is left to commit.
LEMMA CompleteSchema ==
  ASSUME MigrationsInv, "candidates.agency_name" \in schema
  PROVE  tracked = Files /\ Recordable
<1>1. PICK n \in 0..Last : tracked = 1..n /\ schema = SchemaAfter(n)
  BY DEF MigrationsInv, IsPrefix
<1>2. n = Last
  BY <1>1, AgencyIsLast
<1> QED
  BY <1>1, <1>2, LastSchemaFits DEF Files, Recordable

LEMMA CompleteSchemaStays ==
  ASSUME MigrationsInv, [Next]_vars, "candidates.agency_name" \in schema
  PROVE  schema' = schema
<1>1. ASSUME NEW r \in Runners, Commit(r) PROVE FALSE
  <2>1. file[r] \in Files /\ file[r] \notin tracked
    BY <1>1, CommitIsNextVersion DEF Commit, Fails
  <2> QED
    BY <2>1, CompleteSchema
<1> QED
  BY <1>1, OnlyCommitsMigrate

\* Only a selection, which reads agency_name, takes an application in hand.
LEMMA HandsAreServed ==
  ASSUME MigrationsInv, [Next]_vars, NEW a \in Applications, post'[a] # "idle"
  PROVE  "candidates.agency_name" \in schema'
<1>1. CASE post[a] # "idle"
  BY <1>1, CompleteSchemaStays DEF MigrationsInv
<1>2. CASE post[a] = "idle"
  <2>1. ASSUME NEW r \in Runners, RunnerStep(r) \/ Die(r) PROVE post' = post
    BY <2>1 DEF RunnerStep, List, Begin, Lock, Commit, RollBack, Finish, Die
  <2>2. ASSUME NEW b \in Applications, TakeInHand(b)
        PROVE  "candidates.agency_name" \in schema'
    BY <2>2 DEF TakeInHand, Read
  <2>3. ASSUME NEW b \in Applications, Insert(b) \/ Record(b) PROVE post'[a] = "idle"
    BY <1>2, <2>3 DEF Insert, Record, MigrationsInv, MigrationsTypeOK
  <2>4. ASSUME NEW r \in Runners, NEW b \in Applications, BreakDeadlock(r, b)
        PROVE  post'[a] = "idle"
    BY <1>2, <2>4 DEF BreakDeadlock, Deadlocked, MigrationsInv, MigrationsTypeOK
  <2>5. CASE UNCHANGED vars
    BY <1>2, <2>5 DEF vars
  <2> QED
    BY <1>2, <2>1, <2>2, <2>3, <2>4, <2>5 DEF Next
<1> QED
  BY <1>1, <1>2

\* The conjunction is inductive.
LEMMA NextHolds == MigrationsInv /\ [Next]_vars => MigrationsInv'
<1> SUFFICES ASSUME MigrationsInv, [Next]_vars PROVE MigrationsInv'
  OBVIOUS
<1>1. MigrationsTypeOK'
  BY NextTyped
<1>2. (\E n \in 0..Last : IsPrefix(n))'
  BY PrefixStays
<1>3. \A r \in Runners : RunnerIsInOrder(r)'
  BY RunnerStaysInOrder
<1>4. \A a \in Applications : post'[a] # "idle" => "candidates.agency_name" \in schema'
  BY HandsAreServed
<1> QED
  BY <1>1, <1>2, <1>3, <1>4 DEF MigrationsInv

\* The invariant holds in every reachable state.
THEOREM MigrationsInvHolds == Spec => []MigrationsInv
<1>1. Init => MigrationsInv
  BY InitHolds
<1>2. MigrationsInv /\ [Next]_vars => MigrationsInv'
  BY NextHolds
<1> QED
  BY <1>1, <1>2, PTL DEF Spec

\* The tracking table and the schema move from one version to the next, with
\* any number of runners, killed anywhere (scripts/migrate.py).
THEOREM MigrationsImplementVersions == Spec => ImplementsSchemaVersions
<1>1. Init => Versions!SchemaInit
  BY SameFiles DEF Init, Versions!SchemaInit
<1>2. MigrationsInv /\ [Next]_vars => [Versions!Advance]_<<tracked, schema>>
  <2> SUFFICES ASSUME MigrationsInv, [Next]_vars
               PROVE  Versions!Advance \/ UNCHANGED <<tracked, schema>>
    OBVIOUS
  <2>1. ASSUME NEW r \in Runners, Commit(r) PROVE Versions!Advance
    <3>1. /\ file[r] \in Files /\ tracked = 1..(file[r] - 1)
          /\ tracked' = 1..file[r] /\ schema' = SchemaAfter(file[r])
      BY <2>1, CommitIsNextVersion DEF IsPrefix
    <3> QED
      BY <3>1, SameFiles DEF Versions!Advance, SchemaAfter
  <2> QED
    BY <2>1, OnlyCommitsMigrate
<1> QED
  BY <1>1, <1>2, MigrationsInvHolds, PTL
     DEF Spec, ImplementsSchemaVersions, Versions!VersionsSpec

\* Whoever may have an account at Benivo can be recorded (the columns that
\* candidate_repository.py reads come after those that record_post_result()
\* writes).
THEOREM HandsAreRecordable == Spec => []InHandIsRecordable
<1>1. MigrationsInv => InHandIsRecordable
  BY CompleteSchema DEF MigrationsInv, InHandIsRecordable
<1> QED
  BY <1>1, MigrationsInvHolds, PTL

\* Exit code 0 of migrate.py --apply means that no file is missing.
THEOREM DoneMeansComplete == Spec => []DoneIsComplete
<1>1. MigrationsInv => DoneIsComplete
  BY DEF MigrationsInv, RunnerIsInOrder, DoneIsComplete
<1> QED
  BY <1>1, MigrationsInvHolds, PTL

\* A record is lost to a runner only when that runner executes a tracked
\* file again.
THEOREM StaleRunnersOnly == Spec => LostOnlyToStaleRunner
<1>1. MigrationsInv /\ [Next]_vars =>
        [\A a \in Applications :
           post[a] # "lost" /\ post'[a] = "lost" =>
             \E r \in Runners : at[r] = "applying" /\ file[r] \in tracked]_vars
  <2> SUFFICES ASSUME MigrationsInv, Next, NEW a \in Applications,
                      post[a] # "lost", post'[a] = "lost"
               PROVE  \E r \in Runners : at[r] = "applying" /\ file[r] \in tracked
    BY DEF vars
  <2>1. ASSUME NEW r \in Runners, RunnerStep(r) \/ Die(r) PROVE post' = post
    BY <2>1 DEF RunnerStep, List, Begin, Lock, Commit, RollBack, Finish, Die
  <2>2. ASSUME NEW b \in Applications, TakeInHand(b) \/ Record(b)
        PROVE  post'[a] # "lost"
    BY <2>2 DEF TakeInHand, Record, MigrationsInv, MigrationsTypeOK
  <2>3. ASSUME NEW b \in Applications, Insert(b) PROVE post'[a] # "lost"
    <3>1. "candidates.agency_name" \in schema
      BY <2>3 DEF Insert, MigrationsInv
    <3>2. Recordable
      BY <3>1, CompleteSchema
    <3> QED
      BY <2>3, <3>2 DEF Insert, MigrationsInv, MigrationsTypeOK
  <2>4. ASSUME NEW r \in Runners, NEW b \in Applications, BreakDeadlock(r, b)
        PROVE  at[r] = "applying" /\ file[r] \in tracked
    <3>1. post[b] # "idle" /\ at[r] = "applying"
      BY <2>4 DEF BreakDeadlock, Deadlocked
    <3>2. tracked = Files
      BY <3>1, CompleteSchema DEF MigrationsInv
    <3> QED
      BY <3>1, <3>2 DEF MigrationsInv, RunnerIsInOrder
  <2> QED
    BY <2>1, <2>2, <2>3, <2>4 DEF Next
<1> QED
  BY <1>1, MigrationsInvHolds, PTL DEF Spec, LostOnlyToStaleRunner

-----------------------------------------------------------------------------
(***************************************************************************)
(* Waiting.                                                                *)
(***************************************************************************)
LockOrders ==
  {<<"candidates", "post_log">>, <<"candidates">>, <<"post_log">>, <<"scope_history">>}

LEMMA FilesLockInOrder ==
  ASSUME NEW f \in Files PROVE Script[f].locks \in LockOrders
<1>1. f \in {1, 2, 3, 4, 5, 6, 7, 8, 9, 10}
  BY DEF Files, Last
<1> QED
  BY <1>1 DEF Script, LockOrders

\* A runner holds no more than what its file asks for.
LocksAreOfFile == \A r \in Runners : at[r] = "applying" => got[r] <= Len(Locks(r))

LEMMA LocksAreOfFileStep ==
  ASSUME MigrationsInv, LocksAreOfFile, [Next]_vars PROVE LocksAreOfFile'
<1>1. MigrationsTypeOK /\ MigrationsInv'
  BY NextHolds DEF MigrationsInv
<1> SUFFICES ASSUME NEW r \in Runners, at'[r] = "applying"
             PROVE  got'[r] <= Len(Script[file'[r]].locks)
  BY DEF LocksAreOfFile, Locks
<1>2. CASE Begin(r)
  <2>1. got'[r] = 0 /\ file'[r] \in Files
    BY <1>1, <1>2 DEF Begin, MigrationsTypeOK, MigrationsInv, RunnerIsInOrder
  <2> QED
    BY <2>1, ScriptFacts
<1>3. CASE Lock(r)
  <2>1. file[r] \in Files /\ got[r] \in 0..2
    BY <1>1, <1>3 DEF Lock, MigrationsTypeOK, MigrationsInv, RunnerIsInOrder
  <2>2. got'[r] = got[r] + 1 /\ file' = file /\ got[r] < Len(Locks(r))
    BY <1>1, <1>3 DEF Lock, MigrationsTypeOK
  <2> QED
    BY <2>1, <2>2, ScriptFacts DEF Locks
<1>4. CASE at[r] = "applying" /\ file'[r] = file[r] /\ got'[r] = got[r]
  BY <1>4 DEF LocksAreOfFile, Locks
<1>5. ASSUME NEW q \in Runners, RunnerStep(q) \/ Die(q), ~Begin(r), ~Lock(r)
      PROVE  at[r] = "applying" /\ file'[r] = file[r] /\ got'[r] = got[r]
  BY <1>1, <1>5 DEF RunnerStep, List, Begin, Lock, Commit, RollBack, Finish, Die,
                    MigrationsTypeOK
<1>6. ASSUME \/ \E a \in Applications : TakeInHand(a) \/ Insert(a) \/ Record(a)
             \/ \E q \in Runners, a \in Applications : BreakDeadlock(q, a)
             \/ UNCHANGED vars
      PROVE  at[r] = "applying" /\ file'[r] = file[r] /\ got'[r] = got[r]
  BY <1>1, <1>6 DEF TakeInHand, Insert, Record, BreakDeadlock, runnerVars, vars,
                    MigrationsTypeOK
<1> QED
  BY <1>2, <1>3, <1>4, <1>5, <1>6 DEF Next

\* Who holds a lock and still waits has candidates, and waits for post_log;
\* who holds post_log waits for nothing.
LEMMA Holders ==
  ASSUME MigrationsInv, LocksAreOfFile, NEW q \in Runners, NEW t \in Held(q)
  PROVE  \/ Ready(q)
         \/ /\ at[q] = "applying" /\ got[q] = 1
            /\ Locks(q) = <<"candidates", "post_log">>
            /\ t = "candidates"
<1>1. at[q] = "applying" /\ \E i \in 1..got[q] : t = Locks(q)[i]
  BY DEF Held
<1>2. got[q] \in 0..2 /\ file[q] \in Files /\ got[q] <= Len(Locks(q))
  BY <1>1 DEF MigrationsInv, MigrationsTypeOK, RunnerIsInOrder, LocksAreOfFile
<1>3. Locks(q) \in LockOrders
  BY <1>2, FilesLockInOrder DEF Locks
<1>4. CASE Locks(q) = <<"candidates", "post_log">>
  <2>1. Len(Locks(q)) = 2 /\ Locks(q)[1] = "candidates"
    BY <1>4
  <2>2. got[q] = 2 \/ got[q] = 1
    BY <1>1, <1>2
  <2>3. CASE got[q] = 1
    BY <1>1, <1>4, <2>1, <2>3
  <2> QED
    BY <1>1, <2>1, <2>2, <2>3 DEF Ready
<1>5. CASE Locks(q) # <<"candidates", "post_log">>
  <2>1. Len(Locks(q)) = 1
    BY <1>3, <1>5 DEF LockOrders
  <2> QED
    BY <1>1, <1>2, <2>1 DEF Ready
<1> QED
  BY <1>4, <1>5

LEMMA WaitsEndNow ==
  ASSUME MigrationsInv, LocksAreOfFile PROVE WaitsEnd
<1>1. ASSUME NEW r \in Runners, NEW q \in Runners, Blocks(q, r)
      PROVE  \/ Ready(q)
             \/ Lockable(Locks(q)[got[q] + 1])
             \/ \E s \in Runners : Blocks(s, q) /\ Ready(s)
             \/ \E a \in Applications : Deadlocked(q, a)
  <2> SUFFICES ASSUME ~Ready(q), ~Lockable(Locks(q)[got[q] + 1])
               PROVE  \/ \E s \in Runners : Blocks(s, q) /\ Ready(s)
                      \/ \E a \in Applications : Deadlocked(q, a)
    OBVIOUS
  <2>1. at[q] = "applying" /\ got[q] = 1 /\ Locks(q) = <<"candidates", "post_log">>
    BY <1>1, Holders DEF Blocks
  <2>2. Locks(q)[got[q] + 1] = "post_log" /\ got[q] < Len(Locks(q))
    BY <2>1
  <2>3. CASE \E a \in Applications : post[a] = "inserted"
    BY <2>1, <2>3 DEF Deadlocked
  <2>4. CASE ~Accessible("post_log")
    <3>1. PICK s \in Runners : "post_log" \in Held(s)
      BY <2>4 DEF Accessible
    <3>2. Ready(s)
      BY <3>1, Holders
    <3> QED
      BY <2>1, <2>2, <3>1, <3>2 DEF Blocks
  <2> QED
    BY <2>2, <2>3, <2>4 DEF Lockable
<1>2. ASSUME NEW r \in Runners, NEW a \in Applications, KeepsOut(a, r),
             ~Accessible("candidates")
      PROVE  \E q \in Runners : "candidates" \in Held(q) /\ (Ready(q) \/ Deadlocked(q, a))
  <2>1. PICK q \in Runners : "candidates" \in Held(q)
    BY <1>2 DEF Accessible
  <2> QED
    BY <1>2, <2>1, Holders DEF KeepsOut, Deadlocked
<1> QED
  BY <1>1, <1>2 DEF WaitsEnd, NoCircleOfRunners, NoCircleWithService

\* Any number of runners and of transactions of the service: whoever waits
\* waits for one who goes on, for one who waits for such, or in the deadlock
\* that PostgreSQL breaks.  This is what RunnersEnd needs besides fairness.
THEOREM NobodyWaitsInACircle == Spec => []WaitsEnd
<1>1. Init => LocksAreOfFile
  BY DEF Init, LocksAreOfFile
<1>2. MigrationsInv /\ LocksAreOfFile /\ [Next]_vars => LocksAreOfFile'
  BY LocksAreOfFileStep
<1>3. MigrationsInv /\ LocksAreOfFile => WaitsEnd
  BY WaitsEndNow
<1> QED
  BY <1>1, <1>2, <1>3, MigrationsInvHolds, PTL DEF Spec

=============================================================================
