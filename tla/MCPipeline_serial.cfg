\* Four invocations of `run`, one at a time and in any order (the systemd oneshot
\* unit, and an operator beside it): the query, a batch in file order, a batch file
\* with a duplicate, a UAT candidate; the ETL moving a candidate on, crashes and lost
\* answers.  The lookup answers truthfully; Benivo would accept an address twice.
SPECIFICATION Spec
CONSTANTS
  c1 = c1
  c2 = c2
  m1 = m1
  m2 = m2
  r1 = r1
  r2 = r2
  r3 = r3
  r4 = r4
  Candidates = {c1, c2}
  Emails = {m1, m2}
  EmailOf <- SharedAddress
  SourceRows <- EligibleOrMoved
  Runs = {r1, r2, r3, r4}
  MaxCandidates = 2
  GoLive <- Unset
  MaxEdits = 1
  MaxClock = 0
  Command <- EveryRun
  DryRun = FALSE
  Overlap = FALSE
  Recurring = FALSE
  Faults = {"kill", "timeout", "create", "lost_reply", "patch", "refdata"}
  MaxFaults = 2
  RefusesDuplicates = FALSE
  Selection <- EveryRoute
  Explicit <- FilesAndUat
INVARIANTS
  LoggedIsPosted
  OneAccountPerAddress
  ReadyIsCachedInMobility
  ExplicitStaysWithinFile
  InHandIsUnlogged
PROPERTIES
  PostedIsTerminal
CHECK_DEADLOCK FALSE
