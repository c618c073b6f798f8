\* Two invocations of `run` at the same time (cron, or an operator beside the
\* timer); two applications of one person; every kind of failure, two of them.
SPECIFICATION Spec
CONSTANTS
  c1 = c1
  c2 = c2
  m1 = m1
  m2 = m2
  r1 = r1
  r2 = r2
  r3 = r3
  r4 = r4
  Candidates = {c1, c2}
  Emails = {m1, m2}
  EmailOf <- SharedAddress
  SourceRows <- EligibleOnly
  Runs = {r1, r2}
  MaxCandidates = 2
  GoLive <- Unset
  MaxEdits = 0
  MaxClock = 0
  Command <- TwoRuns
  DryRun = FALSE
  Overlap = TRUE
  Recurring = FALSE
  Faults = {"kill", "auth", "timeout", "refdata", "lookup", "create", "lost_reply", "patch"}
  MaxFaults = 2
  RefusesDuplicates = FALSE
  Selection <- NormalSelection
  Explicit <- NoFile
INVARIANTS
  TypeOK
  OneTerminalRow
  PostedIsLogged
  LogIsBacked
  MemoryIsBacked
  CaseRowPairsWithSuccess
PROPERTIES
  ImplementsLedger
  SettledIsLeftAlone
CHECK_DEADLOCK FALSE
