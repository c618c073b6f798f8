\* One request times out; nothing else goes wrong.
SPECIFICATION Spec
CONSTANTS
  c1 = c1
  c2 = c2
  m1 = m1
  m2 = m2
  r1 = r1
  r2 = r2
  r3 = r3
  r4 = r4
  Candidates = {c1, c2}
  Emails = {m1, m2}
  EmailOf <- OwnAddress
  SourceRows <- EligibleOnly
  Runs = {r1, r2}
  MaxCandidates = 2
  GoLive <- Unset
  MaxEdits = 0
  MaxClock = 0
  Command <- TwoRuns
  DryRun = FALSE
  Overlap = FALSE
  Recurring = FALSE
  Faults = {"timeout"}
  MaxFaults = 1
  RefusesDuplicates = FALSE
  Selection <- NormalSelection
  Explicit <- NoFile
INVARIANTS
  AttemptsAreRecorded
CHECK_DEADLOCK FALSE
