\* Two runs, one after the other; between them the relocation field of a
\* candidate is blanked in Jobvite.
SPECIFICATION Spec
CONSTANTS
  c1 = c1
  c2 = c2
  m1 = m1
  m2 = m2
  r1 = r1
  r2 = r2
  r3 = r3
  r4 = r4
  Candidates = {c1, c2}
  Emails = {m1, m2}
  EmailOf <- OwnAddress
  SourceRows <- EligibleOrBlanked
  Runs = {r1, r2}
  MaxCandidates = 2
  GoLive <- Unset
  MaxEdits = 1
  MaxClock = 0
  Command <- TwoRuns
  DryRun = FALSE
  Overlap = FALSE
  Recurring = FALSE
  Faults = {}
  MaxFaults = 0
  RefusesDuplicates = FALSE
  Selection <- NormalSelection
  Explicit <- NoFile
PROPERTIES
  OnlyInScopeIsSelected
CHECK_DEADLOCK FALSE
