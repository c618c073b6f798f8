\* Dry runs for ever while the ETL takes one candidate through any three of
\* the rows that classify() tells apart, the deleted row among them.
SPECIFICATION FairSpec
CONSTANTS
  c1 = c1
  c2 = c2
  m1 = m1
  m2 = m2
  r1 = r1
  r2 = r2
  r3 = r3
  r4 = r4
  Candidates = {c1}
  Emails = {m1}
  EmailOf <- OneAddress
  SourceRows <- EveryVerdict
  Runs = {r1}
  MaxCandidates = 2
  GoLive <- Unset
  MaxEdits = 2
  MaxClock = 0
  Command <- OneRun
  DryRun = TRUE
  Overlap = FALSE
  Recurring = TRUE
  Faults = {}
  MaxFaults = 0
  RefusesDuplicates = FALSE
  Selection <- OneNormal
  Explicit <- OneNoFile
PROPERTIES
  StatusSettles
