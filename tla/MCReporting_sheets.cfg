\* Two overlapping runs that post and report, one of which a create-user may
\* fail; candidates first seen before or after the go-live, one of them moving on.
SPECIFICATION ReportingSpec
CONSTANTS
  c1 = c1
  c2 = c2
  m1 = m1
  m2 = m2
  r1 = r1
  r2 = r2
  r3 = r3
  r4 = r4
  Candidates = {c1, c2}
  Emails = {m1, m2}
  EmailOf <- OwnAddress
  SourceRows <- EligibleOrMoved
  Runs = {r1, r2}
  MaxCandidates = 2
  GoLive = 1
  MaxEdits = 1
  MaxClock = 1
  Command <- TwoRuns
  DryRun = FALSE
  Overlap = TRUE
  Recurring = FALSE
  Faults = {"create", "kill"}
  MaxFaults = 1
  RefusesDuplicates = FALSE
  Selection <- NormalSelection
  Explicit <- NoFile
INVARIANTS
  ResultsAreFinal
  SelectionIsReported
  PostedLabelIsBacked
  SelectedIsNotBacklog
  DeliveredOnce
PROPERTIES
  ImplementsPipeline
CHECK_DEADLOCK FALSE
