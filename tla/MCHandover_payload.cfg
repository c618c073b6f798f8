\* Two candidates, any of seven rows, office lists that come and go, the turn of
\* the year, and everything an operator may look at before a run.
SPECIFICATION Spec
CONSTANTS
  c1 = c1
  c2 = c2
  Candidates = {c1, c2}
  Rows <- SomeRows
  RefData <- Lists
  StartMonth <- November
  MaxChanges = 1
SYMMETRY Alike
INVARIANTS
  ReviewedIsSent
  DryRunIsSent
  ReadyIsNotRejected
  DatesAreOfOneRun
  ClassifiesAsDomain
  RejectedAsDomain
