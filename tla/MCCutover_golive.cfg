\* The documented order: migration, backfill, files and go-live, with a
\* synchronization at any moment of it, one crash anywhere, and a run after it;
\* invocations one at a time.  The release before left ready and posted rows
\* behind, or log rows alone.
SPECIFICATION CutoverSpec
CONSTANTS
  c1 = c1
  c2 = c2
  m1 = m1
  m2 = m2
  r1 = r1
  r2 = r2
  r3 = r3
  r4 = r4
  Candidates = {c1, c2}
  Emails = {m1, m2}
  EmailOf <- OwnAddress
  SourceRows <- EligibleOrMoved
  Runs = {r1, r2, r3}
  MaxCandidates = 2
  GoLive = 1
  MaxEdits = 2
  MaxClock = 1
  Command <- SyncThenRun
  DryRun = FALSE
  Overlap = FALSE
  Recurring = FALSE
  Faults = {"kill"}
  MaxFaults = 1
  RefusesDuplicates = FALSE
  Selection <- ThreeNormal
  Explicit <- ThreeNoFile
  Disciplined = TRUE
  Earlier = r3
  Groups <- SerbiaOnly
  GroupOf <- OneGroup
  Legacy <- ReadyOnly
SYMMETRY Swap
INVARIANTS
  BaselineIsNeverTaken
  OneRouteOnly
  BacklogStaysOut
  NothingWithoutHistory
PROPERTIES
  FirstSeenIsKept
CHECK_DEADLOCK FALSE
