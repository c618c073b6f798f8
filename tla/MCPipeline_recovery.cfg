\* The timer fires for ever; two failures may strike anywhere.  Room for both
\* candidates in one run, and a Benivo that refuses a second account.
SPECIFICATION FairSpec
CONSTANTS
  c1 = c1
  c2 = c2
  m1 = m1
  m2 = m2
  r1 = r1
  r2 = r2
  r3 = r3
  r4 = r4
  Candidates = {c1, c2}
  Emails = {m1, m2}
  EmailOf <- OwnAddress
  SourceRows <- EligibleOrNameless
  Runs = {r1}
  MaxCandidates = 2
  GoLive <- Unset
  MaxEdits = 0
  MaxClock = 0
  Command <- OneRun
  DryRun = FALSE
  Overlap = FALSE
  Recurring = TRUE
  Faults = {"kill", "timeout", "lost_reply", "patch"}
  MaxFaults = 2
  RefusesDuplicates = TRUE
  Selection <- OneNormal
  Explicit <- OneNoFile
PROPERTIES
  ReadyIsAttempted
  OpenedIsPosted
