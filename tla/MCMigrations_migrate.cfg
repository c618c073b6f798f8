\* Two runners at once on the database 0001 to 0004 were applied to by hand;
\* one may be killed; two applications are posted beside them.
SPECIFICATION FairSpec
CONSTANTS
  ByHand = 4
  Runners = {r1, r2}
  Applications = {a1, a2}
  MaxCrashes = 1
  r1 = r1
  r2 = r2
  a1 = a1
  a2 = a2
INVARIANTS
  InHandIsRecordable
  DoneIsComplete
  WaitsEnd
PROPERTIES
  ImplementsSchemaVersions
  LostOnlyToStaleRunner
  RunnersEnd
CHECK_DEADLOCK FALSE
