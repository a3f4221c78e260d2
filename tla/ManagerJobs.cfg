CONSTANTS
  j1 = j1
  j2 = j2
  j3 = j3
  a1 = a1
  a2 = a2
  t1 = t1
  None = None
  Jobs <- MCJobs3
  Spawns <- MCSpawns3
  Owners <- MCOwners
  OwnerOf <- MCOwnerOf3
  MaxId = 3
  MaxRunningJobs = 1
  TaskTools <- OneTool
  ToolOf <- MCToolOf3
  SpawnSlots <- OnePermit
  MaxFailures = 0
  Retains = TRUE
  AbortIsPrompt = TRUE
SPECIFICATION FairJobsSpec
INVARIANTS
  RunningBound
  DisposeCancelsAll
PROPERTIES
  DisposeTerminates
  RecordsExpire
  DeliveriesEnd
CHECK_DEADLOCK FALSE
