CONSTANTS
  j1 = j1
  j2 = j2
  j3 = j3
  a1 = a1
  a2 = a2
  t1 = t1
  None = None
  Jobs <- MCJobs
  Spawns <- MCSpawns
  Owners <- MCOwners
  OwnerOf <- MCOwnerOf
  MaxId = 2
  MaxRunningJobs = 1
  TaskTools <- OneTool
  ToolOf <- MCToolOf
  SpawnSlots <- OnePermit
  MaxFailures = 1
  Retains = TRUE
  AbortIsPrompt = TRUE
SPECIFICATION Spec
INVARIANTS
  TypeOK
  DeliveriesDriven
  OneDeliveryPerJob
  OnlyFinishedDelivered
  RunningListed
PROPERTIES
  NoCallWhileSuppressed
CHECK_DEADLOCK FALSE
