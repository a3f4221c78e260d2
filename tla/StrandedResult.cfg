CONSTANTS
  j1 = j1
  j2 = j2
  a1 = a1
  p1 = p1
  p2 = p2
  None = None
  Jobs <- MCJobs
  Spawns <- NoSpawns
  Owners <- MCOwners
  OwnerOf <- MCOwnerOf
  MaxId = 2
  MaxRunningJobs = 2
  TaskTools <- NoTools
  ToolOf <- MCToolOf
  SpawnSlots <- NoPermits
  MaxFailures = 0
  Retains = TRUE
  AbortIsPrompt = TRUE
  Polls <- OnePoll
  MaxAborts = 0
  MaxErrors = 0
  TurnsAreShort = TRUE
  ResumeIsPrompt = TRUE
SPECIFICATION UnattendedSpec
PROPERTY ResultsReachTheModel
CHECK_DEADLOCK FALSE
