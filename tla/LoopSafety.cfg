CONSTANTS
  s1 = s1
  s2 = s2
  f1 = f1
  f2 = f2
  Steers <- TwoSteers
  FollowUps <- TwoFollowUps
  OneAtATime = TRUE
  LeaksDetected = TRUE
  CallsMayFail = TRUE
  SetupMayFail = TRUE
  MaxPauses = 1
  MaxAborts = 2
SPECIFICATION Spec
INVARIANTS
  TypeOK
  QueuesAreFaithful
PROPERTY
  AbortSparesQueues
CHECK_DEADLOCK FALSE
