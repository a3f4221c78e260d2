CONSTANTS
  s1 = s1
  s2 = s2
  f1 = f1
  f2 = f2
  Steers <- TwoSteers
  FollowUps <- TwoFollowUps
  OneAtATime = TRUE
  LeaksDetected = FALSE
  CallsMayFail = FALSE
  SetupMayFail = FALSE
  MaxPauses = 1
  MaxAborts = 0
SPECIFICATION Unattended
INVARIANT OneSteerPerCall
PROPERTY PromptDrains
CHECK_DEADLOCK FALSE
