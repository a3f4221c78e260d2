CONSTANTS
  s1 = s1
  s2 = s2
  f1 = f1
  f2 = f2
  Steers <- TwoSteers
  FollowUps <- OneFollowUp
  OneAtATime = FALSE
  LeaksDetected = TRUE
  CallsMayFail = FALSE
  SetupMayFail = FALSE
  MaxPauses = 1
  MaxAborts = 0
SPECIFICATION Spec
PROPERTY InjectedAreAnswered
CHECK_DEADLOCK FALSE
