CONSTANTS
  i1 = i1
  i2 = i2
  N = 3
  IssueOf <- MCIssueOf
  Slots = 1
  MaxRetries = 1
  MaxCancels = 1
  MaxStops = 1
SPECIFICATION FairSpec
INVARIANTS
  TypeOK
  OneRunPerIssue
  RowFollowsRun
  CancelReachesOmp
PROPERTIES
  CancelledNotDone
  EventsFinish
CHECK_DEADLOCK FALSE
