CONSTANTS
  Users = 2
  M = 3
  Senders <- TwoWrite
  Capacity = 2
  MaxPosts = 1
  MaxOwn = 1
  MaxPieces = 1
  HooksArePrompt = TRUE
SPECIFICATION FairSpec
INVARIANTS
  TypeOK
  NoneLostUnseen
  InOrder
  AnswerIsOut
PROPERTIES
  CatchesUp
CHECK_DEADLOCK FALSE
