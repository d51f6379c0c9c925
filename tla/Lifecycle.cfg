SPECIFICATION FairSpec
CONSTANTS
  PublicURL = TRUE
  Capacity = 1
  MaxStarts = 2
  MaxUpdates = 2
INVARIANTS
  TypeOK
PROPERTIES
  ImplementsQueue
  QuietSwap
  AcceptedTaken
  CallsReturn
  HookSettles
CHECK_DEADLOCK FALSE
