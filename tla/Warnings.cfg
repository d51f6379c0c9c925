SPECIFICATION FairSpec
CONSTANTS
  Assessments = {a1}
  Floods = {f1}
  Bots = {b1, b2}
  NoBot = NoBot
  MaxRetries = 2
  MaxRequests = 2
  MaxDrops = 1
INVARIANTS Accounted
PROPERTIES OffIsOff AssessmentReported WarningsEnd
