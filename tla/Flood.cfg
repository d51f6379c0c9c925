SPECIFICATION FairSpec
CONSTANTS
  Users = {u1, u2, u3}
  Chats = {g1, g2}
  Minute = 2
  Threshold = 2
INVARIANTS
  TypeOK
PROPERTIES
  ImplementsAlarm
  ImplementsFairAlarm
  NoneAssessedInFlood
