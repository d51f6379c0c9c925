SPECIFICATION FairSpec
CONSTANTS
  Sessions = {s1, s2}
  MaxRingSize = 1
  MaxBroadcast = 1
  ChanCap = 1
  HistoryLimit = 0
  MaxEntries = 2
  Viewers <- Anonymous
  StoreMayFail = TRUE
PROPERTIES
  QueueDrains
  SubscribeCompletes
  ImplementsFairFeed
