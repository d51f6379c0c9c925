SPECIFICATION Spec
CONSTANTS
  Sessions = {s1, s2}
  MaxRingSize = 2
  MaxBroadcast = 1
  ChanCap = 1
  HistoryLimit = 2
  MaxEntries = 3
  Viewers <- BothViewers
  StoreMayFail = TRUE
SYMMETRY Symmetry
PROPERTIES
  ImplementsFeed
INVARIANTS
  TypeOK
  RingHoldsLatest
  StreamContiguous
  HistoryBeforeStream
  NoSendOnClosed
