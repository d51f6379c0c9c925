SPECIFICATION Spec
CONSTANTS
  Sessions = {s1}
  MaxRingSize = 2
  MaxBroadcast = 1
  ChanCap = 1
  HistoryLimit = 2
  MaxEntries = 3
  Viewers <- Anonymous
  StoreMayFail = FALSE
INVARIANTS
  NoDoubleClose
