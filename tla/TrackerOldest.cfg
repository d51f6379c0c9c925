SPECIFICATION Spec
CONSTANTS
  Users = {u1}
  Chats = {g1, g2}
  Calls = {c1}
  Day = 4
  Second = 2
  MaxTime = 12
  StoreMayFail = TRUE
INVARIANTS
  TrackedADay
