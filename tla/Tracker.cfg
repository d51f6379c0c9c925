SPECIFICATION FairSpec
CONSTANTS
  Users = {u1}
  Chats = {g1}
  Calls = {c1, c2}
  Day = 4
  Second = 2
  MaxTime = 9
  StoreMayFail = TRUE
INVARIANTS
  TrackedADay
  NewHasRow
PROPERTIES
  OnceADay
  ExpiredLeave
