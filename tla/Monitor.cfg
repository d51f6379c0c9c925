SPECIFICATION FairSpec
CONSTANTS
  People = {u1}
  Bots = {b1}
  VerifyBots = {b1}
  NoOne = NoOne
  Chats = {g1}
  MaxUpdates = 2
  MaxDrops = 1
INVARIANTS
  InstantEffect
  NewUserOnce
  NewcomerFlagged
  MembersSpared
PROPERTIES
  JoinsReported
