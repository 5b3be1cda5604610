SPECIFICATION MCFairSpec
CONSTANTS
  a = a
  b = b
  w = w
  r1 = r1
  r2 = r2
  None = None
  Conn = {a, b}
  Room = {r1, r2}
  Caps = {2}
  Viewers = {}
  Version <- OneVersion
  MAX_TOTAL_PLAYERS = 2
  MAX_TOTAL_ROOMS = 2
INVARIANTS
  OneRoomPerHost
  Inv
PROPERTIES
  SeatsSpec
  DisconnectedLeaves
  AbandonedRoomCloses

