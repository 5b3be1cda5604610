SPECIFICATION MCSpec
CONSTANTS
  a = a
  b = b
  w = w
  r1 = r1
  r2 = r2
  None = None
  Conn = {a, b, w}
  Room = {r1}
  Caps = {2}
  Viewers = {}
  Version <- OddVersion
  MAX_TOTAL_PLAYERS = 3
  MAX_TOTAL_ROOMS = 1
SYMMETRY PairSymmetry
INVARIANTS
  TypeOK
  SeatsCovered
  NotOverbooked
  HostLinked
  SameVersion
