SPECIFICATION MCCalmSpec
CONSTANTS
  a = a
  b = b
  w = w
  r1 = r1
  r2 = r2
  None = None
  Conn = {a, b, w}
  Room = {r1, r2}
  Caps = {2, 3}
  Viewers = {w}
  Version <- OneVersion
  MAX_TOTAL_PLAYERS = 3
  MAX_TOTAL_ROOMS = 2
SYMMETRY CalmSymmetry
INVARIANTS
  SeatsExact
  NoOrphanRoom
PROPERTY EvictsOnlyExpired
