SPECIFICATION FeedSpec
CONSTANTS
  a = a
  b = b
  w = w
  r1 = r1
  r2 = r2
  None = None
  Nothing = Nothing
  Behind = Behind
  Conn = {a, w}
  Room = {r1, r2}
  Caps = {2}
  Viewers = {w}
  Version <- OneVersion
  MAX_TOTAL_PLAYERS = 2
  MAX_TOTAL_ROOMS = 2
INVARIANT FeedConverges
