SPECIFICATION Spec
CONSTANTS
  MaxSessions = 1
  MaxClicks = 1
  MaxTunnels = 3
INVARIANT NoGhost
CHECK_DEADLOCK FALSE
