SPECIFICATION CalmSpec
CONSTANTS
  MaxSent = 1
  MaxDropped = 0
INVARIANT FallsBackToRelay
CHECK_DEADLOCK FALSE
