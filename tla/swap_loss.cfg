SPECIFICATION CalmSpec
CONSTANTS
  MaxSent = 2
  MaxDropped = 0
INVARIANT NoLoss
CHECK_DEADLOCK FALSE
