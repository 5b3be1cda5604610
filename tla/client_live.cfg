SPECIFICATION FairSpec
CONSTANTS
  MaxSessions = 2
  MaxClicks = 2
  MaxTunnels = 0
PROPERTIES SpinnerEnds RegisterHappens
CHECK_DEADLOCK FALSE
