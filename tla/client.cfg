SPECIFICATION Spec
CONSTANTS
  MaxSessions = 2
  MaxClicks = 2
  MaxTunnels = 2
INVARIANTS ClientTypeOK GhostHasCause InjectionHasTunnel RegisteredIsTrue RegistersOnce
CHECK_DEADLOCK FALSE
