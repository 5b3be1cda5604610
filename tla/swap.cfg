SPECIFICATION FairSpec
CONSTANTS
  MaxSent = 2
  MaxDropped = 1
INVARIANTS TypeOK NothingVanishes GapHasCause JoinerNotAlone
PROPERTIES StreamSpec EndsTogether DrainEnds StrategiesEnd
CHECK_DEADLOCK FALSE
