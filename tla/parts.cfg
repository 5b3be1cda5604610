SPECIFICATION PartsSpec
CONSTANTS
  c1 = c1
  c2 = c2
  c3 = c3
  c4 = c4
  x = x
  y = y
  nginx = nginx
  none = none
  NoFields = NoFields
  Conn = {c1, c2, c3, c4}
  IP = {x, y}
  Loopback = nginx
  NoHeader = none
  MaxPerIp = 2
  MaxMessages = 2
  Second = 3
  Horizon = 9
  Group = 2
  HeaderLen = 3
  SettingsLen = 2
  Magic <- SomeMagic
  Fields <- SomeFields
  Query = {"q"}
  MaxEntries = 5
  MinEntries = 2
  LargestEntries = 3
INVARIANTS SlotsExact BurstBounded ReadsWhatWasAnnounced ShowsWhatPasses
CHECK_DEADLOCK FALSE
