SPECIFICATION FairSpec
CONSTANTS
  a = a
  b = b
  x = x
  t1 = t1
  None = None
  Conn = {a, b, x}
  Token = {t1}
  TokenOf <- OneToken
  Genuine = {a, b, x}
  RELAY_CHANNEL_SIZE = 1
INVARIANTS TypeOK WaitersWait RelaysPair TunnelInvariant
PROPERTIES FirstSeesTheEnd WaitEnds PendingEnds
