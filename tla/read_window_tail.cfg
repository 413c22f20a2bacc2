SPECIFICATION Spec
CONSTANTS
  MaxPayload = 2
  Slack = 6
  ReadLimit = 6
  DecodeBatch = 4
  MaxFrames = 3
CHECK_DEADLOCK FALSE
INVARIANT NoPacketLost
