SPECIFICATION Spec
CONSTANTS
  MaxPayload = 2
  Slack = 3
  ReadLimit = 6
  DecodeBatch = 2
  MaxFrames = 3
INVARIANT TypeOK
INVARIANT NeverWedged
INVARIANT InStep
INVARIANT LockstepLosesNothing
CHECK_DEADLOCK FALSE
