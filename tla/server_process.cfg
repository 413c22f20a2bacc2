SPECIFICATION Spec
CONSTANTS
  Count = 2
  Batch = 2
  MaxQueue = 3
INVARIANT TypeOK
INVARIANT NoneLeftBehind
INVARIANT OnlyWhenAsked
INVARIANT OnlyPastBatchIsLeft
PROPERTY EndsWhenAsked
CHECK_DEADLOCK FALSE
