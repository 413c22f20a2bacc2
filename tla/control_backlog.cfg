SPECIFICATION Spec
CONSTANTS
  MaxConns = 3
  MaxReq = 1
  MaxBacklog = 3
  MaxTicks = 0
  QueueCap = 2
  AcceptBatch = 2
  ReadBatch = 1
  DecodeBatch = 1
  Happens = {}
  SendBuf = 1
  Pieces = 1
INVARIANT BacklogNotForgotten
