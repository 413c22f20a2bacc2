SPECIFICATION Spec
CONSTANTS
  MaxConns = 2
  MaxReq = 2
  MaxBacklog = 1
  MaxTicks = 0
  QueueCap = 2
  AcceptBatch = 1
  ReadBatch = 2
  DecodeBatch = 2
  Happens = {"end", "failure"}
  SendBuf = 1
  Pieces = 2
PROPERTY ServiceKept
INVARIANT TypeOK
INVARIANT WholeFrames
INVARIANT RepliesKept
INVARIANT HandlerTracksTable
INVARIANT WriteNotForgotten
INVARIANT EndNotForgotten
