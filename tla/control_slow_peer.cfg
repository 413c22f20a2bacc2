SPECIFICATION SlowSpec
CONSTANTS
  MaxConns = 2
  MaxReq = 3
  MaxBacklog = 1
  MaxTicks = 0
  QueueCap = 4
  AcceptBatch = 1
  ReadBatch = 2
  DecodeBatch = 2
  Happens = {"expiry"}
  SendBuf = 1
  Pieces = 1
PROPERTY OthersGoOut
