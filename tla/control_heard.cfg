SPECIFICATION FairSpec
CONSTANTS
  MaxConns = 1
  MaxReq = 2
  MaxBacklog = 1
  MaxTicks = 0
  QueueCap = 2
  AcceptBatch = 1
  ReadBatch = 1
  DecodeBatch = 1
  Happens = {}
  SendBuf = 1
  Pieces = 1
PROPERTY RequestsHeard
