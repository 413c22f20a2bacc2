SPECIFICATION FairSpec
CONSTANTS
  MaxConns = 2
  MaxReq = 2
  MaxBacklog = 3
  MaxTicks = 0
  QueueCap = 3
  AcceptBatch = 2
  ReadBatch = 2
  DecodeBatch = 2
  Happens = {"udp", "stop", "expiry"}
  SendBuf = 1
  Pieces = 2
PROPERTY StopEnds
PROPERTY LateIsCut
PROPERTY BufferFlushes
PROPERTY TicksEnd
PROPERTY RepliesGoOut
INVARIANT OnlyPastBatchWaits
CONSTRAINT FewAtOnce
