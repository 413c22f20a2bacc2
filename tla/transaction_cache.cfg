SPECIFICATION Spec
CONSTANTS
  UdpKeys = {u1, u2}
  TcpKeys = {t1, t2}
  Contents = {a, b}
  Timeout = 4
  CacheCap = 3
  Faults = {"send", "outbox", "clone"}
INVARIANT TypeOK
INVARIANT Remembered
PROPERTY SameAnswer
