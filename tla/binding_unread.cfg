SPECIFICATION Spec
CONSTANTS
  a = a
  b = b
  six = six
  any = any
  Nowhere = Nowhere
  MaxAnswers = 1
  Configs <- MCConfigs
  V6 <- MCV6
  Wild <- MCWild
  Requests <- MCRequests
  Ephemeral = {1, 2}
  Faults = {"worker", "udp", "sender", "tcp"}
INVARIANT NoneUnread
CHECK_DEADLOCK FALSE
