SPECIFICATION Spec
CONSTANTS
  a = a
  b = b
  six = six
  any = any
  Nowhere = Nowhere
  MaxAnswers = 1
  Configs <- MCConfigs
  V6 <- MCV6
  Wild <- MCWild
  Requests <- MCRequests
  Ephemeral = {1, 2}
  Faults = {"worker", "udp", "sender", "tcp"}
INVARIANT TypeOK
INVARIANT SameAnswerEverywhere
INVARIANT ConfiguredIsHonoured
INVARIANT ReportedIsBound
INVARIANT OnlyChangeUnnamed
CHECK_DEADLOCK FALSE
