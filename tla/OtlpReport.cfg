SPECIFICATION Spec
CONSTANTS
  Absent = "absent"
  Overflow = 99
  NotANumber = 98
  Signal <- MCSignal
  TheSession = "s"
  Sends <- MCSends
  TokenMax = 7
INVARIANTS ReportIsExact CallsAreExact
CHECK_DEADLOCK FALSE
