SPECIFICATION FairSpec
CONSTANTS
  Event <- MCEvent
  Session = {"s1", "s2"}
  NoSession = "none"
  SessionOf <- MCSessionOf
  Request <- MCRequest
  Records <- MCRecords
  Token = {"t", "u"}
  Cmd <- MCCmd
  File <- MCFile
  ServersMayFail = TRUE
INVARIANTS ReceiverIsSafe
PROPERTIES  KeepsLedger
