SPECIFICATION Spec
CONSTANTS
  sA = sA
  sB = sB
  sC = sC
  w1 = w1
  w2 = w2
  NoSession = NoSession
  NoEvent = NoEvent
  Sweeper = Sweeper
  SessionOf <- MCSessionOf
  Ends <- MCEnds
  Bytes <- MCBytes
  Session = {sA}
  Worker = {w1}
  Event <- EventsOneSession
  MaxOpenSessions = 2
  MaxEvents = 5
  MaxBytes = 9
  IdleTimeout = 0
  SinkMayFail = FALSE
INVARIANTS AcknowledgedIsKept
