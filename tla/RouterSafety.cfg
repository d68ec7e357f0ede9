SPECIFICATION Spec
CONSTANTS
  sA = sA
  sB = sB
  sC = sC
  w1 = w1
  w2 = w2
  NoSession = NoSession
  NoEvent = NoEvent
  Sweeper = Sweeper
  SessionOf <- MCSessionOf
  Ends <- MCEnds
  Bytes <- MCBytes
  Session = {sA, sB}
  Worker = {w1, w2}
  Event <- EventsWithEnd
  MaxOpenSessions = 1
  MaxEvents = 1
  MaxBytes = 2
  IdleTimeout = 0
  SinkMayFail = FALSE
SYMMETRY Symmetry
CONSTRAINT DropsFirst
INVARIANTS EventsAreSafe EndedSessionCloses EventCapOvershoot DrainedAtStop
PROPERTIES KeepsLedger
