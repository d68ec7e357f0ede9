SPECIFICATION RestSpec
CONSTANTS
  sA = sA
  sB = sB
  sC = sC
  w1 = w1
  w2 = w2
  NoSession = NoSession
  NoEvent = NoEvent
  Sweeper = Sweeper
  SessionOf <- MCSessionOf
  Ends <- MCEnds
  Bytes <- MCBytes
  Session = {sA, sB, sC}
  Worker = {w1}
  Event <- EventsThreeSessions
  Few <- MCFew
  MaxOpenSessions = 2
  MaxEvents = 2
  MaxBytes = 4
  IdleTimeout = 1
  SinkMayFail = TRUE
INVARIANTS LruIsFaithful
PROPERTIES VictimIsOldest EventsLeaveMemory ShutdownCompletes
