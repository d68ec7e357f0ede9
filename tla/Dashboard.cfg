SPECIFICATION DashSpec
CONSTANTS
  recent = recent
  older = older
  good = good
  bad = bad
  here = here
  q1 = q1
  q2 = q2
  None = None
  NoFile = NoFile
  Unreadable = Unreadable
  Malformed = Malformed
  NoRow = NoRow
  NoRequest = NoRequest
  Terminal = {t1}
  Opener = {"serve", "init"}
  OpenFails = TRUE
  Session = {recent, older}
  Request = {q1, q2}
  Age <- MCAge
  ServersOf <- MCServersOf
  MaxAge <- MCWithin
  DefaultPath <- MCDefaultPath
  Edits <- MCEdits
  Files <- MCFiles
  Asks <- MCAsks
  CommandLines <- MCCommandLines
  Addresses = {good, "127.0.0.1:4329"}
  RenderLimit = 1
  Workers = 2
  MaxVersion = 2
  Rewritten = {recent}
  MaxFaults = 1
CONSTRAINT Explored
CHECK_DEADLOCK FALSE
INVARIANT SetupIsSound
  
