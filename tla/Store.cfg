SPECIFICATION StoreSpec
CONSTANTS
  recent = recent
  old = old
  p = p
  q = q
  NoRow = NoRow
  NoSession = NoSession
  Session = {recent, old}
  Recent = {recent}
  Writer = {p, q}
  Commands = {"analyze", "watch", "ingest"}
  MaxVersion = 2
  MaxCommands = 3
  MayFail = TRUE
SYMMETRY Symmetry
INVARIANTS RowsAreWhole  
CHECK_DEADLOCK FALSE
