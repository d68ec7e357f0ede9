CONSTANTS
  None = None
  McpTool = {"mcp__a"}
  Dir = {d1, d2}
  Session = {s1}
  Line <- Messages
  Cut = {"inside", "character", "newline"}
  Since = 1
  MaxTime = 2
  MaxLines = 3
  MaxReads = 1
SPECIFICATION Spec
SYMMETRY Symmetry
CHECK_DEADLOCK FALSE
INVARIANT NothingIsLost
PROPERTY ReloadsAgree
