SPECIFICATION Spec
CONSTANTS
  FileStates <- MCFileStates
  MaxWrites = 2
INVARIANTS
  ScreenIsTrue
  TerminalIsRestored

  
CHECK_DEADLOCK FALSE
