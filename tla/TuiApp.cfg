SPECIFICATION AppSpec
CONSTANTS
  Reports <- MCReports
  Heights = {8, 10}
INVARIANTS
  SelectionIsShown
PROPERTY
  JumpsUpAreTyped
CHECK_DEADLOCK FALSE
