SPECIFICATION Spec
CONSTANTS
  MaxGoals = 2
  RefTol = 1
  DriftTol = 1
INVARIANTS OneActiveTarget
CHECK_DEADLOCK FALSE
