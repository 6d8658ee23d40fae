SPECIFICATION ClientFairSpec
CONSTANTS
  MaxGoals = 2
  RefTol = 0
  DriftTol = 0
  Script = 1
INVARIANTS PassedIsTrue MotionIsPermitted
PROPERTIES GoalsEnd
CHECK_DEADLOCK FALSE
