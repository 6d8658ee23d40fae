SPECIFICATION Spec
CONSTANTS
  MaxGoals = 2
  RefTol = 1
  DriftTol = 1
INVARIANTS TypeOK GateIsExact LeftBehindIsTold SuccessIsEarned StartsNearPlan
PROPERTIES RunsSpec
CHECK_DEADLOCK FALSE
