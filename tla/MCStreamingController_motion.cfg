SPECIFICATION Spec
CONSTANTS
  MaxTargets = 3
  MaxActivations = 2
INVARIANT NoInternalMotion
CHECK_DEADLOCK FALSE
