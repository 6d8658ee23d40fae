SPECIFICATION LogSpec
CONSTANTS
  MaxTargets = 2
  MaxActivations = 2
  MaxConfigures = 1
  MaxDrains = 2
CONSTRAINT FewAfterOverlap
INVARIANTS LogTypeOK AppliedIsTrue SupersededIsTrue NeverAmbiguous
CHECK_DEADLOCK FALSE
