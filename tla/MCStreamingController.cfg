SPECIFICATION FairSpec
CONSTANTS
  MaxTargets = 4
  MaxActivations = 3
INVARIANTS TypeOK LabelSound TelemetryTruthful StarvationIsVisible
PROPERTIES TakesEffect RegisterSpec
CHECK_DEADLOCK FALSE
