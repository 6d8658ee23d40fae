SPECIFICATION Spec
CONSTANTS
  Freshness = 2
  MaxTime = 5
INVARIANTS TypeOK SuccessIsWatched
PROPERTIES ActsOnRecent RunsSpec
CHECK_DEADLOCK FALSE
