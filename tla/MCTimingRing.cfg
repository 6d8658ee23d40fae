SPECIFICATION FairSpec
CONSTANTS
  Capacity = 2
  DrainLimit = 2
  MaxCycles = 4
INVARIANTS TypeOK NoSlotRace GapsAreCounted
PROPERTIES SamplesLeave QueueSpec
CHECK_DEADLOCK FALSE
