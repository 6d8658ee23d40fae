SPECIFICATION FairSpec
CONSTANTS
  Moves = {open}
  Grasps = {close}
  MaxRequests = 2
  Raises = FALSE
PROPERTIES ShutdownSettles QueuedIsServed
