SPECIFICATION Spec
CONSTANTS
  Moves = {open}
  Grasps = {close}
  MaxRequests = 2
  Raises = TRUE
INVARIANT StopFollowsException
