SPECIFICATION Spec
CONSTANTS
  Moves = {open}
  Grasps = {close}
  MaxRequests = 3
  Raises = TRUE
INVARIANTS TypeOK BookIsRight SettledIsQuiet GripIsKnown
PROPERTIES IssueIsSafe OutcomeIsFinal ClientSpec
