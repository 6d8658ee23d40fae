SPECIFICATION FairSpec
CONSTANTS
  Expiry = 3
  MaxTargets = 3
  Fails = TRUE
INVARIANTS TypeOK EvidenceIsTrue
PROPERTY KeepsConfirming
