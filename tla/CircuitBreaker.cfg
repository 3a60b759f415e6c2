SPECIFICATION FairSpec
CONSTANTS
  Calls = {c1, c2, c3}
  Threshold = 2
  Timeout = 2
INVARIANTS
  TypeOK
  ClosedBelowThreshold
PROPERTIES
  QuietAfterFailure
  Recovers
  Protects
