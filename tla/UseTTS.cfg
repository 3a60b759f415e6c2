SPECIFICATION Spec
CONSTANTS
  MaxCalls = 3
INVARIANTS
  TypeOK
  AudioIsCurrent
  NoBlobLeaks
CHECK_DEADLOCK FALSE
