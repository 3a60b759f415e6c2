SPECIFICATION DialogueFairSpec
CONSTANTS
  j1 = j1
  j2 = j2
  j3 = j3
  k1 = k1
  k2 = k2
  NoMsg = NoMsg
  Jobs = {j1, j2, j3}
  Workers = {w1}
  Keys = {k1, k2}
  KeyOf <- TwoAlike
  Script <- ThreeLines
  Paused = TRUE
  MaxRetries = 0
  Backend = "local"
  Faults = {"redis", "synth", "api"}
  Callers = {"cache_set", "cleanup_expired"}
  MaxCrashes = 0
  MaxDelayed = 1
  MaxPolls = 2
INVARIANTS
  DialogueTypeOK
  LinesInOrder
  UnknownHasCause
PROPERTIES
  DialogueEnds
CHECK_DEADLOCK FALSE
