SPECIFICATION ClientFairSpec
CONSTANTS
  j1 = j1
  j2 = j2
  j3 = j3
  k1 = k1
  k2 = k2
  NoMsg = NoMsg
  Jobs = {j1, j2, j3}
  Clients = {j1}
  Workers = {w1, w2}
  Keys = {k1, k2}
  KeyOf <- TwoAlike
  MaxRetries = 1
  Backend = "local"
  Faults = {"synth", "forget", "net"}
  Callers = {"cache_set", "cleanup_expired"}
  MaxCrashes = 0
  MaxDelayed = 0
  MaxPolls = 1
INVARIANTS
  DoneHasOwnAudio
  CompletedHasAudio
PROPERTIES
  ImplementsContract
CHECK_DEADLOCK FALSE
