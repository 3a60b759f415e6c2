SPECIFICATION ClientFairSpec
CONSTANTS
  j1 = j1
  j2 = j2
  j3 = j3
  k1 = k1
  k2 = k2
  NoMsg = NoMsg
  Jobs = {j1}
  Clients = {j1}
  Workers = {w1, w2}
  Keys = {k1}
  KeyOf <- OneJob
  MaxRetries = 1
  Backend = "local"
  Faults = {"redis", "api", "late", "crash", "evict"}
  Callers = {}
  MaxCrashes = 1
  MaxDelayed = 1
  MaxPolls = 1
INVARIANTS
  ClientTypeOK
  NotFoundHasCause
  NotReadyHasCause
PROPERTIES
  SessionEnds
  Settles
CHECK_DEADLOCK FALSE
