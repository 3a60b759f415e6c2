SPECIFICATION ClientSpec
CONSTANTS
  j1 = j1
  j2 = j2
  j3 = j3
  k1 = k1
  k2 = k2
  NoMsg = NoMsg
  Jobs = {j1}
  Clients = {}
  Workers = {w1, w2}
  Keys = {k1}
  KeyOf <- OneJob
  MaxRetries = 1
  Backend = "minio"
  Faults = {"slow", "broker", "synth", "upload", "late", "hard", "crash", "evict", "restart"}
  Callers = {}
  MaxCrashes = 1
  MaxDelayed = 1
  MaxPolls = 1
INVARIANTS
  TypeOK
  NoLimbo
  ExclusiveExecution
  NoEarlyGiveUp
  RecordIsCurrent
  CompletedHasAudio
PROPERTIES
  OutcomeStable
SYMMETRY WorkerSymmetry
CHECK_DEADLOCK FALSE
