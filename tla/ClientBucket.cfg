SPECIFICATION ClientSpec
CONSTANTS
  j1 = j1
  j2 = j2
  j3 = j3
  k1 = k1
  k2 = k2
  NoMsg = NoMsg
  Jobs = {j1}
  Clients = {j1}
  Workers = {w1}
  Keys = {k1}
  KeyOf <- OneJob
  MaxRetries = 0
  Backend = "minio"
  Faults = {}
  Callers = {}
  MaxCrashes = 0
  MaxDelayed = 1
  MaxPolls = 2
INVARIANTS
  CompletedIsDownloadable
CHECK_DEADLOCK FALSE
