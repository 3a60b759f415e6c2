SPECIFICATION FairSpec
CONSTANTS
  Workers = {w1}
  Files = 2
  Size = 2
  MinSize <- WorkerMinima
  DownloadMin <- DownloadMinima
  ScriptMin <- ScriptMinima
  MaxAttempts = 3
  Script = FALSE
  MaxMishaps = 1
PROPERTIES
  Heals
CHECK_DEADLOCK FALSE
