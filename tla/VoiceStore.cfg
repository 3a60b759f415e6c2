SPECIFICATION Spec
CONSTANTS
  Workers = {w1, w2}
  Files = 2
  Size = 2
  MinSize <- WorkerMinima
  DownloadMin <- DownloadMinima
  ScriptMin <- ScriptMinima
  MaxAttempts = 2
  Script = TRUE
  MaxMishaps = 1
INVARIANTS
  TypeOK
  RestsComplete
PROPERTIES
  StaysSatisfied
SYMMETRY WorkerSymmetry
