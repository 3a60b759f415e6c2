SPECIFICATION StorageFairSpec
CONSTANTS
  Tasks = {t1}
  WordCounts = {30, 60, 61}
  ChunkWords = 30
  MaxChunks = 3
  HardLimit = 2
  Ttl = 3
  Cleaners = {}
  NoFile = NoFile
  Backends = {"local", "minio"}
  Apis = {a1}
  MaxStarts = 1
PROPERTIES
  AudioExpires
CHECK_DEADLOCK FALSE
