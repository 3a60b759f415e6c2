SPECIFICATION StorageFairSpec
CONSTANTS
  Tasks = {t1}
  WordCounts = {30, 60, 61}
  ChunkWords = 30
  MaxChunks = 3
  HardLimit = 2
  Ttl = 3
  Cleaners = {c1, c2}
  NoFile = NoFile
  Backends = {"local", "minio"}
  Apis = {a1, a2}
  MaxStarts = 1
INVARIANTS
  StorageTypeOK
  WavIsWhole
  LeavesAtMostOne
  BucketKeepsRule
PROPERTIES
  ImplementsAudio
  ObjectsExpire
CHECK_DEADLOCK FALSE
