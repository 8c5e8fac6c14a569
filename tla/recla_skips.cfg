\* A compaction of a block of which one id was deleted.
CONSTANTS
  BucketSize = 10
  FileWords = 46
  MaxId = 4
  FileSize = 300
  BufferSize = 200
  FirstMap = 136
  PerMap = 24
  MaxMap = 1024
  MaxDeletes = 9
  MaxKills = 0
  TornBytes = {}
SPECIFICATION ReclaSpec
INVARIANT DeletedIdsPassedOver
