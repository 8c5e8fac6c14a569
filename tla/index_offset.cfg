\* Two files.
CONSTANTS
  BucketSize = 9
  FileWords = 37
  MaxId = 3
  FileSize = 132
  FirstMap = 132
  PerMap = 24
  MaxMap = 1024
  MaxDeletes = 1
  MaxKills = 0
  TornBytes = {0, 13, 20}
SPECIFICATION Spec
INVARIANT InnerOffsetsTrue
