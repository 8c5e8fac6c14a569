\* As many files as there are buckets.
CONSTANTS
  BucketSize = 10
  FileWords = 64
  MaxId = 8
  FileSize = 136
  FirstMap = 136
  PerMap = 24
  MaxMap = 256
  MaxDeletes = 0
  MaxKills = 0
  TornBytes = {0, 13, 20}
SPECIFICATION Spec
INVARIANT InsertedIntoChain
