\* Two units of the disk: the header with the slot of the first file, and the
\* slot of the second with the nodes, of which one is not mapped at first.
CONSTANTS
  BucketSize = 8
  FileWords = 26
  MaxId = 2
  FileSize = 132
  FirstMap = 80
  PerMap = 24
  MaxMap = 1024
  MaxDeletes = 1
  MaxKills = 1
  TornBytes = {0}
  UnitWords = 13
  MaxFailures = 1
SPECIFICATION DurSpec
INVARIANT Durable
