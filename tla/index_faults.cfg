\* As index_early, with nodes the mapping never covers: accesses may fail.
CONSTANTS
  BucketSize = 11
  FileWords = 50
  MaxId = 5
  FileSize = 300
  FirstMap = 116
  PerMap = 24
  MaxMap = 116
  MaxDeletes = 3
  MaxKills = 0
  TornBytes = {0, 13, 20}
SPECIFICATION Spec
INVARIANTS ReportsTruth SeqNoFree
