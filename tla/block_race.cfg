\* Readers meet half copied and reused nodes, copy a node half at a time, and
\* extend the index while others do.
CONSTANTS
  BucketSize = 9
  FileWords = 37
  MaxId = 3
  FileSize = 300
  FirstMap = 80
  PerMap = 24
  MaxMap = 1024
  MaxDeletes = 2
  MaxKills = 0
  TornBytes = {13}
  ReadWords = {"lo", "next"}
SPECIFICATION RaceSpec
INVARIANTS ReadLinearizable CutOnlyAfterFailure
PROPERTY ReadEnds
