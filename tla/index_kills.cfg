\* Ids below the overlapped slots; two tool runs are killed, anywhere.
CONSTANTS
  BucketSize = 9
  FileWords = 37
  MaxId = 3
  FileSize = 300
  FirstMap = 132
  PerMap = 24
  MaxMap = 1024
  MaxDeletes = 9
  MaxKills = 2
  TornBytes = {0, 13, 20}
SPECIFICATION FairSpec
INVARIANTS ReportsTruth FreeListSound IndexInv LedgerInv
PROPERTIES ImplementsFileTable Terminates
