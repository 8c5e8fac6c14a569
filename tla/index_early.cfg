\* Ids below the overlapped slots; block_recla among the tools, any of which
\* may be killed once.
CONSTANTS
  BucketSize = 10
  FileWords = 46
  MaxId = 4
  FileSize = 300
  BufferSize = 200
  FirstMap = 136
  PerMap = 24
  MaxMap = 1024
  MaxDeletes = 9
  MaxKills = 1
  TornBytes = {0, 13}
SPECIFICATION ReclaSpec
INVARIANTS
  ReportsTruth CountersAgree NoLeak
  BytesKeptByReclamation OffsetBalance
PROPERTY ImplementsFileTable
