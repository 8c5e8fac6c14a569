\* Ids in the overlapped slots, nodes beyond the largest mapping.
CONSTANTS
  BucketSize = 7
  FileWords = 49
  MaxId = 6
  FileSize = 124
  FirstMap = 76
  PerMap = 32
  MaxMap = 124
  MaxDeletes = 4
  MaxKills = 0
  TornBytes = {0}
SPECIFICATION Spec
INVARIANTS TypeOK CountersBalance BytesKept StoresHitNodes FreedIsUnlinked
