\* Nodes of six words each, some overlapping; the mapping grows from 5 to at most 11 words.
CONSTANTS
  MAX_DISK_TIMES = 3
  FirstFd = 3
  O_CREAT = TRUE
  MaxLen = 12
  Lengths = {6}
  Offsets = {0, 3, 6}
  FirstMap = 5
  PerMap = 4
  MaxMap = 11
SPECIFICATION Spec
INVARIANTS MappingInsideFile WritesPrefix ReadsExactly AccessAsAssumed MapInv
