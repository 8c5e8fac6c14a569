\* Descriptors 0 to 2 are taken; files of up to four bytes.
CONSTANTS
  MAX_DISK_TIMES = 4
  FirstFd = 3
  O_CREAT = TRUE
  MaxLen = 4
  Lengths = {0, 1, 2, 3, 4}
SPECIFICATION FairSpec
INVARIANTS TypeOK WritesPrefix ReadsExactly NoDescriptorLost LoopInv
PROPERTY Ends
