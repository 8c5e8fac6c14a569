\* The tools' own sizes; creation cut short at every place load tells apart.
CONSTANTS
  BucketSize = 1000
  FileWords = 1024
  Ids = {0, 1, 2}
  Cuts = {0, 1, 29, 38}
  FirstMap = 4096
  MaxFile = 2
  MaxFaults = 1
SPECIFICATION Spec
INVARIANTS UsesWholeIndex InitialisedLoads IndexAfterBlock CreatedOrNothing BlockInv
PROPERTY ImplementsBlockStore
