CONSTANTS
  WriterSets = {{a1}, {a1, a2}}
  Policies = {"Always", "EverySecond"}
  MaxFileSize = 2
  Compaction = TRUE
  MaxAppends = 4
  MaxFiles = 2
  MaxCrashes = 1
SPECIFICATION FairSpec
INVARIANTS KeptUnlessShared ReplayInOrder
PROPERTY AckedSynced
CHECK_DEADLOCK FALSE
