CONSTANTS
  Slaves = {s1}
  Docs = {d1}
  Hosts = {h1}
  FirstSequence = 1
  MaxSlaves = 1
  FullSyncGap = 1
  Disciplines = {"careful", "free"}
  MaxWrites = 2
  MaxOwnWrites = 1
  MaxFailures = 1
SPECIFICATION FairSpec
INVARIANTS NoGap SettledAgrees
PROPERTY CatchesUp
CHECK_DEADLOCK FALSE
