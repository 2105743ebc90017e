SPECIFICATION Spec
CONSTANTS
  Tasks = {t1, t2}
  Cols = {1, 2}
  Ids = {1}
  MaxBackups = 1
  FileSize = 1
  Extensions = {"log", "wal"}
  MaxClock = 2
  Budgets <- MCBudgets
  None = None
SYMMETRY TaskSymmetry
INVARIANTS CompleteUnlessShared SnapshotCoversLog RecoversTo
 
CHECK_DEADLOCK FALSE
