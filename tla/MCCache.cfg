SPECIFICATION Spec
CONSTANTS
  Tasks = {t1, t2}
  Keys = {k1, k2}
  Sizes = {1, 2}
  MaxSize = 2
  Word = 16
  Ttls = {1}
  MaxTime = 2
  MaxCalls = 3
  None = None
SYMMETRY Symmetry
INVARIANTS SizeExact WithinLimit Tracked
CHECK_DEADLOCK FALSE
