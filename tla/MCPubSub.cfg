CONSTANTS
  Tasks = {t1, t2}
  Ids = {1, 2}
  Channels = {c1}
  Patterns = {{c1}}
  BufferSize = 2
  Modulus = 16
  MaxOps = 4
  MaxPolls = 1
SPECIFICATION Spec
INVARIANTS CountsSettle PublisherOrder ReachesSubscribers
CHECK_DEADLOCK FALSE
