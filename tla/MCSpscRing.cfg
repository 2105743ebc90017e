CONSTANTS
  Capacity = 2
  Data = {d1, d2}
  Empty = Empty
  MaxPush = 4
SPECIFICATION FairSpec
INVARIANTS
  NoSlotRace
  LenWithinCapacity
PROPERTIES
  ImplementsFifo
  BlockedPopReturns
