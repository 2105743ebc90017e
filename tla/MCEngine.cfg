CONSTANTS
  Keys = {1, 2, 3}
  HashRange = 2
  Capacity = 4
  ValueSizes = {1, 3}
  Tags = {"v"}
  Classes = 3
  ArenaSize = 14
  MaxOps = 6
  Clients = {c1, c2}
  MaxSessions = 2
  RingWords = 2
  RingAlign = 2
  RingCapacity = 2
  ReplyWords = 2
  CounterRange = 8
  Requests <- MCRequests
  Mixes <- MCMixes
SPECIFICATION EngineSpec
SYMMETRY ClientSymmetry
INVARIANTS LookupAgrees OwnResponses WokenWhenWaiting ActiveCounted
CHECK_DEADLOCK FALSE
