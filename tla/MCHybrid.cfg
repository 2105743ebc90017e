CONSTANTS
  Clients = {c1, c2}
  Docs = {d1}
  Values = {v1, v2}
  None = None
  Strategies = {"None", "WriteThrough", "ReadThrough", "WriteBehind"}
  Ops = {"write", "delete", "get", "drop", "flush"}
  Deployments = {"server", "background"}
  Lossy = TRUE
  NoEviction = TRUE
  MaxOps = 3
  MaxCrashes = 1
  MaxIoErrors = 1
SPECIFICATION FairSpec
INVARIANTS NoStaleRead 
PROPERTY QueueDrains
CHECK_DEADLOCK FALSE
