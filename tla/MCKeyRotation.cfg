CONSTANTS
  Keys = {k1, k2}
  LogKeys = {k2}
  NumDocs = 3
  BatchSize = 2
  EnginePath = data_keys
  SchedulerPath = cwd_encryption
  NoKey = NoKey
  Torn = Torn
  None = None
  MaxGeneration = 4
  MaxCrashes = 2
  MaxIoErrors = 1
SPECIFICATION Spec
INVARIANTS NoRetiredKey 
CHECK_DEADLOCK FALSE
