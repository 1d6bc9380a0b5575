SPECIFICATION MCFairSpec
CONSTANTS
  None = None
  MaxRetry = 1
  Application = FALSE
  EphemeralRunner = FALSE
  RayJob = FALSE
  DisableFailover = FALSE
  HasTimeout = FALSE
  HasJobPort = FALSE
  MaxCount = 1
  MaxLag = 1
  MaxEvents = 1
  MaxPreempts = 1
  MaxFaults = 0
  MaxExternal = 0
  MaxCrashes = 1
  UserDeletes = FALSE
  TTLPasses = TRUE
  Scenarios = {"plain"}
PROPERTIES
  PreemptedRecovered
CHECK_DEADLOCK FALSE
