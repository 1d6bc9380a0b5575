SPECIFICATION MCFairSpec
CONSTANTS
  None = None
  MaxRetry = 1
  Application = FALSE
  EphemeralRunner = FALSE
  RayJob = FALSE
  DisableFailover = FALSE
  HasTimeout = FALSE
  HasJobPort = FALSE
  MaxCount = 2
  MaxLag = 1
  MaxEvents = 1
  MaxPreempts = 0
  MaxFaults = 0
  MaxExternal = 0
  MaxCrashes = 0
  UserDeletes = FALSE
  TTLPasses = TRUE
  Scenarios = {"losing", "faulting", "ending"}
PROPERTIES
  Recovered
  Deleted
CHECK_DEADLOCK FALSE
