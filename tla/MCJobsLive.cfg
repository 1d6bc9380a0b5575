SPECIFICATION FairSpec
CONSTANTS
  Scenarios = {"wakeup", "waits", "sourced", "addonEnds", "evaluation", "preflight", "download", "dumpEnds", "prewarm", "exportOnce", "rebootEnds"}
PROPERTIES
  EventuallyScheduled
  JobsEnd
  WorkloadGoes
CHECK_DEADLOCK FALSE
