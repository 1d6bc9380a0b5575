SPECIFICATION FairSpec
CONSTANTS
  Scenarios = {"agent", "agentFault", "userFault", "kubeletFault", "manualFault", "rejoin", "settle", "clusterFaults", "clusterAgain", "clusterPlain", "secretGoes", "addonEnds"}
PROPERTIES
  ConditionsFollow
  
  ComesToRest
CHECK_DEADLOCK FALSE
