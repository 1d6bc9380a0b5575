SPECIFICATION Spec
CONSTANTS
  Scenarios = {"restartFault", "staleFault", "join", "scale", "share", "cluster", "clusterFaults", "nodePatch", "nodeRace", "nodeList", "tenants", "tenantsAlone", "tenantsGone", "secrets", "secretsTwo", "secretsCalm", "secretKinds", "addon", "addonAsked", "addonOwned", "addonBack", "addonFails"}
INVARIANTS
  TypeOK
  NothingDangles
  GoneIsClean
PROPERTIES
  
  BindingIsSafe
CHECK_DEADLOCK FALSE
