SPECIFICATION Spec
CONSTANTS
  Scenarios = {"quota", "quotaFaults", "preempt", "addons", "addon", "evaluation", "dump", "dumpShort", "dumpErrors", "prewarm", "export", "reboot", "rebootLag", "nodes", "flavors", "object", "groups", "marks", "admit", "admitPair", "pods", "podsAgain", "podsMove", "podsRows", "podsRay", "podsSubmit", "podsCicd", "podsGroups", "workflowSettings", "workflowFiles"}
INVARIANTS
  TypeOK
  NoOvercommit
  ObjectsFollow
  
  SuccessIsReal
  JobNodesAreRight
  Unlocked
PROPERTIES
  NoForbiddenStep
CHECK_DEADLOCK FALSE
