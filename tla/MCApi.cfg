SPECIFICATION Spec
CONSTANTS
  Scenarios = {"download", "records", "recordsFail", "models", "modelRow", "create", "renew", "optimize", "optimizeStopped", "image", "images", "registry", "dataset", "datasetHF", "train", "trainAlone", "trainLora", "trainRl", "runConfig", "runChange", "runNames", "runLoss", "deploy", "deployClusters", "deployTwice", "deployFails", "bind", "rebind", "bindLate", "bindLost", "apiKeys", "platformKeys", "logins", "replicas", "publicKeys"}
INVARIANTS
  TypeOK
  ReportedIsReal
  GoneIsRecorded
  NothingLeft
PROPERTIES
  NothingUndone
CHECK_DEADLOCK FALSE
