SPECIFICATION FairSpec
CONSTANTS
  Scenarios = {"kinds", "follow", "modelFollows", "optimize", "optimizeEnds", "imagesEnd", "datasetEnds", "deployEnds"}
PROPERTIES
  WorkSettles
  RowsFollow
  RequestsEnd
CHECK_DEADLOCK FALSE
