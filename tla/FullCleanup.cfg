SPECIFICATION Spec
CONSTANTS
  Exec <- Executions
  Pipeline <- Pipelines
  Request <- CommandLines
  Deployed = {"e2", "e3"}
  NoId = "none"
  MaxFaults = 1
INVARIANTS TypeOK AnchorFirst SuccessIsComplete
PROPERTIES CleanupIsOwned RepetitionConverges
CHECK_DEADLOCK FALSE
