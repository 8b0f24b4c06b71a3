\* The controller's call: cleanup on, one effect per request, late effects
\* within the grace period, error answers that settle nothing.
SPECIFICATION FairSpec
CONSTANTS
  Ids = {i1, i2, i3}
  HiddenIds = {i3}
  NoId = NoId
  PollAttempts = 3
  MaxDelay = 2
  MaxCopies = 1
  RefusalIsFinal = FALSE
  CleanupOnFailure = TRUE
INVARIANTS
  TypeOK
  RecordedBeforeSent
  ReleasedMeansUnregistered
  ReadyIsComplete
PROPERTIES
  OthersKeepTheirModels
  KeepsPromise
  Terminates
CHECK_DEADLOCK FALSE
