\* The controller's call again, for the claim made where GatewayCleanupError is
\* raised.
SPECIFICATION Spec
CONSTANTS
  Ids = {i1, i2, i3}
  HiddenIds = {i3}
  NoId = NoId
  PollAttempts = 3
  MaxDelay = 2
  MaxCopies = 1
  RefusalIsFinal = FALSE
  CleanupOnFailure = TRUE
INVARIANTS
  FailureNeverStrandsRoutes
CHECK_DEADLOCK FALSE
