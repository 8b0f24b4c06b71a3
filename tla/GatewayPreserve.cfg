\* The in-process pipeline's call: cleanup off, duplicated requests, and
\* error answers that mean the request had no effect.
SPECIFICATION Spec
CONSTANTS
  Ids = {i1, i2, i3, i4}
  HiddenIds = {i4}
  NoId = NoId
  PollAttempts = 3
  MaxDelay = 2
  MaxCopies = 2
  RefusalIsFinal = TRUE
  CleanupOnFailure = FALSE
INVARIANTS
  AbsentStaysAbsent
  FailureStatusMatchesRoutes
CHECK_DEADLOCK FALSE
