\* The full profile, with every failure the code handles.
SPECIFICATION FairSpec
CONSTANTS
  GatewayEnabled = TRUE
INVARIANTS
  TypeOK
  TrainerGoneBeforeServing
  StartedIsOwned
  RoutesHaveBackend
  SuccessIsComplete
  FailureManifestIsTrue
PROPERTIES
  Ends
CHECK_DEADLOCK FALSE
