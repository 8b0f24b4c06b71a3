\* The same race with the model names fixed in the configuration, as the
\* shipped serving_gateway_example.yaml fixes them.
SPECIFICATION Spec
CONSTANTS
  r1 = r1
  r2 = r2
  o1 = o1
  Runs = {r1, r2}
  Others = {o1}
  NameOf <- MCNameOf
  PortOf <- MCPortOf
  AliasOf <- FixedAliases
  CleanupOnFailure = TRUE
INVARIANTS
  PortConflictFails
CHECK_DEADLOCK FALSE
