\* The same calls, for what the documentation says of operation.json.
SPECIFICATION Spec
CONSTANTS
  r1 = r1
  r2 = r2
  o1 = o1
  Runs = {r1, r2}
  Others = {o1}
  NameOf <- MCNameOf
  PortOf <- MCPortOf
  AliasOf <- AutoAliases
  CleanupOnFailure = TRUE
INVARIANTS
  LaunchIsRecorded
CHECK_DEADLOCK FALSE
