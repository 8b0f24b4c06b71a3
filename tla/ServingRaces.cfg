\* Two calls race for one port; the model names are "auto".
SPECIFICATION FairSpec
CONSTANTS
  r1 = r1
  r2 = r2
  o1 = o1
  Runs = {r1, r2}
  Others = {o1}
  NameOf <- MCNameOf
  PortOf <- MCPortOf
  AliasOf <- AutoAliases
  CleanupOnFailure = TRUE
INVARIANTS
  TypeOK
  RecordedIsOwn
  ReadyIsOwn
PROPERTIES
  OthersKeepTheirContainers
  KeepsPromise
  EveryCallEnds
CHECK_DEADLOCK FALSE
