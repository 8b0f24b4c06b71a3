SPECIFICATION Spec
CONSTANTS
  Launch = {"a", "b"}
  Gpu = 2
  Total <- Memory
  Level <- Levels
  Job <- Jobs
  Device <- Devices
  Shared = "shared"
  Port <- Range
INVARIANTS TypeOK ReservationCoversServing AdmissionIsWhole
PROPERTY SelectionIsBest
CHECK_DEADLOCK FALSE
