\* A full in-process pipeline races with one that only trains.
SPECIFICATION Spec
CONSTANTS
  e1 = e1
  e2 = e2
  n1 = n1
  n2 = n2
  n3 = n3
  Executions = {e1, e2}
  Names = {n1, n2, n3}
  MaxAttempts = 3
  NameOf <- MCNameOf
  LastPhase <- MCLastPhase
INVARIANTS
  TypeOK
  SuccessIsEarned
  ReturnedIsSuccess
  HandledFailureIsRecorded
PROPERTIES
  RunsAreNeverOverwritten
  FinalStatusStays
CHECK_DEADLOCK FALSE
