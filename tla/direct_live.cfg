SPECIFICATION LiveSpec
CONSTANTS
  Specs = {s1}
  Labels = {l1, l2}
  NoObject = NoObject
  NoResource = NoResource
  NoID = NoID
  IDs = {i1}
  Namings = {"given"}
  Requests = {}
  MaxGeneration = 1
  IntervalZero = FALSE
  Annotations = {""}
  KCCStates <- PausedNamespace
  Drifts <- NoDrift
INVARIANTS NeverForgotten PausedIsPaused
PROPERTIES DeletionCompletes Converges
CHECK_DEADLOCK FALSE
