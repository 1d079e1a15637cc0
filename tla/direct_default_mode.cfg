SPECIFICATION RememberingSpec
CONSTANTS
  Specs = {s1}
  Labels = {l1}
  NoObject = NoObject
  NoResource = NoResource
  NoID = NoID
  IDs = {i1}
  Namings = {"given"}
  Requests = {}
  MaxGeneration = 2
  IntervalZero = FALSE
  Annotations = {"", "Paused", "Reconciling", "invalid"}
  KCCStates <- DefaultMode
  Drifts <- NoDrift
INVARIANTS
  PausedIsPaused
