SPECIFICATION RememberingSpec
CONSTANTS
  Specs = {s1, s2}
  Labels = {l1}
  NoObject = NoObject
  NoResource = NoResource
  NoID = NoID
  IDs = {i1, i2}
  Namings = {"given", "generated"}
  Requests = {"abandon", "uninstall"}
  MaxGeneration = 2
  IntervalZero = TRUE
  Annotations = {"Paused"}
  KCCStates <- AlwaysOn
  Drifts <- LostOnly
SYMMETRY ValueSymmetry
INVARIANTS
  IndInv
  NoOrphan
  DeletesOnRequestOnly
  UpToDateIsTrue
  DeletionIsNotSkipped
PROPERTIES
  ResourceIsManaged
  NotCreatedTwice
