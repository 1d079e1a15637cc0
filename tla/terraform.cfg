CONSTANTS
  small = small
  large = large
  elsewhere = elsewhere
  NoSpec = NoSpec
  NoObject = NoObject
  Specs = {small, large, elsewhere}
  Immutable <- Place
  IDSources = {"name", "spec", "status"}
  MaxMade = 2
  Faults = {"edit", "write", "answer", "restart", "drift", "abandonedParent"}
SYMMETRY ValueSymmetry
SPECIFICATION RememberingSpec
INVARIANTS TypeOK Accounted TrackInv
PROPERTIES NamedIsManaged NeverLosesTrack NeverRecreated DestructionIsRequested
