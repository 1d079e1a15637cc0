CONSTANTS
  small = small
  large = large
  elsewhere = elsewhere
  NoSpec = NoSpec
  NoObject = NoObject
  Specs = {small, large}
  Immutable <- Place
  IDSources = {"spec"}
  MaxMade = 2
  Faults = {"edit"}
SPECIFICATION RememberingSpec
INVARIANTS UnrecordedIsUncreated
