CONSTANTS
  Slices = {}
  Policies = {p1, p2}
  Grantable <- Mine
  Specs <- One
  NoObject = NoObject
  Faults = {}
SPECIFICATION FairSpec
PROPERTIES SpecifiedIsGranted
