CONSTANTS
  Slices = {}
  Policies = {p1}
  Grantable <- Mine
  Specs <- OneOrNone
  NoObject = NoObject
  Faults = {"edit"}
SPECIFICATION Spec
INVARIANTS WithdrawnIsRevoked
