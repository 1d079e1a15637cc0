CONSTANTS
  Slices <- SmallSlices
  Policies = {p1}
  Grantable <- Pairs
  Specs <- OneOrNone
  NoObject = NoObject
  Faults = {"edit", "write", "answer", "restart"}
SPECIFICATION Spec
INVARIANTS
  TypeOK
  ForeignSurvives
  DesiredIsComputed
  SentIsCanonical
  RevokeInv
PROPERTIES
  RecordedIsRevoked
