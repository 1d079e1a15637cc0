CONSTANTS
  a = a
  b = b
  NoDep = NoDep
  Objects = {a, b}
  Dep <- Pair
  Requeuing = {}
  Permits = {p1}
  BufferSize = 1
  IntervalZero = FALSE
SPECIFICATION FairSpec
INVARIANTS TypeOK WakeInv NoLostWakeUp TimerIsTheNet
PROPERTIES PermitsComeBack DependentsFollow
