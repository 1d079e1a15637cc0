CONSTANTS
  Clusters = {c1, c2}
  NoOne = NoOne
  Duration = 6
  Renewal = 4
  Period = 1
  Rest = 1
  Latency = 1
  Slow = {c1}
SPECIFICATION FairSpec
INVARIANTS TypeOK LeaseInv
PROPERTIES LeaseIsKept Settles
