CONSTANTS
  Clusters = {x, y}
  Nobody = Nobody
  NoSyncer = NoSyncer
  MaxTerms = 4
  Attempts = 2
SPECIFICATION FairSpec
INVARIANTS LeaderInv LeaderIsSuspended
PROPERTIES FollowersFollow
