\* Two sessions on two proxies, one connect call, two failures or losses
CONSTANTS
  p1 = p1
  p2 = p2
  c1 = c1
  Proxies <- TwoProxies
  Calls <- OneCall
  MaxSessions = 2
  MaxTroubles = 2
SPECIFICATION FairSpec
INVARIANTS
  TypeOK
  FlagBacked
  ConnectionsMatch
PROPERTIES
  ResolvesOnOwn
  FlagRecovers
CHECK_DEADLOCK FALSE
