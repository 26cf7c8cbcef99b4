\* Three setups that may each make a socket, two runs, two failures or losses
CONSTANTS
  s1 = s1
  s2 = s2
  s3 = s3
  r1 = r1
  r2 = r2
  NoSocket = NoSocket
  Setups <- ThreeSetups
  Runs <- TwoRuns
  MaxTroubles = 2
SPECIFICATION FairSpec
INVARIANTS
  TypeOK
  SocketTruthful
  OwnAnswer
PROPERTY LossNoticed
CHECK_DEADLOCK FALSE
