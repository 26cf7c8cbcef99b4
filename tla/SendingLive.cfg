SPECIFICATION FairSpec
CONSTANTS
  Proxies = {p1, p2}
  p1 = p1
  p2 = p2
  MaxSends = 2
  MaxRounds = 3
  MaxSize = 1
  Faults = {}
  MaxFaults = 0
  Sequential = FALSE
INVARIANTS
  MasksAligned
PROPERTIES
  InputsGoOut
  SendsSettle
