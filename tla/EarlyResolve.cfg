SPECIFICATION Spec
CONSTANTS
  Proxies = {p1, p2}
  p1 = p1
  p2 = p2
  MaxSends = 3
  MaxRounds = 3
  MaxSize = 1
  Faults = {}
  MaxFaults = 0
  Sequential = TRUE
SYMMETRY Symmetry
INVARIANT ResolvedMeansAccepted
