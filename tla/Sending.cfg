SPECIFICATION Spec
CONSTANTS
  Proxies = {p1, p2}
  p1 = p1
  p2 = p2
  MaxSends = 2
  MaxRounds = 2
  MaxSize = 2
  Faults = {"corrupt", "invalid", "lost", "refused"}
  MaxFaults = 1
  Sequential = FALSE
SYMMETRY Symmetry
INVARIANTS
  TypeOK
  ZipsDrained
  NoneStranded
PROPERTY SendsMasked
