SPECIFICATION Spec
CONSTANTS
  Proxies = {p1, p2}
  Calls = {c1, c2, c3}
  p1 = p1
  p2 = p2
  c1 = c1
  c2 = c2
  c3 = c3
  MaxTroubles = 2
  WebSocketDrops = FALSE
  MaxSends = 2
  MaxRounds = 1
SYMMETRY Symmetry
\* The application may stop asking and the environment may stay quiet.
CHECK_DEADLOCK FALSE
INVARIANTS
  TypeOK
  EnginesTakeSame
  MasksOfSession
  MasksOnce
PROPERTY ConnectionKept
