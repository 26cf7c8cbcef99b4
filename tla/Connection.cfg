SPECIFICATION Spec
CONSTANTS
  Proxies = {p1, p2}
  Calls = {c1, c2, c3, c4}
  p1 = p1
  p2 = p2
  c1 = c1
  c2 = c2
  c3 = c3
  c4 = c4
  MaxTroubles = 2
  WebSocketDrops = TRUE
SYMMETRY Symmetry
\* The application may stop asking and the environment may stay quiet.
CHECK_DEADLOCK FALSE
INVARIANTS
  TypeOK
  ProxyStatusTruthful
  AllOrNone
