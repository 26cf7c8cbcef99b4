SPECIFICATION Spec
CONSTANTS
  Proxies = {p1, p2}
  Calls = {c1, c2}
  p1 = p1
  p2 = p2
  c1 = c1
  c2 = c2
  MaxFaults = 0
SYMMETRY Symmetry
\* The application may stop calling.
CHECK_DEADLOCK FALSE
INVARIANT
  RetryReady
