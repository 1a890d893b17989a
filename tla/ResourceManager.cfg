SPECIFICATION MCSpec
CONSTANTS
  None = None
  s1 = s1  s2 = s2  c1 = c1  c2 = c2
  Peers = {p1}
  Protos = {r1}
  Svcs = {v1}
  Streams = {s1, s2}
  Conns = {c1, c2}
  Spans = {x1}
  Mem = {1}
  Prios = {127, 255}
  Limit <- SmallLimit
  LateCalls = TRUE
SYMMETRY Symmetry
INVARIANT WithinLimits
INVARIANT Accounted
INVARIANT ReferencesRight
