SPECIFICATION MCSpec
CONSTANTS
  c1 = c1  c2 = c2  p1 = p1  s1 = s1  s2 = s2  l1 = l1
  Peers = {p1}
  Conns = {c1, c2}
  Streams = {s1, s2}
  Listeners = {l1}
  remotePeer <- SamePeer
  Inbound = {c1}
  NoConn = NoConn
INVARIANT EndsInOrder
INVARIANT ConnectedThenDisconnected
PROPERTY EverythingEnds
CHECK_DEADLOCK FALSE
