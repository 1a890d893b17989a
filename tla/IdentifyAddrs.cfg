SPECIFICATION ConsumeSpec
CONSTANTS
  p1 = p1  p2 = p2  c1 = c1  c2 = c2  c3 = c3  t1 = t1  t2 = t2  bg = bg  em = em  tag1 = tag1  a1 = a1  a2 = a2
  Peers = {p1, p2}
  Conns = {c1, c2, c3}
  remotePeer <- SharedPeer
  Incoming = {c1}
  numStreams <- SomeStreams
  Values = {1}
  ProtectTags = {tag1}
  LowWater = 1
  HighWater = 2
  Callers = {t1, t2}
  Background = {bg}
  Emergencies = {em}
  MaxInfos = 3
  Nobody = Nobody
INVARIANT PeerStoreHasAddrs
CHECK_DEADLOCK FALSE
