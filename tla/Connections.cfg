SPECIFICATION MCSpec
CONSTANTS
  u1 = u1  u2 = u2  v1 = v1  v2 = v2
  GPeers = {"p"}
  GIPs = {"i"}
  Subnets = {"s"}
  InSubnet <- MCInSubnet
  NoIP = "none"
  GCallers = {u1, u2}
  Attempts = {"a"}
  Raw = {"r1", "r2", "r3"}
  AcceptQueueLength = 1
  MaxTemp = 1
  Sessions = {"s1", "s2", "s3"}
  QuicConns = {"q1", "q2"}
  QuicOf <- MCQuicOf
  Hashes = {"h1", "h2"}
  WtQueueLen = 1
  CertValidity = 6
  ClockSkew = 1
  Offset = 3
  MaxCertTime = 16
  MaxLag = 1
  Dials = {"d1", "d2", "d3"}
  Ins = {"i1"}
  Relays = {"r", "s"}
  via <- MCvia
SYMMETRY Symmetry
CHECK_DEADLOCK FALSE
INVARIANT SetUpSound
INVARIANT RulesInForce
INVARIANT LimitsApplied
INVARIANT NothingHalfOpen
INVARIANT SessionsAccounted
INVARIANT SessionsSound
INVARIANT QuicShared
INVARIANT RelayDialsShared
INVARIANT CertsServe
