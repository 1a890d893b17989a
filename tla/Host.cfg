SPECIFICATION MCSpec
CONSTANTS
  Tryers = {"t1", "t2"}
  Notified = {"t1"}
  maxRetries = 2
  MaxReachEvents = 1
  Listeners <- MCListeners
  Interfaces <- MCInterfaces
  Hidden = {"priv"}
  PublicIPs = {"pub"}
  AnyIP = "any"
  Loopback = {"lo"}
  ExtIPs = {"", "pending", "any", "pub", "priv"}
  Observations <- MCObservations
  MaxChanges = 3
  Calls = {"u1", "u2"}
  Incoming = {"i"}
  Protos = {"p"}
  MaxConns = 2
  MaxEvents = 4
  Ports = {"v1", "v2"}
  Maps = {"w1", "w2", "w3"}
  MaxListens = 2
CHECK_DEADLOCK FALSE
INVARIANT ObservationsKept
INVARIANT ReachabilityFollowed
INVARIANT DialBackLimited
INVARIANT AddressesCurrent
INVARIANT StreamsAccounted
INVARIANT AttemptsExclusive
INVARIANT PeersKnown
