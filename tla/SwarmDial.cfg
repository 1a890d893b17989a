SPECIFICATION FairSpec
CONSTANTS
  Callers = {c1, c2}
  Forced = {c2}
  UseTransient = {c1}
  Addrs = {direct, relay}
  Proxy = {relay}
  Transient = {relay}
  InboundAddrs = {relay}
  Expensive = {}
  Private = {}
  FdConsuming = {direct, relay}
  MaxDials = 2
  LimiterFull = TRUE
INVARIANT DialsShared
PROPERTY AnsweredUnlessCleared
PROPERTY DialWindsDown
CHECK_DEADLOCK FALSE
