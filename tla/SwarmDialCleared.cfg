SPECIFICATION FairSpec
CONSTANTS
  Callers = {c1, c2}
  Forced = {}
  UseTransient = {}
  Addrs = {direct, relay}
  Proxy = {relay}
  Transient = {relay}
  InboundAddrs = {}
  Expensive = {}
  Private = {}
  FdConsuming = {direct, relay}
  MaxDials = 2
  LimiterFull = TRUE
PROPERTY CallersAnswered
CHECK_DEADLOCK FALSE
