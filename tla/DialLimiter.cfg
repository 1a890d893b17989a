SPECIFICATION FairSpec
CONSTANTS
  p1 = p1  p2 = p2  d1 = d1  d2 = d2  d3 = d3
  a = a  b = b  c = c  d = d  e = e
  NoJob = NoJob
  Peers = {p1, p2}
  Dials = {d1, d2, d3}
  Jobs = {a, b, c, d, e}
  peerOf <- RedialPeerOf
  dialOf <- RedialDialOf
  FdJobs <- RedialFdJobs
  fdLimit = 1
  perPeerLimit = 1
INVARIANT TokenAccounting
INVARIANT NoIdleToken
PROPERTY WaitersServed
PROPERTY ImplementsPool
CHECK_DEADLOCK FALSE
