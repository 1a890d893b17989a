SPECIFICATION MCSpec
CONSTANTS
  Peers = {p1, p2}
  Addrs = {a1, a2}
  BackoffBase = 1
  BackoffCoef = 2
  BackoffMax = 2
  MaxDuration = 5
  MaxTime = 4
  MaxTries = 3
  d1 = d1
  d2 = d2
  b1 = b1  a1 = a1  a2 = a2  s1 = s1  s2 = s2  s3 = s3  e1 = e1  e2 = e2  w1 = w1  x = x  y = y  Nobody = Nobody
CHECK_DEADLOCK FALSE
INVARIANT ValueIsSum
INVARIANT StreamComplete
INVARIANT BusDelivers
PROPERTY ForgottenOnlyWhenStale
PROPERTY ValuesExpire
