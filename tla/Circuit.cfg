SPECIFICATION MCSpec
CONSTANTS
  p1 = p1  p2 = p2  h1 = h1  h2 = h2  h3 = h3
  ip6 = ip6  n1 = n1  n2 = n2  NoCache = NoCache
  NoASN = "none"
  Peers = {p1, p2}
  IPs = {ip6}
  ASNs = {"asn"}
  ipOf <- OneIPv6
  asnOf <- OneASN
  Handlers = {h1, h2, h3}
  MaxReservations = 2
  MaxReservationsPerPeer = 1
  MaxReservationsPerIP = 2
  MaxReservationsPerASN = 2
  MaxCircuits = 1
  ReservationTTL = 2
  Validity = 1
  MaxTime = 3
SYMMETRY Symmetry
CHECK_DEADLOCK FALSE
INVARIANT RelayBounded
INVARIANT RelaysUsed
