--------------------------- MODULE MCDialLimiter ---------------------------
(* The dials and jobs of the runs of DialLimiter.                          *)
EXTENDS DialLimiter, TLC

CONSTANTS p1, p2, d1, d2, d3, a, b, c, d, e

\* Peer p1 is dialed, the dial is cancelled and p1 is dialed again, while p2 is
\* dialed too; b is a relay address and needs no FD.
RedialPeerOf == d1 :> p1 @@ d2 :> p1 @@ d3 :> p2
RedialDialOf == a :> d1 @@ b :> d1 @@ c :> d2 @@ d :> d2 @@ e :> d3
RedialFdJobs == {a, c, d, e}
============================================================================
