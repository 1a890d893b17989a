----------------------------- MODULE MCCircuit -----------------------------
(***************************************************************************)
(* Small instances of the two sides of circuit relaying, the relay service *)
(* (Relay) and the relay finder of a host behind a NAT (RelayFinder).      *)
(* Each behaviour is one of the component and of the operations that       *)
(* `part' names.                                                           *)
(***************************************************************************)
EXTENDS Relay, TLC

CONSTANTS p1, p2, h1, h2, h3, ip6, n1, n2, NoCache

VARIABLES
  part,
  status, autorelay, cancelled, booted, online, losses, events,
  candidates, old, backoff, relays, protected, cached, chan,
  bg, bootTimer, refreshing, failed, limiter, find, peerChan, calls, node,
  conn, todo, cur, unsaid

\* The peers share an IPv6 address, whose autonomous system is known.
OneIPv6 == [p \in Peers |-> ip6]
OneASN == [p \in Peers |-> "asn"]

Finder == INSTANCE RelayFinder WITH
  Nodes <- {n1, n2}, minCandidates <- 1, maxCandidates <- 1, desiredRelays <- 1,
  MaxCalls <- 1, MaxLosses <- 1, connected <- online

finderVars == <<status, autorelay, cancelled, booted, online, losses, events,
                candidates, old, backoff, relays, protected, cached, chan,
                bg, bootTimer, refreshing, failed, limiter, find, peerChan, calls, node,
                conn, todo, cur, unsaid>>
all == <<vars, finderVars, part>>

\* Relay: reservations over time, or circuits at one time.
RelayParts == {"reservations", "circuits"}

\* RelayFinder: relays that come and go while the finder runs, or its first minutes,
\* its stops and its restarts, with one node.  One node is tried at a time, and a node
\* stays in backoff.
FinderParts == {"relays", "restart"}

OneTried == \E p \in {n1, n2} : \A q \in {n1, n2} \ {p} : node[q] = "none"

Uses ==
  CASE part = "reservations" -> \A h \in Handlers : at[h] \in {"idle", "reserve", "done"}
    [] part = "circuits"     -> now = 1
    [] part = "relays"       -> /\ OneTried
                                /\ bg # "off" => booted /\ status = "private"
                                /\ autorelay = "idle" /\ old = {}
                                /\ \A p, q \in refreshing : p = q
                                /\ calls = 1 => ~limiter
    [] part = "restart"      -> /\ bg # "off" => status # "unknown"
                                /\ \A p \in {n1, n2} \ {cur} : node[p] = "none"
                                /\ refreshing = {} /\ losses = 0
                                /\ calls = 1 => ~limiter

\* For circuits, one stream comes from p1, which reserves or asks for a circuit with
\* itself, and two ask for circuits with p1, one of them from p2.  The peers and the
\* streams are interchangeable for reservations.
Streams ==
  IF part = "circuits"
  THEN /\ src[h1] = p1 /\ dest[h1] = p1
       /\ src[h2] = p2 /\ dest[h2] = p1 /\ dest[h3] = p1
  ELSE /\ dest = src /\ src[h1] = p1 /\ src[h2] = p1
       /\ part # "reservations" => src[h3] = p1

MCInit == part \in RelayParts \cup FinderParts /\ Init /\ Finder!Init /\ Streams

MCNext ==
  /\ UNCHANGED part
  /\ \/ part \in RelayParts /\ Next /\ UNCHANGED finderVars
     \/ part \in FinderParts /\ Finder!Next /\ backoff \subseteq backoff' /\ UNCHANGED vars
  /\ Uses'

MCSpec == MCInit /\ [][MCNext]_all

\* The nodes are interchangeable.
Symmetry == Permutations({n1, n2})

----------------------------------------------------------------------------
\* The finder keeps its promise to the host: the addresses advertised are those of the
\* relays in use, and candidates do not lie unused while a relay is missing
\* (relay_finder.go: relayAddrs, maybeConnectToRelay, handleNewCandidate).
RelaysUsed == Finder!AddrsFollowRelays /\ Finder!CandidatesUsed
============================================================================
