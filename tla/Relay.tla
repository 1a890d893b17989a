------------------------------- MODULE Relay -------------------------------
(***************************************************************************)
(* The circuit relay service (p2p/protocol/circuitv2/relay): reservations  *)
(* of slots, constrained by peer, IP address and autonomous system, and    *)
(* circuits, each set up and run by the goroutines of one incoming stream. *)
(* A peer has at most one connection.  Streams, messages and the reasons   *)
(* why an operation on them fails are nondeterministic outcomes; a stream  *)
(* may outlive its connection for a while.                                 *)
(***************************************************************************)
EXTENDS Naturals, Sequences, FiniteSets

CONSTANTS
  Peers,
  IPs, ASNs,
  ipOf,             \* [Peers -> IPs]
  asnOf,            \* [Peers -> ASNs \cup {NoASN}]: an IPv4 address has none
  NoASN,
  Handlers,         \* the incoming streams, one goroutine each
  MaxReservations, MaxReservationsPerPeer, MaxReservationsPerIP, MaxReservationsPerASN,
  MaxCircuits,
  ReservationTTL, Validity,
  MaxTime           \* bound of the model: the clock stops here

ASSUME RelayAssumption ==
  /\ ipOf \in [Peers -> IPs] /\ asnOf \in [Peers -> ASNs \cup {NoASN}]
  /\ {MaxReservations, MaxReservationsPerPeer, MaxReservationsPerIP, MaxReservationsPerASN,
      MaxCircuits, MaxTime} \subseteq Nat
  /\ {ReservationTTL, Validity} \subseteq Nat \ {0}
  /\ NoASN \notin ASNs /\ IsFiniteSet(Handlers)

VARIABLES
  now,
  connected,     \* the peers the host is connected to
  leaving,       \* [Peers -> {"no", "check", "delete"}]: the disconnected callback
  rsvp,          \* [Peers -> Nat]: when the reservation expires; 0 without one
  conns,         \* [Peers -> Nat]
  rsvpTagged,    \* the peers that carry the tag "relay-reservation" in the connection manager
  hopTagged,     \* and those that carry relayHopTag
  granted,       \* the new reservations so far, in order: [peer, at]
  total,         \* constraints.total: its entries, as places in granted; the lists of a
                 \* peer, an IP address and an autonomous system are the parts of it
  closed,        \* "no", "closing", "yes": Close has not run, is running, has returned
  at,            \* [Handlers -> the point a handler has reached]
  src, dest,     \* [Handlers -> Peers]
  copying,       \* [Handlers -> 0..2]: the copying goroutines of a circuit
  spans          \* the handlers whose span is open

tableVars == <<rsvp, rsvpTagged, conns, hopTagged, total, granted>>
hostVars == <<connected, leaving>>
handlerVars == <<at, src, dest, copying, spans>>
vars == <<now, hostVars, tableVars, closed, handlerVars>>

Init ==
  /\ now = 1
  /\ connected = {} /\ leaving = [p \in Peers |-> "no"]
  /\ rsvp = [p \in Peers |-> 0]
  /\ conns = [p \in Peers |-> 0] /\ rsvpTagged = {} /\ hopTagged = {}
  /\ total = {} /\ granted = <<>>
  /\ closed = "no"
  /\ at = [h \in Handlers |-> "idle"]
  /\ src \in [Handlers -> Peers] /\ dest \in [Handlers -> Peers]
  /\ copying = [h \in Handlers |-> 0]
  /\ spans = {}

----------------------------------------------------------------------------
(* The constraints on reservations.                                        *)

\* When an entry was made long enough ago, it has expired.
Expired(i) == granted[i].at + Validity <= now

\* cleanupList drops the entries of a list up to the first one that has not expired.
Cleanup(l) == {i \in l : \E j \in l : j <= i /\ ~Expired(j)}

OfPeer(l, p) == {i \in l : granted[i].peer = p}
OfIP(l, ip) == {i \in l : ipOf[granted[i].peer] = ip}
OfASN(l, asn) == {i \in l : asnOf[granted[i].peer] = asn}

\* AddReservation succeeds for peer p when l are the live entries.
Allowed(l, p) ==
  /\ Cardinality(l) < MaxReservations
  /\ Cardinality(OfPeer(l, p)) < MaxReservationsPerPeer
  /\ Cardinality(OfIP(l, ipOf[p])) < MaxReservationsPerIP
  /\ asnOf[p] # NoASN => Cardinality(OfASN(l, asnOf[p])) < MaxReservationsPerASN

----------------------------------------------------------------------------
(* The host.                                                               *)

Connect(p) ==
  /\ p \notin connected
  /\ connected' = connected \cup {p}
  /\ UNCHANGED <<now, leaving, tableVars, closed, handlerVars>>

\* The connection ends; the relay is notified unless it has stopped listening.
Disconnect(p) ==
  /\ p \in connected
  /\ leaving[p] = "no"
  /\ connected' = connected \ {p}
  /\ leaving' = [leaving EXCEPT ![p] = IF closed = "yes" THEN "no" ELSE "check"]
  /\ UNCHANGED <<now, tableVars, closed, handlerVars>>

\* disconnected looks at the connectedness first and takes the lock later.
DisconnectedCheck(p) ==
  /\ leaving[p] = "check"
  /\ leaving' = [leaving EXCEPT ![p] = IF p \in connected THEN "no" ELSE "delete"]
  /\ UNCHANGED <<now, connected, tableVars, closed, handlerVars>>

DisconnectedDelete(p) ==
  /\ leaving[p] = "delete"
  /\ leaving' = [leaving EXCEPT ![p] = "no"]
  /\ rsvp' = [rsvp EXCEPT ![p] = 0]
  /\ UNCHANGED <<now, connected, rsvpTagged, conns, hopTagged, total, granted, closed, handlerVars>>

\* The connection manager drops the tags of a peer that is gone.
TagsDropped(p) ==
  /\ p \in (rsvpTagged \cup hopTagged) \ connected
  /\ rsvpTagged' = rsvpTagged \ {p} /\ hopTagged' = hopTagged \ {p}
  /\ UNCHANGED <<now, hostVars, rsvp, conns, total, granted, closed, handlerVars>>

Tick ==
  /\ now < MaxTime
  /\ now' = now + 1
  /\ UNCHANGED <<hostVars, tableVars, closed, handlerVars>>

----------------------------------------------------------------------------
(* handleStream and handleReserve.                                         *)

\* A stream is accepted and its message read.
HandleStream(h) ==
  /\ at[h] = "idle"
  /\ src[h] \in connected /\ closed # "yes"
  /\ \E type \in {"reserve", "connect"} : at' = [at EXCEPT ![h] = type]
  /\ UNCHANGED <<now, hostVars, tableVars, closed, src, dest, copying, spans>>

\* Malformed messages, relayed connections and the access filter.
Refuse(h) ==
  /\ at[h] \in {"reserve", "connect"}
  /\ at' = [at EXCEPT ![h] = "done"]
  /\ UNCHANGED <<now, hostVars, tableVars, closed, src, dest, copying, spans>>

\* The critical section of handleReserve.  A renewal is not checked again.  Writing
\* the answer may fail, which changes nothing.
HandleReserve(h) ==
  LET p == src[h]
      live == Cleanup(total)
      new == rsvp[p] = 0
  IN
  /\ at[h] = "reserve"
  /\ at' = [at EXCEPT ![h] = "done"]
  /\ IF closed # "no" THEN UNCHANGED <<rsvp, rsvpTagged, total, granted>>
     ELSE /\ \/ ~new /\ UNCHANGED <<total, granted>>
             \/ /\ new /\ Allowed(live, p)
                /\ granted' = Append(granted, [peer |-> p, at |-> now])
                /\ total' = live \cup {Len(granted')}
             \/ new /\ ~Allowed(live, p) /\ total' = live /\ UNCHANGED granted
          /\ rsvp' = IF new => Allowed(live, p)
                     THEN [rsvp EXCEPT ![p] = now + ReservationTTL] ELSE rsvp
          /\ rsvpTagged' = IF new => Allowed(live, p) THEN rsvpTagged \cup {p} ELSE rsvpTagged
  /\ UNCHANGED <<now, hostVars, conns, hopTagged, closed, src, dest, copying, spans>>

----------------------------------------------------------------------------
(* handleConnect.                                                          *)

\* The span for the buffers; the service scope is done once Close has returned.
BeginSpan(h) ==
  /\ at[h] = "connect"
  /\ \/ /\ closed # "yes"
        /\ at' = [at EXCEPT ![h] = "check"] /\ spans' = spans \cup {h}
     \/ at' = [at EXCEPT ![h] = "done"] /\ UNCHANGED spans
  /\ UNCHANGED <<now, hostVars, tableVars, closed, src, dest, copying>>

addConn(c, p) == [c EXCEPT ![p] = @ + 1]

rmConn(c, p) == [c EXCEPT ![p] = IF @ > 0 THEN @ - 1 ELSE 0]

\* A mutant: only the peer that connects is checked.
SourceHasRoom(h) == conns[src[h]] < MaxCircuits

\* Both peers have room for another circuit.
HaveRoom(h) == conns[src[h]] < MaxCircuits /\ conns[dest[h]] < MaxCircuits

\* The critical section of handleConnect.
CheckConnect(h) ==
  /\ at[h] = "check"
  /\ IF rsvp[dest[h]] # 0 /\ HaveRoom(h)
     THEN /\ conns' = addConn(addConn(conns, src[h]), dest[h])
          /\ hopTagged' = hopTagged \cup {p \in Peers : conns[p] = 0 /\ conns'[p] > 0}
          /\ at' = [at EXCEPT ![h] = "open"]
          /\ UNCHANGED spans
     ELSE /\ at' = [at EXCEPT ![h] = "done"]
          /\ spans' = spans \ {h}
          /\ UNCHANGED <<conns, hopTagged>>
  /\ UNCHANGED <<now, hostVars, rsvp, rsvpTagged, total, granted, closed, src, dest, copying>>

\* cleanup, shared by the failures after the check and the end of the circuit.  The
\* span is done first; nothing reads it between that and the critical section.
CleanupCircuit(h) ==
  /\ spans' = spans \ {h}
  /\ conns' = rmConn(rmConn(conns, src[h]), dest[h])
  /\ hopTagged' = {p \in hopTagged : conns'[p] > 0 \/ p \notin {src[h], dest[h]}}
  /\ UNCHANGED <<rsvp, rsvpTagged, total, granted>>

\* NewStream to the destination does not dial; the stream is then attached to the
\* service, the stop handshake made and the answer written.
OpenStop(h) ==
  /\ at[h] = "open" /\ dest[h] \in connected /\ closed # "yes"
  /\ at' = [at EXCEPT ![h] = "handshake"]
  /\ UNCHANGED <<now, hostVars, tableVars, closed, src, dest, copying, spans>>

Handshake(h) ==
  /\ at[h] = "handshake"
  /\ at' = [at EXCEPT ![h] = "relay"]
  /\ copying' = [copying EXCEPT ![h] = 2]
  /\ UNCHANGED <<now, hostVars, tableVars, closed, src, dest, spans>>

ConnectFails(h) ==
  /\ at[h] \in {"open", "handshake"}
  /\ at' = [at EXCEPT ![h] = "done"]
  /\ CleanupCircuit(h)
  /\ UNCHANGED <<now, hostVars, closed, src, dest, copying>>

\* One direction ends: the peer closes its side, the limit of data or of time is
\* reached, or a stream is reset.  The second one to end cleans up.
CopyEnds(h) ==
  /\ at[h] = "relay"
  /\ copying' = [copying EXCEPT ![h] = @ - 1]
  /\ IF copying[h] = 1
     THEN at' = [at EXCEPT ![h] = "done"] /\ CleanupCircuit(h)
     ELSE UNCHANGED <<at, tableVars, spans>>
  /\ UNCHANGED <<now, hostVars, closed, src, dest>>

----------------------------------------------------------------------------
\* gc, by the ticker of background or by Close.
CollectReservations(all) ==
  LET over == {p \in Peers : rsvp[p] # 0 /\ (all \/ rsvp[p] < now)} IN
  /\ rsvp' = [p \in Peers |-> IF p \in over THEN 0 ELSE rsvp[p]]
  /\ rsvpTagged' = rsvpTagged \ over

GC ==
  /\ closed # "yes"
  /\ CollectReservations(closed # "no")
  /\ UNCHANGED <<now, hostVars, conns, hopTagged, total, granted, closed, handlerVars>>

\* Close marks the relay, and later takes the lock again to collect everything.
Close ==
  /\ closed = "no"
  /\ closed' = "closing"
  /\ UNCHANGED <<now, hostVars, tableVars, handlerVars>>

CloseCollects ==
  /\ closed = "closing"
  /\ closed' = "yes"
  /\ CollectReservations(TRUE)
  /\ UNCHANGED <<now, hostVars, conns, hopTagged, total, granted, handlerVars>>

HandlerStep(h) ==
  \/ Refuse(h) \/ HandleReserve(h) \/ BeginSpan(h) \/ CheckConnect(h)
  \/ OpenStop(h) \/ Handshake(h) \/ ConnectFails(h) \/ CopyEnds(h)

Next ==
  \/ \E p \in Peers : \/ Connect(p) \/ Disconnect(p)
                      \/ DisconnectedCheck(p) \/ DisconnectedDelete(p) \/ TagsDropped(p)
  \/ \E h \in Handlers : HandleStream(h) \/ HandlerStep(h)
  \/ GC \/ Close \/ CloseCollects \/ Tick

Spec == Init /\ [][Next]_vars

----------------------------------------------------------------------------
(* Properties.                                                             *)

TypeOK ==
  /\ now \in Nat /\ connected \subseteq Peers
  /\ leaving \in [Peers -> {"no", "check", "delete"}]
  /\ rsvp \in [Peers -> Nat] /\ conns \in [Peers -> Nat]
  /\ rsvpTagged \subseteq Peers /\ hopTagged \subseteq Peers
  /\ granted \in Seq([peer : Peers, at : Nat]) /\ total \subseteq 1..Len(granted)
  /\ closed \in {"no", "closing", "yes"}
  /\ at \in [Handlers -> {"idle", "reserve", "connect", "check", "open", "handshake", "relay", "done"}]
  /\ src \in [Handlers -> Peers] /\ dest \in [Handlers -> Peers]
  /\ copying \in [Handlers -> 0..2] /\ spans \subseteq Handlers

InCircuit(h) == at[h] \in {"open", "handshake", "relay"}

Circuits(p) == {h \in Handlers : InCircuit(h) /\ p \in {src[h], dest[h]}}

\* Whatever fails and whenever, conns counts the circuits of each peer that are being
\* set up or running, no more than MaxCircuits of them; a peer keeps the hop tag no
\* longer than its circuits, and every span of the service scope is given back.
CircuitsCounted ==
  /\ TypeOK
  /\ \A p \in Peers :
       /\ conns[p] = Cardinality({h \in Handlers : InCircuit(h) /\ src[h] = p})
                     + Cardinality({h \in Handlers : InCircuit(h) /\ dest[h] = p})
       /\ Cardinality(Circuits(p)) <= MaxCircuits
       /\ p \in hopTagged => conns[p] > 0
  /\ spans = {h \in Handlers : at[h] = "check" \/ InCircuit(h)}

\* The grants of the last Validity.
Recent == {i \in 1..Len(granted) : ~Expired(i)}

\* In no window of length Validity does the relay grant more new reservations than
\* allowed in all, to one peer, to one IP address and to one autonomous system; and
\* once Close has returned there are no reservations, whatever handlers still run.
GrantsBounded ==
  /\ Cardinality(Recent) <= MaxReservations
  /\ \A p \in Peers : Cardinality(OfPeer(Recent, p)) <= MaxReservationsPerPeer
  /\ \A ip \in IPs : Cardinality(OfIP(Recent, ip)) <= MaxReservationsPerIP
  /\ \A asn \in ASNs : Cardinality(OfASN(Recent, asn)) <= MaxReservationsPerASN
  /\ closed = "yes" => \A p \in Peers : rsvp[p] = 0

\* The relay keeps its limits: the circuits counted for a peer are the ones being set up
\* or running, within the limit, and in no window are more new reservations granted than
\* the constraints allow, whatever fails and ends in between
\* (relay.go: handleReserve, handleConnect, Close, gc, disconnected).
RelayBounded == CircuitsCounted /\ GrantsBounded

\* "MaxReservations is the maximum number of active relay slots"
\* (p2p/protocol/circuitv2/relay/resources.go).
SlotsBounded == Cardinality({p \in Peers : rsvp[p] >= now}) <= MaxReservations
============================================================================
