----------------------------- MODULE BasicHost -----------------------------
(***************************************************************************)
(* The basic host (p2p/host/basic), the relay manager it owns              *)
(* (p2p/host/relaysvc) and its port mappings (natmgr.go, p2p/net/nat).     *)
(***************************************************************************)
EXTENDS Naturals, FiniteSets, Sequences

----------------------------------------------------------------------------
(***************************************************************************)
(* Addresses.  The addresses of a basic host                               *)
(* (p2p/host/basic/basic_host.go): how they are computed from listeners,   *)
(* interfaces, NAT mappings and observed addresses, and the goroutine that *)
(* tells subscribers of changes and signs them.  An address is [ip, t,     *)
(* port, hash]: t is the transport, hash whether certificate hashes are    *)
(* appended.                                                               *)
(***************************************************************************)

CONSTANTS
  Listeners,      \* the addresses the host can listen on
  Interfaces,     \* the interface sets the machine can have: [all, routed]
  Hidden,         \* IPs that the AddrsFactory removes
  PublicIPs, AnyIP, Loopback,
  ExtIPs,         \* external IPs the gateway reports, "" without mapping, "pending" if none is ready
  Observations,   \* sets of observed addresses
  MaxChanges      \* bound of the model: changes around the host

HostAddr(i, t, p) == [ip |-> i, t |-> t, port |-> p, hash |-> FALSE]
Plain(a) == a = HostAddr(a.ip, a.t, a.port)

\* Interfaces, public IPs and observers give no unspecified IP; certificate hashes are part of no
\* listener's and no observed address.
ASSUME HostAddrsAssumption ==
  /\ AnyIP \notin PublicIPs
  /\ \A i \in Interfaces : AnyIP \notin i.all /\ AnyIP \notin i.routed
  /\ \A l \in Listeners : Plain(l)
  /\ \A as \in Observations : \A o \in as : Plain(o) /\ o.ip # AnyIP

VARIABLES
  listen, signals, addrChangeChan, iface, filtered, allIfaces, mapped, observed,
  hbg,          \* background: "compute", "read", "emit", "select", "done"
  curr, lastAddrs, lastListen,
  told,         \* what a subscriber knows from the differences it was sent
  signed,       \* the addresses and number of the record in the peerstore
  unsent,       \* history: addresses whose last change was sent to no subscriber
  unsigned,     \* history: the record of the last change was not made or not stored
  hctx, hchanges

addrSources == <<listen, iface, mapped, observed>>
hostVars == <<addrSources, signals, addrChangeChan, filtered, allIfaces, hbg, curr, lastAddrs,
              lastListen, told, signed, unsent, unsigned, hctx, hchanges>>

----------------------------------------------------------------------------
(* AllAddrs and Addrs                                                      *)

\* manet.ResolveUnspecifiedAddresses
Resolve(addrs, ips) ==
  {a \in addrs : a.ip # AnyIP} \cup {[a EXCEPT !.ip = i] : a \in {b \in addrs : b.ip = AnyIP}, i \in ips}

\* updateLocalIpAddr: the routed addresses and the loopback ones; all without a route.
Filtered(i) == IF i.routed = {} THEN i.all ELSE i.routed \cup (i.all \cap Loopback)

\* What a NAT mapping adds for the listener once it is ready: the external address, and, when that is not
\* public, the public IPs observed for the listener with the external port.
NatAddrs(l) ==
  LET ext == HostAddr(mapped, l.t, 0)
      seen == {o \in observed : \E a \in Resolve({l}, allIfaces) : o.t = a.t /\ o.ip \in PublicIPs}
  IN IF l.ip \in Loopback \/ mapped = "pending" THEN {}
     ELSE {a \in {ext} : a.ip # AnyIP}
          \cup (IF mapped \in PublicIPs THEN {} ELSE {[ext EXCEPT !.ip = o.ip] : o \in seen})

Quic(a) == HostAddr(a.ip, "quic", a.port)
WebTransport(a) == HostAddr(a.ip, "wt", a.port)

\* inferWebtransportAddrsFromQuic: when both listen on one port, every QUIC address has a
\* WebTransport address.
InferWebtransport(in) ==
  LET either == {a \in in : a.t \in {"quic", "wt"}}
      wts == {WebTransport(a) : a \in {b \in in : b.t = "wt"}}
      quics == {a \in in : a.t = "quic"}
  IN IF wts # {} /\ \E a, b \in either : a # b /\ Quic(a) = Quic(b)
     THEN in \cup ({WebTransport(a) : a \in quics} \ wts)
     ELSE in

AllAddrs ==
  IF listen = {} THEN {}
  ELSE InferWebtransport(Resolve(listen, filtered) \cup
                         IF mapped # "" THEN UNION {NatAddrs(l) : l \in listen} ELSE observed)

\* Addrs: the AddrsFactory, then certificate hashes where the host listens on WebTransport.
Addrs ==
  {IF a.t = "wt" /\ \E l \in listen : l.t = "wt" THEN [a EXCEPT !.hash = TRUE] ELSE a :
     a \in {b \in AllAddrs : b.ip \notin Hidden}}

\* NormalizeMultiaddr
NormalizeMultiaddr(a) == HostAddr(a.ip, a.t, a.port)

----------------------------------------------------------------------------
AddrsInit ==
  /\ listen = {} /\ signals = 0 /\ addrChangeChan = FALSE /\ iface \in Interfaces
  /\ filtered = Filtered(iface) /\ allIfaces = iface.all /\ mapped = "" /\ observed = {}
  /\ hbg = "compute" /\ curr = {} /\ lastAddrs = {} /\ lastListen = {} /\ told = {}
  /\ signed = [addrs |-> {}, seq |-> 1] /\ unsent = {} /\ unsigned = FALSE /\ hctx = FALSE /\ hchanges = 0

UNCHANGED_TOLD == UNCHANGED <<lastAddrs, lastListen, told, signed, unsent, unsigned>>

\* Listeners, interfaces, mappings and observations change; the swarm then notifies.
Change ==
  /\ hchanges < MaxChanges /\ hchanges' = hchanges + 1
  /\ \/ \E l \in Listeners :
          /\ listen' = IF l \in listen THEN listen \ {l} ELSE listen \cup {l}
          /\ signals' = signals + 1 /\ UNCHANGED <<iface, mapped, observed>>
     \/ iface' \in Interfaces \ {iface} /\ UNCHANGED <<listen, signals, mapped, observed>>
     \/ mapped' \in ExtIPs \ {mapped} /\ UNCHANGED <<listen, signals, iface, observed>>
     \/ observed' \in Observations \ {observed} /\ UNCHANGED <<listen, signals, iface, mapped>>
  /\ UNCHANGED <<addrChangeChan, filtered, allIfaces, hbg, curr, hctx>> /\ UNCHANGED_TOLD

\* SignalAddressChange, from the listenHandler of NewHost.
SignalAddressChange ==
  /\ signals > 0 /\ signals' = signals - 1 /\ addrChangeChan' = TRUE
  /\ UNCHANGED <<addrSources, filtered, allIfaces, hbg, curr, hctx, hchanges>> /\ UNCHANGED_TOLD

\* background: updateLocalIpAddr while listening.
Compute ==
  /\ hbg = "compute" /\ hbg' = "read"
  /\ IF listen = {} THEN UNCHANGED <<filtered, allIfaces>>
     ELSE filtered' = Filtered(iface) /\ allIfaces' = iface.all
  /\ UNCHANGED <<addrSources, signals, addrChangeChan, curr, hctx, hchanges>> /\ UNCHANGED_TOLD

Read ==
  /\ hbg = "read" /\ hbg' = "emit" /\ curr' = Addrs /\ lastListen' = listen
  /\ UNCHANGED <<addrSources, signals, addrChangeChan, filtered, allIfaces, hctx, hchanges>>
  /\ UNCHANGED <<lastAddrs, told, signed, unsent, unsigned>>

\* The addresses that makeUpdatedAddrEvent lists as added or removed.
Differences == (curr \ lastAddrs) \cup (lastAddrs \ curr)

\* makeSignedPeerRecord and ConsumePeerRecord, then the event; the emitter may be closed by Close.
Signs ==
  /\ signed' = [addrs |-> curr, seq |-> signed.seq + 1] /\ unsigned' = FALSE
  /\ \/ told' = (told \cup (curr \ lastAddrs)) \ (lastAddrs \ curr) /\ unsent' = unsent \ Differences
     \/ hctx /\ unsent' = unsent \cup Differences /\ UNCHANGED told

\* The record is not made or not stored: emitAddrChange returns without the event.
SigningFails == unsigned' = TRUE /\ unsent' = unsent \cup Differences /\ UNCHANGED <<told, signed>>

\* emitAddrChange; whether it told anyone or not, lastAddrs = curr follows.
Emit ==
  /\ hbg = "emit" /\ hbg' = "select" /\ lastAddrs' = curr
  /\ \/ curr = lastAddrs /\ UNCHANGED <<told, signed, unsent, unsigned>>
     \/ curr # lastAddrs /\ (Signs \/ SigningFails)
  /\ UNCHANGED <<addrSources, signals, addrChangeChan, filtered, allIfaces, curr, lastListen, hctx, hchanges>>

WakesUp ==
  /\ hbg = "select"
  /\ \/ hbg' = "compute" /\ UNCHANGED addrChangeChan         \* the ticker
     \/ addrChangeChan /\ addrChangeChan' = FALSE /\ hbg' = "compute"
     \/ hctx /\ hbg' = "done" /\ UNCHANGED addrChangeChan
  /\ UNCHANGED <<addrSources, signals, filtered, allIfaces, curr, hctx, hchanges>> /\ UNCHANGED_TOLD

Close ==
  /\ ~hctx /\ hctx' = TRUE
  /\ UNCHANGED <<addrSources, signals, addrChangeChan, filtered, allIfaces, hbg, curr, hchanges>>
  /\ UNCHANGED_TOLD

AddrsNext == Change \/ SignalAddressChange \/ Compute \/ Read \/ Emit \/ WakesUp \/ Close
AddrsSpec == AddrsInit /\ [][AddrsNext]_hostVars

----------------------------------------------------------------------------
\* A change of the listeners is not lost while the goroutine is busy.  Subscribers who add up
\* the differences know, of every address, whether it was among those last computed, except
\* where its last change was never sent: a change whose record cannot be signed or stored, or
\* whose event meets a closed emitter, is not sent again.  The signed record has the addresses
\* last computed unless signing the last change failed.  Those addresses never hold an
\* unspecified IP, nor one that the factory hides, and offer WebTransport with certificate
\* hashes wherever they offer QUIC on a shared port.
AddressesTold ==
  /\ hbg = "select" /\ ~addrChangeChan /\ signals = 0 => lastListen = listen
  /\ told \ unsent = lastAddrs \ unsent
  /\ unsigned \/ signed.addrs = lastAddrs
  /\ \A a \in lastAddrs :
       /\ a.ip # AnyIP /\ a.ip \notin Hidden 
       /\ hbg = "select" /\ a.t = "wt" /\ (\E l \in lastListen : l.t = "wt") => a.hash
  /\ (\E a, b \in lastAddrs : a.t = "quic" /\ b.t = "wt" /\ Quic(a) = Quic(b))
       => \A a \in lastAddrs : a.t = "quic" =>
            \E b \in lastAddrs : b.t = "wt" /\ NormalizeMultiaddr(b) = WebTransport(a)

----------------------------------------------------------------------------
(***************************************************************************)
(* Streams.  Streams of a basic host to and from one peer (p2p/host/basic/ *)
(* basic_host.go): NewStream with its dial, its wait for identify and the  *)
(* choice of the protocol, and the handler of incoming streams.            *)
(***************************************************************************)

CONSTANTS
  Calls,        \* calls of NewStream
  Incoming,     \* streams the peer opens
  Protos,
  MaxConns      \* bound of the model: connections to the peer, one after the other

VARIABLES
  link,         \* 0, or the number of the present connection
  links,        \* connections made so far
  identified,   \* the connections whose identify is over
  knownProtos,  \* protocols of the peer in the peerstore
  theirProtos,  \* protocols the peer handles
  mux,          \* protocols this host handles
  ns,           \* the calls
  inc           \* the incoming streams

streamVars == <<link, links, identified, knownProtos, theirProtos, mux, ns, inc>>

NoCall == [at |-> "idle", on |-> 0, st |-> "none", proto |-> "none", want |-> {}, attached |-> FALSE]
NoInc == [at |-> "none", on |-> 0, st |-> "none", proto |-> "none", attached |-> FALSE]

StreamsInit ==
  /\ link = 0 /\ links = 0 /\ identified = {} /\ knownProtos \in SUBSET Protos
  /\ theirProtos \in SUBSET Protos /\ mux \in SUBSET Protos
  /\ ns = [c \in Calls |-> NoCall] /\ inc = [i \in Incoming |-> NoInc]

At(c, s) == ns[c].at = s
Goto(c, s) == ns' = [ns EXCEPT ![c].at = s]
FailWith(c) == ns' = [ns EXCEPT ![c].at = "failed", ![c].st = IF @ = "open" THEN "reset" ELSE @]
UNCHANGED_ENV == UNCHANGED <<link, links, identified, knownProtos, theirProtos, mux, inc>>

----------------------------------------------------------------------------
(* NewStream                                                               *)

\* Connect does nothing with a connection.
NeedsDial(nodial) == ~nodial /\ link = 0

\* NewStream calls Connect unless told not to dial; Connect adds the addresses and dials
\* only without a connection.
NewStream(c, want, nodial) ==
  /\ At(c, "idle")
  /\ ns' = [ns EXCEPT ![c].want = want, ![c].at = IF NeedsDial(nodial) THEN "dial" ELSE "open"]
  /\ UNCHANGED_ENV

\* dialPeer: a dial that joins or makes the connection, or fails.
DialPeer(c) ==
  /\ At(c, "dial")
  /\ \/ link # 0 /\ ns' = [ns EXCEPT ![c].at = "waitDial", ![c].on = link] /\ UNCHANGED <<link, links>>
     \/ /\ link = 0 /\ links < MaxConns /\ link' = links + 1 /\ links' = links + 1
        /\ ns' = [ns EXCEPT ![c].at = "waitDial", ![c].on = links + 1]
     \/ FailWith(c) /\ UNCHANGED <<link, links>>
  /\ UNCHANGED <<identified, knownProtos, theirProtos, mux, inc>>

\* The IdentifyWait of dialPeer, or the context of the call.
WaitDial(c) ==
  /\ At(c, "waitDial") /\ ((ns[c].on \in identified /\ Goto(c, "open")) \/ FailWith(c))
  /\ UNCHANGED_ENV

\* Network.NewStream, which no longer dials.
OpenStream(c) ==
  /\ At(c, "open")
  /\ IF link = 0 THEN FailWith(c)
     ELSE \/ ns' = [ns EXCEPT ![c].at = "waitId", ![c].on = link, ![c].st = "open"]
          \/ FailWith(c)
  /\ UNCHANGED_ENV

\* The wait for identify of the stream's connection, giving up without a reset.
WaitIdLeaves(c) ==
  /\ At(c, "waitId") /\ ((ns[c].on \in identified /\ Goto(c, "prefer")) \/ Goto(c, "failed"))
  /\ UNCHANGED_ENV

\* The wait for identify of the stream's connection; the stream is reset on giving up.
WaitId(c) ==
  /\ At(c, "waitId") /\ ((ns[c].on \in identified /\ Goto(c, "prefer")) \/ FailWith(c))
  /\ UNCHANGED_ENV

\* preferredProtocol: a protocol the peer is known to handle is used without asking (the
\* negotiation is done with the first bytes); SetProtocol's result is not looked at.
Prefer(c) ==
  /\ At(c, "prefer")
  /\ \/ LET supported == ns[c].want \cap knownProtos
        IN IF supported = {} THEN Goto(c, "negotiate")
           ELSE \E p \in supported, ok \in BOOLEAN :
                  ns' = [ns EXCEPT ![c].at = "returned", ![c].proto = p, ![c].attached = ok]
     \/ FailWith(c)          \* the peerstore fails
  /\ UNCHANGED_ENV

\* SelectOneOf in a goroutine; the peerstore learns the selected protocol.
Negotiate(c) ==
  /\ At(c, "negotiate")
  /\ \/ FailWith(c) /\ UNCHANGED knownProtos
     \/ /\ ns[c].st = "open"
        /\ \E p \in ns[c].want \cap theirProtos, ok \in BOOLEAN :
             /\ ns' = [ns EXCEPT ![c].at = "returned", ![c].proto = p, ![c].attached = ok]
             /\ knownProtos' = knownProtos \cup {p}
  /\ UNCHANGED <<link, links, identified, theirProtos, mux, inc>>

----------------------------------------------------------------------------
(* The handler of incoming streams, newStreamHandler.                      *)

StreamIn(i) ==
  /\ link # 0 /\ inc[i].at = "none"
  /\ inc' = [inc EXCEPT ![i] = [NoInc EXCEPT !.at = "negotiate", !.on = link, !.st = "open"]]
  /\ UNCHANGED <<link, links, identified, knownProtos, theirProtos, mux, ns>>

\* Mux().Negotiate, with the negotiation timeout.
NegotiateIn(i) ==
  /\ inc[i].at = "negotiate"
  /\ \/ inc' = [inc EXCEPT ![i].at = "gone", ![i].st = "reset"]
     \/ /\ inc[i].st = "open"
        /\ \E p \in mux : inc' = [inc EXCEPT ![i].at = "protocol", ![i].proto = p]
  /\ UNCHANGED <<link, links, identified, knownProtos, theirProtos, mux, ns>>

\* SetProtocol, then the handler.
HandleIn(i) ==
  /\ inc[i].at = "protocol"
  /\ \/ inc' = [inc EXCEPT ![i].at = "gone", ![i].st = "reset"]
     \/ inc' = [inc EXCEPT ![i].at = "handled", ![i].attached = TRUE]
  /\ UNCHANGED <<link, links, identified, knownProtos, theirProtos, mux, ns>>

\* SetStreamHandler and RemoveStreamHandler
SetHandlers(p) ==
  /\ mux' = IF p \in mux THEN mux \ {p} ELSE mux \cup {p}
  /\ UNCHANGED <<link, links, identified, knownProtos, theirProtos, ns, inc>>

----------------------------------------------------------------------------
\* Identify ends, with the protocols the peer has now; it also ends when the connection does.
IdentifyDone(l) ==
  /\ l \notin identified /\ identified' = identified \cup {l}
  /\ knownProtos' = IF l = link THEN theirProtos ELSE knownProtos
  /\ UNCHANGED <<link, links, theirProtos, mux, ns, inc>>

\* The connection is lost and its streams with it.
Disconnect ==
  /\ link # 0 /\ link' = 0
  /\ ns' = [c \in Calls |-> IF ns[c].st = "open" /\ ns[c].on = link
                            THEN [ns[c] EXCEPT !.st = "reset"] ELSE ns[c]]
  /\ inc' = [i \in Incoming |-> IF inc[i].st = "open" THEN [inc[i] EXCEPT !.st = "reset"] ELSE inc[i]]
  /\ UNCHANGED <<links, identified, knownProtos, theirProtos, mux>>

TheyChange(p) ==
  /\ theirProtos' = IF p \in theirProtos THEN theirProtos \ {p} ELSE theirProtos \cup {p}
  /\ UNCHANGED <<link, links, identified, knownProtos, mux, ns, inc>>

StreamsNext ==
  \/ \E c \in Calls : \/ DialPeer(c) \/ WaitDial(c) \/ OpenStream(c) \/ WaitId(c) \/ Prefer(c)
                      \/ Negotiate(c)
                      \/ \E want \in (SUBSET Protos) \ {{}}, nodial \in BOOLEAN : NewStream(c, want, nodial)
  \/ \E i \in Incoming : StreamIn(i) \/ NegotiateIn(i) \/ HandleIn(i)
  \/ \E p \in Protos : SetHandlers(p) \/ TheyChange(p)
  \/ \E l \in 1..links : IdentifyDone(l)
  \/ Disconnect

StreamsSpec == StreamsInit /\ [][StreamsNext]_streamVars

----------------------------------------------------------------------------
\* A call of NewStream that fails leaves no open stream behind, whichever wait it gave up;
\* one that succeeds returns a stream of a connection whose identify was awaited, for one of
\* the protocols it was asked for; an incoming stream is reset or reaches a handler with the
\* protocol accounted for; and no stream stays open without its connection.
StreamsAccounted ==
  /\ \A c \in Calls :
       /\ At(c, "failed") => ns[c].st \in {"none", "reset"}
       /\ At(c, "returned") => ns[c].proto \in ns[c].want /\ ns[c].on \in identified
       /\ ns[c].st = "open" => ns[c].on = link
  /\ \A i \in Incoming :
       /\ inc[i].at = "handled" => inc[i].attached /\ inc[i].proto \in Protos
       /\ inc[i].at = "gone" => inc[i].st = "reset"
       /\ inc[i].st = "open" => inc[i].on = link

----------------------------------------------------------------------------
(***************************************************************************)
(* The relay manager (p2p/host/relaysvc/relay.go) runs the circuit v2      *)
(* relay while the host is publicly reachable.                             *)
(***************************************************************************)

CONSTANTS MaxEvents    \* bound of the model: reachability events

VARIABLES
  reachEvents,  \* events not yet read, and how many there were
  relays,       \* relays that are running
  relayRef,     \* m.relay is set
  mbg,          \* background: "select", "ending", "done"
  mctx, lastRead

managerVars == <<reachEvents, relays, relayRef, mbg, mctx, lastRead>>

ManagerInit ==
  /\ reachEvents = [queue |-> <<>>, n |-> 0] /\ relays = 0 /\ relayRef = FALSE /\ mbg = "select"
  /\ mctx = FALSE /\ lastRead = "none"

EmitReachability(r) ==
  /\ reachEvents.n < MaxEvents
  /\ reachEvents' = [queue |-> Append(reachEvents.queue, r), n |-> reachEvents.n + 1]
  /\ UNCHANGED <<relays, relayRef, mbg, mctx, lastRead>>

\* A relay is started unless one runs; its construction can fail, which ends the loop.
StartRelay(fails) ==
  IF relayRef THEN UNCHANGED <<relays, relayRef, mbg>>
  ELSE IF fails THEN mbg' = "ending" /\ UNCHANGED <<relays, relayRef>>
  ELSE relays' = relays + 1 /\ relayRef' = TRUE /\ UNCHANGED mbg

\* The relay is closed; an error of its CloseManager ends the loop as well.
StopRelay(fails) ==
  /\ relayRef' = FALSE /\ relays' = IF relayRef THEN relays - 1 ELSE relays
  /\ mbg' = IF relayRef /\ fails THEN "ending" ELSE mbg

\* reachabilityChanged
ReachabilityChanged ==
  /\ mbg = "select" /\ reachEvents.queue # <<>>
  /\ reachEvents' = [reachEvents EXCEPT !.queue = Tail(@)] /\ lastRead' = Head(reachEvents.queue)
  /\ \E fails \in BOOLEAN : IF lastRead' = "public" THEN StartRelay(fails) ELSE StopRelay(fails)
  /\ UNCHANGED mctx

ManagerCtxDone == /\ mbg = "select" /\ mctx /\ mbg' = "ending"
           /\ UNCHANGED <<reachEvents, relays, relayRef, mctx, lastRead>>

\* The deferred close of the relay that still runs.
ManagerEnds == /\ mbg = "ending" /\ mbg' = "done" /\ relays' = IF relayRef THEN relays - 1 ELSE relays
        /\ UNCHANGED <<reachEvents, relayRef, mctx, lastRead>>

CloseManager == ~mctx /\ mctx' = TRUE /\ UNCHANGED <<reachEvents, relays, relayRef, mbg, lastRead>>

ManagerNext ==
  \/ \E r \in {"unknown", "public", "private"} : EmitReachability(r)
  \/ ReachabilityChanged \/ ManagerCtxDone \/ ManagerEnds \/ CloseManager

ManagerSpec == ManagerInit /\ [][ManagerNext]_managerVars

\* While the manager runs, exactly one relay serves if the last event said public and none
\* otherwise, whatever was repeated; when it has ended, also on an error, no relay is left.
RelayWhilePublic ==
  /\ mbg = "select" => relays = IF lastRead = "public" THEN 1 ELSE 0
  /\ mbg = "done" => relays = 0

----------------------------------------------------------------------------
(***************************************************************************)
(* NAT.  The NAT manager (p2p/host/basic/natmgr.go) and the NAT client     *)
(* (p2p/net/nat): port mappings on the gateway follow the ports the host   *)
(* listens on.  A port stands for its protocol and number.                 *)
(***************************************************************************)

CONSTANTS
  Ports,
  Maps,           \* bound of the model: mapping objects
  MaxListens      \* bound of the model: changes of the listeners

VARIABLES
  listening,    \* the ports of ListenAddresses with a unicast or unspecified IP
  notices,      \* listener changes whose notification is under way
  changes,      \* bound of the model
  nbg,          \* background: "discover", "notify", "sync", "wait", "select", "closing", "done"
  notified,     \* the manager is registered with the network
  syncFlag,     \* its channel holds a token
  nctx,         \* the context of the manager was cancelled
  natClosed,    \* NAT.closed and its context
  mp,           \* the mapping objects
  natWork,         \* the goroutines of doSync
  device        \* the ports mapped on the gateway

natVars == <<listening, notices, changes, nbg, notified, syncFlag, nctx, natClosed, mp, natWork, device>>

NoMapping == [port |-> "none", known |-> FALSE, refresh |-> "none", ext |-> FALSE]

NatInit ==
  /\ listening \in SUBSET Ports /\ notices = 0 /\ changes = 0
  /\ nbg = "discover" /\ notified = FALSE /\ syncFlag = FALSE /\ nctx = FALSE /\ natClosed = FALSE
  /\ mp = [m \in Maps |-> NoMapping] /\ natWork = {} /\ device = {}

UNCHANGED_NET == UNCHANGED <<listening, notices, changes>>
UNCHANGED_NAT == UNCHANGED <<natClosed, mp, natWork, device>>

----------------------------------------------------------------------------
(* The swarm opens and closes listeners and notifies.                      *)

ListenChange(p) ==
  /\ changes < MaxListens /\ changes' = changes + 1 /\ notices' = notices + 1
  /\ listening' = IF p \in listening THEN listening \ {p} ELSE listening \cup {p}
  /\ UNCHANGED <<nbg, notified, syncFlag, nctx>> /\ UNCHANGED_NAT

\* Listen and ListenClose of the notifiee: sync.
Notification ==
  /\ notices > 0 /\ notices' = notices - 1 /\ syncFlag' = (syncFlag \/ notified)
  /\ UNCHANGED <<listening, changes, nbg, notified, nctx>> /\ UNCHANGED_NAT

----------------------------------------------------------------------------
(* background                                                              *)

DiscoverNAT ==
  /\ nbg = "discover" /\ nbg' \in {"notify", "done"}
  /\ UNCHANGED <<notified, syncFlag, nctx>> /\ UNCHANGED_NET /\ UNCHANGED_NAT

NotifyAfterSync ==
  /\ nbg = "notify" /\ notified' = TRUE /\ nbg' = "select"
  /\ UNCHANGED <<syncFlag, nctx>> /\ UNCHANGED_NET /\ UNCHANGED_NAT

\* Signs up for notifications; the first doSync follows.
Notify ==
  /\ nbg = "notify" /\ notified' = TRUE /\ nbg' = "sync"
  /\ UNCHANGED <<syncFlag, nctx>> /\ UNCHANGED_NET /\ UNCHANGED_NAT

\* doSync starts a goroutine for every mapping to close and every port to map.
doSync ==
  /\ nbg = "sync" /\ nbg' = "wait"
  /\ LET known == {m \in Maps : mp[m].known}
     IN natWork' = {[op |-> "remove", m |-> m, port |-> mp[m].port] :
                    m \in {k \in known : mp[k].port \notin listening}}
                \cup {[op |-> "new", m |-> 0, port |-> p] : p \in listening \ {mp[m].port : m \in known}}
  /\ UNCHANGED <<notified, syncFlag, nctx, natClosed, mp, device>> /\ UNCHANGED_NET

\* The deferred wg.Wait.
SyncDone ==
  /\ nbg = "wait" /\ natWork = {} /\ nbg' = "select"
  /\ UNCHANGED <<notified, syncFlag, nctx>> /\ UNCHANGED_NET /\ UNCHANGED_NAT

Select ==
  /\ nbg = "select"
  /\ \/ syncFlag /\ syncFlag' = FALSE /\ nbg' = "sync" /\ UNCHANGED <<notified, natClosed>>
     \/ nctx /\ nbg' = "closing" /\ natClosed' = TRUE /\ notified' = FALSE /\ UNCHANGED syncFlag
  /\ UNCHANGED <<nctx, mp, natWork, device>> /\ UNCHANGED_NET

\* NAT.Close waits for every refreshMappings.
NatClosed ==
  /\ nbg = "closing" /\ \A m \in Maps : mp[m].refresh \in {"none", "done"}
  /\ nbg' = "done" /\ UNCHANGED <<notified, syncFlag, nctx>> /\ UNCHANGED_NET /\ UNCHANGED_NAT

CloseNat == ~nctx /\ nctx' = TRUE /\ UNCHANGED <<nbg, notified, syncFlag>> /\ UNCHANGED_NET /\ UNCHANGED_NAT

----------------------------------------------------------------------------
(* nat.go                                                                  *)

UNCHANGED_MGR == UNCHANGED <<nbg, notified, syncFlag, nctx, natClosed>> /\ UNCHANGED_NET

\* establishMapping: the gateway maps the port, or the external port is cleared.
EstablishMapping(m) ==
  \E ok \in BOOLEAN : /\ mp' = [mp EXCEPT ![m].ext = ok]
                      /\ device' = IF ok THEN device \cup {mp[m].port} ELSE device

\* NewMapping up to the start of refreshMappings.
NewMapping(w, m) ==
  /\ w \in natWork /\ w.op = "new" /\ mp[m] = NoMapping
  /\ mp' = [mp EXCEPT ![m] = [NoMapping EXCEPT !.port = w.port, !.known = TRUE, !.refresh = "run"]]
  /\ natWork' = (natWork \ {w}) \cup {[w EXCEPT !.op = "establish", !.m = m]}
  /\ UNCHANGED_MGR /\ UNCHANGED device

FirstEstablish(w) ==
  /\ w \in natWork /\ w.op = "establish" /\ EstablishMapping(w.m) /\ natWork' = natWork \ {w}
  /\ UNCHANGED_MGR

\* removeMapping: first from the table, then on the gateway.
RemoveMapping(w) ==
  /\ w \in natWork /\ w.op = "remove" /\ mp' = [mp EXCEPT ![w.m].known = FALSE]
  /\ natWork' = (natWork \ {w}) \cup {[w EXCEPT !.op = "delete"]}
  /\ UNCHANGED_MGR /\ UNCHANGED device

DeletePortMapping(w) ==
  /\ w \in natWork /\ w.op = "delete" /\ device' = device \ {w.port} /\ natWork' = natWork \ {w}
  /\ UNCHANGED_MGR /\ UNCHANGED mp

\* refreshMappings renews until the NAT is closed; CloseNat of the mapping does not end it.
Refresh(m) ==
  /\ mp[m].refresh = "run" /\ EstablishMapping(m) /\ UNCHANGED natWork /\ UNCHANGED_MGR

RefreshEnds(m) ==
  /\ mp[m].refresh = "run" /\ natClosed
  /\ mp' = [mp EXCEPT ![m].refresh = "done", ![m].known = FALSE] /\ device' = device \ {mp[m].port}
  /\ UNCHANGED natWork /\ UNCHANGED_MGR

NatNext ==
  \/ Notification \/ DiscoverNAT \/ Notify \/ doSync \/ SyncDone \/ Select \/ NatClosed \/ CloseNat
  \/ \E p \in Ports : ListenChange(p)
  \/ \E w \in natWork : \/ FirstEstablish(w) \/ RemoveMapping(w) \/ DeletePortMapping(w)
                     \/ \E m \in Maps : NewMapping(w, m)
  \/ \E m \in Maps : Refresh(m) \/ RefreshEnds(m)

NatSpec == NatInit /\ [][NatNext]_natVars

Quiet == nbg = "select" /\ ~syncFlag /\ notices = 0

\* Once no notification is under way, the manager keeps one mapping for each port we listen
\* on and none for another port, however listeners came and went while it searched for the
\* gateway and while it changed mappings; and when it is closed nothing it mapped is left on
\* the gateway.
MappingsFollowListeners ==
  /\ Quiet => /\ {mp[m].port : m \in {k \in Maps : mp[k].known}} = listening
              /\ \A m, k \in Maps : m # k /\ mp[m].known /\ mp[k].known => mp[m].port # mp[k].port
  /\ nbg = "done" => device = {}

\* natManager (basic/natmgr.go, background, doSync): however listeners come and go while the
\* gateway is searched for and mappings are changed, the manager ends with one mapping for each
\* port listened on, and leaves none on the gateway when closed. BasicHost (basic_host.go,
\* background, SignalAddressChange): no change of the listeners is lost while addresses are
\* computed; subscribers who add up the differences, and the signed record, have the addresses
\* that were last computed, except for changes that emitAddrChange failed to sign or to send
\* (it returns, and lastAddrs moves on without them).
AddressesCurrent == MappingsFollowListeners /\ AddressesTold

\* nat.go says of NewMapping that it renews "until the returned Mapping -- or its parent
\* NAT -- is Closed": a port we stopped listening on would not come back on the gateway.
ClosedNotRenewed == Quiet => device \subseteq listening
============================================================================
