----------------------------- MODULE SwarmAddrs -----------------------------
(***************************************************************************)
(* The addresses of the swarm (p2p/net/swarm): the table of transports,    *)
(* the listeners with the cache of their interface addresses, and how a    *)
(* dial finds the addresses worth trying, while transports and listeners   *)
(* come and go and the swarm closes.  Accepting and the connections are in *)
(* Swarm, the dial itself in SwarmDial.                                    *)
(***************************************************************************)
EXTENDS Naturals, Sequences, FiniteSets, SequencesExt

CONSTANTS
  ListenAddrs,     \* addresses of AddListenAddr, with an unspecified IP
  Transports,      \* names of transports, see Protocols
  PeerAddrs,       \* sets of addresses that the peerstore may have of a peer
  Resolver,        \* [DNS addresses -> sequences of addresses]
  MaxAddressResolution,
  Ifaces           \* interfaces that may be up

VARIABLES
  tpts,      \* [closed, m]: m maps protocols to transports, absent ones to "none"
  listeners, \* [closed, m, had]: history had, the listeners that Close took away
  cache,     \* [addrs, valid]: ifaceListenAddres, and that cacheEOL has not passed
  up,        \* interfaces that are up
  dialing    \* addrsForDial: [at, force, todo, resolved, steps, good, had]

addrVars == <<tpts, listeners, cache, up, dialing>>

\* Addresses are records [host, kind]; the kind stands for the protocols after the IP.
Stack(kind) ==
  CASE kind = "tcp" -> <<"tcp">> [] kind = "ws" -> <<"tcp", "ws">> [] kind = "quic" -> <<"udp", "quic">>
    [] kind = "quic-v1" -> <<"udp", "quic-v1">> [] kind = "webtransport" -> <<"udp", "quic-v1", "webtransport">>
    [] kind = "circuit" -> <<"tcp", "p2p", "p2p-circuit">> [] kind = "dns" -> <<"dnsaddr">>

\* Transport.Protocols and CanDial of the transports.
Protocols(t) == CASE t = "quic" -> {"quic", "quic-v1"} [] t = "circuit" -> {"p2p-circuit"} [] OTHER -> {t}
CanDial(t, a) == a.kind # "dns" /\ Last(Stack(a.kind)) \in Protocols(t)
Proxy(t) == t = "circuit"
IsResolver(t) == t \in {"ws", "webtransport"}

AllProtocols == UNION {Protocols(t) : t \in Transports}
NoTransports == [p \in AllProtocols |-> "none"]
NoDial == [at |-> "none", force |-> FALSE, todo |-> <<>>, resolved |-> <<>>, steps |-> 0, good |-> <<>>, had |-> FALSE]

Init ==
  /\ tpts = [closed |-> FALSE, m |-> NoTransports] /\ listeners = [closed |-> FALSE, m |-> {}, had |-> {}]
  /\ cache = [addrs |-> {}, valid |-> FALSE] /\ up = Ifaces
  /\ dialing = NoDial

----------------------------------------------------------------------------
(* Transports                                                              *)

\* AddTransport registers a transport for all its protocols, if all are free.
AddTransport(t) ==
  /\ ~tpts.closed /\ \A p \in Protocols(t) : tpts.m[p] = "none"
  /\ tpts' = [tpts EXCEPT !.m = [p \in AllProtocols |-> IF p \in Protocols(t) THEN t ELSE @[p]]]
  /\ UNCHANGED <<listeners, cache, up, dialing>>

Registered == {tpts.m[p] : p \in AllProtocols} \ {"none"}

\* TransportForDialing: a relay address only by the relay transport; "none" when the table is gone.
TransportForDialing(a) ==
  IF tpts.closed THEN "none"
  ELSE IF a.kind = "circuit" THEN IF "p2p-circuit" \in AllProtocols THEN tpts.m["p2p-circuit"] ELSE "none"
  ELSE IF \E t \in Registered : CanDial(t, a) THEN CHOOSE t \in Registered : CanDial(t, a) ELSE "none"

\* TransportForListening: the transport of the last protocol, unless a proxy handles one of them.
TransportForListening(a) ==
  LET known == SelectSeq(Stack(a.kind), LAMBDA p : p \in AllProtocols /\ tpts.m[p] # "none")
      proxies == {i \in DOMAIN known : Proxy(tpts.m[known[i]])} IN
  IF tpts.closed THEN "none"
  ELSE IF proxies # {} THEN tpts.m[known[CHOOSE i \in proxies : TRUE]]
  ELSE IF Last(Stack(a.kind)) \in AllProtocols THEN tpts.m[Last(Stack(a.kind))] ELSE "none"

----------------------------------------------------------------------------
(* Listeners and their addresses                                           *)

Expand(ls, ifs) == {[host |-> i, kind |-> l.kind] : l \in ls, i \in ifs}
\* AddListenAddr: the listener is added unless the swarm has closed meanwhile.
AddListenAddr(a) ==
  /\ TransportForListening(a) # "none" /\ ~listeners.closed
  /\ listeners' = [listeners EXCEPT !.m = @ \cup {a}] /\ cache' = [cache EXCEPT !.valid = FALSE]
  /\ UNCHANGED <<tpts, up, dialing>>

ListenCloseKeepsCache(as) ==
  /\ listeners.m \cap as # {} /\ listeners' = [listeners EXCEPT !.m = @ \ as] /\ UNCHANGED cache
  /\ UNCHANGED <<tpts, up, dialing>>

\* ListenClose, and a listener that fails.
ListenClose(as) ==
  /\ listeners.m \cap as # {}
  /\ listeners' = [listeners EXCEPT !.m = @ \ as] /\ cache' = [cache EXCEPT !.valid = FALSE]
  /\ UNCHANGED <<tpts, up, dialing>>

\* An interface goes up or down; nobody tells the swarm.
InterfaceChanges(i) ==
  /\ up' = (IF i \in up THEN up \ {i} ELSE up \cup {i})
  /\ UNCHANGED <<tpts, listeners, cache, dialing>>

\* A minute has passed since the cache was filled.
CacheExpires ==
  /\ cache.valid /\ cache' = [cache EXCEPT !.valid = FALSE]
  /\ UNCHANGED <<tpts, listeners, up, dialing>>

\* InterfaceListenAddresses: the cache while it is valid; otherwise, with the lock and after another
\* look, the listeners' addresses on the interfaces that are up.
Ours == IF cache.valid THEN cache.addrs ELSE Expand(listeners.m, up)

InterfaceListenAddresses ==
  /\ ~cache.valid /\ cache' = [addrs |-> Ours, valid |-> TRUE] /\ UNCHANGED <<tpts, listeners, up, dialing>>

----------------------------------------------------------------------------
(* addrsForDial                                                            *)

\* The peer's addresses, but for those that their transport's own Resolve fails for.
AddrsForDial(as, force, failing) ==
  /\ dialing.at = "none"
  /\ LET kept == {a \in as : IsResolver(TransportForDialing(a)) => a \notin failing} IN
     dialing' = [NoDial EXCEPT !.at = "resolving", !.force = force, !.todo = SetToSeq(kept)]
  /\ UNCHANGED <<tpts, listeners, cache, up>>

\* resolveAddrs, one address: a resolved one is kept, a DNS address is looked up unless too many
\* were, or the lookup fails; the Addrs of an answer that names no peer are those of a nil pointer.
ResolveOne(found) ==
  /\ dialing.at = "resolving" /\ dialing.todo # <<>>
  /\ LET a == Last(dialing.todo) rest == Front(dialing.todo)
         tooMany == dialing.steps + 1 >= MaxAddressResolution IN
     dialing' =
       IF a.kind # "dns" THEN [dialing EXCEPT !.todo = rest, !.resolved = Append(@, a)]
       ELSE IF ~tooMany /\ found = "nobody" THEN [NoDial EXCEPT !.at = "bad answer"]
       ELSE [dialing EXCEPT !.steps = @ + 1,
                            !.todo = IF tooMany \/ found = "nothing" THEN rest ELSE rest \o Resolver[a]]
  /\ UNCHANGED <<tpts, listeners, cache, up>>

QuicVersion(a) == CASE a.kind = "quic" -> "draft29" [] a.kind = "quic-v1" -> "v1" [] OTHER -> "none"
Has(s, Test(_)) == \E i \in DOMAIN s : Test(s[i])

MaybeRemoveQUICDraft29(s) ==
  IF Has(s, LAMBDA a : QuicVersion(a) = "v1") THEN SelectSeq(s, LAMBDA a : QuicVersion(a) # "draft29") ELSE s

MaybeRemoveWebTransportAddrs(s) ==
  IF Has(s, LAMBDA a : QuicVersion(a) # "none") THEN SelectSeq(s, LAMBDA a : a.kind # "webtransport") ELSE s

\* filterKnownUndialables, with the addresses of this node as the cache has them; the gater may
\* refuse any address.
Dialable(a, ours) == a \notin ours /\ TransportForDialing(a) # "none" /\ a.host # "linklocal"

FilterKnownUndialables(s, ours, refused) ==
  MaybeRemoveWebTransportAddrs(MaybeRemoveQUICDraft29(
    SelectSeq(s, LAMBDA a : Dialable(a, ours) /\ a \notin refused)))

Filter(refused) ==
  /\ dialing.at = "resolving" /\ dialing.todo = <<>>
  /\ dialing' = [dialing EXCEPT !.at = IF dialing.force THEN "direct" ELSE "done",
                                !.good = FilterKnownUndialables(dialing.resolved, Ours, refused),
                                !.had = Has(dialing.resolved, LAMBDA a : Dialable(a, Ours) /\ a \notin refused)]
  /\ cache' = [addrs |-> Ours, valid |-> TRUE] /\ UNCHANGED <<tpts, listeners, up>>

\* A direct dial drops the addresses of proxies: nonProxyAddr asks for the transport again and calls
\* it without a look at whether it is still there.
ForceDirect ==
  /\ dialing.at = "direct"
  /\ dialing' = IF Has(dialing.good, LAMBDA a : TransportForDialing(a) = "none") THEN [NoDial EXCEPT !.at = "no transport"]
                ELSE [dialing EXCEPT !.at = "done", !.good = SelectSeq(@, LAMBDA a : ~Proxy(TransportForDialing(a)))]
  /\ UNCHANGED <<tpts, listeners, cache, up>>

DialReturns == dialing.at = "done" /\ dialing' = NoDial /\ UNCHANGED <<tpts, listeners, cache, up>>

\* Close: the listeners' map is taken away first, and the cache left as it is, the transports' later.
CloseListeners ==
  /\ ~listeners.closed /\ listeners' = [closed |-> TRUE, m |-> {}, had |-> listeners.m]
  /\ UNCHANGED <<tpts, cache, up, dialing>>

CloseTransports ==
  /\ listeners.closed /\ ~tpts.closed /\ tpts' = [closed |-> TRUE, m |-> NoTransports]
  /\ UNCHANGED <<listeners, cache, up, dialing>>

\* A panic of the dial ends the process.
Panicked == dialing.at \in {"bad answer", "no transport"}

Running ==
  \/ \E t \in Transports : AddTransport(t)
  \/ \E a \in ListenAddrs : AddListenAddr(a)
  \/ \E as \in SUBSET ListenAddrs : ListenClose(as)
  \/ \E i \in Ifaces : InterfaceChanges(i)
  \/ CacheExpires \/ InterfaceListenAddresses
  \/ \E as \in PeerAddrs, force \in BOOLEAN : \E failing \in SUBSET {a \in as : a.kind = "webtransport"} :
       AddrsForDial(as, force, failing)
  \/ \E found \in {"addresses", "nothing", "nobody"} : ResolveOne(found)
  \/ \E refused \in {{}} \cup {{a} : a \in UNION PeerAddrs} : Filter(refused)
  \/ ForceDirect \/ DialReturns \/ CloseListeners \/ CloseTransports

Next == ~Panicked /\ Running

----------------------------------------------------------------------------
\* The cache, while valid, has the addresses of exactly the present listeners on interfaces that were
\* up when it was filled, and none of a listener closed since, unless it was closed by Swarm.Close,
\* which leaves the cache valid with what it had; a transport has all its protocols or
\* none; and a dial never tries a DNS or link-local address, a relay when it must be direct, or a
\* second best QUIC address, but always something if an address that a transport handles was neither
\* this node's own nor refused.  It panics, besides on a resolver's answer without a peer, only when
\* Close takes the transports away while a direct dial chooses its addresses.
AddressesSound ==
  /\ cache.valid => \E ls \in IF listeners.closed THEN {{}, listeners.had} ELSE {listeners.m} :
                      \E ifs \in SUBSET Ifaces : cache.addrs = Expand(ls, ifs)
  /\ \A t \in Registered : \A p \in Protocols(t) : tpts.m[p] = t
  /\ dialing.at = "no transport" => tpts.closed
  /\ dialing.at = "done" =>
       LET kinds == {dialing.good[i].kind : i \in DOMAIN dialing.good} IN
       /\ "dns" \notin kinds /\ ~Has(dialing.good, LAMBDA a : a.host = "linklocal")
       /\ IF dialing.force THEN "circuit" \notin kinds ELSE dialing.had => dialing.good # <<>>
       /\ "quic-v1" \in kinds => "quic" \notin kinds
       /\ kinds \cap {"quic", "quic-v1"} # {} => "webtransport" \notin kinds
============================================================================
