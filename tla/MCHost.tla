------------------------------- MODULE MCHost -------------------------------
(***************************************************************************)
(* Small instances of the services of a host: what it knows of its own     *)
(* addresses (ObservedAddrs, BasicHost), of its reachability and that of   *)
(* others (AutoNAT), the streams it opens, the relay it runs and its NAT   *)
(* mappings (BasicHost), direct connections (HolePunch), and its knowledge *)
(* of other peers (Peerstore, BackoffDiscovery).                           *)
(* Each behaviour is one of the component that `part' names.               *)
(***************************************************************************)
EXTENDS HolePunch, BasicHost, Integers

VARIABLES
  part,
  otime, olink, wch, seenBy, lastSeen, numInbound, activeConns, mgr, work, refreshAt, private, natType,
  reach, confidence, lastEvent, enabled, inboundSince, probeAge, tryAge, recent, countdown, retryProbe, probing,
  answers, bg, closing,
  instance, reqs, globalReqs, hd, dialBook, dialConns, served, sinceReset, seenAt,
  protoMem, meta, metaDs, pub, priv, keysDs, evq, disconnected, lastEv, evAt, hasty, pm, btime,
  dnow, lookahead, store, cached, gcKeys, winEnd, written, mixedUp, ref,
  dtime, strat, srch, disp, fnd, connect

----------------------------------------------------------------------------
(* Addresses and reachability                                              *)

\* An inbound and an outbound connection with one observer.
Obs == INSTANCE ObservedAddrs WITH
  Conns <- {"c1", "c2"}, observerOf <- [c \in {"c1", "c2"} |-> "o"], Inbound <- {"c1"}, Addrs <- {"a"},
  ActivationThresh <- 2, TTL <- 2, ChanSize <- 1, MaxTime <- 6, MaxLag <- 1, link <- olink

\* Outbound connections with two observers that see one or two addresses, until the first refresh.
NatTypes == INSTANCE ObservedAddrs WITH
  Conns <- {"c1", "c2"}, observerOf <- [c \in {"c1", "c2"} |-> c], Inbound <- {}, Addrs <- {"a", "b"},
  ActivationThresh <- 2, TTL <- 2, ChanSize <- 1, MaxTime <- 2, MaxLag <- 1, link <- olink

\* QUIC and WebTransport share a port; a second listener has an address of its own.  (The cfg gives
\* two calls of NewStream and an incoming stream of one protocol, and two ports that come and go with
\* a third mapping for one that is replaced.)
MCListeners == {HostAddr("any", "quic", 1), HostAddr("any", "wt", 1), HostAddr("lan", "quic", 2)}
MCInterfaces == {[all |-> {"lan", "lo"}, routed |-> {"lan"}], [all |-> {"lo"}, routed |-> {}]}
MCObservations == {{}, {HostAddr("pub", "quic", 9)}, {HostAddr("pub", "wt", 9)}}

\* Requests from a public address and from our own, with addresses of another host, through a relay
\* and without an IP.
Addr(i, r, c) == [ip |-> i, rest |-> r, circuit |-> c]
Reach == INSTANCE AutoNAT WITH
  Peers <- {"v1", "v2"}, maxConfidence <- 2, refreshInterval <- 5, retryInterval <- 2,
  throttlePeerPeriod <- 3, MaxAge <- 10, MaxProbes <- 1,
  Handlers <- {"u1", "u2"}, Clients <- {"q1", "q2"}, OwnIPs <- {"o"}, PublicIPs <- {"x", "y", "z", "o"},
  PrivateIPs <- {"v"}, NoIP <- "dns", Observed <- {Addr("x", 1, FALSE), Addr("o", 1, FALSE)},
  Requests <- {<<Addr("z", 2, FALSE), Addr("x", 2, TRUE), Addr("dns", 2, FALSE)>>, <<Addr("x", 3, FALSE)>>},
  Names <- {"none", "bad"}, maxPeerAddresses <- 2, throttlePeerMax <- 2, throttleGlobalMax <- 3, MaxReqs <- 4

----------------------------------------------------------------------------
(* Other peers                                                             *)

\* Three addresses of a peer over a datastore, and another peer's books.
Store == INSTANCE Peerstore WITH
  BPeers <- {"b"}, BProtos <- {"w1", "w2", "w3"}, InlineKey <- {"b"}, MaxProtos <- 2, GracePeriod <- 1,
  BMaxTime <- 4, MaxConnEvents <- 3,
  DsAddrs <- {"a1", "a2", "a3"}, DsTTLs <- {1, 2}, Lookaheads <- {0, 1}, DsMaxTime <- 3, DsMaxSeq <- 1

Disc == INSTANCE BackoffDiscovery WITH
  DPeers <- {"x"}, DAddrs <- {"m1", "m2"}, Finders <- {"u1", "u2"}, Limits <- {0, 2}, ParallelBufSz <- 1,
  ReturnedBufSz <- 1, Strategies <- {"fixed", "polynomial", "exponential", "decorrelated"},
  MinDelay <- 1, MaxDelay <- 3, Base <- 2, Width <- 3, MaxFound <- 2, DMaxTime <- 2, conn <- connect

obsVars == <<otime, olink, wch, seenBy, lastSeen, numInbound, activeConns, mgr, work, refreshAt, private, natType>>
reachVars == <<reach, confidence, lastEvent, enabled, inboundSince, probeAge, tryAge, recent, countdown, retryProbe, probing, answers, bg, closing>>
svcVars == <<instance, reqs, globalReqs, hd, dialBook, dialConns, served, sinceReset, seenAt>>
bookVars == <<protoMem, meta, metaDs, pub, priv, keysDs, evq, disconnected, lastEv, evAt, hasty, pm, btime>>
dsVars == <<dnow, lookahead, store, cached, gcKeys, winEnd, written, mixedUp, ref>>
discVars == <<dtime, strat, srch, disp, fnd, connect>>
all == <<part, obsVars, reachVars, svcVars, natVars, hostVars, streamVars, punchVars, managerVars, bookVars, dsVars, discVars>>

Parts == {"observed", "nattype", "autonat", "service", "nat", "addrs", "streams", "punch", "relaysvc", "books", "ds", "discovery"}

\* The components that a behaviour is not about stay in one of their initial states.
Unused ==
  /\ part # "nat" => listening = {}
  /\ part # "addrs" => iface.routed = {}
  /\ part # "streams" => knownProtos = {} /\ theirProtos = {} /\ mux = {}
  /\ part # "ds" => lookahead = 0
  /\ part # "discovery" => strat.kind = "fixed"

MCInit(parts) ==
  /\ part \in parts /\ (IF part = "nattype" THEN NatTypes!Init ELSE Obs!Init) /\ Reach!ClientInit /\ Reach!ServiceInit /\ NatInit
  /\ AddrsInit /\ StreamsInit /\ ManagerInit /\ PunchInit /\ Store!BooksInit /\ Store!DsInit /\ Disc!Init /\ Unused

\* The strategies of random delays, and the connector, are tried with one caller of FindPeers; connections stay
\* open while the NAT type is looked for.  One of two clients of the AutoNAT service has requests
\* at the same time, from a public address; the other's come alone, in the rest of the ways.  A
\* certified record over the datastore has up to two addresses; entries of a record that are mixed up
\* are followed with full purges, and three addresses with the lookahead up to the second tick.
Uses ==
  /\ part = "service" =>
       /\ seenAt["q1"] \subseteq {"x"}
       /\ \A g, h \in {"u1", "u2"} : g # h /\ hd[g].at # "free" /\ hd[g].p = "q2" => hd[h].at = "free"
       /\ \A h \in {"u1", "u2"} : IF hd[h].p = "q1" THEN hd[h].ans # "badRequest"
                                ELSE \A i \in DOMAIN hd[h].addrs : hd[h].addrs[i].rest # 2
  /\ part = "ds" =>
       /\ mixedUp => lookahead = 0
       /\ store.seq > 0 => Len(store.addrs) <= 2
       /\ Len(store.addrs) = 3 /\ lookahead > 0 => dnow <= 2
  /\ strat.kind # "fixed" => fnd["u2"] = Disc!NoFinder
  /\ fnd["u2"] # Disc!NoFinder => \A p \in DOMAIN connect : ~connect[p].in
  /\ part = "nattype" => mgr = "open" /\ \A c \in {"c1", "c2"} : olink[c] \in {"new", "up"}

MCNext ==
  /\ UNCHANGED part
  /\ CASE part = "observed" -> Obs!Next [] part = "nattype" -> NatTypes!Next [] OTHER -> UNCHANGED obsVars
  /\ IF part = "autonat" THEN Reach!ClientNext ELSE UNCHANGED reachVars
  /\ IF part = "service" THEN Reach!ServiceNext ELSE UNCHANGED svcVars
  /\ IF part = "nat" THEN NatNext ELSE UNCHANGED natVars
  /\ IF part = "addrs" THEN AddrsNext ELSE UNCHANGED hostVars
  /\ IF part = "streams" THEN StreamsNext ELSE UNCHANGED streamVars
  /\ IF part = "punch" THEN PunchNext ELSE UNCHANGED punchVars
  /\ IF part = "relaysvc" THEN ManagerNext ELSE UNCHANGED managerVars
  /\ IF part = "books" THEN Store!BooksNext ELSE UNCHANGED bookVars
  /\ IF part = "ds" THEN Store!DsNext ELSE UNCHANGED dsVars
  /\ IF part = "discovery" THEN Disc!Next ELSE UNCHANGED discVars
  /\ Uses'

MCSpec == MCInit(Parts) /\ [][MCNext]_all

----------------------------------------------------------------------------
\* ObservedAddrManager (identify/obsaddr.go): whichever of maybeRecordObservation and the
\* Disconnected notification comes first, a connection that was reported closed is not observed
\* again at every refresh; while an observer stays connected, gc forgets neither the address
\* nor its observation; and numInbound counts the inbound observations.  The NAT type last
\* emitted had its evidence (emitSpecificNATType).
ObservationsKept ==
  /\ part = "observed" => Obs!ObservationsKept
  /\ part = "nattype" => NatTypes!ObservationsKept /\ NatTypes!NatTypeJustified

\* AmbientAutoNAT (autonat.go, recordObservation, scheduleProbe): results of probes that began
\* under an earlier status change the status only with its confidence, its event and its
\* service, so that subscribers know the present reachability, and a probe is due soon while it
\* is uncertain. The relay manager (relaysvc/relay.go, background), which follows those events,
\* runs exactly one relay while the last one it read said public, whatever is repeated, and
\* leaves none when it has ended.
ReachabilityFollowed ==
  /\ part = "autonat" => Reach!ReachabilityReported
  /\ part = "relaysvc" => RelayWhilePublic

\* AutoNAT service (autonat/svc.go, handleDial, doDial; dialpolicy.go): with concurrent
\* requests of one peer, resets and requests abandoned half way, the dialer connects only to
\* addresses at the IP a peer was seen at, never to private, relayed or own ones, of this or of
\* another request of the peer under way but never of one that is answered, within the limits for
\* each peer and for all between two resets, and answers "ok" only after a connection.
DialBackLimited == part = "service" => Reach!DialBackLimited

\* Peerstore on a datastore (pstoreds/addr_book.go, addr_book_gc.go): through cache misses,
\* evictions, both kinds of collection and restarts, cache and store give the same addresses with
\* their expiries, those of a plain book unless one call has deleted several addresses and left
\* others (deleteInPlace, addr_book.go:555), and a record has a lookahead entry by the time it must
\* be cleaned. The protocol, metadata and key books answer as those in memory (pstoremem), and the
\* peerstore manager (pstoremanager.go), while it runs, removes a peer only when the absence it has
\* read of lasted for the grace period. BackoffDiscovery (backoff/backoffcache.go, FindPeers,
\* findPeerDispatcher, findPeerReceiver): a caller that joins a search under way gets, once each
\* and in order, what was found before and as many of the later finds as its limit says (with
\* limit 0, none of them), however its channels fill and whenever the search ends; attempts of the
\* connector (backoffconnector.go) are spaced within the strategy's bounds (backoff.go).
PeersKnown ==
  /\ part = "ds" => Store!DsAgrees
  /\ part = "books" => Store!BooksAgree
  /\ part = "discovery" => Disc!FindersTold
============================================================================
