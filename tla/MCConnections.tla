--------------------------- MODULE MCConnections ---------------------------
(***************************************************************************)
(* Small instances of what a connection passes through: the addresses of   *)
(* the swarm (SwarmAddrs), the gater and the upgrader (Admission), the     *)
(* limits, allowlist and memory counter of the resource manager and its    *)
(* trace (Limits, Trace), the construction of a node (Construction), a     *)
(* Noise session (NoiseSession), and the QUIC, WebTransport and relay      *)
(* transports (QuicTransport, WebTransport, CircuitClient).  Each          *)
(* behaviour is one of the component that `part' names.                    *)
(***************************************************************************)
EXTENDS Admission, WebTransport, CircuitClient, Sequences, TLC

CONSTANTS
  u1, u2, v1, v2  \* interchangeable: listeners, versions, scopes or callers; connections or hole punches

VARIABLES
  part,
  tpts, listeners, cache, up, dialing,
  scaling, conc, cfg, machine, edits,
  allowedNetworks, allowedPeerByNetwork, added, memory, limit,
  conf, applied, phase, nextDefault, running, listening, failure,
  path, scope, counts, todo, held, ops, pending, reported, peers, connMem, gauge, blocks, pend, writer, done, traceCtx, file,
  checkPeerID, expected, stage, hs, sess, ctxDone, open, flight, remoteID, keys,
  upto, wr, writeLock, wire, qbuf, qseek, queued, got, readErr, lastRead,
  udp, qln, conns, connsMu, lst, hand, qdial, mgr, qnow,
  vl, muxer, muxerClosed, vchan, sem, muxerMu, under, qc, holePunching, punch

----------------------------------------------------------------------------
(* Before a connection                                                     *)

\* Peers with addresses of this node, of several transports, link-local, and of a name that resolves
\* to a QUIC address and to itself.
Addr(h, k) == [host |-> h, kind |-> k]
Addrs == INSTANCE SwarmAddrs WITH
  ListenAddrs <- {Addr("any", "quic-v1"), Addr("any", "tcp")},
  Transports <- {"tcp", "quic", "webtransport", "circuit"},
  PeerAddrs <- {{Addr("i1", "tcp"), Addr("d1", "dns"), Addr("h1", "circuit")},
                {Addr("h1", "quic"), Addr("d1", "dns"), Addr("h1", "webtransport")},
                {Addr("linklocal", "tcp"), Addr("h1", "webtransport")}},
  Resolver <- [x \in {Addr("d1", "dns")} |-> <<Addr("h1", "quic-v1"), Addr("d1", "dns")>>],
  MaxAddressResolution <- 3, Ifaces <- {"i1"}

\* A subnet with a blocked address and another.
MCInSubnet == [s \in {"s"} |-> {"i", "j"}]

\* Machines around the 128 MiB up to which nothing is scaled.
Lim == INSTANCE Limits WITH
  Names <- {"n1", "n2"}, Explicit <- {1}, Bases <- {0, 2}, Increases <- {3}, Memories <- {0, 128, 129, 2048},
  FDs <- {0, 5}, MaxInt <- 99, MaxEdits <- 3, APeers <- {"p", "q"}, NoPeer <- "none", IPBits <- 1, MaxListed <- 3,
  Half <- 32, Levels <- 8

\* Options that bear on each other, or on what can fail.
O(op, arg) == [op |-> op, arg |-> arg]
Cons == INSTANCE Construction WITH
  Offered <- {O("Security", "noise"), O("NoSecurity", ""), O("Transport", "quic"), O("NoTransports", ""),
              O("ListenAddrs", "tcp"), O("NoListenAddrs", ""), O("Defaults", ""), O("Bad", "")}
             \cup {O("Relay", b) : b \in BOOLEAN}
             \cup {O("Once", x) : x \in {"psk", "peerstore", "routing", "registerer"}}
             \cup {O("Switch", x) : x \in {"metricsoff", "autorelay", "natservice", "holepunching"}},
  MaxOptions <- 3

Trc == INSTANCE Trace WITH
  PeerScopes <- {u1, u2}, ConnScopes <- {"conn"}, Gauged <- {"sys"}, Unrecognized <- {"span"},
  Stats <- {{"memory", "conns"}}, MaxOps <- 2, ctxDone <- traceCtx, blocked <- blocks

----------------------------------------------------------------------------
(* Connections                                                             *)

Noise == INSTANCE NoiseSession WITH
  Writers <- {u1, u2}, WriteSizes <- {1, 3}, ReadSizes <- {0, 1, 2, 3}, MaxTransportMsgLength <- 3,
  Overhead <- 1, MaxBytes <- 5

\* A socket on all addresses and one on an address, two protocols.
Quic == INSTANCE QuicTransport WITH
  Global <- {"g"}, Unicast <- {"n"}, Protos <- {"p", "q"}, Lsn <- {u1, u2}, Hands <- {v1, v2}, Dials <- {"d"},
  QueueLen <- 1, MaxUnused <- 0, MaxNow <- 1,
  Versions <- {"draft29", "v1"}, VLs <- {u1, u2}, QConns <- {"c1", "c2"}, Punches <- {v1, v2}, AcceptBufferPerVersion <- 1

\* A connection with one session, and one with two.
MCQuicOf == [s \in {"s1", "s2", "s3"} |-> IF s = "s1" THEN "q1" ELSE "q2"]

\* Two dials by one relay, a dial and an incoming circuit by another.
MCvia == [x \in {"d1", "d2", "d3", "i1"} |-> IF x \in {"d1", "d2"} THEN "r" ELSE "s"]

addrVars == <<tpts, listeners, cache, up, dialing>>
limitVars == <<scaling, conc, cfg, machine, edits>>
allowVars == <<allowedNetworks, allowedPeerByNetwork, added>>
memVars == <<memory, limit>>
consVars == <<conf, applied, phase, nextDefault, running, listening, failure>>
traceVars == <<path, scope, counts, todo, held, ops, pending, reported, peers, connMem, gauge, blocks, pend, writer, done, traceCtx, file>>
noiseVars == <<checkPeerID, expected, stage, hs, sess, ctxDone, open, flight, remoteID, keys,
               upto, wr, writeLock, wire, qbuf, qseek, queued, got, readErr, lastRead>>
reuseVars == <<udp, qln, conns, connsMu, lst, hand, qdial, mgr, qnow>>
quicVars == <<vl, muxer, muxerClosed, vchan, sem, muxerMu, under, qc, holePunching, punch>>
all == <<part, addrVars, gateVars, limitVars, allowVars, memVars, consVars, traceVars, upVars, noiseVars,
         reuseVars, quicVars, wtVars, certVars, clientVars>>

Parts == {"addrs", "gater", "limits", "allowlist", "memory", "construction", "trace", "upgrader", "noise",
          "reuse", "quic", "webtransport", "certs", "client"}

\* The components that a behaviour is not about stay in one of their initial states.
Unused ==
  /\ part # "gater" => withDs
  /\ part # "upgrader" => ~forced
  /\ part # "limits" => scaling.fd = 0
  /\ part # "memory" => limit = 0
  /\ part # "trace" => ~path
  /\ part # "noise" => \A x \in Noise!Sides : ~checkPeerID[x] /\ expected[x] = "init"

MCInit(parts) ==
  /\ part \in parts /\ Addrs!Init /\ GateInit /\ Lim!LimitsInit /\ Lim!AllowlistInit /\ Lim!MemoryInit
  /\ Cons!Init /\ Trc!Init /\ UpInit /\ Noise!Init /\ Quic!ReuseInit /\ Quic!TransportInit /\ WtInit /\ CertsInit /\ CircuitInit /\ Unused

\* What the parts leave out.  While a dial chooses its addresses at most one transport is missing,
\* until Close takes them away, and the interface is up.  Two calls of the gater at a time are about
\* one rule; during an attempt to connect there is one call, and none when there are rules that the
\* gater failed to read.  With a dial one connection comes in to the shared sockets, for one
\* listener, and none to the transport; with two connections and two listeners no time passes
\* there, and the manager is open.  Hole punches are made with one listener, two of them with a second
\* connection only if the peer makes it.  One session is dialled with hashes, beside one of
\* the two that come in.  Raw connections, and the two sessions of one QUIC connection, come in their
\* order.  Three options are about relays or listening.  When the trace is closed, two scopes are both
\* peers; with two peers nothing is refused and the writer does not fail.
Dialed(c) == qc[c].at # "none" /\ qc[c].version = "none"
MCUses ==
  /\ part = "addrs" /\ dialing.at # "none" =>
       up = {"i1"} /\ (tpts.closed \/ Cardinality(Addrs!Registered) >= 3)
  /\ part = "trace" => {s \in Trc!TScopes : scope[s] # "none"} \in SUBSET {u1, u2} \cup SUBSET {"sys", "span"} \cup {{"conn"}}
  /\ part = "trace" => /\ done => Cardinality({s \in Trc!TScopes : todo[s] # <<>>}) <= 1
                       /\ done /\ scope["sys"] # "none" => scope["span"] = "none"
                       /\ \A s \in {"sys", "span", "conn"} : counts[s]["streams"] = 0
                       /\ \A s \in {u1, u2} : counts[s]["memory"] = counts[s]["conns"]
                       /\ (\A s \in {u1, u2} : scope[s] # "none") =>
                            /\ writer # "failed" /\ \A k \in Trc!TKinds : blocks["peer"][k] = 0
                            /\ \A s \in {u1, u2} : \A i \in DOMAIN todo[s] : todo[s][i].type # "block"
  /\ part = "construction" /\ Len(applied) >= 3 /\ applied[3].op # "FallbackDefaults" =>
       \A i \in 1..3 : applied[i] \in {O("Relay", TRUE), O("Relay", FALSE), O("NoListenAddrs", ""), O("Switch", "autorelay"),
                                    O("ListenAddrs", "tcp"), O("Transport", "quic")}
  /\ part = "gater" /\ (\A c \in {u1, u2} : calls[c].at # "none") => calls[u1].rule = calls[u2].rule
  /\ part = "gater" /\ attempts["a"].at # "none" => \E c \in {u1, u2} : calls[c].at = "none"
  /\ part = "gater" /\ attempts["a"].at # "none" /\ unread # {} => \A c \in {u1, u2} : calls[c].at = "none"
  /\ part = "reuse" /\ qdial["d"].at # "none" => /\ \E h \in {v1, v2} : hand[h].at = "none"
                                                 /\ \E l \in {u1, u2} : lst[l].at = "none"
  /\ part = "reuse" /\ (\A h \in {v1, v2} : hand[h].at # "none") /\ (\A l \in {u1, u2} : lst[l].at # "none") =>
       qnow = 0 /\ mgr = "open"
  /\ part = "quic" /\ Dialed("c1") => qc["c2"].at = "none" /\ under = "none"
  /\ part = "quic" => ~Dialed("c2") /\ qc["c1"].version # "draft29" /\ (qc["c2"].peer => qc["c1"].peer)
  /\ part = "quic" /\ (\A h \in {v1, v2} : punch[h] = "none") => ~qc["c2"].peer
  /\ part = "webtransport" => /\ \A s \in {"s2", "s3"} : wsess[s].hashes = {}
                              /\ wsess["s1"].hashes # {"h2"}
                              /\ wsess["s3"].at # "none" => wsess["s2"].at # "none" /\ wsess["s1"].hashes = {}
  /\ part = "upgrader" => \A i \in 1..2 : raw[<<"r1", "r2", "r3">>[i + 1]].at # "none" => raw[<<"r1", "r2", "r3">>[i]].at # "none"
  /\ part = "quic" /\ (\E h \in {v1, v2} : punch[h] # "none") => \E v \in {u1, u2} : vl[v].at = "none"
  /\ part = "quic" /\ (\A h \in {v1, v2} : punch[h] # "none") => qc["c2"].at = "none" \/ qc["c2"].peer

MCNext ==
  /\ UNCHANGED part
  /\ IF part = "addrs" THEN Addrs!Next ELSE UNCHANGED addrVars
  /\ IF part = "gater" THEN GateNext ELSE UNCHANGED gateVars
  /\ IF part = "limits" THEN Lim!LimitsNext ELSE UNCHANGED limitVars
  /\ IF part = "allowlist" THEN Lim!AllowlistNext ELSE UNCHANGED allowVars
  /\ IF part = "memory" THEN Lim!MemoryNext ELSE UNCHANGED memVars
  /\ IF part = "construction" THEN Cons!Next ELSE UNCHANGED consVars
  /\ IF part = "trace" THEN Trc!Next ELSE UNCHANGED traceVars
  /\ IF part = "upgrader" THEN UpNext ELSE UNCHANGED upVars
  /\ IF part = "noise" THEN Noise!Next ELSE UNCHANGED noiseVars
  /\ IF part = "reuse" THEN Quic!ReuseNext ELSE UNCHANGED reuseVars
  /\ IF part = "quic" THEN Quic!TransportNext ELSE UNCHANGED quicVars
  /\ IF part = "webtransport" THEN WtNext ELSE UNCHANGED wtVars
  /\ IF part = "certs" THEN CertsNext ELSE UNCHANGED certVars
  /\ IF part = "client" THEN CircuitNext ELSE UNCHANGED clientVars
  /\ MCUses'

MCSpec == MCInit(Parts) /\ [][MCNext]_all

Symmetry == Permutations({u1, u2}) \cup Permutations({v1, v2})

----------------------------------------------------------------------------
\* Swarm (swarm_addr.go, swarm_listen.go, swarm_dial.go): while listeners start, fail and are
\* closed, InterfaceListenAddresses gives no address of a listener that is gone, but for those that
\* Swarm.Close takes away, whose addresses stay in the cache; resolveAddrs, filterKnownUndialables
\* and the removal of second best QUIC addresses leave what is worth dialing, and nonProxyAddr has no
\* transport only when Close has taken them away meanwhile. Construction (libp2p.go, options.go, config/config.go, NewNode): a node
\* is as its options ask in any order of them, and one that fails at any step is closed but for
\* what nobody owns.
SetUpSound ==
  /\ part = "addrs" => Addrs!AddressesSound
  /\ part = "construction" => Cons!ConstructionSound

\* Limits (limit_defaults.go, limit.go): what a configuration builds does not depend on whether
\* it was written to JSON and read, completed from defaults first, or rebuilt; scaling never
\* gives a larger machine less. Allowlist (allowlist.go): after any additions and removals it
\* decides by what was added and not removed. Trace (trace.go, push, background, Close): with
\* scopes pushing concurrently, every event is on file once and in order, and the file replays
\* to the scopes' counters. checkMemory (scope.go), with its products and sums of 64-bit integers
\* and the checks for their overflow, decides as exact integers would at every priority and every
\* limit but MaxInt64, which stands for none.
LimitsApplied ==
  /\ part = "limits" => Lim!LimitsDecided
  /\ part = "allowlist" => Lim!AllowlistDecides
  /\ part = "memory" => Lim!DecidesExactly
  /\ part = "trace" => Trc!TraceReplays

\* Noise (noise/handshake.go, session.go, rw.go): a session is returned only with the expected
\* peer and matching keys, a failed or abandoned handshake leaves no goroutine and no
\* connection, and Read gives the bytes of concurrent Writes in order, whatever the sizes of
\* messages and of the buffers on both sides.
SessionsSound == part = "noise" => Noise!SessionsSound

\* Shared sockets (quicreuse/reuse.go, gc, Dial, Listen; connmgr.go; listener.go): the
\* collector closes no socket that a listener, a dial or a connection uses, but for those of listeners
\* whose shared accept loop has given up at a protocol that was removed, and
\* connections go to no listener that has drained its queue. QUIC transport
\* (quic/virtuallistener.go, transport.go, holePunch): a connection goes to one hole punch,
\* version's listener or nowhere, its scope ends when it is refused or closed, and no two
\* acceptors wait for each other.
QuicShared ==
  /\ part = "reuse" => Quic!SocketsInUse
  /\ part = "quic" => Quic!ConnsTakenOnce
============================================================================
