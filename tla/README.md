# go-libp2p in TLA+

Specifications of go-libp2p's core and of the services of a host, checked with TLC on small
instances and, for the dial limiter, dialing, the dial backoff, the resource manager, the
swarm, the connection manager, the relay and its client, the connection gater, the upgrader,
hole punching and WebTransport, proved with TLAPS for all instances.  Paths below are
relative to the root of the repository.  `PROJECT.json` gives, for every
definition, the lines of code it models, and lists the hazards that the
properties are aimed at.

Contents: 1 the system, 2 modules and code, 3 runs, 4 fairness, 5 proofs,
6 findings, 7 what is not modelled, 8 plan.

## 1. The system

go-libp2p is a library of network services that share one process.  Almost every
service is a table under a mutex plus a few goroutines that leave the mutex
between two steps (to dial, to read a message, to call back), and services are
tied together by three mechanisms: direct calls, the swarm's notifications
(`network.Notifiee`) and the event bus.

| part | state | operations and goroutines | interacts with |
|---|---|---|---|
| dial limiter `p2p/net/swarm/limiter.go` | `fdConsuming`, `activePerPeer`, two waiting lists | `AddDialJob`, `executeDial`, `finishedDial`, `clearAllPeerDials` | dial workers, transports |
| dialing `swarm_dial.go`, `dial_sync.go`, `dial_worker.go` | `dialSync.dials`, ref counts, the worker's `requests`, `pending`, `nextDial` | `dialPeer`, `dialSync.Dial`, the worker loop, the deferred clean-up | limiter, backoff, peerstore, `Swarm.addConn` |
| dial backoff `swarm_dial.go` | failures and end of backoff per address | `AddBackoff`, `Clear`, `Backoff`, the cleanup ticker | dial workers |
| swarm `swarm.go`, `swarm_conn.go`, `swarm_stream.go`, `swarm_listen.go` | connections, streams, listeners, the wait group `refs`, notification locks | `addConn`, accept loops, `doClose`, `NewStream`, `Close` | all notifiees, event bus, resource manager |
| resource manager `p2p/host/resource-manager` | a graph of scopes with usage, limits and reference counts | `OpenConnection`, `OpenStream`, `SetPeer`, `SetProtocol`, `SetService`, memory, spans, `Done`, gc | swarm, upgrader, protocols |
| connection manager `p2p/net/connmgr` | entries per peer, tags, protections, `connCount` | notifications, tags, `TrimOpenConns`, background loop, memory watchdog, decayer | swarm (closes connections) |
| identify `p2p/protocol/identify/id.go` | entries per connection, our snapshot | `IdentifyWait`, requests, pushes, `Disconnected` | notifications, address book, event bus |
| address book `p2p/host/peerstore/pstoremem/addr_book.go` | addresses with expiry, signed records, streams | add, set, update, consume, clear, gc, `AddrStream` | identify, dialing |
| event bus `p2p/host/eventbus` | nodes per type, sinks, channels | `Emitter`, `Emit`, `Subscribe`, `Close`, wildcards | all services |
| relay `p2p/protocol/circuitv2/relay` | reservations, circuits per peer, constraints | reserve, connect, copying, `disconnected`, gc, `Close` | resource manager, connection manager |
| relay finder `p2p/host/autorelay` | candidates, relays, backoff, cached addresses | `background`, `findNodes`, `handleNewNode`, `handleNewCandidates`, reachability | event bus, connection manager |
| certificates `p2p/transport/webtransport/cert_manager.go` | last, current and next certificate | timer, restart, `AddrComponent` | clients that hold addresses |
| swarm addresses `swarm_transport.go`, `swarm_addr.go`, `swarm_listen.go`, `swarm_dial.go` | transports, listeners, the cache of interface addresses | `AddTransport`, `AddListenAddr`, `ListenClose`, `InterfaceListenAddresses`, choice of addresses to dial | host, transports |
| limits `limit_defaults.go`, allowlist `allowlist.go`, trace `trace.go` | partial and concrete limits; networks and peers; pending events | `Apply`, `Build`, JSON, `Scale`; `Add`, `Remove`, `Allowed`; `push`, the writer, `Close` | resource manager |
| connection gater `p2p/net/conngater` | blocked peers, addresses, subnets, in memory and in a datastore | `Block*`, `Unblock*`, `Intercept*`, start | swarm, upgrader |
| upgrader `p2p/net/upgrader` | accept queue, threshold | the accept loop, upgrades, `Accept`, `Close` | transports, gater, resource manager |
| Noise `p2p/security/noise` | handshake, queued bytes | `Read`, `Write`, handshake with a context | upgrader |
| construction `options.go`, `defaults.go`, `config/config.go` | the configuration, what was made so far | options, defaults, `NewNode`, `Close` | every other part |
| QUIC `p2p/transport/quic`, `quicreuse` | sockets with counts, listeners per protocol and per version, hole punches | `Listen`, `Dial`, `holePunch`, gc, `Close` | swarm, resource manager |
| WebTransport `p2p/transport/webtransport` | sessions, bounded queue | HTTP handlers, `Accept`, `Dial`, `Close` | QUIC, Noise, resource manager |
| circuit client `p2p/protocol/circuitv2/client` | active dials, hop tags | `dial`, incoming circuits, `Accept`, `Close` | relay, upgrader, connection manager |
| basic host `p2p/host/basic/basic_host.go` | last addresses, signed record | the address loop, `AllAddrs`, `NewStream`, `newStreamHandler` | swarm, identify, NAT manager, event bus |
| NAT `p2p/host/basic/natmgr.go`, `p2p/net/nat` | mappings and their refreshers | notifications, `doSync`, mapping, `Close` | gateway, basic host |
| observed addresses `p2p/protocol/identify/obsaddr.go` | observations per address, active connections | `Record`, the worker, refresh, gc, `Disconnected` | identify, basic host |
| AutoNAT `p2p/host/autonat` | status, confidence, schedule; requests served | probes, `recordObservation`; `handleDial`, `doDial`, resets | event bus, dialer of its own |
| hole punching `p2p/protocol/holepunch` | active attempts | `DirectConnect`, notifiee, CONNECT and SYNC, `Close` | circuit client, QUIC and TCP dials |
| relay manager `p2p/host/relaysvc` | the running relay | the reachability loop, `Close` | AutoNAT events, relay |
| peerstores `pstoremem`, `pstoreds`, `p2p/host/pstoremanager` | protocols, metadata, keys; records, cache, lookahead entries; absent peers | all operations, both collections, restarts; removal after a grace period | datastore, event bus |
| mock network `p2p/net/mock` | links, connections by peer and by link, notifiees, streams, allowance of a link | `LinkNets`, `DialPeer`, `Close`, notifications, the transport of a stream, `Limit` | the tests of all services |
| backoff discovery `p2p/discovery/backoff` | shared searches, cached peers, backoff per peer | `FindPeers`, dispatcher, receivers, connector | discovery services |

The parts that are left out are listed in section 7 and, with reasons, in
`PROJECT.json` under `components`.

What is hard in this code, and what makes each part correct:

* **Tokens and counts handed from goroutine to goroutine** (limiter, wait group
  of the swarm, resource scopes, connection count, circuits).  Correct: the
  counter equals the number of those it counts, in the middle of failures too,
  and a limit is a limit.
* **Wake-ups** (limiter, relay finder, one-slot flags of the host's and the NAT
  manager's loops).  Correct: nobody waits while what he waits
  for is there.
* **Shared work** (`dialSync`, shared trims, dials through relays, searches for peers,
  attempts at a direct connection).  Correct: everybody who joined is
  answered, once, and the work ends when the last one leaves.
* **Order of reports** (notifications, events, event bus).  Correct: the beginning
  is reported before the end, and the last report agrees with the table.
* **State read under a lock and used after it** (trim candidates, identify
  messages, relay disconnections, peer scopes and sockets under garbage collection,
  observations of closing connections).
  Correct: what happened in between is not overwritten or leaked.
* **Shutdown** (`Swarm.Close`, `Relay.Close`, subscriptions, decayer).  Correct: it
  waits for everything it owns and it returns.
* **Paths that give up half way** (upgrades, streams, sessions, circuits, probes).  Correct:
  the connection, its stream and its scope are each given back.
* **Restarts** (datastore peerstore, gater, certificates).  Correct: what finished calls
  said still holds.
* **Arithmetic and time** (memory limits, scaling of limits, message framing, backoff times, certificate periods,
  reservation windows).

## 2. Modules and code

One module per component; all of them are written as state machines with one action
per critical section or blocking point of the code.  A handler that holds its lock
from beginning to end is one action; a handler that releases it is a `pc`-like
variable (`at`, `stage`, `doClose`, ...) and one action for each part.  Peers,
addresses, connections and messages are model values; errors of the network,
cancelled contexts and timers are nondeterministic choices.

| module | models | state and actions |
|---|---|---|
| `DialLimiter` | `limiter.go` | `stage[j]` follows a job through the waiting lists and `executeDial`; `crit` is the release loop under the mutex, so that a cancellation can fall between the test of `cancelled()` and the next iteration, and so that the nesting `freeFDToken` -> `freePeerToken` -> `addCheckFdLimit` is kept. |
| `SwarmDial` | dialing to one peer | Callers go through `dialPeer`; generations `Gens` are the successive `activeDial`s; workers take requests, trigger dials tier by tier and dispatch results; the limiter appears as a job that may wait and be cleared. `bestAcceptableConnToPeer` and forced direct dials are included. |
| `DialBackoff` | `DialBackoff` | `tries`, `until`, a clock; one action per method and the cleanup; durations are machine integers that overflow. |
| `Swarm` | `swarm.go`, `swarm_conn.go`, `swarm_stream.go`, `swarm_listen.go` | `refs` is the wait group; `addConn`, `start`, `doClose`, `remove`, the notifications under `notifyLk`, streams with their scopes, and `Swarm.close` in its three steps. |
| `ResourceManager` | `rcmgr.go`, `scope.go`, `limit.go` | A call charges or releases the shared scopes one by one (`todo`) and, if it is refused, undoes what it did (`undo`); collection may come between any two steps. |
| `ConnMgr` | `connmgr.go` | `peerInfo` objects have an identity, because trims keep pointers to them; trims are multi-step. |
| `ConnTags` | tags, `decay.go`, `presets.go` | the decayer goroutine with its three bounded queues. |
| `Identify` | `id.go` | notifications, `IdentifyWait`, reading and consuming messages, snapshots, pushes with the concurrent answers, the downgrade of addresses. |
| `AddrBookOps` | operations of `pstoremem/addr_book.go` on one peer | pure operators on a book; used by `Identify` and `AddrBook`. |
| `AddrBook` | the book over time, gc, `AddrStream` | the goroutine of each stream with its buffer. |
| `EventBus` | `basic.go` | the locks of the bus and of the nodes, blocking sends one sink at a time, nodes that are dropped and made again, the wildcard node with its read-write lock. |
| `Relay` | `relay.go`, `constraints.go` | one handler per stream from `handleStream` to the end of both copying goroutines; the lists of the constraints are sets of dated grants, since their order is never looked at. |
| `RelayFinder` | `relay_finder.go`, `autorelay.go` | the four kinds of goroutines and the one-slot channels between them. |
| `DialPool` | nothing: an abstract specification | for each peer, a pool of places and a queue in which nobody overtakes; `DialLimiter` is shown to implement it. |
| `SwarmAddrs` | `swarm_transport.go`, `swarm_addr.go`, `swarm_listen.go`, address choice in `swarm_dial.go` | transports, listeners, the cache; `Dial` goes through resolution and every filter in the code's order, with `Close` in between. |
| `Admission` | `conngater.go`; `listener.go`, `upgrader.go`, `threshold.go` | the gater: store and memory are separate; a call is two steps, with refused writes, failed starts and restarts between them; attempts pass the interceptions one after another; the upgrader: one state per raw connection through `handleIncoming`, with the timeouts of each. |
| `Limits` | `limit_defaults.go`, `limit.go`; `allowlist.go` | operators on configurations (`Apply`, `Build`, `ToPartial`, `ThroughJSON`, `Scale`) and actions that put a configuration together step by step; the allowlist's two tables as lists, as in the code, beside a count of what was added; `checkMemory` and the memory counter on machine integers of a small width. |
| `Trace` | `trace.go`, `obs/stats.go` | each operation of a scope pushes its events, reporters hear each, the writer takes batches; the file may not open and writing or encoding may fail; the counters that the stats reporter keeps. |
| `Construction` | `options.go`, `defaults.go`, `libp2p.go`, `config/config.go` | a list of options, the defaults that fill it up, and `NewNode` part by part with the error of each and what it leaves running; `Close`. |
| `NoiseSession` | `handshake.go`, `session.go`, `rw.go` | both sides' handshake; a direction of bytes with writers, frames, the queued buffer and readers with any buffer. |
| `QuicTransport` | `reuse.go`, `connmgr.go`, `quicreuse/listener.go`; `virtuallistener.go`, `quic/listener.go`, `quic/transport.go` | sockets with count and time of disuse, the collector, the accept loop of several protocols; acceptors of each version with the semaphore and the mutex of the muxer; hole punches. |
| `WebTransport` | `webtransport/listener.go`, `transport.go`, `conn.go`; `cert_manager.go` | one state per session on either side; the certificates as a machine of its own, a certificate being its start time, with late timers and restarts. |
| `CircuitClient` | `client/dial.go`, `handlers.go`, `listen.go`, `conn.go`, `transport.go` | calls that share attempts, streams, scopes and tags of the relays. |
| `BasicHost` | `basic_host.go`; `relaysvc/relay.go`; `natmgr.go`, `nat.go`, `mapping.go` | the address loop and `AllAddrs`: sources of addresses change at any moment, compute, read and emit are separate steps; `NewStream` and `newStreamHandler`: every wait of a call is a step that may be given up; the relay manager's loop and its relay; the NAT manager's notifications, its synchronisation and the refreshers of mappings (the gateway is external). |
| `ObservedAddrs` | `obsaddr.go` | worker and notifications with the locks between the steps of `addConn` and `removeConn`. |
| `AutoNAT` | `autonat.go`, `client.go`, `notify.go`; `svc.go`, `dialpolicy.go` | the loop with its timer in ages and countdowns; concurrent handlers with the shared dialer. |
| `HolePunch` | `holepuncher.go`, `svc.go` | both sides of the exchange, attempts with retries. |
| `Peerstore` | `pstoremem` and `pstoreds` protocol, key and metadata books, `pstoremanager.go`; `pstoreds/addr_book.go`, `addr_book_gc.go`, `cyclic_batch.go` | both kinds of books side by side, the manager's events; cache, record and lookahead entries of one peer beside a plain book (`ref`). |
| `BackoffDiscovery` | `backoffcache.go`, `backoffconnector.go`, `backoff.go` | dispatcher and receivers with their bounded channels, the strategies as ranges of delays. |
| `MockNet` | `p2p/net/mock` | three machines: the tables of both peers, with `lock` for the goroutine that has `notifLk` of an end, `once` for its `closeOnce` and the streams in its list; one pair of streams, with the transport goroutine of each side, its buffer and the pipes; the rate limiter in ticks. |
| `*Proofs` | | theorems (section 5). |
| `MC*` | | instances for TLC (section 3). |

Services meet in events, calls and shared resources; each module has the other side as
an input that may come at any moment (reachability events, observed addresses and
mappings in `BasicHost`).  Two compositions are made by operators: `Identify` keeps its
addresses in a book of `AddrBookOps`, and `SwarmDial` contains the states of the
limiter that a worker can see (`queued`, `cleared`, `running`), which is where
the interaction of the two goes wrong (finding 1).

## 3. Runs

Run a configuration with `tlc -config X.cfg Module`.  State spaces that would be too
large together are split by the variable `part`, chosen in the initial state and never
changed: `part` says which operations a behaviour uses, by a condition on the next
state (`Uses'`), and everything else is as in the component's own `Next`.  Components
that do not interact (the tables of `MCTables`, the notifiees and the mock network, the two
sides of relaying) share a run in the same way.  A part only removes behaviours; the interleavings
inside a part are complete.

| run | instance | bounds, and why they are enough | time |
|---|---|---|---|
| `dial_limiter` | `MCDialLimiter`, `DialLimiter.cfg` | 2 peers, 3 dials, 5 jobs (one without FD), `fdLimit = perPeerLimit = 1`: peer p1 is dialed, the dial cancelled and p1 dialed again while p2 competes for the only FD token, so jobs wait in both lists with cancelled ones before them | 90 s |
| `swarm_dial` | `SwarmDial`, `SwarmDial.cfg` | 2 callers (one forced direct, one allowing transient connections), a direct and a relay address of different tiers, 2 generations of `activeDial`, jobs may queue | 98 s |
| `rcmgr` | `MCResourceManager`, `ResourceManager.cfg` | 1 peer, protocol and service, 2 streams or 2 connections or streams with a span; limits such that every scope refuses something; symmetric in streams and in connections | 156 s |
| `swarm` | `MCSwarm`, `Swarm.cfg` | an accepted and a dialed connection with one peer and a listener, or one connection with two streams | 64 s |
| `notifiees` | `MCNotifiees`, `Notifiees.cfg` | connection manager: 3 connections, 2 peers, two calls, background loop, watchdog (one of the peers protected), watermarks 1 and 2; identify: 2 connections of one peer, 2 records, 3 snapshots, pushes of the peer on one of the connections; mock network: 2 peers, a link, two connections made by overlapping dials, or one with a stream, with changing notifiees or with a call to close all; streams with messages that fill the buffer and that do not, one side writing, two calls that end it; 3 sends at bandwidths 0, 2 and 3 | 131 s |
| `tables` | `MCTables`, `Tables.cfg` | see below | 120 s |
| `circuit` | `MCCircuit`, `Circuit.cfg` | relay: 2 peers behind one address, 3 handlers, all limits reached; finder: 2 nodes, one desired relay | 153 s |
| `host` | `MCHost`, `Host.cfg` | see below | 130 s |
| `connections` | `MCConnections`, `Connections.cfg` | see below | 150 s |
| `swarm_dial_cleared`, `swarm_scopes`, `identify_addrs` | | one property each, violated: section 6 | seconds |

(Times with two workers.)  None of the runs but `rcmgr` checks for deadlock: the other
systems may come to rest (all dials done, swarm closed, time at its bound); `rcmgr`
always has a collection to run.  Deadlocks that matter are properties (`EverythingEnds`,
`BusDelivers`, `WaitersServed`, `NoIdleToken`, `QuicShared`, `RelayDialsShared`).

The properties of a component are in its module; an MC module names what a run checks,
often the conjunction of two or three of them.

What the passing runs show:

* **dial_limiter**: `TokenAccounting` both counters count exactly the jobs that hold a
  token, through every nesting of the release loops; `NoIdleToken` outside the critical
  section a job waits only for tokens that are all taken; `WaitersServed` each waiting job
  is eventually dialed or dropped; `ImplementsPool` seen from a peer the limiter is
  `DialPool`: at most `perPeerLimit` jobs inside, the others served in their order, and
  none left waiting while a place is free.
* **swarm_dial**: `DialsShared` ref counts, the map and `close` agree, so nobody sends
  on a closed request channel, no second answer comes, which would block the worker, and
  the worker's "should not happen" branches do not; `AnsweredUnlessCleared` every caller
  is answered before its context expires unless its jobs were cleared away;
  `DialWindsDown` abandoned dials end completely.
* **rcmgr**: `WithinLimits` at every instant; `Accounted` no leak and no loss when no
  call is under way, and the "BUG: too much released" branches are dead;
  `ReferencesRight` no scope in use is collected, and unused scopes can be, but for at
  most one reference of each stream whose protocol is set when it is already done.
* **swarm**: `ConnectedThenDisconnected`; `EndsInOrder` `Close` waits for all that the
  wait group counts, the last event agrees with the connections, no stream outlives its
  connection; `EverythingEnds` `Close` returns, and a connection that dies or is closed
  is reported and its streams end.
* **notifiees**: `TrimsSound` the connection count and the entries agree with the
  connections until overlapping trims have dropped an entry they did not collect
  (`strayed`), and whatever overlaps a peer that was protected all along and, on demand or
  in the background, a peer in a grace period of its own (`early` are the entries made
  before their peer connected) keep their connections; `TrimDuringCall` a call of `TrimOpenConns`
  returns only after a trim was completed during it, unless it began between the trim of a
  memory emergency and its count (`late`; a part of the run has emergencies beside calls); `PeersFollowed` after the last
  `Disconnected` no entry and no address with the time to live of a connected peer is
  left, and a peer that was told an old snapshot will be told the current one;
  `MockNetSound` (`ConnsPaired`, `StreamDelivers`, `RateKept`) on the mock network both
  peers have a connection in their tables until it is closed at either side, which ends
  the other, and a notifiee hears of its beginning and then of its end, once each; what is
  read from a stream is what was written, completely before its end, and `Reset` waits for
  no reader; no window of time carries more than the bandwidth and one second's burst.
* **circuit**: `RelayBounded` circuits counted exactly, grants bounded in every window of
  the constraints' validity; `RelaysUsed` advertised addresses follow the relays and no
  wake-up is lost, except the one in section 6.
* **tables**: `ForgottenOnlyWhenStale` (2 peers, 2 addresses, time up to 4, parameters
  so that the maximum is reached within three failures, and the product overflows); `ValueIsSum` and `ValuesExpire`
  (two decaying tags of one name, the second with an interval below the resolution,
  queues of one slot, late ticks); `StreamComplete` (2 addresses, 2 streams, records,
  time up to 3, so that addresses expire and come back with and without collection);
  `BusDelivers` (channels of one slot; two emitters and a subscription to two types, two
  subscriptions, or a subscription and a wildcard subscription).
* **host**: `ObservationsKept` (an inbound and an outbound connection of one observer, a
  queue of one observation, time to three refreshes; and two outbound connections whose
  observers report one address or two, with the reachability changing, so that a NAT type
  is announced only for addresses activated in the way it claims); `ReachabilityFollowed` (two peers,
  confidence up to 2, ages past both intervals; four events for the relay manager);
  `DialBackLimited` (two handlers at a time, four requests, two peers, addresses of another
  host, through a relay and without IP; limits of two for a peer and three for all, so that
  each of them refuses when the other would not); `AddressesCurrent` (two ports
  that come and go, a mapping of a port that is replaced; three listeners of which two
  share a port, three changes of any source, each of which may fail to be signed, stored or sent); `StreamsAccounted` (two calls, an incoming
  stream, a connection that is lost and made again); `AttemptsExclusive` (a notified and
  a called attempt, two tries each); `PeersKnown` (the peerstores
  agree: three addresses, two times to
  live, any number deleted at once, both collections, restarts; `Uses` in `MCHost` says which of
  these are not combined; three protocols with room for two; and callers of a
  shared search are told of every find: two callers, channels of one slot, two finds of one
  peer).
* **connections**: `SetUpSound` (two listeners, four transports of which at most one is missing while a dial chooses,
  until `Close` takes them all, names that resolve to others or to no peer; nodes made from up to three options of those that bear on each other or
  on what can fail, and every error on the way: what an error leaves behind is what
  section 6 lists); `RulesInForce` (a peer, an address and a subnet, two concurrent calls, one
  attempt; two calls at a time are about one rule, and none changes during an attempt if there
  are rules the gater failed to read); `LimitsApplied` (two names, three edits of a configuration, machines on both
  sides of the 128 MiB below which nothing is scaled; networks over one-bit addresses for
  two peers, three entries; two scopes, two operations, a failing writer, refused requests with
  one scope of a peer; the memory
  check for all 7-bit values, limits,
  requests and priorities: both overflow checks are reached);
  `NothingHalfOpen` (three connections in their order, a queue of one, temporary errors, with
  and without a forced private network);
  `SessionsAccounted` (three sessions over two QUIC connections, the two of one connection in
  their order, a queue of one, the transport closed at any time);
  `CertsServe` (several periods, restarts, late timers); `SessionsSound` (both sides with any expectation; writes of one to
  three bytes in frames of three with a tag of one, buffers of 0 to 3); `QuicShared` (a
  socket on all addresses and one on an address, two protocols, two listeners; two
  versions with buffers of one, two hole punches); `RelayDialsShared` (three dials by two
  relays and an incoming circuit).

Every property is known to be violated by at least one plausible mutation of a mapped
definition (`mutants` in `PROJECT.json`).

## 4. Fairness

Safety runs assume none.  The liveness properties assume weak fairness of steps that a
goroutine takes on its own once they are enabled, because the Go scheduler runs every
runnable goroutine:

* `DialLimiter`: the release loops and the steps of `executeDial`.  That a dial returns
  is justified by its timeout (`dialTimeout`, `dialTimeoutLocal` in `swarm.go`).
  Starting and cancelling dials is not fair.
* `SwarmDial`: callers, worker and jobs; not the arrival of callers, the expiry of their
  contexts (that would make the answer trivial), nor connections coming and going.
* `Swarm`: accept loops that see their listener or connection closed, `addConn`, the
  notifications, the steps of `doClose`, the removal of streams by the reset that
  `doClose` starts, and `Swarm.Close` once called.  Notifiees are assumed to return.
  Not fair: connections dying, anyone calling `Close`, streams being opened or accepted.
* `ConnTags`: the ticker and the three commands, each by itself.  The decayer takes them
  in one `select`, and Go's `select` chooses at random among the ready cases.

No strong fairness is used.

## 5. Proofs

All theorems hold for all values of the constants, under the named assumptions next to
their declarations (`DialAssumption`, `LimitAssumption`, `CallerAssumption`,
`AddrAssumption`, `BackoffAssumption`, `ResourceAssumption`, `SwarmAssumption`,
`ConnMgrAssumption`, `RelayAssumption`, `GateAssumption`, `PunchAssumption`,
`CircuitAssumption`, `SessionAssumption`, `CertAssumption`, `HostAddrsAssumption`: sets are
finite where they are counted, limits are natural numbers, functions have their domains,
values for "nothing" are not among the values, a certificate outlives twice the clock skew,
and interfaces, public IPs and observers give no unspecified IP and no certificate hashes);
TLC evaluates these in the runs.

* `DialLimiterProofs`.  `TokensAccounted`, `PeerLimitHolds`, `NoLostWakeup`,
  `TypeCorrect`.  `TokenAccounting` is not inductive: whether a release loop frees a token
  that someone holds depends on the loop it is in.  `IInv` adds that the lists hold jobs
  of the right stage without duplicates (`FdList`, `PeerList`), what the critical section
  is about (`CritOK`), and the slack inside the loops: one token of the peer, or one FD
  token, may be free there while a job waits (`PeerTokens`, `FdTokens`).  The steps move
  one job from one stage to another, and lemma `MoveJob` says how the cardinality of the
  holders changes.  `PoolImplemented` is the
  refinement of `DialPool`: `IInv` gives that the peer's counter is the number of jobs
  inside, lemma `MoveInPool` says what moving one job does to the abstract sets and queue,
  and lemma `PoolStep` maps every action of `DialLimiter` to a step of the pool or to
  a stutter.  `FdLimitHolds` bounds the FD dials by `fdLimit + 1` without any assumption on
  redials: inside the loop of `freeFDToken` there are at most `fdLimit` of them, what the nested
  `freePeerToken` starts included, and the loop adds one when it ends (`FdInv`).
* `ResourceManagerProofs`.  `LimitsHold`: no shared scope ever exceeds one of its limits,
  for any number of concurrent calls.  `IInv` is the types, the limits, and `KnownInv`:
  which of peer, protocol and service a call under way has, since the scopes that a step
  visits are named by them.  Amounts are released down to zero and no further, as in the
  code, so the limits need no accounting; `Conservation` is not proved.
  `ReferencesHold` (`ReferencesRight`): between calls the count of a peer's or protocol's
  scope is the number of its holders, but this is not inductive, since a call moves
  references one by one and the collection may come after each.  `RefInv` says for each
  connection and stream which edges follow from what was set on it (`EdgesFit`), which
  pairs of steps left and steps to undo its call can have (`StepsFit`), and that nothing it
  refers to at this step (`RefersAs`) was collected (`NotStale`); a count lies between the
  number of those that refer to the scope and that number with the streams whose protocol
  was set too late (`Counted`).  Lemma `CountStep` says how a step of one of them changes
  both cardinalities.  That the scopes within a protocol or service are not collected under
  a stream follows from its edges to the protocol and the peer (`EdgesClosed`), since those
  scopes go with them.  Without late calls the count is exact.
* `SwarmDialProofs`.  `SharedSoundly` (`DialsShared`) and `TypeCorrect`.  Its three parts
  need three strengthenings: who holds an `activeDial` holds one that was started, the
  count is the number of its holders, and the map has it exactly while the count is
  positive (`Sharing`); a request that the worker tracks belongs to a caller of that worker
  and has no answer yet (`Answering`); an address is scheduled or dialed only after its
  `addrDial` was made, and not both at a time (`Dialing`).
* `SwarmProofs`.  `NotificationOrder`: the lock is held from registration until
  `Connected` is delivered (`LockProtects`), and only registered connections can be closed
  by anyone (`Listed`, `Untouched`).  `EndsOrderly` (`EndsInOrder`): `EndInv` says who
  holds which reference of the wait group, as the sum of six cardinalities (accepting
  listeners, connections being added, connections not yet reported closed, their accept
  loops, streams in `start`, streams not yet gone), so that the counter is zero only when
  all six sets are empty; that a connection counts its open streams, all of which are
  being reset once its table is gone; and that the last event of a peer agrees with the
  list of its connections.
* `ConnMgrProofs`.  `SelectsSoundly` (`TrimsSound`): the count is that of the connections
  some entry holds, tracked or not (`Entries`), and as long as no entry was dropped that
  its trim had not collected these are the connections reported (`Tracking`).  A candidate
  that a trim still has under its eyes is unprotected, or its peer was not protected all
  along, and is out of its grace period, or made early (`Trimming`).  `CallsTrimmed`
  (`TrimDuringCall`) holds with memory emergencies too; `CallsServed` says that a call
  which will find the count of trims changed has had a trim, or is one of the `late` calls,
  which began when an emergency had released the lock and not yet counted its trim.
* `ComponentProofs`, for the smaller components.
  Dial backoff: `StaleOnly`, `BackoffsBounded`, `MonotoneBackoff`, `TypeCorrect`.
  `BackoffInv` says that a backoff ends no later than the time for the last failure from
  now; the arithmetic lemmas say that backoff times grow with the failures as long as the
  square fits into a duration (`Fits`).  `BackoffsBounded` holds for all failures;
  `MonotoneBackoff`, and of `StaleOnly` that a forgotten backoff is over, before the
  overflow.
  Connection gater: `GateRulesInForce` (`RulesInForce`).  What finished calls said is kept as
  `known`, through every restart; `GateInv` says that it is in the store and, while the gater
  is up, in memory, but for the stored rules that its start did not read (`unread`, which the
  property names), that
  no call under way is against it, how much of the store a start has read (`Loading`), and
  which rules bind an attempt between two of its interceptions (`Bound`).
  Upgrader: `UpgraderNothingHalfOpen` (`NothingHalfOpen`).  `UpInv` says what each step of the
  accept loop has in hand (`InHand`), whose scope is open (`Scoped`), and that the threshold
  is the number of connections offered (`Counted`), by lemmas on how a step changes that
  cardinality.  All ways in which a connection fails to reach the swarm are covered, the two in
  which the code keeps the connection or its scope by name (`GivenBack`).
  Hole punching: `PunchAttemptsExclusive` (`AttemptsExclusive`).  `PunchInv` says that the
  entry of the peer belongs to one goroutine (`OneAttempt`), that the puncher is made once, that
  a SYNC on the stream is not yet answered (`StreamHolds`), and that there were at most as many
  SYNCs as pairs of a goroutine and a retry in which it may have sent one (`OneSyncEach`).
  Circuit client: `ClientRelayDialsShared` (`RelayDialsShared`).  `ClientInv` says who waits
  for which attempt and what it will find (`Published`), that a failed call left neither
  stream nor scope (`Left`), and that the count of a relay's tag is at most the number of
  connections that use it (`TagCounted`).
  WebTransport: `WtSessionsAccounted` (`SessionsAccounted`).  `WtInv` says for each step of a
  session which scope and hashes it has (`SessionOK`), that a dialled session is alone on its
  QUIC connection (`DialsAlone`), who has its place in `conns` (`ConnsRight`), and when a
  listener lacks its certificate manager (`ManagerOK`).  A closed listener closes no session,
  in the model as in the code.
  `CertificatesServe` (`CertsServe`): `CertInv` keeps current and next certificate a period
  apart and aligned to the offset, the clock before the roll-over or less than the lateness
  after it (`Rolling`), and for an address that was handed out which of the certificates
  served it names (`Handed`); the arithmetic lemmas say that buckets of a period are unique
  and that a restart in the same bucket finds the same certificates.
* `HostProofs`, for the basic host and what it owns; each part has a specification of its
  own (`AddrsSpec`, `StreamsSpec`, `ManagerSpec`, `NatSpec`).
  Streams: `HostStreamsAccounted` (`StreamsAccounted`).  `StreamsInv` says for each wait of a
  call what it would leave behind, that from the choice of the protocol on identify of the
  connection is over, and that an open stream is on the present connection, without which a
  lost connection would leave streams open.
  Addresses: `HostAddressesCurrent` (`AddressesCurrent`), from `HostAddressesTold` and
  `NatMappingsFollow`.  `emitAddrChange` may give up at each of its steps; what subscribers
  were told is right for every address but those in `unsent`, and the signed record unless the
  last one could not be made (`unsigned`).  That no change of the listeners is lost is not inductive, as the loop
  reads them twice: `AddrsInv` says that after the second reading they are the ones last read, or
  a signal is in the channel or under way.  What `Addrs` computes is shown fit for any sources
  (lemma `AddrsSound`).  `NatInv` says who renews a mapping (`Renewed`: whatever is on the
  gateway has a refresher, which `Close` waits for), what the goroutines of `doSync` still have
  to do (`WorkInv`), and that, once no notification is under way, a port listened on has a
  mapping or a goroutine that makes one and any other mapping a goroutine that removes it
  (`Following`).
  Relay manager: `RelayManagerFollows` (`RelayWhilePublic`, a part of `ReachabilityFollowed`).
* `RelayProofs`.  `LimitsKept` (`RelayBounded`).  Circuits: a step lets one stream into its
  circuit (`Enters`), lets one out (`Leaves`) or leaves all alone (`CircuitsStay`), and
  `conns` of a peer is the number of circuits it began plus those that end at it, so that a
  circuit of a peer with itself counts twice; a running circuit has a goroutine that will
  end it (`Copied`).  Grants: the limits of a window are checked only when a reservation is
  granted, and expired entries are dropped at every check; that a grant is compared with
  all grants of its window needs that whatever is recent is still in the list
  (`Recent \subseteq total`), for all four lists.

Only model-checked: all liveness properties and `CloseNotStuck`, a part of `BusDelivers`
(it uses `ENABLED`), since
neither is in reach of the prover; sums over sets (`Conservation`, a part of `Accounted`,
and `ValueIsSum`) and `DialBackLimited`, which rests on what the fold of AutoNAT's address
filter keeps, all of which would need induction over data; and the components without a proof:
identify, address book, event bus, relay finder, the host's services (`ObservationsKept`,
of `ReachabilityFollowed` the part about AutoNAT, `PeersKnown`), swarm addresses and construction (`SetUpSound`), limits and trace
(`LimitsApplied`), Noise (`SessionsSound`), QUIC (`QuicShared`) and the mock network.

## 6. Findings

Where the code does something else than a comment, document or interface of the
repository says, and a run shows it:

1. `swarm_dial_cleared` (`CallersAnswered`): the deferred `clearAllPeerDials` of a worker
   whose dial was abandoned (`dial_worker.go:78`, `limiter.go:200`) also drops the queued
   jobs of the peer's next dial, whose caller then waits for its own context to expire.
2. `swarm_scopes` (`ScopesDone`): `Conn.start` does not end the resource scope when
   `addStream` fails for an accepted stream (`swarm_conn.go:129`).
3. `identify_addrs` (`PeerStoreHasAddrs`): when a push overtakes the answer to an identify
   request, the older signed record is refused and the peer's addresses, made
   temporary before, are all expired (`id.go:783`).

Other disagreements met while modelling.  They are kept in the models as the code has
them, and where a property would be false for this reason its statement says so:

* Limiter: `freeFDToken` may hand its token on twice when the nested `freePeerToken` takes
  one, so `fdLimit` can be exceeded by one (`limiter.go:88`), and by no more (`FdLimitHolds`).
* Dialing: a forced direct dial gets `ErrDialBackoff` although the comment at
  `dial_worker.go:281` excludes it (`:189`); `WithUseTransient` is not copied to the
  dial's context (`dial_sync.go:45` and `core/network/context.go:97`).
* Resource manager: `SetProtocol` after `Done` leaks a reference (`rcmgr.go:738`), hence
  `SetLate` in `UnusedCollectable`; the thresholds that `core/network/rcmgr.go:153` gives for the
  priorities differ from the check in `scope.go:132`.
* Swarm: no `NotConnected` event is emitted for connections that `Swarm.Close` closes, as
  the emitter is closed first (`swarm.go:214`, `core/event/network.go:14`); the comment
  on the error of `addStream` (`swarm_conn.go:131`) does not hold.
* Dial backoff: `BackoffCoef * tries * tries` overflows after 96,037 failures in a row
  (`swarm_dial.go`, `backoffTime`), and the backoff is then short or in the past; hence
  `Fits` in the properties.
* Connection manager: the background loop trims without `trimMutex` (`connmgr.go:356`, the
  comment at `:39`), and two trims that have collected one temporary entry can drop the
  entry of a connection that is open, hence `strayed`; a peer that is tagged before it
  connects has no grace period of its own (`connmgr.go:520`), hence `early`; a trim can end above or below
  the low watermark (`:501`); the watchdog's second pass ignores protection (`:416`); it
  counts its trim after it has released the lock (`:171`), so that a call of
  `TrimOpenConns` begun in between may return without a trim, hence `late` in
  `TrimDuringCall`; `decayer.Close` is not idempotent
  (`decay.go:142`); a bump that is processed after its tag was closed brings the tag back
  for that peer (`decay.go:216`); `DecayExpireWhenInactive` compares with the time of the
  last visit (`core/connmgr/presets.go:36`).
* Certificates: a restart loses the last certificate (`cert_manager.go:118`), hence the case
  distinction in `AddressAccepted`; `SerializedCertHashes` reads without the lock (`:169`).
* Relay: constraints forget a reservation after 30 minutes (`constraints.go:15`) and
  reservations last an hour, so more than `MaxReservations` (`resources.go:16`) may be held
  (`SlotsBounded` in `Relay` is refuted); the check in `disconnected` is stale when it deletes (`relay.go:668`); a circuit
  from a peer to itself counts twice.
* Relay finder: a failed refresh removes a relay and wakes nobody (`relay_finder.go:653`,
  excluded by `unsaid` in `CandidatesUsed`); `handleNewNode` admits one candidate more than
  `maxCandidates` (`:445`); a relay that disconnects between its reservation and its entry
  stays (`:567`); protection is not undone when a relay disconnects; `AutoRelay.Close` may
  race with a reachability event that starts the finder again (`autorelay.go:120`).
* Identify: the downgrade in `Disconnected` may hit addresses of a peer that has come back;
  negotiation of the stream has no deadline in `identifyConn`.
* Address book: `GetPeerRecord` counts unsigned addresses too (`addr_book.go:369`); a record
  consumed with a time to live of 0 is never collected.
* Event bus: `Close` of a wildcard subscription does not drain its channel, so it
  deadlocks with an emitter that waits for room (`basic.go:126`); `Subscribe` to several types
  can deadlock with an emitter blocked on the new subscription's full channel while another
  goroutine, such as `Close` in `tryDropNode`, holds the lock of the bus and waits for that
  node (`basic.go:94-102`, `:245`).  `CloseNotStuck` is about subscriptions that are not
  wildcards and names the second circle as its exemption (`HalfSubscribed`).
* NAT: closing a mapping does not stop its refresher, so a mapping that is being refreshed
  when it is removed comes back on the gateway (`nat.go:95-98` says otherwise;
  `ClosedNotRenewed` in `BasicHost` is refuted).
* Basic host: when a change of the addresses cannot be signed, stored or sent
  (`basic_host.go:518-529`) the background loop still takes the addresses for told (`:551`), so
  subscribers are not told of this change later either, hence `unsent` and `unsigned` in
  `AddressesTold`.  `NewStream` ignores the error of `SetProtocol` (`basic_host.go:677`, `:705`),
  so a stream may be used although its protocol's scope refused it.
* AutoNAT: concurrent requests of one peer share and clear the dialer's address book
  (`svc.go:253-258`), so that a dial may go to an address of another request of the same peer that
  is under way, or be answered by its connection, which is what `DialBackLimited` allows; `Close` disables the service before the loop has ended.
* Hole punching: `Close` races with the goroutine that makes the hole puncher
  (`svc.go:154-166`), and `DirectConnect` waits for public addresses without its context.
* Datastore peerstore: `deleteInPlace` keeps the wrong address when the first and the last
  of three are deleted at once (`addr_book.go:555-579`), hence `mixedUp` in `DsAgrees`, which is set when
  one call deletes several addresses and leaves others; the threshold of a cyclic batch is never set (`cyclic_batch.go:31`,
  the comment at `:14`); two callers that miss the cache, or a caller and `purgeStore`,
  overwrite each other's record; a record that is cleaned in the cache and not flushed hides
  the stored one from the lookahead.
* Peerstore manager: a peer whose reconnection is queued and not yet read is removed.
* Backoff discovery: the dispatcher sends with the mutex held to a caller that may have
  left, and blocks all searches (`DispatcherFree` is refuted); a caller with the limit 0, which means none where the answer
  comes from the cache, gets nothing that is found after it joined, and what it got on joining
  does not count against another limit (`backoffcache.go:249`), which `Expected` says; `FullJitter` panics when the
  bounds are equal, and an exponential delay that overflows falls to the minimum.
* Connection gater: an entry that cannot be read ends the loading of rules without an error
  (`conngater.go:73`), and fewer rules than stored are in force until the next start: `unread`
  in `RulesInForce`.  Blocking and unblocking one
  rule at a time leaves store and memory different.
* Limits: the limit of streams is scaled by the increase for connections
  (`limit_defaults.go:595`; `IncreasesHonoured` in `Limits` is refuted).  Applying an
  empty configuration gives a default entry of a name precedence over the built-in one.
* Trace: when its file cannot be opened the trace has no writer and no start event, and keeps
  events for ever (`trace.go:319`); an error of the writer stops the reporters too; `Done`
  of a connection's scope clears its memory without an event, so that the histograms of
  connection memory keep it; a span of the system or transient scope cannot be encoded and
  ends the trace.
* Upgrader: `Accept` drops a connection that was closed in the queue without ending its
  scope (`listener.go:162`), and the check for private networks refuses without closing
  (`upgrader.go:150`).  `GivenBack` names both.
* Noise: a read that exactly empties the queue is followed by one that returns no bytes and no
  error (`NoEmptyRead` in `NoiseSession` is refuted; the comment at `rw.go:25`).
* Shared QUIC sockets: a connection for a protocol whose listener was just removed ends the
  accept loop of every protocol (`quicreuse/listener.go:143`) and gives the count of the socket
  back, although other listeners use it and more may join: one listener for a protocol is
  removed when a connection for it is ready, `Run` gives up, the count is 0, another listener
  joins through `ListenQUIC` before `OnListenerClosed` of the first, and the collector closes its
  socket.  `SocketsInUse` holds for all others (`run = "gave up"` in `InUse`); counts are not given back when a listener cannot be made
  (`connmgr.go:113`) or a dialled connection ends.
* QUIC: a connection that the gater or the resource manager refuses stays open
  (`quic/listener.go:91`); one given to the channel of a version that is being removed is
  stranded with its scope; listening twice for one version and UDP address panics in
  `AcceptForVersion`, and so does closing a virtual listener twice; `Listen` on a listener
  that is in the table and has failed succeeds.
* WebTransport: `Close` of a connection does not end its scope (`conn.go:67`,
  `core/network/rcmgr.go:87`); no session is closed with the listener (`listener.go:212-218`):
  those in the queue keep their scopes, and connections it accepted go on being served
  (`:76`); a failed HTTP
  request leaves the QUIC connection open; sessions that are dropped stay in
  `transport.conns`, where two sessions of one QUIC connection share an entry;
  `hasCertManager` is set even when `newCertManager` fails, and a transport that is closed
  before its first `Listen` has no certificate manager for a later one, whose first connection
  panics (`transport.go:313-315`).
* Construction: errors of the options of AutoRelay and of the key or peerstore of the
  AutoNAT dialer return without closing the host, which keeps listening
  (`config/config.go`, `NewNode`); before there is a host, an error leaves the peerstore, the
  resource manager and the connection manager open, and an error of hole punching's options
  leaves the observed-address manager of identify running; the sockets of QUIC
  (`quicreuse.ConnManager`) and the AutoNAT dialer with its peerstore are never closed.
  `LeavesNothing` states exactly what is left.  `libp2p.New(libp2p.Defaults)` always
  fails, since `Defaults` applies both `DefaultTransports` and `DefaultPrivateTransports`
  and TCP is registered twice, although `defaults.go` offers it for combination with other
  options.  Whether `DisableMetrics` and `PrometheusRegisterer` exclude each other depends
  on their order.
* Circuit client: `Close` removes the tag of the relay on every call, so that closing a
  connection twice leaves another one untagged (`conn.go:53`, `:118`; `HopTagged` in
  `CircuitClient` is refuted).
* Mock network: when the other side has closed its reading, `CloseWrite` returns no error
  although what was buffered is lost: the write to the pipe fails with the reader's
  `ErrClosed`, which `CloseWrite` takes for its own (`mock_stream.go:117`);
  hence the condition in `StreamDelivers`.  `DialPeer` returns a connection that is being
  closed, and `NewStream` on a closed connection succeeds, with a stream that nobody resets
  (`late` in `ConnsPaired`).
* Swarm addresses: `nonProxyAddr` uses a transport that `Close` may have removed since the
  addresses were filtered, and panics on nil (`swarm_dial.go:429-432`, the comment at `:434`);
  so does `resolveAddrs` on an answer of the resolver that names no peer (`:399-403`).  `Swarm.Close` leaves
  the cache of listen addresses valid (`swarm.go:217-220`).  `AddressesSound` says when each of
  these happens.
* Memory limits: under a limit of `MaxInt64` the sum is not checked (`scope.go:111-114`), so the
  counter can wrap; `DecidesExactly` exempts that limit.

## 7. What is abstracted or not modelled

* Data: contents of messages, multiaddresses, certificates, keys and formats.
* Swarm: the retry loop of `Swarm.NewStream`.  Dialing is modelled for one peer, since
  dials of two peers meet only in the limiter.
* Resource manager: `View*`, sticky scopes, metrics.  In `ResourceManager` the allowlist's
  answer is an input; the list itself is in `Limits`.
* Datastore peerstore: operations are atomic, one peer; what two callers do to one record
  is described in section 6.
* Basic host: `Connect` and the order in which `Close` ends the parts.
* Construction: of the transports TCP and QUIC, which stand for WebSocket and WebTransport;
  a nil resource manager and `NewBlankHost`.
* QUIC: sockets that are not reused (`noreuseConn`), which is not the default; errors of
  parsing the address that the socket itself gave.
* Noise: errors of reading, writing and of decryption, which end the session for all its users.
* WebTransport: errors of `newCertManager` when certificates are rolled over, which are retried at
  once and so are a part of the lateness; the unlocked read of `SerializedCertHashes` during a change of certificates.
* Hole punching and QUIC: durations, so that whether two dials meet is a choice.
* Noise: cryptography is symbolic; a key is the pair that agreed on it.
* Identify: protocol lists, public keys, setup and `Close`, the limit on concurrent pushes.
* Address book: one peer, since segments and peers are independent.
* Relay finder: durations; any delay may be over at any moment.
* Event bus: unbuffered channels.
* TLS, insecure and private networks, muxers, TCP and WebSocket, port reuse: adapters of
  libraries and of sockets without state that goroutines share.
* Routed and blank hosts, mDNS and routing discovery, ping: thin wrappers of parts that are
  modelled.
* Mock network: addresses, keys, the queries and the printer; `io.Pipe` is external.
* Test helpers, examples, generated code.

## 8. Plan

Done, in this order: limiter, dialing, resource manager, swarm, connection manager, tables,
relaying, identify, address book, event bus; then the host's services and addresses, the
peerstores, discovery, and what a connection passes through (gater, upgrader, Noise,
QUIC, WebTransport, circuits), the limiter as an implementation of `DialPool`, and how a
node is put together, and the mock network.  Proved: limiter and its refinement, limits and
references of the resource manager, backoff, dialing, swarm, connection manager, relay and
its client, gater, upgrader, hole punching, WebTransport sessions and certificates, the
host's streams, addresses and port mappings and its relay manager.

Theorems worth proving next, on invariants that the runs check: `ConnsPaired` of `MockNet`,
`ReachabilityReported` of `AutoNAT`, `QuicShared`.

Abstract specifications still worth stating: a connection's life as seen by a notifiee
(refined by `Swarm`), a resource pool with atomic reservations (refined by
`ResourceManager` when no call is under way), a topic with ordered delivery (refined by
`EventBus`).
