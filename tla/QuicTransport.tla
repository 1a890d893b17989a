--------------------------- MODULE QuicTransport ---------------------------
(***************************************************************************)
(* QUIC: the sockets and listeners that all QUIC connections share, and    *)
(* the transport over them.                                                *)
(***************************************************************************)
EXTENDS Naturals, Integers, Sequences, FiniteSets

----------------------------------------------------------------------------
(***************************************************************************)
(* Shared sockets.  The QUIC connection manager (p2p/transport/quicreuse): *)
(* UDP sockets with a reference count and a collector, one QUIC listener   *)
(* per socket whose connections are shared out by ALPN protocol, and dials *)
(* that borrow a socket.  The caller stops listening and dialing before    *)
(* Close.                                                                  *)
(***************************************************************************)

CONSTANTS
  Global, Unicast,   \* local addresses: unspecified ones and those of one IP
  Protos,            \* ALPN protocols
  Lsn, Hands, Dials, \* bounds of the model: listeners, incoming connections, dials
  QueueLen,          \* queueLen
  MaxUnused,         \* maxUnusedDuration, in ticks
  MaxNow             \* bound of the model: the clock

VARIABLES
  udp,     \* [Addr -> [at, ref, unused]]: the socket of an address, in the tables while "open"
  qln,     \* [Addr -> [open, run, protocols]]: its connListener; run: "accept", "ended", "gave up"
  conns,   \* [Addr -> Nat]: refCount of ConnManager.conns, 0 when there is no entry
  connsMu, \* the listener that waits in ln.Close with connsMu held
  lst,     \* [Lsn -> [at, addr, protos, queue]]
  hand,    \* [Hands -> [at, addr, proto]]: what became of an incoming connection
  qdial,   \* [Dials -> [at, addr]]
  mgr,     \* "open", "closed"
  qnow

reuseVars == <<udp, qln, conns, connsMu, lst, hand, qdial, mgr, qnow>>

Addr == Global \cup Unicast
NoTime == -1
None == "none"
NoLn == [open |-> FALSE, run |-> None, protocols |-> [p \in Protos |-> None]]
NoLst == [at |-> None, addr |-> None, protos |-> {}, queue |-> {}]
Over(how) == [at |-> how, addr |-> None, proto |-> None]

ReuseInit ==
  /\ udp = [a \in Addr |-> [at |-> None, ref |-> 0, unused |-> NoTime]] /\ qln = [a \in Addr |-> NoLn]
  /\ conns = [a \in Addr |-> 0] /\ connsMu = None
  /\ lst = [l \in Lsn |-> NoLst] /\ hand = [h \in Hands |-> Over(None)]
  /\ qdial = [d \in Dials |-> [at |-> None, addr |-> None]] /\ mgr = "open" /\ qnow = 0

IncreaseKeepsUnused(s) == [s EXCEPT !.ref = @ + 1]

\* reuseConn.IncreaseCount and DecreaseCount.
IncreaseCount(s) == [s EXCEPT !.ref = @ + 1, !.unused = NoTime]
DecreaseCount(s) == [s EXCEPT !.ref = @ - 1, !.unused = IF s.ref = 1 THEN qnow ELSE @]

Fresh == [at |-> "open", ref |-> 0, unused |-> NoTime]

----------------------------------------------------------------------------
(* reuse: the collector, Dial                                              *)

ShouldGarbageCollect(s) == s.unused # NoTime /\ s.unused + MaxUnused < qnow

\* A tick of gc: every socket unused for long enough is closed and leaves the tables.
GC ==
  /\ mgr = "open" /\ \E a \in Addr : udp[a].at = "open" /\ ShouldGarbageCollect(udp[a])
  /\ udp' = [a \in Addr |-> IF udp[a].at = "open" /\ ShouldGarbageCollect(udp[a])
                            THEN [udp[a] EXCEPT !.at = "closed"] ELSE udp[a]]
  /\ UNCHANGED <<qln, conns, connsMu, lst, hand, qdial, mgr, qnow>>

\* dialLocked: a socket of the source address of the route, one of an unspecified address, or a
\* new one.
DialLocked(source) ==
  LET open(S) == {a \in S : udp[a].at = "open"} IN
  IF source /\ open(Unicast) # {} THEN open(Unicast)
  ELSE IF open(Global) # {} THEN open(Global) ELSE Global

\* ReuseDial: the reference is counted under the mutex of the tables.
ReuseDial(d) ==
  /\ qdial[d].at = None /\ mgr = "open"
  /\ \E source \in BOOLEAN : \E a \in DialLocked(source) :
       /\ udp' = [udp EXCEPT ![a] = IncreaseCount(IF @.at = "open" THEN @ ELSE Fresh)]
       /\ qdial' = [qdial EXCEPT ![d] = [at |-> "dialing", addr |-> a]]
  /\ UNCHANGED <<qln, conns, connsMu, lst, hand, mgr, qnow>>

\* DialQUIC: a handshake that fails gives the reference back; a connection keeps it for good.
DialDone(d, fails) ==
  /\ qdial[d].at = "dialing"
  /\ qdial' = [qdial EXCEPT ![d] = IF fails THEN [at |-> None, addr |-> None] ELSE [@ EXCEPT !.at = "conn"]]
  /\ udp' = IF fails THEN [udp EXCEPT ![qdial[d].addr] = DecreaseCount(@)] ELSE udp
  /\ UNCHANGED <<qln, conns, connsMu, lst, hand, mgr, qnow>>

----------------------------------------------------------------------------
(* ConnManager.ListenQUIC                                                  *)

\* connListener.Add for the protocols ps.
Added(l, a, ps) ==
  /\ lst' = [lst EXCEPT ![l] = [at |-> "open", addr |-> a, protos |-> ps, queue |-> {}]]
  /\ conns' = [conns EXCEPT ![a] = @ + 1]

\* An address that already has a connListener: refused when a protocol is taken or none given.
ListenShared(l, a, ps) ==
  /\ conns[a] > 0 /\ ps # {} /\ \A p \in ps : qln[a].protocols[p] = None
  /\ Added(l, a, ps)
  /\ qln' = [qln EXCEPT ![a].protocols = [p \in Protos |-> IF p \in ps THEN l ELSE @[p]]]
  /\ UNCHANGED udp

\* A new socket; its connListener starts Run.
ListenNew(l, a, ps) ==
  /\ conns[a] = 0 /\ udp[a].at # "open" /\ ps # {}
  /\ udp' = [udp EXCEPT ![a] = IncreaseCount(Fresh)]
  /\ qln' = [qln EXCEPT ![a] = [open |-> TRUE, run |-> "accept",
                                protocols |-> [p \in Protos |-> IF p \in ps THEN l ELSE None]]]
  /\ Added(l, a, ps)

\* The QUIC listener cannot be made, and the socket keeps its reference; or no protocol is given
\* and the new connListener is closed again, which gives it back.
ListenFails(a, noProtos) ==
  /\ conns[a] = 0 /\ udp[a].at # "open"
  /\ udp' = [udp EXCEPT ![a] = IF noProtos THEN DecreaseCount(IncreaseCount(Fresh)) ELSE IncreaseCount(Fresh)]
  /\ UNCHANGED <<qln, conns, lst>>

ListenQUIC(l, a) ==
  /\ mgr = "open" /\ connsMu = None /\ lst[l].at = None
  /\ \/ \E ps \in SUBSET Protos : ListenShared(l, a, ps) \/ ListenNew(l, a, ps)
     \/ \E noProtos \in BOOLEAN : ListenFails(a, noProtos)
  /\ UNCHANGED <<connsMu, hand, qdial, mgr, qnow>>

----------------------------------------------------------------------------
(* connListener.Run and the listeners of one protocol set                  *)

\* GetConfigForClient finds the protocol registered when the ClientHello arrives.
Hello(h, a, p) ==
  /\ hand[h].at = None /\ qln[a].open /\ udp[a].at = "open" /\ qln[a].protocols[p] # None
  /\ hand' = [hand EXCEPT ![h] = [at |-> "ready", addr |-> a, proto |-> p]]
  /\ UNCHANGED <<udp, qln, conns, connsMu, lst, qdial, mgr, qnow>>

\* Run takes a connection and hands it to the listener of its protocol: queued, or closed when the
\* queue is full.  A protocol that is not registered any more ends the loop.
Run(a, h) ==
  /\ qln[a].run = "accept" /\ hand[h].at = "ready" /\ hand[h].addr = a
  /\ LET l == qln[a].protocols[hand[h].proto] IN
     IF l = None
     THEN /\ qln' = [qln EXCEPT ![a].run = "gave up"] /\ udp' = [udp EXCEPT ![a] = DecreaseCount(@)]
          /\ hand' = [hand EXCEPT ![h] = Over("forgotten")] /\ UNCHANGED lst
     ELSE /\ UNCHANGED <<qln, udp>>
          /\ IF Cardinality(lst[l].queue) < QueueLen
             THEN hand' = [hand EXCEPT ![h] = Over("queued")] /\ lst' = [lst EXCEPT ![l].queue = @ \cup {h}]
             ELSE hand' = [hand EXCEPT ![h] = Over("closed")] /\ UNCHANGED lst
  /\ UNCHANGED <<conns, connsMu, qdial, mgr, qnow>>

\* The quic.Listener or its socket was closed.
ListenerRunEnds(a) ==
  /\ qln[a].run = "accept" /\ (~qln[a].open \/ udp[a].at = "closed")
  /\ qln' = [qln EXCEPT ![a].run = "ended"] /\ udp' = [udp EXCEPT ![a] = DecreaseCount(@)]
  /\ UNCHANGED <<conns, connsMu, lst, hand, qdial, mgr, qnow>>

Accept(l, h) ==
  /\ h \in lst[l].queue /\ lst[l].at # "closed"
  /\ lst' = [lst EXCEPT ![l].queue = @ \ {h}] /\ hand' = [hand EXCEPT ![h] = Over("accepted")]
  /\ UNCHANGED <<udp, qln, conns, connsMu, qdial, mgr, qnow>>

\* listener.Close: its protocols go first,
Remove(l) ==
  /\ lst[l].at = "open" /\ lst' = [lst EXCEPT ![l].at = "removed"]
  /\ qln' = [qln EXCEPT ![lst[l].addr].protocols = [p \in Protos |-> IF p \in lst[l].protos THEN None ELSE @[p]]]
  /\ UNCHANGED <<udp, conns, connsMu, hand, qdial, mgr, qnow>>

\* then onListenerClosed: the last one closes the quic.Listener and waits for Run,
OnListenerClosed(l) ==
  /\ lst[l].at = "removed" /\ connsMu = None
  /\ LET a == lst[l].addr IN
     /\ conns' = [conns EXCEPT ![a] = @ - 1]
     /\ IF conns[a] = 1
        THEN /\ connsMu' = l /\ qln' = [qln EXCEPT ![a].open = FALSE]
             /\ lst' = [lst EXCEPT ![l].at = "waiting"]
        ELSE lst' = [lst EXCEPT ![l].at = "draining"] /\ UNCHANGED <<connsMu, qln>>
  /\ UNCHANGED <<udp, hand, qdial, mgr, qnow>>

RunWaited(l) ==
  /\ lst[l].at = "waiting" /\ qln[lst[l].addr].run # "accept"
  /\ connsMu' = None /\ lst' = [lst EXCEPT ![l].at = "draining"]
  /\ UNCHANGED <<udp, qln, conns, hand, qdial, mgr, qnow>>

\* and the queue is closed and drained.
Drain(l) ==
  /\ lst[l].at = "draining" /\ lst' = [lst EXCEPT ![l] = [NoLst EXCEPT !.at = "closed"]]
  /\ hand' = [h \in Hands |-> IF h \in lst[l].queue THEN Over("closed") ELSE hand[h]]
  /\ UNCHANGED <<udp, qln, conns, connsMu, qdial, mgr, qnow>>

\* ConnManager.Close: the collector closes every socket as it ends.
Close ==
  /\ mgr = "open" /\ mgr' = "closed"
  /\ udp' = [a \in Addr |-> IF udp[a].at = "open" THEN [udp[a] EXCEPT !.at = "closed"] ELSE udp[a]]
  /\ UNCHANGED <<qln, conns, connsMu, lst, hand, qdial, qnow>>

Tick == /\ qnow < MaxNow /\ qnow' = qnow + 1 /\ UNCHANGED <<udp, qln, conns, connsMu, lst, hand, qdial, mgr>>

ReuseNext ==
  \/ GC \/ Close \/ Tick
  \/ \E d \in Dials : ReuseDial(d) \/ DialDone(d, TRUE) \/ DialDone(d, FALSE)
  \/ \E l \in Lsn : \/ \E a \in Addr : ListenQUIC(l, a)
                    \/ Remove(l) \/ OnListenerClosed(l) \/ RunWaited(l) \/ Drain(l)
                    \/ \E h \in Hands : Accept(l, h)
  \/ \E a \in Addr : \/ ListenerRunEnds(a)
                     \/ \E h \in Hands : Run(a, h) \/ (\E p \in Protos : Hello(h, a, p))

----------------------------------------------------------------------------
\* Who relies on the socket: an accept loop, a dial or its connection, or a listener that was not
\* left behind by an accept loop that gave up.
InUse(a) ==
  \/ qln[a].run = "accept"
  \/ \E d \in Dials : qdial[d].at \in {"dialing", "conn"} /\ qdial[d].addr = a
  \/ \E l \in Lsn : lst[l].at = "open" /\ lst[l].addr = a /\ qln[a].run # "gave up"

\* A socket that a listener, an accept loop, a dial or a dialled connection uses is open for as long
\* as the manager is, whenever the collector ran, but for that of a listener whose accept loop has given
\* up: Run ends for all protocols of the address at a connection for one that was removed
\* meanwhile (quicreuse/listener.go:143) and gives the count back, and ListenQUIC still adds listeners
\* there.  conns counts the listeners of an address that have not been given back; and no
\* connection is put in the queue of a listener that has already drained it.
SocketsInUse ==
  /\ \A a \in Addr :
       /\ mgr # "closed" /\ InUse(a) => udp[a].at = "open"
       /\ conns[a] = Cardinality({l \in Lsn : lst[l].at \in {"open", "removed"} /\ lst[l].addr = a})
  /\ \A h \in Hands : hand[h].at = "queued" => \E l \in Lsn : h \in lst[l].queue /\ lst[l].at # "closed"

----------------------------------------------------------------------------
(***************************************************************************)
(* The transport.  The QUIC transport (p2p/transport/quic): dials, the     *)
(* virtual listeners that share the QUIC listener of one UDP address, each *)
(* for a version, and hole punches that wait for the peer's connection to  *)
(* come in.  One underlying listener is followed from the first Listen to  *)
(* its Close: a later Listen makes another, with a runner of its own.      *)
(***************************************************************************)

CONSTANTS
  Versions,                \* QUIC versions
  VLs,                     \* bound of the model: virtual listeners
  QConns,                  \* bound of the model: connections, incoming or dialled
  Punches,                 \* bound of the model: calls of holePunch, all for one peer and address
  AcceptBufferPerVersion

VARIABLES
  vl,        \* [VLs -> [at, version, acceptor, hand]]: a virtual listener and its caller of Accept
  muxer,     \* [Versions -> the virtual listener whose channel is in the muxer]
  muxerClosed,
  vchan,     \* [VLs -> [vals, closed]]: acceptChan
  sem,       \* the virtual listener whose acceptor holds acceptSem
  muxerMu,   \* the virtual listener whose Close waits for room with muxerMu held
  under,     \* the underlying listener: "none", "open", "failed" while it is listed, "closed"
  qc,        \* [QConns -> [at, version, peer, scope, mapped]], peer: of the holePunchKey
  holePunching, \* the entry of the key: who waits, what it was given
  punch      \* [Punches -> "none", "punching", "failing", "received", "returned", "failed"]

Err == "error"
NoVersion == None
NoPunch == [by |-> None, conn |-> None, fulfilled |-> FALSE]
NoConn == [at |-> None, version |-> NoVersion, peer |-> FALSE, scope |-> None, mapped |-> FALSE]

TransportInit ==
  /\ vl = [l \in VLs |-> [at |-> None, version |-> NoVersion, acceptor |-> None, hand |-> None]]
  /\ muxer = [v \in Versions |-> None] /\ muxerClosed = FALSE
  /\ vchan = [l \in VLs |-> [vals |-> <<>>, closed |-> FALSE]] /\ sem = None /\ muxerMu = None
  /\ under = None /\ qc = [c \in QConns |-> NoConn] /\ holePunching = NoPunch
  /\ punch = [h \in Punches |-> None]

\* closeWithError: removeConn and the end of the scope.
Closed(c, how) ==
  [qc EXCEPT ![c] = [@ EXCEPT !.at = how, !.scope = IF @ = None THEN None ELSE "done", !.mapped = FALSE]]

UNCHANGED_LISTENERS == UNCHANGED <<vl, muxer, muxerClosed, vchan, sem, muxerMu, under>>
UNCHANGED_PUNCH == UNCHANGED <<holePunching, punch>>

----------------------------------------------------------------------------
(* Dial and the connections                                                *)

\* Dial: OpenConnection of the resource manager may refuse.
Dial(c) ==
  /\ qc[c].at = None
  /\ \/ qc' = [qc EXCEPT ![c].at = "refused"]
     \/ qc' = [qc EXCEPT ![c].at = "dialing", ![c].scope = "open"]
  /\ UNCHANGED_LISTENERS /\ UNCHANGED_PUNCH

\* dialWithScope: SetPeer, DialQUIC, the key, the address or the gater fails; or addConn.
DialWithScope(c) ==
  /\ qc[c].at = "dialing"
  /\ qc' = Closed(c, "failed") \/ qc' = [qc EXCEPT ![c].at = "dialled", ![c].mapped = TRUE]
  /\ UNCHANGED_LISTENERS /\ UNCHANGED_PUNCH

CloseConn(c) ==
  /\ qc[c].at \in {"dialled", "accepted", "punched"} /\ qc' = Closed(c, "closed")
  /\ UNCHANGED_LISTENERS /\ UNCHANGED_PUNCH

----------------------------------------------------------------------------
(* Virtual listeners                                                       *)

Listed == {l \in VLs : vl[l].at \in {"open", "removed"}}

\* Listen: an underlying listener that is listed is shared, also one whose accept loop has ended;
\* for the first it is made, which may fail.  A version in the muxer would panic.
Listen(l, v) ==
  /\ vl[l].at = None /\ muxerMu = None /\ muxer[v] = None
  /\ \/ under = None /\ under' = "open"
     \/ Listed # {} /\ UNCHANGED under
  /\ vl' = [vl EXCEPT ![l] = [at |-> "open", version |-> v, acceptor |-> "select", hand |-> None]]
  /\ muxer' = [muxer EXCEPT ![v] = l]
  /\ UNCHANGED <<muxerClosed, vchan, sem, muxerMu, qc>> /\ UNCHANGED_PUNCH

\* A connection of the peer that is being punched to, or of another.
Incoming(c, v, peer) ==
  /\ under = "open" /\ qc[c].at = None
  /\ qc' = [qc EXCEPT ![c].at = "incoming", ![c].version = v, ![c].peer = peer]
  /\ UNCHANGED_LISTENERS /\ UNCHANGED_PUNCH

\* The loop that accepts for all protocols of the socket ends, and with it this listener.
RunEnds ==
  /\ under = "open" /\ under' = "failed"
  /\ UNCHANGED <<vl, muxer, muxerClosed, vchan, sem, muxerMu, qc>> /\ UNCHANGED_PUNCH

\* A value received from the channel of l ends its Accept.
FromChan(l) ==
  LET val == Head(vchan[l].vals) IN
  IF vchan[l].vals = <<>>
  THEN /\ vchan[l].closed /\ vl' = [vl EXCEPT ![l].acceptor = "ended"] /\ UNCHANGED <<vchan, qc>>
  ELSE /\ vchan' = [vchan EXCEPT ![l].vals = Tail(@)]
       /\ IF val = Err
          THEN vl' = [vl EXCEPT ![l].acceptor = "ended"] /\ UNCHANGED qc
          ELSE vl' = [vl EXCEPT ![l].acceptor = "select"] /\ qc' = [qc EXCEPT ![val].at = "accepted"]

\* Accept: the semaphore or a buffered value, whichever comes.
AcceptSelect(l) ==
  /\ vl[l].acceptor = "select"
  /\ \/ sem = None /\ sem' = l /\ vl' = [vl EXCEPT ![l].acceptor = "inner"] /\ UNCHANGED <<vchan, qc>>
     \/ FromChan(l) /\ UNCHANGED sem
  /\ UNCHANGED <<muxer, muxerClosed, muxerMu, under>> /\ UNCHANGED_PUNCH

\* innerAccept looks at the buffer first.
InnerAccept(l) ==
  /\ vl[l].acceptor = "inner"
  /\ IF vchan[l].vals = <<>> /\ ~vchan[l].closed
     THEN vl' = [vl EXCEPT ![l].acceptor = "accept"] /\ UNCHANGED <<sem, vchan, qc>>
     ELSE FromChan(l) /\ sem' = None
  /\ UNCHANGED <<muxer, muxerClosed, muxerMu, under>> /\ UNCHANGED_PUNCH

\* listener.Accept: setupConn may be refused a scope, when the QUIC connection is left open, or
\* fail once it has one; the gater may refuse the connection after addConn.
ListenerAccept(l, c) ==
  /\ vl[l].acceptor = "accept" /\ qc[c].at = "incoming"
  /\ \/ /\ \E how \in {"unscoped", "gated"} :
             qc' = [qc EXCEPT ![c].at = how, ![c].scope = IF how = "unscoped" THEN None ELSE "done"]
        /\ UNCHANGED vl
     \/ /\ qc' = [qc EXCEPT ![c].at = "setup", ![c].scope = "open", ![c].mapped = TRUE]
        /\ vl' = [vl EXCEPT ![l].acceptor = "punch", ![l].hand = c]
  /\ UNCHANGED <<muxer, muxerClosed, vchan, sem, muxerMu, under>> /\ UNCHANGED_PUNCH

\* An active hole punch of the connection's peer that has not been fulfilled gets it.
GiveToPunch(l) ==
  /\ vl[l].acceptor = "punch"
  /\ LET c == vl[l].hand
         active == qc[c].peer /\ holePunching.by # None /\ ~holePunching.fulfilled IN
     \/ /\ active /\ holePunching' = [holePunching EXCEPT !.conn = c, !.fulfilled = TRUE]
        /\ qc' = [qc EXCEPT ![c].at = "given"]
        /\ vl' = [vl EXCEPT ![l].acceptor = "accept", ![l].hand = None]
     \/ /\ ~active
        /\ vl' = [vl EXCEPT ![l].acceptor = "route"] /\ UNCHANGED <<holePunching, qc>>
  /\ UNCHANGED <<muxer, muxerClosed, vchan, sem, muxerMu, under, punch>>

\* innerAccept returns, with or without a connection, and Accept releases the semaphore.
InnerReturns(l) == sem' = None /\ vl' = [vl EXCEPT ![l].acceptor = "select", ![l].hand = None]

\* The connection is for this version, or its version's channel is looked up.
Route(l) ==
  /\ vl[l].acceptor = "route"
  /\ LET c == vl[l].hand
         w == qc[c].version IN
     \/ w = vl[l].version /\ qc' = [qc EXCEPT ![c].at = "accepted"] /\ InnerReturns(l)
     \/ /\ w # vl[l].version /\ muxerMu = None /\ muxer[w] = None
        /\ qc' = Closed(c, "closed") /\ InnerReturns(l)
     \/ /\ w # vl[l].version /\ muxerMu = None /\ muxer[w] # None
        /\ vl' = [vl EXCEPT ![l].acceptor = muxer[w]] /\ UNCHANGED <<sem, qc>>
  /\ UNCHANGED <<muxer, muxerClosed, vchan, muxerMu, under>> /\ UNCHANGED_PUNCH

\* The send on the channel that was looked up does not block: a full one drops the connection.
SendVal(l) ==
  /\ vl[l].acceptor \in VLs /\ InnerReturns(l)
  /\ LET c == vl[l].hand
         to == vl[l].acceptor IN
     IF Len(vchan[to].vals) < AcceptBufferPerVersion
     THEN vchan' = [vchan EXCEPT ![to].vals = Append(@, c)] /\ qc' = [qc EXCEPT ![c].at = "buffered"]
     ELSE qc' = Closed(c, "closed") /\ UNCHANGED vchan
  /\ UNCHANGED <<muxer, muxerClosed, muxerMu, under>> /\ UNCHANGED_PUNCH

\* The underlying listener's error: sendErrAndClose tells every listener in the muxer.
AcceptFails(l) ==
  /\ vl[l].acceptor = "accept" /\ under \in {"failed", "closed"} /\ muxerMu = None
  /\ vchan' = [k \in VLs |->
       IF \A v \in Versions : muxer[v] # k THEN vchan[k]
       ELSE [vals |-> IF Len(vchan[k].vals) < AcceptBufferPerVersion THEN Append(vchan[k].vals, Err)
                      ELSE vchan[k].vals, closed |-> TRUE]]
  /\ muxer' = [v \in Versions |-> None] /\ muxerClosed' = TRUE
  /\ sem' = None /\ vl' = [vl EXCEPT ![l].acceptor = "ended"]
  /\ UNCHANGED <<muxerMu, under, qc>> /\ UNCHANGED_PUNCH

\* Close, RmAcceptForVersion: the error is sent with muxerMu held, for as long as the channel is
\* full; nothing is removed once the muxer is closed.
RmAcceptForVersion(l) ==
  /\ vl[l].at = "open" /\ muxerMu \in {None, l}
  /\ IF muxerClosed THEN vl' = [vl EXCEPT ![l].at = "removed"] /\ UNCHANGED <<muxer, vchan, muxerMu>>
     ELSE IF Len(vchan[l].vals) = AcceptBufferPerVersion
     THEN muxerMu # l /\ muxerMu' = l /\ UNCHANGED <<vl, muxer, vchan>>
     ELSE /\ vchan' = [vchan EXCEPT ![l].vals = Append(@, Err)]
          /\ muxer' = [muxer EXCEPT ![vl[l].version] = None]
          /\ muxerMu' = None /\ vl' = [vl EXCEPT ![l].at = "removed"]
  /\ UNCHANGED <<muxerClosed, sem, under, qc>> /\ UNCHANGED_PUNCH

\* CloseVirtualListener: the last one closes the underlying listener, and its queue with it.
CloseVirtualListener(l) ==
  /\ vl[l].at = "removed" /\ vl' = [vl EXCEPT ![l].at = "closed"]
  /\ IF Listed # {l} THEN UNCHANGED <<under, qc>>
     ELSE /\ under' = "closed"
          /\ qc' = [c \in QConns |-> IF qc[c].at = "incoming" THEN [qc[c] EXCEPT !.at = "drained"] ELSE qc[c]]
  /\ UNCHANGED <<muxer, muxerClosed, vchan, sem, muxerMu>> /\ UNCHANGED_PUNCH

----------------------------------------------------------------------------
(* holePunch                                                               *)

\* The address or the socket fails, or a second punch for the same key is refused.
HolePunch(h) ==
  /\ punch[h] = None
  /\ \/ punch' = [punch EXCEPT ![h] = "failed"] /\ UNCHANGED holePunching
     \/ /\ holePunching.by = None /\ holePunching' = [NoPunch EXCEPT !.by = h]
        /\ punch' = [punch EXCEPT ![h] = "punching"]
  /\ UNCHANGED qc /\ UNCHANGED_LISTENERS

\* The loop receives the connection, or the context or a write ends it.
PunchLoop(h) ==
  /\ punch[h] = "punching"
  /\ \/ /\ holePunching.conn # None
        /\ qc' = [qc EXCEPT ![holePunching.conn].at = "punched"]
        /\ punch' = [punch EXCEPT ![h] = "received"] /\ holePunching' = [holePunching EXCEPT !.conn = None]
     \/ punch' = [punch EXCEPT ![h] = "failing"] /\ UNCHANGED <<holePunching, qc>>
  /\ UNCHANGED_LISTENERS

\* The entry is deleted; a punch that failed looks into its channel once more under the lock.
PunchEnds(h) ==
  /\ punch[h] \in {"received", "failing"} /\ holePunching' = NoPunch
  /\ LET late == punch[h] = "failing" /\ holePunching.conn # None IN
     /\ punch' = [punch EXCEPT ![h] = IF late \/ @ = "received" THEN "returned" ELSE "failed"]
     /\ qc' = IF late THEN [qc EXCEPT ![holePunching.conn].at = "punched"] ELSE qc
  /\ UNCHANGED_LISTENERS

TransportNext ==
  \/ \E c \in QConns : \/ Dial(c) \/ DialWithScope(c) \/ CloseConn(c)
                       \/ \E v \in Versions, peer \in BOOLEAN : Incoming(c, v, peer)
                       \/ \E l \in VLs : ListenerAccept(l, c)
  \/ \E l \in VLs : \/ \E v \in Versions : Listen(l, v)
                    \/ AcceptSelect(l) \/ InnerAccept(l) \/ GiveToPunch(l) \/ Route(l)
                    \/ SendVal(l) \/ AcceptFails(l) \/ RmAcceptForVersion(l) \/ CloseVirtualListener(l)
  \/ RunEnds
  \/ \E h \in Punches : HolePunch(h) \/ PunchLoop(h) \/ PunchEnds(h)

----------------------------------------------------------------------------
\* A connection goes to exactly one taker and its scope ends exactly when it is refused or closed:
\* one given to a hole punch is in the channel of a punch that will still return it; one that is
\* buffered is in one channel, of a listener of its version.  And the Close that waits for room
\* never waits for the acceptor that may itself wait for muxerMu, nor for one that has ended.
ConnsTakenOnce ==
  /\ \A c \in QConns :
       LET holding == {l \in VLs : \E i \in DOMAIN vchan[l].vals : vchan[l].vals[i] = c} IN
       /\ (qc[c].scope = "open") <=>
            qc[c].at \in {"dialing", "dialled", "setup", "given", "buffered", "accepted", "punched"}
       /\ qc[c].mapped => qc[c].scope = "open"
       /\ qc[c].at = "given" =>
            /\ holePunching.conn = c
            /\ \E h \in Punches : holePunching.by = h /\ punch[h] \in {"punching", "failing"}
       /\ qc[c].at = "buffered" => \E l \in VLs : holding = {l} /\ vl[l].version = qc[c].version
       /\ qc[c].at # "buffered" => holding = {}
  /\ muxerMu # None /\ Len(vchan[muxerMu].vals) = AcceptBufferPerVersion
       => (sem # muxerMu \/ vl[muxerMu].acceptor = "inner") /\ vl[muxerMu].acceptor # "ended"
============================================================================
