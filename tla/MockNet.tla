------------------------------ MODULE MockNet ------------------------------
(***************************************************************************)
(* The network in memory that the tests of all services run on             *)
(* (p2p/net/mock): links between peers, connections made over them with an *)
(* end at either peer, notifications, streams whose ends have a transport  *)
(* goroutine each, and the rate limiter of a link.  The three parts are    *)
(* state machines of their own: the tables of connections and streams, one *)
(* pair of streams, one rate limiter.                                      *)
(*                                                                         *)
(* Left out: addresses, keys and identifiers, and the constructor's panic  *)
(* for a peer without an address (mock_conn.go:57).                        *)
(***************************************************************************)
EXTENDS Integers, Sequences, FiniteSetsExt

CONSTANTS
  NetPeers, MockLinks, Pairs,     \* peers, links and connections, each a pair of ends
  DialCalls, CloseCalls,          \* calls of DialPeer; of ClosePeer and the two Close
  MockStreams,                    \* pairs of streams
  Notifiees,
  EndCalls,                       \* bound of the model: calls that end a stream, at each side
  MsgSizes, MaxWritten,           \* sizes of messages; bound of the model: bytes written at each side
  BufSize,                        \* bufsize of the transport
  Bandwidths, Second,             \* bytes per second; ticks of the rate limiter in a second
  SendSizes, MaxSends, MaxRTime   \* sizes; bounds of the model: calls of Limit, ticks

VARIABLES
  nets,           \* peers on the mocknet
  between,        \* [NetPeers \X NetPeers -> SUBSET MockLinks]: links
  dials,          \* [DialCalls -> [at, from, to, via, got]]
  ends,           \* the ends of connections, see NoEnd
  byPeer, byLink, \* connsByPeer and connsByLink of each peernet
  notifs,         \* [NetPeers -> SUBSET Notifiees]
  steady,         \* history: notifiees registered at every peer from the start and never removed
  heard,          \* [Ends -> [Notifiees -> Seq]]: what a notifiee was told of an end
  streamHandler,  \* [NetPeers -> BOOLEAN]: whether the peernet has one
  strms,          \* [StreamEnds -> [at, on, user, late]]
  closers,        \* [CloseCalls -> [at, nets, conns, cur, seen]]
  panicked,       \* whether removeConn panicked
  tp,             \* [Sides -> where its transport is]
  out, then,      \* [Sides -> what it is writing to the pipe, and what follows]
  buf, msg,       \* [Sides -> bytes]: the buffer, and a message that waits for its time
  timer,          \* [Sides -> BOOLEAN]: set, or fired and not seen
  resetCh, closeCh,   \* [Sides -> BOOLEAN]: whether the channels hold a signal
  overCh, writeErr,   \* [Sides]: whether closed is closed, and the error of Write
  pw, pr,         \* [Sides -> the errors that the pipe it writes to was closed with at its two ends]
  offer,          \* [Sides -> the bytes a Write is waiting to hand over]
  accepted, read, \* [Sides -> bytes]: history, of its Writes and of the other side's Reads
  result,         \* [Sides -> the error of its last Write that was refused]
  enders,         \* [Sides -> [EndCalls -> [op, at]]]
  rtime, bandwidth, allowance, lastUpdate,
  sends           \* history: the data sent at this bandwidth

netVars == <<nets, between, dials, ends, byPeer, byLink, notifs, steady, heard, streamHandler, strms, closers, panicked>>
streamVars == <<tp, out, then, buf, msg, timer, resetCh, closeCh, overCh, writeErr, pw, pr, offer, accepted, read, result, enders>>
rateVars == <<rtime, bandwidth, allowance, lastUpdate, sends>>

None == "none"
Ends == Pairs \X {"dialer", "target"}
StreamEnds == MockStreams \X {"local", "remote"}
NoConn == <<None, None>>
Other(e) == <<e[1], IF e[2] = "dialer" THEN "target" ELSE "dialer">>

\* `lock' says which goroutine has notifLk: that of addConn until Connected was delivered, or that of
\* teardown.  `due' are the notifiees it has yet to tell, after notifyAll took the set.  `once' is
\* the closeOnce; `asked' a goroutine that is about to call Close; `resets' the streams that teardown
\* has yet to reset.
NoEnd == [local |-> None, remote |-> None, link |-> None, lock |-> None, due |-> {}, once |-> None,
          asked |-> FALSE, resets |-> {}]
NoDial == [at |-> "new", from |-> None, to |-> None, via |-> None, got |-> NoConn]
NoClose == [at |-> "new", rounds |-> 0, nets |-> {}, conns |-> {}, cur |-> NoConn, seen |-> {}]
NoStream == [at |-> None, on |-> NoConn, user |-> None, late |-> FALSE]

Listed(e) == {x \in StreamEnds : strms[x].on = e /\ strms[x].at = "listed"}

NetInit ==
  /\ nets = {} /\ between = [pq \in NetPeers \X NetPeers |-> {}]
  /\ dials = [d \in DialCalls |-> NoDial] /\ ends = [e \in Ends |-> NoEnd]
  /\ byPeer = [p \in NetPeers |-> [q \in NetPeers |-> {}]]
  /\ byLink = [p \in NetPeers |-> [l \in MockLinks |-> {}]]
  /\ steady \in {{}, Notifiees} /\ notifs = [p \in NetPeers |-> steady]
  /\ heard = [e \in Ends |-> [n \in Notifiees |-> <<>>]]
  /\ streamHandler = [p \in NetPeers |-> FALSE] /\ strms = [x \in StreamEnds |-> NoStream]
  /\ closers = [k \in CloseCalls |-> NoClose] /\ panicked = FALSE

tableVars == <<byPeer, byLink, panicked>>
userVars == <<nets, between, notifs, steady, streamHandler>>

----------------------------------------------------------------------------
(* Peers and links                                                         *)

\* AddPeerWithPeerstore, which AddPeer and GenPeer end in; a peer is added once.
AddPeer(p) ==
  /\ p \notin nets /\ nets' = nets \cup {p}
  /\ UNCHANGED <<between, notifs, steady, streamHandler, dials, ends, tableVars, heard, strms, closers>>

\* LinkNets, and LinkPeers and LinkAll, which consist of it: a link of a net with itself is one.
LinkNets(l, p, q) ==
  /\ {p, q} \subseteq nets /\ \A pq \in NetPeers \X NetPeers : l \notin between[pq]
  /\ \A e \in Ends : ends[e].link # l
  /\ \A d \in DialCalls : dials[d].via # l
  /\ between' = [between EXCEPT ![<<p, q>>] = @ \cup {l}, ![<<q, p>>] = @ \cup {l}]
  /\ UNCHANGED <<nets, notifs, steady, streamHandler, dials, ends, tableVars, heard, strms, closers>>

\* Unlink; UnlinkPeers does it with each of the links it found.  Connections stay.
Unlink(l) ==
  /\ between' = [pq \in NetPeers \X NetPeers |-> between[pq] \ {l}] /\ between' # between
  /\ UNCHANGED <<nets, notifs, steady, streamHandler, dials, ends, tableVars, heard, strms, closers>>

Notify(p, n) ==
  /\ n \notin notifs[p] /\ notifs' = [notifs EXCEPT ![p] = @ \cup {n}]
  /\ UNCHANGED <<nets, between, steady, streamHandler, dials, ends, tableVars, heard, strms, closers>>

StopNotify(p, n) ==
  /\ n \in notifs[p] /\ notifs' = [notifs EXCEPT ![p] = @ \ {n}] /\ steady' = steady \ {n}
  /\ UNCHANGED <<nets, between, streamHandler, dials, ends, tableVars, heard, strms, closers>>

SetStreamHandler(p) ==
  /\ streamHandler' = [streamHandler EXCEPT ![p] = ~@]
  /\ UNCHANGED <<nets, between, notifs, steady, dials, ends, tableVars, heard, strms, closers>>

----------------------------------------------------------------------------
(* Dialing.  ConnectPeers, ConnectNets and ConnectAllButSelf call DialPeer. *)

\* connect: a connection in the table is returned, also one that is being closed.
DialPeer(d, p, q) ==
  /\ dials[d].at = "new" /\ p \in nets
  /\ \/ p = q /\ dials' = [dials EXCEPT ![d] = [NoDial EXCEPT !.at = "failed", !.from = p, !.to = q]]
     \/ /\ p # q /\ byPeer[p][q] = {}
        /\ dials' = [dials EXCEPT ![d] = [NoDial EXCEPT !.at = "links", !.from = p, !.to = q]]
     \/ /\ p # q /\ \E c \in byPeer[p][q] :
             dials' = [dials EXCEPT ![d] = [NoDial EXCEPT !.at = "returned", !.from = p, !.to = q, !.got = c]]
  /\ UNCHANGED <<userVars, ends, tableVars, heard, strms, closers>>

LinksBetweenPeers(p, q) == between[<<p, q>>]

\* One of the links at random.
ChooseLink(d) ==
  LET ls == LinksBetweenPeers(dials[d].from, dials[d].to) IN
  /\ dials[d].at = "links"
  /\ \/ ls = {} /\ dials' = [dials EXCEPT ![d].at = "failed"]
     \/ \E l \in ls : dials' = [dials EXCEPT ![d].at = "open", ![d].via = l]
  /\ UNCHANGED <<userVars, ends, tableVars, heard, strms, closers>>

newConn(p, q, l) == [NoEnd EXCEPT !.local = p, !.remote = q, !.link = l, !.lock = "addConn", !.once = "open"]
newConnPair(c, p, q, l) == [ends EXCEPT ![<<c, "dialer">>] = newConn(p, q, l), ![<<c, "target">>] = newConn(q, p, l)]

\* openConn: newConnPair, and addConnPair with the locks of both peernets, which takes both notifLk.
OpenConn(d, c) ==
  LET p == dials[d].from
      q == dials[d].to
      l == dials[d].via
      lc == <<c, "dialer">>
      rc == <<c, "target">>
  IN
  /\ dials[d].at = "open" /\ ends[lc] = NoEnd
  /\ ends' = newConnPair(c, p, q, l)
  /\ byPeer' = [byPeer EXCEPT ![p][q] = @ \cup {lc}, ![q][p] = @ \cup {rc}]
  /\ byLink' = [byLink EXCEPT ![p][l] = @ \cup {lc}, ![q][l] = @ \cup {rc}]
  /\ dials' = [dials EXCEPT ![d].at = "adding", ![d].got = lc]
  /\ UNCHANGED <<userVars, panicked, heard, strms, closers>>

\* addConn has released the lock, and DialPeer returns.
DialReturns(d) ==
  /\ dials[d].at = "adding" /\ ends[dials[d].got].lock \notin {"addConn", "connected"}
  /\ dials' = [dials EXCEPT ![d].at = "returned"]
  /\ UNCHANGED <<userVars, ends, tableVars, heard, strms, closers>>

----------------------------------------------------------------------------
(* Notifications.  notifyAll takes the set of notifiees, tells each in a    *)
(* goroutine of its own and waits for all.                                  *)

Announce(e) ==
  /\ ends[e].lock = "addConn"
  /\ ends' = [ends EXCEPT ![e].lock = "connected", ![e].due = notifs[ends[e].local]]
  /\ UNCHANGED <<userVars, dials, tableVars, heard, strms, closers>>

AnnounceEndAtOnce(e) ==
  /\ ends[e].once = "done" /\ ends[e].lock # "disconnected" /\ ends[e].lock # "over"
  /\ ends' = [ends EXCEPT ![e].lock = "disconnected", ![e].due = notifs[ends[e].local]]
  /\ UNCHANGED <<userVars, dials, tableVars, heard, strms, closers>>

\* The goroutine of teardown, once it has notifLk.
AnnounceEnd(e) ==
  /\ ends[e].once = "done" /\ ends[e].lock = None
  /\ ends' = [ends EXCEPT ![e].lock = "disconnected", ![e].due = notifs[ends[e].local]]
  /\ UNCHANGED <<userVars, dials, tableVars, heard, strms, closers>>

Tell(e, n) ==
  /\ n \in ends[e].due /\ ends' = [ends EXCEPT ![e].due = @ \ {n}]
  /\ heard' = [heard EXCEPT ![e][n] = Append(@, ends[e].lock)]
  /\ UNCHANGED <<userVars, dials, tableVars, strms, closers>>

\* All are told: the lock is released.
Announced(e) ==
  /\ ends[e].lock \in {"connected", "disconnected"} /\ ends[e].due = {}
  /\ ends' = [ends EXCEPT ![e].lock = IF @ = "connected" THEN None ELSE "over"]
  /\ UNCHANGED <<userVars, dials, tableVars, heard, strms, closers>>

----------------------------------------------------------------------------
(* Closing                                                                 *)

\* conn.Close by the first caller: the other end is closed by a goroutine, and teardown takes the
\* streams that are there.
BeginClose(e) ==
  ends' = [ends EXCEPT ![e].once = "teardown", ![e].asked = FALSE, ![e].resets = Listed(e), ![Other(e)].asked = TRUE]

Close(e) ==
  /\ ends[e].once = "open" /\ BeginClose(e)
  /\ UNCHANGED <<userVars, dials, tableVars, heard, strms, closers>>

\* The other end's goroutine calls Close, which may have been called.
RemoteClose(e) ==
  /\ ends[e].asked
  /\ IF ends[e].once = "open" THEN BeginClose(e) ELSE ends' = [ends EXCEPT ![e].asked = FALSE]
  /\ UNCHANGED <<userVars, dials, tableVars, heard, strms, closers>>

\* teardown resets a stream, which leaves the list, whether or not its user has ended it meanwhile.
ResetStream(e, x) ==
  /\ x \in ends[e].resets /\ ends' = [ends EXCEPT ![e].resets = @ \ {x}]
  /\ strms' = [strms EXCEPT ![x].at = "ended"]
  /\ UNCHANGED <<userVars, dials, tableVars, heard, closers>>

\* removeConn, and the goroutine that waits for notifLk.
RemoveConn(e) ==
  LET p == ends[e].local
      l == ends[e].link
  IN
  /\ ends[e].once = "teardown" /\ ends[e].resets = {} /\ ends' = [ends EXCEPT ![e].once = "done"]
  /\ IF byLink[p][l] = {} THEN panicked' = TRUE /\ UNCHANGED <<byPeer, byLink>>
     ELSE /\ byLink' = [byLink EXCEPT ![p][l] = @ \ {e}]
          /\ byPeer' = [byPeer EXCEPT ![p][ends[e].remote] = @ \ {e}]
          /\ UNCHANGED panicked
  /\ UNCHANGED <<userVars, dials, heard, strms, closers>>

\* ClosePeer, which DisconnectPeers and DisconnectNets call; peernet.Close; and mocknet.Close, which
\* closes all hosts, and so their peernets, and then the peernets.
Begins(k, rounds, ns, cs) ==
  /\ closers[k].at = "new"
  /\ closers' = [closers EXCEPT ![k] = [NoClose EXCEPT !.at = "closing", !.rounds = rounds, !.nets = ns, !.conns = cs,
                                                       !.seen = cs]]
  /\ UNCHANGED <<userVars, dials, ends, tableVars, heard, strms>>

allConns(p) == UNION {byPeer[p][q] : q \in NetPeers}

ClosePeer(k, p, q) == p \in nets /\ Begins(k, 0, {}, byPeer[p][q])
CloseNet(k, p) == p \in nets /\ Begins(k, 0, {}, allConns(p))
CloseMocknet(k) == Begins(k, 1, nets, {})

\* The next peernet, or the second round.
CloseNext(k) ==
  LET c == closers[k] IN
  /\ c.at = "closing" /\ c.conns = {} /\ c.cur = NoConn
  /\ \/ \E p \in c.nets : closers' = [closers EXCEPT ![k].nets = @ \ {p}, ![k].conns = allConns(p), ![k].seen = @ \cup allConns(p)]
     \/ c.nets = {} /\ c.rounds > 0 /\ closers' = [closers EXCEPT ![k].rounds = @ - 1, ![k].nets = nets]
     \/ c.nets = {} /\ c.rounds = 0 /\ closers' = [closers EXCEPT ![k].at = "returned"]
  /\ UNCHANGED <<userVars, dials, ends, tableVars, heard, strms>>

\* The loop closes a connection; closeOnce makes it wait for a Close under way.
CloseConn(k, e) ==
  /\ closers[k].cur = NoConn /\ e \in closers[k].conns
  /\ closers' = [closers EXCEPT ![k].conns = @ \ {e}, ![k].cur = e]
  /\ IF ends[e].once = "open" THEN BeginClose(e) ELSE UNCHANGED ends
  /\ UNCHANGED <<userVars, dials, tableVars, heard, strms>>

CloseReturns(k) ==
  /\ closers[k].cur # NoConn /\ ends[closers[k].cur].once = "done"
  /\ closers' = [closers EXCEPT ![k].cur = NoConn]
  /\ UNCHANGED <<userVars, dials, ends, tableVars, heard, strms>>

----------------------------------------------------------------------------
(* Streams in the lists of their connections                               *)

\* conn.NewStream, also on a connection that is closed: a goroutine brings the other half.
NewStream(s, e) ==
  /\ ends[e] # NoEnd /\ strms[<<s, "local">>] = NoStream
  /\ strms' = [strms EXCEPT ![<<s, "local">>] = [NoStream EXCEPT !.at = "made", !.on = e],
                            ![<<s, "remote">>] = [NoStream EXCEPT !.at = "made", !.on = Other(e)]]
  /\ UNCHANGED <<userVars, dials, ends, tableVars, heard, closers>>

\* addStream, after which NewStream returns, or remoteOpenedStream goes on to the handler.  `late' is
\* history: teardown had its list.
AddStream(x) ==
  /\ strms[x].at = "made"
  /\ strms' = [strms EXCEPT ![x].at = "listed", ![x].late = ends[strms[x].on].once # "open",
                            ![x].user = IF x[2] = "local" THEN "has" ELSE "due"]
  /\ UNCHANGED <<userVars, dials, ends, tableVars, heard, closers>>

\* handleNewStream, also when teardown has reset the stream: a handler, if there is one, gets it.
HandleNewStream(x) ==
  /\ strms[x].user = "due"
  /\ strms' = [strms EXCEPT ![x].user = IF streamHandler[ends[strms[x].on].local] THEN "has" ELSE "nobody"]
  /\ UNCHANGED <<userVars, dials, ends, tableVars, heard, closers>>

\* The user of a stream ends it, and its transport takes it off the list.
EndStream(x) ==
  /\ strms[x].user = "has" /\ strms[x].at = "listed" /\ strms' = [strms EXCEPT ![x].at = "ended"]
  /\ UNCHANGED <<userVars, dials, ends, tableVars, heard, closers>>

NetNext ==
  \/ \E p \in NetPeers : \/ AddPeer(p) \/ SetStreamHandler(p) \/ \E n \in Notifiees : Notify(p, n) \/ StopNotify(p, n)
                         \/ \E q \in NetPeers, l \in MockLinks : LinkNets(l, p, q)
                         \/ \E q \in NetPeers, d \in DialCalls : DialPeer(d, p, q)
                         \/ \E k \in CloseCalls : CloseNet(k, p) \/ \E q \in NetPeers : ClosePeer(k, p, q)
  \/ \E l \in MockLinks : Unlink(l)
  \/ \E d \in DialCalls : ChooseLink(d) \/ DialReturns(d) \/ \E c \in Pairs : OpenConn(d, c)
  \/ \E e \in Ends : \/ Announce(e) \/ AnnounceEnd(e) \/ Announced(e) \/ \E n \in Notifiees : Tell(e, n)
                     \/ Close(e) \/ RemoteClose(e) \/ RemoveConn(e) \/ \E x \in StreamEnds : ResetStream(e, x)
                     \/ \E s \in MockStreams : NewStream(s, e)
  \/ \E k \in CloseCalls : CloseMocknet(k) \/ CloseNext(k) \/ CloseReturns(k) \/ \E e \in Ends : CloseConn(k, e)
  \/ \E x \in StreamEnds : AddStream(x) \/ HandleNewStream(x) \/ EndStream(x)

\* A connection is in the tables of both peers, by peer and by link, until its end there is removed,
\* and removeConn finds it; a notifiee that was there all along hears of each end once that it is
\* connected and then once that it is not, however Close, the other side's Close and the delivery
\* overlap; a Close by one side ends the other; when a call to close has returned, every connection
\* it found is out of the tables; and a closed connection keeps only streams that came too late.
ConnsPaired ==
  /\ ~panicked
  /\ \A e \in Ends :
       LET c == ends[e]
           there == c # NoEnd /\ c.once # "done"
       IN
       /\ \A p, q \in NetPeers : e \in byPeer[p][q] <=> there /\ <<p, q>> = <<c.local, c.remote>>
       /\ \A p \in NetPeers, l \in MockLinks : e \in byLink[p][l] <=> there /\ <<p, l>> = <<c.local, c.link>>
       /\ \A n \in Notifiees : /\ heard[e][n] \in {<<>>, <<"connected">>, <<"disconnected">>, <<"connected", "disconnected">>}
                               /\ n \in steady /\ c # NoEnd /\ c.lock = None => heard[e][n] = <<"connected">>
                               /\ n \in steady /\ c.lock = "over" => heard[e][n] = <<"connected", "disconnected">>
       /\ c.once \in {"teardown", "done"} => ends[Other(e)].asked \/ ends[Other(e)].once # "open"
       /\ c.once = "done" => \A x \in Listed(e) : strms[x].late
  /\ \A k \in CloseCalls : \A e \in closers[k].seen :
       ends[e].once = "done" \/ e \in closers[k].conns \/ e = closers[k].cur

----------------------------------------------------------------------------
(* A pair of streams (mock_stream.go).  What side x writes goes to its      *)
(* transport goroutine, which writes to the pipe that the other side reads. *)

Sides == {"a", "b"}
Peer(x) == IF x = "a" THEN "b" ELSE "a"

\* io.Pipe, external: the first error given to either end stays, and a Read has the writer's unless the
\* reader was closed.
CloseWriter(x, err) == pw' = [pw EXCEPT ![x] = IF @ = None THEN err ELSE @]
CloseReader(x, err) == pr' = [pr EXCEPT ![x] = IF @ = None THEN err ELSE @]
PipeClosed(x) == pw[x] # None \/ pr[x] # None
WriteErr(x) == IF pw[x] = None THEN pr[x] ELSE "ErrClosedPipe"

NoEnder == [op |-> None, at |-> "new"]

StreamInit ==
  /\ tp = [x \in Sides |-> "check"] /\ out = [x \in Sides |-> <<>>] /\ then = [x \in Sides |-> None]
  /\ buf = [x \in Sides |-> <<>>] /\ msg = [x \in Sides |-> <<>>] /\ timer = [x \in Sides |-> FALSE]
  /\ resetCh = [x \in Sides |-> FALSE] /\ closeCh = [x \in Sides |-> FALSE]
  /\ overCh = [x \in Sides |-> FALSE] /\ writeErr = [x \in Sides |-> None]
  /\ pw = [x \in Sides |-> None] /\ pr = [x \in Sides |-> None]
  /\ offer = [x \in Sides |-> <<>>] /\ accepted = [x \in Sides |-> <<>>] /\ read = [x \in Sides |-> <<>>]
  /\ result = [x \in Sides |-> None] /\ enders = [x \in Sides |-> [k \in EndCalls |-> NoEnder]]

pipeVars == <<pw, pr>>
chanVars == <<resetCh, closeCh>>
doneVars == <<overCh, writeErr>>
dataVars == <<offer, accepted, read, result>>

\* The transport returns with writeErr set, and teardown closes the channel.
Returns(x, err) ==
  /\ tp' = [tp EXCEPT ![x] = "over"] /\ writeErr' = [writeErr EXCEPT ![x] = err] /\ overCh' = [overCh EXCEPT ![x] = TRUE]

\* cancelWrite.
CancelWrite(x, err) == CloseWriter(x, err) /\ Returns(x, err) /\ UNCHANGED pr

\* A step of drainBuf or of a Write to the pipe leads on to `next': with nothing to write at once.
Drain(x, next) ==
  /\ then' = [then EXCEPT ![x] = next]
  /\ out' = [out EXCEPT ![x] = buf[x]] /\ tp' = [tp EXCEPT ![x] = "write"]

\* The end of the first select, and the reset cases of both.
SeeReset(x) ==
  /\ tp[x] \in {"check", "select"} /\ resetCh[x] /\ resetCh' = [resetCh EXCEPT ![x] = FALSE] /\ Returns(x, "ErrReset")
  /\ UNCHANGED <<out, then, buf, msg, timer, closeCh, pipeVars, dataVars, enders>>

NoReset(x) ==
  /\ tp[x] = "check" /\ ~resetCh[x] /\ tp' = [tp EXCEPT ![x] = "select"]
  /\ UNCHANGED <<out, then, buf, msg, timer, chanVars, doneVars, pipeVars, dataVars, enders>>

SeeCloseNoDrain(x) ==
  /\ tp[x] = "select" /\ closeCh[x] /\ closeCh' = [closeCh EXCEPT ![x] = FALSE]
  /\ then' = [then EXCEPT ![x] = "close"] /\ out' = [out EXCEPT ![x] = <<>>] /\ tp' = [tp EXCEPT ![x] = "write"]
  /\ UNCHANGED <<buf, msg, timer, resetCh, doneVars, pipeVars, dataVars, enders>>

SeeClose(x) ==
  /\ tp[x] = "select" /\ closeCh[x] /\ closeCh' = [closeCh EXCEPT ![x] = FALSE] /\ Drain(x, "close")
  /\ UNCHANGED <<buf, msg, timer, resetCh, doneVars, pipeVars, dataVars, enders>>

TimerFires(x) ==
  /\ tp[x] = "select" /\ timer[x] /\ timer' = [timer EXCEPT ![x] = FALSE] /\ Drain(x, "check")
  /\ UNCHANGED <<buf, msg, chanVars, doneVars, pipeVars, dataVars, enders>>

\* The transport takes a message from Write, and deliverOrWait sets the timer: a message that fills
\* the buffer waits for its time, another goes into it.
Deliver(x) ==
  LET m == offer[x] IN
  /\ tp[x] = "select" /\ m # <<>> /\ offer' = [offer EXCEPT ![x] = <<>>]
  /\ accepted' = [accepted EXCEPT ![x] = @ \o m] /\ timer' = [timer EXCEPT ![x] = TRUE]
  /\ IF Len(m) + Len(buf[x]) >= BufSize
     THEN tp' = [tp EXCEPT ![x] = "wait"] /\ msg' = [msg EXCEPT ![x] = m] /\ UNCHANGED buf
     ELSE tp' = [tp EXCEPT ![x] = "check"] /\ buf' = [buf EXCEPT ![x] = @ \o m] /\ UNCHANGED msg
  /\ UNCHANGED <<out, then, chanVars, doneVars, pipeVars, read, result, enders>>

WaitEnds(x) ==
  /\ tp[x] = "wait" /\ timer' = [timer EXCEPT ![x] = FALSE] /\ Drain(x, "message")
  /\ UNCHANGED <<buf, msg, chanVars, doneVars, pipeVars, dataVars, enders>>

\* The reset is put back and the write cancelled.
WaitReset(x) ==
  /\ tp[x] = "wait" /\ resetCh[x] /\ CancelWrite(x, "ErrReset")
  /\ UNCHANGED <<out, then, buf, msg, timer, chanVars, dataVars, enders>>

\* A Write of the pipe is over: after drainBuf the buffer is empty and the message is next, or the
\* loop, or the pipe's Close, whose error is nil.
WriteEnds(x) ==
  /\ tp[x] = "write" /\ out[x] = <<>>
  /\ \/ then[x] = "check" /\ tp' = [tp EXCEPT ![x] = "check"] /\ buf' = [buf EXCEPT ![x] = <<>>]
        /\ UNCHANGED <<out, then, msg, doneVars, pipeVars>>
     \/ then[x] = "message" /\ out' = [out EXCEPT ![x] = msg[x]] /\ then' = [then EXCEPT ![x] = "check"]
        /\ buf' = [buf EXCEPT ![x] = <<>>] /\ msg' = [msg EXCEPT ![x] = <<>>] /\ UNCHANGED <<tp, doneVars, pipeVars>>
     \/ then[x] = "close" /\ buf' = [buf EXCEPT ![x] = <<>>] /\ CloseWriter(x, "EOF") /\ Returns(x, "ErrClosed")
        /\ UNCHANGED <<out, then, msg, pr>>
  /\ UNCHANGED <<timer, chanVars, dataVars, enders>>

\* The pipe is closed while something is left to write.
WriteFails(x) ==
  /\ tp[x] = "write" /\ out[x] # <<>> /\ PipeClosed(x) /\ CancelWrite(x, WriteErr(x))
  /\ UNCHANGED <<out, then, buf, msg, timer, chanVars, dataVars, enders>>

\* The user of x writes: Write copies p and offers it, then has it taken, or finds the stream over.
Write(x) ==
  /\ offer[x] = <<>> /\ \E n \in MsgSizes :
       LET k == Len(accepted[x]) IN k + n <= MaxWritten /\ offer' = [offer EXCEPT ![x] = [i \in 1..n |-> k + i]]
  /\ UNCHANGED <<tp, out, then, buf, msg, timer, chanVars, doneVars, pipeVars, accepted, read, result, enders>>

WriteRefused(x) ==
  /\ offer[x] # <<>> /\ overCh[x] /\ offer' = [offer EXCEPT ![x] = <<>>] /\ result' = [result EXCEPT ![x] = writeErr[x]]
  /\ UNCHANGED <<tp, out, then, buf, msg, timer, chanVars, doneVars, pipeVars, accepted, read, enders>>

\* Read by the other side of what x wrote: some of what the pipe is offered, or its end.
Read(x) ==
  /\ ~PipeClosed(x) /\ tp[x] = "write" /\ \E n \in 1..Len(out[x]) :
       /\ read' = [read EXCEPT ![x] = @ \o SubSeq(out[x], 1, n)]
       /\ out' = [out EXCEPT ![x] = SubSeq(@, n + 1, Len(@))]
  /\ UNCHANGED <<tp, then, buf, msg, timer, chanVars, doneVars, pipeVars, offer, accepted, result, enders>>

\* CloseRead, CloseWrite, Close and Reset, each by a caller of its own.
Begin(x, k, op) ==
  /\ enders[x][k].at = "new"
  /\ enders' = [enders EXCEPT ![x][k] = [op |-> op, at |-> IF op = "CloseWrite" THEN "signal" ELSE "pipe"]]
  /\ UNCHANGED <<tp, out, then, buf, msg, timer, chanVars, doneVars, pipeVars, dataVars>>

\* CloseWithError of the reading half, by Reset after that of the writing half.
EndPipes(x, k) ==
  LET e == enders[x][k] IN
  /\ \/ e.at = "pipe" /\ e.op = "Reset" /\ CloseWriter(x, "ErrReset") /\ UNCHANGED pr
        /\ enders' = [enders EXCEPT ![x][k].at = "reader"]
     \/ e.at = "reader" /\ CloseReader(Peer(x), "ErrReset") /\ UNCHANGED pw
        /\ enders' = [enders EXCEPT ![x][k].at = "signal"]
     \/ e.at = "pipe" /\ e.op # "Reset" /\ CloseReader(Peer(x), "ErrClosed") /\ UNCHANGED pw
        /\ enders' = [enders EXCEPT ![x][k].at = IF e.op = "Close" THEN "signal" ELSE "done"]
  /\ UNCHANGED <<tp, out, then, buf, msg, timer, chanVars, doneVars, dataVars>>

\* The send to a channel of one slot, or nothing when it is full.
Signal(x, k) ==
  /\ enders[x][k].at = "signal" /\ enders' = [enders EXCEPT ![x][k].at = "waiting"]
  /\ IF enders[x][k].op = "Reset" THEN resetCh' = [resetCh EXCEPT ![x] = TRUE] /\ UNCHANGED closeCh
     ELSE closeCh' = [closeCh EXCEPT ![x] = TRUE] /\ UNCHANGED resetCh
  /\ UNCHANGED <<tp, out, then, buf, msg, timer, doneVars, pipeVars, dataVars>>

EndReturns(x, k) ==
  /\ enders[x][k].at = "waiting" /\ overCh[x] /\ enders' = [enders EXCEPT ![x][k].at = "done"]
  /\ UNCHANGED <<tp, out, then, buf, msg, timer, chanVars, doneVars, pipeVars, dataVars>>

StreamNext ==
  \E x \in Sides :
    \/ SeeReset(x) \/ NoReset(x) \/ SeeClose(x) \/ TimerFires(x) \/ Deliver(x) \/ WaitEnds(x) \/ WaitReset(x)
    \/ WriteEnds(x) \/ WriteFails(x) \/ Write(x) \/ WriteRefused(x) \/ Read(x)
    \/ \E k \in EndCalls : \/ \E op \in {"CloseRead", "CloseWrite", "Close", "Reset"} : Begin(x, k, op)
                           \/ EndPipes(x, k) \/ Signal(x, k) \/ EndReturns(x, k)

\* What is read is what was written and in order, through the buffer, messages that fill it and reads
\* of parts of them, and ends with EOF only after all that Write accepted, so that a CloseWrite without
\* an error has delivered it unless the other side closed its reading; a Write is refused with an
\* error; a Reset waits for nobody but the stream's own goroutine, and a CloseWrite for nobody but the
\* reader.
StreamDelivers ==
  \A x \in Sides :
    /\ \A i \in 1..Len(read[x]) : read[x][i] = i /\ i <= Len(accepted[x])
    /\ pw[x] = "EOF" \/ (writeErr[x] = "ErrClosed" /\ pr[x] = None) => read[x] = accepted[x]
    /\ overCh[x] => writeErr[x] # None /\ PipeClosed(x)
    /\ result[x] = None \/ result[x] = writeErr[x]
    /\ \A k \in EndCalls :
         LET e == enders[x][k] IN
         /\ e.op = "Reset" /\ e.at = "waiting" /\ ~overCh[x] =>
              IF tp[x] = "write" THEN PipeClosed(x) /\ resetCh[x] ELSE resetCh[x]
         /\ e.op \in {"Close", "CloseWrite"} /\ e.at = "waiting" /\ ~overCh[x] =>
              closeCh[x] \/ (tp[x] = "write" /\ then[x] = "close")

----------------------------------------------------------------------------
(* The rate limiter (ratelimiter.go), in whole ticks, Second of them to the *)
(* second.  `allowance' is in bytes times Second, so that what a tick adds, *)
(* the bandwidth, is whole.                                                 *)

RateInit ==
  /\ rtime = 0 /\ \E b \in Bandwidths : bandwidth = b
  /\ allowance = 0 /\ lastUpdate = 0 /\ sends = <<>>

\* link.SetOptions, UpdateBandwidth: what was sent before is forgotten.
UpdateBandwidth(b) ==
  /\ bandwidth' = b /\ allowance' = 0 /\ lastUpdate' = rtime /\ sends' = <<>>
  /\ UNCHANGED rtime

Least(x, y) == IF x <= y THEN x ELSE y

\* link.RateLimit, Limit: the data arrives when the allowance is back to zero.
Limit(n) ==
  LET had == Least(allowance + (rtime - lastUpdate) * bandwidth, bandwidth * Second)
      left == had - n * Second
      delay == IF left < 0 THEN (0 - left) \div bandwidth ELSE 0
      Sent(d) == sends' = Append(sends, [at |-> rtime, size |-> n, due |-> rtime + d])
  IN
  /\ Len(sends) < MaxSends
  /\ IF bandwidth = 0 THEN Sent(0) /\ UNCHANGED <<allowance, lastUpdate>>
     ELSE Sent(delay) /\ allowance' = left /\ lastUpdate' = rtime
  /\ UNCHANGED <<rtime, bandwidth>>

RateTick == rtime < MaxRTime /\ rtime' = rtime + 1 /\ UNCHANGED <<bandwidth, allowance, lastUpdate, sends>>

RateNext == RateTick \/ \E b \in Bandwidths : UpdateBandwidth(b) \/ \E n \in SendSizes : Limit(n)

\* Data is due in the order of sending, and from any send on no more is due by any time than the
\* bandwidth carries since and one second's burst, within a tick; without a bandwidth nothing waits.
RateKept ==
  \A i, j \in 1..Len(sends) : i <= j =>
    /\ sends[i].due <= sends[j].due
    /\ bandwidth = 0 => sends[j].due = sends[j].at
    /\ bandwidth > 0 => MapThenSumSet(LAMBDA k : sends[k].size, i..j) * Second <= bandwidth * (Second + sends[j].due + 1 - sends[i].at)
============================================================================
