---------------------------- MODULE MCNotifiees ----------------------------
(***************************************************************************)
(* Small instances of the two components that follow the swarm's           *)
(* connections by its notifications, the connection manager (ConnMgr) and  *)
(* the identify service (Identify), and of the network that notifies them  *)
(* in tests (MockNet).  They do not interact: each behaviour is one of the *)
(* component and of the operations that `part' names.                      *)
(***************************************************************************)
EXTENDS ConnMgr

CONSTANTS p1, p2, c1, c2, c3, t1, t2, bg, em, tag1, a1, a2

VARIABLES
  part,
  st, noted, present, wait, support, sequence, reader, msg, remote, book,
  local, event, snapshot, seq, trigger, pusher, todo,
  pushing, via, answering, snap, known, pushFailed,
  nets, between, dials, ends, byPeer, byLink, notifs, steady, heard, streamHandler, strms, closers, panicked,
  tp, out, then, buf, waiting, timer, resetCh, closeCh, overCh, writeErr, pw, pr, offer, accepted, read, result, enders,
  rtime, bandwidth, allowance, lastUpdate, sends

\* Two connections with one peer, a third with another.
SharedPeer == [c \in Conns |-> IF c \in {c1, c2} THEN p1 ELSE p2]

\* The second connection has a stream.
SomeStreams == [c \in Conns |-> IF c = c2 THEN 1 ELSE 0]

\* Two connections with a peer that changes its address.
Ident == INSTANCE Identify WITH
  Conns <- {c1, c2}, Addrs <- {a1, a2}, recordAddrs <- <<{a1}, {a2}>>,
  MaxRecord <- 2, MaxSeq <- 3, Signed <- TRUE, SupportsPush <- TRUE

\* Two connections over a link, or one with a stream, one with changing notifiees or with a call to
\* close all.  Messages that fill the buffer and that do not.
Mock == INSTANCE MockNet WITH
  NetPeers <- {"x", "y"}, MockLinks <- {"l"}, Pairs <- {"c1", "c2"}, DialCalls <- {"d1", "d2"}, CloseCalls <- {"k"},
  MockStreams <- {"s"}, Notifiees <- {"n"}, EndCalls <- {1, 2}, MsgSizes <- {1, 2}, MaxWritten <- 3, BufSize <- 2,
  Bandwidths <- {0, 2, 3}, Second <- 2, SendSizes <- {1, 4}, MaxSends <- 3, MaxRTime <- 3,
  msg <- waiting

identVars == <<st, noted, present, wait, support, sequence, reader, msg, remote, book,
               local, event, snapshot, seq, trigger, pusher, todo,
               pushing, via, answering, snap, known, pushFailed>>
netVars == <<nets, between, dials, ends, byPeer, byLink, notifs, steady, heard, streamHandler, strms, closers, panicked>>
streamVars == <<tp, out, then, buf, waiting, timer, resetCh, closeCh, overCh, writeErr, pw, pr, offer, accepted, read, result, enders>>
rateVars == <<rtime, bandwidth, allowance, lastUpdate, sends>>
mockVars == <<netVars, streamVars, rateVars>>
all == <<vars, identVars, mockVars, part>>

Active(trims) == \A t \in Trims \ trims : at[t] = "idle"
Untagged == \A i \in Infos : i < nextInfo => ~info[i].temp /\ info[i].value = 0
Tagged(p) == \E i \in Infos : i < nextInfo /\ info[i].peer = p /\ (info[i].temp \/ info[i].value # 0)
NoProtection == \A p \in Peers : protected[p] = {}

\* ConnMgr: a call while peers are tagged before they connect, a call and the background loop
\* while one is, two calls at once, the background loop, the memory watchdog while a peer
\* is protected, and a call and the memory watchdog.
ConnMgrParts == {"tags", "overlap", "calls", "background", "watchdog", "emergency"}

\* Identify: the messages of the peer, which pushes on the first connection, and our
\* pushes.  The first connection stays up for our pushes, and when we change twice then
\* the second one, too, and only the first asks to identify.
IdentParts == {"consume", "push"}

MockParts == {"mocknet", "mockstream", "mockrate"}

Quiet == \A x \in Mock!StreamEnds : strms[x].at = "none"
Alone == Quiet /\ dials["d2"].at = "new"
\* Both peers are there, one with a handler, before anything else.
MockNetUses ==
  /\ "y" \in nets => "x" \in nets
  /\ ~streamHandler["x"] /\ (streamHandler["y"] => "y" \in nets)
  /\ ~streamHandler["y"] => /\ between[<<"x", "y">>] = {} /\ dials["d1"].at = "new" /\ closers["k"].at = "new"
                            /\ \A p \in {"x", "y"} : notifs[p] = steady
  /\ \A p \in {"x", "y"} : between[<<p, p>>] = {}
  /\ \A d \in {"d1", "d2"} : dials[d].from # "y"
  /\ dials["d1"].at \in {"new", "failed"} => dials["d2"].at = "new"
  /\ steady = {} => notifs["x"] = {}
  /\ closers["k"].at # "new" => notifs["x"] = steady /\ notifs["y"] = steady
  /\ ends[<<"c1", "dialer">>] = Mock!NoEnd =>
       /\ notifs["y"] = steady /\ ends[<<"c2", "dialer">>] = Mock!NoEnd
       /\ closers["k"].at # "new" => dials["d1"].at = "new" /\ between[<<"x", "y">>] = {}
  /\ \A x \in {"dialer", "target"} : ends[<<"c2", x>>].once \in {"none", "open"}
  /\ Quiet \/ dials["d2"].at = "new"
  /\ ~Alone => notifs["y"] = {} /\ steady = {} /\ closers["k"].at = "new"
  /\ ~Alone \/ notifs["y"] # steady \/ (closers["k"].at # "new" /\ dials["d1"].at # "new") => between[<<"x", "y">>] # {}

\* One of the streams is written to.
MockStreamUses ==
  /\ offer["b"] = <<>> /\ tp["b"] # "select" /\ enders["b"][2].at = "new"
  /\ enders["b"][1].op \in {"none", "CloseRead", "Reset"}
  /\ enders["a"][1].at = "new" => enders["a"][2].at = "new"

Uses ==
  CASE part = "tags"       -> Active({t1}) /\ NoProtection /\ conn[c3] = "none"
    [] part = "overlap"    -> Active({t1, bg}) /\ NoProtection /\ ~Tagged(p1)
                              /\ \A c \in {c1, c2} : conn[c] \in {"none", "open"}
    [] part = "calls"      -> Active({t1, t2}) /\ Untagged /\ NoProtection
    [] part = "background" -> Active({bg}) /\ Untagged /\ NoProtection
    [] part = "watchdog"   -> Active({em}) /\ Untagged /\ protected[p2] = {}
    [] part = "emergency"  -> Active({t1, em}) /\ Untagged /\ NoProtection /\ conn[c3] = "none"
    [] part = "consume"    ->
         /\ local = 1 /\ \A c \in {c1, c2} : answering[c] = "none"
         /\ reader[<<c2, "push">>] = "none"
    [] part = "push"       ->
         /\ remote = 1 /\ reader[<<c1, "push">>] = "none" /\ reader[<<c2, "push">>] = "none"
         /\ reader[<<c2, "identify">>] \in {"none", "request"}
         /\ \A c \in present : noted[c] # "no"
         /\ st[c1] \in {"new", "up"}
         /\ local = 3 => st[c2] \in {"new", "up"} /\ ~pushFailed /\ reader[<<c2, "identify">>] = "none"
    [] part = "mocknet"    -> MockNetUses
    [] part = "mockstream" -> MockStreamUses
    [] part = "mockrate"   -> TRUE

MCInit(parts) ==
  /\ Init /\ Ident!Init /\ part \in parts
  /\ Mock!NetInit /\ Mock!StreamInit /\ Mock!RateInit
  /\ part # "mocknet" => steady = {}
  /\ part # "mockrate" => bandwidth = 0

MCNext ==
  /\ IF part \in ConnMgrParts THEN Next ELSE UNCHANGED vars
  /\ IF part \in IdentParts THEN Ident!Next ELSE UNCHANGED identVars
  /\ IF part = "mocknet" THEN Mock!NetNext ELSE UNCHANGED netVars
  /\ IF part = "mockstream" THEN Mock!StreamNext ELSE UNCHANGED streamVars
  /\ IF part = "mockrate" THEN Mock!RateNext ELSE UNCHANGED rateVars
  /\ UNCHANGED part /\ Uses'

MCSpec == MCInit(ConnMgrParts \cup IdentParts \cup MockParts) /\ [][MCNext]_all

\* The messages of the peer.
ConsumeSpec == MCInit({"consume"}) /\ [][MCNext]_all

----------------------------------------------------------------------------
\* The identify service follows its peers: when the last connection to a peer has ended,
\* no entry and no address of a connected peer is left of it; and as long as it is
\* connected it is told the current snapshot, or a push is on its way (id.go: Connected,
\* Disconnected, consumeMessage, sendPushes).
PeersFollowed == Ident!NothingLeftBehind /\ Ident!PeerUpdated

\* The mock network (mock_peernet.go, mock_conn.go, teardown, removeConn): both peers have a
\* connection in their tables until it is closed at either, and hear of its beginning before its
\* end, once each. Its streams (mock_stream.go, transport): bytes arrive in order and completely
\* before EOF, and Reset waits for no reader. Its rate limiter (ratelimiter.go, Limit): no window
\* carries more than the bandwidth and one second's burst.
MockNetSound ==
  /\ part = "mocknet" => Mock!ConnsPaired
  /\ part = "mockstream" => Mock!StreamDelivers
  /\ part = "mockrate" => Mock!RateKept

\* "If successful, the peer store will contain the peer's addresses and supported
\* protocols." (p2p/protocol/identify/id.go, on IdentifyConn)
PeerStoreHasAddrs == Ident!PeerStoreHasAddrs
============================================================================
