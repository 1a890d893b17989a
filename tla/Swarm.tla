------------------------------- MODULE Swarm -------------------------------
(***************************************************************************)
(* The lifecycle of listeners, connections and streams in a swarm          *)
(* (p2p/net/swarm: swarm.go, swarm_listen.go, swarm_conn.go,               *)
(* swarm_stream.go): how they are registered, closed from either side and  *)
(* reported, while Swarm.Close takes everything down and waits for the     *)
(* goroutines it counts in the wait group refs.                            *)
(*                                                                         *)
(* Transport connections, muxed streams and the resource manager are       *)
(* external; a stream's resource scope is open until its Done is called.   *)
(* Callbacks of notifiees and of the gater return.                         *)
(***************************************************************************)
EXTENDS Integers, Sequences, FiniteSets

CONSTANTS
  Peers,
  Conns,      \* transport connections
  Streams,    \* muxed streams
  Listeners,
  remotePeer, \* the peer at the other end of each connection
  Inbound,    \* the connections that a listener accepts; we dial the others
  NoConn      \* nil, for a stream that does not exist yet

ASSUME SwarmAssumption ==
  /\ IsFiniteSet(Conns) /\ IsFiniteSet(Streams) /\ IsFiniteSet(Listeners)
  /\ remotePeer \in [Conns -> Peers] /\ Inbound \subseteq Conns
  /\ NoConn \notin Conns

VARIABLES
  closing,      \* how far Swarm.close is
  refs,         \* Swarm.refs, the count of a sync.WaitGroup
  listeners,    \* Swarm.listeners.m
  listening,    \* where each listener's goroutine is
  deaf,         \* the listeners whose transport listener is closed
  conns,        \* Swarm.conns.m; all empty when the map is nil
  adding,       \* where addConn is for each connection
  dead,         \* the closed transport connections
  accepting,    \* where Conn.start's goroutine is
  notifyLk,     \* Conn.notifyLk: is it held?
  notified,     \* the notifications about each connection, in their order
  closeCalls,   \* the connections on which somebody is about to call Close
  doClose,      \* how far Conn.doClose is
  numStreams,   \* Conn.stat.NumStreams
  resetting,    \* the streams that doClose has taken and not yet reset
  stream,       \* where each stream is
  streamConn,   \* Stream.conn
  outbound,     \* the streams that we opened
  scopes,       \* the streams whose resource scope is open
  lastEvent     \* the last EvtPeerConnectednessChanged for each peer

swarmVars == <<closing, refs>>
listenVars == <<listeners, listening, deaf>>
connVars == <<conns, adding, dead, accepting, notifyLk, notified, closeCalls, doClose, lastEvent>>
streamVars == <<numStreams, resetting, stream, streamConn, outbound, scopes>>
vars == <<swarmVars, listenVars, connVars, streamVars>>

Init ==
  /\ closing = "open" /\ refs = 0
  /\ listeners = {} /\ listening = [l \in Listeners |-> "none"] /\ deaf = {}
  /\ conns = [p \in Peers |-> <<>>]
  /\ adding = [c \in Conns |-> "none"]
  /\ dead = {}
  /\ accepting = [c \in Conns |-> "none"]
  /\ notifyLk = [c \in Conns |-> FALSE]
  /\ notified = [c \in Conns |-> <<>>]
  /\ closeCalls = {}
  /\ doClose = [c \in Conns |-> "open"]
  /\ numStreams = [c \in Conns |-> 0]
  /\ resetting = [c \in Conns |-> {}]
  /\ stream = [s \in Streams |-> "none"]
  /\ streamConn = [s \in Streams |-> NoConn]
  /\ outbound = {} /\ scopes = {}
  /\ lastEvent = [p \in Peers |-> "NotConnected"]

\* listeners.m and conns.m are not nil; the emitter is not closed.
MayListen == closing \in {"open", "cancelled"}
MayConnect == closing \in {"open", "cancelled", "noListeners"}
Emitting == closing = "open"

----------------------------------------------------------------------------
(* Listeners: AddListenAddr and ListenClose.                               *)

\* The listener is refused if listeners.m is nil, else Listen is notified and
\* the goroutine that accepts connections started.
AddListenAddr(l) ==
  /\ listening[l] = "none"
  /\ IF MayListen
     THEN /\ refs' = refs + 1
          /\ listeners' = listeners \cup {l}
          /\ listening' = [listening EXCEPT ![l] = "accepting"]
          /\ UNCHANGED deaf
     ELSE /\ deaf' = deaf \cup {l}
          /\ listening' = [listening EXCEPT ![l] = "refused"]
          /\ UNCHANGED <<refs, listeners>>
  /\ UNCHANGED <<closing, connVars, streamVars>>

\* ListenClose, called for the address of l.
ListenClose(l) ==
  /\ l \in listeners
  /\ listeners' = listeners \ {l}
  /\ deaf' = deaf \cup {l}
  /\ UNCHANGED <<swarmVars, listening, connVars, streamVars>>

\* The transport listener fails by itself.
ListenerFails(l) ==
  /\ listening[l] = "accepting" /\ l \notin deaf
  /\ deaf' = deaf \cup {l}
  /\ UNCHANGED <<swarmVars, listeners, listening, connVars, streamVars>>

\* Accept returns an error: the deferred function removes the listener if it is
\* still registered, notifies ListenClose and gives up the reference.
AcceptLoopEnds(l) ==
  /\ listening[l] = "accepting" /\ l \in deaf
  /\ listening' = [listening EXCEPT ![l] = "ended"]
  /\ listeners' = listeners \ {l}
  /\ refs' = refs - 1
  /\ UNCHANGED <<closing, deaf, connVars, streamVars>>

\* Accept returns a connection, and a goroutine with a reference adds it.
Accept(l, c) ==
  /\ listening[l] = "accepting" /\ l \notin deaf
  /\ c \in Inbound /\ adding[c] = "none"
  /\ adding' = [adding EXCEPT ![c] = "new"]
  /\ refs' = refs + 1
  /\ UNCHANGED <<closing, listenVars, conns, dead, accepting, notifyLk, notified,
                 closeCalls, doClose, lastEvent, streamVars>>

\* A dial succeeded (SwarmDial); its worker is about to add the connection.
Dialed(c) ==
  /\ c \notin Inbound /\ adding[c] = "none"
  /\ adding' = [adding EXCEPT ![c] = "new"]
  /\ UNCHANGED <<swarmVars, listenVars, conns, dead, accepting, notifyLk, notified,
                 closeCalls, doClose, lastEvent, streamVars>>

----------------------------------------------------------------------------
(* Adding a connection: addConn.                                           *)

\* What the goroutine that accepted c holds until addConn returns.
CallerRef(c) == IF c \in Inbound THEN 1 ELSE 0

\* The gater rejects the connection, or the swarm is closed.
RefuseConn(c) ==
  /\ adding[c] = "new"
  /\ adding' = [adding EXCEPT ![c] = "refused"]
  /\ dead' = dead \cup {c}
  /\ refs' = refs - CallerRef(c)
  /\ UNCHANGED <<closing, listenVars, conns, accepting, notifyLk, notified, closeCalls,
                 doClose, lastEvent, streamVars>>

\* A mutant: no lock before Connected is notified.
LockLater(c) == UNCHANGED notifyLk

\* One reference until the close notifications have been sent, the other until
\* start's goroutine exits.
TwoRefs == refs' = refs + 2

\* Disconnected has to wait until Connected has been notified.
LockNotify(c) == notifyLk' = [notifyLk EXCEPT ![c] = TRUE]

\* Under the lock of conns: the event, the list, the references, the other lock.
AddConn(c) ==
  LET p == remotePeer[c]
  IN /\ adding[c] = "new" /\ MayConnect
     /\ adding' = [adding EXCEPT ![c] = "notify"]
     /\ lastEvent' = IF conns[p] = <<>> /\ Emitting
                     THEN [lastEvent EXCEPT ![p] = "Connected"] ELSE lastEvent
     /\ conns' = [conns EXCEPT ![p] = Append(@, c)]
     /\ TwoRefs /\ LockNotify(c)
     /\ UNCHANGED <<closing, listenVars, dead, accepting, notified, closeCalls, doClose,
                    streamVars>>

\* The notifiees have been told, and the lock is released.
NotifyConnected(c) ==
  /\ adding[c] = "notify"
  /\ adding' = [adding EXCEPT ![c] = "notified"]
  /\ notified' = [notified EXCEPT ![c] = Append(@, "Connected")]
  /\ notifyLk' = [notifyLk EXCEPT ![c] = FALSE]
  /\ UNCHANGED <<swarmVars, listenVars, conns, dead, accepting, closeCalls, doClose,
                 lastEvent, streamVars>>

\* Conn.start, after which addConn returns.
Start(c) ==
  /\ adding[c] = "notified"
  /\ adding' = [adding EXCEPT ![c] = "added"]
  /\ accepting' = [accepting EXCEPT ![c] = "accepting"]
  /\ refs' = refs - CallerRef(c)
  /\ UNCHANGED <<closing, listenVars, conns, dead, notifyLk, notified, closeCalls, doClose,
                 lastEvent, streamVars>>

\* The remote side or the network ends the connection.
ConnDies(c) ==
  /\ adding[c] \notin {"none", "refused"} /\ c \notin dead
  /\ dead' = dead \cup {c}
  /\ UNCHANGED <<swarmVars, listenVars, conns, adding, accepting, notifyLk, notified,
                 closeCalls, doClose, lastEvent, streamVars>>

----------------------------------------------------------------------------
(* Closing a connection: Conn.Close, doClose and removeConn.               *)

Registered(c) == adding[c] \in {"notify", "notified", "added"}

\* Somebody calls Close: a user, perhaps in a notification, or ClosePeer.
CallClose(C) ==
  /\ C # {} /\ C \subseteq {c \in Conns : Registered(c) /\ doClose[c] = "open"}
  /\ ~ C \subseteq closeCalls
  /\ closeCalls' = closeCalls \cup C
  /\ UNCHANGED <<swarmVars, listenVars, conns, adding, dead, accepting, notifyLk, notified,
                 doClose, lastEvent, streamVars>>

\* The range of a sequence.
Members(seq) == {seq[i] : i \in DOMAIN seq}

\* ClosePeer closes the connections it finds.
ClosePeer(p) == CallClose(Members(conns[p]))

\* A mutant: the goroutine exits without closing the connection.
AcceptStreamFailsQuietly(c) ==
  /\ accepting[c] = "accepting" /\ c \in dead
  /\ accepting' = [accepting EXCEPT ![c] = "closing"]
  /\ UNCHANGED <<swarmVars, listenVars, conns, adding, dead, notifyLk, notified, closeCalls,
                 doClose, lastEvent, streamVars>>

\* AcceptStream returns an error, and the deferred Close is called.
AcceptStreamFails(c) ==
  /\ accepting[c] = "accepting" /\ c \in dead
  /\ accepting' = [accepting EXCEPT ![c] = "closing"]
  /\ closeCalls' = closeCalls \cup {c}
  /\ UNCHANGED <<swarmVars, listenVars, conns, adding, dead, notifyLk, notified, doClose,
                 lastEvent, streamVars>>

\* The list without its i-th connection, in the same order.
Without(cs, i) == [j \in 1..(Len(cs) - 1) |-> cs[IF j < i THEN j ELSE j + 1]]

\* A connection is listed once, or not at all when the swarm is closing.
removeConn(c) ==
  LET p == remotePeer[c]
  IN \/ \E i \in DOMAIN conns[p] :
          /\ conns[p][i] = c
          /\ conns' = [conns EXCEPT ![p] = Without(@, i)]
          /\ lastEvent' = IF Len(conns[p]) = 1 /\ Emitting
                          THEN [lastEvent EXCEPT ![p] = "NotConnected"] ELSE lastEvent
     \/ c \notin Members(conns[p]) /\ UNCHANGED <<conns, lastEvent>>

\* doClose, run once: first the connection is taken off the list...
DoClose(c) ==
  /\ c \in closeCalls /\ doClose[c] = "open"
  /\ doClose' = [doClose EXCEPT ![c] = "removed"]
  /\ removeConn(c)
  /\ UNCHANGED <<swarmVars, listenVars, adding, dead, accepting, notifyLk, notified,
                 closeCalls, streamVars>>

\* ... then streams.m is set to nil, so that no stream can be added...
Detach(c) ==
  /\ doClose[c] = "removed"
  /\ doClose' = [doClose EXCEPT ![c] = "detached"]
  /\ resetting' = [resetting EXCEPT ![c] =
                     {s \in Streams : streamConn[s] = c /\ stream[s] = "open"}]
  /\ UNCHANGED <<swarmVars, listenVars, conns, adding, dead, accepting, notifyLk, notified,
                 closeCalls, lastEvent, numStreams, stream, streamConn, outbound, scopes>>

\* ... then the transport connection is closed...
CloseTransport(c) ==
  /\ doClose[c] = "detached"
  /\ doClose' = [doClose EXCEPT ![c] = "resetting"]
  /\ dead' = dead \cup {c}
  /\ UNCHANGED <<swarmVars, listenVars, conns, adding, accepting, notifyLk, notified,
                 closeCalls, lastEvent, streamVars>>

\* ... and the streams are reset (RemoveStream below), after which Close returns
\* and a goroutine is left to notify.
StreamsReset(c) ==
  /\ doClose[c] = "resetting" /\ resetting[c] = {}
  /\ doClose' = [doClose EXCEPT ![c] = "closed"]
  /\ UNCHANGED <<swarmVars, listenVars, conns, adding, dead, accepting, notifyLk, notified,
                 closeCalls, lastEvent, streamVars>>

\* The goroutine takes the notification lock, notifies, and gives up a reference.
NotifyDisconnected(c) ==
  /\ doClose[c] = "closed" /\ ~notifyLk[c]
  /\ doClose' = [doClose EXCEPT ![c] = "done"]
  /\ notified' = [notified EXCEPT ![c] = Append(@, "Disconnected")]
  /\ refs' = refs - 1
  /\ UNCHANGED <<closing, listenVars, conns, adding, dead, accepting, notifyLk, closeCalls,
                 lastEvent, streamVars>>

\* start's goroutine exits once Close, which runs at most once, has returned.
StartExits(c) ==
  /\ accepting[c] = "closing" /\ doClose[c] \in {"closed", "done"}
  /\ accepting' = [accepting EXCEPT ![c] = "exited"]
  /\ refs' = refs - 1
  /\ UNCHANGED <<closing, listenVars, conns, adding, dead, notifyLk, notified, closeCalls,
                 doClose, lastEvent, streamVars>>

----------------------------------------------------------------------------
(* Streams.                                                                *)

\* A mutant: the transport connection is asked instead of streams.m.
StreamsOpenUntilDead(c) == c \notin dead

\* Streams can be added as long as streams.m is not nil.
StreamsOpen(c) == doClose[c] \in {"open", "removed"}

\* start's loop accepts a muxed stream, opens its scope and leaves the rest to a
\* goroutine with a reference.  (A stream whose scope is refused is reset.)
AcceptStream(c, s) ==
  /\ accepting[c] = "accepting" /\ c \notin dead /\ stream[s] = "none"
  /\ stream' = [stream EXCEPT ![s] = "new"]
  /\ streamConn' = [streamConn EXCEPT ![s] = c]
  /\ scopes' = scopes \cup {s}
  /\ refs' = refs + 1
  /\ UNCHANGED <<closing, listenVars, connVars, numStreams, resetting, outbound>>

\* Conn.NewStream, up to the scope of the stream.
NewStream(c, s) ==
  /\ Registered(c) /\ stream[s] = "none"
  /\ stream' = [stream EXCEPT ![s] = "new"]
  /\ streamConn' = [streamConn EXCEPT ![s] = c]
  /\ outbound' = outbound \cup {s}
  /\ scopes' = scopes \cup {s}
  /\ UNCHANGED <<swarmVars, listenVars, connVars, numStreams, resetting>>

\* The reference of the goroutine that runs addStream for an accepted stream.
HandlerRef(s) == IF s \in outbound THEN 0 ELSE 1

\* The stream's reference; that of the goroutine is no longer needed.
CountStream(s) == refs' = refs + 1 - HandlerRef(s)

\* addStream registers the stream with a reference of its own.  No muxed stream
\* can be opened on a dead connection.
AddStream(s) ==
  LET c == streamConn[s]
  IN /\ stream[s] = "new" /\ StreamsOpen(c) /\ (s \in outbound => c \notin dead)
     /\ stream' = [stream EXCEPT ![s] = "open"]
     /\ numStreams' = [numStreams EXCEPT ![c] = @ + 1]
     /\ CountStream(s)
     /\ UNCHANGED <<closing, listenVars, connVars, resetting, streamConn, outbound, scopes>>

\* addStream fails, or no muxed stream can be opened.  NewStream then ends the
\* scope; start's goroutine just returns.
AddStreamFails(s) ==
  LET c == streamConn[s]
  IN /\ stream[s] = "new" /\ (~StreamsOpen(c) \/ s \in outbound)
     /\ stream' = [stream EXCEPT ![s] = "refused"]
     /\ scopes' = IF s \in outbound THEN scopes \ {s} ELSE scopes
     /\ refs' = refs - HandlerRef(s)
     /\ UNCHANGED <<closing, listenVars, connVars, numStreams, resetting, streamConn, outbound>>

\* Stream.Close or Reset, by a user or by doClose: remove runs once.  The stream
\* is taken off its connection...
RemoveStream(s) ==
  LET c == streamConn[s]
  IN /\ stream[s] = "open"
     /\ stream' = [stream EXCEPT ![s] = "removed"]
     /\ numStreams' = [numStreams EXCEPT ![c] = @ - 1]
     /\ UNCHANGED <<swarmVars, listenVars, connVars, resetting, streamConn, outbound, scopes>>

\* ... its scope ends...
ScopeDone(s) ==
  /\ stream[s] = "removed"
  /\ stream' = [stream EXCEPT ![s] = "released"]
  /\ scopes' = scopes \ {s}
  /\ UNCHANGED <<swarmVars, listenVars, connVars, numStreams, resetting, streamConn, outbound>>

\* ... and its reference is given up.
StreamDone(s) ==
  /\ stream[s] = "released"
  /\ stream' = [stream EXCEPT ![s] = "done"]
  /\ refs' = refs - 1
  /\ UNCHANGED <<closing, listenVars, connVars, numStreams, resetting, streamConn, outbound,
                 scopes>>

\* A Reset of doClose returns: remove is done, whoever ran it.
ResetReturns(c, s) ==
  /\ doClose[c] = "resetting" /\ s \in resetting[c] /\ stream[s] = "done"
  /\ resetting' = [resetting EXCEPT ![c] = @ \ {s}]
  /\ UNCHANGED <<swarmVars, listenVars, connVars, numStreams, stream, streamConn, outbound, scopes>>

----------------------------------------------------------------------------
(* Swarm.Close.                                                            *)

\* The context is cancelled and the emitter closed.
Close ==
  /\ closing = "open"
  /\ closing' = "cancelled"
  /\ UNCHANGED <<refs, listenVars, connVars, streamVars>>

CloseListeners ==
  /\ closing = "cancelled"
  /\ closing' = "noListeners"
  /\ listeners' = {}
  /\ deaf' = deaf \cup listeners
  /\ UNCHANGED <<refs, listening, connVars, streamVars>>

\* conns.m is set to nil; a goroutine calls Close on each connection it held.
CloseConns ==
  /\ closing = "noListeners"
  /\ closing' = "waiting"
  /\ conns' = [p \in Peers |-> <<>>]
  /\ closeCalls' = closeCalls \cup UNION {Members(conns[p]) : p \in Peers}
  /\ UNCHANGED <<refs, listenVars, adding, dead, accepting, notifyLk, notified, doClose,
                 lastEvent, streamVars>>

\* refs.Wait returns, and the transports are closed.
Wait ==
  /\ closing = "waiting" /\ refs = 0
  /\ closing' = "closed"
  /\ UNCHANGED <<refs, listenVars, connVars, streamVars>>

----------------------------------------------------------------------------

ListenerNext(l) ==
  \/ AddListenAddr(l) \/ ListenClose(l) \/ ListenerFails(l) \/ AcceptLoopEnds(l)
  \/ \E c \in Conns : Accept(l, c)

ConnNext(c) ==
  \/ Dialed(c) \/ AddConn(c) \/ RefuseConn(c) \/ NotifyConnected(c) \/ Start(c)
  \/ ConnDies(c) \/ CallClose({c}) \/ AcceptStreamFails(c)
  \/ DoClose(c) \/ Detach(c) \/ CloseTransport(c) \/ StreamsReset(c)
  \/ NotifyDisconnected(c) \/ StartExits(c)
  \/ \E s \in Streams : AcceptStream(c, s) \/ NewStream(c, s) \/ ResetReturns(c, s)

StreamNext(s) ==
  AddStream(s) \/ AddStreamFails(s) \/ RemoveStream(s) \/ ScopeDone(s) \/ StreamDone(s)

CloseNext == Close \/ CloseListeners \/ CloseConns \/ Wait

Next ==
  \/ \E l \in Listeners : ListenerNext(l)
  \/ \E c \in Conns : ConnNext(c)
  \/ \E p \in Peers : ClosePeer(p)
  \/ \E s \in Streams : StreamNext(s)
  \/ CloseNext

Spec == Init /\ [][Next]_vars

\* Goroutines that have something to do go on, and doClose resets the streams it
\* has taken.  Nobody has to call Close, and nothing has to fail.
Fairness ==
  /\ \A l \in Listeners : WF_vars(AcceptLoopEnds(l))
  /\ \A c \in Conns :
       /\ WF_vars(AddConn(c) \/ RefuseConn(c)) /\ WF_vars(NotifyConnected(c))
       /\ WF_vars(Start(c)) /\ WF_vars(AcceptStreamFails(c)) /\ WF_vars(StartExits(c))
       /\ WF_vars(DoClose(c)) /\ WF_vars(Detach(c)) /\ WF_vars(CloseTransport(c))
       /\ WF_vars(StreamsReset(c)) /\ WF_vars(NotifyDisconnected(c))
       /\ \A s \in Streams : /\ WF_vars(ResetReturns(c, s))
                             /\ WF_vars(doClose[c] = "resetting" /\ s \in resetting[c] /\ RemoveStream(s))
  /\ \A s \in Streams : /\ WF_vars(AddStream(s) \/ AddStreamFails(s))
                        /\ WF_vars(ScopeDone(s)) /\ WF_vars(StreamDone(s))
  /\ WF_vars(CloseListeners) /\ WF_vars(CloseConns) /\ WF_vars(Wait)

FairSpec == Spec /\ Fairness

----------------------------------------------------------------------------
(* Properties.                                                             *)

TypeOK ==
  /\ closing \in {"open", "cancelled", "noListeners", "waiting", "closed"}
  /\ refs \in Nat
  /\ listeners \subseteq Listeners /\ deaf \subseteq Listeners
  /\ listening \in [Listeners -> {"none", "accepting", "ended", "refused"}]
  /\ conns \in [Peers -> Seq(Conns)]
  /\ adding \in [Conns -> {"none", "new", "refused", "notify", "notified", "added"}]
  /\ dead \subseteq Conns /\ closeCalls \subseteq Conns
  /\ accepting \in [Conns -> {"none", "accepting", "closing", "exited"}]
  /\ notifyLk \in [Conns -> BOOLEAN]
  /\ notified \in [Conns -> Seq({"Connected", "Disconnected"})]
  /\ doClose \in [Conns -> {"open", "removed", "detached", "resetting", "closed", "done"}]
  /\ numStreams \in [Conns -> Nat]
  /\ resetting \in [Conns -> SUBSET Streams]
  /\ stream \in [Streams -> {"none", "new", "open", "refused", "removed", "released", "done"}]
  /\ streamConn \in [Streams -> Conns \cup {NoConn}]
  /\ outbound \subseteq Streams /\ scopes \subseteq Streams
  /\ lastEvent \in [Peers -> {"Connected", "NotConnected"}]

\* When Swarm.Close has returned nothing that the wait group counts is left: every
\* listener has stopped, every connection is closed and reported, no stream is open
\* and no goroutine of a connection runs.  The wait group itself never turns negative,
\* which would panic (TypeOK).
CloseWaitsForAll ==
  /\ TypeOK
  /\ closing = "closed" =>
       /\ \A l \in Listeners : listening[l] # "accepting"
       /\ \A c \in Conns : Registered(c) =>
            adding[c] = "added" /\ doClose[c] = "done" /\ accepting[c] = "exited"
       /\ \A c \in Inbound : adding[c] # "new"
       /\ \A s \in Streams : /\ stream[s] \notin {"open", "removed", "released"}
                             /\ stream[s] = "new" => s \in outbound

\* Notifiees hear of a connection before they hear of its end, once of each, however
\* early Close is called.
ConnectedThenDisconnected ==
  \A c \in Conns : notified[c] \in {<<>>, <<"Connected">>, <<"Connected", "Disconnected">>}

\* Once Close of a connection has returned none of its streams is open or becomes so,
\* and the number of streams it reports is zero; at any time it is that of its streams.
NoStreamOutlivesConn ==
  \A c \in Conns :
    /\ numStreams[c] = Cardinality({s \in Streams : streamConn[s] = c /\ stream[s] = "open"})
    /\ doClose[c] \in {"closed", "done"} => numStreams[c] = 0

\* While the emitter is open, the last event about a peer says whether it has a
\* connection, whatever connections come and go together.
EventsMatchConns ==
  Emitting => \A p \in Peers : lastEvent[p] = "Connected" <=> conns[p] # <<>>

\* What core/network/rcmgr.go asks of the caller of OpenStream: it owns the scope and
\* calls Done.  No scope is open when its stream was refused or is done.
ScopesDone == \A s \in scopes : stream[s] \in {"new", "open", "removed"}

\* Swarm.Close returns: it does not wait for a goroutine that waits for it, nor for
\* one that does not end.
CloseReturns == closing # "open" ~> closing = "closed"

\* A connection that dies, or that somebody closes, is reported to the notifiees, and
\* its streams come to an end.
EndReported ==
  \A c \in Conns :
    Registered(c) /\ (c \in dead \/ c \in closeCalls) ~>
      /\ notified[c] = <<"Connected", "Disconnected">>
      /\ \A s \in Streams : streamConn[s] = c => stream[s] # "open"

\* What ends, ends in order: nothing that the wait group counts is left when Swarm.Close
\* has returned; the last connectedness event about a peer says whether it has a
\* connection; and no stream is open on a connection that was closed
\* (swarm.go: Close, addConn, removeConn; swarm_conn.go: doClose, addStream).
EndsInOrder == CloseWaitsForAll /\ EventsMatchConns /\ NoStreamOutlivesConn

\* Everything ends: Close returns, and the end of every connection is reported
\* (swarm.go: Close; swarm_conn.go: doClose, start).
EverythingEnds == CloseReturns /\ EndReported
============================================================================
