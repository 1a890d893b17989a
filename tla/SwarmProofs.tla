---------------------------- MODULE SwarmProofs ----------------------------
(***************************************************************************)
(* Connections, streams and listeners end in order and are reported in     *)
(* order, for any number of them.                                          *)
(*                                                                         *)
(* That Connected is notified before Disconnected is not inductive: what   *)
(* keeps NotifyDisconnected from overtaking NotifyConnected is the lock,   *)
(* and what keeps Close from running on a connection without that lock is  *)
(* that only registered connections are listed or handed to anybody.  That *)
(* Swarm.Close has waited for everything rests on who holds which          *)
(* reference of the wait group.                                            *)
(***************************************************************************)
EXTENDS Swarm, FiniteSetTheorems, SequenceTheorems, TLAPS

\* The shapes that the steps below need.
Shapes ==
  /\ conns \in [Peers -> Seq(Conns)]
  /\ adding \in [Conns -> {"none", "new", "refused", "notify", "notified", "added"}]
  /\ accepting \in [Conns -> {"none", "accepting", "closing", "exited"}]
  /\ doClose \in [Conns -> {"open", "removed", "detached", "resetting", "closed", "done"}]
  /\ notifyLk \in [Conns -> BOOLEAN]
  /\ notified \in [Conns -> Seq({"Connected", "Disconnected"})]
  /\ closeCalls \subseteq Conns

\* Only registered connections are listed...
Listed == \A p \in Peers : \A i \in 1..Len(conns[p]) : Registered(conns[p][i])

\* ... and nobody serves, closes or reports another.
Untouched ==
  \A c \in Conns : ~Registered(c) => /\ c \notin closeCalls /\ accepting[c] = "none"
                                     /\ doClose[c] = "open" /\ notified[c] = <<>>

\* The lock is held until Connected has been notified, and Disconnected needs it.
LockProtects ==
  \A c \in Conns :
    /\ adding[c] = "notify" => /\ notifyLk[c] /\ notified[c] = <<>> /\ accepting[c] = "none"
                               /\ doClose[c] # "done"
    /\ adding[c] \in {"notified", "added"} =>
         notified[c] = IF doClose[c] = "done" THEN <<"Connected", "Disconnected">>
                                              ELSE <<"Connected">>

NotifyInv == Shapes /\ Listed /\ Untouched /\ LockProtects

LEMMA NotifyInit == Init => NotifyInv
  BY SwarmAssumption DEF Init, NotifyInv, Shapes, Listed, Untouched, LockProtects, Registered

\* Connections stay registered, so the list stays right when it does not change.
LEMMA ListedKept ==
  ASSUME Shapes, Listed, conns' = conns, \A c \in Conns : Registered(c) => Registered(c)'
  PROVE  Listed'
<1>1. \A p \in Peers : \A i \in 1..Len(conns[p]) : conns[p][i] \in Conns
  BY DEF Shapes
<1> QED
  BY <1>1 DEF Listed

LEMMA AppendToOne == \A x, y : Append(<<x>>, y) = <<x, y>>
<1> TAKE x, y
<1>1. <<x>> \in Seq({x, y}) /\ Len(<<x>>) = 1
  OBVIOUS
<1>2. /\ Append(<<x>>, y) \in Seq({x, y}) /\ Len(Append(<<x>>, y)) = 2
      /\ Append(<<x>>, y)[1] = x /\ Append(<<x>>, y)[2] = y
  BY <1>1
<1>3. /\ <<x, y>> \in Seq({x, y}) /\ Len(<<x, y>>) = 2
      /\ <<x, y>>[1] = x /\ <<x, y>>[2] = y
  OBVIOUS
<1>4. \A i \in 1..Len(Append(<<x>>, y)) : Append(<<x>>, y)[i] = <<x, y>>[i]
  BY <1>2, <1>3
<1> QED
  BY <1>2, <1>3, <1>4, SeqEqual

\* The list without one connection lists no new one.
LEMMA WithoutListed ==
  ASSUME NEW cs \in Seq(Conns), NEW i \in 1..Len(cs)
  PROVE  /\ Without(cs, i) \in Seq(Conns) /\ Len(Without(cs, i)) = Len(cs) - 1
         /\ \A j \in 1..(Len(cs) - 1) : \E k \in 1..Len(cs) : Without(cs, i)[j] = cs[k]
<1>1. Len(cs) \in Nat /\ Len(cs) - 1 \in Nat
  OBVIOUS
<1>2. \A j \in 1..(Len(cs) - 1) : /\ (IF j < i THEN j ELSE j + 1) \in 1..Len(cs)
                                  /\ Without(cs, i)[j] = cs[IF j < i THEN j ELSE j + 1]
  BY <1>1 DEF Without
<1>3. \A j \in 1..(Len(cs) - 1) : Without(cs, i)[j] \in Conns
  BY <1>1, <1>2
<1>4. Without(cs, i) \in [1..(Len(cs) - 1) -> Conns]
  BY <1>3 DEF Without
<1> QED
  BY <1>1, <1>2, <1>4

LEMMA NotifyStep == NotifyInv /\ [Next]_vars => NotifyInv'
<1> SUFFICES ASSUME NotifyInv, [Next]_vars PROVE NotifyInv'
  OBVIOUS
<1> USE SwarmAssumption DEF NotifyInv
<1>1. CASE UNCHANGED <<connVars>>
  BY <1>1 DEF connVars, Shapes, Listed, Untouched, LockProtects, Registered
<1>2. ASSUME NEW c \in Conns, \/ Dialed(c)
                               \/ \E l \in Listeners : Accept(l, c)
      PROVE  NotifyInv'
  <2>1. /\ adding[c] = "none" /\ adding' = [adding EXCEPT ![c] = "new"]
        /\ UNCHANGED <<conns, accepting, notifyLk, notified, closeCalls, doClose>>
    BY <1>2 DEF Dialed, Accept
  <2>2. Shapes'
    BY <2>1 DEF Shapes
  <2>3. \A d \in Conns : Registered(d)' = Registered(d)
    BY <2>1 DEF Shapes, Registered
  <2>4. Listed'
    BY <2>1, <2>3, ListedKept
  <2>5. Untouched' /\ LockProtects'
    BY <2>1, <2>3 DEF Shapes, Untouched, LockProtects
  <2> QED
    BY <2>2, <2>4, <2>5
<1>3. ASSUME NEW c \in Conns, AddConn(c) PROVE NotifyInv'
  <2> DEFINE p == remotePeer[c]
  <2>1. p \in Peers /\ conns[p] \in Seq(Conns)
    BY DEF Shapes
  <2>2. /\ adding' = [adding EXCEPT ![c] = "notify"] /\ adding[c] = "new"
        /\ conns' = [conns EXCEPT ![p] = Append(@, c)]
        /\ notifyLk' = [notifyLk EXCEPT ![c] = TRUE]
        /\ UNCHANGED <<accepting, notified, closeCalls, doClose>>
    BY <1>3 DEF AddConn, LockNotify, TwoRefs
  <2>3. Shapes'
    BY <2>1, <2>2 DEF Shapes
  <2>4. \A q \in Peers : \A i \in 1..Len(conns'[q]) :
           \/ conns'[q][i] = c
           \/ i \in 1..Len(conns[q]) /\ conns'[q][i] = conns[q][i]
    BY <2>1, <2>2 DEF Shapes
  <2>5. \A q \in Peers : \A i \in 1..Len(conns[q]) : conns[q][i] \in Conns
    BY DEF Shapes
  <2>6. Listed'
    BY <2>2, <2>4, <2>5 DEF Listed, Registered, Shapes
  <2>7. Untouched' /\ LockProtects'
    BY <2>2 DEF Untouched, LockProtects, Registered, Shapes
  <2> QED
    BY <2>3, <2>6, <2>7
<1>4. ASSUME NEW c \in Conns, RefuseConn(c) PROVE NotifyInv'
  <2>1. /\ adding[c] = "new" /\ adding' = [adding EXCEPT ![c] = "refused"]
        /\ UNCHANGED <<conns, accepting, notifyLk, notified, closeCalls, doClose>>
    BY <1>4 DEF RefuseConn
  <2>2. Shapes'
    BY <2>1 DEF Shapes
  <2>3. \A d \in Conns : Registered(d)' = Registered(d)
    BY <2>1 DEF Shapes, Registered
  <2>4. Listed'
    BY <2>1, <2>3, ListedKept
  <2>5. Untouched' /\ LockProtects'
    BY <2>1, <2>3 DEF Shapes, Untouched, LockProtects
  <2> QED
    BY <2>2, <2>4, <2>5
<1>5. ASSUME NEW c \in Conns, NotifyConnected(c) PROVE NotifyInv'
  <2>1. /\ adding[c] = "notify" /\ adding' = [adding EXCEPT ![c] = "notified"]
        /\ notified[c] = <<>> /\ doClose[c] # "done"
        /\ notifyLk' = [notifyLk EXCEPT ![c] = FALSE]
        /\ UNCHANGED <<conns, accepting, closeCalls, doClose>>
    BY <1>5 DEF NotifyConnected, LockProtects
  <2>2. notified' = [notified EXCEPT ![c] = <<"Connected">>]
    <3>1. Append(<<>>, "Connected") = <<"Connected">>
      OBVIOUS
    <3> QED
      BY <1>5, <2>1, <3>1 DEF NotifyConnected
  <2>3. Shapes'
    BY <2>1, <2>2 DEF Shapes
  <2>4. \A d \in Conns : Registered(d)' = Registered(d)
    BY <2>1 DEF Shapes, Registered
  <2>5. Listed'
    BY <2>1, <2>4, ListedKept
  <2>6. Untouched' /\ LockProtects'
    BY <2>1, <2>2, <2>4 DEF Shapes, Untouched, LockProtects, Registered
  <2> QED
    BY <2>3, <2>5, <2>6
<1>6. ASSUME NEW c \in Conns, Start(c) PROVE NotifyInv'
  <2>1. /\ adding[c] = "notified" /\ adding' = [adding EXCEPT ![c] = "added"]
        /\ accepting' = [accepting EXCEPT ![c] = "accepting"]
        /\ UNCHANGED <<conns, notifyLk, notified, closeCalls, doClose>>
    BY <1>6 DEF Start
  <2>2. Shapes'
    BY <2>1 DEF Shapes
  <2>3. \A d \in Conns : Registered(d)' = Registered(d)
    BY <2>1 DEF Shapes, Registered
  <2>4. Listed'
    BY <2>1, <2>3, ListedKept
  <2>5. Untouched' /\ LockProtects'
    BY <2>1, <2>3 DEF Shapes, Untouched, LockProtects, Registered
  <2> QED
    BY <2>2, <2>4, <2>5
<1>7. ASSUME NEW c \in Conns, ConnDies(c) \/ AcceptStreamFails(c) \/ StartExits(c) PROVE NotifyInv'
  <2>1. /\ UNCHANGED <<conns, adding, notifyLk, notified, doClose>>
        /\ \/ UNCHANGED <<accepting, closeCalls>>
           \/ /\ accepting[c] # "none" /\ closeCalls' \in {closeCalls, closeCalls \cup {c}}
              /\ \E x \in {"closing", "exited"} : accepting' = [accepting EXCEPT ![c] = x]
    BY <1>7 DEF ConnDies, AcceptStreamFails, StartExits
  <2>2. Shapes'
    BY <2>1 DEF Shapes
  <2>3. \A d \in Conns : Registered(d)' = Registered(d)
    BY <2>1 DEF Registered
  <2>4. Listed'
    BY <2>1, <2>3, ListedKept
  <2>5. Untouched'
    BY <2>1, <2>3 DEF Shapes, Untouched
  <2>6. LockProtects'
    BY <2>1 DEF Shapes, LockProtects
  <2> QED
    BY <2>2, <2>4, <2>5, <2>6
<1>8. ASSUME NEW C, CallClose(C) PROVE NotifyInv'
  <2>1. /\ closeCalls' = closeCalls \cup C /\ \A c \in C : c \in Conns /\ Registered(c)
        /\ UNCHANGED <<conns, adding, accepting, notifyLk, notified, doClose>>
    BY <1>8 DEF CallClose
  <2> QED
    BY <2>1 DEF Shapes, Listed, Untouched, LockProtects, Registered
<1>9. ASSUME NEW c \in Conns, DoClose(c) PROVE NotifyInv'
  <2> DEFINE p == remotePeer[c]
  <2>1. p \in Peers /\ conns[p] \in Seq(Conns)
    BY DEF Shapes
  <2>2. /\ doClose' = [doClose EXCEPT ![c] = "removed"] /\ c \in closeCalls /\ doClose[c] = "open"
        /\ UNCHANGED <<adding, accepting, notifyLk, notified, closeCalls>>
    BY <1>9 DEF DoClose
  <2>3. /\ conns' \in [Peers -> Seq(Conns)]
        /\ \A q \in Peers : \A j \in 1..Len(conns'[q]) :
             \E k \in 1..Len(conns[q]) : conns'[q][j] = conns[q][k]
    <3>1. CASE \E i \in DOMAIN conns[p] : conns' = [conns EXCEPT ![p] = Without(@, i)]
      <4>1. PICK i \in DOMAIN conns[p] : conns' = [conns EXCEPT ![p] = Without(@, i)]
        BY <3>1
      <4>2. i \in 1..Len(conns[p])
        BY <2>1, <4>1
      <4> DEFINE w == Without(conns[p], i)
      <4>3. /\ w \in Seq(Conns)
            /\ Len(w) = Len(conns[p]) - 1
            /\ \A j \in 1..(Len(conns[p]) - 1) :
                 \E k \in 1..Len(conns[p]) : w[j] = conns[p][k]
        <5> HIDE DEF p
        <5> QED
          BY <2>1, <4>2, WithoutListed
      <4>4. conns' = [conns EXCEPT ![p] = w]
        BY <4>1
      <4> HIDE DEF p, w
      <4>5. conns' \in [Peers -> Seq(Conns)]
        BY <2>1, <4>3, <4>4 DEF Shapes
      <4>6. ASSUME NEW q \in Peers, NEW j \in 1..Len(conns'[q])
            PROVE  \E k \in 1..Len(conns[q]) : conns'[q][j] = conns[q][k]
        <5>1. CASE q = p
          <6>1. conns'[q] = w
            BY <2>1, <4>4, <5>1 DEF Shapes
          <6> QED
            BY <4>3, <5>1, <6>1
        <5>2. CASE q # p
          <6>1. conns'[q] = conns[q]
            BY <4>4, <5>2 DEF Shapes
          <6> QED
            BY <6>1
        <5> QED
          BY <5>1, <5>2
      <4> QED
        BY <4>5, <4>6
    <3>2. CASE conns' = conns
      BY <3>2 DEF Shapes
    <3> QED
      BY <1>9, <3>1, <3>2 DEF DoClose, removeConn
  <2>4. \A q \in Peers : \A j \in 1..Len(conns[q]) : conns[q][j] \in Conns
    BY DEF Shapes
  <2>5. \A d \in Conns : Registered(d)' = Registered(d)
    BY <2>2 DEF Registered
  <2>6. Listed'
    BY <2>3, <2>4, <2>5 DEF Listed
  <2>7. Shapes'
    BY <2>2, <2>3 DEF Shapes
  <2>8. Untouched' /\ LockProtects'
    BY <2>2, <2>5 DEF Shapes, Untouched, LockProtects
  <2> QED
    BY <2>6, <2>7, <2>8
<1>10. ASSUME NEW c \in Conns, Detach(c) \/ CloseTransport(c) \/ StreamsReset(c) PROVE NotifyInv'
  <2>1. /\ \E x \in {"detached", "resetting", "closed"} : doClose' = [doClose EXCEPT ![c] = x]
        /\ doClose[c] \notin {"open", "done"}
        /\ UNCHANGED <<conns, adding, accepting, notifyLk, notified, closeCalls>>
    BY <1>10 DEF Detach, CloseTransport, StreamsReset
  <2>2. Shapes'
    BY <2>1 DEF Shapes
  <2>3. \A d \in Conns : Registered(d)' = Registered(d)
    BY <2>1 DEF Registered
  <2>4. Listed'
    BY <2>1, <2>3, ListedKept
  <2>5. Untouched' /\ LockProtects'
    BY <2>1, <2>3 DEF Shapes, Untouched, LockProtects
  <2> QED
    BY <2>2, <2>4, <2>5
<1>11. ASSUME NEW c \in Conns, NotifyDisconnected(c) PROVE NotifyInv'
  <2>1. /\ doClose[c] = "closed" /\ ~notifyLk[c]
        /\ doClose' = [doClose EXCEPT ![c] = "done"]
        /\ UNCHANGED <<conns, adding, accepting, notifyLk, closeCalls>>
    BY <1>11 DEF NotifyDisconnected
  <2>2. adding[c] \in {"notified", "added"} /\ notified[c] = <<"Connected">>
    BY <2>1 DEF Shapes, Untouched, LockProtects, Registered
  <2>3. notified' = [notified EXCEPT ![c] = <<"Connected", "Disconnected">>]
    <3>1. Append(<<"Connected">>, "Disconnected") = <<"Connected", "Disconnected">>
      BY AppendToOne
    <3> QED
      BY <1>11, <2>2, <3>1 DEF NotifyDisconnected
  <2>4. Shapes'
    BY <2>1, <2>3 DEF Shapes
  <2>5. \A d \in Conns : Registered(d)' = Registered(d)
    BY <2>1 DEF Registered
  <2>6. Listed'
    BY <2>1, <2>5, ListedKept
  <2>7. Untouched' /\ LockProtects'
    BY <2>1, <2>2, <2>3, <2>5 DEF Shapes, Untouched, LockProtects, Registered
  <2> QED
    BY <2>4, <2>6, <2>7
<1>12. CASE CloseConns
  <2>1. \A p \in Peers : \A c \in Members(conns[p]) : c \in Conns /\ Registered(c)
    <3>1. \A p \in Peers : DOMAIN conns[p] = 1..Len(conns[p])
      BY DEF Shapes
    <3>2. \A p \in Peers : \A i \in 1..Len(conns[p]) : conns[p][i] \in Conns /\ Registered(conns[p][i])
      BY DEF Shapes, Listed
    <3> QED
      BY <3>1, <3>2 DEF Members
  <2>2. /\ conns' = [p \in Peers |-> <<>>]
        /\ closeCalls' = closeCalls \cup (UNION {Members(conns[p]) : p \in Peers})
        /\ UNCHANGED <<adding, accepting, notifyLk, notified, doClose>>
    BY <1>12 DEF CloseConns
  <2>3. \A c \in closeCalls' : c \in closeCalls \/ (c \in Conns /\ Registered(c))
    BY <2>1, <2>2
  <2>4. Shapes' /\ Listed'
    BY <2>2, <2>3 DEF Shapes, Listed
  <2>5. Untouched' /\ LockProtects'
    BY <2>2, <2>3 DEF Shapes, Untouched, LockProtects, Registered
  <2> QED
    BY <2>4, <2>5
<1>13. ASSUME NEW l \in Listeners,
              AddListenAddr(l) \/ ListenClose(l) \/ ListenerFails(l) \/ AcceptLoopEnds(l)
       PROVE  UNCHANGED <<connVars>>
  BY <1>13 DEF AddListenAddr, ListenClose, ListenerFails, AcceptLoopEnds
<1>14. ASSUME NEW s \in Streams,
              \/ StreamNext(s)
              \/ \E c \in Conns : AcceptStream(c, s) \/ NewStream(c, s) \/ ResetReturns(c, s)
       PROVE  UNCHANGED <<connVars>>
  BY <1>14 DEF StreamNext, AddStream, AddStreamFails, RemoveStream, ScopeDone, StreamDone,
               AcceptStream, NewStream, ResetReturns
<1>15. CASE Close \/ CloseListeners \/ Wait
  BY <1>1, <1>15 DEF Close, CloseListeners, Wait
<1>16. CASE UNCHANGED vars
  BY <1>1, <1>16 DEF vars
<1>17. ASSUME NEW p \in Peers, ClosePeer(p) PROVE NotifyInv'
  BY <1>8, <1>17 DEF ClosePeer
<1>18. ASSUME NEW l \in Listeners, ListenerNext(l) PROVE NotifyInv'
  BY <1>1, <1>2, <1>13, <1>18 DEF ListenerNext
<1>19. ASSUME NEW c \in Conns, ConnNext(c) PROVE NotifyInv'
  BY <1>1, <1>2, <1>3, <1>4, <1>5, <1>6, <1>7, <1>8, <1>9, <1>10, <1>11, <1>14, <1>19 DEF ConnNext
<1> QED
  BY <1>1, <1>12, <1>14, <1>15, <1>16, <1>17, <1>18, <1>19 DEF Next, CloseNext

\* Every notifiee hears Connected before Disconnected, and each once (addConn takes
\* notifyLk before it releases the lock of conns; doClose's goroutine waits for it).
THEOREM NotificationOrder == Spec => []ConnectedThenDisconnected
<1>1. NotifyInv => ConnectedThenDisconnected
  <2> SUFFICES ASSUME NotifyInv, NEW c \in Conns
               PROVE  notified[c] \in {<<>>, <<"Connected">>, <<"Connected", "Disconnected">>}
    BY DEF ConnectedThenDisconnected
  <2>1. CASE Registered(c) /\ adding[c] # "notify"
    BY <2>1 DEF NotifyInv, LockProtects, Registered
  <2>2. CASE adding[c] = "notify"
    BY <2>2 DEF NotifyInv, LockProtects
  <2>3. CASE ~Registered(c)
    BY <2>3 DEF NotifyInv, Untouched
  <2> QED
    BY <2>1, <2>2, <2>3
<1> QED
  BY <1>1, NotifyInit, NotifyStep, PTL DEF Spec

----------------------------------------------------------------------------
(* What ends, ends in order.  The wait group counts the members of six     *)
(* sets, and no step that follows the return of Close adds to one of them. *)

Accepters == {l \in Listeners : listening[l] = "accepting"}
Adders == {c \in Inbound : adding[c] \in {"new", "notify", "notified"}}
Unreported == {c \in Conns : Registered(c) /\ doClose[c] # "done"}
Serving == {c \in Conns : Registered(c) /\ accepting[c] # "exited"}
Handled == {s \in Streams \ outbound : stream[s] = "new"}
Streaming == {s \in Streams : stream[s] \in {"open", "removed", "released"}}

RefsCounted ==
  refs = Cardinality(Accepters) + Cardinality(Adders) + Cardinality(Unreported)
         + Cardinality(Serving) + Cardinality(Handled) + Cardinality(Streaming)

OpenOn(c) == {s \in Streams : streamConn[s] = c /\ stream[s] = "open"}

\* The types of the variables that Shapes leaves out.
OtherShapes ==
  /\ closing \in {"open", "cancelled", "noListeners", "waiting", "closed"}
  /\ refs \in Int
  /\ listeners \subseteq Listeners /\ deaf \subseteq Listeners
  /\ listening \in [Listeners -> {"none", "accepting", "ended", "refused"}]
  /\ dead \subseteq Conns
  /\ numStreams \in [Conns -> Int]
  /\ resetting \in [Conns -> SUBSET Streams]
  /\ stream \in [Streams -> {"none", "new", "open", "refused", "removed", "released", "done"}]
  /\ streamConn \in [Streams -> Conns \cup {NoConn}]
  /\ outbound \subseteq Streams /\ scopes \subseteq Streams
  /\ lastEvent \in [Peers -> {"Connected", "NotConnected"}]

\* Streams have registered connections, which count them; when doClose has set streams.m
\* to nil it has taken those that are open.
StreamsOfConns ==
  /\ \A s \in Streams : /\ stream[s] # "none" => streamConn[s] \in Conns /\ Registered(streamConn[s])
                        /\ stream[s] = "none" => s \notin outbound
  /\ \A c \in Conns : numStreams[c] = Cardinality(OpenOn(c))
  /\ \A c \in Conns : doClose[c] \notin {"open", "removed"} => OpenOn(c) \subseteq resetting[c]
  /\ \A c \in Conns : doClose[c] \in {"closed", "done"} => resetting[c] = {}

\* Only what addConn has started is served, and Close returns when refs is zero.
ServedAndClosed ==
  /\ \A c \in Conns : accepting[c] # "none" => adding[c] = "added"
  /\ closing = "closed" => refs = 0

EndInv ==
  NotifyInv /\ OtherShapes /\ RefsCounted /\ StreamsOfConns /\ ServedAndClosed /\ EventsMatchConns

LEMMA CountedFinite ==
  /\ IsFiniteSet(Accepters) /\ IsFiniteSet(Adders) /\ IsFiniteSet(Unreported)
  /\ IsFiniteSet(Serving) /\ IsFiniteSet(Handled) /\ IsFiniteSet(Streaming)
  /\ Cardinality(Accepters) \in Nat /\ Cardinality(Adders) \in Nat
  /\ Cardinality(Unreported) \in Nat /\ Cardinality(Serving) \in Nat
  /\ Cardinality(Handled) \in Nat /\ Cardinality(Streaming) \in Nat
  /\ \A c : IsFiniteSet(OpenOn(c)) /\ Cardinality(OpenOn(c)) \in Nat
<1>1. /\ Accepters \subseteq Listeners /\ Adders \subseteq Conns /\ Unreported \subseteq Conns
      /\ Serving \subseteq Conns /\ Handled \subseteq Streams /\ Streaming \subseteq Streams
      /\ \A c : OpenOn(c) \subseteq Streams
  BY SwarmAssumption DEF Accepters, Adders, Unreported, Serving, Handled, Streaming, OpenOn
<1>2. /\ IsFiniteSet(Accepters) /\ IsFiniteSet(Adders) /\ IsFiniteSet(Unreported)
      /\ IsFiniteSet(Serving) /\ IsFiniteSet(Handled) /\ IsFiniteSet(Streaming)
      /\ \A c : IsFiniteSet(OpenOn(c))
  BY <1>1, SwarmAssumption, FS_Subset
<1> QED
  BY <1>2, FS_CardinalityType

LEMMA EndInit == Init => EndInv
<1> SUFFICES ASSUME Init PROVE EndInv
  OBVIOUS
<1>1. /\ \A l \in Listeners : listening[l] = "none"
      /\ \A c \in Conns : adding[c] = "none" /\ accepting[c] = "none" /\ doClose[c] = "open"
      /\ \A s \in Streams : stream[s] = "none"
  BY DEF Init
<1>2. Inbound \subseteq Conns
  BY SwarmAssumption
<1>3. /\ Accepters = {} /\ Adders = {} /\ Unreported = {} /\ Serving = {} /\ Handled = {}
      /\ Streaming = {} /\ \A c : OpenOn(c) = {}
  BY <1>1, <1>2
     DEF Accepters, Adders, Unreported, Serving, Handled, Streaming, OpenOn, Registered
<1>4. Cardinality({}) = 0
  BY FS_EmptySet
<1>5. RefsCounted
  BY <1>3, <1>4 DEF RefsCounted, Init
<1>6. OtherShapes
  BY DEF Init, OtherShapes
<1>7. StreamsOfConns
  <2>1. outbound = {} /\ \A c \in Conns : numStreams[c] = 0
    BY DEF Init
  <2> QED
    BY <1>1, <1>3, <1>4, <2>1 DEF StreamsOfConns
<1>8. ServedAndClosed
  BY <1>1 DEF Init, ServedAndClosed
<1>9. EventsMatchConns
  BY DEF Init, EventsMatchConns
<1> QED
  BY <1>5, <1>6, <1>7, <1>8, <1>9, NotifyInit DEF EndInv

\* The types are kept.
LEMMA OtherShapesStep == NotifyInv /\ OtherShapes /\ [Next]_vars => OtherShapes'
<1> SUFFICES ASSUME NotifyInv, OtherShapes, [Next]_vars PROVE OtherShapes'
  OBVIOUS
<1> USE SwarmAssumption
<1>0. \A c : CallerRef(c) \in Int /\ HandlerRef(c) \in Int
  BY DEF CallerRef, HandlerRef
<1>1. CASE \E l \in Listeners : ListenerNext(l)
  <2> PICK l \in Listeners : ListenerNext(l)
    BY <1>1
  <2>1. UNCHANGED <<closing, dead, numStreams, resetting, stream, streamConn, outbound, scopes, lastEvent>>
    BY DEF ListenerNext, AddListenAddr, ListenClose, ListenerFails, AcceptLoopEnds, Accept,
           connVars, streamVars, swarmVars
  <2>2. listeners' \subseteq Listeners /\ deaf' \subseteq Listeners
    BY DEF OtherShapes, ListenerNext, AddListenAddr, ListenClose, ListenerFails, AcceptLoopEnds,
           Accept, listenVars
  <2>3. listening' \in [Listeners -> {"none", "accepting", "ended", "refused"}]
    BY DEF OtherShapes, ListenerNext, AddListenAddr, ListenClose, ListenerFails, AcceptLoopEnds,
           Accept, listenVars
  <2>4. refs' \in Int
    BY DEF OtherShapes, ListenerNext, AddListenAddr, ListenClose, ListenerFails, AcceptLoopEnds,
           Accept, swarmVars
  <2> QED
    BY <2>1, <2>2, <2>3, <2>4 DEF OtherShapes
<1>2. ASSUME NEW c \in Conns,
             \/ Dialed(c) \/ AddConn(c) \/ RefuseConn(c) \/ NotifyConnected(c) \/ Start(c)
             \/ ConnDies(c) \/ AcceptStreamFails(c) \/ CloseTransport(c)
             \/ StreamsReset(c) \/ NotifyDisconnected(c) \/ StartExits(c)
      PROVE  OtherShapes'
  <2>1. UNCHANGED <<closing, listeners, deaf, listening, numStreams, resetting, stream, streamConn,
                    outbound, scopes>>
    BY <1>2 DEF Dialed, AddConn, RefuseConn, NotifyConnected, Start, ConnDies, AcceptStreamFails,
           CloseTransport, StreamsReset, NotifyDisconnected, StartExits, listenVars, streamVars, swarmVars
  <2>2. refs' \in Int
    BY <1>0, <1>2 DEF OtherShapes, Dialed, AddConn, RefuseConn, NotifyConnected, Start, ConnDies,
           AcceptStreamFails, CloseTransport, StreamsReset, NotifyDisconnected, StartExits, swarmVars,
           TwoRefs
  <2>3. dead' \subseteq Conns
    BY <1>2 DEF OtherShapes, Dialed, AddConn, RefuseConn, NotifyConnected, Start, ConnDies,
           AcceptStreamFails, CloseTransport, StreamsReset, NotifyDisconnected, StartExits
  <2>4. lastEvent' \in [Peers -> {"Connected", "NotConnected"}]
    <3>1. CASE AddConn(c)
      BY <3>1 DEF OtherShapes, AddConn
    <3>2. CASE ~AddConn(c)
      <4>1. lastEvent' = lastEvent
        BY <1>2, <3>2 DEF Dialed, RefuseConn, NotifyConnected, Start, ConnDies,
           AcceptStreamFails, CloseTransport, StreamsReset, NotifyDisconnected, StartExits
      <4> QED
        BY <4>1 DEF OtherShapes
    <3> QED
      BY <3>1, <3>2
  <2> QED
    BY <2>1, <2>2, <2>3, <2>4 DEF OtherShapes
<1>3. ASSUME NEW C, CallClose(C)
      PROVE  OtherShapes'
  BY <1>3 DEF CallClose, OtherShapes, swarmVars, listenVars, streamVars
<1>4. ASSUME NEW c \in Conns, DoClose(c)
      PROVE  OtherShapes'
  <2>1. UNCHANGED <<swarmVars, listenVars, dead, streamVars>>
    BY <1>4 DEF DoClose
  <2>2. lastEvent' \in [Peers -> {"Connected", "NotConnected"}]
    BY <1>4 DEF OtherShapes, DoClose, removeConn
  <2> QED
    BY <2>1, <2>2 DEF OtherShapes, swarmVars, listenVars, streamVars
<1>5. ASSUME NEW c \in Conns, Detach(c)
      PROVE  OtherShapes'
  BY <1>5 DEF OtherShapes, Detach, swarmVars, listenVars
<1>6. ASSUME NEW c \in Conns, NEW s \in Streams, AcceptStream(c, s) \/ NewStream(c, s) \/ ResetReturns(c, s)
      PROVE  OtherShapes'
  BY <1>6 DEF OtherShapes, AcceptStream, NewStream, ResetReturns, swarmVars, listenVars, connVars
<1>7. ASSUME NEW s \in Streams, StreamNext(s)
      PROVE  OtherShapes'
  <2>1. UNCHANGED <<closing, listenVars, dead, lastEvent, resetting, streamConn, outbound>>
    BY <1>7 DEF StreamNext, AddStream, AddStreamFails, RemoveStream, ScopeDone, StreamDone, connVars, swarmVars
  <2>2. stream' \in [Streams -> {"none", "new", "open", "refused", "removed", "released", "done"}]
    BY <1>7 DEF OtherShapes, StreamNext, AddStream, AddStreamFails, RemoveStream, ScopeDone, StreamDone
  <2>3. scopes' \subseteq Streams
    BY <1>7 DEF OtherShapes, StreamNext, AddStream, AddStreamFails, RemoveStream, ScopeDone, StreamDone
  <2>4. refs' \in Int
    BY <1>0, <1>7 DEF OtherShapes, StreamNext, AddStream, AddStreamFails, RemoveStream, ScopeDone,
           StreamDone, swarmVars, CountStream
  <2>5. numStreams' \in [Conns -> Int]
    <3>1. \/ numStreams' = numStreams
          \/ \E d : numStreams' = [numStreams EXCEPT ![d] = @ + 1]
          \/ \E d : numStreams' = [numStreams EXCEPT ![d] = @ - 1]
      BY <1>7 DEF StreamNext, AddStream, AddStreamFails, RemoveStream, ScopeDone, StreamDone
    <3>2. numStreams \in [Conns -> Int]
      BY DEF OtherShapes
    <3> QED
      BY <3>1, <3>2
  <2> QED
    BY <2>1, <2>2, <2>3, <2>4, <2>5 DEF OtherShapes, listenVars
<1>8. CASE CloseNext
  BY <1>8 DEF OtherShapes, CloseNext, Close, CloseListeners, CloseConns, Wait, listenVars, connVars, streamVars
<1>9. CASE UNCHANGED vars
  BY <1>9 DEF OtherShapes, vars, swarmVars, listenVars, connVars, streamVars
<1> QED
  BY <1>1, <1>2, <1>3, <1>4, <1>5, <1>6, <1>7, <1>8, <1>9 DEF Next, ConnNext, ClosePeer

\* What changes none of the six sets leaves refs alone.
LEMMA SetsKept ==
  ASSUME RefsCounted, refs' = refs, Accepters' = Accepters, Adders' = Adders,
         Unreported' = Unreported, Serving' = Serving, Handled' = Handled, Streaming' = Streaming
  PROVE  RefsCounted'
  BY DEF RefsCounted

\* Every reference is taken and given up once.
LEMMA RefsStep ==
  ASSUME NotifyInv, OtherShapes, RefsCounted, StreamsOfConns, ServedAndClosed, [Next]_vars
  PROVE  RefsCounted'
<1> USE SwarmAssumption
<1>1. /\ listening \in [Listeners -> {"none", "accepting", "ended", "refused"}]
      /\ stream \in [Streams -> {"none", "new", "open", "refused", "removed", "released", "done"}]
      /\ refs \in Int /\ outbound \subseteq Streams
  BY DEF OtherShapes
<1>2. /\ adding \in [Conns -> {"none", "new", "refused", "notify", "notified", "added"}]
      /\ accepting \in [Conns -> {"none", "accepting", "closing", "exited"}]
      /\ doClose \in [Conns -> {"open", "removed", "detached", "resetting", "closed", "done"}]
  BY DEF NotifyInv, Shapes
<1>3. /\ IsFiniteSet(Accepters) /\ IsFiniteSet(Adders) /\ IsFiniteSet(Unreported)
      /\ IsFiniteSet(Serving) /\ IsFiniteSet(Handled) /\ IsFiniteSet(Streaming)
      /\ Cardinality(Accepters) \in Nat /\ Cardinality(Adders) \in Nat
      /\ Cardinality(Unreported) \in Nat /\ Cardinality(Serving) \in Nat
      /\ Cardinality(Handled) \in Nat /\ Cardinality(Streaming) \in Nat
  BY CountedFinite
<1>4. \A c \in Conns : ~Registered(c) => accepting[c] = "none" /\ doClose[c] = "open"
  BY DEF NotifyInv, Untouched
\* The sets depend on these variables only.
<1>5. /\ listening' = listening => Accepters' = Accepters
      /\ adding' = adding => Adders' = Adders
      /\ adding' = adding /\ doClose' = doClose => Unreported' = Unreported
      /\ adding' = adding /\ accepting' = accepting => Serving' = Serving
      /\ stream' = stream /\ outbound' = outbound => Handled' = Handled
      /\ stream' = stream => Streaming' = Streaming
  BY DEF Accepters, Adders, Unreported, Serving, Handled, Streaming, Registered
<1>6. CASE \E l \in Listeners : ListenerNext(l)
  <2> PICK l \in Listeners : ListenerNext(l)
    BY <1>6
  <2>0. UNCHANGED <<doClose, accepting, stream, outbound>>
    BY DEF ListenerNext, AddListenAddr, ListenClose, ListenerFails, AcceptLoopEnds, Accept, connVars, streamVars
  <2>1. CASE AddListenAddr(l)
    <3>0. adding' = adding
      BY <2>1 DEF AddListenAddr, connVars
    <3>1. CASE MayListen
      <4>1. refs' = refs + 1 /\ listening[l] = "none" /\ listening' = [listening EXCEPT ![l] = "accepting"]
        BY <2>1, <3>1 DEF AddListenAddr
      <4>2. Accepters' = Accepters \cup {l} /\ l \notin Accepters
        BY <1>1, <4>1 DEF Accepters
      <4>3. Cardinality(Accepters') = Cardinality(Accepters) + 1
        BY <1>3, <4>2, FS_AddElement
      <4> QED
        BY <1>1, <1>3, <1>5, <2>0, <3>0, <4>1, <4>3 DEF RefsCounted
    <3>2. CASE ~MayListen
      <4>1. refs' = refs /\ listening[l] = "none" /\ listening' = [listening EXCEPT ![l] = "refused"]
        BY <2>1, <3>2 DEF AddListenAddr
      <4>2. Accepters' = Accepters
        BY <1>1, <4>1 DEF Accepters
      <4> QED
        BY <1>5, <2>0, <3>0, <4>1, <4>2, SetsKept
    <3> QED
      BY <3>1, <3>2
  <2>2. CASE ListenClose(l) \/ ListenerFails(l)
    <3>1. UNCHANGED <<refs, listening, adding>>
      BY <2>2 DEF ListenClose, ListenerFails, swarmVars, connVars
    <3> QED
      BY <1>5, <2>0, <3>1, SetsKept
  <2>3. CASE AcceptLoopEnds(l)
    <3>1. /\ refs' = refs - 1 /\ listening[l] = "accepting" /\ adding' = adding
          /\ listening' = [listening EXCEPT ![l] = "ended"]
      BY <2>3 DEF AcceptLoopEnds, connVars
    <3>2. Accepters' = Accepters \ {l} /\ l \in Accepters
      BY <1>1, <3>1 DEF Accepters
    <3>3. Cardinality(Accepters') = Cardinality(Accepters) - 1
      BY <1>3, <3>2, FS_RemoveElement
    <3> QED
      BY <1>1, <1>3, <1>5, <2>0, <3>1, <3>3 DEF RefsCounted
  <2>4. CASE \E c \in Conns : Accept(l, c)
    <3> PICK c \in Conns : Accept(l, c)
      BY <2>4
    <3>1. /\ refs' = refs + 1 /\ c \in Inbound /\ adding[c] = "none"
          /\ adding' = [adding EXCEPT ![c] = "new"] /\ listening' = listening
      BY DEF Accept, listenVars
    <3>2. Adders' = Adders \cup {c} /\ c \notin Adders
      BY <1>2, <3>1 DEF Adders
    <3>3. Cardinality(Adders') = Cardinality(Adders) + 1
      BY <1>3, <3>2, FS_AddElement
    <3>4. Unreported' = Unreported /\ Serving' = Serving
      BY <1>2, <2>0, <3>1 DEF Unreported, Serving, Registered
    <3> QED
      BY <1>1, <1>3, <1>5, <2>0, <3>1, <3>3, <3>4 DEF RefsCounted
  <2> QED
    BY <2>1, <2>2, <2>3, <2>4 DEF ListenerNext
<1>7. ASSUME NEW c \in Conns, Dialed(c)
      PROVE  RefsCounted'
  <2>1. /\ c \notin Inbound /\ adding[c] = "none" /\ adding' = [adding EXCEPT ![c] = "new"]
        /\ UNCHANGED <<refs, listening, doClose, accepting, stream, outbound>>
    BY <1>7 DEF Dialed, swarmVars, listenVars, streamVars
  <2>2. Adders' = Adders /\ Unreported' = Unreported /\ Serving' = Serving
    BY <1>2, <2>1 DEF Adders, Unreported, Serving, Registered
  <2> QED
    BY <1>5, <2>1, <2>2, SetsKept
<1>8. ASSUME NEW c \in Conns, AddConn(c)
      PROVE  RefsCounted'
  <2>1. /\ adding[c] = "new" /\ adding' = [adding EXCEPT ![c] = "notify"] /\ refs' = refs + 2
        /\ UNCHANGED <<listening, doClose, accepting, stream, outbound>>
    BY <1>8 DEF AddConn, TwoRefs, listenVars, streamVars
  <2>2. Adders' = Adders
    BY <1>2, <2>1 DEF Adders
  <2>3. ~Registered(c) /\ doClose[c] = "open" /\ accepting[c] = "none"
    BY <1>4, <2>1 DEF Registered
  <2>4. Unreported' = Unreported \cup {c} /\ c \notin Unreported
    BY <1>2, <2>1, <2>3 DEF Unreported, Registered
  <2>5. Serving' = Serving \cup {c} /\ c \notin Serving
    BY <1>2, <2>1, <2>3 DEF Serving, Registered
  <2>6. /\ Cardinality(Unreported') = Cardinality(Unreported) + 1
        /\ Cardinality(Serving') = Cardinality(Serving) + 1
    BY <1>3, <2>4, <2>5, FS_AddElement
  <2> QED
    BY <1>1, <1>3, <1>5, <2>1, <2>2, <2>6 DEF RefsCounted
<1>9. ASSUME NEW c \in Conns, RefuseConn(c) \/ Start(c)
      PROVE  RefsCounted'
  <2>1. /\ adding[c] \in {"new", "notified"} /\ refs' = refs - CallerRef(c)
        /\ \/ adding[c] = "new" /\ adding' = [adding EXCEPT ![c] = "refused"] /\ accepting' = accepting
           \/ /\ adding[c] = "notified" /\ adding' = [adding EXCEPT ![c] = "added"]
              /\ accepting' = [accepting EXCEPT ![c] = "accepting"]
        /\ UNCHANGED <<listening, doClose, stream, outbound>>
    BY <1>9 DEF RefuseConn, Start, listenVars, streamVars
  <2>2. Unreported' = Unreported
    BY <1>2, <2>1 DEF Unreported, Registered
  <2>3. Serving' = Serving
    <3>1. adding[c] = "notified" => accepting[c] = "none"
      BY DEF ServedAndClosed
    <3> QED
      BY <1>2, <2>1, <3>1 DEF Serving, Registered
  <2>4. Cardinality(Adders') = Cardinality(Adders) - CallerRef(c)
    <3>1. CASE c \in Inbound
      <4>1. Adders' = Adders \ {c} /\ c \in Adders
        BY <1>2, <2>1, <3>1 DEF Adders
      <4>2. Cardinality(Adders') = Cardinality(Adders) - 1
        BY <1>3, <4>1, FS_RemoveElement
      <4> QED
        BY <3>1, <4>2 DEF CallerRef
    <3>2. CASE c \notin Inbound
      <4>1. Adders' = Adders
        BY <1>2, <2>1, <3>2 DEF Adders
      <4> QED
        BY <1>3, <3>2, <4>1 DEF CallerRef
    <3> QED
      BY <3>1, <3>2
  <2>5. CallerRef(c) \in Int
    BY DEF CallerRef
  <2> QED
    BY <1>1, <1>3, <1>5, <2>1, <2>2, <2>3, <2>4, <2>5 DEF RefsCounted
<1>10. ASSUME NEW c \in Conns, NotifyConnected(c)
       PROVE  RefsCounted'
  <2>1. /\ adding[c] = "notify" /\ adding' = [adding EXCEPT ![c] = "notified"]
        /\ UNCHANGED <<refs, listening, doClose, accepting, stream, outbound>>
    BY <1>10 DEF NotifyConnected, swarmVars, listenVars, streamVars
  <2>2. Adders' = Adders /\ Unreported' = Unreported /\ Serving' = Serving
    BY <1>2, <2>1 DEF Adders, Unreported, Serving, Registered
  <2> QED
    BY <1>5, <2>1, <2>2, SetsKept
<1>11. ASSUME NEW c \in Conns, \/ ConnDies(c) \/ AcceptStreamFails(c) \/ DoClose(c) \/ Detach(c)
                               \/ CloseTransport(c) \/ StreamsReset(c)
       PROVE  RefsCounted'
  <2>1. /\ UNCHANGED <<refs, listening, adding, stream, outbound>>
        /\ \/ doClose' = doClose
           \/ /\ doClose[c] # "done"
              /\ \E x \in {"removed", "detached", "resetting", "closed"} :
                   doClose' = [doClose EXCEPT ![c] = x]
        /\ \/ accepting' = accepting
           \/ accepting[c] = "accepting" /\ accepting' = [accepting EXCEPT ![c] = "closing"]
    BY <1>11 DEF ConnDies, AcceptStreamFails, DoClose, Detach, CloseTransport, StreamsReset,
       swarmVars, listenVars, streamVars
  <2>2. Unreported' = Unreported
    BY <1>2, <2>1 DEF Unreported, Registered
  <2>3. Serving' = Serving
    BY <1>2, <2>1 DEF Serving, Registered
  <2> QED
    BY <1>5, <2>1, <2>2, <2>3, SetsKept
<1>12. ASSUME NEW C, CallClose(C)
       PROVE  RefsCounted'
  <2>1. UNCHANGED <<refs, listening, adding, doClose, accepting, stream, outbound>>
    BY <1>12 DEF CallClose, swarmVars, listenVars, streamVars
  <2> QED
    BY <1>5, <2>1, SetsKept
<1>13. ASSUME NEW c \in Conns, NotifyDisconnected(c)
       PROVE  RefsCounted'
  <2>1. /\ doClose[c] = "closed" /\ doClose' = [doClose EXCEPT ![c] = "done"] /\ refs' = refs - 1
        /\ UNCHANGED <<listening, adding, accepting, stream, outbound>>
    BY <1>13 DEF NotifyDisconnected, listenVars, streamVars
  <2>2. Registered(c)
    BY <1>4, <2>1
  <2>3. Unreported' = Unreported \ {c} /\ c \in Unreported
    BY <1>2, <2>1, <2>2 DEF Unreported, Registered
  <2>4. Cardinality(Unreported') = Cardinality(Unreported) - 1
    BY <1>3, <2>3, FS_RemoveElement
  <2> QED
    BY <1>1, <1>3, <1>5, <2>1, <2>4 DEF RefsCounted
<1>14. ASSUME NEW c \in Conns, StartExits(c)
       PROVE  RefsCounted'
  <2>1. /\ accepting[c] = "closing" /\ accepting' = [accepting EXCEPT ![c] = "exited"]
        /\ refs' = refs - 1 /\ UNCHANGED <<listening, adding, doClose, stream, outbound>>
    BY <1>14 DEF StartExits, listenVars, streamVars
  <2>2. Registered(c)
    BY <1>4, <2>1
  <2>3. Serving' = Serving \ {c} /\ c \in Serving
    BY <1>2, <2>1, <2>2 DEF Serving, Registered
  <2>4. Cardinality(Serving') = Cardinality(Serving) - 1
    BY <1>3, <2>3, FS_RemoveElement
  <2> QED
    BY <1>1, <1>3, <1>5, <2>1, <2>4 DEF RefsCounted
<1>15. ASSUME NEW c \in Conns, NEW s \in Streams, AcceptStream(c, s)
       PROVE  RefsCounted'
  <2>1. /\ stream[s] = "none" /\ stream' = [stream EXCEPT ![s] = "new"] /\ refs' = refs + 1
        /\ UNCHANGED <<listening, adding, doClose, accepting, outbound>>
    BY <1>15 DEF AcceptStream, listenVars, connVars
  <2>2. s \notin outbound
    BY <2>1 DEF StreamsOfConns
  <2>3. Handled' = Handled \cup {s} /\ s \notin Handled /\ Streaming' = Streaming
    BY <1>1, <2>1, <2>2 DEF Handled, Streaming
  <2>4. Cardinality(Handled') = Cardinality(Handled) + 1
    BY <1>3, <2>3, FS_AddElement
  <2> QED
    BY <1>1, <1>3, <1>5, <2>1, <2>3, <2>4 DEF RefsCounted
<1>16. ASSUME NEW c \in Conns, NEW s \in Streams, NewStream(c, s)
       PROVE  RefsCounted'
  <2>1. /\ stream[s] = "none" /\ stream' = [stream EXCEPT ![s] = "new"] /\ refs' = refs
        /\ outbound' = outbound \cup {s} /\ UNCHANGED <<listening, adding, doClose, accepting>>
    BY <1>16 DEF NewStream, swarmVars, listenVars, connVars
  <2>2. Handled' = Handled /\ Streaming' = Streaming
    BY <1>1, <2>1 DEF Handled, Streaming
  <2> QED
    BY <1>5, <2>1, <2>2, SetsKept
<1>17. ASSUME NEW c \in Conns, NEW s \in Streams, ResetReturns(c, s)
       PROVE  RefsCounted'
  <2>1. UNCHANGED <<refs, listening, adding, doClose, accepting, stream, outbound>>
    BY <1>17 DEF ResetReturns, swarmVars, listenVars, connVars
  <2> QED
    BY <1>5, <2>1, SetsKept
<1>18. ASSUME NEW s \in Streams, AddStream(s)
       PROVE  RefsCounted'
  <2>1. /\ stream[s] = "new" /\ stream' = [stream EXCEPT ![s] = "open"]
        /\ refs' = refs + 1 - HandlerRef(s)
        /\ UNCHANGED <<listening, adding, doClose, accepting, outbound>>
    BY <1>18 DEF AddStream, CountStream, listenVars, connVars
  <2>2. Streaming' = Streaming \cup {s} /\ s \notin Streaming
    BY <1>1, <2>1 DEF Streaming
  <2>3. Cardinality(Streaming') = Cardinality(Streaming) + 1
    BY <1>3, <2>2, FS_AddElement
  <2>4. CASE s \in outbound
    <3>1. Handled' = Handled /\ HandlerRef(s) = 0
      BY <1>1, <2>1, <2>4 DEF Handled, HandlerRef
    <3> QED
      BY <1>1, <1>3, <1>5, <2>1, <2>3, <3>1 DEF RefsCounted
  <2>5. CASE s \notin outbound
    <3>1. Handled' = Handled \ {s} /\ s \in Handled /\ HandlerRef(s) = 1
      BY <1>1, <2>1, <2>5 DEF Handled, HandlerRef
    <3>2. Cardinality(Handled') = Cardinality(Handled) - 1
      BY <1>3, <3>1, FS_RemoveElement
    <3> QED
      BY <1>1, <1>3, <1>5, <2>1, <2>3, <3>1, <3>2 DEF RefsCounted
  <2> QED
    BY <2>4, <2>5
<1>19. ASSUME NEW s \in Streams, AddStreamFails(s)
       PROVE  RefsCounted'
  <2>1. /\ stream[s] = "new" /\ stream' = [stream EXCEPT ![s] = "refused"]
        /\ refs' = refs - HandlerRef(s)
        /\ UNCHANGED <<listening, adding, doClose, accepting, outbound>>
    BY <1>19 DEF AddStreamFails, listenVars, connVars
  <2>2. Streaming' = Streaming
    BY <1>1, <2>1 DEF Streaming
  <2>3. CASE s \in outbound
    <3>1. Handled' = Handled /\ HandlerRef(s) = 0
      BY <1>1, <2>1, <2>3 DEF Handled, HandlerRef
    <3> QED
      BY <1>1, <1>3, <1>5, <2>1, <2>2, <3>1 DEF RefsCounted
  <2>4. CASE s \notin outbound
    <3>1. Handled' = Handled \ {s} /\ s \in Handled /\ HandlerRef(s) = 1
      BY <1>1, <2>1, <2>4 DEF Handled, HandlerRef
    <3>2. Cardinality(Handled') = Cardinality(Handled) - 1
      BY <1>3, <3>1, FS_RemoveElement
    <3> QED
      BY <1>1, <1>3, <1>5, <2>1, <2>2, <3>1, <3>2 DEF RefsCounted
  <2> QED
    BY <2>3, <2>4
<1>20. ASSUME NEW s \in Streams, RemoveStream(s) \/ ScopeDone(s)
       PROVE  RefsCounted'
  <2>1. /\ UNCHANGED <<refs, listening, adding, doClose, accepting, outbound>>
        /\ stream[s] \in {"open", "removed"}
        /\ \E x \in {"removed", "released"} : stream' = [stream EXCEPT ![s] = x]
    BY <1>20 DEF RemoveStream, ScopeDone, swarmVars, listenVars, connVars
  <2>2. Handled' = Handled /\ Streaming' = Streaming
    BY <1>1, <2>1 DEF Handled, Streaming
  <2> QED
    BY <1>5, <2>1, <2>2, SetsKept
<1>21. ASSUME NEW s \in Streams, StreamDone(s)
       PROVE  RefsCounted'
  <2>1. /\ stream[s] = "released" /\ stream' = [stream EXCEPT ![s] = "done"] /\ refs' = refs - 1
        /\ UNCHANGED <<listening, adding, doClose, accepting, outbound>>
    BY <1>21 DEF StreamDone, listenVars, connVars
  <2>2. Handled' = Handled /\ Streaming' = Streaming \ {s} /\ s \in Streaming
    BY <1>1, <2>1 DEF Handled, Streaming
  <2>3. Cardinality(Streaming') = Cardinality(Streaming) - 1
    BY <1>3, <2>2, FS_RemoveElement
  <2> QED
    BY <1>1, <1>3, <1>5, <2>1, <2>2, <2>3 DEF RefsCounted
<1>22. CASE CloseNext \/ UNCHANGED vars
  <2>1. UNCHANGED <<refs, listening, adding, doClose, accepting, stream, outbound>>
    BY <1>22 DEF CloseNext, Close, CloseListeners, CloseConns, Wait, vars, swarmVars, listenVars,
                 connVars, streamVars
  <2> QED
    BY <1>5, <2>1, SetsKept
<1>23. ASSUME NEW c \in Conns, ConnNext(c)
       PROVE  RefsCounted'
  BY <1>7, <1>8, <1>9, <1>10, <1>11, <1>12, <1>13, <1>14, <1>15, <1>16, <1>17, <1>23 DEF ConnNext
<1>24. ASSUME NEW s \in Streams, StreamNext(s)
       PROVE  RefsCounted'
  BY <1>18, <1>19, <1>20, <1>21, <1>24 DEF StreamNext
<1> QED
  BY <1>6, <1>12, <1>22, <1>23, <1>24 DEF Next, ClosePeer

\* What leaves the streams alone.
LEMMA StreamsKept ==
  ASSUME OtherShapes, StreamsOfConns,
         UNCHANGED <<stream, streamConn, outbound, numStreams, resetting>>,
         \A c \in Conns : Registered(c) => Registered(c)',
         \A c \in Conns : doClose'[c] # doClose[c] => 
           \/ doClose'[c] \in {"open", "removed"}
           \/ doClose[c] \notin {"open", "removed"} /\ (doClose'[c] \in {"closed", "done"} => resetting[c] = {})
  PROVE  StreamsOfConns'
<1>1. \A c : OpenOn(c)' = OpenOn(c)
  BY DEF OpenOn
<1>2. \A s \in Streams : streamConn'[s] = streamConn[s]
  OBVIOUS
<1>3. \A c \in Conns : doClose'[c] \notin {"open", "removed"} => OpenOn(c) \subseteq resetting[c]
  BY DEF StreamsOfConns
<1>4. \A c \in Conns : doClose'[c] \in {"closed", "done"} => resetting[c] = {}
  BY DEF StreamsOfConns
<1>5. \A s \in Streams : stream[s] # "none" => streamConn[s] \in Conns /\ Registered(streamConn[s])'
  BY DEF StreamsOfConns
<1> QED
  BY <1>1, <1>3, <1>4, <1>5 DEF StreamsOfConns

LEMMA StreamsStep ==
  ASSUME NotifyInv, OtherShapes, StreamsOfConns, [Next]_vars
  PROVE  StreamsOfConns'
<1> USE SwarmAssumption
<1>1. /\ stream \in [Streams -> {"none", "new", "open", "refused", "removed", "released", "done"}]
      /\ streamConn \in [Streams -> Conns \cup {NoConn}]
      /\ numStreams \in [Conns -> Int] /\ resetting \in [Conns -> SUBSET Streams]
  BY DEF OtherShapes
<1>2. /\ adding \in [Conns -> {"none", "new", "refused", "notify", "notified", "added"}]
      /\ doClose \in [Conns -> {"open", "removed", "detached", "resetting", "closed", "done"}]
  BY DEF NotifyInv, Shapes
<1>3. \A c : IsFiniteSet(OpenOn(c)) /\ Cardinality(OpenOn(c)) \in Nat
  BY CountedFinite
<1>4. CASE /\ UNCHANGED <<stream, streamConn, outbound, numStreams, resetting, doClose>>
           /\ \A c \in Conns : Registered(c) => Registered(c)'
  BY <1>4, StreamsKept
<1>5. CASE \E l \in Listeners : ListenerNext(l)
  <2>1. UNCHANGED <<stream, streamConn, outbound, numStreams, resetting, doClose>>
    BY <1>5 DEF ListenerNext, AddListenAddr, ListenClose, ListenerFails, AcceptLoopEnds, Accept, connVars, streamVars
  <2>2. \A c \in Conns : Registered(c) => Registered(c)'
    BY <1>2, <1>5 DEF ListenerNext, AddListenAddr, ListenClose, ListenerFails, AcceptLoopEnds, Accept, connVars,
       Registered
  <2> QED
    BY <1>4, <2>1, <2>2
<1>6. ASSUME NEW c \in Conns,
             \/ Dialed(c) \/ AddConn(c) \/ RefuseConn(c) \/ NotifyConnected(c) \/ Start(c)
             \/ ConnDies(c) \/ AcceptStreamFails(c) \/ StartExits(c)
      PROVE  StreamsOfConns'
  <2>1. UNCHANGED <<stream, streamConn, outbound, numStreams, resetting, doClose>>
    BY <1>6 DEF Dialed, AddConn, RefuseConn, NotifyConnected, Start, ConnDies, AcceptStreamFails,
           StartExits, streamVars
  <2>2. \/ adding' = adding
        \/ adding[c] = "none" /\ adding' = [adding EXCEPT ![c] = "new"]
        \/ adding[c] = "new" /\ adding' = [adding EXCEPT ![c] = "notify"]
        \/ adding[c] = "new" /\ adding' = [adding EXCEPT ![c] = "refused"]
        \/ adding[c] = "notify" /\ adding' = [adding EXCEPT ![c] = "notified"]
        \/ adding[c] = "notified" /\ adding' = [adding EXCEPT ![c] = "added"]
    BY <1>6 DEF Dialed, AddConn, RefuseConn, NotifyConnected, Start, ConnDies, AcceptStreamFails,
           StartExits
  <2>3. \A d \in Conns : Registered(d) => Registered(d)'
    BY <1>2, <2>2 DEF Registered
  <2> QED
    BY <1>4, <2>1, <2>3
<1>7. ASSUME NEW c \in Conns,
             DoClose(c) \/ CloseTransport(c) \/ StreamsReset(c) \/ NotifyDisconnected(c)
      PROVE  StreamsOfConns'
  <2>1. UNCHANGED <<adding, stream, streamConn, outbound, numStreams, resetting>>
    BY <1>7 DEF DoClose, CloseTransport, StreamsReset, NotifyDisconnected, streamVars
  <2>2. \A d \in Conns : Registered(d) => Registered(d)'
    BY <2>1 DEF Registered
  <2>3. \/ doClose' = [doClose EXCEPT ![c] = "removed"]
        \/ doClose[c] = "detached" /\ doClose' = [doClose EXCEPT ![c] = "resetting"]
        \/ doClose[c] = "resetting" /\ resetting[c] = {} /\ doClose' = [doClose EXCEPT ![c] = "closed"]
        \/ doClose[c] = "closed" /\ doClose' = [doClose EXCEPT ![c] = "done"]
    BY <1>7 DEF DoClose, CloseTransport, StreamsReset, NotifyDisconnected
  <2>4. doClose[c] = "closed" => resetting[c] = {}
    BY DEF StreamsOfConns
  <2>5. \A d \in Conns : doClose'[d] # doClose[d] =>
           \/ doClose'[d] \in {"open", "removed"}
           \/ doClose[d] \notin {"open", "removed"} /\ (doClose'[d] \in {"closed", "done"} => resetting[d] = {})
    BY <1>2, <2>3, <2>4
  <2> QED
    BY <2>1, <2>2, <2>5, StreamsKept
<1>8. ASSUME NEW c \in Conns, Detach(c)
      PROVE  StreamsOfConns'
  <2>1. /\ doClose' = [doClose EXCEPT ![c] = "detached"]
        /\ resetting' = [resetting EXCEPT ![c] = OpenOn(c)]
        /\ UNCHANGED <<adding, stream, streamConn, outbound, numStreams>>
    BY <1>8 DEF Detach, OpenOn
  <2>2. \A d : OpenOn(d)' = OpenOn(d)
    BY <2>1 DEF OpenOn
  <2>3. \A d \in Conns : Registered(d)' = Registered(d)
    BY <2>1 DEF Registered
  <2>4. \A d \in Conns : doClose'[d] \notin {"open", "removed"} => OpenOn(d) \subseteq resetting'[d]
    BY <1>1, <1>2, <2>1 DEF StreamsOfConns
  <2>5. \A d \in Conns : doClose'[d] \in {"closed", "done"} => resetting'[d] = {}
    BY <1>1, <1>2, <2>1 DEF StreamsOfConns
  <2>6. \A s \in Streams : /\ stream[s] # "none" => streamConn[s] \in Conns /\ Registered(streamConn[s])'
                           /\ stream[s] = "none" => s \notin outbound
    BY <2>1 DEF StreamsOfConns, Registered
  <2>7. \A d \in Conns : numStreams[d] = Cardinality(OpenOn(d))
    BY DEF StreamsOfConns
  <2> QED
    BY <2>1, <2>2, <2>4, <2>5, <2>6, <2>7 DEF StreamsOfConns
<1>9. ASSUME NEW C, CallClose(C)
      PROVE  StreamsOfConns'
  <2>1. UNCHANGED <<adding, stream, streamConn, outbound, numStreams, resetting, doClose>>
    BY <1>9 DEF CallClose, streamVars
  <2> QED
    BY <1>4, <2>1 DEF Registered
<1>10. ASSUME NEW c \in Conns, NEW s \in Streams, AcceptStream(c, s) \/ NewStream(c, s)
       PROVE  StreamsOfConns'
  <2>1. /\ stream[s] = "none" /\ stream' = [stream EXCEPT ![s] = "new"]
        /\ streamConn' = [streamConn EXCEPT ![s] = c]
        /\ \A r \in Streams : r \in outbound' => r = s \/ r \in outbound
        /\ UNCHANGED <<adding, doClose, numStreams, resetting>>
    BY <1>10 DEF AcceptStream, NewStream, connVars
  <2>2. Registered(c)
    <3>1. accepting[c] = "accepting" => Registered(c)
      BY DEF NotifyInv, Untouched
    <3> QED
      BY <1>10, <3>1 DEF AcceptStream, NewStream
  <2>3. \A d : OpenOn(d)' = OpenOn(d)
    BY <1>1, <2>1 DEF OpenOn
  <2>4. \A d \in Conns : Registered(d)' = Registered(d)
    BY <2>1 DEF Registered
  <2>5. \A r \in Streams : /\ stream'[r] # "none" => streamConn'[r] \in Conns /\ Registered(streamConn'[r])
                           /\ stream'[r] = "none" => r \notin outbound'
    <3> SUFFICES ASSUME NEW r \in Streams
                 PROVE  /\ stream'[r] # "none" => streamConn'[r] \in Conns /\ Registered(streamConn'[r])
                        /\ stream'[r] = "none" => r \notin outbound'
      OBVIOUS
    <3>1. CASE r = s
      BY <1>1, <2>1, <2>2, <3>1
    <3>2. CASE r # s
      <4>1. stream'[r] = stream[r] /\ streamConn'[r] = streamConn[r] /\ (r \in outbound' => r \in outbound)
        BY <1>1, <2>1, <3>2
      <4> QED
        BY <4>1 DEF StreamsOfConns
    <3> QED
      BY <3>1, <3>2
  <2>6. \A r \in Streams : /\ stream'[r] # "none" => streamConn'[r] \in Conns /\ Registered(streamConn[r])'
                           /\ stream'[r] = "none" => r \notin outbound'
    BY <2>1, <2>5 DEF Registered
  <2> QED
    BY <2>1, <2>3, <2>6 DEF StreamsOfConns
<1>11. ASSUME NEW c \in Conns, NEW s \in Streams, ResetReturns(c, s)
       PROVE  StreamsOfConns'
  <2>1. /\ resetting' = [resetting EXCEPT ![c] = @ \ {s}] /\ stream[s] = "done"
        /\ UNCHANGED <<adding, doClose, stream, streamConn, outbound, numStreams>>
    BY <1>11 DEF ResetReturns, connVars
  <2>2. \A d : OpenOn(d)' = OpenOn(d) /\ s \notin OpenOn(d)
    BY <2>1 DEF OpenOn
  <2>3. \A d \in Conns : Registered(d)' = Registered(d)
    BY <2>1 DEF Registered
  <2>4. \A d \in Conns : doClose[d] \notin {"open", "removed"} => OpenOn(d) \subseteq resetting'[d]
    BY <1>1, <2>1, <2>2 DEF StreamsOfConns
  <2>5. \A d \in Conns : doClose[d] \in {"closed", "done"} => resetting'[d] = {}
    BY <1>1, <2>1 DEF StreamsOfConns
  <2>6. \A r \in Streams : /\ stream[r] # "none" => streamConn[r] \in Conns /\ Registered(streamConn[r])'
                           /\ stream[r] = "none" => r \notin outbound
    BY <2>1 DEF StreamsOfConns, Registered
  <2>7. \A d \in Conns : numStreams[d] = Cardinality(OpenOn(d))
    BY DEF StreamsOfConns
  <2> QED
    BY <2>1, <2>2, <2>4, <2>5, <2>6, <2>7 DEF StreamsOfConns
<1>12. ASSUME NEW s \in Streams, StreamNext(s)
       PROVE  StreamsOfConns'
  <2>1. UNCHANGED <<adding, doClose, streamConn, outbound, resetting>>
    BY <1>12 DEF StreamNext, AddStream, AddStreamFails, RemoveStream, ScopeDone, StreamDone, connVars
  <2>2. stream[s] # "none" /\ \E x \in {"open", "refused", "removed", "released", "done"} :
          stream' = [stream EXCEPT ![s] = x]
    BY <1>12 DEF StreamNext, AddStream, AddStreamFails, RemoveStream, ScopeDone, StreamDone
  <2>3. PICK c \in Conns : c = streamConn[s]
    BY <2>2 DEF StreamsOfConns
  <2>4. \A d \in Conns : Registered(d)' = Registered(d)
    BY <2>1 DEF Registered
  <2>5. \A r \in Streams : /\ stream'[r] # "none" => streamConn[r] \in Conns /\ Registered(streamConn[r])'
                           /\ stream'[r] = "none" => r \notin outbound
    BY <1>1, <2>1, <2>2 DEF StreamsOfConns, Registered
  <2>6. \A d : d # c => OpenOn(d)' = OpenOn(d)
    BY <1>1, <2>1, <2>2, <2>3 DEF OpenOn
  <2>7. /\ \A d \in Conns : numStreams'[d] = Cardinality(OpenOn(d)')
        /\ \A d \in Conns : doClose[d] \notin {"open", "removed"} => OpenOn(d)' \subseteq OpenOn(d)
    <3>0. \A d \in Conns : numStreams[d] = Cardinality(OpenOn(d))
      BY DEF StreamsOfConns
    <3>1. CASE AddStream(s)
      <4>1. /\ stream[s] = "new" /\ StreamsOpen(c) /\ stream' = [stream EXCEPT ![s] = "open"]
            /\ numStreams' = [numStreams EXCEPT ![c] = @ + 1]
        BY <2>3, <3>1 DEF AddStream
      <4>2. OpenOn(c)' = OpenOn(c) \cup {s} /\ s \notin OpenOn(c)
        BY <1>1, <2>1, <2>3, <4>1 DEF OpenOn
      <4>3. Cardinality(OpenOn(c) \cup {s}) = Cardinality(OpenOn(c)) + 1
        BY <1>3, <4>2, FS_AddElement
      <4>4. \A d \in Conns : numStreams'[d] = Cardinality(OpenOn(d)')
        BY <1>1, <2>3, <2>6, <3>0, <4>1, <4>2, <4>3
      <4> QED
        BY <2>6, <4>1, <4>4 DEF StreamsOpen
    <3>2. CASE RemoveStream(s)
      <4>1. /\ stream[s] = "open" /\ stream' = [stream EXCEPT ![s] = "removed"]
            /\ numStreams' = [numStreams EXCEPT ![c] = @ - 1]
        BY <2>3, <3>2 DEF RemoveStream
      <4>2. OpenOn(c)' = OpenOn(c) \ {s} /\ s \in OpenOn(c)
        BY <1>1, <2>1, <2>3, <4>1 DEF OpenOn
      <4>3. Cardinality(OpenOn(c) \ {s}) = Cardinality(OpenOn(c)) - 1
        BY <1>3, <4>2, FS_RemoveElement
      <4>4. \A d \in Conns : numStreams'[d] = Cardinality(OpenOn(d)')
        BY <1>1, <2>3, <2>6, <3>0, <4>1, <4>2, <4>3
      <4> QED
        BY <2>6, <4>2, <4>4
    <3>3. CASE AddStreamFails(s) \/ ScopeDone(s) \/ StreamDone(s)
      <4>1. /\ stream[s] # "open" /\ numStreams' = numStreams
            /\ \E x \in {"refused", "released", "done"} : stream' = [stream EXCEPT ![s] = x]
        BY <3>3 DEF AddStreamFails, ScopeDone, StreamDone
      <4>2. OpenOn(c)' = OpenOn(c)
        BY <1>1, <2>1, <2>3, <4>1 DEF OpenOn
      <4> QED
        BY <2>6, <3>0, <4>1, <4>2
    <3> QED
      BY <1>12, <3>1, <3>2, <3>3 DEF StreamNext
  <2>8. \A d \in Conns : doClose[d] \notin {"open", "removed"} => OpenOn(d)' \subseteq resetting[d]
    BY <2>7 DEF StreamsOfConns
  <2>9. \A d \in Conns : doClose[d] \in {"closed", "done"} => resetting[d] = {}
    BY DEF StreamsOfConns
  <2> QED
    BY <2>1, <2>5, <2>7, <2>8, <2>9 DEF StreamsOfConns
<1>13. CASE CloseNext \/ UNCHANGED vars
  <2>1. UNCHANGED <<adding, stream, streamConn, outbound, numStreams, resetting, doClose>>
    BY <1>13 DEF CloseNext, Close, CloseListeners, CloseConns, Wait, vars, swarmVars, listenVars,
                 connVars, streamVars
  <2> QED
    BY <1>4, <2>1 DEF Registered
<1>14. ASSUME NEW c \in Conns, ConnNext(c)
       PROVE  StreamsOfConns'
  BY <1>6, <1>7, <1>8, <1>9, <1>10, <1>11, <1>14 DEF ConnNext
<1> QED
  BY <1>5, <1>9, <1>12, <1>13, <1>14 DEF Next, ClosePeer

\* When refs is zero, nobody holds a reference.
LEMMA NobodyHolds ==
  ASSUME RefsCounted, refs = 0
  PROVE  /\ Accepters = {} /\ Adders = {} /\ Unreported = {} /\ Serving = {} /\ Handled = {}
         /\ Streaming = {}
<1>1. \A S : IsFiniteSet(S) /\ Cardinality(S) = 0 => S = {}
  BY FS_EmptySet
<1>2. 0 = Cardinality(Accepters) + Cardinality(Adders) + Cardinality(Unreported)
          + Cardinality(Serving) + Cardinality(Handled) + Cardinality(Streaming)
  BY DEF RefsCounted
<1>3. PICK a, b, c, d, e, f \in Nat :
        /\ a = Cardinality(Accepters) /\ b = Cardinality(Adders) /\ c = Cardinality(Unreported)
        /\ d = Cardinality(Serving) /\ e = Cardinality(Handled) /\ f = Cardinality(Streaming)
  BY CountedFinite, Zenon
<1>4. 0 = a + b + c + d + e + f
  BY <1>2, <1>3, Zenon
<1>5. a = 0 /\ b = 0 /\ c = 0 /\ d = 0 /\ e = 0 /\ f = 0
  BY <1>4
<1> QED
  BY <1>1, <1>3, <1>5, CountedFinite

LEMMA ServedStep ==
  ASSUME EndInv, [Next]_vars
  PROVE  ServedAndClosed'
<1> USE SwarmAssumption
<1>1. /\ adding \in [Conns -> {"none", "new", "refused", "notify", "notified", "added"}]
      /\ accepting \in [Conns -> {"none", "accepting", "closing", "exited"}]
  BY DEF EndInv, NotifyInv, Shapes
<1>2. \A c \in Conns : accepting'[c] # "none" => adding'[c] = "added"
  <2>0. \A c \in Conns : accepting[c] # "none" => adding[c] = "added"
    BY DEF EndInv, ServedAndClosed
  <2>1. CASE accepting' = accepting /\ \A c \in Conns : adding[c] = "added" => adding'[c] = "added"
    BY <2>0, <2>1
  <2>2. ASSUME NEW c \in Conns, ConnNext(c)
        PROVE  \/ accepting' = accepting /\ \A d \in Conns : adding[d] = "added" => adding'[d] = "added"
               \/ adding' = adding /\ accepting[c] # "none" /\ \E x \in {"closing", "exited"} :
                    accepting' = [accepting EXCEPT ![c] = x]
               \/ Start(c)
    BY <1>1, <2>2 DEF ConnNext, Dialed, AddConn, RefuseConn, NotifyConnected, ConnDies, CallClose,
       AcceptStreamFails, DoClose, Detach, CloseTransport, StreamsReset, NotifyDisconnected,
       StartExits, AcceptStream, NewStream, ResetReturns, connVars
  <2>3. ASSUME NEW c \in Conns, Start(c)
        PROVE  \A d \in Conns : accepting'[d] # "none" => adding'[d] = "added"
    BY <1>1, <2>0, <2>3 DEF Start
  <2>4. ASSUME NEW c \in Conns, adding' = adding, accepting[c] # "none",
               \E x \in {"closing", "exited"} : accepting' = [accepting EXCEPT ![c] = x]
        PROVE  \A d \in Conns : accepting'[d] # "none" => adding'[d] = "added"
    BY <1>1, <2>0, <2>4
  <2>5. ASSUME NEW l \in Listeners, ListenerNext(l)
        PROVE  accepting' = accepting /\ \A c \in Conns : adding[c] = "added" => adding'[c] = "added"
    BY <1>1, <2>5 DEF ListenerNext, AddListenAddr, ListenClose, ListenerFails, AcceptLoopEnds, Accept, connVars
  <2>6. ASSUME NEW s \in Streams, StreamNext(s)
        PROVE  accepting' = accepting /\ adding' = adding
    BY <2>6 DEF StreamNext, AddStream, AddStreamFails, RemoveStream, ScopeDone, StreamDone, connVars
  <2>7. ASSUME CloseNext \/ UNCHANGED vars \/ \E p \in Peers : ClosePeer(p)
        PROVE  accepting' = accepting /\ adding' = adding
    BY <2>7 DEF CloseNext, Close, CloseListeners, CloseConns, Wait, vars, connVars, ClosePeer, CallClose
  <2> QED
    BY <2>1, <2>2, <2>3, <2>4, <2>5, <2>6, <2>7 DEF Next
\* When Close has returned, nobody is left who could take a reference.
<1>3. ASSUME closing = "closed"
      PROVE  refs' = refs /\ closing' = closing
  <2>2. /\ Accepters = {} /\ Adders = {} /\ Unreported = {} /\ Serving = {} /\ Handled = {}
        /\ Streaming = {}
    BY <1>3, NobodyHolds DEF EndInv, ServedAndClosed
  <2>3. ~MayListen /\ ~MayConnect
    BY <1>3 DEF MayListen, MayConnect
  <2>4. ASSUME NEW l \in Listeners, ListenerNext(l)
        PROVE  refs' = refs /\ closing' = closing
    <3>1. listening[l] # "accepting"
      BY <2>2 DEF Accepters
    <3> QED
      BY <2>3, <2>4, <3>1 DEF ListenerNext, AddListenAddr, ListenClose, ListenerFails, AcceptLoopEnds,
         Accept, swarmVars
  <2>5. ASSUME NEW c \in Conns, ConnNext(c)
        PROVE  refs' = refs /\ closing' = closing
    <3>1. accepting[c] \notin {"accepting", "closing"}
      <4>1. accepting[c] # "none" => Registered(c)
        BY DEF EndInv, NotifyInv, Untouched
      <4> QED
        BY <2>2, <4>1 DEF Serving
    <3>2. adding[c] \in {"new", "notified"} => CallerRef(c) = 0
      BY <2>2 DEF Adders, CallerRef
    <3>3. doClose[c] # "closed"
      <4>1. doClose[c] # "open" => Registered(c)
        BY DEF EndInv, NotifyInv, Untouched
      <4> QED
        BY <2>2, <4>1 DEF Unreported
    <3>4. refs \in Int
      BY DEF EndInv, OtherShapes
    <3> QED
      BY <2>3, <2>5, <3>1, <3>2, <3>3, <3>4 DEF ConnNext, Dialed, AddConn, RefuseConn, NotifyConnected,
         Start, ConnDies, CallClose, AcceptStreamFails, DoClose, Detach, CloseTransport, StreamsReset,
         NotifyDisconnected, StartExits, AcceptStream, NewStream, ResetReturns, swarmVars
  <2>6. ASSUME NEW s \in Streams, StreamNext(s)
        PROVE  refs' = refs /\ closing' = closing
    <3>1. stream[s] \notin {"open", "removed", "released"} /\ (stream[s] = "new" => s \in outbound)
      BY <2>2 DEF Streaming, Handled
    <3>2. stream[s] = "new" => ~StreamsOpen(streamConn[s])
      BY <2>2 DEF EndInv, StreamsOfConns, Unreported, StreamsOpen
    <3>3. stream[s] = "new" => HandlerRef(s) = 0
      BY <3>1 DEF HandlerRef
    <3>4. refs \in Int
      BY DEF EndInv, OtherShapes
    <3> QED
      BY <2>6, <3>1, <3>2, <3>3, <3>4 DEF StreamNext, AddStream, AddStreamFails, RemoveStream, ScopeDone,
         StreamDone, swarmVars
  <2>7. ASSUME NEW p \in Peers, ClosePeer(p)
        PROVE  refs' = refs /\ closing' = closing
    BY <2>7 DEF ClosePeer, CallClose, swarmVars
  <2>8. CASE CloseNext \/ UNCHANGED vars
    BY <1>3, <2>8 DEF CloseNext, Close, CloseListeners, CloseConns, Wait, vars, swarmVars
  <2> QED
    BY <2>4, <2>5, <2>6, <2>7, <2>8 DEF Next
<1>4. closing # "closed" /\ closing' = "closed" => refs' = 0
  <2>1. CASE CloseNext
    BY <2>1 DEF CloseNext, Close, CloseListeners, CloseConns, Wait
  <2>2. CASE ~CloseNext
    <3>1. closing' = closing
      BY <2>2 DEF Next, ListenerNext, ConnNext, StreamNext, AddListenAddr, ListenClose, ListenerFails,
         AcceptLoopEnds, Accept, Dialed, AddConn, RefuseConn, NotifyConnected, Start, ConnDies, CallClose,
         ClosePeer, AcceptStreamFails, DoClose, Detach, CloseTransport, StreamsReset, NotifyDisconnected,
         StartExits, AcceptStream, NewStream, ResetReturns, AddStream, AddStreamFails, RemoveStream,
         ScopeDone, StreamDone, swarmVars, vars
    <3> QED
      BY <3>1
  <2> QED
    BY <2>1, <2>2
<1>5. closing = "closed" => refs = 0
  BY DEF EndInv, ServedAndClosed
<1> QED
  BY <1>2, <1>3, <1>4, <1>5 DEF ServedAndClosed

LEMMA EventsStep ==
  ASSUME EndInv, [Next]_vars
  PROVE  EventsMatchConns'
<1> USE SwarmAssumption
<1> SUFFICES ASSUME closing' = "open", NEW q \in Peers
             PROVE  lastEvent'[q] = "Connected" <=> conns'[q] # <<>>
  BY DEF EventsMatchConns, Emitting
<1>1. closing = "open" /\ ~CloseNext
  <2>1. ~CloseNext
    BY DEF CloseNext, Close, CloseListeners, CloseConns, Wait
  <2> QED
    BY <2>1 DEF Next, ListenerNext, ConnNext, StreamNext, AddListenAddr, ListenClose, ListenerFails,
       AcceptLoopEnds, Accept, Dialed, AddConn, RefuseConn, NotifyConnected, Start, ConnDies, CallClose,
       ClosePeer, AcceptStreamFails, DoClose, Detach, CloseTransport, StreamsReset, NotifyDisconnected,
       StartExits, AcceptStream, NewStream, ResetReturns, AddStream, AddStreamFails, RemoveStream,
       ScopeDone, StreamDone, swarmVars, vars
<1>2. Emitting /\ \A p \in Peers : lastEvent[p] = "Connected" <=> conns[p] # <<>>
  BY <1>1 DEF EndInv, EventsMatchConns, Emitting
<1>3. /\ conns \in [Peers -> Seq(Conns)] /\ lastEvent \in [Peers -> {"Connected", "NotConnected"}]
  BY DEF EndInv, NotifyInv, Shapes, OtherShapes
<1>4. CASE UNCHANGED <<conns, lastEvent>>
  BY <1>2, <1>4
<1>5. ASSUME NEW c \in Conns, AddConn(c)
      PROVE  lastEvent'[q] = "Connected" <=> conns'[q] # <<>>
  <2>1. PICK p \in Peers : p = remotePeer[c]
    OBVIOUS
  <2>2. /\ conns' = [conns EXCEPT ![p] = Append(conns[p], c)]
        /\ lastEvent' = IF conns[p] = <<>> THEN [lastEvent EXCEPT ![p] = "Connected"] ELSE lastEvent
    BY <1>2, <1>5, <2>1 DEF AddConn
  <2>3. Append(conns[p], c) # <<>>
    <3>1. conns[p] \in Seq(Conns)
      BY <1>3
    <3>2. /\ Len(Append(conns[p], c)) = Len(conns[p]) + 1 /\ Len(conns[p]) \in Nat
          /\ Append(conns[p], c) \in Seq(Conns)
      BY <3>1
    <3> QED
      BY <3>2, EmptySeq
  <2> QED
    BY <1>2, <1>3, <2>2, <2>3
<1>6. ASSUME NEW c \in Conns, DoClose(c)
      PROVE  lastEvent'[q] = "Connected" <=> conns'[q] # <<>>
  <2>1. PICK p \in Peers : p = remotePeer[c]
    OBVIOUS
  <2>2. CASE c \notin Members(conns[p]) /\ UNCHANGED <<conns, lastEvent>>
    BY <1>4, <2>2
  <2>3. CASE \E i \in DOMAIN conns[p] :
               /\ conns' = [conns EXCEPT ![p] = Without(conns[p], i)]
               /\ lastEvent' = IF Len(conns[p]) = 1
                               THEN [lastEvent EXCEPT ![p] = "NotConnected"] ELSE lastEvent
    <3> PICK i \in DOMAIN conns[p] :
               /\ conns' = [conns EXCEPT ![p] = Without(conns[p], i)]
               /\ lastEvent' = IF Len(conns[p]) = 1
                               THEN [lastEvent EXCEPT ![p] = "NotConnected"] ELSE lastEvent
      BY <2>3
    <3>1. conns[p] \in Seq(Conns) /\ i \in 1..Len(conns[p])
      BY <1>3
    <3>2. PICK w \in Seq(Conns) : w = Without(conns[p], i) /\ Len(w) = Len(conns[p]) - 1
      BY <3>1, WithoutListed
    <3>3. w # <<>> <=> Len(conns[p]) # 1
      <4>1. w # <<>> <=> Len(w) # 0
        BY EmptySeq
      <4>2. Len(conns[p]) \in Nat
        BY <3>1
      <4> QED
        BY <3>2, <4>1, <4>2
    <3>4. conns[p] # <<>>
      BY <3>1
    <3>5. conns' = [conns EXCEPT ![p] = w]
      BY <3>2
    <3>6. conns'[q] = IF q = p THEN w ELSE conns[q]
      BY <1>3, <3>5
    <3>7. CASE Len(conns[p]) = 1
      <4>1. lastEvent'[q] = IF q = p THEN "NotConnected" ELSE lastEvent[q]
        BY <1>3, <3>7
      <4> QED
        BY <1>2, <3>3, <3>6, <3>7, <4>1
    <3>8. CASE Len(conns[p]) # 1
      <4>1. lastEvent'[q] = lastEvent[q]
        BY <3>8
      <4> QED
        BY <1>2, <3>3, <3>4, <3>6, <3>8, <4>1
    <3> QED
      BY <3>7, <3>8
  <2>4. \/ c \notin Members(conns[p]) /\ UNCHANGED <<conns, lastEvent>>
        \/ \E i \in DOMAIN conns[p] :
             /\ conns' = [conns EXCEPT ![p] = Without(conns[p], i)]
             /\ lastEvent' = IF Len(conns[p]) = 1
                             THEN [lastEvent EXCEPT ![p] = "NotConnected"] ELSE lastEvent
    BY <1>2, <1>6, <2>1 DEF DoClose, removeConn
  <2> QED
    BY <2>2, <2>3, <2>4
<1>7. ASSUME NEW c \in Conns, ConnNext(c), ~AddConn(c), ~DoClose(c)
      PROVE  UNCHANGED <<conns, lastEvent>>
  BY <1>7 DEF ConnNext, Dialed, RefuseConn, NotifyConnected, Start, ConnDies, CallClose,
     AcceptStreamFails, Detach, CloseTransport, StreamsReset, NotifyDisconnected,
     StartExits, AcceptStream, NewStream, ResetReturns, connVars
<1>8. ASSUME \/ \E l \in Listeners : ListenerNext(l)
             \/ \E p \in Peers : ClosePeer(p)
             \/ \E s \in Streams : StreamNext(s)
             \/ UNCHANGED vars
      PROVE  UNCHANGED <<conns, lastEvent>>
  BY <1>8 DEF ListenerNext, AddListenAddr, ListenClose, ListenerFails, AcceptLoopEnds, Accept,
     ClosePeer, CallClose, StreamNext, AddStream, AddStreamFails, RemoveStream, ScopeDone, StreamDone,
     connVars, vars
<1> QED
  BY <1>1, <1>4, <1>5, <1>6, <1>7, <1>8 DEF Next

\* What ends, ends in order (swarm.go: Close; swarm_conn.go: doClose, addStream), however
\* many listeners, connections and streams there are: Close waits for all that the wait group
\* counts and the group never turns negative, events follow the list of connections, and a
\* connection that was closed has no open stream.
THEOREM EndsOrderly == Spec => []EndsInOrder
<1>1. Init => EndInv
  BY EndInit
<1>2. EndInv /\ [Next]_vars => EndInv'
  <2> SUFFICES ASSUME EndInv, [Next]_vars PROVE EndInv'
    OBVIOUS
  <2>1. NotifyInv'
    BY NotifyStep DEF EndInv
  <2>2. OtherShapes'
    BY OtherShapesStep DEF EndInv
  <2>3. RefsCounted'
    BY RefsStep DEF EndInv
  <2>4. StreamsOfConns'
    BY StreamsStep DEF EndInv
  <2>5. ServedAndClosed' /\ EventsMatchConns'
    BY ServedStep, EventsStep
  <2> QED
    BY <2>1, <2>2, <2>3, <2>4, <2>5 DEF EndInv
<1>3. EndInv => EndsInOrder
  <2> SUFFICES ASSUME EndInv PROVE EndsInOrder
    OBVIOUS
  <2>1. refs \in Nat
    BY CountedFinite DEF EndInv, RefsCounted
  <2>2. numStreams \in [Conns -> Nat]
    <3>1. numStreams \in [Conns -> Int] /\ \A c \in Conns : numStreams[c] \in Nat
      BY CountedFinite DEF EndInv, StreamsOfConns, OtherShapes
    <3> QED
      BY <3>1
  <2>3. TypeOK
    BY <2>1, <2>2 DEF EndInv, NotifyInv, Shapes, OtherShapes, TypeOK
  <2>4. closing = "closed" =>
          /\ Accepters = {} /\ Adders = {} /\ Unreported = {} /\ Serving = {} /\ Handled = {}
          /\ Streaming = {}
    BY NobodyHolds DEF EndInv, ServedAndClosed
  <2>5. CloseWaitsForAll
    <3> SUFFICES ASSUME closing = "closed"
                 PROVE  /\ \A l \in Listeners : listening[l] # "accepting"
                        /\ \A c \in Conns : Registered(c) =>
                             adding[c] = "added" /\ doClose[c] = "done" /\ accepting[c] = "exited"
                        /\ \A c \in Inbound : adding[c] # "new"
                        /\ \A s \in Streams : /\ stream[s] \notin {"open", "removed", "released"}
                                              /\ stream[s] = "new" => s \in outbound
      BY <2>3 DEF CloseWaitsForAll
    <3>1. \A c \in Conns : Registered(c) => doClose[c] = "done" /\ accepting[c] = "exited"
      BY <2>4 DEF Unreported, Serving
    <3>2. \A c \in Conns : accepting[c] = "exited" => adding[c] = "added"
      BY DEF EndInv, ServedAndClosed
    <3> QED
      BY <2>4, <3>1, <3>2 DEF Accepters, Adders, Handled, Streaming
  <2>6. NoStreamOutlivesConn
    <3> SUFFICES ASSUME NEW c \in Conns
                 PROVE  /\ numStreams[c] = Cardinality(OpenOn(c))
                        /\ doClose[c] \in {"closed", "done"} => numStreams[c] = 0
      BY DEF NoStreamOutlivesConn, OpenOn
    <3>1. numStreams[c] = Cardinality(OpenOn(c))
      BY DEF EndInv, StreamsOfConns
    <3>2. doClose[c] \in {"closed", "done"} => OpenOn(c) = {}
      BY DEF EndInv, StreamsOfConns
    <3> QED
      BY <3>1, <3>2, FS_EmptySet
  <2> QED
    BY <2>5, <2>6 DEF EndInv, EndsInOrder
<1> QED
  BY <1>1, <1>2, <1>3, PTL DEF Spec
============================================================================
