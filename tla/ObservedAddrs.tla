--------------------------- MODULE ObservedAddrs ---------------------------
(***************************************************************************)
(* The addresses at which other peers observe us (ObservedAddrManager in   *)
(* p2p/protocol/identify/obsaddr.go), for one local address.  Observations *)
(* are queued by identify and taken in by one worker, which also re-       *)
(* observes active connections and forgets what is old, while the swarm    *)
(* removes connections and reports it.                                     *)
(***************************************************************************)
EXTENDS Integers, Sequences, FiniteSets

CONSTANTS
  Conns, observerOf,   \* observerOf: observerGroup of each connection's remote address
  Inbound,             \* the connections that were accepted
  Addrs,               \* observed addresses, all of one transport
  ActivationThresh, TTL,
  ChanSize,            \* observedAddrManagerWorkerChannelSize
  MaxTime,             \* bound of the model: the clock stops here
  MaxLag               \* bound of the model: how late the refresh timer is served

VARIABLES
  otime,
  link,         \* [Conns -> "new", "up", "removed" from the swarm, "gone"]
  wch,          \* observations that wait for the worker
  seenBy,       \* [Addrs -> observers -> [at, inbound]]: observedAddr.seenBy
  lastSeen,     \* [Addrs -> Nat]; 0 for an address without entry
  numInbound,   \* [Addrs -> Nat]
  activeConns,  \* connections -> their last observation
  mgr,          \* "open", "closing" (the context is cancelled), "closed"
  work,         \* what the worker does: [at, todo], todo a set of <<connection, address>>
  refreshAt,    \* when refreshTimer fires
  private,      \* reachability is ReachabilityPrivate
  natType       \* "unknown", "cone", "symmetric"

tableVars == <<seenBy, lastSeen, numInbound, natType>>
vars == <<otime, link, wch, tableVars, activeConns, mgr, work, refreshAt, private>>

Observers == {observerOf[c] : c \in Conns}
None == [x \in {} |-> 0]
Idle == [at |-> "select", todo |-> {}]

Init ==
  /\ otime = 1 /\ link = [c \in Conns |-> "new"] /\ wch = <<>>
  /\ seenBy = [a \in Addrs |-> None] /\ lastSeen = [a \in Addrs |-> 0]
  /\ numInbound = [a \in Addrs |-> 0]
  /\ activeConns = None /\ mgr = "open" /\ work = Idle
  /\ refreshAt = 1 + TTL \div 2 /\ private = FALSE /\ natType = "unknown"

Put(f, k, v) == [x \in DOMAIN f \cup {k} |-> IF x = k THEN v ELSE f[x]]
Without(f, S) == [x \in DOMAIN f \ S |-> f[x]]

----------------------------------------------------------------------------
(* The table.                                                              *)

activated(a) == Cardinality(DOMAIN seenBy[a]) >= ActivationThresh

\* What filter keeps, before it picks two of each IP and transport.
Advertisable == {a \in Addrs : lastSeen[a] # 0 /\ otime - lastSeen[a] <= TTL /\ activated(a)}

\* recordObservationUnlocked: an observation stays inbound once it was.
Observation(c, a) ==
  LET o == observerOf[c]
      was == o \in DOMAIN seenBy[a] /\ seenBy[a][o].inbound
  IN [at |-> otime, inbound |-> c \in Inbound \/ was, new |-> c \in Inbound /\ ~was]

RecordObservations(S) ==
  LET of(a, o) == {x \in S : x[2] = a /\ observerOf[x[1]] = o}
      ob(a, o) == {Observation(x[1], a) : x \in of(a, o)}
      merged(a, o) == [at |-> otime, inbound |-> \E b \in ob(a, o) : b.inbound]
      isNew(a, o) == \E b \in ob(a, o) : b.new
      told(a) == {observerOf[x[1]] : x \in {y \in S : y[2] = a}}
  IN /\ seenBy' = [a \in Addrs |->
           [o \in DOMAIN seenBy[a] \cup told(a) |->
              IF o \in told(a) THEN merged(a, o) ELSE seenBy[a][o]]]
     /\ lastSeen' = [a \in Addrs |-> IF told(a) # {} THEN otime ELSE lastSeen[a]]
     /\ numInbound' = [a \in Addrs |->
           numInbound[a] + Cardinality({o \in told(a) : isNew(a, o)})]

\* emitSpecificNATType: an activated address means a cone NAT; as many addresses as
\* observers, each seen once and from outbound connections, a symmetric one.
NatTypeAfter ==
  LET recent == {a \in Addrs : lastSeen'[a] # 0 /\ otime - lastSeen'[a] <= TTL}
      single == {a \in recent : numInbound'[a] = 0 /\ Cardinality(DOMAIN seenBy'[a]) = 1}
  IN CASE \E a \in recent : Cardinality(DOMAIN seenBy'[a]) >= ActivationThresh -> "cone"
       [] Cardinality(single) >= ActivationThresh
          /\ Cardinality(UNION {DOMAIN seenBy'[a] : a \in single}) >= ActivationThresh -> "symmetric"
       [] OTHER -> natType

\* gc: forgets old observations, and addresses not seen for the time to live.
TooOld(ob) == otime - ob.at > TTL * ActivationThresh

GC ==
  /\ work.at = "select"
  /\ LET stale(a) == {o \in DOMAIN seenBy[a] : TooOld(seenBy[a][o])}
         alive(a) == lastSeen[a] # 0 /\ otime - lastSeen[a] <= TTL
     IN /\ seenBy' = [a \in Addrs |-> IF alive(a) THEN Without(seenBy[a], stale(a)) ELSE None]
        /\ numInbound' = [a \in Addrs |-> IF ~alive(a) THEN 0 ELSE
              numInbound[a] - Cardinality({o \in stale(a) : seenBy[a][o].inbound})]
        /\ lastSeen' = [a \in Addrs |-> IF alive(a) THEN lastSeen[a] ELSE 0]
  /\ UNCHANGED <<otime, link, wch, natType, activeConns, mgr, work, refreshAt, private>>

----------------------------------------------------------------------------
(* Observations.                                                           *)

\* Record: dropped when the channel is full.
Record(c, a) ==
  /\ link[c] # "new" /\ Len(wch) < ChanSize
  /\ wch' = Append(wch, <<c, a>>)
  /\ UNCHANGED <<otime, link, tableVars, activeConns, mgr, work, refreshAt, private>>

\* maybeRecordObservation.  Whether the observation is worth keeping depends on our
\* listen addresses.  The connection is added after the table is unlocked.
MaybeRecord ==
  /\ work.at = "select" /\ wch # <<>>
  /\ wch' = Tail(wch)
  /\ \/ UNCHANGED <<tableVars, work>>
     \/ /\ RecordObservations({Head(wch)})
        /\ natType' = IF private THEN NatTypeAfter ELSE natType
        /\ work' = [at |-> "addConn", todo |-> {Head(wch)}]
  /\ UNCHANGED <<otime, link, activeConns, mgr, refreshAt, private>>

\* The connection is added without a look at the swarm.
AddConnAlways ==
  /\ work.at = "addConn"
  /\ work' = [work EXCEPT !.at = "addLocked"]
  /\ UNCHANGED <<otime, link, wch, tableVars, activeConns, mgr, refreshAt, private>>

\* addConn, with activeConnsMu: is the connection still in the swarm?
AddConnLooks ==
  /\ work.at = "addConn"
  /\ work' = IF \E x \in work.todo : link[x[1]] = "up" THEN [work EXCEPT !.at = "addLocked"] ELSE Idle
  /\ UNCHANGED <<otime, link, wch, tableVars, activeConns, mgr, refreshAt, private>>

AddConnStores ==
  /\ work.at = "addLocked"
  /\ \E x \in work.todo : activeConns' = Put(activeConns, x[1], x[2])
  /\ work' = Idle
  /\ UNCHANGED <<otime, link, wch, tableVars, mgr, refreshAt, private>>

\* refresh: collects the active connections, then observes them again.
RefreshCollects ==
  /\ work.at = "select" /\ otime >= refreshAt
  /\ work' = [at |-> "refresh", todo |-> {<<c, activeConns[c]>> : c \in DOMAIN activeConns}]
  /\ UNCHANGED <<otime, link, wch, tableVars, activeConns, mgr, refreshAt, private>>

RefreshRecords ==
  /\ work.at = "refresh"
  /\ RecordObservations(work.todo)
  /\ refreshAt' = otime + TTL \div 2 /\ work' = Idle
  /\ UNCHANGED <<otime, link, wch, natType, activeConns, mgr, private>>

\* An event says that we became private, or that we no longer are.
ReachabilityChanged ==
  /\ work.at = "select"
  /\ private' = ~private
  /\ UNCHANGED <<otime, link, wch, tableVars, activeConns, mgr, work, refreshAt>>

WorkerExits ==
  /\ work.at = "select" /\ mgr = "closing"
  /\ work' = [Idle EXCEPT !.at = "exited"]
  /\ UNCHANGED <<otime, link, wch, tableVars, activeConns, mgr, refreshAt, private>>

\* Close waits for the worker and then stops the notifications.
Close ==
  /\ \/ mgr = "open" /\ mgr' = "closing"
     \/ mgr = "closing" /\ work.at = "exited" /\ mgr' = "closed"
  /\ UNCHANGED <<otime, link, wch, tableVars, activeConns, work, refreshAt, private>>

----------------------------------------------------------------------------
(* The swarm and the clock.                                                *)

ConnOpens(c) ==
  /\ link[c] = "new" /\ link' = [link EXCEPT ![c] = "up"]
  /\ UNCHANGED <<otime, wch, tableVars, activeConns, mgr, work, refreshAt, private>>

ConnRemoved(c) ==
  /\ link[c] = "up" /\ link' = [link EXCEPT ![c] = "removed"]
  /\ UNCHANGED <<otime, wch, tableVars, activeConns, mgr, work, refreshAt, private>>

\* Disconnected calls removeConn, which needs activeConnsMu.
Disconnected(c) ==
  /\ link[c] = "removed" /\ work.at # "addLocked"
  /\ link' = [link EXCEPT ![c] = "gone"]
  /\ activeConns' = IF mgr = "closed" THEN activeConns ELSE Without(activeConns, {c})
  /\ UNCHANGED <<otime, wch, tableVars, mgr, work, refreshAt, private>>

Tick ==
  /\ otime < MaxTime /\ (mgr # "open" \/ otime < refreshAt + MaxLag)
  /\ otime' = otime + 1
  /\ UNCHANGED <<link, wch, tableVars, activeConns, mgr, work, refreshAt, private>>

Next ==
  \/ \E c \in Conns : \/ ConnOpens(c) \/ ConnRemoved(c) \/ Disconnected(c)
                      \/ \E a \in Addrs : Record(c, a)
  \/ MaybeRecord \/ AddConnLooks \/ AddConnStores \/ RefreshCollects \/ RefreshRecords
  \/ GC \/ ReachabilityChanged \/ WorkerExits \/ Close \/ Tick

Spec == Init /\ [][Next]_vars

----------------------------------------------------------------------------
TypeOK ==
  /\ otime \in 1..MaxTime /\ wch \in Seq(Conns \X Addrs)
  /\ \A a \in Addrs : DOMAIN seenBy[a] \subseteq Observers /\ numInbound[a] \in Nat
  /\ DOMAIN activeConns \subseteq Conns
  /\ natType \in {"unknown", "cone", "symmetric"}

\* A connection that was reported closed is not observed again for ever, however its
\* end and its observation cross; as long as a peer that observed an address stays
\* connected, neither the address nor that observation is forgotten, if the refresh is
\* not too late; and numInbound counts the inbound observations.
ObservationsKept ==
  /\ TypeOK
  /\ mgr = "open" => \A c \in DOMAIN activeConns :
       /\ link[c] # "gone"
       /\ observerOf[c] \in DOMAIN seenBy[activeConns[c]]
       /\ otime - lastSeen[activeConns[c]] <= TTL
  /\ \A a \in Addrs : numInbound[a] =
       Cardinality({o \in DOMAIN seenBy[a] : seenBy[a][o].inbound})

\* As long as no observation has aged, every address that enough peers observe is one to
\* advertise, and the NAT type last emitted had its evidence: an address that enough peers
\* agree on, or enough outbound connections whose peers do not.
NatTypeJustified ==
  /\ \A a \in Addrs : activated(a) => a \in Advertisable
  /\ natType = "cone" => Advertisable # {}
  /\ natType = "symmetric" =>
       /\ Cardinality({a \in Addrs : DOMAIN seenBy[a] # {}}) >= ActivationThresh
       /\ Cardinality(UNION {DOMAIN seenBy[a] : a \in Addrs}) >= ActivationThresh
============================================================================
