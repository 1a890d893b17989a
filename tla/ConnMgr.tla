------------------------------ MODULE ConnMgr ------------------------------
(***************************************************************************)
(* The connection manager (p2p/net/connmgr/connmgr.go): it tracks the      *)
(* connections that the swarm reports, and closes those of the least       *)
(* valuable peers when there are too many.  A trim collects candidates,    *)
(* sorts them, selects connections peer by peer and closes them, each of   *)
(* these under locks of its own; connections come and go in between.       *)
(*                                                                         *)
(* Trims are asked for by callers of TrimOpenConns, by the background      *)
(* loop and by the memory watchdog.  A peer's value stands for the sum of  *)
(* its tags (ConnTags).                                                    *)
(***************************************************************************)
EXTENDS Integers, Sequences, FiniteSets, FiniteSetsExt

CONSTANTS
  Peers, Conns,
  remotePeer,    \* the peer of each connection
  Incoming,      \* the connections that the peer opened
  numStreams,    \* the number of streams of each connection
  Values,        \* the values that TagPeer can give to a peer
  ProtectTags,
  LowWater, HighWater,
  Callers,       \* calls of TrimOpenConns
  Background,    \* the background loop
  Emergencies,   \* calls of memoryEmergency
  MaxInfos,      \* how many peerInfo objects there can be
  Nobody         \* nil, for the holder of a lock

Trims == Callers \cup Background \cup Emergencies
Infos == 1..MaxInfos
NoInfo == 0

ASSUME ConnMgrAssumption ==
  /\ IsFiniteSet(Peers) /\ Peers # {} /\ IsFiniteSet(Conns)
  /\ remotePeer \in [Conns -> Peers] /\ Incoming \subseteq Conns
  /\ numStreams \in [Conns -> Nat] /\ Values \subseteq Int
  /\ LowWater \in Nat /\ HighWater \in Nat /\ MaxInfos \in Nat
  /\ Callers \cap (Background \cup Emergencies) = {} /\ Background \cap Emergencies = {}
  /\ Nobody \notin Trims

VARIABLES
  peers,      \* segment.peers: the peerInfo of each peer
  info,       \* the peerInfo objects
  nextInfo,   \* the next object to be allocated
  protected,  \* BasicConnMgr.protected
  connCount,  \* BasicConnMgr.connCount
  trimMutex,  \* who holds it
  trimCount,  \* BasicConnMgr.trimCount
  conn,       \* the state of each connection in the swarm
  at,         \* where each trim is
  seen,       \* the trimCount that a call has seen
  cands,      \* the candidates that are left, sorted
  target,     \* how many connections are left to be closed
  selected,   \* the connections selected and not yet closed
  spare,      \* history: the peers protected since the trim began
  trimmed,    \* history: has a trim been completed since the call began?
  early,      \* history: the entries made by a tag, before a connection
  strayed,    \* history: has a trim dropped another entry than the one it had collected?
  late        \* history: the calls that began between the end of an emergency's trim and its count

trackVars == <<peers, info, nextInfo, connCount>>
trimVars == <<trimMutex, trimCount, at, seen, cands, target, selected>>
histVars == <<spare, trimmed, early, strayed, late>>
vars == <<trackVars, protected, conn, trimVars, histVars>>

NewInfo(p, temp) ==
  [peer |-> p, temp |-> temp, grace |-> TRUE, value |-> 0, conns |-> {}]

Init ==
  /\ peers = [p \in Peers |-> NoInfo]
  /\ info = [i \in Infos |-> NewInfo(CHOOSE p \in Peers : TRUE, TRUE)]
  /\ nextInfo = 1
  /\ protected = [p \in Peers |-> {}]
  /\ connCount = 0
  /\ trimMutex = Nobody /\ trimCount = 0
  /\ conn = [c \in Conns |-> "none"]
  /\ at = [t \in Trims |-> "idle"]
  /\ seen = [t \in Trims |-> 0]
  /\ cands = [t \in Trims |-> <<>>]
  /\ target = [t \in Trims |-> 0]
  /\ selected = [t \in Trims |-> {}]
  /\ spare = [t \in Trims |-> {}]
  /\ trimmed = [t \in Trims |-> FALSE]
  /\ early = {} /\ strayed = FALSE /\ late = {}

----------------------------------------------------------------------------
(* Tracking: the notifiee, tags and protection.                            *)

\* The entry of p, which is made if there is none.
HasInfo(p) == peers[p] # NoInfo
InfoFor(p) == IF HasInfo(p) THEN peers[p] ELSE nextInfo
CanTrack(p) == HasInfo(p) \/ nextInfo \in Infos
Allocate(p) ==
  /\ peers' = [peers EXCEPT ![p] = InfoFor(p)]
  /\ nextInfo' = IF HasInfo(p) THEN nextInfo ELSE nextInfo + 1

\* Connected: a temporary entry becomes a real one, and its grace period starts.
Connected(c) ==
  LET p == remotePeer[c]
      i == InfoFor(p)
      old == IF HasInfo(p) THEN info[i] ELSE NewInfo(p, FALSE)
      pinfo == IF old.temp THEN [old EXCEPT !.temp = FALSE, !.grace = TRUE] ELSE old
  IN /\ conn[c] = "none" /\ CanTrack(p)
     /\ conn' = [conn EXCEPT ![c] = "open"]
     /\ Allocate(p)
     /\ info' = [info EXCEPT ![i] = [pinfo EXCEPT !.conns = @ \cup {c}]]
     /\ connCount' = connCount + 1
     /\ UNCHANGED <<protected, trimVars, histVars>>

\* The connection ends without the connection manager.
ConnDies(c) ==
  /\ conn[c] = "open"
  /\ conn' = [conn EXCEPT ![c] = "closed"]
  /\ UNCHANGED <<trackVars, protected, trimVars, histVars>>

\* A mutant: entries are dropped with the first of their connections.
DropEmpty(i, c) == TRUE

\* The entry goes with its last connection.
WasLast(i, c) == info[i].conns = {c}

\* Disconnected: nothing happens if the connection is not tracked.
Disconnected(c) ==
  LET p == remotePeer[c]
      i == peers[p]
  IN /\ conn[c] = "closed"
     /\ conn' = [conn EXCEPT ![c] = "gone"]
     /\ IF i # NoInfo /\ c \in info[i].conns
        THEN /\ info' = [info EXCEPT ![i].conns = @ \ {c}]
             /\ peers' = IF WasLast(i, c) THEN [peers EXCEPT ![p] = NoInfo] ELSE peers
             /\ connCount' = connCount - 1
        ELSE UNCHANGED <<info, peers, connCount>>
     /\ UNCHANGED <<nextInfo, protected, trimVars, histVars>>

\* TagPeer and UpsertTag: an unknown peer gets a temporary entry.
TagPeer(p, v) ==
  LET i == InfoFor(p)
      pi == IF HasInfo(p) THEN info[i] ELSE NewInfo(p, TRUE)
  IN /\ CanTrack(p) /\ pi.value # v
     /\ Allocate(p)
     /\ info' = [info EXCEPT ![i] = [pi EXCEPT !.value = v]]
     /\ early' = IF HasInfo(p) THEN early ELSE early \cup {i}
     /\ UNCHANGED <<connCount, protected, conn, trimVars, spare, trimmed, strayed, late>>

\* The grace period of a tracked peer is over.
GraceEnds(p) ==
  /\ HasInfo(p) /\ info[peers[p]].grace
  /\ info' = [info EXCEPT ![peers[p]].grace = FALSE]
  /\ UNCHANGED <<peers, nextInfo, connCount, protected, conn, trimVars, histVars>>

Protect(p, tag) ==
  /\ tag \notin protected[p]
  /\ protected' = [protected EXCEPT ![p] = @ \cup {tag}]
  /\ UNCHANGED <<trackVars, conn, trimVars, histVars>>

Unprotect(p, tag) ==
  /\ tag \in protected[p]
  /\ protected' = [protected EXCEPT ![p] = @ \ {tag}]
  /\ spare' = IF protected[p] = {tag} THEN [t \in Trims |-> spare[t] \ {p}] ELSE spare
  /\ UNCHANGED <<trackVars, conn, trimVars, trimmed, early, strayed, late>>

----------------------------------------------------------------------------
(* Asking for a trim.                                                      *)

Protected(p) == protected[p] # {}
Begin(t) == spare' = [spare EXCEPT ![t] = {p \in Peers : Protected(p)}]

\* Has an emergency's trim ended, and is it not yet counted?
Uncounted == \E e \in Emergencies : at[e] = "count"
BeginCall(t) == late' = IF Uncounted THEN late \cup {t} ELSE late

\* A mutant: trimCount is not read.
TrimUnseen(t) ==
  /\ t \in Callers /\ at[t] = "idle"
  /\ at' = [at EXCEPT ![t] = "wait"]
  /\ BeginCall(t)
  /\ UNCHANGED <<trackVars, protected, conn, trimMutex, trimCount, seen, cands, target, selected,
                 spare, trimmed, early, strayed>>

\* doTrim reads trimCount before it waits for the lock...
TrimOpenConns(t) ==
  /\ t \in Callers /\ at[t] = "idle"
  /\ at' = [at EXCEPT ![t] = "wait"]
  /\ seen' = [seen EXCEPT ![t] = trimCount]
  /\ BeginCall(t)
  /\ UNCHANGED <<trackVars, protected, conn, trimMutex, trimCount, cands, target, selected,
                 spare, trimmed, early, strayed>>

\* ... and does nothing if another trim was completed meanwhile.
DoTrim(t) ==
  /\ t \in Callers /\ at[t] = "wait" /\ trimMutex = Nobody
  /\ IF seen[t] = trimCount
     THEN at' = [at EXCEPT ![t] = "collect"] /\ trimMutex' = t
     ELSE at' = [at EXCEPT ![t] = "returned"] /\ UNCHANGED trimMutex
  /\ Begin(t)
  /\ UNCHANGED <<trackVars, protected, conn, trimCount, seen, cands, target, selected,
                 trimmed, early, strayed, late>>

\* The background loop trims without the lock.
BackgroundTick(t) ==
  /\ t \in Background /\ at[t] = "idle" /\ connCount >= HighWater
  /\ at' = [at EXCEPT ![t] = "collect"]
  /\ Begin(t)
  /\ UNCHANGED <<trackVars, protected, conn, trimMutex, trimCount, seen, cands, target,
                 selected, trimmed, early, strayed, late>>

\* memoryEmergency computes its target before it takes the lock.
MemoryEmergency(t) ==
  /\ t \in Emergencies /\ at[t] = "idle"
  /\ target' = [target EXCEPT ![t] = connCount - LowWater]
  /\ at' = [at EXCEPT ![t] = IF connCount < LowWater THEN "returned" ELSE "wait"]
  /\ UNCHANGED <<trackVars, protected, conn, trimMutex, trimCount, seen, cands, selected,
                 histVars>>

EmergencyLock(t) ==
  /\ t \in Emergencies /\ at[t] = "wait" /\ trimMutex = Nobody
  /\ trimMutex' = t
  /\ at' = [at EXCEPT ![t] = "collect"]
  /\ Begin(t)
  /\ UNCHANGED <<trackVars, protected, conn, trimCount, seen, cands, target, selected,
                 trimmed, early, strayed, late>>

----------------------------------------------------------------------------
(* The trim: getConnsToClose, getConnsToCloseEmergency, trim.              *)

Streams(i) == MapThenSumSet(LAMBDA c : numStreams[c], info[i].conns)
HasIncoming(i) == info[i].conns \cap Incoming # {}

\* The order of SortByValueAndStreams.
Less(i, j, moreStreams) ==
  LET l == info[i]
      r == info[j]
  IN IF l.temp # r.temp THEN l.temp
     ELSE IF l.value # r.value THEN l.value < r.value
     ELSE IF (Streams(i) = 0) # (Streams(j) = 0) THEN Streams(i) = 0
     ELSE IF HasIncoming(i) # HasIncoming(j) THEN HasIncoming(i)
     ELSE IF moreStreams THEN Streams(j) < Streams(i) ELSE Streams(i) < Streams(j)

\* The sequences that sorting C can result in.
SortedSeqs(C, moreStreams) ==
  {s \in [1..Cardinality(C) -> C] :
     \A a, b \in 1..Cardinality(C) : a < b => s[a] # s[b] /\ ~Less(s[b], s[a], moreStreams)}

Tracked == {peers[p] : p \in {p \in Peers : HasInfo(p)}}

Unprotected == {i \in Tracked : ~Protected(info[i].peer)}

Candidates == {i \in Unprotected : ~info[i].grace}

\* getConnsToClose up to the sorted candidates.
Collect(t) ==
  LET n == Cardinality({x \in Candidates \X Conns : x[2] \in info[x[1]].conns})
  IN /\ t \in Callers \cup Background /\ at[t] = "collect"
     /\ IF LowWater = 0 \/ HighWater = 0 \/ connCount <= LowWater \/ n < LowWater
        THEN /\ at' = [at EXCEPT ![t] = "close"]
             /\ UNCHANGED <<cands, target>>
        ELSE /\ \E s \in SortedSeqs(Candidates, FALSE) : cands' = [cands EXCEPT ![t] = s]
             /\ target' = [target EXCEPT ![t] = n - LowWater]
             /\ at' = [at EXCEPT ![t] = "select"]
     /\ UNCHANGED <<trackVars, protected, conn, trimMutex, trimCount, seen, selected, histVars>>

\* The next candidate: a temporary entry is forgotten, the connections of others
\* are selected.
Select(t) ==
  LET i == Head(cands[t])
      C == info[i].conns
  IN /\ t \in Callers \cup Background
     /\ at[t] = "select" /\ target[t] > 0 /\ cands[t] # <<>>
     /\ IF C = {} /\ info[i].temp
        THEN /\ peers' = [peers EXCEPT ![info[i].peer] = NoInfo]
             /\ strayed' = (strayed \/ peers[info[i].peer] \notin {i, NoInfo})
             /\ UNCHANGED <<selected, target>>
        ELSE /\ selected' = [selected EXCEPT ![t] = @ \cup C]
             /\ target' = [target EXCEPT ![t] = @ - Cardinality(C)]
             /\ UNCHANGED <<peers, strayed>>
     /\ cands' = [cands EXCEPT ![t] = Tail(@)]
     /\ UNCHANGED <<info, nextInfo, connCount, protected, conn, trimMutex, trimCount, at, seen,
                    spare, trimmed, early, late>>

EnoughSelected(t) == target[t] <= 0 \/ cands[t] = <<>>

SelectDone(t) ==
  /\ t \in Callers \cup Background /\ at[t] = "select" /\ EnoughSelected(t)
  /\ at' = [at EXCEPT ![t] = "close"]
  /\ UNCHANGED <<trackVars, protected, conn, trimMutex, trimCount, seen, cands, target,
                 selected, histVars>>

\* getConnsToCloseEmergency: first the unprotected peers, whatever their age...
EmergencyCollect(t) ==
  /\ t \in Emergencies /\ at[t] = "collect"
  /\ \E s \in SortedSeqs(Unprotected, TRUE) : cands' = [cands EXCEPT ![t] = s]
  /\ at' = [at EXCEPT ![t] = "select"]
  /\ UNCHANGED <<trackVars, protected, conn, trimMutex, trimCount, seen, target, selected,
                 histVars>>

EmergencySelect(t) ==
  LET C == info[Head(cands[t])].conns
  IN /\ t \in Emergencies /\ at[t] \in {"select", "selectAll"}
     /\ target[t] > 0 /\ cands[t] # <<>>
     /\ selected' = [selected EXCEPT ![t] = @ \cup C]
     /\ target' = [target EXCEPT ![t] = @ - Cardinality(C)]
     /\ cands' = [cands EXCEPT ![t] = Tail(@)]
     /\ UNCHANGED <<trackVars, protected, conn, trimMutex, trimCount, at, seen, histVars>>

\* ... then, if fewer were selected than are still to be closed, all peers.
EmergencyAgain(t) ==
  /\ t \in Emergencies /\ at[t] = "select" /\ EnoughSelected(t)
  /\ Cardinality(selected[t]) < target[t]
  /\ \E s \in SortedSeqs(Tracked, TRUE) : cands' = [cands EXCEPT ![t] = s]
  /\ at' = [at EXCEPT ![t] = "selectAll"]
  /\ UNCHANGED <<trackVars, protected, conn, trimMutex, trimCount, seen, target, selected,
                 histVars>>

EmergencyDone(t) ==
  /\ t \in Emergencies /\ EnoughSelected(t)
  /\ \/ at[t] = "select" /\ Cardinality(selected[t]) >= target[t]
     \/ at[t] = "selectAll"
  /\ at' = [at EXCEPT ![t] = "close"]
  /\ UNCHANGED <<trackVars, protected, conn, trimMutex, trimCount, seen, cands, target,
                 selected, histVars>>

\* The selected connections are closed; Disconnected is notified later.
CloseConn(t) ==
  /\ at[t] = "close"
  /\ \E c \in selected[t] :
       /\ selected' = [selected EXCEPT ![t] = @ \ {c}]
       /\ conn' = IF conn[c] = "open" THEN [conn EXCEPT ![c] = "closed"] ELSE conn
  /\ UNCHANGED <<trackVars, protected, trimMutex, trimCount, at, seen, cands, target, histVars>>

\* The trim is complete.  An emergency counts it after it has released the lock.
Finish(t) ==
  /\ at[t] = "close" /\ selected[t] = {}
  /\ at' = [at EXCEPT ![t] = IF t \in Background THEN "idle"
                             ELSE IF t \in Callers THEN "returned" ELSE "count"]
  /\ trimCount' = IF t \in Callers THEN trimCount + 1 ELSE trimCount
  /\ trimMutex' = IF t \in Background THEN trimMutex ELSE Nobody
  /\ cands' = [cands EXCEPT ![t] = <<>>]
  /\ target' = [target EXCEPT ![t] = 0]
  /\ trimmed' = [u \in Trims |-> trimmed[u] \/ at[u] # "idle"]
  /\ UNCHANGED <<trackVars, protected, conn, seen, selected, spare, early, strayed, late>>

CountEmergency(t) ==
  /\ at[t] = "count"
  /\ trimCount' = trimCount + 1
  /\ at' = [at EXCEPT ![t] = "returned"]
  /\ UNCHANGED <<trackVars, protected, conn, trimMutex, seen, cands, target, selected, histVars>>

----------------------------------------------------------------------------

TrimStep(t) ==
  \/ DoTrim(t) \/ EmergencyLock(t) \/ Collect(t) \/ Select(t) \/ SelectDone(t)
  \/ EmergencyCollect(t) \/ EmergencySelect(t) \/ EmergencyAgain(t) \/ EmergencyDone(t)
  \/ CloseConn(t) \/ Finish(t) \/ CountEmergency(t)

Next ==
  \/ \E c \in Conns : Connected(c) \/ ConnDies(c) \/ Disconnected(c)
  \/ \E p \in Peers :
       \/ \E v \in Values : TagPeer(p, v)
       \/ GraceEnds(p)
       \/ \E tag \in ProtectTags : Protect(p, tag) \/ Unprotect(p, tag)
  \/ \E t \in Trims : TrimOpenConns(t) \/ BackgroundTick(t) \/ MemoryEmergency(t) \/ TrimStep(t)

Spec == Init /\ [][Next]_vars

\* A trim that has begun goes on.
FairSpec == Spec /\ \A t \in Trims : WF_vars(TrimStep(t))

----------------------------------------------------------------------------
(* Properties.                                                             *)

PeerInfos == [peer : Peers, temp : BOOLEAN, grace : BOOLEAN, value : Values \cup {0},
              conns : SUBSET Conns]

TypeOK ==
  /\ peers \in [Peers -> Infos \cup {NoInfo}]
  /\ info \in [Infos -> PeerInfos]
  /\ nextInfo \in 1..(MaxInfos + 1)
  /\ protected \in [Peers -> SUBSET ProtectTags]
  /\ connCount \in Nat
  /\ trimMutex \in Trims \cup {Nobody} /\ trimCount \in Nat
  /\ conn \in [Conns -> {"none", "open", "closed", "gone"}]
  /\ at \in [Trims -> {"idle", "wait", "collect", "select", "selectAll", "close", "count", "returned"}]
  /\ seen \in [Trims -> Nat] /\ target \in [Trims -> Int]
  /\ cands \in [Trims -> Seq(Infos)] /\ selected \in [Trims -> SUBSET Conns]
  /\ spare \in [Trims -> SUBSET Peers] /\ trimmed \in [Trims -> BOOLEAN]
  /\ early \subseteq Infos /\ strayed \in BOOLEAN /\ late \subseteq Callers

\* connCount, which decides whether to trim, is the number of connections reported and
\* not yet reported closed, and each of them is tracked by its peer's entry.  A temporary
\* entry that two trims have collected may be dropped by one and, when its peer is back with
\* a new entry, that one by the other: from then on connections are missing.
CountExact ==
  ~strayed =>
    /\ connCount = Cardinality({c \in Conns : conn[c] \in {"open", "closed"}})
    /\ \A c \in Conns : conn[c] \in {"open", "closed"} =>
         HasInfo(remotePeer[c]) /\ c \in info[peers[remotePeer[c]]].conns

\* A peer that is protected from before a trim begins until it selects connections keeps
\* its connections; only the second pass of the memory watchdog may close them.
ProtectedSpared ==
  \A t \in Trims : at[t] = "select" => \A c \in selected[t] : remotePeer[c] \notin spare[t]

\* A connection that a trim selects does not belong to a peer in its grace period, even if
\* that peer came back after the trim had collected its candidates.  A peer that was tagged
\* before it connected is collected, and has its own grace period only when it connects.
GraceRespected ==
  \A t \in Callers \cup Background : at[t] = "select" =>
    \A c \in selected[t], i \in Infos : c \in info[i].conns => ~info[i].grace \/ i \in early

\* A trim selects the right connections: the count it decides by is that of the
\* connections reported and not yet gone, a peer protected all along is spared, and so is a peer
\* in its grace period, although connections end and return while the trim collects,
\* sorts and selects (connmgr.go: Connected, Disconnected, getConnsToClose).
TrimsSound == TypeOK /\ CountExact /\ ProtectedSpared /\ GraceRespected

\* What the comment on TrimOpenConns promises (connmgr.go: TrimOpenConns, doTrim): it returns
\* only after a trim was completed since it was called, whoever made that trim.  The code breaks
\* the promise in one case, which is exempt here: memoryEmergency counts its trim after it has
\* released the lock, so that a call that begins in between (late) reads the count too early,
\* takes that trim for a later one and may return without any.
TrimDuringCall == \A t \in Callers : at[t] = "returned" => trimmed[t] \/ t \in late

============================================================================
