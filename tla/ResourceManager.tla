-------------------------- MODULE ResourceManager --------------------------
(***************************************************************************)
(* The resource manager (p2p/host/resource-manager).  Connections and      *)
(* streams are scopes that charge what they use to a list of shared scopes *)
(* (their edges): system, transient, and the scopes of a peer, a protocol, *)
(* a service and a peer within a protocol or a service.  Every call on a   *)
(* connection or stream holds its lock and visits the shared scopes one    *)
(* after the other, each under its own lock: a call is a list of steps     *)
(* that interleave with the steps of the other scopes and with the garbage *)
(* collection of unused peer and protocol scopes.                          *)
(***************************************************************************)
EXTENDS Integers, Sequences, FiniteSets, FiniteSetsExt

CONSTANTS
  Peers, Protos, Svcs,
  Streams, Conns, Spans,  \* identities of scopes that will be opened, each once
  Mem,                    \* sizes of memory reservations
  Prios,                  \* priorities of memory reservations
  Limit,                  \* the limits by kind of scope
  LateCalls,              \* may SetProtocol and SetService follow Done?
  None

Leaves == Streams \cup Conns

Res == {"streamsIn", "streamsOut", "connsIn", "connsOut", "fd", "memory"}
Kinds == {"system", "transient", "allowlistedSystem", "allowlistedTransient", "peer",
          "proto", "svc", "protoPeer", "svcPeer", "stream", "conn"}

ASSUME ResourceAssumption ==
  /\ Mem \subseteq Nat \ {0} /\ Prios \subseteq 0..255 /\ LateCalls \in BOOLEAN
  /\ IsFiniteSet(Peers) /\ IsFiniteSet(Protos) /\ None \notin Peers \cup Protos \cup Svcs
  /\ Streams \cap Conns = {}
  /\ Limit \in [Kinds -> [Res \cup {"streams", "conns"} -> Nat]]

----------------------------------------------------------------------------
(* Shared scopes.                                                          *)

System == <<"system">>
Transient == <<"transient">>
AllowlistedSystem == <<"allowlistedSystem">>
AllowlistedTransient == <<"allowlistedTransient">>
PeerScope(p) == <<"peer", p>>
ProtoScope(r) == <<"proto", r>>
SvcScope(v) == <<"svc", v>>
ProtoPeer(r, p) == <<"protoPeer", r, p>>
SvcPeer(v, p) == <<"svcPeer", v, p>>

Permanent == {System, Transient, AllowlistedSystem, AllowlistedTransient}
Collectable == {PeerScope(p) : p \in Peers} \cup {ProtoScope(r) : r \in Protos}
PerPeer(p) == {ProtoPeer(r, p) : r \in Protos} \cup {SvcPeer(v, p) : v \in Svcs}
Scopes == Permanent \cup Collectable \cup {SvcScope(v) : v \in Svcs}
            \cup UNION {PerPeer(p) : p \in Peers}

LimitOf(sc) == Limit[sc[1]]

\* Amounts of resources.
Nothing == [r \in Res |-> 0]
Plus(u, amt) == [r \in Res |-> u[r] + amt[r]]
Memory(n) == [Nothing EXCEPT !["memory"] = n]
OneStream(dir) == [Nothing EXCEPT ![IF dir = "in" THEN "streamsIn" ELSE "streamsOut"] = 1]
OneConn(dir, usefd) ==
  [Nothing EXCEPT ![IF dir = "in" THEN "connsIn" ELSE "connsOut"] = 1,
                  !["fd"] = IF usefd THEN 1 ELSE 0]

\* A release of more than is in use (logged as a bug) stops at zero.
Less(x, y) == IF y > x THEN 0 ELSE x - y
Minus(u, amt) == [r \in Res |-> Less(u[r], amt[r])]

\* checkMemory: a priority leaves the rest of the limit to higher ones.
FitsMemory(lim, w, prio) == w["memory"] <= (lim["memory"] * (1 + prio)) \div 256

\* A mutant: the limit of both directions together is not checked.
FitsEachStream(lim, w, amt) ==
  \A r \in {"streamsIn", "streamsOut"} : amt[r] > 0 => w[r] <= lim[r]

FitsStreams(lim, w, amt) ==
  /\ \A r \in {"streamsIn", "streamsOut"} : amt[r] > 0 => w[r] <= lim[r]
  /\ w["streamsIn"] + w["streamsOut"] <= lim["streams"]

FitsConns(lim, w, amt) ==
  /\ \A r \in {"connsIn", "connsOut", "fd"} : amt[r] > 0 => w[r] <= lim[r]
  /\ w["connsIn"] + w["connsOut"] <= lim["conns"]

\* May a scope that uses u be charged with amt?
Fits(lim, u, amt, prio) ==
  LET w == Plus(u, amt)
  IN FitsMemory(lim, w, prio) /\ FitsStreams(lim, w, amt) /\ FitsConns(lim, w, amt)

----------------------------------------------------------------------------
VARIABLES
  usage,    \* resources of the shared scopes
  refCnt,
  present,  \* the scopes in the manager's maps
  st,       \* of a connection or stream
  own,      \* its own resources
  edges,    \* its edges
  attr,     \* its direction, peer, protocol and service
  call,     \* the call that holds its lock
  todo,     \* the steps left in that call
  stale,    \* scopes that were collected while it still refers to them
  undo,     \* the steps that undo it if it fails now
  span      \* [owner, mem, open]

vars == <<usage, refCnt, present, st, own, edges, attr, call, todo, undo, stale, span>>
shared == <<usage, refCnt, present>>
leaf == <<st, own, edges, attr>>

NoCall == [op |-> "none", amt |-> Nothing, prio |-> 255, ok |-> TRUE, via |-> None]
NoAttr == [dir |-> "in", fd |-> FALSE, allowlisted |-> FALSE,
           peer |-> None, proto |-> None, svc |-> None]

\* Permanent scopes hold a reference of their own, and the transient ones
\* refer to the system ones.
Init ==
  /\ usage = [sc \in Scopes |-> Nothing]
  /\ refCnt = [sc \in Scopes |-> IF sc \notin Permanent THEN 0
                                 ELSE IF sc \in {System, AllowlistedSystem} THEN 2 ELSE 1]
  /\ present = Permanent
  /\ st = [l \in Leaves |-> "new"]
  /\ own = [l \in Leaves |-> Nothing]
  /\ edges = [l \in Leaves |-> <<>>]
  /\ attr = [l \in Leaves |-> NoAttr]
  /\ call = [l \in Leaves |-> NoCall]
  /\ todo = [l \in Leaves |-> <<>>]
  /\ undo = [l \in Leaves |-> <<>>]
  /\ stale = [l \in Leaves |-> {}]
  /\ span = [x \in Spans |-> [owner |-> None, mem |-> 0, open |-> FALSE]]

Idle(l) == call[l].op = "none"

Do(what, scs) == [i \in DOMAIN scs |-> [do |-> what, sc |-> scs[i]]]

\* l takes its lock and starts a call.
Begin(l, op, steps, amt, prio, via) ==
  /\ call' = [call EXCEPT ![l] = [op |-> op, amt |-> amt, prio |-> prio, ok |-> TRUE,
                                  via |-> via]]
  /\ todo' = [todo EXCEPT ![l] = steps]
  /\ undo' = [undo EXCEPT ![l] = <<>>]
  /\ UNCHANGED stale

\* l releases its lock.
End(l) == /\ call' = [call EXCEPT ![l] = NoCall]
          /\ UNCHANGED <<todo, undo, stale>>

\* Scopes that a lookup finds or creates; a new one refers to its edge, system.
Created(scs) == {sc \in scs \ present : sc[1] \in {"peer", "proto", "svc"}}
Refs(scs) ==
  [sc \in Scopes |-> refCnt[sc] + (IF sc \in scs THEN 1 ELSE 0)
                       + (IF sc = System THEN Cardinality(Created(scs)) ELSE 0)]

----------------------------------------------------------------------------
(* Steps inside a call.                                                    *)

Head1(l) == Head(todo[l])
Takes(step) == step.do \in {"reserve", "attach"}

\* A collected scope is done: it refuses reservations and ignores releases.
IsDone(l) == Head1(l).sc \in stale[l] /\ Head1(l).do # "attach"

Granted(l) ==
  /\ ~IsDone(l)
  /\ Fits(LimitOf(Head1(l).sc), usage[Head1(l).sc], call[l].amt, call[l].prio)

Inverse1(step) == [step EXCEPT !.do = IF @ = "reserve" THEN "release" ELSE "detach"]

\* One shared scope is charged: "attach" also looks the scope up and keeps a
\* reference.
Charge(l) ==
  /\ todo[l] # <<>> /\ Takes(Head1(l)) /\ Granted(l)
  /\ LET sc == Head1(l).sc
         new == IF Head1(l).do = "attach" THEN {sc} ELSE {}
     IN /\ usage' = [usage EXCEPT ![sc] = Plus(@, call[l].amt)]
        /\ refCnt' = Refs(new)
        /\ present' = present \cup new
        /\ stale' = [stale EXCEPT ![l] = @ \ new]
  /\ undo' = [undo EXCEPT ![l] = Append(@, Inverse1(Head1(l)))]
  /\ todo' = [todo EXCEPT ![l] = Tail(@)]
  /\ UNCHANGED <<call, leaf, span>>

\* A mutant: the scope that refused is undone, too.
RefuseUndoesAll(l) ==
  /\ todo[l] # <<>> /\ Takes(Head1(l)) /\ ~Granted(l)
  /\ todo' = [todo EXCEPT ![l] = Append(undo[l], Inverse1(Head1(l)))]
  /\ undo' = [undo EXCEPT ![l] = <<>>]
  /\ call' = [call EXCEPT ![l].ok = FALSE]
  /\ UNCHANGED <<shared, leaf, stale, span>>

\* A shared scope refuses: what was charged before is undone.  A scope that the
\* lookup created stays.
Refuse(l) ==
  /\ todo[l] # <<>> /\ Takes(Head1(l)) /\ ~Granted(l)
  /\ LET new == IF Head1(l).do = "attach" THEN {Head1(l).sc} ELSE {}
     IN /\ present' = present \cup new
        /\ refCnt' = [Refs(new) EXCEPT ![Head1(l).sc] = refCnt[Head1(l).sc]]
  /\ todo' = [todo EXCEPT ![l] = undo[l]]
  /\ undo' = [undo EXCEPT ![l] = <<>>]
  /\ call' = [call EXCEPT ![l].ok = FALSE]
  /\ UNCHANGED <<usage, leaf, stale, span>>

\* A shared scope gets back what was charged; "detach" also drops the reference.
Uncharge(l) ==
  /\ todo[l] # <<>> /\ ~Takes(Head1(l))
  /\ IF IsDone(l) THEN UNCHANGED <<usage, refCnt>>
     ELSE LET sc == Head1(l).sc
          IN /\ usage' = [usage EXCEPT ![sc] = Minus(@, call[l].amt)]
             /\ refCnt' = [refCnt EXCEPT ![sc] = @ - IF Head1(l).do = "detach" THEN 1 ELSE 0]
  /\ todo' = [todo EXCEPT ![l] = Tail(@)]
  /\ UNCHANGED <<present, call, undo, leaf, stale, span>>

Returns(l, op) == call[l].op = op /\ todo[l] = <<>>

----------------------------------------------------------------------------
(* Opening and closing.                                                    *)

\* A mutant: the edges hold no reference of the peer scope yet.
OpenStreamUnreferenced(l, p, dir) ==
  LET es == <<PeerScope(p), Transient, System>>
  IN /\ st[l] = "new" /\ Idle(l)
     /\ refCnt' = Refs({Transient, System})
     /\ present' = present \cup {PeerScope(p)}
     /\ attr' = [attr EXCEPT ![l].dir = dir, ![l].peer = p]
     /\ edges' = [edges EXCEPT ![l] = es]
     /\ Begin(l, "open", Do("reserve", es), OneStream(dir), 255, None)
     /\ UNCHANGED <<usage, st, own, span>>

\* OpenStream: the new scope refers to its edges, then AddStream.
OpenStream(l, p, dir) ==
  LET es == <<PeerScope(p), Transient, System>>
  IN /\ st[l] = "new" /\ Idle(l)
     /\ Fits(Limit["stream"], own[l], OneStream(dir), 255)
     /\ refCnt' = Refs({PeerScope(p), Transient, System})
     /\ present' = present \cup {PeerScope(p)}
     /\ attr' = [attr EXCEPT ![l].dir = dir, ![l].peer = p]
     /\ edges' = [edges EXCEPT ![l] = es]
     /\ Begin(l, "open", Do("reserve", es), OneStream(dir), 255, None)
     /\ UNCHANGED <<usage, st, own, span>>

\* OpenConnection, and its second attempt with the scopes of the allowlist.
ConnEdges(allowlisted) ==
  IF allowlisted THEN <<AllowlistedTransient, AllowlistedSystem>> ELSE <<Transient, System>>

BeginConn(l, dir, fd, allowlisted) ==
  LET es == ConnEdges(allowlisted)
  IN /\ Fits(Limit["conn"], own[l], OneConn(dir, fd), 255)
     /\ refCnt' = Refs({es[1], es[2]})
     /\ attr' = [attr EXCEPT ![l].dir = dir, ![l].fd = fd, ![l].allowlisted = allowlisted]
     /\ edges' = [edges EXCEPT ![l] = es]
     /\ Begin(l, "open", Do("reserve", es), OneConn(dir, fd), 255, None)
     /\ UNCHANGED <<usage, present, st, own, span>>

OpenConnection(l, dir, fd) ==
  st[l] = "new" /\ Idle(l) /\ BeginConn(l, dir, fd, FALSE)

Opened(l) ==
  /\ Returns(l, "open") /\ call[l].ok
  /\ st' = [st EXCEPT ![l] = "live"]
  /\ own' = [own EXCEPT ![l] = Plus(@, call[l].amt)]
  /\ End(l)
  /\ UNCHANGED <<shared, edges, attr, span>>

\* Done of a scope that could not be opened.
OpenRefused(l) ==
  /\ Returns(l, "open") /\ ~call[l].ok
  /\ Begin(l, "abort", Do("detach", edges[l]), Nothing, 255, None)
  /\ UNCHANGED <<shared, leaf, span>>

\* The endpoint may be in the allowlist.
RetryAllowlisted(l) ==
  /\ Returns(l, "abort") /\ l \in Conns /\ ~attr[l].allowlisted
  /\ BeginConn(l, attr[l].dir, attr[l].fd, TRUE)

Done(l) ==
  /\ st[l] \in {"live", "failed"} /\ Idle(l)
  /\ Begin(l, "close", Do("detach", edges[l]), own[l], 255, None)
  /\ UNCHANGED <<shared, leaf, span>>

Closed(l) ==
  /\ Returns(l, "close") \/ Returns(l, "abort")
  /\ st' = [st EXCEPT ![l] = "done"]
  /\ own' = [own EXCEPT ![l] = Nothing]
  /\ End(l)
  /\ UNCHANGED <<shared, edges, attr, span>>

----------------------------------------------------------------------------
(* Moving a scope to other edges.  Callers close the scope when it fails.  *)

Attach(sc) == [do |-> "attach", sc |-> sc]
Detach(sc) == [do |-> "detach", sc |-> sc]

\* None of these looks at the done flag of the scope.
Settable(l) == Idle(l) /\ (st[l] = "live" \/ (LateCalls /\ st[l] = "done"))

SetProtocolSteps(r, p) ==
  <<Attach(ProtoScope(r)), Attach(ProtoPeer(r, p)), Detach(Transient)>>

SetProtocol(l, r) ==
  /\ Settable(l) /\ attr[l].peer # None /\ attr[l].proto = None
  /\ attr' = [attr EXCEPT ![l].proto = r]
  /\ Begin(l, "setProtocol", SetProtocolSteps(r, attr[l].peer), own[l], 255, None)
  /\ UNCHANGED <<shared, st, own, edges, span>>

SetService(l, v) ==
  /\ Settable(l) /\ attr[l].proto # None /\ attr[l].svc = None
  /\ attr' = [attr EXCEPT ![l].svc = v]
  /\ Begin(l, "setService", <<Attach(SvcScope(v)), Attach(SvcPeer(v, attr[l].peer))>>,
           own[l], 255, None)
  /\ UNCHANGED <<shared, st, own, edges, span>>

SetPeerSteps(p) == <<Attach(PeerScope(p)), Detach(Transient)>>
SetPeerStepsAllowlisted(p) == <<Attach(PeerScope(p)), Detach(AllowlistedTransient)>>

\* allowed: the allowlist has the address for this peer now.  If not, the
\* connection first moves to the scopes that are not allowlisted.
SetPeer(l, p, allowed) ==
  /\ st[l] = "live" /\ Idle(l) /\ attr[l].peer = None
  /\ attr' = [attr EXCEPT ![l].peer = p, ![l].allowlisted = @ /\ allowed]
  /\ IF attr[l].allowlisted /\ ~allowed
     THEN Begin(l, "transfer",
                <<Detach(AllowlistedTransient), Detach(AllowlistedSystem),
                  Attach(System), Attach(Transient)>>, own[l], 255, None)
     ELSE Begin(l, "setPeer", IF attr[l].allowlisted THEN SetPeerStepsAllowlisted(p)
                              ELSE SetPeerSteps(p), own[l], 255, None)
  /\ UNCHANGED <<shared, st, own, edges, span>>

Transferred(l) ==
  /\ Returns(l, "transfer") /\ call[l].ok
  /\ edges' = [edges EXCEPT ![l] = <<System, Transient>>]
  /\ Begin(l, "setPeer", SetPeerSteps(attr[l].peer), own[l], 255, None)
  /\ UNCHANGED <<shared, st, own, attr, span>>

NewEdges(l) ==
  LET a == attr[l]
  IN CASE call[l].op = "setPeer" ->
            <<PeerScope(a.peer), IF a.allowlisted THEN AllowlistedSystem ELSE System>>
       [] call[l].op = "setProtocol" ->
            <<PeerScope(a.peer), ProtoPeer(a.proto, a.peer), ProtoScope(a.proto), System>>
       [] call[l].op = "setService" ->
            <<PeerScope(a.peer), ProtoPeer(a.proto, a.peer), SvcPeer(a.svc, a.peer),
              ProtoScope(a.proto), SvcScope(a.svc), System>>

Sets == {"setPeer", "setProtocol", "setService"}

Set(l) ==
  /\ call[l].op \in Sets /\ todo[l] = <<>> /\ call[l].ok
  /\ edges' = [edges EXCEPT ![l] = NewEdges(l)]
  /\ End(l)
  /\ UNCHANGED <<shared, st, own, attr, span>>

\* Nothing was moved, or the transfer from the allowlist left no edges.
SetRefused(l) ==
  /\ call[l].op \in Sets \cup {"transfer"} /\ todo[l] = <<>> /\ ~call[l].ok
  /\ attr' = CASE call[l].op = "setService" -> [attr EXCEPT ![l].svc = None]
               [] call[l].op = "setProtocol" -> [attr EXCEPT ![l].proto = None]
               [] OTHER -> [attr EXCEPT ![l].peer = None]
  /\ edges' = [edges EXCEPT ![l] = IF call[l].op = "transfer" THEN <<>> ELSE @]
  /\ st' = [st EXCEPT ![l] = IF @ = "live" THEN "failed" ELSE @]
  /\ End(l)
  /\ UNCHANGED <<shared, own, span>>

----------------------------------------------------------------------------
(* Memory, of a connection or stream itself or through a span of it.       *)

BeginSpan(x, l) ==
  /\ span[x].owner = None /\ st[l] = "live" /\ Idle(l)
  /\ span' = [span EXCEPT ![x] = [owner |-> l, mem |-> 0, open |-> TRUE]]
  /\ UNCHANGED <<shared, leaf, call, todo, undo, stale>>

\* via is a span of l, or None.
Through(l, via) == via # None => span[via].open /\ span[via].owner = l

AddToSpan(via, n) == span' = IF via = None THEN span ELSE [span EXCEPT ![via].mem = @ + n]

ReserveMemory(l, via, n, prio) ==
  /\ st[l] = "live" /\ Idle(l) /\ Through(l, via)
  /\ Fits(Limit[IF l \in Streams THEN "stream" ELSE "conn"], own[l], Memory(n), prio)
  /\ Begin(l, "reserveMemory", Do("reserve", edges[l]), Memory(n), prio, via)
  /\ UNCHANGED <<shared, leaf, span>>

MemoryReserved(l) ==
  /\ Returns(l, "reserveMemory")
  /\ LET n == IF call[l].ok THEN call[l].amt["memory"] ELSE 0
     IN own' = [own EXCEPT ![l] = Plus(@, Memory(n))] /\ AddToSpan(call[l].via, n)
  /\ End(l)
  /\ UNCHANGED <<shared, st, edges, attr>>

\* Memory of l that is not reserved through a span.
Direct(l) ==
  own[l]["memory"] - MapThenSumSet(LAMBDA x : span[x].mem,
                                   {x \in Spans : span[x].open /\ span[x].owner = l})

\* Callers release what they reserved.
ReleaseMemory(l, via, n) ==
  /\ st[l] = "live" /\ Idle(l) /\ Through(l, via)
  /\ n <= IF via = None THEN Direct(l) ELSE span[via].mem
  /\ own' = [own EXCEPT ![l] = Minus(@, Memory(n))]
  /\ AddToSpan(via, 0 - n)
  /\ Begin(l, "releaseMemory", Do("release", edges[l]), Memory(n), 255, None)
  /\ UNCHANGED <<shared, st, edges, attr>>

MemoryReleased(l) ==
  /\ Returns(l, "releaseMemory")
  /\ End(l)
  /\ UNCHANGED <<shared, leaf, span>>

\* ReleaseResources of a closed scope does nothing: Done released all it had.
OwnerOpen(l) == st[l] # "done"

SpanDone(x, l) ==
  LET n == span[x].mem
  IN /\ span[x].open /\ span[x].owner = l /\ Idle(l)
     /\ span' = [span EXCEPT ![x].mem = 0, ![x].open = FALSE]
     /\ IF OwnerOpen(l)
        THEN /\ own' = [own EXCEPT ![l] = Minus(@, Memory(n))]
             /\ Begin(l, "releaseMemory", Do("release", edges[l]), Memory(n), 255, None)
        ELSE UNCHANGED <<own, call, todo, undo, stale>>
     /\ UNCHANGED <<shared, st, edges, attr>>

----------------------------------------------------------------------------
(* Garbage collection.                                                     *)

IsUnused(sc) == refCnt[sc] <= 0 /\ \A r \in Res \ {"memory"} : usage[sc][r] = 0

EdgeSet(l) == {edges[l][i] : i \in DOMAIN edges[l]}
RefersTo(l) ==
  EdgeSet(l) \cup {undo[l][i].sc : i \in DOMAIN undo[l]}
    \cup {todo[l][i].sc : i \in {j \in DOMAIN todo[l] : todo[l][j].do # "attach"}}

\* Unused peer and protocol scopes go, and with a peer its scopes within
\* protocols and services.  Lookups wait for the manager's lock meanwhile.
GC ==
  LET dead == {sc \in Collectable \cap present : IsUnused(sc)}
      deadPeers == {p \in Peers : PeerScope(p) \in dead}
      deadProtos == {r \in Protos : ProtoScope(r) \in dead}
      gone == dead \cup (UNION {PerPeer(p) : p \in deadPeers})
                \cup {ProtoPeer(r, p) : r \in deadProtos, p \in Peers}
  IN /\ present' = present \ gone
     /\ usage' = [sc \in Scopes |-> IF sc \in gone THEN Nothing ELSE usage[sc]]
     /\ refCnt' = [sc \in Scopes |-> IF sc \in gone THEN 0
                                     ELSE IF sc = System THEN refCnt[sc] - Cardinality(dead)
                                     ELSE refCnt[sc]]
     /\ stale' = [l \in Leaves |-> stale[l] \cup (gone \cap RefersTo(l))]
     /\ UNCHANGED <<leaf, call, todo, undo, span>>

Next ==
  \/ GC
  \/ \E l \in Leaves :
       \/ Charge(l) \/ Refuse(l) \/ Uncharge(l)
       \/ Opened(l) \/ OpenRefused(l) \/ RetryAllowlisted(l) \/ Done(l) \/ Closed(l)
       \/ Transferred(l) \/ Set(l) \/ SetRefused(l)
       \/ MemoryReserved(l) \/ MemoryReleased(l)
       \/ \E x \in Spans : BeginSpan(x, l) \/ SpanDone(x, l)
       \/ \E via \in Spans \cup {None}, n \in Mem :
            ReleaseMemory(l, via, n) \/ \E prio \in Prios : ReserveMemory(l, via, n, prio)
  \/ \E l \in Streams, dir \in {"in", "out"}, p \in Peers : OpenStream(l, p, dir)
  \/ \E l \in Streams, r \in Protos : SetProtocol(l, r)
  \/ \E l \in Streams, v \in Svcs : SetService(l, v)
  \/ \E l \in Conns, dir \in {"in", "out"}, fd \in BOOLEAN : OpenConnection(l, dir, fd)
  \/ \E l \in Conns, p \in Peers, allowed \in BOOLEAN : SetPeer(l, p, allowed)

Spec == Init /\ [][Next]_vars

----------------------------------------------------------------------------
(* Properties.                                                             *)

Amounts == [Res -> Nat]
Steps == [do : {"reserve", "release", "attach", "detach"}, sc : Scopes]
Calls == [op : {"none", "open", "abort", "close", "reserveMemory", "releaseMemory",
                "transfer"} \cup Sets,
          amt : Amounts, prio : 0..255, ok : BOOLEAN, via : Spans \cup {None}]
Attrs == [dir : {"in", "out"}, fd : BOOLEAN, allowlisted : BOOLEAN,
          peer : Peers \cup {None}, proto : Protos \cup {None}, svc : Svcs \cup {None}]

\* Every call, whatever fails, leaves scopes that refer to existing kinds of
\* scopes only, and amounts that are not negative.
TypeOK ==
  /\ usage \in [Scopes -> Amounts]
  /\ refCnt \in [Scopes -> Int]
  /\ present \in SUBSET Scopes
  /\ st \in [Leaves -> {"new", "live", "failed", "done"}]
  /\ own \in [Leaves -> Amounts]
  /\ edges \in [Leaves -> Seq(Scopes)]
  /\ attr \in [Leaves -> Attrs]
  /\ call \in [Leaves -> Calls]
  /\ todo \in [Leaves -> Seq(Steps)]
  /\ undo \in [Leaves -> Seq(Steps)]
  /\ stale \in [Leaves -> SUBSET Scopes]
  /\ span \in [Spans -> [owner : Leaves \cup {None}, mem : Nat, open : BOOLEAN]]

Within(lim, u) ==
  /\ \A r \in Res : u[r] <= lim[r]
  /\ u["streamsIn"] + u["streamsOut"] <= lim["streams"]
  /\ u["connsIn"] + u["connsOut"] <= lim["conns"]

\* No scope is ever charged more than its limits, in any direction and in
\* total, not even between two steps of calls that fail and are undone.
WithinLimits == \A sc \in Scopes : Within(LimitOf(sc), usage[sc])

Holders(sc) == {l \in Leaves : st[l] \in {"live", "failed"} /\ sc \in EdgeSet(l)}
Quiescent == \A l \in Leaves : Idle(l)

\* When no call is under way, a shared scope is charged with exactly what the
\* open scopes that have it as an edge use: no sequence of failed reservations,
\* moves, spans that outlive their owner and collections leaks or loses any.
Conservation ==
  Quiescent => \A sc \in Scopes, r \in Res :
    usage[sc][r] = MapThenSumSet(LAMBDA l : own[l][r], Holders(sc))

\* The sanity checks of the release functions ("BUG: too much memory released")
\* never strike, in any interleaving.
NeverOverReleases ==
  \A l \in Leaves : todo[l] # <<>> /\ ~Takes(Head1(l)) /\ ~IsDone(l) =>
    \A r \in Res : call[l].amt[r] <= usage[Head1(l).sc][r]

\* The garbage collection never takes a scope that an open connection or stream
\* charges and is not about to leave.
NoStaleEdges ==
  \A l \in Leaves : st[l] # "done" /\ call[l].op \notin {"close", "abort"}
    => EdgeSet(l) \cap stale[l] = {}

\* Streams that are done and have a protocol, which may have been set too late: then the
\* reference to the protocol's scope is never given back.
SetLate(sc) ==
  {l \in Leaves : /\ LateCalls /\ st[l] = "done" /\ attr[l].proto # None
                  /\ sc = ProtoScope(attr[l].proto)}

\* When no call is under way, a peer or protocol scope is referred to once by
\* each open scope that has it as an edge and by nothing else, but for protocols that were
\* set too late: a scope that nobody uses can be collected.
UnusedCollectable ==
  Quiescent => \A sc \in Collectable :
    /\ Cardinality(Holders(sc)) <= refCnt[sc]
    /\ refCnt[sc] <= Cardinality(Holders(sc)) + Cardinality(SetLate(sc))

\* The references to a scope are right: nobody is charged through a scope that was
\* collected, and one that nobody uses can be collected, although collection comes between
\* any two steps of the calls that look scopes up, fail and are undone (rcmgr.go: gc,
\* getPeerScope, getProtocolScope; scope.go: IncRef, DecRef).
ReferencesRight == NoStaleEdges /\ UnusedCollectable
============================================================================
