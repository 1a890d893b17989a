------------------------- MODULE MCResourceManager -------------------------
(***************************************************************************)
(* A small instance of ResourceManager.  The state space of streams,       *)
(* connections and spans together is too large for TLC; each behaviour     *)
(* uses what the variable `part' says, which is chosen initially.          *)
(***************************************************************************)
EXTENDS ResourceManager, TLC

CONSTANTS s1, s2, c1, c2

VARIABLE part

Lim(streams, conns, mem) ==
  [r \in Res \cup {"streams", "conns"} |->
     CASE r = "streamsIn"  -> streams[1]  [] r = "connsIn"  -> conns[1]
       [] r = "streamsOut" -> streams[2]  [] r = "connsOut" -> conns[2]
       [] r = "streams"    -> streams[3]  [] r = "conns"    -> conns[3]
       [] r = "memory" -> mem
       [] r = "fd" -> 1]

\* Limits small enough that every scope refuses something: two streams fit
\* together, but not in one protocol and not with all memory; one connection at
\* a time fits in the transient scope and with a peer.
SmallLimit ==
  [k \in Kinds |-> CASE k \in {"transient", "peer"} -> Lim(<<2, 1, 2>>, <<1, 1, 1>>, 3)
                     [] k = "proto" -> Lim(<<1, 2, 2>>, <<2, 2, 2>>, 2)
                     [] k \in {"protoPeer", "svc"} -> Lim(<<2, 2, 1>>, <<2, 2, 2>>, 2)
                     [] OTHER -> Lim(<<2, 2, 2>>, <<2, 2, 2>>, 3)]

Unopened(leaves) == \A l \in leaves : st[l] = "new" /\ call[l] = NoCall
NoSpans == \A x \in Spans : span[x].owner = None
InTime == \A l \in Leaves : call[l].op \in Sets \cup {"transfer"} => st[l] # "done"
NoProtocol == \A l \in Leaves : attr[l].proto = None
FullPriority == \A l \in Leaves : call[l].prio = 255
OneUsesMemory == Cardinality({l \in Conns : call[l].amt["memory"] + own[l]["memory"] > 0}) <= 1

\* Streams whose protocol and service may be set too late, connections, and
\* streams with a span that reserves with a low priority.
Uses ==
  CASE part = "streams" -> Unopened(Conns) /\ NoSpans /\ FullPriority
    [] part = "conns"   -> Unopened(Streams) /\ NoSpans /\ InTime /\ FullPriority /\ OneUsesMemory
    [] part = "spans"   -> Unopened(Conns) /\ NoProtocol /\ InTime

MCInit == Init /\ part \in {"streams", "conns", "spans"}
MCNext == Next /\ UNCHANGED part /\ Uses'
MCSpec == MCInit /\ [][MCNext]_<<vars, part>>

Symmetry == Permutations(Streams) \cup Permutations(Conns)

\* At rest a scope is charged with what the open connections and streams below it hold,
\* and at no time is more released than was charged, although a reservation charges its scopes one by one
\* and is undone when one of them refuses (scope.go: the ...ForEdges functions, Done).
Accounted == Conservation /\ NeverOverReleases
============================================================================
