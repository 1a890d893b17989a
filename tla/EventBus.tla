------------------------------ MODULE EventBus ------------------------------
(***************************************************************************)
(* The event bus (p2p/host/eventbus/basic.go).  Emitters and subscriptions *)
(* of an event type meet in the type's node, which the bus makes for the   *)
(* first of them and drops with the last.  Emitting sends on the channel   *)
(* of each subscription in turn, blocking on a full one, with the node's   *)
(* lock held.  An emitter and a subscription are each used by one          *)
(* goroutine.                                                              *)
(***************************************************************************)
EXTENDS Naturals, SequencesExt

CONSTANTS
  Types,
  Emitters, emits,     \* [Emitters -> Types]
  Stateful,            \* the emitters that were given the option Stateful
  Subs, types,         \* [Subs -> Seq(Types)]: the types of each subscription
  Wildcards,           \* wildcard subscriptions
  BufSize,             \* capacity of a subscription's channel
  Nobody,              \* for a lock that is free
  MaxEvents,           \* bound of the model: events of each type
  MaxNodes             \* bound of the model: one for each type of an emitter or subscription

Nodes == 1..MaxNodes

VARIABLES
  busLk,     \* who holds basicBus.lk
  nodes,     \* basicBus.nodes: [Types -> Nodes \cup {0}]
  used,      \* how many nodes were made
  node,      \* [Nodes -> [emitters, keepLast, last, sinks]]
  nodeLk,    \* [Nodes -> who holds node.lk]
  nSinks, wsinks, wreaders, wwriters,  \* the wildcard node; who reads, who waits to write
  ch,        \* the channels
  em,        \* [Emitters -> [at, n, evt, todo]]: what it does, its node, the event and
             \* the sinks left
  sb,        \* [Subs -> [at, i, n]]: what it does, for which of its types, its nodes
  wc,        \* [Wildcards -> what it does]
  log,       \* history: [Types -> Nat], the number of events emitted
  got        \* history: the events received, and the first that a subscription is due

busVars == <<busLk, nodes, used>>
nodeVars == <<node, nodeLk>>
wildVars == <<nSinks, wsinks, wreaders, wwriters, wc>>
vars == <<busVars, nodeVars, wildVars, ch, em, sb, log, got>>

NewNode == [emitters |-> 0, keepLast |-> FALSE, last |-> 0, sinks |-> <<>>]

Init ==
  /\ busLk = Nobody /\ nodes = [t \in Types |-> 0] /\ used = 0
  /\ node = [n \in Nodes |-> NewNode] /\ nodeLk = [n \in Nodes |-> Nobody]
  /\ nSinks = 0 /\ wsinks = <<>> /\ wreaders = {} /\ wwriters = {}
  /\ wc = [w \in Wildcards |-> "new"]
  /\ ch = [s \in Subs \cup Wildcards |-> <<>>]
  /\ em = [e \in Emitters |-> [at |-> "new", n |-> 0, evt |-> 0, todo |-> <<>>]]
  /\ sb = [s \in Subs |-> [at |-> "new", i |-> 1, n |-> [t \in Types |-> 0]]]
  /\ log = [t \in Types |-> 0]
  /\ got = [s \in Subs |-> [in |-> <<>>, due |-> [t \in Types |-> 0]]]

----------------------------------------------------------------------------
(* The bus.                                                                *)

\* withNode for the process x: the node is found or made under the lock of the bus, which
\* is kept until the lock of the node is obtained.
WithNode(x, t) ==
  /\ busLk = Nobody /\ busLk' = x
  /\ IF nodes[t] # 0 THEN UNCHANGED <<nodes, used>>
     ELSE used' = used + 1 /\ nodes' = [nodes EXCEPT ![t] = used + 1]

\* A mutant: a node without emitters is dropped.
UnusedByEmitters(n) == node[n].emitters = 0

\* A node that is still in use stays.
Unused(n) == node[n].emitters = 0 /\ node[n].sinks = <<>>

\* tryDropNode, under the lock of the bus.
DropNode(t) ==
  LET n == nodes[t] IN
  /\ n # 0 => nodeLk[n] = Nobody
  /\ nodes' = IF n # 0 /\ Unused(n) THEN [nodes EXCEPT ![t] = 0] ELSE nodes
  /\ busLk' = Nobody
  /\ UNCHANGED used

Channel(s) == Len(ch[s]) < BufSize

----------------------------------------------------------------------------
(* Emitters.                                                               *)

Emitter(e) ==
  /\ em[e].at = "new"
  /\ WithNode(e, emits[e])
  /\ em' = [em EXCEPT ![e].at = "node"]
  /\ UNCHANGED <<nodeVars, wildVars, ch, sb, log, got>>

EmitterNode(e) ==
  LET n == nodes[emits[e]] IN
  /\ em[e].at = "node" /\ nodeLk[n] = Nobody
  /\ node' = [node EXCEPT ![n].emitters = @ + 1, ![n].keepLast = @ \/ e \in Stateful]
  /\ em' = [em EXCEPT ![e].at = "open", ![e].n = n]
  /\ busLk' = Nobody
  /\ UNCHANGED <<nodes, used, nodeLk, wildVars, ch, sb, log, got>>

Emit(e) ==
  LET n == em[e].n IN
  /\ em[e].at = "open" /\ log[emits[e]] < MaxEvents
  /\ nodeLk[n] = Nobody /\ nodeLk' = [nodeLk EXCEPT ![n] = e]
  /\ log' = [log EXCEPT ![emits[e]] = @ + 1]
  /\ node' = IF node[n].keepLast THEN [node EXCEPT ![n].last = log[emits[e]] + 1] ELSE node
  /\ em' = [em EXCEPT ![e].at = "emit", ![e].evt = log[emits[e]] + 1, ![e].todo = node[n].sinks]
  /\ UNCHANGED <<busVars, wildVars, ch, sb, got>>

\* A sink's channel is sent on as soon as it is not full.
EmitSend(e) ==
  /\ em[e].at \in {"emit", "wildcard"} /\ em[e].todo # <<>>
  /\ LET s == Head(em[e].todo) IN
       /\ Channel(s)
       /\ ch' = [ch EXCEPT ![s] = Append(@, <<emits[e], em[e].evt>>)]
  /\ em' = [em EXCEPT ![e].todo = Tail(@)]
  /\ UNCHANGED <<busVars, nodeVars, wildVars, sb, log, got>>

EmitUnlock(e) ==
  /\ em[e].at = "emit" /\ em[e].todo = <<>>
  /\ nodeLk' = [nodeLk EXCEPT ![em[e].n] = Nobody]
  /\ em' = [em EXCEPT ![e].at = IF nSinks = 0 THEN "open" ELSE "wait"]
  /\ UNCHANGED <<busVars, node, wildVars, ch, sb, log, got>>

\* The wildcard node: a writer that waits keeps new readers out.
EmitWildcard(e) ==
  /\ em[e].at = "wait" /\ wwriters = {}
  /\ wreaders' = wreaders \cup {e}
  /\ em' = [em EXCEPT ![e].at = "wildcard", ![e].todo = wsinks]
  /\ UNCHANGED <<busVars, nodeVars, nSinks, wsinks, wwriters, wc, ch, sb, log, got>>

EmitReturns(e) ==
  /\ em[e].at = "wildcard" /\ em[e].todo = <<>>
  /\ wreaders' = wreaders \ {e}
  /\ em' = [em EXCEPT ![e].at = "open"]
  /\ UNCHANGED <<busVars, nodeVars, nSinks, wsinks, wwriters, wc, ch, sb, log, got>>

CloseEmitter(e) ==
  LET n == em[e].n IN
  /\ em[e].at = "open"
  /\ node' = [node EXCEPT ![n].emitters = @ - 1]
  /\ em' = [em EXCEPT ![e].at = IF node[n].emitters = 1 THEN "drop" ELSE "closed"]
  /\ UNCHANGED <<busVars, nodeLk, wildVars, ch, sb, log, got>>

EmitterDrop(e) ==
  /\ em[e].at = "drop" /\ busLk = Nobody /\ busLk' = e
  /\ em' = [em EXCEPT ![e].at = "dropping"]
  /\ UNCHANGED <<nodes, used, nodeVars, wildVars, ch, sb, log, got>>

EmitterDropped(e) ==
  /\ em[e].at = "dropping" /\ DropNode(emits[e])
  /\ em' = [em EXCEPT ![e].at = "closed"]
  /\ UNCHANGED <<nodeVars, wildVars, ch, sb, log, got>>

----------------------------------------------------------------------------
(* Subscriptions.                                                          *)

Type(s) == types[s][sb[s].i]

\* For each type in turn; then the call returns.
Subscribe(s) ==
  /\ sb[s].at = "new"
  /\ WithNode(s, Type(s))
  /\ sb' = [sb EXCEPT ![s].at = "node"]
  /\ UNCHANGED <<nodeVars, wildVars, ch, em, log, got>>

NextType(s, at, done) ==
  IF sb[s].i < Len(types[s]) THEN [sb[s] EXCEPT !.at = at, !.i = @ + 1]
                             ELSE [sb[s] EXCEPT !.at = done, !.i = 1]

\* The goroutine that sends the last event takes over the lock of the node.
SubscribeNode(s) ==
  LET t == Type(s)
      n == nodes[t] IN
  /\ sb[s].at = "node" /\ nodeLk[n] = Nobody
  /\ node' = [node EXCEPT ![n].sinks = Append(@, s)]
  /\ nodeLk' = [nodeLk EXCEPT ![n] = <<s, t>>]
  /\ sb' = [sb EXCEPT ![s] = [NextType(s, "new", "open") EXCEPT !.n[t] = n]]
  /\ got' = [got EXCEPT ![s].due[t] = IF node[n].keepLast /\ node[n].last # 0
                                      THEN node[n].last ELSE log[t] + 1]
  /\ busLk' = Nobody
  /\ UNCHANGED <<nodes, used, wildVars, ch, em, log>>

SendLast(s, t) ==
  LET n == sb[s].n[t] IN
  /\ n # 0 /\ nodeLk[n] = <<s, t>>
  /\ nodeLk' = [nodeLk EXCEPT ![n] = Nobody]
  /\ IF node[n].keepLast /\ node[n].last # 0
     THEN Channel(s) /\ ch' = [ch EXCEPT ![s] = Append(@, <<t, node[n].last>>)]
     ELSE UNCHANGED ch
  /\ UNCHANGED <<busVars, node, wildVars, em, sb, log, got>>

Receive(s) ==
  /\ sb[s].at = "open" /\ ch[s] # <<>>
  /\ ch' = [ch EXCEPT ![s] = Tail(@)]
  /\ got' = [got EXCEPT ![s].in = Append(@, Head(ch[s]))]
  /\ UNCHANGED <<busVars, nodeVars, wildVars, em, sb, log>>

CloseSub(s) ==
  /\ sb[s].at = "open"
  /\ sb' = [sb EXCEPT ![s].at = "remove"]
  /\ UNCHANGED <<busVars, nodeVars, wildVars, ch, em, log, got>>

Closing(s) == sb[s].at \in {"remove", "drop", "dropping", "closed"}

\* The goroutine that Close starts.
Drain(s) ==
  /\ Closing(s) /\ ch[s] # <<>>
  /\ ch' = [ch EXCEPT ![s] = Tail(@)]
  /\ UNCHANGED <<busVars, nodeVars, wildVars, em, sb, log, got>>

RemoveSink(s) ==
  LET n == sb[s].n[Type(s)]
      i == CHOOSE j \in 1..Len(node[n].sinks) : node[n].sinks[j] = s
      left == Front([node[n].sinks EXCEPT ![i] = Last(node[n].sinks)]) IN
  /\ sb[s].at = "remove" /\ nodeLk[n] = Nobody
  /\ node' = [node EXCEPT ![n].sinks = left]
  /\ sb' = [sb EXCEPT ![s] = IF left = <<>> /\ node[n].emitters = 0
                             THEN [@ EXCEPT !.at = "drop"] ELSE NextType(s, "remove", "closed")]
  /\ UNCHANGED <<busVars, nodeLk, wildVars, ch, em, log, got>>

SubDrop(s) ==
  /\ sb[s].at = "drop" /\ busLk = Nobody /\ busLk' = s
  /\ sb' = [sb EXCEPT ![s].at = "dropping"]
  /\ UNCHANGED <<nodes, used, nodeVars, wildVars, ch, em, log, got>>

SubDropped(s) ==
  /\ sb[s].at = "dropping" /\ DropNode(Type(s))
  /\ sb' = [sb EXCEPT ![s] = NextType(s, "remove", "closed")]
  /\ UNCHANGED <<nodeVars, wildVars, ch, em, log, got>>

----------------------------------------------------------------------------
(* Wildcard subscriptions.                                                 *)

\* addSink and removeSink count first and then wait for the lock.
Count(w, from, to, n) ==
  /\ wc[w] = from /\ wc' = [wc EXCEPT ![w] = to]
  /\ nSinks' = n
  /\ wwriters' = wwriters \cup {w}
  /\ UNCHANGED <<busVars, nodeVars, wsinks, wreaders, ch, em, sb, log, got>>

SubscribeAll(w) == Count(w, "new", "add", nSinks + 1)
CloseWildcard(w) == Count(w, "open", "remove", nSinks - 1)

WriteSinks(w) ==
  /\ wc[w] \in {"add", "remove"} /\ wreaders = {}
  /\ wsinks' = IF wc[w] = "add" THEN Append(wsinks, w) ELSE SelectSeq(wsinks, LAMBDA x : x # w)
  /\ wc' = [wc EXCEPT ![w] = IF @ = "add" THEN "open" ELSE "closed"]
  /\ wwriters' = wwriters \ {w}
  /\ UNCHANGED <<busVars, nodeVars, nSinks, wreaders, ch, em, sb, log, got>>

ReceiveAny(w) ==
  /\ wc[w] = "open" /\ ch[w] # <<>>
  /\ ch' = [ch EXCEPT ![w] = Tail(@)]
  /\ UNCHANGED <<busVars, nodeVars, wildVars, em, sb, log, got>>

----------------------------------------------------------------------------
EmitterStep(e) ==
  \/ EmitterNode(e) \/ EmitSend(e) \/ EmitUnlock(e) \/ EmitWildcard(e) \/ EmitReturns(e)
  \/ EmitterDrop(e) \/ EmitterDropped(e)

SubStep(s) ==
  \/ Subscribe(s) /\ sb[s].i > 1
  \/ SubscribeNode(s) \/ RemoveSink(s) \/ SubDrop(s) \/ SubDropped(s)

Next ==
  \/ \E e \in Emitters : Emitter(e) \/ Emit(e) \/ CloseEmitter(e) \/ EmitterStep(e)
  \/ \E s \in Subs :
       \/ Subscribe(s) /\ sb[s].i = 1
       \/ CloseSub(s) \/ SubStep(s) \/ Receive(s) \/ Drain(s)
       \/ \E t \in Types : SendLast(s, t)
  \/ \E w \in Wildcards : SubscribeAll(w) \/ CloseWildcard(w) \/ WriteSinks(w) \/ ReceiveAny(w)

\* What goes on without a new call: the goroutines, and whoever has subscribed receives.
Progress ==
  \/ \E e \in Emitters : EmitterStep(e)
  \/ \E s \in Subs : SubStep(s) \/ Receive(s) \/ Drain(s) \/ \E t \in Types : SendLast(s, t)
  \/ \E w \in Wildcards : ReceiveAny(w)

Spec == Init /\ [][Next]_vars

----------------------------------------------------------------------------
(* Properties.                                                             *)

TypeOK ==
  /\ busLk \in Emitters \cup Subs \cup {Nobody}
  /\ nodes \in [Types -> Nodes \cup {0}] /\ used \in Nodes \cup {0}
  /\ \A n \in Nodes : node[n].emitters \in Nat /\ Range(node[n].sinks) \subseteq Subs
  /\ \A s \in Subs \cup Wildcards : Len(ch[s]) <= BufSize
  /\ log \in [Types -> 0..MaxEvents]

OfType(l, t) == SelectSeq(l, LAMBDA x : x[1] = t)

\* Emitters and subscriptions of a type meet, however nodes are made and dropped
\* concurrently: a subscription receives the last event of a stateful type, if there is
\* one, and then each event that is emitted, in order and without a gap; and nothing is
\* sent on a channel that Close has closed.
Delivery ==
  /\ TypeOK
  /\ \A e \in Emitters : \A s \in Range(em[e].todo) \cap Subs : sb[s].at # "closed"
  /\ \A s \in Subs : sb[s].at \in {"new", "node", "open"} => \A t \in Types :
       LET n == sb[s].n[t]
           l == OfType(got[s].in \o ch[s], t) IN
       /\ \A i \in 1..Len(l) : l[i][2] = got[s].due[t] + i - 1
       /\ n # 0 /\ nodeLk[n] = Nobody => got[s].due[t] + Len(l) = log[t] + 1

\* A Subscribe for several types that has registered its channel and waits for the lock of the
\* bus: nobody receives from the channel before the call returns, and it is full.
HalfSubscribed(s) == sb[s].i > 1 /\ sb[s].at = "new" /\ ~Channel(s)

\* Close is never caught in a circle of goroutines that wait for each other's locks and
\* channels, whatever is being emitted, as long as the other subscribers receive.  The code has
\* one such circle, which is exempt: an emitter blocks on the full channel of a Subscribe that
\* is half done, with the lock of the node; Close, in tryDropNode, waits for this lock with the
\* lock of the bus; and Subscribe waits for that one (basic.go: withNode, tryDropNode, Subscribe).
CloseNotStuck ==
  (\E s \in Subs : sb[s].at \in {"remove", "drop", "dropping"}) =>
    ENABLED Progress \/ \E s \in Subs : HalfSubscribed(s)
============================================================================
