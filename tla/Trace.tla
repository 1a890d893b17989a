------------------------------- MODULE Trace -------------------------------
(***************************************************************************)
(* The resource manager's trace (resource-manager/trace.go) and the        *)
(* metrics computed from it (obs/stats.go): scopes change their counters   *)
(* and push events with their own lock held; an event goes to the          *)
(* reporters at once and, when there is a path, to a writer that takes the *)
(* pending events every second.  Close waits for the writer.  Scopes do    *)
(* not release more than they hold.                                        *)
(***************************************************************************)
EXTENDS Integers, Sequences, SequencesExt, FiniteSets

CONSTANTS
  PeerScopes,          \* the scopes of peers; they are collected when they hold nothing
  ConnScopes,          \* the scopes of connections, which end for good, whatever they hold
  Gauged,              \* the system, transient and protocol scopes, which have gauges; they last here
  Unrecognized,        \* spans of those: the encoder does not know their names
  Stats,               \* usages that move between scopes: subsets of TKinds
  MaxOps               \* bound of the model

VARIABLES
  path,      \* whether the trace has a path
  scope,     \* [TScopes -> {"none", "live", "done"}]
  counts,    \* [TScopes -> [TKinds -> Nat]]: the scopes' counters
  todo,      \* [TScopes -> Seq(event)]: events that the holder of the scope's lock has yet to push
  pending,   \* pendingWrites
  pend,      \* the writer's batch, as far as it is not encoded
  writer,    \* "new" before Start, "absent", "waiting", "writing", "last", "ended", "failed"
  done, ctxDone,
  file,      \* the events encoded
  reported,  \* history: the events the reporters were given, when there is a path
  peers,     \* [TKinds -> [Nat -> Int]]: peerStreams less previousPeerStreams, and the others
  connMem,   \* [Nat -> Int]: connMemory less previousConnMemory
  gauge,     \* [Gauged -> [TKinds -> Nat]]: streams, conns, memory
  blocked,   \* [Classes -> [TKinds -> Nat]]: blockedResources
  held,      \* history, [ConnScopes -> Nat]: the memory a connection held when its scope ended
  ops        \* operations so far

TScopes == PeerScopes \cup ConnScopes \cup Gauged \cup Unrecognized
scopeVars == <<scope, counts, todo, held, ops>>
pushVars == <<pending, reported, peers, connMem, gauge, blocked>>
writerVars == <<pend, writer, done, ctxDone, file>>
traceVars == <<path, scopeVars, pushVars, writerVars>>

\* The resources that are counted; of streams and connections the two directions, and the file
\* descriptors, are counted alike.
TKinds == {"memory", "streams", "conns"}
Zero == [k \in TKinds |-> 0]

\* What is left of a scope's name up to the first ":" or "-".
ClassOf(s) == CASE s \in PeerScopes -> "peer" [] s \in ConnScopes -> "conn" [] OTHER -> s
Classes == {ClassOf(s) : s \in TScopes}

Evt(type, s, k, delta, total) == [type |-> type, scope |-> s, kind |-> k, delta |-> delta, total |-> total]
Plain(type, s) == Evt(type, s, "none", 0, 0)

Init ==
  /\ path \in BOOLEAN /\ scope = [s \in TScopes |-> "none"] /\ counts = [s \in TScopes |-> Zero]
  /\ todo = [s \in TScopes |-> <<>>] /\ held = [s \in ConnScopes |-> 0] /\ ops = 0
  /\ pending = <<>> /\ reported = <<>> /\ gauge = [s \in Gauged |-> Zero]
  /\ peers = [k \in TKinds |-> [n \in 1..MaxOps |-> 0]] /\ connMem = [n \in 1..MaxOps |-> 0]
  /\ blocked = [c \in Classes |-> Zero]
  /\ pend = <<>> /\ writer = "new" /\ done = FALSE /\ ctxDone = FALSE /\ file = <<>>

----------------------------------------------------------------------------
(* push and the reporter                                                   *)

\* How the number of peers that hold n moves when one goes from old to new.
Observe(now, old, new) ==
  [n \in DOMAIN now |-> now[n] + (IF n = new THEN 1 ELSE 0) - (IF n = old THEN 1 ELSE 0)]

\* consumeEventWithLabelSlice: peers and the memory of connections go into histograms, the scopes that
\* last have gauges, and what was refused is added up by the class of the scope; of spans, services and
\* the scopes of a service or protocol with a peer nothing else is measured.
ConsumeEvent(e) ==
  LET counted == e.type \in {"add", "remove"}
      old == e.total - e.delta
  IN
  /\ peers' = IF counted /\ e.scope \in PeerScopes
              THEN [peers EXCEPT ![e.kind] = Observe(@, old, e.total)] ELSE peers
  /\ connMem' = IF counted /\ e.scope \in ConnScopes /\ e.kind = "memory"
                THEN Observe(connMem, old, e.total) ELSE connMem
  /\ blocked' = IF e.type = "block" THEN [blocked EXCEPT ![ClassOf(e.scope)][e.kind] = @ + e.delta] ELSE blocked
  /\ gauge' = IF counted /\ e.scope \in Gauged THEN [gauge EXCEPT ![e.scope][e.kind] = e.total] ELSE gauge

\* push: once the trace is over, reporters are not told either.
PushEvent(e) ==
  IF done THEN UNCHANGED pushVars
  ELSE /\ ConsumeEvent(e)
       /\ IF path THEN pending' = Append(pending, e) /\ reported' = Append(reported, e)
          ELSE UNCHANGED <<pending, reported>>

\* Start: a file that cannot be opened leaves a path and no writer, without an error or an event.
Start(opened) ==
  /\ writer = "new" /\ writer' = IF path /\ opened THEN "waiting" ELSE "absent"
  /\ IF path /\ ~opened THEN UNCHANGED pushVars ELSE PushEvent(Plain("start", "none"))
  /\ UNCHANGED <<path, scopeVars, pend, done, ctxDone, file>>

----------------------------------------------------------------------------
(* The scopes.  An operation changes the counters, then pushes its events. *)

Begin(s, events) ==
  /\ writer # "new" /\ todo[s] = <<>> /\ todo' = [todo EXCEPT ![s] = events]
  /\ UNCHANGED <<path, pushVars, writerVars>>

\* newResourceScope and newResourceScopeSpan; a peer that was collected may come back.
CreateScope(s) ==
  /\ scope[s] = "none" \/ (scope[s] = "done" /\ s \in PeerScopes)
  /\ scope' = [scope EXCEPT ![s] = "live"] /\ Begin(s, <<Plain("create", s)>>)
  /\ UNCHANGED <<counts, held, ops>>

\* What the operations on a scope have in common.
Operate(s) == scope[s] = "live" /\ ops < MaxOps /\ ops' = ops + 1 /\ UNCHANGED <<scope, held>>

\* The event of a change by delta; none for a resource of which nothing moves.
Moved(s, k, type, delta, moves) ==
  IF ~moves THEN <<>>
  ELSE <<Evt(type, s, k, delta, IF type = "block" THEN counts[s][k] ELSE counts[s][k] + delta)>>

\* One counter grows or shrinks; or a request is blocked, and the event has what was asked for.
Count(s, k, type) ==
  LET delta == IF type = "remove" THEN -1 ELSE 1 IN
  /\ type = "remove" => counts[s][k] > 0
  /\ counts' = IF type = "block" THEN counts ELSE [counts EXCEPT ![s][k] = @ + delta]
  /\ Begin(s, Moved(s, k, type, delta, TRUE))

\* ReserveMemory, BlockReserveMemory and ReleaseMemory; the same of a stream and of a connection.
Memory(s, type) == Count(s, "memory", type)
Stream(s, type) == Count(s, "streams", type)
Conn(s, type) == Count(s, "conns", type)

Memories(s, type, delta, stat) == Moved(s, "memory", type, delta, "memory" \in stat)
Streams(s, type, delta, stat) == Moved(s, "streams", type, delta, "streams" \in stat)
Conns(s, type, delta, stat) == Moved(s, "conns", type, delta, "conns" \in stat)

\* ReserveForChild, granted, and ReleaseForChild: all counters change before the first event.
ForChild(s, type, stat) ==
  LET delta == IF type = "add" THEN 1 ELSE -1 IN
  /\ type = "remove" => \A k \in stat : counts[s][k] > 0
  /\ counts' = [counts EXCEPT ![s] = [k \in TKinds |-> IF k \in stat THEN @[k] + delta ELSE @[k]]]
  /\ Begin(s, Memories(s, type, delta, stat) \o Streams(s, type, delta, stat) \o Conns(s, type, delta, stat))

\* ReserveForChild, blocked at one resource: one event, and what was reserved is given back.
BlockForChild(s, stat) ==
  /\ UNCHANGED counts /\ \E k \in stat : Begin(s, Moved(s, k, "block", 1, TRUE))

\* Done: the counters are cleared without events of their own, then DestroyScope.
DestroyScope(s) ==
  /\ scope[s] = "live" /\ s \notin Gauged /\ (s \in PeerScopes => counts[s] = Zero)
  /\ ops < MaxOps /\ ops' = ops + 1
  /\ scope' = [scope EXCEPT ![s] = "done"] /\ counts' = [counts EXCEPT ![s] = Zero]
  /\ held' = IF s \in ConnScopes THEN [held EXCEPT ![s] = counts[s]["memory"]] ELSE held
  /\ Begin(s, <<Plain("destroy", s)>>)

Push(s) ==
  /\ todo[s] # <<>> /\ todo' = [todo EXCEPT ![s] = Tail(@)] /\ PushEvent(Head(todo[s]))
  /\ UNCHANGED <<path, scope, counts, held, ops, writerVars>>

----------------------------------------------------------------------------
(* backgroundWriter                                                        *)

\* getEvents: the batch and the pending events change places.
GetEvents == pend' = pending /\ pending' = <<>>

UNCHANGED_SCOPES == UNCHANGED <<path, scopeVars, reported, peers, connMem, gauge, blocked>>

\* The ticker; nothing to write, nothing done.
TickerFires ==
  /\ writer = "waiting" /\ GetEvents /\ writer' = IF pending = <<>> THEN "waiting" ELSE "writing"
  /\ UNCHANGED <<done, ctxDone, file>> /\ UNCHANGED_SCOPES

CtxDone ==
  /\ writer = "waiting" /\ ctxDone /\ GetEvents /\ writer' = IF pending = <<>> THEN "ended" ELSE "last"
  /\ UNCHANGED <<done, ctxDone, file>> /\ UNCHANGED_SCOPES

\* MarshalJSON of scopeClass looks for "span:", while spans are named "<owner>.span-<n>": a span of
\* another scope counts as a longer name of that class, one of the system scope as none.
Encodable(e) == e.scope \notin Unrecognized

\* writeEvents and Flush, of the whole batch.
WriteEvents ==
  /\ writer \in {"writing", "last"} /\ \A i \in DOMAIN pend : Encodable(pend[i])
  /\ file' = file \o pend /\ pend' = <<>> /\ writer' = IF writer = "writing" THEN "waiting" ELSE "ended"
  /\ UNCHANGED <<pending, done, ctxDone>> /\ UNCHANGED_SCOPES

\* After n events one cannot be encoded, or the file not be written or flushed: the trace is over.
WriteFails(n) ==
  /\ writer \in {"writing", "last"} /\ \A i \in 1..n : Encodable(pend[i])
  /\ file' = file \o SubSeq(pend, 1, n) /\ pend' = SubSeq(pend, n + 1, Len(pend))
  /\ writer' = "failed" /\ done' = TRUE
  /\ UNCHANGED <<pending, ctxDone>> /\ UNCHANGED_SCOPES

----------------------------------------------------------------------------
\* Close: nothing to do when writing has failed; otherwise the writer is told, and Close returns
\* when it has ended.
Close ==
  /\ writer # "new" /\ ~done /\ done' = TRUE /\ ctxDone' = TRUE
  /\ UNCHANGED <<pending, pend, writer, file>> /\ UNCHANGED_SCOPES

Next ==
  \/ \E opened \in BOOLEAN : Start(opened)
  \/ \E s \in TScopes :
       \/ /\ Operate(s)
          /\ \/ \E type \in {"add", "remove", "block"} : Memory(s, type) \/ Stream(s, type) \/ Conn(s, type)
             \/ \E type \in {"add", "remove"}, stat \in Stats : ForChild(s, type, stat)
             \/ \E stat \in Stats : BlockForChild(s, stat)
       \/ CreateScope(s) \/ DestroyScope(s) \/ Push(s)
  \/ TickerFires \/ CtxDone \/ WriteEvents \/ (\E n \in 0..Len(pend) : WriteFails(n)) \/ Close

----------------------------------------------------------------------------
\* The events before i on file that tell about the scope and the resource of i.
Before(i) ==
  {j \in 1..(i - 1) : file[j].scope = file[i].scope /\ file[j].kind \in {"none", file[i].kind}}

\* What a reader of the file knows of the counter before event i.
Prior(i) == LET j == CHOOSE x \in Before(i) : \A y \in Before(i) : y <= x IN file[j].total

\* With a path, the events on file, in the writer's batch and pending are, in this order, the ones
\* the reporters were given, each once; after Close the file has all of them unless writing failed.
\* Whoever replays the file finds that a scope was created before anything else of it, and each
\* event's total from the events before it, although scopes push concurrently and the operations of
\* one change several counters.
FileReplays ==
  /\ file \o pend \o pending = reported
  /\ writer = "ended" => file = reported
  /\ \A i \in DOMAIN file :
       /\ file[i].type \in {"destroy", "add", "remove", "block"} => Before(i) # {}
       /\ file[i].type \in {"add", "remove"} => file[i].total = Prior(i) + file[i].delta
       /\ file[i].type = "block" => file[i].total = Prior(i)

\* Until the trace is over, the metrics are right whenever the scopes' events are pushed: the gauges
\* are the counters, and the difference of two histograms is the number of peers for each count, but
\* of connections for each amount of memory only with those that ended while they held it, which
\* nobody takes out.  What was refused is what a reader of the events adds up.
MetricsRight ==
  /\ ~done /\ (\A s \in TScopes : todo[s] = <<>>) =>
       /\ \A s \in Gauged : gauge[s] = counts[s]
       /\ \A n \in 1..MaxOps :
            /\ \A k \in TKinds : peers[k][n] = Cardinality({s \in PeerScopes : counts[s][k] = n})
            /\ connMem[n] = Cardinality({s \in ConnScopes : counts[s]["memory"] = n \/ held[s] = n})
  /\ path => LET refused == {i \in DOMAIN reported : reported[i].type = "block"} IN
       \A c \in Classes, k \in TKinds :
         blocked[c][k] = Cardinality({i \in refused : reported[i].kind = k /\ ClassOf(reported[i].scope) = c})

TraceReplays == FileReplays /\ MetricsRight
============================================================================
