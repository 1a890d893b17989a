------------------------------ MODULE MCTables ------------------------------
(***************************************************************************)
(* Small instances of the shared tables of a host: the dial backoff, the   *)
(* decaying tags of the connection manager, the address book and the event *)
(* bus.  They do not interact: each behaviour is one of the component that *)
(* the variable `part' names.                                              *)
(***************************************************************************)
EXTENDS DialBackoff, Sequences

CONSTANTS d1, d2, b1, a1, a2, s1, s2, s3, e1, e2, w1, x, y, Nobody

VARIABLES
  part,
  entry, tags, decaying, value, status, known, wait,
  bumpTagCh, removeTagCh, closeTagCh, bumping, bumps, closeCh, done,
  book, subs, stream,
  busLk, nodes, used, node, nodeLk, nSinks, wsinks, wreaders, wwriters, ch, em, sb, wc, log, got

\* Two tags of one name, the second registered after the first is closed and
\* with an interval below the resolution.
Tags == INSTANCE ConnTags WITH
  Peers <- {"p"}, Tags <- {"t"}, DTags <- {d1, d2},
  Name <- [d \in {d1, d2} |-> "n"],
  Interval <- [d \in {d1, d2} |-> IF d = d1 THEN 2 ELSE 0],
  Bumpers <- {b1}, Deltas <- {1}, MaxValue <- 2, QueueCap <- 1,
  MaxSkip <- 2, MaxLag <- 1, MaxBumps <- 3

\* Two addresses of a peer, and two subscribers.
Book == INSTANCE AddrBook WITH
  Addrs <- {a1, a2}, Streams <- {s1, s2}, TTLs <- {1, 2}, MaxSeq <- 2, MaxTime <- 3

\* Emitters of one type; two subscriptions to it, and one to it and another type.
Bus == INSTANCE EventBus WITH
  Types <- {x, y}, Emitters <- {e1, e2}, emits <- [e \in {e1, e2} |-> x], Stateful <- {e1},
  Subs <- {s1, s2, s3}, types <- [s \in {s1, s2, s3} |-> IF s = s3 THEN <<x, y>> ELSE <<x>>],
  Wildcards <- {w1}, BufSize <- 1, MaxEvents <- 2, MaxNodes <- 4

backoffVars == <<tries, until, ctxDone>>
tagVars == <<entry, tags, decaying, value, status, known, wait,
             bumpTagCh, removeTagCh, closeTagCh, bumping, bumps, closeCh, done>>
bookVars == <<book, subs, stream>>
busVars == <<busLk, nodes, used, node, nodeLk, nSinks, wsinks, wreaders, wwriters,
             ch, em, sb, wc, log, got>>
all == <<part, now, backoffVars, tagVars, bookVars, busVars>>

\* Who uses the bus: emitters and a subscription to two types, this one, a subscription to one
\* type and an emitter, two subscriptions, or a subscription and a wildcard subscription.
BusParts == {"types", "halfway", "subs", "wildcard"}

BusUses ==
  /\ part = "types" => sb[s1].at = "new" /\ sb[s2].at = "new" /\ wc[w1] = "new"
  /\ part = "halfway" => em[e2].at = "new" /\ sb[s2].at = "new" /\ wc[w1] = "new"
  /\ part = "subs" => em[e2].at = "new" /\ sb[s3].at = "new" /\ wc[w1] = "new"
  /\ part = "wildcard" => em[e2].at = "new" /\ sb[s2].at = "new" /\ sb[s3].at = "new"

MCInit ==
  /\ part \in {"backoff", "tags", "addrs"} \cup BusParts
  /\ tries = [p \in Peers |-> NoEntries] /\ until = [p \in Peers |-> NoEntries] /\ ctxDone = FALSE
  /\ Tags!Init /\ Bus!Init
  /\ book = Book!EmptyBook /\ subs = <<>> /\ stream = [s \in {s1, s2} |-> Book!Idle]
  /\ now = IF part = "addrs" THEN 1 ELSE 0

OnlyTags == part = "tags" /\ UNCHANGED <<part, now, backoffVars, bookVars, busVars>>

MCNext ==
  \/ part = "backoff" /\ Next /\ UNCHANGED <<part, tagVars, bookVars, busVars>>
  \/ OnlyTags /\ Tags!Next
  \/ part = "addrs" /\ Book!Next
     /\ UNCHANGED <<part, backoffVars, tagVars, busVars>>
  \/ part \in BusParts /\ Bus!Next
     /\ UNCHANGED <<part, now, backoffVars, tagVars, bookVars>> /\ BusUses'

MCSpec ==
  /\ MCInit /\ [][MCNext]_all
  /\ WF_all(OnlyTags /\ Tags!Tick)
  /\ WF_all(OnlyTags /\ Tags!ApplyBump)
  /\ WF_all(OnlyTags /\ Tags!ApplyRemove)
  /\ WF_all(OnlyTags /\ Tags!ApplyClose)

----------------------------------------------------------------------------
\* The total by which trims rank peers, changed by increments in TagPeer, UntagPeer
\* and the decayer's bumps, decays, removals and closed tags (connmgr.go; decay.go,
\* process), is the sum of the tags' values, also when a name is registered again
\* (ConnTags).
ValueIsSum == part = "tags" => Tags!ValueIsSum

\* Values of a decaying tag that is open and not bumped any more reach zero: the
\* decayer visits every tag at its interval, however late its ticks (decay.go,
\* process; ConnTags).
ValuesExpire == Tags!ValuesExpire

\* A subscriber of AddrStream, also one that subscribes between the change of the
\* map and its broadcast or leaves room late, gets every address of the peer, once
\* (pstoremem/addr_book.go, AddrStream, pubsub; AddrBook).
StreamComplete == part = "addrs" => Book!StreamComplete

\* Subscriptions receive what is emitted, in order, and closing one is not stuck, unless a
\* Subscribe for several types is under way whose full channel nobody receives from yet
\* (EventBus; basic.go: tryDropNode, Emitter, Subscribe, Close).
BusDelivers == part \in BusParts => Bus!Delivery /\ Bus!CloseNotStuck
=============================================================================
