-------------------------- MODULE BackoffDiscovery --------------------------
(***************************************************************************)
(* Discovery with backoff (p2p/discovery/backoff): one namespace of the    *)
(* cache, whose searches are shared by all callers of FindPeers, the       *)
(* strategies that space the searches, and the connector that spaces       *)
(* connection attempts.                                                    *)
(***************************************************************************)
EXTENDS Naturals, Integers, Sequences, FiniteSets, SequencesExt

CONSTANTS
  DPeers, DAddrs,        \* discovered peers and addresses
  Finders, Limits,       \* bound of the model: calls of FindPeers; values of options.Limit
  ParallelBufSz, ReturnedBufSz,
  Strategies,            \* of "fixed", "polynomial", "exponential", "decorrelated"
  MinDelay, MaxDelay, Base, \* parameters of the strategies, in ticks
  Width,                 \* bits of a time.Duration
  MaxFound, DMaxTime     \* bounds of the model

VARIABLES
  dtime,
  strat,     \* [kind, attempt, last]: the strategy of the namespace
  srch,      \* [ongoing, peers, prev, next, found]: the backoffCache
  disp,      \* findPeerDispatcher: [at, item, todo]
  fnd,       \* [Finders -> [at, rem, evt, ended, rcv, pch, out]]: findPeerReceiver and its channels; history:
             \* limit it asked for, known when it joined, later: found while it was searching
  conn       \* [DPeers -> [in, next, attempt, last, tried]]: cache of the connector

discVars == <<dtime, strat, srch, disp, fnd, conn>>

NoInfo == {}
NoPeers == [p \in DPeers |-> NoInfo]
NoFinder == [at |-> "none", rem |-> 0, evt |-> <<>>, ended |-> FALSE, rcv |-> <<>>, pch |-> <<>>, out |-> <<>>,
             limit |-> 0, known |-> <<>>, later |-> <<>>]
NoTry == [in |-> FALSE, next |-> 0, attempt |-> 0, last |-> 0, tried |-> -1]
Idle == [at |-> "none", item |-> <<>>, todo |-> {}]

Init ==
  /\ dtime = 0 /\ \E k \in Strategies : strat = [kind |-> k, attempt |-> 0, last |-> 0]
  /\ srch = [ongoing |-> FALSE, peers |-> NoPeers, prev |-> NoPeers, next |-> -1, found |-> 0]
  /\ disp = Idle /\ fnd = [f \in Finders |-> NoFinder] /\ conn = [p \in DPeers |-> NoTry]

----------------------------------------------------------------------------
(* The strategies                                                          *)

BoundedDuration(d) == IF d < MinDelay THEN MinDelay ELSE IF d > MaxDelay THEN MaxDelay ELSE d

\* A float that does not fit a Duration converts to the least one.
ToDuration(n) == IF n >= 2^(Width - 1) THEN -(2^(Width - 1)) ELSE n

\* FullJitter: from min up to but not including the bounded duration.
FullJitter(d) == IF d <= MinDelay THEN {MinDelay} ELSE MinDelay..(BoundedDuration(d) - 1)

\* The delays of a strategy: fixed, a polynomial of the attempt, a power, or one drawn between the
\* minimum and a multiple of the last.
Delays(kind, attempt, last) ==
  CASE kind = "fixed"       -> {MinDelay}
    [] kind = "polynomial"  -> FullJitter(1 + attempt)
    [] kind = "exponential" -> FullJitter(ToDuration(Base^attempt))
    [] kind = "decorrelated" ->
         IF last < MinDelay THEN {MinDelay} ELSE {BoundedDuration(d) : d \in MinDelay..(last * Base - 1)}

----------------------------------------------------------------------------
(* FindPeers                                                               *)

Infos(peers) == {<<p, peers[p]>> : p \in {q \in DPeers : peers[q] # NoInfo}}
MuxFree == disp.at # "sending"

\* Too early and no search under way: the peers of the last search that had news, up to the limit.
FromCache(f, limit) ==
  LET known == Infos(srch.prev) n == Cardinality(known) IN
  /\ dtime <= srch.next /\ ~srch.ongoing
  /\ \E S \in SUBSET known :
       /\ Cardinality(S) = IF limit = 0 \/ limit > n THEN n ELSE limit
       /\ fnd' = [fnd EXCEPT ![f] = [NoFinder EXCEPT !.at = "closed", !.pch = SetToSeq(S), !.known = SetToSeq(S)]]
  /\ UNCHANGED <<srch, disp>>

\* A search is begun, unless the underlying discovery refuses, or joined: the receiver starts with
\* what the search has found.
Search(f, limit) ==
  /\ dtime > srch.next \/ srch.ongoing
  /\ \/ ~srch.ongoing /\ fnd' = [fnd EXCEPT ![f].at = "failed"] /\ UNCHANGED <<srch, disp>>
     \/ /\ srch' = [srch EXCEPT !.ongoing = TRUE]
        /\ disp' = IF srch.ongoing THEN disp ELSE [Idle EXCEPT !.at = "receiving"]
        /\ LET known == SetToSeq(Infos(srch.peers)) IN
           fnd' = [fnd EXCEPT ![f] = [NoFinder EXCEPT !.at = "receiving", !.rem = limit, !.rcv = known,
                                                     !.limit = limit, !.known = known]]

FindPeers(f, limit) ==
  /\ fnd[f].at = "none" /\ MuxFree /\ (FromCache(f, limit) \/ Search(f, limit))
  /\ UNCHANGED <<dtime, strat, conn>>

----------------------------------------------------------------------------
(* findPeerDispatcher                                                      *)

\* mergeAddrInfos: a peer found again is news only with new addresses.
Merged(p, as) == srch.peers[p] \cup as

\* sendingChs
Registered(f) == fnd[f].at \in {"receiving", "gone"} /\ ~fnd[f].ended

\* A peer arrives; it is sent to every receiver that may have more, with the mutex held.
Dispatch(p, as) ==
  /\ disp.at = "receiving" /\ srch.found < MaxFound
  /\ LET info == <<p, Merged(p, as)>> to == {f \in Finders : Registered(f) /\ fnd[f].rem > 0} IN
     IF Merged(p, as) = srch.peers[p]
     THEN srch' = [srch EXCEPT !.found = @ + 1] /\ UNCHANGED <<disp, fnd>>
     ELSE /\ srch' = [srch EXCEPT !.peers[p] = Merged(p, as), !.found = @ + 1]
          /\ disp' = [at |-> IF to = {} THEN "receiving" ELSE "sending", item |-> IF to = {} THEN <<>> ELSE info, todo |-> to]
          /\ fnd' = [f \in Finders |-> IF fnd[f].at = "receiving" /\ ~fnd[f].ended
                                       THEN [fnd[f] EXCEPT !.later = Append(@, info)] ELSE fnd[f]]
  /\ UNCHANGED <<dtime, strat, conn>>

\* One send of the loop, which blocks while the channel is full.
SendTo(f) ==
  /\ disp.at = "sending" /\ f \in disp.todo /\ Len(fnd[f].evt) < ParallelBufSz
  /\ fnd' = [fnd EXCEPT ![f].evt = Append(@, disp.item), ![f].rem = @ - 1]
  /\ disp' = IF disp.todo = {f} THEN [Idle EXCEPT !.at = "receiving"] ELSE [disp EXCEPT !.todo = @ \ {f}]
  /\ UNCHANGED <<dtime, strat, srch, conn>>

\* checkUpdates: another number of peers, a new one, or new addresses of one.
CheckUpdates ==
  \/ Cardinality(Infos(srch.prev)) # Cardinality(Infos(srch.peers))
  \/ \E p \in DPeers : ~(srch.peers[p] \subseteq srch.prev[p])

\* The search ends, or its context does: the backoff is reset if there was news, the next search
\* scheduled, every channel closed.
SearchEnds ==
  /\ disp.at = "receiving" /\ disp' = Idle
  /\ LET attempt == IF CheckUpdates THEN 0 ELSE strat.attempt
         last == IF CheckUpdates THEN 0 ELSE strat.last IN
     \E d \in Delays(strat.kind, attempt, last) :
       /\ srch' = [ongoing |-> FALSE, peers |-> NoPeers, prev |-> IF CheckUpdates THEN srch.peers ELSE srch.prev,
                   next |-> dtime + d, found |-> 0]
       /\ strat' = [strat EXCEPT !.attempt = IF strat.kind \in {"polynomial", "exponential"} THEN attempt + 1 ELSE 0,
                                 !.last = IF strat.kind = "decorrelated" THEN d ELSE 0]
  /\ fnd' = [f \in Finders |-> IF Registered(f) THEN [fnd[f] EXCEPT !.ended = TRUE] ELSE fnd[f]]
  /\ UNCHANGED <<dtime, conn>>

----------------------------------------------------------------------------
(* findPeerReceiver                                                        *)

Room(f) == ReturnedBufSz - Len(fnd[f].pch)
Least(x, y) == IF x < y THEN x ELSE y

ReceiveDrops(f) ==
  /\ fnd[f].at = "receiving" /\ fnd[f].evt # <<>>
  /\ LET all == Append(fnd[f].rcv, Head(fnd[f].evt)) n == Least(Room(f), Len(all)) IN
     fnd' = [fnd EXCEPT ![f].evt = Tail(@), ![f].pch = @ \o SubSeq(all, 1, n), ![f].rcv = SubSeq(all, n + 2, Len(all))]
  /\ UNCHANGED <<dtime, strat, srch, disp, conn>>

\* An event: what fits is handed on, the rest is kept for later.
Receive(f) ==
  /\ fnd[f].at = "receiving" /\ fnd[f].evt # <<>>
  /\ LET all == Append(fnd[f].rcv, Head(fnd[f].evt)) n == Least(Room(f), Len(all)) IN
     fnd' = [fnd EXCEPT ![f].evt = Tail(@), ![f].pch = @ \o SubSeq(all, 1, n), ![f].rcv = SubSeq(all, n + 1, Len(all))]
  /\ UNCHANGED <<dtime, strat, srch, disp, conn>>

\* The channel was closed: the rest is handed on, waiting for room, and the caller's channel closed.
ReceiveRest(f) ==
  /\ fnd[f].at = "receiving" /\ fnd[f].ended /\ fnd[f].evt = <<>>
  /\ IF fnd[f].rcv = <<>> THEN fnd' = [fnd EXCEPT ![f].at = "closed"]
     ELSE Room(f) > 0 /\ fnd' = [fnd EXCEPT ![f].pch = Append(@, Head(fnd[f].rcv)), ![f].rcv = Tail(@)]
  /\ UNCHANGED <<dtime, strat, srch, disp, conn>>

\* The caller's context ends: nobody receives from its channel any more, which stays registered.
CallerGone(f) ==
  /\ fnd[f].at = "receiving" /\ fnd' = [fnd EXCEPT ![f].at = "gone"]
  /\ UNCHANGED <<dtime, strat, srch, disp, conn>>

Take(f) ==
  /\ fnd[f].at \in {"receiving", "closed"} /\ fnd[f].pch # <<>>
  /\ fnd' = [fnd EXCEPT ![f].pch = Tail(@), ![f].out = Append(@, Head(fnd[f].pch))]
  /\ UNCHANGED <<dtime, strat, srch, disp, conn>>

----------------------------------------------------------------------------
(* BackoffConnector                                                        *)

\* Connect: a peer in the cache is not tried before its time.
Connect(p) ==
  /\ conn[p].in => dtime >= conn[p].next
  /\ \E d \in Delays(strat.kind, conn[p].attempt, conn[p].last) :
       conn' = [conn EXCEPT ![p] = [in |-> TRUE, next |-> dtime + d, tried |-> dtime,
                                    attempt |-> IF strat.kind \in {"polynomial", "exponential"} THEN @.attempt + 1 ELSE 0,
                                    last |-> IF strat.kind = "decorrelated" THEN d ELSE 0]]
  /\ UNCHANGED <<dtime, strat, srch, disp, fnd>>

\* The cache is full and forgets the peer.
Evict(p) == conn[p].in /\ conn' = [conn EXCEPT ![p] = NoTry] /\ UNCHANGED <<dtime, strat, srch, disp, fnd>>

Tick == dtime < DMaxTime /\ dtime' = dtime + 1 /\ UNCHANGED <<strat, srch, disp, fnd, conn>>

Next ==
  \/ \E f \in Finders : \/ \E limit \in Limits : FindPeers(f, limit)
                        \/ SendTo(f) \/ Receive(f) \/ ReceiveRest(f) \/ CallerGone(f) \/ Take(f)
  \/ \E p \in DPeers : \/ \E as \in SUBSET DAddrs \ {{}} : Dispatch(p, as)
                       \/ Connect(p) \/ Evict(p)
  \/ SearchEnds \/ Tick

----------------------------------------------------------------------------
\* What a caller that joined a search is to get: what was known then and, up to its limit, what was
\* found later.
Expected(f) == fnd[f].known \o SubSeq(fnd[f].later, 1, Least(fnd[f].limit, Len(fnd[f].later)))

\* A caller of FindPeers that does not leave gets, in order and once each, what the search had found
\* when it joined and the first finds after that, as many as its limit, however its channels fill up
\* and wherever the search ends.  What it got on joining does not count against the limit; and the
\* limit 0, which means no limit where the answer comes from the cache, is taken as it stands here:
\* such a caller, the one who begins the search too, gets none of the later finds.  Searches and
\* connection attempts are spaced within the bounds of the strategy.
FindersTold ==
  /\ \A f \in Finders :
       /\ fnd[f].at \in {"receiving", "closed"} =>
            fnd[f].out \o fnd[f].pch \o fnd[f].rcv \o fnd[f].evt
              \o (IF f \in disp.todo THEN <<disp.item>> ELSE <<>>) = Expected(f)
       /\ fnd[f].at = "closed" => fnd[f].rcv = <<>> /\ fnd[f].evt = <<>>
  /\ srch.ongoing <=> disp.at # "none"
  /\ \A p \in DPeers : conn[p].in => conn[p].next - conn[p].tried \in MinDelay..MaxDelay

\* Not so: a search does not wait for a caller that has left.
DispatcherFree == disp.at = "sending" => \E f \in disp.todo : Len(fnd[f].evt) < ParallelBufSz \/ fnd[f].at = "receiving"
============================================================================
