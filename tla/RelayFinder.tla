---------------------------- MODULE RelayFinder ----------------------------
(***************************************************************************)
(* The client side of circuit relaying (p2p/host/autorelay): the relay     *)
(* finder looks for candidates, obtains reservations with some of them and *)
(* advertises addresses through these relays.  Its goroutines are          *)
(* background, findNodes, handleNewCandidates and one handleNewNode per    *)
(* node; they wake each other through channels that hold one token.  Time  *)
(* is abstract: a delay, an age or an expiry may be reached at any moment. *)
(***************************************************************************)
EXTENDS Naturals, Sequences, FiniteSets

CONSTANTS
  Nodes,
  minCandidates, maxCandidates, desiredRelays,
  NoCache,
  MaxCalls,        \* bound of the model: calls of the peer source
  MaxLosses        \* bound of the model: connections that end

VARIABLES
  status,          \* AutoRelay.status
  autorelay,       \* AutoRelay.background: "idle", "stopping" (in Stop), "closed"
  cancelled,       \* the context of the running finder
  booted,          \* bootDelay has passed since bootTime
  connected,       \* the nodes the host is connected to
  losses,
  events,          \* NotConnected events in the subscription's buffer
  candidates, old, \* the candidates, and those over maxCandidateAge
  backoff,
  relays, protected,
  cached,          \* the relays in cachedAddrs, NoCache without any
  chan,            \* the channels that hold a token
  limiter,         \* peerSourceRateLimiter holds a token
  bg,              \* background: "off", "start", "loop", "refresh", "clear", "work"
  bootTimer,       \* bootDelayTimer has not fired
  refreshing, failed,
  find,            \* findNodes: "off", "top", "limited", "select", "closing"
  peerChan, calls, \* a call of the peer source is open; how many were made
  node,            \* [Nodes -> handleNewNode: "none", "check", "try", "notify"]
  conn,            \* handleNewCandidates: "off", "wait", "count", "select", "next", ...
  todo, cur,
  unsaid           \* history: a failed refresh dropped a relay and no trigger came since

Channels == {"candidateFound", "maybeConnectToRelay", "maybeRequestNewCandidates",
             "relayUpdated"}

autoVars == <<status, autorelay, cancelled>>
hostVars == <<connected, losses, events>>
candVars == <<candidates, old, backoff>>
relayVars == <<relays, protected, cached>>
bgVars == <<bg, bootTimer, refreshing, failed, limiter>>
findVars == <<find, peerChan, calls, node>>
connVars == <<conn, todo, cur>>
vars == <<autoVars, booted, hostVars, candVars, relayVars, chan, bgVars, findVars, connVars, unsaid>>

Init ==
  /\ status = "unknown" /\ autorelay = "idle" /\ cancelled = FALSE /\ booted = FALSE
  /\ connected = {} /\ losses = 0 /\ events = <<>>
  /\ candidates = {} /\ old = {} /\ backoff = {}
  /\ relays = {} /\ protected = {} /\ cached = NoCache
  /\ chan = {} /\ limiter = FALSE
  /\ bg = "off" /\ bootTimer = FALSE /\ refreshing = {} /\ failed = FALSE
  /\ find = "off" /\ peerChan = FALSE /\ calls = 0
  /\ node = [p \in Nodes |-> "none"]
  /\ conn = "off" /\ todo = {} /\ cur \in Nodes
  /\ unsaid = FALSE

\* The goroutines of the finder that count in refCount.
Stopped == bg = "off" /\ find = "off" /\ conn = "off" /\ \A p \in Nodes : node[p] = "none"

\* The channels hold one token each, and sending never blocks.
Notify(cs) ==
  /\ chan' = chan \cup cs
  /\ unsaid' = (unsaid /\ "maybeConnectToRelay" \notin cs)

Receive(c) ==
  /\ c \in chan
  /\ chan' = chan \ {c}
  /\ UNCHANGED unsaid

----------------------------------------------------------------------------
(* AutoRelay and the host.                                                 *)

\* A change of reachability: Start, unless it runs already, or Stop.
ReachabilityChanged(r) ==
  /\ autorelay = "idle"
  /\ IF r = "public"
     THEN /\ autorelay' = "stopping" /\ cancelled' = TRUE
          /\ UNCHANGED <<status, bg>>
     ELSE /\ status' = r
          /\ IF Stopped THEN bg' = "start" /\ cancelled' = FALSE
                        ELSE UNCHANGED <<bg, cancelled>>
          /\ UNCHANGED autorelay
  /\ UNCHANGED <<booted, hostVars, candVars, relayVars, chan, bootTimer, refreshing, failed,
                 limiter, findVars, connVars, unsaid>>

\* Stop returns when refCount is zero.
StopReturns ==
  /\ autorelay = "stopping" /\ Stopped
  /\ autorelay' = "idle" /\ status' = "public"
  /\ UNCHANGED <<cancelled, booted, hostVars, candVars, relayVars, chan, bgVars, findVars,
                 connVars, unsaid>>

\* Close, when it does not race with a change of reachability.
Close ==
  /\ autorelay = "idle"
  /\ autorelay' = "closed" /\ cancelled' = TRUE
  /\ UNCHANGED <<status, booted, hostVars, candVars, relayVars, chan, bgVars, findVars,
                 connVars, unsaid>>

\* The event is lost when background has not subscribed.
Disconnect(p) ==
  /\ p \in connected /\ losses < MaxLosses
  /\ connected' = connected \ {p}
  /\ losses' = losses + 1
  /\ events' = IF bg \in {"off", "start"} THEN events ELSE Append(events, p)
  /\ UNCHANGED <<autoVars, booted, candVars, relayVars, chan, bgVars, findVars, connVars, unsaid>>

Boot ==
  /\ ~booted
  /\ booted' = TRUE
  /\ UNCHANGED <<autoVars, hostVars, candVars, relayVars, chan, bgVars, findVars, connVars, unsaid>>

Age(p) ==
  /\ p \in candidates \ old
  /\ old' = old \cup {p}
  /\ UNCHANGED <<autoVars, booted, hostVars, candidates, backoff, relayVars, chan, bgVars,
                 findVars, connVars, unsaid>>

\* relayAddrs: the cached addresses until they expire.
RelayAddrs ==
  /\ status = "private"
  /\ cached' = relays
  /\ UNCHANGED <<autoVars, booted, hostVars, candVars, relays, protected, chan, bgVars,
                 findVars, connVars, unsaid>>

----------------------------------------------------------------------------
(* background.                                                             *)

\* The other goroutines are started and the first scheduled work is run, which allows
\* a call of the peer source.
Background ==
  /\ bg = "start"
  /\ bg' = "loop" /\ find' = "top" /\ conn' = "wait"
  /\ limiter' = TRUE /\ bootTimer' = TRUE
  /\ UNCHANGED <<autoVars, booted, hostVars, candVars, relayVars, chan, refreshing, failed,
                 peerChan, calls, node, todo, cur, unsaid>>

\* A mutant: the loss of a relay is taken note of and nobody told.
DisconnectedQuietly ==
  /\ bg = "loop" /\ events # <<>>
  /\ events' = Tail(events)
  /\ relays' = relays \ {Head(events)}
  /\ bg' = IF Head(events) \in relays THEN "clear" ELSE bg
  /\ UNCHANGED <<autoVars, booted, connected, losses, candVars, protected, cached, bootTimer,
                 refreshing, failed, limiter, findVars, connVars, chan, unsaid>>

DisconnectedFromRelay ==
  /\ bg = "loop" /\ events # <<>>
  /\ events' = Tail(events)
  /\ IF Head(events) \in relays
     THEN /\ relays' = relays \ {Head(events)}
          /\ Notify({"maybeConnectToRelay", "maybeRequestNewCandidates"})
          /\ bg' = "clear"
     ELSE UNCHANGED <<relays, chan, unsaid, bg>>
  /\ UNCHANGED <<autoVars, booted, connected, losses, candVars, protected, cached, bootTimer,
                 refreshing, failed, limiter, findVars, connVars>>

CandidateFound ==
  /\ bg = "loop"
  /\ "candidateFound" \in chan
  /\ chan' = (chan \ {"candidateFound"}) \cup {"maybeConnectToRelay"}
  /\ unsaid' = FALSE
  /\ UNCHANGED <<autoVars, booted, hostVars, candVars, relayVars, bgVars, findVars, connVars>>

BootDelayOver ==
  /\ bg = "loop" /\ bootTimer /\ booted
  /\ bootTimer' = FALSE
  /\ Notify({"maybeConnectToRelay"})
  /\ UNCHANGED <<autoVars, booted, hostVars, candVars, relayVars, bg, refreshing, failed,
                 limiter, findVars, connVars>>

RelayUpdated ==
  /\ bg = "loop"
  /\ Receive("relayUpdated")
  /\ bg' = "clear"
  /\ UNCHANGED <<autoVars, booted, hostVars, candVars, relayVars, bootTimer, refreshing, failed,
                 limiter, findVars, connVars>>

\* clearCachedAddrsAndSignalAddressChange.  After a failed refresh the rest of the
\* scheduled work follows, otherwise the loop goes on.
ClearCachedAddrs ==
  /\ bg = "clear"
  /\ cached' = NoCache
  /\ bg' = IF failed THEN "work" ELSE "loop"
  /\ failed' = FALSE
  /\ UNCHANGED <<autoVars, booted, hostVars, candVars, relays, protected, chan, bootTimer,
                 refreshing, limiter, findVars, connVars, unsaid>>

\* runScheduledWork begins with the reservations that are about to expire, if it is time
\* to refresh.  The timer may fire at any moment, so that triggerRunScheduledWork, which
\* only makes the same happen sooner, needs no token here.
RunScheduledWork ==
  /\ bg = "loop"
  /\ \E due \in SUBSET relays :
       refreshing' = due /\ bg' = IF due = {} THEN "work" ELSE "refresh"
  /\ UNCHANGED <<autoVars, booted, hostVars, candVars, relayVars, chan, bootTimer, failed,
                 limiter, findVars, connVars, unsaid>>

\* refreshRelayReservation, one goroutine per relay; background waits for them.
AfterRefresh(p, fails) ==
  /\ bg = "refresh" /\ p \in refreshing
  /\ refreshing' = refreshing \ {p}
  /\ failed' = (failed \/ fails)
  /\ bg' = IF refreshing' # {} THEN bg ELSE IF failed' THEN "clear" ELSE "work"
  /\ UNCHANGED <<autoVars, booted, losses, events, candVars, cached, chan, bootTimer, limiter,
                 findVars, connVars>>

RefreshOk(p) ==
  /\ AfterRefresh(p, FALSE)
  /\ ~cancelled
  /\ connected' = connected \cup {p}
  /\ relays' = relays \cup {p}
  /\ UNCHANGED <<protected, unsaid>>

RefreshFails(p) ==
  /\ AfterRefresh(p, TRUE)
  /\ relays' = relays \ {p} /\ protected' = protected \ {p}
  /\ unsaid' = TRUE
  /\ UNCHANGED connected

\* The rest of runScheduledWork: clearBackoff, clearOldCandidates and the token of the
\* rate limiter, each if it is time.
ScheduledWorkEnds ==
  /\ bg = "work"
  /\ bg' = "loop"
  /\ \E over \in SUBSET backoff : backoff' = backoff \ over
  /\ \/ UNCHANGED <<candidates, old, chan, unsaid>>
     \/ /\ old # {}
        /\ candidates' = candidates \ old /\ old' = {}
        /\ Notify({"maybeRequestNewCandidates"})
  /\ limiter' \in {limiter, TRUE}
  /\ UNCHANGED <<autoVars, booted, hostVars, relayVars, bootTimer, refreshing, failed, findVars,
                 connVars>>

BackgroundReturns ==
  /\ bg = "loop" /\ cancelled
  /\ bg' = "off" /\ events' = <<>>
  /\ UNCHANGED <<autoVars, booted, connected, losses, candVars, relayVars, chan, bootTimer,
                 refreshing, failed, limiter, findVars, connVars, unsaid>>

----------------------------------------------------------------------------
(* findNodes and handleNewNode.                                            *)

FindNodesTop ==
  /\ find = "top"
  /\ find' = IF ~peerChan /\ Cardinality(candidates) < minCandidates THEN "limited" ELSE "select"
  /\ UNCHANGED <<autoVars, booted, hostVars, candVars, relayVars, chan, bgVars, peerChan, calls,
                 node, connVars, unsaid>>

CallPeerSource ==
  /\ find = "limited" /\ limiter /\ calls < MaxCalls
  /\ limiter' = FALSE /\ peerChan' = TRUE /\ calls' = calls + 1
  /\ find' = "select"
  /\ UNCHANGED <<autoVars, booted, hostVars, candVars, relayVars, chan, bg, bootTimer,
                 refreshing, failed, node, connVars, unsaid>>

MaybeRequestNewCandidates ==
  /\ find = "select"
  /\ Receive("maybeRequestNewCandidates")
  /\ find' = "top"
  /\ UNCHANGED <<autoVars, booted, hostVars, candVars, relayVars, bgVars, peerChan, calls, node,
                 connVars>>

\* A node in backoff, or one too many, is skipped.
FoundNode(p) ==
  /\ find = "select" /\ peerChan /\ node[p] = "none"
  /\ node' = IF p \in backoff \/ Cardinality(candidates) >= maxCandidates
             THEN node ELSE [node EXCEPT ![p] = "check"]
  /\ find' = "top"
  /\ UNCHANGED <<autoVars, booted, hostVars, candVars, relayVars, chan, bgVars, peerChan, calls,
                 connVars, unsaid>>

PeerChanCloses ==
  /\ find = "select" /\ peerChan
  /\ find' = "closing"
  /\ UNCHANGED <<autoVars, booted, hostVars, candVars, relayVars, chan, bgVars, peerChan, calls,
                 node, connVars, unsaid>>

NodesHandled ==
  /\ find = "closing" /\ \A p \in Nodes : node[p] = "none"
  /\ find' = "top" /\ peerChan' = FALSE
  /\ UNCHANGED <<autoVars, booted, hostVars, candVars, relayVars, chan, bgVars, calls, node,
                 connVars, unsaid>>

\* The wait for handleNewNode is not cut short by the context.
FindNodesReturns ==
  /\ find \in {"limited", "select"} /\ cancelled
  /\ find' = "off" /\ peerChan' = FALSE
  /\ UNCHANGED <<autoVars, booted, hostVars, candVars, relayVars, chan, bgVars, calls, node,
                 connVars, unsaid>>

CheckNode(p) ==
  /\ node[p] = "check"
  /\ node' = [node EXCEPT ![p] = IF p \in relays THEN "none" ELSE "try"]
  /\ UNCHANGED <<autoVars, booted, hostVars, candVars, relayVars, chan, bgVars, find, peerChan,
                 calls, connVars, unsaid>>

\* tryNode succeeds; the limit is exceeded by one here, and by one more for every node
\* tried at the same time.
AddCandidate(p) ==
  /\ node[p] = "try" /\ ~cancelled
  /\ connected' = connected \cup {p}
  /\ IF Cardinality(candidates) > maxCandidates
     THEN node' = [node EXCEPT ![p] = "none"] /\ UNCHANGED <<candidates, old>>
     ELSE /\ candidates' = candidates \cup {p} /\ old' = old \ {p}
          /\ node' = [node EXCEPT ![p] = "notify"]
  /\ UNCHANGED <<autoVars, booted, losses, events, backoff, relayVars, chan, bgVars, find,
                 peerChan, calls, connVars, unsaid>>

TryNodeFails(p) ==
  /\ node[p] = "try"
  /\ node' = [node EXCEPT ![p] = "none"]
  /\ UNCHANGED <<autoVars, booted, hostVars, candVars, relayVars, chan, bgVars, find, peerChan,
                 calls, connVars, unsaid>>

NotifyNewCandidate(p) ==
  /\ node[p] = "notify"
  /\ node' = [node EXCEPT ![p] = "none"]
  /\ Notify({"candidateFound"})
  /\ UNCHANGED <<autoVars, booted, hostVars, candVars, relayVars, bgVars, find, peerChan, calls,
                 connVars>>

----------------------------------------------------------------------------
(* handleNewCandidates.                                                    *)

HandleNewCandidates ==
  /\ conn = "wait"
  /\ Receive("maybeConnectToRelay")
  /\ conn' = "count"
  /\ UNCHANGED <<autoVars, booted, hostVars, candVars, relayVars, bgVars, findVars, todo, cur>>

CountRelays ==
  /\ conn = "count"
  /\ conn' = IF Cardinality(relays) = desiredRelays THEN "wait" ELSE "select"
  /\ UNCHANGED <<autoVars, booted, hostVars, candVars, relayVars, chan, bgVars, findVars, todo,
                 cur, unsaid>>

\* selectCandidates: those that are not too old, in random order.
SelectCandidates ==
  /\ conn = "select"
  /\ IF \/ candidates = {}
        \/ relays = {} /\ Cardinality(candidates) < minCandidates /\ ~booted
     THEN conn' = "wait" /\ UNCHANGED todo
     ELSE conn' = "next" /\ todo' = candidates \ old
  /\ UNCHANGED <<autoVars, booted, hostVars, candVars, relayVars, chan, bgVars, findVars, cur,
                 unsaid>>

NextCandidate ==
  /\ conn = "next"
  /\ IF todo = {}
     THEN conn' = "wait" /\ UNCHANGED <<todo, cur, candidates, old, chan, unsaid>>
     ELSE \E p \in todo :
            /\ todo' = todo \ {p} /\ cur' = p
            /\ IF p \in relays
               THEN /\ candidates' = candidates \ {p} /\ old' = old \ {p}
                    /\ Notify({"maybeRequestNewCandidates"})
                    /\ UNCHANGED conn
               ELSE conn' = "connect" /\ UNCHANGED <<candidates, old, chan, unsaid>>
  /\ UNCHANGED <<autoVars, booted, hostVars, backoff, relayVars, bgVars, findVars>>

\* connectToRelay up to the request for a reservation.
ConnectToRelay ==
  /\ conn = "connect"
  /\ cur \in connected \/ ~cancelled
  /\ connected' = connected \cup {cur}
  /\ backoff' = backoff \cup {cur}
  /\ conn' = "reserve"
  /\ UNCHANGED <<autoVars, booted, losses, events, candidates, old, relayVars, chan, bgVars,
                 findVars, todo, cur, unsaid>>

\* Either step of connectToRelay fails.
ConnectToRelayFails ==
  /\ \/ conn = "connect" /\ cur \notin connected
     \/ conn = "reserve"
  /\ candidates' = candidates \ {cur} /\ old' = old \ {cur}
  /\ Notify({"maybeRequestNewCandidates"})
  /\ conn' = "next"
  /\ UNCHANGED <<autoVars, booted, hostVars, backoff, relayVars, bgVars, findVars, todo, cur>>

Reserved ==
  /\ conn = "reserve" /\ cur \in connected /\ ~cancelled
  /\ candidates' = candidates \ {cur} /\ old' = old \ {cur}
  /\ conn' = "add"
  /\ UNCHANGED <<autoVars, booted, hostVars, backoff, relayVars, chan, bgVars, findVars, todo,
                 cur, unsaid>>

\* With enough relays the rest of the candidates is left alone.
AddRelay ==
  /\ conn = "add"
  /\ relays' = relays \cup {cur}
  /\ todo' = IF Cardinality(relays') >= desiredRelays THEN {} ELSE todo
  /\ conn' = "announce"
  /\ UNCHANGED <<autoVars, booted, hostVars, candVars, protected, cached, chan, bgVars, findVars,
                 cur, unsaid>>

AnnounceRelay ==
  /\ conn = "announce"
  /\ protected' = protected \cup {cur}
  /\ Notify({"maybeRequestNewCandidates", "relayUpdated"})
  /\ conn' = "next"
  /\ UNCHANGED <<autoVars, booted, hostVars, candVars, relays, cached, bgVars, findVars, todo, cur>>

HandleNewCandidatesReturns ==
  /\ conn = "wait" /\ cancelled
  /\ conn' = "off"
  /\ UNCHANGED <<autoVars, booted, hostVars, candVars, relayVars, chan, bgVars, findVars, todo,
                 cur, unsaid>>

----------------------------------------------------------------------------
BackgroundStep ==
  \/ Background \/ DisconnectedFromRelay \/ CandidateFound \/ BootDelayOver \/ RelayUpdated
  \/ ClearCachedAddrs \/ RunScheduledWork \/ ScheduledWorkEnds \/ BackgroundReturns
  \/ \E p \in Nodes : RefreshOk(p) \/ RefreshFails(p)

FindStep ==
  \/ FindNodesTop \/ CallPeerSource \/ MaybeRequestNewCandidates \/ PeerChanCloses
  \/ NodesHandled \/ FindNodesReturns
  \/ \E p \in Nodes : \/ FoundNode(p) \/ CheckNode(p) \/ AddCandidate(p) \/ TryNodeFails(p)
                      \/ NotifyNewCandidate(p)

ConnStep ==
  \/ HandleNewCandidates \/ CountRelays \/ SelectCandidates \/ NextCandidate \/ ConnectToRelay
  \/ ConnectToRelayFails \/ Reserved \/ AddRelay \/ AnnounceRelay \/ HandleNewCandidatesReturns

Next ==
  \/ \E r \in {"public", "private", "unknown"} : ReachabilityChanged(r)
  \/ StopReturns \/ Close
  \/ \E p \in Nodes : Disconnect(p) \/ Age(p)
  \/ Boot \/ RelayAddrs
  \/ BackgroundStep \/ FindStep \/ ConnStep

Spec == Init /\ [][Next]_vars

----------------------------------------------------------------------------
(* Properties.                                                             *)

TypeOK ==
  /\ status \in {"unknown", "private", "public"} /\ autorelay \in {"idle", "stopping", "closed"}
  /\ {cancelled, booted, limiter, bootTimer, failed, peerChan, unsaid} \subseteq BOOLEAN
  /\ UNION {connected, candidates, backoff, relays, protected, refreshing, todo} \subseteq Nodes
  /\ old \subseteq candidates /\ events \in Seq(Nodes)
  /\ cached = NoCache \/ cached \subseteq Nodes
  /\ chan \subseteq Channels
  /\ node \in [Nodes -> {"none", "check", "try", "notify"}]

\* No more relays than desired, and all of them protected from trims; and the addresses
\* that relayAddrs goes on to hand out are those of the present relays, or the order to
\* compute them anew is on its way.
AddrsFollowRelays ==
  /\ TypeOK
  /\ relays \subseteq protected \cup (IF conn = "announce" THEN {cur} ELSE {})
  /\ Cardinality(relays) <= desiredRelays
  /\ \/ cached \in {NoCache, relays}
     \/ "relayUpdated" \in chan \/ conn = "announce"
     \/ bg = "clear" \/ (bg = "refresh" /\ failed)

\* No wake-up is lost: while a relay is missing and a usable candidate is there, the
\* finder is at work or will be told to, unless the relay went with a failed refresh,
\* which tells nobody.
CandidatesUsed ==
  (/\ conn = "wait" /\ ~cancelled /\ ~bootTimer /\ ~unsaid
   /\ Cardinality(relays) < desiredRelays /\ candidates \ old # {})
  => \/ chan \cap {"candidateFound", "maybeConnectToRelay"} # {}
     \/ \E p \in Nodes : node[p] = "notify"
============================================================================
