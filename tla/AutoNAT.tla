------------------------------ MODULE AutoNAT ------------------------------
(***************************************************************************)
(* AutoNAT (p2p/host/autonat): the client by which a host learns whether   *)
(* it can be reached, and the service by which it helps others to learn    *)
(* it.                                                                     *)
(***************************************************************************)
EXTENDS Integers, FiniteSets, Sequences, SequencesExt

----------------------------------------------------------------------------
(***************************************************************************)
(* Client.  How a host finds out whether it is publicly reachable          *)
(* (AmbientAutoNAT in p2p/host/autonat/autonat.go): one goroutine          *)
(* schedules probes, asks peers to dial back and changes status,           *)
(* confidence and the AutoNAT service it runs itself.  Times are counted   *)
(* in seconds of the model; ages stop at MaxAge.                           *)
(***************************************************************************)

CONSTANTS
  Peers,              \* the connected peers that offer the service
  maxConfidence,
  refreshInterval, retryInterval, throttlePeerPeriod,
  MaxAge,             \* bound of the model
  MaxProbes           \* bound of the model: probes under way

VARIABLES
  reach,        \* status
  confidence,
  lastEvent,    \* the last EvtLocalReachabilityChanged
  enabled,      \* the service has an instance
  inboundSince, \* lastInbound is after lastProbe
  probeAge,     \* since lastProbe; MaxAge + 1 before the first
  tryAge,       \* since lastProbeTry
  recent,       \* [Peers -> since recentProbes; MaxAge without entry]
  countdown,    \* until the timer fires
  retryProbe,   \* a probe was refused since the timer last fired
  probing,      \* how many probes wait for an answer
  answers,      \* dialResponses, which holds one, and what probes block on it
  bg,           \* "select", "exited"
  closing       \* "no", "cancelled", "disabled", "closed": how far Close is

probeVars == <<inboundSince, probeAge, tryAge, recent, probing>>
vars == <<reach, confidence, lastEvent, enabled, probeVars, countdown, retryProbe, answers, bg, closing>>

Results == {"ok", "dialError", "refused", "other"}

ClientInit ==
  /\ reach = "unknown" /\ confidence = 0 /\ lastEvent = "unknown" /\ enabled = TRUE
  /\ inboundSince = FALSE /\ probeAge = MaxAge + 1 /\ tryAge = 1
  /\ recent = [p \in Peers |-> MaxAge] /\ probing = 0
  /\ countdown = 1 /\ retryProbe = FALSE /\ answers = {} /\ bg = "select" /\ closing = "no"

MaxOf(a, b) == IF a > b THEN a ELSE b

----------------------------------------------------------------------------
\* scheduleProbe: the delay until the next probe, from what the step leaves.
UntilNext ==
  CASE retryProbe' \/ reach' = "unknown" \/ confidence' < maxConfidence -> retryInterval
    [] reach' = "public" /\ inboundSince' -> refreshInterval * 2
    [] reach' # "public" /\ inboundSince' -> refreshInterval \div 5
    [] OTHER -> refreshInterval

ScheduleProbe ==
  countdown' = MaxOf(1 - tryAge', IF probeAge' > MaxAge THEN 0
                                   ELSE MaxOf(0, UntilNext - probeAge'))

\* recordObservation, without a change of the service when the status becomes private.
RecordNotDisabled(o) ==
  CASE o = "public" ->
         /\ reach' = "public" /\ enabled' = (enabled \/ reach # "public") /\ lastEvent' = "public"
         /\ confidence' = IF reach # "public" THEN 0
                          ELSE IF confidence < maxConfidence THEN confidence + 1 ELSE confidence
    [] o = "private" /\ reach # "private" /\ confidence = 0 ->
         reach' = "private" /\ confidence' = 0 /\ enabled' = enabled /\ lastEvent' = "private"
    [] o = "private" /\ reach = "private" ->
         /\ confidence' = IF confidence < maxConfidence THEN confidence + 1 ELSE confidence
         /\ UNCHANGED <<reach, enabled, lastEvent>>
    [] o = "unknown" /\ confidence = 0 ->
         reach' = "unknown" /\ enabled' = TRUE /\ lastEvent' = "unknown" /\ confidence' = 0
    [] OTHER -> confidence' = confidence - 1 /\ UNCHANGED <<reach, enabled, lastEvent>>

\* recordObservation: public is believed at once, private and unknown only when the
\* confidence in the present status is used up.  The service runs unless private.
RecordObservation(o) ==
  CASE o = "public" ->
         /\ reach' = "public" /\ enabled' = (enabled \/ reach # "public")
         /\ lastEvent' = IF reach # "public" THEN "public" ELSE lastEvent
         /\ confidence' = IF reach # "public" THEN 0
                          ELSE IF confidence < maxConfidence THEN confidence + 1 ELSE confidence
    [] o = "private" /\ reach # "private" /\ confidence = 0 ->
         reach' = "private" /\ confidence' = 0 /\ enabled' = FALSE /\ lastEvent' = "private"
    [] o = "private" /\ reach = "private" ->
         /\ confidence' = IF confidence < maxConfidence THEN confidence + 1 ELSE confidence
         /\ UNCHANGED <<reach, enabled, lastEvent>>
    [] o = "unknown" /\ confidence = 0 ->
         /\ reach' = "unknown" /\ confidence' = 0
         /\ enabled' = (enabled \/ reach # "unknown")
         /\ lastEvent' = IF reach # "unknown" THEN "unknown" ELSE lastEvent
    [] OTHER -> confidence' = confidence - 1 /\ UNCHANGED <<reach, enabled, lastEvent>>

CleanupRecentProbes(p) == IF recent[p] > throttlePeerPeriod THEN MaxAge ELSE recent[p]

\* tryProbe: asks a peer that was not asked recently, unless skipPeer rejects its addresses; a
\* set P of at most one peer.
TryProbe(P) ==
  /\ tryAge' = 0
  /\ IF \E p \in P : recent[p] >= throttlePeerPeriod
     THEN \/ /\ recent' = [p \in Peers |-> IF p \in P THEN 0 ELSE CleanupRecentProbes(p)]
             /\ probeAge' = 0 /\ inboundSince' = FALSE /\ probing' = probing + 1
          \/ /\ recent' = [p \in Peers |-> CleanupRecentProbes(p)]
             /\ UNCHANGED <<probeAge, inboundSince, probing>>
     ELSE UNCHANGED <<recent, probeAge, inboundSince, probing>>

\* getPeerToProbe; there may be none, as it leaves out those that skipPeer rejects.
Candidates == {p \in Peers : recent[p] >= throttlePeerPeriod}

----------------------------------------------------------------------------
(* The cases of background; each ends with a new schedule.                 *)

Running == bg = "select"
UNCHANGED_STATUS == UNCHANGED <<reach, confidence, lastEvent, enabled>>

\* A connection; lastInbound is set if it comes from a public address that is not ours.
InboundConn ==
  /\ Running
  /\ inboundSince' \in {inboundSince, probeAge <= MaxAge}
  /\ UNCHANGED_STATUS
  /\ UNCHANGED <<probeAge, tryAge, recent, probing, retryProbe, answers, bg, closing>>
  /\ ScheduleProbe

AddressesUpdated ==
  /\ Running /\ confidence' = IF confidence = maxConfidence THEN confidence - 1 ELSE confidence
  /\ UNCHANGED <<reach, lastEvent, enabled, probeVars, retryProbe, answers, bg, closing>>
  /\ ScheduleProbe

PeerIdentified(p) ==
  /\ Running /\ probing < MaxProbes /\ UNCHANGED_STATUS
  /\ IF reach = "unknown" THEN TryProbe({p}) ELSE UNCHANGED probeVars
  /\ UNCHANGED <<retryProbe, answers, bg, closing>>
  /\ ScheduleProbe

TimerFires ==
  /\ Running /\ countdown <= 0 /\ probing < MaxProbes /\ UNCHANGED_STATUS
  /\ \/ TryProbe({})
     \/ \E p \in Candidates : TryProbe({p})
  /\ retryProbe' = FALSE
  /\ UNCHANGED <<answers, bg, closing>>
  /\ ScheduleProbe

\* A probe was answered: handleDialResponse, or an earlier retry when it was refused.
ProbeFinished(r) ==
  /\ Running /\ r \in answers
  /\ answers' = answers \ {r}
  /\ IF r = "refused" THEN UNCHANGED_STATUS
     ELSE RecordObservation(CASE r = "ok" -> "public" [] r = "dialError" -> "private"
                              [] OTHER -> "unknown")
  /\ retryProbe' = (retryProbe \/ r = "refused")
  /\ UNCHANGED <<probeVars, bg, closing>>
  /\ ScheduleProbe

CtxDone ==
  /\ Running /\ closing # "no" /\ bg' = "exited"
  /\ UNCHANGED_STATUS /\ UNCHANGED <<probeVars, countdown, retryProbe, answers, closing>>

\* probe: DialBack returns and the answer is sent, or dropped when the context is done.
ProbeReturns(r) ==
  /\ probing > 0 /\ probing' = probing - 1
  /\ \/ answers = {} /\ answers' = {r}
     \/ closing # "no" /\ answers' = answers
  /\ UNCHANGED_STATUS
  /\ UNCHANGED <<inboundSince, probeAge, tryAge, recent, countdown, retryProbe, bg, closing>>

\* Close cancels, disables the service and waits for the goroutine.
Close ==
  /\ CASE closing = "no"        -> closing' = "cancelled" /\ UNCHANGED enabled
       [] closing = "cancelled" -> closing' = "disabled" /\ enabled' = FALSE
       [] closing = "disabled"  -> bg = "exited" /\ closing' = "closed" /\ UNCHANGED enabled
       [] OTHER -> FALSE
  /\ UNCHANGED <<reach, confidence, lastEvent, probeVars, countdown, retryProbe, answers, bg>>

Older(age) == IF age < MaxAge THEN age + 1 ELSE age

Tick ==
  /\ bg = "select" /\ countdown > 0
  /\ countdown' = countdown - 1 /\ tryAge' = 1
  /\ probeAge' = Older(probeAge)
  /\ recent' = [p \in Peers |-> Older(recent[p])]
  /\ UNCHANGED_STATUS /\ UNCHANGED <<inboundSince, probing, retryProbe, answers, bg, closing>>

ClientNext ==
  \/ InboundConn \/ AddressesUpdated \/ TimerFires \/ CtxDone \/ Close \/ Tick
  \/ \E p \in Peers : PeerIdentified(p)
  \/ \E r \in Results : ProbeFinished(r) \/ ProbeReturns(r)

----------------------------------------------------------------------------
ClientTypeOK ==
  /\ reach \in {"unknown", "public", "private"} /\ confidence \in 0..maxConfidence
  /\ probing \in 0..MaxProbes /\ Cardinality(answers) <= 1

\* Until Close, the subscribers of reachability events know the present status, which
\* is unknown only without confidence, and the service runs unless we are private; and a
\* probe is due as soon as retryInterval after the last one while we are not sure, or were
\* refused one, whatever else happens before it.
ReachabilityReported ==
  /\ ClientTypeOK
  /\ closing = "no" =>
       /\ lastEvent = reach /\ (enabled <=> reach # "private")
       /\ reach = "unknown" => confidence = 0
       /\ (reach = "unknown" \/ confidence < maxConfidence \/ retryProbe) /\ probeAge <= MaxAge
            => countdown <= MaxOf(1, retryInterval - probeAge)

----------------------------------------------------------------------------
(***************************************************************************)
(* Service.  The AutoNAT server (p2p/host/autonat/svc.go): stream handlers *)
(* that dial a client back through a dialer with a peerstore of its own,   *)
(* and the goroutine that resets the rate limiter.  An address is an IP,   *)
(* the rest (port and transport), and whether it goes through a relay.     *)
(***************************************************************************)

CONSTANTS
  Handlers,            \* bound of the model: streams being handled
  Clients,
  OwnIPs, PublicIPs, PrivateIPs, NoIP,   \* NoIP: the first component is no IP
  Observed,            \* the observed addresses a stream can come from
  Requests,            \* the address lists a client sends
  Names,               \* which peer the message names: "none", "own", "bad"
  maxPeerAddresses, throttlePeerMax, throttleGlobalMax,
  MaxReqs              \* bound of the model: requests handled

VARIABLES
  instance,     \* the service is enabled
  reqs,         \* [Clients -> requests since the last reset]
  globalReqs,
  hd,           \* the handlers
  dialBook,     \* [Clients -> addresses of the dialer's peerstore]
  dialConns,    \* [Clients -> addresses of the dialer's connections]
  served,       \* bound of the model
  sinceReset,   \* history: dials started since the last reset, per peer
  seenAt        \* history: the IPs each peer was observed at

svcVars == <<instance, reqs, globalReqs, hd, dialBook, dialConns, served, sinceReset, seenAt>>

Free == [at |-> "free", p |-> CHOOSE p \in Clients : TRUE, addrs |-> <<>>, snap |-> {}, ans |-> "none"]

ServiceInit ==
  /\ instance = TRUE /\ reqs = [p \in Clients |-> 0] /\ globalReqs = 0
  /\ hd = [h \in Handlers |-> Free]
  /\ dialBook = [p \in Clients |-> {}] /\ dialConns = [p \in Clients |-> {}] /\ served = 0
  /\ sinceReset = [p \in Clients |-> 0] /\ seenAt = [p \in Clients |-> {}]

----------------------------------------------------------------------------
(* dialpolicy.go                                                           *)

skipDial(a) == a.circuit \/ a.ip \notin PublicIPs \/ a.ip \in OwnIPs

\* The policy the AutoNAT client applies to a peer it would ask.
skipPeer(addrs) ==
  LET public == {a \in addrs : ~a.circuit /\ a.ip \in PublicIPs}
  IN public = {} \/ \E a \in public : a.ip \in OwnIPs \cap PublicIPs

\* The requested address, as the client sent it.
AsRequested(a, host) == a

\* Only the observed IP is dialed: it replaces the one in the address.
AtObserved(a, host) == [a EXCEPT !.ip = host]

\* handleDial: the addresses to dial, the observed one first; none when it is refused.
DialAddrs(obs, req) ==
  LET add(list, a) ==
        LET b == IF a.ip = obs.ip THEN a ELSE AtObserved(a, obs.ip)
        IN IF \/ Len(list) >= maxPeerAddresses /\ Len(list) > 1
              \/ a.ip = NoIP \/ skipDial(b) \/ Contains(list, b)
           THEN list ELSE Append(list, b)
  IN IF skipDial(obs) THEN <<>> ELSE FoldLeft(add, <<obs>>, req)

Refused(h, p, why) == hd' = [hd EXCEPT ![h] = [Free EXCEPT !.at = "answered", !.p = p, !.ans = why]]

Limited(p) == \/ reqs[p] >= throttlePeerMax
              \/ throttleGlobalMax > 0 /\ globalReqs >= throttleGlobalMax

\* handleStream up to the rate limiter of doDial.
HandleStream(h, p, obs, req, name) ==
  /\ instance /\ hd[h].at = "free" /\ served < MaxReqs /\ served' = served + 1
  /\ seenAt' = [seenAt EXCEPT ![p] = @ \cup {obs.ip}]
  /\ LET addrs == DialAddrs(obs, req)
     IN IF name = "bad" \/ addrs = <<>> \/ Limited(p)
        THEN /\ Refused(h, p, IF name = "bad" THEN "badRequest" ELSE "refused")
             /\ UNCHANGED <<reqs, globalReqs, sinceReset>>
        ELSE /\ hd' = [hd EXCEPT ![h] = [Free EXCEPT !.at = "clear", !.p = p, !.addrs = addrs]]
             /\ reqs' = [reqs EXCEPT ![p] = @ + 1] /\ globalReqs' = globalReqs + 1
             /\ sinceReset' = [sinceReset EXCEPT ![p] = @ + 1]
  /\ UNCHANGED <<instance, dialBook, dialConns>>

----------------------------------------------------------------------------
(* doDial: the steps on the dialer, which handlers of one peer share.      *)

At(h, s) == hd[h].at = s
UNCHANGED_SVC == UNCHANGED <<instance, reqs, globalReqs, served, sinceReset, seenAt>>

ClearFirst(h) ==
  /\ At(h, "clear") /\ dialBook' = [dialBook EXCEPT ![hd[h].p] = {}]
  /\ hd' = [hd EXCEPT ![h].at = "add"] /\ UNCHANGED_SVC /\ UNCHANGED dialConns

AddAddrs(h) ==
  /\ At(h, "add") /\ dialBook' = [dialBook EXCEPT ![hd[h].p] = @ \cup ToSet(hd[h].addrs)]
  /\ hd' = [hd EXCEPT ![h].at = "dial"] /\ UNCHANGED_SVC /\ UNCHANGED dialConns

\* DialPeer: an existing connection is returned, else the known addresses are dialed.
DialPeer(h) ==
  /\ At(h, "dial")
  /\ LET p == hd[h].p IN
     \/ /\ dialConns[p] # {}
        /\ \E a \in dialConns[p] : hd' = [hd EXCEPT ![h].at = "close", ![h].snap = {a}]
     \/ /\ dialConns[p] = {}
        /\ hd' = [hd EXCEPT ![h].at = IF dialBook[p] = {} THEN "wait" ELSE "dialing",
                            ![h].snap = dialBook[p]]
  /\ UNCHANGED_SVC /\ UNCHANGED <<dialBook, dialConns>>

DialSucceeds(h, a) ==
  /\ At(h, "dialing") /\ a \in hd[h].snap
  /\ dialConns' = [dialConns EXCEPT ![hd[h].p] = @ \cup {a}]
  /\ hd' = [hd EXCEPT ![h].at = "close", ![h].snap = {a}]
  /\ UNCHANGED_SVC /\ UNCHANGED dialBook

DialFails(h) ==
  /\ At(h, "dialing") /\ hd' = [hd EXCEPT ![h].at = "wait"]
  /\ UNCHANGED_SVC /\ UNCHANGED <<dialBook, dialConns>>

\* The failure is only told when the dial's context has timed out.
DialCtxDone(h) ==
  /\ At(h, "wait") /\ hd' = [hd EXCEPT ![h].at = "undo", ![h].ans = "dialError"]
  /\ UNCHANGED_SVC /\ UNCHANGED <<dialBook, dialConns>>

ClosePeer(h) ==
  /\ At(h, "close") /\ dialConns' = [dialConns EXCEPT ![hd[h].p] = {}]
  /\ hd' = [hd EXCEPT ![h].at = "undo", ![h].ans = "ok"]
  /\ UNCHANGED_SVC /\ UNCHANGED dialBook

\* The deferred ClearAddrs and RemovePeer.
Undo(h) ==
  /\ At(h, "undo") /\ dialBook' = [dialBook EXCEPT ![hd[h].p] = {}]
  /\ hd' = [hd EXCEPT ![h].at = "answered"] /\ UNCHANGED_SVC /\ UNCHANGED dialConns

\* The answer is written and the stream closed.
Respond(h) ==
  /\ At(h, "answered") /\ hd' = [hd EXCEPT ![h] = Free]
  /\ UNCHANGED_SVC /\ UNCHANGED <<dialBook, dialConns>>

----------------------------------------------------------------------------
\* Enable and Disable; Disable waits for the goroutine of the timer, not for handlers.
Toggle ==
  /\ instance' = ~instance
  /\ UNCHANGED <<reqs, globalReqs, hd, dialBook, dialConns, served, sinceReset, seenAt>>

\* background: the timer resets the counters while the service is enabled.
Reset ==
  /\ instance /\ reqs' = [p \in Clients |-> 0] /\ globalReqs' = 0
  /\ sinceReset' = [p \in Clients |-> 0]
  /\ UNCHANGED <<instance, hd, dialBook, dialConns, served, seenAt>>

ServiceNext ==
  \/ Toggle \/ Reset
  \/ \E h \in Handlers :
       \/ ClearFirst(h) \/ AddAddrs(h) \/ DialPeer(h) \/ DialFails(h) \/ DialCtxDone(h)
       \/ ClosePeer(h) \/ Undo(h) \/ Respond(h)
       \/ \E a \in hd[h].snap : DialSucceeds(h, a)
       \/ \E p \in Clients, obs \in Observed, req \in Requests, n \in Names :
            HandleStream(h, p, obs, req, n)

----------------------------------------------------------------------------
\* The handlers that have given their addresses to the dialer and not yet removed them.
Dialing(p) == {h \in Handlers : hd[h].p = p /\ hd[h].at \in {"dial", "dialing", "wait", "close", "undo"}}

\* The dialer connects to a peer only at an IP that peer was seen at, which is neither
\* private nor ours.  Requests of one peer share the dialer's peerstore and connections, so
\* that a dial may go to an address of another request of this peer, or be answered by its
\* connection, but only of one under way: nothing is ever left of a request that is answered.
\* Between two resets the limits on dials hold, for all peers together and each of them; and
\* "ok" is only answered after a connection was made.  A peer that the client's policy would
\* ask has an address that the server's policy would dial.
DialBackLimited ==
  /\ \A addrs \in SUBSET Observed : skipPeer(addrs) \/ \E a \in addrs : ~skipDial(a)
  /\ \A p \in Clients :
       /\ \A a \in dialConns[p] \cup UNION {hd[h].snap : h \in {g \in Handlers : hd[g].p = p}} :
            a.ip \in seenAt[p] /\ a.ip \notin OwnIPs \cup PrivateIPs /\ ~a.circuit
       /\ dialBook[p] \subseteq UNION {ToSet(hd[h].addrs) : h \in Dialing(p)}
       /\ \A a \in dialConns[p] : \E h \in Dialing(p) : hd[h].at = "close" /\ a \in hd[h].snap
       /\ sinceReset[p] <= throttlePeerMax
  /\ throttleGlobalMax > 0 => FoldSet(LAMBDA p, n : sinceReset[p] + n, 0, Clients) <= throttleGlobalMax
  /\ \A h \in Handlers : hd[h].ans = "ok" => hd[h].snap # {}
============================================================================
