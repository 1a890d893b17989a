----------------------------- MODULE Admission -----------------------------
(***************************************************************************)
(* What a connection passes before the swarm has it: the connection gater  *)
(* (p2p/net/conngater) and the upgrader (p2p/net/upgrader).                *)
(***************************************************************************)
EXTENDS Naturals, FiniteSets

----------------------------------------------------------------------------
(***************************************************************************)
(* The basic connection gater (p2p/net/conngater): rules that block peers, *)
(* IP addresses and subnets, kept in memory and, with a datastore, on disk *)
(* first; the interceptions that consult them on a dial and on an accept;  *)
(* restarts, which read the rules back.  Blocking and unblocking touch the *)
(* datastore outside the lock, so calls about one rule may interleave.     *)
(***************************************************************************)

CONSTANTS
  GPeers, GIPs, Subnets,  \* what a rule may name: three disjoint sets
  InSubnet,               \* [Subnets -> sets of IPs]: ipnet.Contains
  NoIP,                   \* an address manet.ToIP cannot convert
  GCallers, Attempts      \* bounds of the model: overlapping calls; connection attempts

\* An address without an IP is in no rule.
ASSUME GateAssumption == NoIP \notin GIPs /\ \A s \in Subnets : NoIP \notin InSubnet[s]

VARIABLES
  withDs,   \* whether the gater was given a datastore
  stored,   \* the rules in the datastore
  blocked,  \* blockedPeers, blockedAddrs and blockedSubnets
  gater,    \* "down", "up", or the kind of rule that loadRules reads next
  calls,    \* [GCallers -> [at, op, rule, sure]]
  attempts, \* [Attempts -> [at, p, ip, dir, must]]
  known,    \* history: [Rules -> {"blocked", "open", "unsure"}], what the finished calls entitle to
  unread    \* history: rules in the datastore that this start did not read and no call has set since

gateVars == <<withDs, stored, blocked, gater, calls, attempts, known, unread>>

Rules == GPeers \union GIPs \union Subnets
Kinds == {"peer", "addr", "subnet"}
OfKind(k) == IF k = "peer" THEN GPeers ELSE IF k = "addr" THEN GIPs ELSE Subnets
After(k) == IF k = "peer" THEN "addr" ELSE IF k = "addr" THEN "subnet" ELSE "up"
NoGateCall == [at |-> "none"]
NoAttempt == [at |-> "none"]

GateInit ==
  /\ withDs \in BOOLEAN /\ stored = {} /\ blocked = {} /\ gater = "up"
  /\ calls = [c \in GCallers |-> NoGateCall] /\ attempts = [a \in Attempts |-> NoAttempt]
  /\ known = [r \in Rules |-> "open"] /\ unread = {}

----------------------------------------------------------------------------
(* Blocking and unblocking                                                 *)

Opposed(op, r) == \E c \in GCallers : calls[c].at # "none" /\ calls[c].rule = r /\ calls[c].op # op

\* A call about the rule opens: until it ends, and for good if an opposite one overlaps it, nobody
\* knows the outcome.  An unblocking releases the attempts under way from the rule.
Begin(c, op, r) ==
  /\ gater = "up" /\ calls[c].at = "none"
  /\ calls' = [d \in GCallers |->
       IF d = c THEN [at |-> IF withDs THEN "store" ELSE "memory", op |-> op, rule |-> r, sure |-> ~Opposed(op, r)]
       ELSE IF calls[d].at # "none" /\ calls[d].rule = r /\ calls[d].op # op THEN [calls[d] EXCEPT !.sure = FALSE]
       ELSE calls[d]]
  /\ known' = IF known[r] = (IF op = "block" THEN "blocked" ELSE "open") THEN known
              ELSE [known EXCEPT ![r] = "unsure"]
  /\ attempts' = IF op = "block" THEN attempts
              ELSE [a \in Attempts |-> IF attempts[a].at = "none" THEN attempts[a]
                                       ELSE [attempts[a] EXCEPT !.must = @ \ {r}]]
  /\ UNCHANGED <<withDs, stored, blocked, gater, unread>>

\* ds.Put or ds.Delete, before the lock is taken; a failure ends the call.
Persist(c) ==
  /\ calls[c].at = "store"
  /\ \/ /\ stored' = IF calls[c].op = "block" THEN stored \union {calls[c].rule} ELSE stored \ {calls[c].rule}
        /\ calls' = [calls EXCEPT ![c].at = "memory"]
     \/ UNCHANGED stored /\ calls' = [calls EXCEPT ![c] = NoGateCall]
  /\ UNCHANGED <<withDs, blocked, gater, attempts, known, unread>>

Remember(c) ==
  LET call == calls[c] IN
  /\ call.at = "memory"
  /\ blocked' = IF call.op = "block" THEN blocked \union {call.rule} ELSE blocked \ {call.rule}
  /\ calls' = [calls EXCEPT ![c] = NoGateCall]
  /\ known' = IF call.sure THEN [known EXCEPT ![call.rule] = IF call.op = "block" THEN "blocked" ELSE "open"] ELSE known
  /\ unread' = unread \ {call.rule} /\ UNCHANGED <<withDs, stored, gater, attempts>>

----------------------------------------------------------------------------
(* Restarts                                                                *)

\* The process ends wherever its calls are: a call before its write to the datastore did nothing.
\* Without a datastore the next gater starts empty.
GateCrash ==
  /\ gater = "up" /\ gater' = "down"
  /\ calls' = [c \in GCallers |-> NoGateCall] /\ attempts' = [a \in Attempts |-> NoAttempt]
  /\ known' = IF withDs THEN known ELSE [r \in Rules |-> "open"]
  /\ blocked' = {} /\ unread' = {} /\ UNCHANGED <<withDs, stored>>

\* NewBasicConnectionGater.
Construct ==
  /\ gater = "down" /\ gater' = IF withDs THEN "peer" ELSE "up"
  /\ UNCHANGED <<withDs, stored, blocked, calls, attempts, known, unread>>

\* One query of loadRules.  A query that fails, fails the construction.
LoadRules ==
  /\ gater \in Kinds
  /\ \/ blocked' = blocked \union (stored \intersect OfKind(gater)) /\ gater' = After(gater)
     \/ blocked' = {} /\ gater' = "down"
  /\ UNCHANGED <<withDs, stored, calls, attempts, known, unread>>

\* An entry that cannot be read returns the error of the query, which is nil: the gater starts with
\* what was read so far, and without the rules it did not reach.
EntryFails ==
  /\ gater \in Kinds /\ gater' = "up"
  /\ \E S \in SUBSET (stored \intersect OfKind(gater)) :
       S # stored \intersect OfKind(gater) /\ blocked' = blocked \union S
  /\ unread' = stored \ blocked' /\ UNCHANGED <<withDs, stored, calls, attempts, known>>

----------------------------------------------------------------------------
(* Interceptions                                                           *)

PeerAllowed(p) == p \notin blocked
AddrsOnly(ip) == ip \notin blocked
AddrAllowed(ip) == ip = NoIP \/ (ip \notin blocked /\ \A s \in Subnets \intersect blocked : ip \notin InSubnet[s])
Entitled(r) == known[r] = "blocked" /\ r \notin unread
Covering(p, ip) == {p} \union ({ip} \intersect GIPs) \union {s \in Subnets : ip \in InSubnet[s]}

\* The first interception, of the peer on a dial, of the address on an accept: an attempt it
\* refuses ends there.
FirstIntercept(a, p, ip, dir) ==
  /\ gater = "up" /\ attempts[a].at = "none"
  /\ IF dir = "out" THEN PeerAllowed(p) ELSE AddrAllowed(ip)
  /\ attempts' = [attempts EXCEPT ![a] =
       [at |-> "first", p |-> p, ip |-> ip, dir |-> dir, must |-> {r \in Covering(p, ip) : Entitled(r)}]]
  /\ UNCHANGED <<withDs, stored, blocked, gater, calls, known, unread>>

\* InterceptAddrDial for an address of a dial, InterceptSecured for an accepted connection.
\* InterceptSecured of a dialed connection and InterceptUpgraded let everything pass.
SecondIntercept(a) ==
  /\ gater = "up" /\ attempts[a].at = "first"
  /\ LET ok == IF attempts[a].dir = "out" THEN AddrAllowed(attempts[a].ip) ELSE PeerAllowed(attempts[a].p) IN
     attempts' = [attempts EXCEPT ![a] = IF ok THEN [@ EXCEPT !.at = "open"] ELSE NoAttempt]
  /\ UNCHANGED <<withDs, stored, blocked, gater, calls, known, unread>>

AttemptEnds(a) ==
  /\ attempts[a].at = "open" /\ attempts' = [attempts EXCEPT ![a] = NoAttempt]
  /\ UNCHANGED <<withDs, stored, blocked, gater, calls, known, unread>>

GateNext ==
  \/ \E c \in GCallers : (\E op \in {"block", "unblock"}, r \in Rules : Begin(c, op, r)) \/ Persist(c) \/ Remember(c)
  \/ GateCrash \/ Construct \/ LoadRules \/ EntryFails
  \/ \E a \in Attempts : \/ \E p \in GPeers, ip \in GIPs \union {NoIP}, dir \in {"in", "out"} : FirstIntercept(a, p, ip, dir)
                         \/ SecondIntercept(a) \/ AttemptEnds(a)

GateSpec == GateInit /\ [][GateNext]_gateVars

----------------------------------------------------------------------------
(* Properties                                                              *)

\* What finished calls say of a rule is what the gater does, after any number of restarts in the
\* middle of other calls, refused writes and failed starts: a rule that was blocked, with no opposite
\* call since the blocking began, is in force whenever the gater is up and lets no attempt through,
\* and one that was unblocked is not in force (conngater.go:64-122, :124-259, :277-352).  The one
\* exception are rules that a start did not read: loadRules takes an entry that it cannot read for
\* the end of the rules and returns no error (conngater.go:73-75), and until the next start that
\* reads them, or the next call about them, these stored rules are not in force.
RulesInForce ==
  /\ gater = "up" => \A r \in Rules : /\ known[r] = "blocked" => r \in blocked \cup unread
                                      /\ known[r] = "open" => r \notin blocked
  /\ \A a \in Attempts : attempts[a].at = "open" => attempts[a].must = {}

----------------------------------------------------------------------------
(***************************************************************************)
(* The upgrader and its listener (p2p/net/upgrader): raw connections are   *)
(* accepted, gated, given a scope, secured and multiplexed each in a       *)
(* goroutine of its own, and wait to be accepted by the swarm.             *)
(***************************************************************************)

CONSTANTS
  Raw,                  \* bound of the model: raw connections that come in
  AcceptQueueLength,    \* the threshold
  MaxTemp               \* bound of the model: temporary accept errors

VARIABLES
  lsn,        \* the raw listener is open
  lctx,       \* the listener's context was cancelled
  loop,       \* handleIncoming: "accept", "gate", "scope", "wait", "ending", "done"
  cur,        \* the connection in its hands
  raw,        \* [Raw -> [at, closed, scope]]
  count,      \* threshold.count
  incomingClosed,
  temps,
  forced,     \* ipnet.ForcePrivateNetwork, and the upgrader has no key of a private network
  closer,     \* Close: "no", "cancel", "drain", "returned"
  swarm       \* the swarm's accept loop: "accepting", "ended"

upVars == <<lsn, lctx, loop, cur, raw, count, incomingClosed, temps, forced, closer, swarm>>

NoRaw == [at |-> "none", closed |-> FALSE, scope |-> "none"]
Nothing == "nothing"

UpInit ==
  /\ lsn = TRUE /\ lctx = FALSE /\ loop = "accept" /\ cur = Nothing /\ raw = [c \in Raw |-> NoRaw]
  /\ count = 0 /\ incomingClosed = FALSE /\ temps = 0 /\ closer = "no" /\ swarm = "accepting"
  /\ forced \in BOOLEAN

UNCHANGED_END == UNCHANGED <<lsn, lctx, incomingClosed, forced, closer, swarm>>

----------------------------------------------------------------------------
(* handleIncoming                                                          *)

\* Accept: a connection, a temporary error, or the end.
AcceptRaw ==
  /\ loop = "accept"
  /\ IF lctx THEN loop' = "ending" /\ UNCHANGED <<cur, raw, temps>>
     ELSE \/ \E c \in Raw : /\ lsn /\ raw[c].at = "none" /\ cur' = c /\ loop' = "gate"
                            /\ raw' = [raw EXCEPT ![c].at = "accepted"] /\ UNCHANGED temps
          \/ lsn /\ temps < MaxTemp /\ temps' = temps + 1 /\ UNCHANGED <<loop, cur, raw>>
          \/ loop' = "ending" /\ UNCHANGED <<cur, raw, temps>>
  /\ UNCHANGED count /\ UNCHANGED_END

Rejected(c) ==
  /\ raw' = [raw EXCEPT ![c].at = "failed", ![c].closed = TRUE] /\ loop' = "accept" /\ cur' = Nothing

\* The gater's InterceptAccept.
GateRaw ==
  /\ loop = "gate" /\ (Rejected(cur) \/ (loop' = "scope" /\ UNCHANGED <<raw, cur>>))
  /\ UNCHANGED <<count, temps>> /\ UNCHANGED_END

\* OpenConnection of the resource manager.
OpenScope ==
  /\ loop = "scope"
  /\ \/ Rejected(cur)
     \/ loop' = "wait" /\ raw' = [raw EXCEPT ![cur].scope = "open"] /\ UNCHANGED cur
  /\ UNCHANGED <<count, temps>> /\ UNCHANGED_END

\* threshold.Wait, then the goroutine that upgrades.
StartUpgrade ==
  /\ loop = "wait" /\ count < AcceptQueueLength
  /\ raw' = [raw EXCEPT ![cur].at = "security"] /\ loop' = "accept" /\ cur' = Nothing
  /\ UNCHANGED <<count, temps>> /\ UNCHANGED_END

\* The deferred function: the raw listener is closed, then the goroutines are waited for.
Ended ==
  /\ loop = "ending" /\ lsn' = FALSE
  /\ IF \E c \in Raw : raw[c].at \in {"security", "secured", "muxer", "upgraded", "offered"}
     THEN UNCHANGED <<loop, incomingClosed>> /\ lsn
     ELSE loop' = "done" /\ incomingClosed' = TRUE
  /\ UNCHANGED <<cur, raw, count, temps, lctx, forced, closer, swarm>>

----------------------------------------------------------------------------
(* upgrade, for inbound connections                                        *)

UNCHANGED_LOOP == UNCHANGED <<loop, cur, temps>> /\ UNCHANGED_END

\* An upgrade that fails closes the connection, and Upgrade ends the scope.
FailUpgrade(c) == raw' = [raw EXCEPT ![c] = [at |-> "failed", closed |-> TRUE, scope |-> "done"]]

\* A private network is forced and there is no key for it: Upgrade ends the scope, but nobody
\* closes the connection.
NoProtector(c) ==
  /\ raw[c].at = "security" /\ forced /\ raw' = [raw EXCEPT ![c].at = "refused", ![c].scope = "done"]
  /\ UNCHANGED count /\ UNCHANGED_LOOP

\* setupSecurity: the negotiation or the handshake fails, or the context ends.
SetupSecurity(c) ==
  /\ raw[c].at = "security" /\ ~forced
  /\ (FailUpgrade(c) \/ raw' = [raw EXCEPT ![c].at = "secured"])
  /\ UNCHANGED count /\ UNCHANGED_LOOP

AdmitKeepsConn(c) ==
  /\ raw[c].at = "secured"
  /\ \/ raw' = [raw EXCEPT ![c].at = "failed", ![c].scope = "done"]
     \/ raw' = [raw EXCEPT ![c].at = "muxer"]
  /\ UNCHANGED count /\ UNCHANGED_LOOP

\* InterceptSecured of the gater and SetPeer of the scope.
AdmitRaw(c) ==
  /\ raw[c].at = "secured"
  /\ (FailUpgrade(c) \/ raw' = [raw EXCEPT ![c].at = "muxer"])
  /\ UNCHANGED count /\ UNCHANGED_LOOP

\* setupMuxer, early or negotiated.
SetupMuxer(c) ==
  /\ raw[c].at = "muxer"
  /\ (FailUpgrade(c) \/ raw' = [raw EXCEPT ![c].at = "upgraded"])
  /\ UNCHANGED count /\ UNCHANGED_LOOP

\* threshold.Acquire before the connection is offered.
Acquire(c) ==
  /\ raw[c].at = "upgraded" /\ raw' = [raw EXCEPT ![c].at = "offered"] /\ count' = count + 1
  /\ UNCHANGED_LOOP

\* The peer ends a connection that nobody has accepted; IsClosed says so, its scope stays open.
ClosedEarly(c) ==
  /\ raw[c].at = "offered" /\ ~raw[c].closed
  /\ raw' = [raw EXCEPT ![c].closed = TRUE] /\ UNCHANGED count /\ UNCHANGED_LOOP

\* The context of the upgrade ends first: transportConn.Close; Release.
DropSlow(c) ==
  /\ raw[c].at = "offered"
  /\ raw' = [raw EXCEPT ![c] = [at |-> "dropped", closed |-> TRUE, scope |-> "done"]]
  /\ count' = count - 1 /\ UNCHANGED_LOOP

\* Receive from incoming, by Accept, which passes over a connection that was closed and leaves its
\* scope, or by the loop of Close; Release.
Receive(c, by) ==
  /\ raw[c].at = "offered" /\ count' = count - 1
  /\ IF by = "swarm"
     THEN /\ swarm = "accepting"
          /\ raw' = [raw EXCEPT ![c].at = IF raw[c].closed THEN "skipped" ELSE "delivered"]
     ELSE /\ closer = "drain"
          /\ raw' = [raw EXCEPT ![c] = [at |-> "drained", closed |-> TRUE, scope |-> "done"]]
  /\ UNCHANGED_LOOP

SwarmEnds ==
  /\ swarm = "accepting" /\ incomingClosed /\ swarm' = "ended"
  /\ UNCHANGED <<lsn, lctx, loop, cur, raw, count, incomingClosed, temps, forced, closer>>

\* Close: the raw listener, the context, then what is left in incoming.
CloseListener ==
  /\ CASE closer = "no"     -> closer' = "cancel" /\ lsn' = FALSE /\ UNCHANGED lctx
       [] closer = "cancel" -> closer' = "drain" /\ lctx' = TRUE /\ UNCHANGED lsn
       [] closer = "drain"  -> incomingClosed /\ closer' = "returned" /\ UNCHANGED <<lsn, lctx>>
       [] OTHER -> FALSE
  /\ UNCHANGED <<loop, cur, raw, count, incomingClosed, temps, forced, swarm>>

UpNext ==
  \/ AcceptRaw \/ GateRaw \/ OpenScope \/ StartUpgrade \/ Ended \/ SwarmEnds \/ CloseListener
  \/ \E c \in Raw : \/ NoProtector(c) \/ SetupSecurity(c) \/ AdmitRaw(c) \/ SetupMuxer(c) \/ Acquire(c)
                    \/ ClosedEarly(c) \/ DropSlow(c) \/ Receive(c, "swarm") \/ Receive(c, "closer")

UpSpec == UpInit /\ [][UpNext]_upVars

----------------------------------------------------------------------------
\* What is given back for a connection that does not reach the swarm: it is closed, but for one that
\* a forced private network refused (upgrader.go:150), and its scope is ended, but for one that was
\* closed while it waited and that Accept passed over (listener.go:162).
GivenBack(c) ==
  /\ raw[c].closed \/ (raw[c].at = "refused" /\ forced)
  /\ raw[c].scope # "open" \/ (raw[c].at = "skipped" /\ raw[c].closed)

\* A connection that does not reach the swarm, whether a step of its upgrade refused it, it waited for
\* too long or Close took it from the queue, is closed and its scope ended, with the two exceptions
\* that GivenBack names; the threshold counts exactly the connections offered; and when Close returns no
\* goroutine still holds a connection (upgrader/listener.go, handleIncoming, Accept and Close;
\* upgrader.go, Upgrade).
NothingHalfOpen ==
  /\ \A c \in Raw :
       /\ raw[c].at \in {"failed", "refused", "dropped", "drained", "skipped"} => GivenBack(c)
       /\ raw[c].at = "delivered" => raw[c].scope = "open"
  /\ count = Cardinality({c \in Raw : raw[c].at = "offered"})
  /\ closer = "returned" => \A c \in Raw :
       raw[c].at \notin {"accepted", "security", "secured", "muxer", "upgraded", "offered"}
============================================================================
