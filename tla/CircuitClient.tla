--------------------------- MODULE CircuitClient ----------------------------
(***************************************************************************)
(* The circuit v2 client and transport (p2p/protocol/circuitv2/client):    *)
(* concurrent dials of one peer through relays, which share one attempt,   *)
(* relayed connections that come in, and the tag that protects the         *)
(* connection to a relay while relayed connections use it.                 *)
(***************************************************************************)
EXTENDS Integers, FiniteSets

CONSTANTS
  Dials,          \* calls of Dial to the peer
  Ins,            \* bound of the model: connections through relays that come in
  Relays,
  via             \* [Dials \cup Ins -> Relays]

VARIABLES
  dl,           \* [Dials -> [at, on]]: where a call is, and whose attempt it waits for
  activeDial,   \* activeDials of the peer: a call, or NoDial
  comp,         \* [Dials -> [closed, err]]: the completion a call published
  scopes,       \* [Dials -> "none", "open", "done"]
  hop,          \* [Dials \cup Ins -> "none", "open", "closed"]: the relayed streams
  stop,         \* [Ins -> where the handler is]
  hopCount,     \* [Relays -> count]
  hopTag,       \* [Relays -> tagged]
  cctx          \* the client's context was cancelled

clientVars == <<dl, activeDial, comp, scopes, hop, stop, hopCount, hopTag, cctx>>

NoDial == "none"

ASSUME CircuitAssumption == NoDial \notin Dials /\ Dials \cap Ins = {} /\ via \in [Dials \cup Ins -> Relays]
Conns == Dials \cup Ins

CircuitInit ==
  /\ dl = [d \in Dials |-> [at |-> "idle", on |-> NoDial]] /\ activeDial = NoDial
  /\ comp = [d \in Dials |-> [closed |-> FALSE, err |-> "nil"]]
  /\ scopes = [d \in Dials |-> "none"] /\ hop = [c \in Conns |-> "none"]
  /\ stop = [i \in Ins |-> "none"]
  /\ hopCount = [r \in Relays |-> 0] /\ hopTag = [r \in Relays |-> FALSE] /\ cctx = FALSE

DialAt(d, s) == dl[d].at = s
DialGoto(d, s) == dl' = [dl EXCEPT ![d].at = s]
FailDial(d) == DialGoto(d, "failed") /\ scopes' = [scopes EXCEPT ![d] = IF @ = "open" THEN "done" ELSE @]
UNCHANGED_TAGS == UNCHANGED <<hopCount, hopTag>>

----------------------------------------------------------------------------
(* conn.go                                                                 *)

tagHop(r) ==
  /\ hopCount' = [hopCount EXCEPT ![r] = @ + 1]
  /\ hopTag' = [hopTag EXCEPT ![r] = @ \/ hopCount[r] = 0]

\* Close untags once per call: closing twice counts twice.
untagHop(r, times) ==
  /\ hopCount' = [hopCount EXCEPT ![r] = @ - times]
  /\ hopTag' = [hopTag EXCEPT ![r] = @ /\ hopCount[r] \notin 1..times]

----------------------------------------------------------------------------
(* dial.go and transport.go                                                *)

\* Dial opens the scope and sets its peer.
DialCircuit(d) ==
  /\ DialAt(d, "idle")
  /\ \/ DialGoto(d, "lookup") /\ scopes' = [scopes EXCEPT ![d] = "open"]
     \/ FailDial(d)
  /\ UNCHANGED <<activeDial, comp, hop, stop, cctx>> /\ UNCHANGED_TAGS

LookupAlone(d) ==
  /\ DialAt(d, "lookup") /\ DialGoto(d, "dialing") /\ activeDial' = d
  /\ UNCHANGED <<comp, scopes, hop, stop, cctx>> /\ UNCHANGED_TAGS

\* dial: the call joins the attempt under way or publishes its own.
Lookup(d) ==
  /\ DialAt(d, "lookup")
  /\ IF activeDial = NoDial
     THEN DialGoto(d, "dialing") /\ activeDial' = d
     ELSE dl' = [dl EXCEPT ![d] = [at |-> "join", on |-> activeDial]] /\ UNCHANGED activeDial
  /\ UNCHANGED <<comp, scopes, hop, stop, cctx>> /\ UNCHANGED_TAGS

\* The other attempt is over: retry unless it succeeded or the same relay refused; or our
\* context is done.
Join(d) ==
  /\ DialAt(d, "join")
  /\ LET o == dl[d].on IN
     \/ /\ comp[o].closed /\ comp[o].err # "nil" /\ (via[o] # via[d] \/ comp[o].err # "relay")
        /\ dl' = [dl EXCEPT ![d] = [at |-> "lookup", on |-> NoDial]] /\ UNCHANGED scopes
     \/ /\ comp[o].closed /\ (comp[o].err = "nil" \/ (via[o] = via[d] /\ comp[o].err = "relay"))
        /\ FailDial(d)
     \/ FailDial(d)
  /\ UNCHANGED <<activeDial, comp, hop, stop, cctx>> /\ UNCHANGED_TAGS

\* dialPeer and connect: no stream, a stream that fails and is reset, or a status.
dialPeer(d) ==
  /\ DialAt(d, "dialing") /\ DialGoto(d, "publish")
  /\ \/ hop' = [hop EXCEPT ![d] = "open"] /\ UNCHANGED comp
     \/ \E e \in {"other", "relay"} : /\ comp' = [comp EXCEPT ![d].err = e]
                                      /\ hop' = [hop EXCEPT ![d] = IF e = "relay" THEN "closed" ELSE @]
  /\ UNCHANGED <<activeDial, scopes, stop, cctx>> /\ UNCHANGED_TAGS

\* The completion is closed and removed; a connection is tagged.
Publish(d) ==
  /\ DialAt(d, "publish") /\ comp' = [comp EXCEPT ![d].closed = TRUE] /\ activeDial' = NoDial
  /\ IF comp[d].err = "nil"
     THEN DialGoto(d, "upgrade") /\ tagHop(via[d]) /\ UNCHANGED scopes
     ELSE FailDial(d) /\ UNCHANGED_TAGS
  /\ UNCHANGED <<hop, stop, cctx>>

\* The upgrader closes a connection it cannot upgrade; after a failed handshake it was
\* already closed by the security transport.
UpgradeDial(d) ==
  /\ DialAt(d, "upgrade")
  /\ \/ DialGoto(d, "returned") /\ UNCHANGED <<scopes, hop>> /\ UNCHANGED_TAGS
     \/ \E times \in {1, 2} : FailDial(d) /\ hop' = [hop EXCEPT ![d] = "closed"] /\ untagHop(via[d], times)
  /\ UNCHANGED <<activeDial, comp, stop, cctx>>

CloseRelayed(c) ==
  /\ IF c \in Dials THEN DialAt(c, "returned") /\ DialGoto(c, "closed") /\ scopes' = [scopes EXCEPT ![c] = "done"]
     ELSE stop[c] = "conn" /\ UNCHANGED <<dl, scopes>>
  /\ stop' = IF c \in Ins THEN [stop EXCEPT ![c] = "over"] ELSE stop
  /\ hop' = [hop EXCEPT ![c] = "closed"] /\ untagHop(via[c], 1)
  /\ UNCHANGED <<activeDial, comp, cctx>>

----------------------------------------------------------------------------
(* handlers.go and listen.go                                               *)

\* handleStreamV2 offers a connection, or answers with an error.
handleStreamV2(i) ==
  /\ stop[i] = "none" /\ ~cctx
  /\ \/ stop' = [stop EXCEPT ![i] = "offered"] /\ hop' = [hop EXCEPT ![i] = "open"]
     \/ stop' = [stop EXCEPT ![i] = "over"] /\ hop' = [hop EXCEPT ![i] = "closed"]
  /\ UNCHANGED <<dl, activeDial, comp, scopes, cctx>> /\ UNCHANGED_TAGS

AcceptTimeout(i) ==
  /\ stop[i] = "offered" /\ stop' = [stop EXCEPT ![i] = "over"] /\ hop' = [hop EXCEPT ![i] = "closed"]
  /\ UNCHANGED <<dl, activeDial, comp, scopes, cctx>> /\ UNCHANGED_TAGS

\* Accept writes the response and tags; the select may take an offer although the context has ended.
AcceptCircuit(i) ==
  /\ stop[i] = "offered"
  /\ \/ stop' = [stop EXCEPT ![i] = "upgrade"] /\ tagHop(via[i]) /\ UNCHANGED hop
     \/ stop' = [stop EXCEPT ![i] = "over"] /\ hop' = [hop EXCEPT ![i] = "closed"] /\ UNCHANGED_TAGS
  /\ UNCHANGED <<dl, activeDial, comp, scopes, cctx>>

UpgradeIn(i) ==
  /\ stop[i] = "upgrade"
  /\ \/ stop' = [stop EXCEPT ![i] = "conn"] /\ UNCHANGED hop /\ UNCHANGED_TAGS
     \/ \E times \in {1, 2} : /\ stop' = [stop EXCEPT ![i] = "over"] /\ hop' = [hop EXCEPT ![i] = "closed"]
                              /\ untagHop(via[i], times)
  /\ UNCHANGED <<dl, activeDial, comp, scopes, cctx>>

CloseClient == ~cctx /\ cctx' = TRUE /\ UNCHANGED <<dl, activeDial, comp, scopes, hop, stop>> /\ UNCHANGED_TAGS

CircuitNext ==
  \/ CloseClient
  \/ \E d \in Dials : DialCircuit(d) \/ Lookup(d) \/ Join(d) \/ dialPeer(d) \/ Publish(d) \/ UpgradeDial(d)
  \/ \E i \in Ins : handleStreamV2(i) \/ AcceptTimeout(i) \/ AcceptCircuit(i) \/ UpgradeIn(i)
  \/ \E c \in Conns : CloseRelayed(c)

CircuitSpec == CircuitInit /\ [][CircuitNext]_clientVars

----------------------------------------------------------------------------
Over(c) == IF c \in Dials THEN dl[c].at \in {"failed", "closed"} ELSE stop[c] = "over"

\* Relayed connections that are tagged: after tagHop and before Close.
Using(r) == {c \in Conns : via[c] = r /\ (IF c \in Dials THEN dl[c].at \in {"upgrade", "returned"}
                                                       ELSE stop[c] \in {"upgrade", "conn"})}

\* One attempt at a time is made for the peer, and a call that waits for another's attempt
\* waits for one that is still being made or whose end it can see, so that it never waits for
\* nothing; calls that fail leave neither a stream nor a scope; and a relay's tag does not
\* outlive the relayed connections.
RelayDialsShared ==
  /\ \A d \in Dials : dl[d].at \in {"dialing", "publish"} <=> activeDial = d
  /\ \A d \in Dials : DialAt(d, "join") => activeDial = dl[d].on \/ comp[dl[d].on].closed
  /\ \A c \in Conns : Over(c) => hop[c] # "open"
  /\ \A d \in Dials : dl[d].at \in {"failed", "closed"} => scopes[d] # "open"
  /\ \A r \in Relays : hopTag[r] => Using(r) # {}

\* conn.go says of tagHop that the relay's connection is tagged "so that it can be (somewhat)
\* protected from the connection manager": as long as a relayed connection uses it.
HopTagged == \A r \in Relays : Using(r) # {} => hopTag[r]
============================================================================
