----------------------------- MODULE HolePunch ------------------------------
(***************************************************************************)
(* Hole punching between two peers connected through a relay               *)
(* (p2p/protocol/holepunch): the service that starts a hole puncher once   *)
(* the host is private, the puncher's attempts, and the other peer's       *)
(* handler, which punches when it has read SYNC.  The initiator is the     *)
(* peer that received the relayed connection.                              *)
(***************************************************************************)
EXTENDS Naturals, Sequences, FiniteSets

CONSTANTS
  Tryers,         \* goroutines of the notifiee and callers of DirectConnect
  Notified,       \* those of the notifiee: started for a relayed connection
  maxRetries,
  MaxReachEvents  \* bound of the model: reachability events

ASSUME PunchAssumption == IsFiniteSet(Tryers) /\ Notified \subseteq Tryers /\ maxRetries \in Nat \ {0}

VARIABLES
  watch,        \* watchForPublicAddr: "addr", "sub", "made", "exited"
  handler,      \* the service's stream handler is set
  puncher,      \* "none", "open", "closing", "closed"
  svcClose,     \* Close of the service: "no", "puncher", "handler", "wait", "done"
  obsAddrs,     \* this host has observed public addresses
  events,       \* reachability events not yet read, and their number so far
  active,       \* the puncher's entry for the peer
  try,          \* [Tryers -> [at, n]]: where each is, and its retry
  direct,       \* there is a direct connection
  relayed,      \* the relayed connection is open
  str,          \* the stream of the attempt: messages each way, and whether it is reset
  them          \* the other peer's handler, its punches so far, and the SYNCs sent to it

punchVars == <<watch, handler, puncher, svcClose, obsAddrs, events, active, try, direct, relayed, str, them>>
serviceVars == <<watch, handler, puncher, svcClose, events>>

NoPunchStream == [out |-> <<>>, in |-> <<>>, open |-> FALSE]
Attempting == {"check", "dial", "open", "connect", "sync", "punch"}

PunchInit ==
  /\ watch = "addr" /\ handler = FALSE /\ puncher = "none" /\ svcClose = "no" /\ obsAddrs = FALSE
  /\ events = [queue |-> <<>>, n |-> 0] /\ active = FALSE
  /\ try = [t \in Tryers |-> [at |-> "idle", n |-> 0]]
  /\ direct = FALSE /\ relayed = TRUE /\ str = NoPunchStream /\ them = [at |-> "none", punches |-> 0, syncs |-> 0]

Cancelled == puncher \in {"closing", "closed"}

----------------------------------------------------------------------------
(* svc.go                                                                  *)

UNCHANGED_TRY == UNCHANGED <<active, try, direct, relayed, str, them>>

\* watchForPublicAddr sets the handler once there is a public address.
PublicAddrFound ==
  /\ watch = "addr" /\ obsAddrs /\ watch' = "sub" /\ handler' = TRUE
  /\ UNCHANGED <<puncher, svcClose, obsAddrs, events>> /\ UNCHANGED_TRY

\* The first private reachability makes the puncher.
ReachabilityRead ==
  /\ watch = "sub" /\ events.queue # <<>> /\ events' = [events EXCEPT !.queue = Tail(@)]
  /\ IF Head(events.queue) = "private"
     THEN /\ watch' = "made" /\ puncher' = "open"
     ELSE UNCHANGED <<watch, puncher>>
  /\ UNCHANGED <<handler, svcClose, obsAddrs>> /\ UNCHANGED_TRY

WatchExits ==
  /\ watch \in {"addr", "sub"} /\ svcClose = "wait" /\ watch' = "exited"
  /\ UNCHANGED <<handler, puncher, svcClose, obsAddrs, events>> /\ UNCHANGED_TRY

\* Close: the puncher if there is one, the handler, the context, the wait.
CloseService ==
  /\ CASE svcClose = "no" -> /\ svcClose' = "puncher" /\ UNCHANGED handler
                             /\ puncher' = IF puncher = "open" THEN "closing" ELSE puncher
       [] svcClose = "puncher" -> /\ puncher # "closing" \/ \A t \in Notified : try[t].at \in {"idle", "over"}
                                  /\ puncher' = IF puncher = "closing" THEN "closed" ELSE puncher
                                  /\ svcClose' = "handler" /\ UNCHANGED handler
       [] svcClose = "handler" -> svcClose' = "wait" /\ handler' = FALSE /\ UNCHANGED puncher
       [] svcClose = "wait" -> watch \in {"made", "exited"} /\ svcClose' = "done" /\ UNCHANGED <<handler, puncher>>
       [] OTHER -> FALSE
  /\ UNCHANGED <<watch, obsAddrs, events>> /\ UNCHANGED_TRY

----------------------------------------------------------------------------
(* holepuncher.go                                                          *)

TryAt(t, s) == try[t].at = s
TryGoto(t, s) == try' = [try EXCEPT ![t].at = s]
TryEnds(t) == try' = [try EXCEPT ![t].at = "over"] /\ active' = FALSE

\* Connected after identify, or a call of DirectConnect once the puncher exists.
StartTry(t) ==
  /\ TryAt(t, "idle") /\ puncher # "none" /\ (t \in Notified => relayed)
  /\ TryGoto(t, IF t \in Notified /\ Cancelled THEN "over" ELSE "begin")
  /\ UNCHANGED <<serviceVars, obsAddrs, active, direct, relayed, str, them>>

BeginUnchecked(t) ==
  /\ TryAt(t, "begin")
  /\ IF Cancelled THEN TryGoto(t, "over") /\ UNCHANGED active ELSE TryGoto(t, "check") /\ active' = TRUE
  /\ UNCHANGED <<serviceVars, obsAddrs, direct, relayed, str, them>>

\* beginDirectConnect
BeginDirectConnect(t) ==
  /\ TryAt(t, "begin")
  /\ IF Cancelled \/ active
     THEN TryGoto(t, "over") /\ UNCHANGED active
     ELSE TryGoto(t, "check") /\ active' = TRUE
  /\ UNCHANGED <<serviceVars, obsAddrs, direct, relayed, str, them>>

\* directConnect: nothing to do with a direct connection, a plain dial of a public address.
Check(t) ==
  /\ TryAt(t, "check")
  /\ IF direct THEN TryEnds(t)
     ELSE TryGoto(t, "dial") /\ UNCHANGED active
  /\ UNCHANGED <<serviceVars, obsAddrs, direct, relayed, str, them>>

DialDirect(t) ==
  /\ TryAt(t, "dial")
  /\ \/ TryGoto(t, "open") /\ UNCHANGED <<active, direct>>       \* no public address, or it failed
     \/ ~Cancelled /\ TryEnds(t) /\ direct' = TRUE
  /\ UNCHANGED <<serviceVars, obsAddrs, relayed, str, them>>

\* initiateHolePunch: a stream on the relayed connection and CONNECT with our addresses.
SendConnect(t) ==
  /\ TryAt(t, "open")
  /\ IF ~relayed \/ Cancelled \/ ~obsAddrs
     THEN TryEnds(t) /\ UNCHANGED <<str, them>>
     ELSE /\ TryGoto(t, "connect") /\ UNCHANGED active
          /\ str' = [NoPunchStream EXCEPT !.out = <<"CONNECT">>, !.open = TRUE]
          /\ them' = [them EXCEPT !.at = "read"]
  /\ UNCHANGED <<serviceVars, obsAddrs, direct, relayed>>

\* Its CONNECT is read and SYNC sent.
SendSync(t) ==
  /\ TryAt(t, "connect") /\ str.open /\ str.in # <<>>
  /\ IF Head(str.in) = "CONNECT"
     THEN /\ TryGoto(t, "sync") /\ UNCHANGED active
          /\ str' = [str EXCEPT !.in = <<>>, !.out = Append(@, "SYNC")]
          /\ them' = [them EXCEPT !.syncs = @ + 1]
     ELSE TryEnds(t) /\ str' = [str EXCEPT !.open = FALSE] /\ UNCHANGED them
  /\ UNCHANGED <<serviceVars, obsAddrs, direct, relayed>>

\* The stream fails or times out before SYNC is sent: the attempt is given up.
StreamFails(t) ==
  /\ TryAt(t, "connect") /\ TryEnds(t) /\ str' = [str EXCEPT !.open = FALSE]
  /\ UNCHANGED <<serviceVars, obsAddrs, direct, relayed, them>>

\* Half a round trip after SYNC, or the context is done.
PunchTimerFires(t) ==
  /\ TryAt(t, "sync")
  /\ \/ TryGoto(t, "punch") /\ UNCHANGED active
     \/ Cancelled /\ TryEnds(t)
  /\ UNCHANGED <<serviceVars, obsAddrs, direct, relayed, str, them>>

\* holePunchConnect as client; a failure is retried with a new stream.
Punch(t) ==
  /\ TryAt(t, "punch")
  /\ \/ ~Cancelled /\ TryEnds(t) /\ direct' = TRUE
     \/ /\ try[t].n + 1 < maxRetries /\ try' = [try EXCEPT ![t] = [at |-> "open", n |-> @.n + 1]]
        /\ UNCHANGED <<active, direct>>
     \/ try[t].n + 1 = maxRetries /\ TryEnds(t) /\ UNCHANGED direct
  /\ UNCHANGED <<serviceVars, obsAddrs, relayed, str, them>>

----------------------------------------------------------------------------
(* The other peer's handleNewStream.                                       *)

\* incomingHolePunch reads CONNECT and answers, another implementation perhaps not as expected; it
\* resets without addresses of its own.
TheyAnswer ==
  /\ them.at = "read" /\ str.open /\ str.out # <<>> /\ Head(str.out) = "CONNECT"
  /\ \/ \E reply \in {"CONNECT", "other"} :
          str' = [str EXCEPT !.out = Tail(@), !.in = <<reply>>] /\ them' = [them EXCEPT !.at = "sync"]
     \/ str' = [str EXCEPT !.open = FALSE] /\ them' = [them EXCEPT !.at = "none"]
  /\ UNCHANGED <<serviceVars, obsAddrs, active, try, direct, relayed>>

\* SYNC is read; they punch as server, at once.
TheyPunch ==
  /\ them.at = "sync"
  /\ \/ /\ str.open /\ str.out # <<>> /\ Head(str.out) = "SYNC"
        /\ str' = [str EXCEPT !.out = Tail(@)]
        /\ them' = [them EXCEPT !.at = "none", !.punches = @ + 1] /\ direct' \in {direct, TRUE}
     \/ them' = [them EXCEPT !.at = "none"] /\ str' = [str EXCEPT !.open = FALSE] /\ UNCHANGED direct
  /\ UNCHANGED <<serviceVars, obsAddrs, active, try, relayed>>

----------------------------------------------------------------------------
Environment ==
  /\ \/ /\ events.n < MaxReachEvents /\ watch # "addr" /\ UNCHANGED <<obsAddrs, direct, relayed, str>>
        /\ \E r \in {"public", "private"} :
             events' = [queue |-> Append(events.queue, r), n |-> events.n + 1]
     \/ obsAddrs' = ~obsAddrs /\ UNCHANGED <<events, direct, relayed, str>>
     \/ direct /\ direct' = FALSE /\ UNCHANGED <<obsAddrs, events, relayed, str>>
     \/ relayed /\ relayed' = FALSE /\ str' = [str EXCEPT !.open = FALSE] /\ UNCHANGED <<obsAddrs, events, direct>>
  /\ UNCHANGED <<watch, handler, puncher, svcClose, active, try, them>>

PunchNext ==
  \/ PublicAddrFound \/ ReachabilityRead \/ WatchExits \/ CloseService \/ TheyAnswer \/ TheyPunch \/ Environment
  \/ \E t \in Tryers :
       \/ StartTry(t) \/ BeginDirectConnect(t) \/ Check(t) \/ DialDirect(t) \/ SendConnect(t) \/ SendSync(t)
       \/ StreamFails(t) \/ PunchTimerFires(t) \/ Punch(t)

PunchSpec == PunchInit /\ [][PunchNext]_punchVars

----------------------------------------------------------------------------
\* Of all goroutines that want a direct connection one at a time attempts it, and the entry
\* for the peer is gone when none does; the other side punches only in answer to a SYNC, so
\* not more often than we sent one; and after Close of a puncher no goroutine of the notifiee
\* is still trying.
AttemptsExclusive ==
  /\ Cardinality({t \in Tryers : try[t].at \in Attempting}) = IF active THEN 1 ELSE 0
  /\ \A t \in Tryers : try[t].n < maxRetries
  /\ them.punches <= them.syncs /\ them.syncs <= Cardinality(Tryers) * maxRetries
  /\ puncher = "closed" => \A t \in Notified : try[t].at \notin Attempting
============================================================================
