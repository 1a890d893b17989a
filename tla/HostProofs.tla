----------------------------- MODULE HostProofs -----------------------------
(***************************************************************************)
(* What is proved of the basic host and of what it owns (BasicHost): the   *)
(* relay manager, streams, port mappings and addresses, each in a section  *)
(* of its own, with its inductive invariant.                               *)
(***************************************************************************)
EXTENDS BasicHost, TLAPS

----------------------------------------------------------------------------
(* The relay manager.  A relay runs exactly as long as the manager refers   *)
(* to it, until the deferred close, which leaves the reference.             *)

ManagerInv ==
  /\ mbg \in {"select", "ending", "done"} /\ relayRef \in BOOLEAN
  /\ relays = IF relayRef /\ mbg # "done" THEN 1 ELSE 0
  /\ mbg = "select" => (relayRef <=> lastRead = "public")

\* relaysvc/relay.go: whatever events are repeated and whatever fails, one relay runs while the last
\* event said public, and none after the manager has ended.
THEOREM RelayManagerFollows == ManagerSpec => []RelayWhilePublic
<1>1. ManagerInit => ManagerInv
  BY DEF ManagerInit, ManagerInv
<1>2. ManagerInv /\ [ManagerNext]_managerVars => ManagerInv'
  <2> SUFFICES ASSUME ManagerInv, [ManagerNext]_managerVars PROVE ManagerInv'
    OBVIOUS
  <2> USE DEF ManagerInv
  <2>1. ASSUME NEW r \in {"unknown", "public", "private"}, EmitReachability(r) PROVE ManagerInv'
    BY <2>1 DEF EmitReachability
  <2>2. CASE ReachabilityChanged
    <3>1. PICK fails \in BOOLEAN : IF lastRead' = "public" THEN StartRelay(fails) ELSE StopRelay(fails)
      BY <2>2 DEF ReachabilityChanged
    <3>2. mbg = "select"
      BY <2>2 DEF ReachabilityChanged
    <3>3. CASE lastRead' = "public"
      <4>1. CASE relayRef
        <5>1. relayRef' = relayRef /\ relays' = relays /\ mbg' = mbg
          BY <3>1, <3>3, <4>1 DEF StartRelay
        <5>2. QED
          BY <3>2, <3>3, <4>1, <5>1
      <4>2. CASE ~relayRef /\ fails
        <5>1. relayRef' = relayRef /\ relays' = relays /\ mbg' = "ending"
          BY <3>1, <3>3, <4>2 DEF StartRelay
        <5>2. QED
          BY <3>2, <4>2, <5>1
      <4>3. CASE ~relayRef /\ ~fails
        <5>1. relayRef' = TRUE /\ relays' = relays + 1 /\ mbg' = mbg
          BY <3>1, <3>3, <4>3 DEF StartRelay
        <5>2. QED
          BY <3>2, <3>3, <4>3, <5>1
      <4>4. QED
        BY <4>1, <4>2, <4>3
    <3>4. CASE lastRead' # "public"
      <4>1. /\ relayRef' = FALSE /\ relays' = (IF relayRef THEN relays - 1 ELSE relays)
            /\ mbg' = mbg \/ mbg' = "ending"
        BY <3>1, <3>4 DEF StopRelay
      <4>2. relays' = 0
        BY <3>2, <4>1
      <4>3. QED
        BY <3>2, <3>4, <4>1, <4>2
    <3>5. QED
      BY <3>3, <3>4
  <2>3. CASE ManagerCtxDone
    BY <2>3 DEF ManagerCtxDone
  <2>4. CASE ManagerEnds
    BY <2>4 DEF ManagerEnds
  <2>5. CASE CloseManager
    BY <2>5 DEF CloseManager
  <2>6. CASE UNCHANGED managerVars
    BY <2>6 DEF managerVars
  <2>7. QED
    BY <2>1, <2>2, <2>3, <2>4, <2>5, <2>6 DEF ManagerNext
<1>3. ManagerInv => RelayWhilePublic
  BY DEF ManagerInv, RelayWhilePublic
<1>4. QED
  BY <1>1, <1>2, <1>3, PTL DEF ManagerSpec

----------------------------------------------------------------------------
(* Streams.  An open stream belongs to the present connection, which is     *)
(* never connection 0; before the stream is opened there is none to leave   *)
(* behind; from the choice of the protocol on, identify of the stream's     *)
(* connection is over.                                                      *)

CallType == [at : {"idle", "dial", "waitDial", "open", "waitId", "prefer", "negotiate", "returned", "failed"},
             on : Nat, st : {"none", "open", "reset"}, proto : Protos \cup {"none"}, want : SUBSET Protos,
             attached : BOOLEAN]
IncType == [at : {"none", "negotiate", "protocol", "handled", "gone"}, on : Nat, st : {"none", "open", "reset"},
            proto : Protos \cup {"none"}, attached : BOOLEAN]

StreamsType ==
  /\ link \in Nat /\ links \in Nat
  /\ knownProtos \subseteq Protos /\ theirProtos \subseteq Protos /\ mux \subseteq Protos
  /\ ns \in [Calls -> CallType] /\ inc \in [Incoming -> IncType]

CallInv(c) ==
  /\ ns[c].at \in {"idle", "dial", "waitDial", "open"} => ns[c].st = "none"
  /\ ns[c].at = "failed" => ns[c].st # "open"
  /\ ns[c].at \in {"prefer", "negotiate", "returned"} => ns[c].on \in identified
  /\ ns[c].at = "returned" => ns[c].proto \in ns[c].want
  /\ ns[c].st = "open" => link # 0 /\ ns[c].on = link

IncInv(i) ==
  /\ inc[i].at = "handled" => inc[i].attached
  /\ inc[i].at \in {"protocol", "handled"} => inc[i].proto \in Protos
  /\ inc[i].at = "gone" => inc[i].st = "reset"
  /\ inc[i].st = "open" => link # 0 /\ inc[i].on = link

StreamsInv == StreamsType /\ (\A c \in Calls : CallInv(c)) /\ \A i \in Incoming : IncInv(i)

\* A step that changes one call only.
LEMMA CallStep ==
  ASSUME StreamsInv, NEW c \in Calls, NEW r \in CallType, ns' = [ns EXCEPT ![c] = r],
         UNCHANGED <<link, links, identified, theirProtos, mux, inc>>, knownProtos' \subseteq Protos,
         CallInv(c)'
  PROVE  StreamsInv'
<1>1. StreamsType'
  BY DEF StreamsInv, StreamsType
<1>2. ASSUME NEW d \in Calls PROVE CallInv(d)'
  BY <1>2 DEF StreamsInv, StreamsType, CallInv
<1>3. ASSUME NEW i \in Incoming PROVE IncInv(i)'
  BY <1>3 DEF StreamsInv, IncInv
<1>4. QED
  BY <1>1, <1>2, <1>3 DEF StreamsInv

\* A step that changes one incoming stream only.
LEMMA IncStep ==
  ASSUME StreamsInv, NEW i \in Incoming, NEW r \in IncType, inc' = [inc EXCEPT ![i] = r],
         UNCHANGED <<link, links, identified, knownProtos, theirProtos, mux, ns>>, IncInv(i)'
  PROVE  StreamsInv'
<1>1. StreamsType'
  BY DEF StreamsInv, StreamsType
<1>2. ASSUME NEW c \in Calls PROVE CallInv(c)'
  BY <1>2 DEF StreamsInv, CallInv
<1>3. ASSUME NEW j \in Incoming PROVE IncInv(j)'
  BY <1>3 DEF StreamsInv, StreamsType, IncInv
<1>4. QED
  BY <1>1, <1>2, <1>3 DEF StreamsInv

\* The steps of NewStream.
LEMMA CallSteps ==
  ASSUME StreamsInv, NEW c \in Calls,
         \/ DialPeer(c) \/ WaitDial(c) \/ OpenStream(c) \/ WaitId(c) \/ Prefer(c) \/ Negotiate(c)
         \/ \E want \in (SUBSET Protos) \ {{}}, nodial \in BOOLEAN : NewStream(c, want, nodial)
  PROVE  StreamsInv'
<1> DEFINE n == ns[c]
           Env == UNCHANGED <<link, links, identified, theirProtos, mux, inc>>
<1>n. n \in CallType /\ CallInv(c) /\ StreamsType /\ n = ns[c]
  BY DEF StreamsInv, StreamsType
<1>f. ASSUME FailWith(c), Env, knownProtos' \subseteq Protos PROVE StreamsInv'
  <2> DEFINE r == [n EXCEPT !.at = "failed", !.st = IF @ = "open" THEN "reset" ELSE @]
  <2>1. ns' = [ns EXCEPT ![c] = r]
    BY <1>f DEF FailWith
  <2>2. r \in CallType /\ r.at = "failed" /\ r.st # "open"
    BY <1>n DEF CallType
  <2>3. CallInv(c)'
    BY <1>n, <2>1, <2>2 DEF CallInv, StreamsType
  <2>4. QED
    BY <1>f, <2>1, <2>2, <2>3, CallStep
<1>s. ASSUME NEW p \in n.want, NEW ok \in BOOLEAN, n.on \in identified, At(c, "prefer") \/ At(c, "negotiate"),
             ns' = [ns EXCEPT ![c].at = "returned", ![c].proto = p, ![c].attached = ok],
             Env, knownProtos' \subseteq Protos
      PROVE  StreamsInv'
  <2> DEFINE r == [n EXCEPT !.at = "returned", !.proto = p, !.attached = ok]
  <2>1. ns' = [ns EXCEPT ![c] = r]
    BY <1>s
  <2>2. r \in CallType /\ r.at = "returned" /\ r.proto \in r.want /\ r.on = n.on /\ r.st = n.st
    BY <1>n, <1>s DEF CallType
  <2>3. CallInv(c)'
    BY <1>n, <1>s, <2>1, <2>2 DEF CallInv, StreamsType
  <2>4. QED
    BY <1>s, <2>1, <2>2, <2>3, CallStep
<1>g. ASSUME NEW s \in {"open", "prefer", "negotiate"}, Goto(c, s), Env, knownProtos' = knownProtos,
             s = "open" => n.st = "none",
             s # "open" => n.on \in identified
      PROVE  StreamsInv'
  <2> DEFINE r == [n EXCEPT !.at = s]
  <2>1. ns' = [ns EXCEPT ![c] = r]
    BY <1>g DEF Goto
  <2>2. r \in CallType /\ r.at = s /\ r.on = n.on /\ r.st = n.st
    BY <1>n DEF CallType
  <2>3. CallInv(c)'
    BY <1>n, <1>g, <2>1, <2>2 DEF CallInv, StreamsType
  <2>4. knownProtos' \subseteq Protos
    BY <1>g DEF StreamsInv, StreamsType
  <2>5. QED
    BY <1>g, <2>1, <2>2, <2>3, <2>4, CallStep
<1>k. knownProtos \subseteq Protos
  BY <1>n DEF StreamsType
<1>1. ASSUME NEW want \in (SUBSET Protos) \ {{}}, NEW nodial \in BOOLEAN, NewStream(c, want, nodial)
      PROVE  StreamsInv'
  <2> DEFINE s == IF NeedsDial(nodial) THEN "dial" ELSE "open"
             r == [n EXCEPT !.want = want, !.at = s]
  <2>1. ns' = [ns EXCEPT ![c] = r] /\ n.at = "idle"
    BY <1>1 DEF NewStream, At
  <2>2. r \in CallType /\ r.at \in {"dial", "open"} /\ r.st = n.st
    BY <1>n DEF CallType
  <2>3. CallInv(c)'
    BY <1>n, <2>1, <2>2 DEF CallInv, StreamsType
  <2>4. QED
    BY <1>1, <1>k, <2>1, <2>2, <2>3, CallStep DEF NewStream, UNCHANGED_ENV
<1>2. CASE DialPeer(c)
  <2> USE <1>2 DEF DialPeer, At
  <2>1. CASE link # 0 /\ ns' = [ns EXCEPT ![c].at = "waitDial", ![c].on = link] /\ UNCHANGED <<link, links>>
    <3> DEFINE r == [n EXCEPT !.at = "waitDial", !.on = link]
    <3>1. ns' = [ns EXCEPT ![c] = r] /\ n.st = "none"
      BY <1>n, <2>1 DEF CallInv
    <3>2. r \in CallType /\ r.at = "waitDial" /\ r.st = "none"
      BY <1>n, <3>1 DEF CallType, StreamsType
    <3>3. CallInv(c)'
      BY <1>n, <3>1, <3>2 DEF CallInv, StreamsType
    <3>4. QED
      BY <1>k, <2>1, <3>1, <3>2, <3>3, CallStep
  <2>2. CASE /\ link = 0 /\ links < MaxConns /\ link' = links + 1 /\ links' = links + 1
             /\ ns' = [ns EXCEPT ![c].at = "waitDial", ![c].on = links + 1]
    <3> DEFINE r == [n EXCEPT !.at = "waitDial", !.on = links + 1]
    <3>1. ns' = [ns EXCEPT ![c] = r] /\ n.st = "none"
      BY <1>n, <2>2 DEF CallInv
    <3>2. r \in CallType /\ r.at = "waitDial" /\ r.st = "none"
      BY <1>n, <3>1 DEF CallType, StreamsType
    <3>3. StreamsType'
      BY <1>n, <2>2, <3>1, <3>2 DEF StreamsType
    <3>4. ASSUME NEW d \in Calls PROVE CallInv(d)'
      BY <1>n, <2>2, <3>1, <3>2 DEF CallInv, StreamsType, StreamsInv
    <3>5. ASSUME NEW i \in Incoming PROVE IncInv(i)'
      BY <2>2 DEF IncInv, StreamsInv
    <3>6. QED
      BY <3>3, <3>4, <3>5 DEF StreamsInv
  <2>3. CASE FailWith(c) /\ UNCHANGED <<link, links>>
    BY <1>f, <1>k, <2>3
  <2>4. QED
    BY <2>1, <2>2, <2>3
<1>3. CASE WaitDial(c)
  <2>1. n.st = "none" /\ (Goto(c, "open") \/ FailWith(c))
    BY <1>n, <1>3 DEF WaitDial, CallInv, At
  <2>2. QED
    BY <1>3, <1>f, <1>g, <1>k, <2>1 DEF WaitDial, UNCHANGED_ENV
<1>4. CASE OpenStream(c)
  <2>1. CASE link # 0 /\ ns' = [ns EXCEPT ![c].at = "waitId", ![c].on = link, ![c].st = "open"]
    <3> DEFINE r == [n EXCEPT !.at = "waitId", !.on = link, !.st = "open"]
    <3>1. ns' = [ns EXCEPT ![c] = r]
      BY <2>1
    <3>2. r \in CallType /\ r.at = "waitId" /\ r.st = "open" /\ r.on = link
      BY <1>n DEF CallType, StreamsType
    <3>3. CallInv(c)'
      BY <1>n, <1>4, <2>1, <3>1, <3>2 DEF CallInv, StreamsType, OpenStream, UNCHANGED_ENV
    <3>4. QED
      BY <1>4, <1>k, <3>1, <3>2, <3>3, CallStep DEF OpenStream, UNCHANGED_ENV
  <2>2. CASE FailWith(c)
    BY <1>4, <1>f, <1>k, <2>2 DEF OpenStream, UNCHANGED_ENV
  <2>3. QED
    BY <1>4, <2>1, <2>2 DEF OpenStream
<1>5. CASE WaitId(c)
  BY <1>5, <1>f, <1>g, <1>k DEF WaitId, UNCHANGED_ENV
<1>6. CASE Prefer(c)
  <2>1. n.on \in identified
    BY <1>6, <1>n DEF Prefer, At, CallInv
  <2>2. CASE Goto(c, "negotiate")
    BY <1>6, <1>g, <2>1, <2>2 DEF Prefer, UNCHANGED_ENV
  <2>f. CASE FailWith(c)
    BY <1>6, <1>f, <1>k, <2>f DEF Prefer, UNCHANGED_ENV
  <2>3. CASE \E p \in n.want \cap knownProtos, ok \in BOOLEAN :
               ns' = [ns EXCEPT ![c].at = "returned", ![c].proto = p, ![c].attached = ok]
    BY <1>6, <1>s, <1>k, <2>1, <2>3 DEF Prefer, UNCHANGED_ENV
  <2>4. QED
    BY <1>6, <2>2, <2>f, <2>3 DEF Prefer
<1>7. CASE Negotiate(c)
  <2>1. n.on \in identified
    BY <1>7, <1>n DEF Negotiate, At, CallInv
  <2>2. CASE FailWith(c) /\ UNCHANGED knownProtos
    BY <1>7, <1>f, <1>k, <2>2 DEF Negotiate
  <2>3. CASE \E p \in n.want \cap theirProtos, ok \in BOOLEAN :
               /\ ns' = [ns EXCEPT ![c].at = "returned", ![c].proto = p, ![c].attached = ok]
               /\ knownProtos' = knownProtos \cup {p}
    <3>1. PICK p \in n.want \cap theirProtos, ok \in BOOLEAN :
               /\ ns' = [ns EXCEPT ![c].at = "returned", ![c].proto = p, ![c].attached = ok]
               /\ knownProtos' = knownProtos \cup {p}
      BY <2>3
    <3>2. knownProtos' \subseteq Protos
      BY <1>n, <3>1 DEF StreamsType
    <3>3. QED
      BY <1>7, <1>s, <2>1, <3>1, <3>2 DEF Negotiate
  <2>4. QED
    BY <1>7, <2>2, <2>3 DEF Negotiate
<1>8. QED
  BY <1>1, <1>2, <1>3, <1>4, <1>5, <1>6, <1>7

\* The handler of incoming streams.
LEMMA IncSteps ==
  ASSUME StreamsInv, NEW i \in Incoming, StreamIn(i) \/ NegotiateIn(i) \/ HandleIn(i)
  PROVE  StreamsInv'
<1>n. inc[i] \in IncType /\ IncInv(i) /\ StreamsType
  BY DEF StreamsInv, StreamsType
<1>1. CASE StreamIn(i)
  <2> DEFINE r == [NoInc EXCEPT !.at = "negotiate", !.on = link, !.st = "open"]
  <2>1. inc' = [inc EXCEPT ![i] = r] /\ link # 0
    BY <1>1 DEF StreamIn
  <2>2. r \in IncType /\ r.at = "negotiate" /\ r.st = "open" /\ r.on = link
    BY <1>n DEF IncType, NoInc, StreamsType
  <2>3. IncInv(i)'
    BY <1>n, <1>1, <2>1, <2>2 DEF IncInv, StreamsType, StreamIn
  <2>4. QED
    BY <1>1, <2>1, <2>2, <2>3, IncStep DEF StreamIn
<1>g. ASSUME inc' = [inc EXCEPT ![i].at = "gone", ![i].st = "reset"],
             UNCHANGED <<link, links, identified, knownProtos, theirProtos, mux, ns>>
      PROVE  StreamsInv'
  <2> DEFINE r == [inc[i] EXCEPT !.at = "gone", !.st = "reset"]
  <2>1. inc' = [inc EXCEPT ![i] = r]
    BY <1>g
  <2>2. r \in IncType /\ r.at = "gone" /\ r.st = "reset"
    BY <1>n DEF IncType
  <2>3. IncInv(i)'
    BY <1>n, <2>1, <2>2 DEF IncInv, StreamsType
  <2>4. QED
    BY <1>g, <2>1, <2>2, <2>3, IncStep
<1>2. CASE NegotiateIn(i)
  <2>1. ASSUME NEW p \in mux, inc' = [inc EXCEPT ![i].at = "protocol", ![i].proto = p] PROVE StreamsInv'
    <3> DEFINE r == [inc[i] EXCEPT !.at = "protocol", !.proto = p]
    <3>1. inc' = [inc EXCEPT ![i] = r] /\ p \in Protos
      BY <1>n, <2>1 DEF StreamsType
    <3>2. r \in IncType /\ r.at = "protocol" /\ r.proto = p /\ r.st = inc[i].st /\ r.on = inc[i].on
      BY <1>n, <3>1 DEF IncType
    <3>3. IncInv(i)'
      BY <1>n, <1>2, <3>1, <3>2 DEF IncInv, StreamsType, NegotiateIn
    <3>4. QED
      BY <1>2, <3>1, <3>2, <3>3, IncStep DEF NegotiateIn
  <2>2. QED
    BY <1>2, <1>g, <2>1 DEF NegotiateIn
<1>3. CASE HandleIn(i)
  <2>1. CASE inc' = [inc EXCEPT ![i].at = "handled", ![i].attached = TRUE]
    <3> DEFINE r == [inc[i] EXCEPT !.at = "handled", !.attached = TRUE]
    <3>1. inc' = [inc EXCEPT ![i] = r] /\ inc[i].at = "protocol"
      BY <1>3, <2>1 DEF HandleIn
    <3>2. r \in IncType /\ r.at = "handled" /\ r.attached /\ r.proto = inc[i].proto /\ r.st = inc[i].st /\ r.on = inc[i].on
      BY <1>n DEF IncType
    <3>3. IncInv(i)'
      BY <1>n, <1>3, <3>1, <3>2 DEF IncInv, StreamsType, HandleIn
    <3>4. QED
      BY <1>3, <3>1, <3>2, <3>3, IncStep DEF HandleIn
  <2>2. QED
    BY <1>3, <1>g, <2>1 DEF HandleIn
<1>4. QED
  BY <1>1, <1>2, <1>3

\* The connection is lost: its streams are reset.
LEMMA DisconnectStep ==
  ASSUME StreamsInv, Disconnect PROVE StreamsInv'
<1> USE DEF Disconnect
<1>1. ASSUME NEW c \in Calls
      PROVE  /\ ns'[c] \in CallType /\ ns'[c].at = ns[c].at /\ ns'[c].on = ns[c].on /\ ns'[c].proto = ns[c].proto
             /\ ns'[c].want = ns[c].want /\ ns'[c].st # "open"
             /\ ns[c].st = "none" => ns'[c].st = "none"
  <2>1. ns[c] \in CallType /\ CallInv(c)
    BY <1>1 DEF StreamsInv, StreamsType
  <2>2. CASE ns[c].st = "open" /\ ns[c].on = link
    <3>1. ns'[c] = [ns[c] EXCEPT !.st = "reset"]
      BY <2>2
    <3>2. QED
      BY <2>1, <2>2, <3>1 DEF CallType
  <2>3. CASE ~(ns[c].st = "open" /\ ns[c].on = link)
    BY <2>1, <2>3 DEF CallInv
  <2>4. QED
    BY <2>2, <2>3
<1>2. ASSUME NEW i \in Incoming
      PROVE  /\ inc'[i] \in IncType /\ inc'[i].at = inc[i].at /\ inc'[i].proto = inc[i].proto
             /\ inc'[i].attached = inc[i].attached /\ inc'[i].st # "open"
             /\ inc[i].st = "reset" => inc'[i].st = "reset"
  <2>1. inc[i] \in IncType
    BY <1>2 DEF StreamsInv, StreamsType
  <2>2. CASE inc[i].st = "open"
    <3>1. inc'[i] = [inc[i] EXCEPT !.st = "reset"]
      BY <2>2
    <3>2. QED
      BY <2>1, <2>2, <3>1 DEF IncType
  <2>3. CASE inc[i].st # "open"
    BY <2>1, <2>3
  <2>4. QED
    BY <2>2, <2>3
<1>3. StreamsType'
  <2>1. ns' \in [Calls -> CallType]
    BY <1>1
  <2>2. inc' \in [Incoming -> IncType]
    BY <1>2
  <2>3. QED
    BY <2>1, <2>2 DEF StreamsInv, StreamsType
<1>4. ASSUME NEW c \in Calls PROVE CallInv(c)'
  BY <1>1 DEF StreamsInv, CallInv
<1>5. ASSUME NEW i \in Incoming PROVE IncInv(i)'
  BY <1>2 DEF StreamsInv, IncInv
<1>6. QED
  BY <1>3, <1>4, <1>5 DEF StreamsInv

\* basic_host.go (NewStream, newStreamHandler): however calls give up, connections end and identify is
\* late, a failed call leaves no open stream, a returned one has a protocol it asked for on a
\* connection that was identified, and incoming streams are reset or handled with their protocol.
THEOREM HostStreamsAccounted == StreamsSpec => []StreamsAccounted
<1>1. StreamsInit => StreamsInv
  BY DEF StreamsInit, StreamsInv, StreamsType, CallInv, IncInv, CallType, IncType, NoCall, NoInc
<1>2. StreamsInv /\ [StreamsNext]_streamVars => StreamsInv'
  <2> SUFFICES ASSUME StreamsInv, [StreamsNext]_streamVars PROVE StreamsInv'
    OBVIOUS
  <2>1. ASSUME NEW c \in Calls,
               \/ DialPeer(c) \/ WaitDial(c) \/ OpenStream(c) \/ WaitId(c) \/ Prefer(c) \/ Negotiate(c)
               \/ \E want \in (SUBSET Protos) \ {{}}, nodial \in BOOLEAN : NewStream(c, want, nodial)
        PROVE  StreamsInv'
    BY <2>1, CallSteps
  <2>2. ASSUME NEW i \in Incoming, StreamIn(i) \/ NegotiateIn(i) \/ HandleIn(i) PROVE StreamsInv'
    BY <2>2, IncSteps
  <2>3. ASSUME NEW p \in Protos, SetHandlers(p) \/ TheyChange(p) PROVE StreamsInv'
    BY <2>3 DEF SetHandlers, TheyChange, StreamsInv, StreamsType, CallInv, IncInv
  <2>4. ASSUME NEW l \in 1..links, IdentifyDone(l) PROVE StreamsInv'
    BY <2>4 DEF IdentifyDone, StreamsInv, StreamsType, CallInv, IncInv
  <2>5. CASE Disconnect
    BY <2>5, DisconnectStep
  <2>6. CASE UNCHANGED streamVars
    BY <2>6 DEF streamVars, StreamsInv, StreamsType, CallInv, IncInv
  <2>7. QED
    BY <2>1, <2>2, <2>3, <2>4, <2>5, <2>6 DEF StreamsNext
<1>3. StreamsInv => StreamsAccounted
  BY DEF StreamsInv, StreamsType, StreamsAccounted, CallInv, IncInv, CallType, At
<1>4. QED
  BY <1>1, <1>2, <1>3, PTL DEF StreamsSpec

----------------------------------------------------------------------------
(* Port mappings.  Work is under way only while the manager waits for it;   *)
(* what the gateway maps is still renewed by some mapping, also one that    *)
(* was closed; and as long as no change of the listeners is under way, a    *)
(* known mapping is for a port listened on or about to be removed, and such *)
(* a port has a mapping or is about to get one.                             *)

MapType == [port : Ports \cup {"none"}, known : BOOLEAN, refresh : {"none", "run", "done"}, ext : BOOLEAN]
WorkType == [op : {"new", "establish", "remove", "delete"}, m : Maps \cup {0}, port : Ports \cup {"none"}]

NatType ==
  /\ listening \subseteq Ports /\ notices \in Nat
  /\ nbg \in {"discover", "notify", "sync", "wait", "select", "closing", "done"}
  /\ notified \in BOOLEAN /\ syncFlag \in BOOLEAN /\ natClosed \in BOOLEAN
  /\ mp \in [Maps -> MapType] /\ natWork \subseteq WorkType

NatStage ==
  /\ nbg \in {"sync", "wait", "select"} => notified
  /\ natClosed => nbg \in {"closing", "done"}
  /\ natWork # {} => nbg = "wait"
  /\ nbg \in {"discover", "notify", "done"} => \A m \in Maps : mp[m].refresh # "run"
  /\ \A m \in Maps : mp[m].known => mp[m].refresh = "run"

WorkInv ==
  \A w \in natWork :
    /\ w.op = "new" => w.m = 0 /\ \A m \in Maps : mp[m].known => mp[m].port # w.port
    /\ w.op = "establish" => w.m \in Maps /\ mp[w.m].refresh = "run"
    /\ w.op = "remove" => w.m \in Maps /\ mp[w.m].port = w.port /\ mp[w.m].refresh = "run"

Renewed == \A p \in device : \E m \in Maps : mp[m].port = p /\ mp[m].refresh = "run"

OneEach == \A m, k \in Maps : m # k /\ mp[m].known /\ mp[k].known => mp[m].port # mp[k].port

Settled == nbg \in {"wait", "select"} /\ ~syncFlag /\ notices = 0

Following ==
  Settled =>
    /\ \A m \in Maps : mp[m].known => mp[m].port \in listening \/ \E w \in natWork : w.op = "remove" /\ w.m = m
    /\ \A p \in listening : \/ \E m \in Maps : mp[m].known /\ mp[m].port = p
                           \/ \E w \in natWork : w.op = "new" /\ w.port = p
    /\ \A w \in natWork : (w.op = "new" => w.port \in listening) /\ (w.op = "remove" => w.port \notin listening)

NatInv == NatType /\ NatStage /\ WorkInv /\ Renewed /\ OneEach /\ Following

\* The manager's own steps, and the swarm's.
LEMMA ManagerSteps ==
  ASSUME NatInv,
         \/ Notification \/ DiscoverNAT \/ Notify \/ SyncDone \/ Select \/ NatClosed \/ CloseNat
         \/ \E p \in Ports : ListenChange(p)
  PROVE  NatInv'
<1> USE DEF NatInv, NatType, NatStage, WorkInv, Renewed, OneEach, Following, Settled, UNCHANGED_NAT, UNCHANGED_NET
<1>1. CASE Notification
  BY <1>1 DEF Notification
<1>2. CASE DiscoverNAT
  BY <1>2 DEF DiscoverNAT
<1>3. CASE Notify
  BY <1>3 DEF Notify
<1>4. CASE SyncDone
  BY <1>4 DEF SyncDone
<1>5. CASE Select
  <2>1. CASE syncFlag /\ syncFlag' = FALSE /\ nbg' = "sync" /\ UNCHANGED <<notified, natClosed>>
    <3>1. UNCHANGED <<listening, notices, mp, natWork, device>> /\ natWork = {} /\ notified /\ ~natClosed
      BY <1>5 DEF Select
    <3>2. NatType'
      BY <2>1, <3>1
    <3>3. NatStage'
      BY <2>1, <3>1
    <3>4. WorkInv' /\ Renewed' /\ OneEach'
      BY <3>1
    <3>5. Following'
      BY <2>1
    <3>6. QED
      BY <3>2, <3>3, <3>4, <3>5
  <2>2. CASE nctx /\ nbg' = "closing" /\ natClosed' = TRUE /\ notified' = FALSE /\ UNCHANGED syncFlag
    BY <1>5, <2>2 DEF Select
  <2>3. QED
    BY <1>5, <2>1, <2>2 DEF Select
<1>6. CASE NatClosed
  BY <1>6 DEF NatClosed
<1>7. CASE CloseNat
  BY <1>7 DEF CloseNat
<1>8. ASSUME NEW p \in Ports, ListenChange(p) PROVE NatInv'
  BY <1>8 DEF ListenChange
<1>9. QED
  BY <1>1, <1>2, <1>3, <1>4, <1>5, <1>6, <1>7, <1>8

\* doSync, which finds no work under way.
LEMMA SyncStep == ASSUME NatInv, doSync PROVE NatInv'
<1> DEFINE known == {m \in Maps : mp[m].known}
           removals == {[op |-> "remove", m |-> m, port |-> mp[m].port] : m \in {k \in known : mp[k].port \notin listening}}
           news == {[op |-> "new", m |-> 0, port |-> p] : p \in listening \ {mp[m].port : m \in known}}
<1>1. /\ nbg = "sync" /\ nbg' = "wait" /\ natWork' = removals \cup news
      /\ UNCHANGED <<listening, notices, notified, syncFlag, natClosed, mp, device>>
  BY DEF doSync, UNCHANGED_NET
<1>2. NatType /\ NatStage /\ Renewed /\ OneEach
  BY DEF NatInv
<1>3. ASSUME NEW w \in natWork'
      PROVE  /\ w \in WorkType
             /\ \/ /\ w.op = "remove" /\ w.m \in Maps /\ mp[w.m].known /\ w.port = mp[w.m].port
                   /\ w.port \notin listening
                \/ /\ w.op = "new" /\ w.m = 0 /\ w.port \in listening
                   /\ \A m \in Maps : mp[m].known => mp[m].port # w.port
  <2>1. CASE w \in removals
    <3>1. PICK m \in {k \in known : mp[k].port \notin listening} : w = [op |-> "remove", m |-> m, port |-> mp[m].port]
      BY <2>1
    <3>2. QED
      BY <1>2, <3>1 DEF NatType, WorkType, MapType
  <2>2. CASE w \in news
    <3>1. PICK p \in listening \ {mp[m].port : m \in known} : w = [op |-> "new", m |-> 0, port |-> p]
      BY <2>2
    <3>2. QED
      BY <1>2, <3>1 DEF NatType, WorkType
  <2>3. QED
    BY <1>1, <1>3, <2>1, <2>2
<1>4. NatType'
  BY <1>1, <1>2, <1>3 DEF NatType
<1>5. NatStage' /\ Renewed' /\ OneEach'
  BY <1>1, <1>2 DEF NatStage, Renewed, OneEach
<1>6. WorkInv'
  BY <1>1, <1>2, <1>3 DEF WorkInv, NatStage
<1>7. ASSUME NEW m \in Maps, mp[m].known, mp[m].port \notin listening
      PROVE  \E w \in natWork' : w.op = "remove" /\ w.m = m
  <2>1. [op |-> "remove", m |-> m, port |-> mp[m].port] \in natWork'
    BY <1>1, <1>7
  <2>2. QED
    BY <2>1
<1>8. ASSUME NEW p \in listening, ~\E m \in Maps : mp[m].known /\ mp[m].port = p
      PROVE  \E w \in natWork' : w.op = "new" /\ w.port = p
  <2>1. [op |-> "new", m |-> 0, port |-> p] \in natWork'
    BY <1>1, <1>8
  <2>2. QED
    BY <2>1
<1>9. Following'
  BY <1>1, <1>3, <1>7, <1>8 DEF Following
<1>10. QED
  BY <1>4, <1>5, <1>6, <1>9 DEF NatInv

\* The gateway maps a port for a mapping that is renewed, or does not.
LEMMA EstablishStep ==
  ASSUME NatInv, NEW m \in Maps, mp[m].refresh = "run", EstablishMapping(m), natWork' \subseteq natWork,
         natWork' # natWork => \E w \in natWork : w.op = "establish" /\ natWork' = natWork \ {w}, UNCHANGED_MGR
  PROVE  NatInv'
<1>1. PICK ok \in BOOLEAN : /\ mp' = [mp EXCEPT ![m].ext = ok]
                            /\ device' = IF ok THEN device \cup {mp[m].port} ELSE device
  BY DEF EstablishMapping
<1>2. ASSUME NEW k \in Maps
      PROVE  /\ mp'[k] \in MapType /\ mp'[k].port = mp[k].port /\ mp'[k].known = mp[k].known
             /\ mp'[k].refresh = mp[k].refresh
  <2>1. mp[k] \in MapType /\ mp[m] \in MapType
    BY DEF NatInv, NatType
  <2>2. mp'[k] = IF k = m THEN [mp[m] EXCEPT !.ext = ok] ELSE mp[k]
    BY <1>1 DEF NatInv, NatType
  <2>3. QED
    BY <2>1, <2>2 DEF MapType
<1>3. UNCHANGED <<listening, notices, nbg, notified, syncFlag, natClosed>>
  BY DEF UNCHANGED_MGR, UNCHANGED_NET
<1>4. mp' \in [Maps -> MapType]
  BY <1>1, <1>2 DEF NatInv, NatType
<1>5. NatType'
  BY <1>3, <1>4 DEF NatInv, NatType
<1>6. NatStage' /\ WorkInv' /\ OneEach'
  BY <1>2, <1>3 DEF NatInv, NatStage, WorkInv, OneEach
<1>7. Renewed'
  BY <1>1, <1>2 DEF NatInv, Renewed
<1>8. ASSUME NEW w \in natWork, w.op # "establish" PROVE w \in natWork'
  BY <1>8
<1>9. Following'
  BY <1>2, <1>3, <1>8 DEF NatInv, Following, Settled
<1>10. QED
  BY <1>5, <1>6, <1>7, <1>9 DEF NatInv

\* The goroutines of doSync, and refreshMappings.
LEMMA MappingSteps ==
  ASSUME NatInv,
         \/ \E w \in natWork : \/ FirstEstablish(w) \/ RemoveMapping(w) \/ DeletePortMapping(w)
                              \/ \E m \in Maps : NewMapping(w, m)
         \/ \E m \in Maps : Refresh(m) \/ RefreshEnds(m)
  PROVE  NatInv'
<1>t. NatType /\ NatStage /\ WorkInv /\ Renewed /\ OneEach /\ Following
  BY DEF NatInv
<1>1. ASSUME NEW w \in natWork, FirstEstablish(w) PROVE NatInv'
  <2>1. w.op = "establish" /\ EstablishMapping(w.m) /\ natWork' = natWork \ {w} /\ UNCHANGED_MGR
    BY <1>1 DEF FirstEstablish
  <2>2. w.m \in Maps /\ mp[w.m].refresh = "run"
    BY <1>t, <2>1 DEF WorkInv
  <2>3. QED
    BY <2>1, <2>2, EstablishStep
<1>2. ASSUME NEW m \in Maps, Refresh(m) PROVE NatInv'
  BY <1>2, EstablishStep DEF Refresh
<1>3. ASSUME NEW w \in natWork, DeletePortMapping(w) PROVE NatInv'
  <2>1. /\ w.op = "delete" /\ device' = device \ {w.port} /\ natWork' = natWork \ {w}
        /\ UNCHANGED <<listening, notices, nbg, notified, syncFlag, natClosed, mp>>
    BY <1>3 DEF DeletePortMapping, UNCHANGED_MGR, UNCHANGED_NET
  <2>2. ASSUME NEW v \in natWork, v.op # "delete" PROVE v \in natWork'
    BY <2>1, <2>2
  <2>3. NatType' /\ NatStage' /\ WorkInv' /\ Renewed' /\ OneEach'
    BY <1>t, <2>1 DEF NatType, NatStage, WorkInv, Renewed, OneEach
  <2>4. Following'
    BY <1>t, <2>1, <2>2 DEF Following, Settled
  <2>5. QED
    BY <2>3, <2>4 DEF NatInv
<1>4. ASSUME NEW m \in Maps, RefreshEnds(m) PROVE NatInv'
  <2>1. /\ mp[m].refresh = "run" /\ natClosed
        /\ mp' = [mp EXCEPT ![m].refresh = "done", ![m].known = FALSE] /\ device' = device \ {mp[m].port}
        /\ UNCHANGED <<listening, notices, nbg, notified, syncFlag, natClosed, natWork>>
    BY <1>4 DEF RefreshEnds, UNCHANGED_MGR, UNCHANGED_NET
  <2>2. nbg \in {"closing", "done"} /\ natWork = {}
    BY <1>t, <2>1 DEF NatStage
  <2>3. ASSUME NEW k \in Maps
        PROVE  /\ mp'[k] \in MapType /\ mp'[k].port = mp[k].port
               /\ mp'[k].known => k # m /\ mp[k].known
               /\ mp'[k].refresh = "run" <=> k # m /\ mp[k].refresh = "run"
    <3>1. mp[k] \in MapType /\ mp[m] \in MapType
      BY <1>t DEF NatType
    <3>2. CASE k = m
      <4>1. mp'[k] = [mp[m] EXCEPT !.refresh = "done", !.known = FALSE]
        BY <1>t, <2>1, <3>2 DEF NatType
      <4>2. mp'[k].known = FALSE /\ mp'[k].refresh = "done" /\ mp'[k] \in MapType /\ mp'[k].port = mp[k].port
        BY <3>1, <3>2, <4>1 DEF MapType
      <4>3. QED
        BY <3>2, <4>2
    <3>3. CASE k # m
      <4>1. mp'[k] = mp[k]
        BY <1>t, <2>1, <3>3 DEF NatType
      <4>2. QED
        BY <3>1, <3>3, <4>1
    <3>4. QED
      BY <3>2, <3>3
  <2>4. mp' \in [Maps -> MapType]
    BY <1>t, <2>1, <2>3 DEF NatType
  <2>5. NatType' /\ NatStage' /\ WorkInv' /\ OneEach'
    BY <1>t, <2>1, <2>2, <2>3, <2>4 DEF NatType, NatStage, WorkInv, OneEach
  <2>6. Renewed'
    <3> SUFFICES ASSUME NEW p \in device' PROVE \E k \in Maps : mp'[k].port = p /\ mp'[k].refresh = "run"
      BY DEF Renewed
    <3>1. PICK k \in Maps : mp[k].port = p /\ mp[k].refresh = "run"
      BY <1>t, <2>1 DEF Renewed
    <3>2. k # m
      BY <2>1, <3>1
    <3>3. QED
      BY <2>3, <3>1, <3>2
  <2>7. Following'
    BY <2>1, <2>2 DEF Following, Settled
  <2>8. QED
    BY <2>5, <2>6, <2>7 DEF NatInv
<1>5. ASSUME NEW w \in natWork, RemoveMapping(w) PROVE NatInv'
  <2> DEFINE v == [w EXCEPT !.op = "delete"]
  <2>1. /\ w.op = "remove" /\ mp' = [mp EXCEPT ![w.m].known = FALSE]
        /\ natWork' = (natWork \ {w}) \cup {v}
        /\ UNCHANGED <<listening, notices, nbg, notified, syncFlag, natClosed, device>>
    BY <1>5 DEF RemoveMapping, UNCHANGED_MGR, UNCHANGED_NET
  <2>2. w \in WorkType /\ w.m \in Maps /\ mp[w.m].port = w.port /\ nbg = "wait"
    BY <1>t, <2>1 DEF WorkInv, NatStage, NatType
  <2>3. v \in WorkType /\ v.op = "delete" /\ v \in natWork'
    BY <2>1, <2>2 DEF WorkType
  <2>4. ASSUME NEW k \in Maps
        PROVE  /\ mp'[k] \in MapType /\ mp'[k].port = mp[k].port /\ mp'[k].refresh = mp[k].refresh
               /\ mp'[k].known <=> k # w.m /\ mp[k].known
    <3>1. mp[k] \in MapType /\ mp[w.m] \in MapType
      BY <1>t, <2>2 DEF NatType
    <3>2. mp'[k] = IF k = w.m THEN [mp[w.m] EXCEPT !.known = FALSE] ELSE mp[k]
      BY <1>t, <2>1 DEF NatType
    <3>3. QED
      BY <3>1, <3>2 DEF MapType
  <2>5. mp' \in [Maps -> MapType]
    BY <1>t, <2>1, <2>4 DEF NatType
  <2>6. NatType'
    BY <1>t, <2>1, <2>3, <2>5 DEF NatType
  <2>7. NatStage' /\ OneEach' /\ Renewed'
    BY <1>t, <2>1, <2>2, <2>4 DEF NatStage, OneEach, Renewed
  <2>8. WorkInv'
    <3> SUFFICES ASSUME NEW x \in natWork'
                 PROVE  /\ x.op = "new" => x.m = 0 /\ \A k \in Maps : mp'[k].known => mp'[k].port # x.port
                        /\ x.op = "establish" => x.m \in Maps /\ mp'[x.m].refresh = "run"
                        /\ x.op = "remove" => x.m \in Maps /\ mp'[x.m].port = x.port /\ mp'[x.m].refresh = "run"
      BY DEF WorkInv
    <3>1. CASE x = v
      BY <2>3, <3>1
    <3>2. CASE x \in natWork
      BY <1>t, <2>4, <3>2 DEF WorkInv
    <3>3. QED
      BY <2>1, <3>1, <3>2
  <2>9. ASSUME Settled' PROVE Following'
    <3>1. Settled
      BY <2>1, <2>9 DEF Settled
    <3>2. w.port \notin listening
      BY <1>t, <2>1, <3>1 DEF Following
    <3>3. ASSUME NEW k \in Maps, mp'[k].known
          PROVE  mp'[k].port \in listening' \/ \E x \in natWork' : x.op = "remove" /\ x.m = k
      BY <1>t, <2>1, <2>4, <3>1, <3>3 DEF Following
    <3>4. ASSUME NEW p \in listening'
          PROVE  \/ \E k \in Maps : mp'[k].known /\ mp'[k].port = p
                 \/ \E x \in natWork' : x.op = "new" /\ x.port = p
      BY <1>t, <2>1, <2>2, <2>4, <3>1, <3>2, <3>4 DEF Following
    <3>5. ASSUME NEW x \in natWork'
          PROVE  (x.op = "new" => x.port \in listening') /\ (x.op = "remove" => x.port \notin listening')
      BY <1>t, <2>1, <2>3, <3>1, <3>5 DEF Following
    <3>6. QED
      BY <3>3, <3>4, <3>5 DEF Following
  <2>10. QED
    BY <2>6, <2>7, <2>8, <2>9 DEF NatInv, Following
<1>6. ASSUME NEW w \in natWork, NEW m \in Maps, NewMapping(w, m) PROVE NatInv'
  <2> DEFINE v == [w EXCEPT !.op = "establish", !.m = m]
             r == [NoMapping EXCEPT !.port = w.port, !.known = TRUE, !.refresh = "run"]
  <2>1. /\ w.op = "new" /\ mp[m] = NoMapping /\ mp' = [mp EXCEPT ![m] = r]
        /\ natWork' = (natWork \ {w}) \cup {v}
        /\ UNCHANGED <<listening, notices, nbg, notified, syncFlag, natClosed, device>>
    BY <1>6 DEF NewMapping, UNCHANGED_MGR, UNCHANGED_NET
  <2>2. /\ w \in WorkType /\ w.m = 0 /\ nbg = "wait" /\ ~mp[m].known /\ mp[m].refresh # "run"
        /\ \A k \in Maps : mp[k].known => mp[k].port # w.port
    BY <1>t, <2>1 DEF WorkInv, NatStage, NatType, NoMapping
  <2>3. v \in WorkType /\ v.op = "establish" /\ v.m = m /\ v \in natWork'
    BY <2>1, <2>2 DEF WorkType
  <2>4. r \in MapType /\ r.port = w.port /\ r.known /\ r.refresh = "run"
    BY <2>2 DEF WorkType, MapType, NoMapping
  <2>5. mp' \in [Maps -> MapType] /\ mp'[m] = r /\ \A k \in Maps : k # m => mp'[k] = mp[k]
    BY <1>t, <2>1, <2>4 DEF NatType
  <2>6. NatType'
    BY <1>t, <2>1, <2>3, <2>5 DEF NatType
  <2>7. NatStage' /\ OneEach' /\ Renewed'
    BY <1>t, <2>1, <2>2, <2>4, <2>5 DEF NatStage, OneEach, Renewed
  <2>8. ASSUME NEW x \in natWork, x # w, x.op = "new" PROVE x.port # w.port
    BY <1>t, <2>1, <2>2, <2>8 DEF WorkInv, NatType, WorkType
  <2>9. WorkInv'
    <3> SUFFICES ASSUME NEW x \in natWork'
                 PROVE  /\ x.op = "new" => x.m = 0 /\ \A k \in Maps : mp'[k].known => mp'[k].port # x.port
                        /\ x.op = "establish" => x.m \in Maps /\ mp'[x.m].refresh = "run"
                        /\ x.op = "remove" => x.m \in Maps /\ mp'[x.m].port = x.port /\ mp'[x.m].refresh = "run"
      BY DEF WorkInv
    <3>1. CASE x = v
      BY <2>3, <2>4, <2>5, <3>1
    <3>2. CASE x \in natWork /\ x # w
      <4>1. x.op = "new" => x.m = 0 /\ \A k \in Maps : mp'[k].known => mp'[k].port # x.port
        <5> SUFFICES ASSUME x.op = "new", NEW k \in Maps, mp'[k].known PROVE x.m = 0 /\ mp'[k].port # x.port
          BY <1>t, <3>2 DEF WorkInv
        <5>1. CASE k = m
          <6>1. mp'[k].port = w.port
            BY <2>4, <2>5, <5>1
          <6>2. x.port # w.port
            BY <2>8, <3>2
          <6>3. x.m = 0
            BY <1>t, <3>2 DEF WorkInv
          <6>4. QED
            BY <6>1, <6>2, <6>3
        <5>2. CASE k # m
          BY <1>t, <2>5, <3>2, <5>2 DEF WorkInv
        <5>3. QED
          BY <5>1, <5>2
      <4>2. x.op = "establish" => x.m \in Maps /\ mp'[x.m].refresh = "run"
        <5> HAVE x.op = "establish"
        <5>1. x.m \in Maps /\ mp[x.m].refresh = "run"
          BY <1>t, <3>2 DEF WorkInv
        <5>2. mp'[x.m] = r \/ mp'[x.m] = mp[x.m]
          BY <2>5, <5>1
        <5>3. QED
          BY <2>4, <5>1, <5>2
      <4>3. x.op = "remove" => x.m \in Maps /\ mp'[x.m].port = x.port /\ mp'[x.m].refresh = "run"
        BY <1>t, <2>2, <2>5, <3>2 DEF WorkInv
      <4>4. QED
        BY <4>1, <4>2, <4>3
    <3>3. QED
      BY <2>1, <3>1, <3>2
  <2>10. ASSUME Settled' PROVE Following'
    <3>1. Settled
      BY <2>1, <2>10 DEF Settled
    <3>2. w.port \in listening
      BY <1>t, <2>1, <3>1 DEF Following
    <3>3. ASSUME NEW k \in Maps, mp'[k].known
          PROVE  mp'[k].port \in listening' \/ \E x \in natWork' : x.op = "remove" /\ x.m = k
      BY <1>t, <2>1, <2>4, <2>5, <3>1, <3>2, <3>3 DEF Following
    <3>4. ASSUME NEW p \in listening'
          PROVE  \/ \E k \in Maps : mp'[k].known /\ mp'[k].port = p
                 \/ \E x \in natWork' : x.op = "new" /\ x.port = p
      BY <1>t, <2>1, <2>2, <2>4, <2>5, <3>1, <3>4 DEF Following
    <3>5. ASSUME NEW x \in natWork'
          PROVE  (x.op = "new" => x.port \in listening') /\ (x.op = "remove" => x.port \notin listening')
      BY <1>t, <2>1, <2>3, <3>1, <3>5 DEF Following
    <3>6. QED
      BY <3>3, <3>4, <3>5 DEF Following
  <2>11. QED
    BY <2>6, <2>7, <2>9, <2>10 DEF NatInv, Following
<1>7. QED
  BY <1>1, <1>2, <1>3, <1>4, <1>5, <1>6

\* natmgr.go and nat.go: however listeners come and go while the gateway is searched for, while doSync
\* works and while mappings are renewed, the manager comes to have one mapping for each port listened
\* on and no other, and leaves none on the gateway.
THEOREM NatMappingsFollow == NatSpec => []MappingsFollowListeners
<1>1. NatInit => NatInv
  <2> SUFFICES ASSUME NatInit PROVE NatInv
    OBVIOUS
  <2>1. NoMapping \in MapType /\ NoMapping.known = FALSE /\ NoMapping.refresh = "none"
    BY DEF NoMapping, MapType
  <2>2. \A m \in Maps : mp[m] = NoMapping
    BY DEF NatInit
  <2>3. NatType
    BY <2>1 DEF NatInit, NatType
  <2>4. NatStage /\ OneEach
    BY <2>1, <2>2 DEF NatInit, NatStage, OneEach
  <2>5. WorkInv /\ Renewed /\ Following
    BY DEF NatInit, WorkInv, Renewed, Following, Settled
  <2>6. QED
    BY <2>3, <2>4, <2>5 DEF NatInv
<1>2. NatInv /\ [NatNext]_natVars => NatInv'
  <2> SUFFICES ASSUME NatInv, [NatNext]_natVars PROVE NatInv'
    OBVIOUS
  <2>1. CASE UNCHANGED natVars
    BY <2>1 DEF natVars, NatInv, NatType, NatStage, WorkInv, Renewed, OneEach, Following, Settled
  <2>2. CASE NatNext
    BY <2>2, ManagerSteps, SyncStep, MappingSteps DEF NatNext
  <2>3. QED
    BY <2>1, <2>2
<1>3. NatInv => MappingsFollowListeners
  <2> SUFFICES ASSUME NatInv PROVE MappingsFollowListeners
    OBVIOUS
  <2>1. ASSUME Quiet PROVE {mp[m].port : m \in {k \in Maps : mp[k].known}} = listening
    <3>1. Settled /\ natWork = {}
      BY <2>1 DEF Quiet, Settled, NatInv, NatStage
    <3>2. QED
      BY <3>1 DEF NatInv, Following
  <2>2. nbg = "done" => device = {}
    BY DEF NatInv, NatStage, Renewed
  <2>3. QED
    BY <2>1, <2>2 DEF MappingsFollowListeners, NatInv, OneEach
<1>4. QED
  BY <1>1, <1>2, <1>3, PTL DEF NatSpec

----------------------------------------------------------------------------
(* Addresses.  A change of the listeners that the goroutine has not read is *)
(* signalled; what it is about to tell is what Addrs gave for the listeners *)
(* it read; and what Addrs gives has no unspecified and no hidden IP, and   *)
(* WebTransport wherever QUIC shares its port.                              *)

Visible(as) == \A a \in as : a.ip # AnyIP /\ a.ip \notin Hidden
Hashed(as, ls) == \A a \in as : a.t = "wt" /\ (\E l \in ls : l.t = "wt") => a.hash
Shares(as) == \E a, b \in as : a.t = "quic" /\ b.t = "wt" /\ Quic(a) = Quic(b)
SharedPort(as) ==
  Shares(as) => \A a \in as : a.t = "quic" => \E b \in as : b.t = "wt" /\ NormalizeMultiaddr(b) = WebTransport(a)

SourcesInv ==
  /\ listen \subseteq Listeners /\ iface \in Interfaces /\ AnyIP \notin filtered
  /\ \A o \in observed : Plain(o) /\ o.ip # AnyIP

WithHash(i, t, p, h) == [ip |-> i, t |-> t, port |-> p, hash |-> h]

\* The fields of an address.
LEMMA AddressFields ==
  ASSUME NEW i, NEW t, NEW p
  PROVE  /\ HostAddr(i, t, p).ip = i /\ HostAddr(i, t, p).t = t /\ HostAddr(i, t, p).port = p
         /\ Plain(HostAddr(i, t, p))
<1>1. HostAddr(i, t, p).ip = i /\ HostAddr(i, t, p).t = t /\ HostAddr(i, t, p).port = p
  BY DEF HostAddr
<1>2. Plain(HostAddr(i, t, p))
  BY DEF HostAddr, Plain
<1>3. QED
  BY <1>1, <1>2

\* Resolving the IP of an address leaves its other fields alone.
LEMMA OtherIP ==
  ASSUME NEW i, NEW t, NEW p, NEW h, NEW j
  PROVE  [WithHash(i, t, p, h) EXCEPT !.ip = j] = WithHash(j, t, p, h)
  BY DEF WithHash

\* An address with another IP.
LEMMA PlainWithIP ==
  ASSUME NEW a, Plain(a), NEW j
  PROVE  Plain([a EXCEPT !.ip = j]) /\ [a EXCEPT !.ip = j].ip = j
<1>1. PICK f : f = FALSE
  OBVIOUS
<1>2. a = WithHash(a.ip, a.t, a.port, f) /\ HostAddr(j, a.t, a.port) = WithHash(j, a.t, a.port, f)
  BY <1>1, Zenon DEF HostAddr, WithHash, Plain
<1>3. [WithHash(a.ip, a.t, a.port, f) EXCEPT !.ip = j] = WithHash(j, a.t, a.port, f)
  BY OtherIP
<1>4. [a EXCEPT !.ip = j] = HostAddr(j, a.t, a.port)
  BY <1>2, <1>3
<1>5. QED
  BY <1>4, AddressFields

\* Appending certificate hashes to an address leaves its other fields alone.
LEMMA HashFields ==
  ASSUME NEW i, NEW t, NEW p, NEW h, h = [HostAddr(i, t, p) EXCEPT !.hash = TRUE]
  PROVE  h.ip = i /\ h.t = t /\ h.port = p /\ h.hash
  BY DEF HostAddr

\* An address with certificate hashes.
LEMMA PlainWithHash ==
  ASSUME NEW a, Plain(a), NEW h, h = [a EXCEPT !.hash = TRUE]
  PROVE  h.ip = a.ip /\ h.t = a.t /\ h.port = a.port /\ h.hash
<1>1. a = HostAddr(a.ip, a.t, a.port)
  BY DEF Plain
<1>2. QED
  BY <1>1, HashFields

\* Where addresses come from before WebTransport is inferred.
LEMMA PlainSources ==
  ASSUME SourcesInv
  PROVE  /\ \A a \in Resolve(listen, filtered) : Plain(a) /\ a.ip # AnyIP
         /\ \A l \in listen : \A a \in NatAddrs(l) : Plain(a) /\ a.ip # AnyIP
<1>1. \A l \in listen : Plain(l)
  BY HostAddrsAssumption DEF SourcesInv
<1>2. ASSUME NEW a \in Resolve(listen, filtered) PROVE Plain(a) /\ a.ip # AnyIP
  <2>1. CASE a \in listen /\ a.ip # AnyIP
    BY <1>1, <2>1
  <2>2. CASE \E l \in listen, i \in filtered : a = [l EXCEPT !.ip = i]
    <3>1. PICK l \in listen, i \in filtered : a = [l EXCEPT !.ip = i]
      BY <2>2
    <3>2. i # AnyIP
      BY <3>1 DEF SourcesInv
    <3>3. QED
      BY <1>1, <3>1, <3>2, PlainWithIP
  <2>3. QED
    BY <1>2, <2>1, <2>2 DEF Resolve
<1>3. ASSUME NEW l \in listen, NEW a \in NatAddrs(l) PROVE Plain(a) /\ a.ip # AnyIP
  <2> DEFINE ext == HostAddr(mapped, l.t, 0)
  <2>1. Plain(ext)
    BY AddressFields
  <2>2. CASE a = ext /\ a.ip # AnyIP
    BY <2>1, <2>2
  <2>3. CASE \E o \in observed : o.ip \in PublicIPs /\ a = [ext EXCEPT !.ip = o.ip]
    <3>1. PICK o \in observed : o.ip \in PublicIPs /\ a = [ext EXCEPT !.ip = o.ip]
      BY <2>3
    <3>2. o.ip # AnyIP
      BY <3>1, HostAddrsAssumption
    <3> HIDE DEF ext
    <3>3. QED
      BY <2>1, <3>1, <3>2, PlainWithIP
  <2>4. QED
    BY <1>3, <2>2, <2>3 DEF NatAddrs
<1>4. QED
  BY <1>2, <1>3

\* inferWebtransportAddrsFromQuic.
LEMMA Inferred ==
  ASSUME NEW in, \A a \in in : Plain(a) /\ a.ip # AnyIP
  PROVE  /\ \A a \in InferWebtransport(in) : Plain(a) /\ a.ip # AnyIP
         /\ Shares(InferWebtransport(in)) =>
              \A a \in InferWebtransport(in) : a.t = "quic" => WebTransport(a) \in InferWebtransport(in)
<1> DEFINE either == {a \in in : a.t \in {"quic", "wt"}}
           wts == {WebTransport(a) : a \in {b \in in : b.t = "wt"}}
           quics == {a \in in : a.t = "quic"}
           both == wts # {} /\ \E a, b \in either : a # b /\ Quic(a) = Quic(b)
           added == {WebTransport(a) : a \in quics}
<1>1. InferWebtransport(in) = IF both THEN in \cup (added \ wts) ELSE in
  BY DEF InferWebtransport
<1>2. ASSUME NEW a \in in
      PROVE  /\ Plain(WebTransport(a)) /\ WebTransport(a).ip = a.ip /\ WebTransport(a).t = "wt"
             /\ a.t = "wt" => WebTransport(a) = a
  <2>1. Plain(WebTransport(a)) /\ WebTransport(a).ip = a.ip /\ WebTransport(a).t = "wt"
    BY AddressFields DEF WebTransport
  <2>2. a.t = "wt" => WebTransport(a) = a
    BY <1>2 DEF Plain, WebTransport
  <2>3. QED
    BY <2>1, <2>2
<1>3. \A x \in added : Plain(x) /\ x.t = "wt" /\ x.ip # AnyIP
  BY <1>2
<1>4. wts \subseteq in
  BY <1>2
<1>5. CASE both
  <2>1. InferWebtransport(in) = in \cup (added \ wts)
    BY <1>1, <1>5
  <2>2. ASSUME NEW a \in InferWebtransport(in), a.t = "quic" PROVE WebTransport(a) \in InferWebtransport(in)
    <3>1. a \in quics
      BY <1>3, <2>1, <2>2
    <3>2. WebTransport(a) \in added
      BY <3>1
    <3>3. QED
      BY <1>4, <2>1, <3>2
  <2>3. QED
    BY <1>3, <2>1, <2>2
<1>6. CASE ~both
  <2>1. InferWebtransport(in) = in
    BY <1>1, <1>6
  <2>2. ASSUME Shares(in) PROVE FALSE
    <3>1. PICK a \in in, b \in in : a.t = "quic" /\ b.t = "wt" /\ Quic(a) = Quic(b)
      BY <2>2 DEF Shares
    <3>2. a \in either /\ b \in either /\ a # b /\ WebTransport(b) \in wts
      BY <3>1
    <3>3. QED
      BY <1>6, <3>1, <3>2
  <2>3. QED
    BY <2>1, <2>2
<1>7. QED
  BY <1>5, <1>6

\* What Addrs gives.
LEMMA AddrsSound ==
  ASSUME SourcesInv
  PROVE  Visible(Addrs) /\ Hashed(Addrs, listen) /\ SharedPort(Addrs)
<1> DEFINE H(a) == IF a.t = "wt" /\ \E l \in listen : l.t = "wt" THEN [a EXCEPT !.hash = TRUE] ELSE a
<1>1. /\ \A a \in AllAddrs : Plain(a) /\ a.ip # AnyIP
      /\ Shares(AllAddrs) => \A a \in AllAddrs : a.t = "quic" => WebTransport(a) \in AllAddrs
  <2>1. CASE listen = {}
    BY <2>1 DEF AllAddrs, Shares
  <2>2. CASE listen # {}
    <3> DEFINE in == Resolve(listen, filtered) \cup IF mapped # "" THEN UNION {NatAddrs(l) : l \in listen} ELSE observed
    <3>1. \A a \in in : Plain(a) /\ a.ip # AnyIP
      BY PlainSources DEF SourcesInv
    <3>2. AllAddrs = InferWebtransport(in)
      BY <2>2 DEF AllAddrs
    <3> HIDE DEF in
    <3>3. QED
      BY <3>1, <3>2, Inferred
  <2>3. QED
    BY <2>1, <2>2
<1>2. Addrs = {H(a) : a \in {b \in AllAddrs : b.ip \notin Hidden}}
  BY DEF Addrs
<1>3. ASSUME NEW a \in AllAddrs
      PROVE  /\ H(a).ip = a.ip /\ H(a).t = a.t /\ H(a).port = a.port
             /\ a.t = "wt" /\ (\E l \in listen : l.t = "wt") => H(a).hash
             /\ a.t # "wt" => H(a) = a
  <2>1. CASE a.t = "wt" /\ \E l \in listen : l.t = "wt"
    <3>1. H(a) = [a EXCEPT !.hash = TRUE]
      BY <2>1
    <3> HIDE DEF H
    <3>2. QED
      BY <1>1, <1>3, <2>1, <3>1, PlainWithHash
  <2>2. CASE ~(a.t = "wt" /\ \E l \in listen : l.t = "wt")
    <3>1. H(a) = a
      BY <2>2
    <3> HIDE DEF H
    <3>2. QED
      BY <2>2, <3>1
  <2>3. QED
    BY <2>1, <2>2
<1> HIDE DEF H
<1>4. ASSUME NEW a \in AllAddrs PROVE NormalizeMultiaddr(H(a)) = a /\ Quic(H(a)) = Quic(a)
  BY <1>1, <1>3, <1>4 DEF NormalizeMultiaddr, Quic, Plain
<1>5. ASSUME NEW x \in Addrs PROVE \E a \in AllAddrs : a.ip \notin Hidden /\ x = H(a)
  BY <1>2, <1>5
<1>6. Visible(Addrs)
  BY <1>1, <1>3, <1>5 DEF Visible
<1>7. Hashed(Addrs, listen)
  BY <1>3, <1>5 DEF Hashed
<1>8. SharedPort(Addrs)
  <2> SUFFICES ASSUME Shares(Addrs), NEW x \in Addrs, x.t = "quic"
               PROVE  \E y \in Addrs : y.t = "wt" /\ NormalizeMultiaddr(y) = WebTransport(x)
    BY DEF SharedPort
  <2>1. PICK u \in Addrs, v \in Addrs : u.t = "quic" /\ v.t = "wt" /\ Quic(u) = Quic(v)
    BY DEF Shares
  <2>2. PICK a \in AllAddrs : u = H(a)
    BY <1>5
  <2>3. PICK b \in AllAddrs : v = H(b)
    BY <1>5
  <2>4. a.t = "quic" /\ b.t = "wt" /\ Quic(a) = Quic(b)
    BY <1>3, <1>4, <2>1, <2>2, <2>3
  <2>5. Shares(AllAddrs)
    BY <2>4 DEF Shares
  <2>6. PICK c \in AllAddrs : c.ip \notin Hidden /\ x = H(c)
    BY <1>5
  <2>7. c = x /\ WebTransport(x) \in AllAddrs
    BY <1>1, <1>3, <2>5, <2>6
  <2>8. WebTransport(x).ip = x.ip /\ WebTransport(x).t = "wt"
    BY AddressFields DEF WebTransport
  <2>9. H(WebTransport(x)) \in Addrs
    BY <1>2, <2>6, <2>7, <2>8
  <2>10. QED
    BY <1>3, <1>4, <2>7, <2>8, <2>9
<1>9. QED
  BY <1>6, <1>7, <1>8

AddrsInv ==
  /\ SourcesInv
  /\ signals \in Nat /\ addrChangeChan \in BOOLEAN
  /\ told \ unsent = lastAddrs \ unsent /\ (unsigned \/ signed.addrs = lastAddrs)
  /\ hbg \in {"emit", "select"} => lastListen = listen \/ addrChangeChan \/ signals > 0
  /\ hbg = "emit" => Visible(curr) /\ Hashed(curr, lastListen) /\ SharedPort(curr)
  /\ Visible(lastAddrs) /\ SharedPort(lastAddrs) /\ (hbg = "select" => Hashed(lastAddrs, lastListen))

\* basic_host.go (background, SignalAddressChange, Addrs): however listeners, interfaces, mappings and
\* observations change while addresses are computed and told, no change of the listeners is lost; what
\* was computed last is fit to be dialed, subscribers know it but for changes that were never sent, and
\* the signed record has it unless signing the last change failed.
THEOREM HostAddressesTold == AddrsSpec => []AddressesTold
<1>1. AddrsInit => AddrsInv
  <2> SUFFICES ASSUME AddrsInit PROVE AddrsInv
    OBVIOUS
  <2>1. AnyIP \notin filtered
    BY HostAddrsAssumption DEF AddrsInit, Filtered
  <2>2. QED
    BY <2>1 DEF AddrsInit, AddrsInv, SourcesInv, Visible, SharedPort, Shares, Hashed
<1>2. AddrsInv /\ [AddrsNext]_hostVars => AddrsInv'
  <2> SUFFICES ASSUME AddrsInv, [AddrsNext]_hostVars PROVE AddrsInv'
    OBVIOUS
  <2> USE DEF AddrsInv, addrSources, UNCHANGED_TOLD
  <2>1. CASE Change
    <3>1. listen' \subseteq Listeners /\ iface' \in Interfaces /\ \A o \in observed' : Plain(o) /\ o.ip # AnyIP
      BY <2>1, HostAddrsAssumption DEF Change, SourcesInv
    <3>2. signals' \in Nat /\ (listen' = listen \/ signals' > 0) /\ signals' >= signals
      BY <2>1 DEF Change
    <3>3. UNCHANGED <<addrChangeChan, filtered, hbg, curr, lastAddrs, lastListen, told, signed, unsent, unsigned>>
      BY <2>1 DEF Change
    <3>4. SourcesInv'
      BY <3>1, <3>3 DEF SourcesInv
    <3>5. QED
      BY <3>2, <3>3, <3>4 DEF Visible, Hashed, SharedPort, Shares
  <2>2. CASE SignalAddressChange
    <3>1. /\ UNCHANGED <<listen, iface, filtered, observed, hbg, curr, lastAddrs, lastListen, told, signed, unsent, unsigned>>
          /\ addrChangeChan' = TRUE /\ signals' \in Nat
      BY <2>2 DEF SignalAddressChange
    <3>2. QED
      BY <3>1 DEF SourcesInv, Visible, Hashed, SharedPort, Shares
  <2>3. CASE Compute
    <3>1. AnyIP \notin filtered'
      BY <2>3, HostAddrsAssumption DEF Compute, Filtered, SourcesInv
    <3>2. /\ UNCHANGED <<listen, iface, observed, signals, addrChangeChan, lastAddrs, told, signed, unsent, unsigned>>
          /\ hbg' = "read"
      BY <2>3 DEF Compute
    <3>3. QED
      BY <3>1, <3>2 DEF SourcesInv, Visible, SharedPort, Shares
  <2>4. CASE Read
    <3>1. Visible(Addrs) /\ Hashed(Addrs, listen) /\ SharedPort(Addrs)
      BY AddrsSound
    <3>2. /\ UNCHANGED <<listen, iface, filtered, observed, signals, addrChangeChan, lastAddrs, told, signed, unsent, unsigned>>
          /\ hbg' = "emit" /\ curr' = Addrs /\ lastListen' = listen
      BY <2>4 DEF Read
    <3>3. Visible(curr') /\ Hashed(curr', lastListen') /\ SharedPort(curr')
      BY <3>1, <3>2
    <3>4. QED
      BY <3>2, <3>3 DEF SourcesInv, Visible, Hashed, SharedPort, Shares
  <2>5. CASE Emit
    <3>1. /\ UNCHANGED <<listen, iface, filtered, observed, signals, addrChangeChan, lastListen>>
          /\ hbg = "emit" /\ hbg' = "select" /\ lastAddrs' = curr
      BY <2>5 DEF Emit
    <3>2. told' \ unsent' = curr \ unsent' /\ (unsigned' \/ signed'.addrs = curr)
      <4>1. CASE curr = lastAddrs /\ UNCHANGED <<told, signed, unsent, unsigned>>
        BY <4>1
      <4>2. CASE Signs
        <5>1. signed'.addrs = curr
          BY <4>2 DEF Signs
        <5>2. told' \ unsent' = curr \ unsent'
          BY <4>2 DEF Signs, Differences
        <5>3. QED
          BY <5>1, <5>2
      <4>3. CASE SigningFails
        BY <4>3 DEF SigningFails, Differences
      <4>4. QED
        BY <2>5, <4>1, <4>2, <4>3 DEF Emit
    <3>3. QED
      BY <3>1, <3>2 DEF SourcesInv, Visible, Hashed, SharedPort, Shares
  <2>6. CASE WakesUp
    <3>1. /\ UNCHANGED <<listen, iface, filtered, observed, signals, lastAddrs, told, signed, unsent, unsigned>>
          /\ hbg' \in {"compute", "done"} /\ addrChangeChan' \in BOOLEAN
      BY <2>6 DEF WakesUp
    <3>2. QED
      BY <3>1 DEF SourcesInv, Visible, SharedPort, Shares
  <2>7. CASE Close
    BY <2>7 DEF Close, SourcesInv, Visible, Hashed, SharedPort, Shares
  <2>8. CASE UNCHANGED hostVars
    BY <2>8 DEF hostVars, SourcesInv, Visible, Hashed, SharedPort, Shares
  <2>9. QED
    BY <2>1, <2>2, <2>3, <2>4, <2>5, <2>6, <2>7, <2>8 DEF AddrsNext
<1>3. AddrsInv => AddressesTold
  BY DEF AddrsInv, AddressesTold, Visible, Hashed, SharedPort, Shares
<1>4. QED
  BY <1>1, <1>2, <1>3, PTL DEF AddrsSpec

\* basic_host.go and natmgr.go: the addresses that a host tells and its port mappings, each kept by a
\* goroutine of its own, both follow the listeners, whichever changes fail to be signed or sent.
THEOREM HostAddressesCurrent == AddrsSpec /\ NatSpec => []AddressesCurrent
<1>1. AddressesTold /\ MappingsFollowListeners => AddressesCurrent
  BY DEF AddressesCurrent
<1>2. QED
  BY <1>1, HostAddressesTold, NatMappingsFollow, PTL
=============================================================================
