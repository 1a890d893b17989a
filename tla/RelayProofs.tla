---------------------------- MODULE RelayProofs ----------------------------
(***************************************************************************)
(* The relay service keeps its limits, for any peers, addresses, streams,  *)
(* limits and times.  Circuits: a step lets one stream into its circuit,   *)
(* lets one out of it, or leaves the circuits and their counts alone.      *)
(* Grants: what was granted within the validity is still in the lists, so  *)
(* that a new grant is checked against all of it.                          *)
(***************************************************************************)
EXTENDS Relay, FiniteSetTheorems, SequenceTheorems, TLAPS

\* The streams in circuits that p began, and those in circuits with p at their end.
From(p) == {h \in Handlers : InCircuit(h) /\ src[h] = p}
To(p) == {h \in Handlers : InCircuit(h) /\ dest[h] = p}

\* A circuit that runs has a goroutine that copies, so that there is one that ends it.
Copied == \A h \in Handlers : at[h] = "relay" => copying[h] # 0

CircuitInv == CircuitsCounted /\ Copied

\* An entry that cleanupList has dropped had expired.
GrantInv == TypeOK /\ GrantsBounded /\ Recent \subseteq total

----------------------------------------------------------------------------
(* Types.                                                                  *)

\* The initial state has its types.
LEMMA InitTyped == Init => TypeOK
BY EmptySeq DEF Init, TypeOK

\* What happens around the relay keeps the types.
LEMMA HostTyped ==
  ASSUME TypeOK, NEW p \in Peers,
         Connect(p) \/ Disconnect(p) \/ DisconnectedCheck(p) \/ DisconnectedDelete(p)
           \/ TagsDropped(p)
  PROVE TypeOK'
<1>1. CASE Connect(p)
  BY <1>1 DEF TypeOK, Connect, tableVars, handlerVars
<1>2. CASE Disconnect(p)
  BY <1>2 DEF TypeOK, Disconnect, tableVars, handlerVars
<1>3. CASE DisconnectedCheck(p)
  BY <1>3 DEF TypeOK, DisconnectedCheck, tableVars, handlerVars
<1>4. CASE DisconnectedDelete(p)
  BY <1>4 DEF TypeOK, DisconnectedDelete, handlerVars
<1>5. CASE TagsDropped(p)
  BY <1>5 DEF TypeOK, TagsDropped, hostVars, handlerVars
<1> QED BY <1>1, <1>2, <1>3, <1>4, <1>5

\* So do the steps of time and of the whole service.
LEMMA ServiceTyped ==
  ASSUME TypeOK, GC \/ Close \/ CloseCollects \/ Tick
  PROVE TypeOK'
<1>1. CASE GC
  BY <1>1 DEF TypeOK, GC, CollectReservations, hostVars, handlerVars
<1>2. CASE Close
  BY <1>2 DEF TypeOK, Close, tableVars, hostVars, handlerVars
<1>3. CASE CloseCollects
  BY <1>3 DEF TypeOK, CloseCollects, CollectReservations, hostVars, handlerVars
<1>4. CASE Tick
  BY <1>4 DEF TypeOK, Tick, tableVars, hostVars, handlerVars
<1> QED BY <1>1, <1>2, <1>3, <1>4

\* A reservation, granted, renewed or refused, keeps the types.
LEMMA ReserveTyped ==
  ASSUME TypeOK, NEW h \in Handlers, HandleReserve(h)
  PROVE TypeOK'
<1>1. src[h] \in Peers /\ now \in Nat /\ now + ReservationTTL \in Nat
  BY RelayAssumption DEF TypeOK
<1>2. rsvp' \in [Peers -> Nat] /\ rsvpTagged' \subseteq Peers
  <2>1. rsvp' \in {rsvp, [rsvp EXCEPT ![src[h]] = now + ReservationTTL]}
    BY DEF HandleReserve
  <2>2. rsvpTagged' \in {rsvpTagged, rsvpTagged \cup {src[h]}}
    BY DEF HandleReserve
  <2>3. rsvp \in [Peers -> Nat] /\ rsvpTagged \subseteq Peers
    BY DEF TypeOK
  <2>4. [rsvp EXCEPT ![src[h]] = now + ReservationTTL] \in [Peers -> Nat]
    BY <2>3, <1>1
  <2> QED BY <2>1, <2>2, <2>3, <2>4, <1>1
<1>3. Cleanup(total) \subseteq 1..Len(granted)
  BY DEF Cleanup, TypeOK
<1>4. granted' \in Seq([peer : Peers, at : Nat]) /\ total' \subseteq 1..Len(granted')
  <2>1. CASE UNCHANGED <<total, granted>>
    BY <2>1 DEF TypeOK
  <2>2. CASE total' = Cleanup(total) /\ UNCHANGED granted
    BY <2>2, <1>3 DEF TypeOK
  <2>3. CASE /\ granted' = Append(granted, [peer |-> src[h], at |-> now])
             /\ total' = Cleanup(total) \cup {Len(granted')}
    <3>1. [peer |-> src[h], at |-> now] \in [peer : Peers, at : Nat]
      BY <1>1
    <3>2. granted' \in Seq([peer : Peers, at : Nat]) /\ Len(granted') = Len(granted) + 1
      BY <2>3, <3>1 DEF TypeOK
    <3>3. Len(granted) \in Nat
      BY DEF TypeOK
    <3> QED BY <2>3, <3>2, <3>3, <1>3
  <2> QED BY <2>1, <2>2, <2>3 DEF HandleReserve
<1>5. at' \in [Handlers -> {"idle", "reserve", "connect", "check", "open", "handshake", "relay", "done"}]
  BY DEF TypeOK, HandleReserve
<1> QED BY <1>2, <1>4, <1>5 DEF TypeOK, HandleReserve, hostVars

\* The counts of circuits stay counts.
LEMMA CountTyped ==
  ASSUME NEW c \in [Peers -> Nat], NEW p \in Peers
  PROVE addConn(c, p) \in [Peers -> Nat] /\ rmConn(c, p) \in [Peers -> Nat]
BY DEF addConn, rmConn

\* The end of a circuit keeps the types of what it writes.
LEMMA CleanupTyped ==
  ASSUME TypeOK, NEW h \in Handlers, CleanupCircuit(h)
  PROVE conns' \in [Peers -> Nat] /\ hopTagged' \subseteq Peers /\ spans' \subseteq Handlers
<1>1. src[h] \in Peers /\ dest[h] \in Peers /\ conns \in [Peers -> Nat]
  BY DEF TypeOK
<1>2. rmConn(conns, src[h]) \in [Peers -> Nat]
  BY <1>1, CountTyped
<1>3. conns' \in [Peers -> Nat]
  BY <1>1, <1>2, CountTyped DEF CleanupCircuit
<1> QED BY <1>3 DEF CleanupCircuit, TypeOK

\* The steps of a stream's handler keep the types; that two goroutines at most end a
\* circuit needs that one is left of a circuit that runs.
LEMMA HandlerTyped ==
  ASSUME TypeOK, Copied, NEW h \in Handlers, HandleStream(h) \/ HandlerStep(h)
  PROVE TypeOK'
<1>1. CASE HandleStream(h) \/ Refuse(h) \/ BeginSpan(h) \/ OpenStop(h) \/ Handshake(h)
  <2>1. CASE HandleStream(h)
    BY <2>1 DEF TypeOK, HandleStream, tableVars, hostVars
  <2>2. CASE Refuse(h)
    BY <2>2 DEF TypeOK, Refuse, tableVars, hostVars
  <2>3. CASE BeginSpan(h)
    BY <2>3 DEF TypeOK, BeginSpan, tableVars, hostVars
  <2>4. CASE OpenStop(h)
    BY <2>4 DEF TypeOK, OpenStop, tableVars, hostVars
  <2>5. CASE Handshake(h)
    <3>1. copying' \in [Handlers -> 0..2]
      BY <2>5 DEF TypeOK, Handshake
    <3> QED BY <2>5, <3>1 DEF TypeOK, Handshake, tableVars, hostVars
  <2> QED BY <1>1, <2>1, <2>2, <2>3, <2>4, <2>5
<1>2. CASE HandleReserve(h)
  BY <1>2, ReserveTyped
<1>3. CASE CheckConnect(h)
  <2>1. src[h] \in Peers /\ dest[h] \in Peers /\ conns \in [Peers -> Nat]
    BY DEF TypeOK
  <2>2. addConn(addConn(conns, src[h]), dest[h]) \in [Peers -> Nat]
    BY <2>1, CountTyped
  <2>3. conns' \in [Peers -> Nat]
    BY <1>3, <2>1, <2>2 DEF CheckConnect
  <2> QED BY <1>3, <2>3 DEF TypeOK, CheckConnect, hostVars
<1>4. CASE ConnectFails(h)
  <2>1. CleanupCircuit(h)
    BY <1>4 DEF ConnectFails
  <2> QED BY <1>4, <2>1, CleanupTyped DEF TypeOK, ConnectFails, CleanupCircuit, hostVars
<1>5. CASE CopyEnds(h)
  <2>1. copying[h] \in 1..2
    BY <1>5 DEF TypeOK, Copied, CopyEnds
  <2>2. copying' \in [Handlers -> 0..2]
    BY <1>5, <2>1 DEF TypeOK, CopyEnds
  <2>3. CASE copying[h] = 1
    <3>1. CleanupCircuit(h)
      BY <1>5, <2>3 DEF CopyEnds
    <3> QED BY <1>5, <2>2, <2>3, <3>1, CleanupTyped DEF TypeOK, CopyEnds, CleanupCircuit, hostVars
  <2>4. CASE copying[h] # 1
    BY <1>5, <2>2, <2>4 DEF TypeOK, CopyEnds, tableVars, hostVars
  <2> QED BY <2>3, <2>4
<1> QED BY <1>1, <1>2, <1>3, <1>4, <1>5 DEF HandlerStep

\* Every step keeps the types.
LEMMA NextTyped ==
  ASSUME TypeOK, Copied, [Next]_vars
  PROVE TypeOK'
<1>1. CASE UNCHANGED vars
  BY <1>1 DEF TypeOK, vars, hostVars, tableVars, handlerVars
<1> QED BY <1>1, HostTyped, ServiceTyped, HandlerTyped DEF Next

----------------------------------------------------------------------------
(* Circuits.                                                               *)

\* What a step does to the circuits and to what is counted for them: stream h enters its
\* circuit, stream h leaves it, or the circuits stay as they are.
Enters(h) ==
  /\ at[h] = "check" /\ at' = [at EXCEPT ![h] = "open"]
  /\ HaveRoom(h)
  /\ conns' = addConn(addConn(conns, src[h]), dest[h])
  /\ hopTagged' = hopTagged \cup {p \in Peers : conns[p] = 0 /\ conns'[p] > 0}
  /\ UNCHANGED <<src, dest, spans>>

Leaves(h) ==
  /\ InCircuit(h) /\ at' = [at EXCEPT ![h] = "done"]
  /\ CleanupCircuit(h)
  /\ UNCHANGED <<src, dest>>

CircuitsStay ==
  /\ \A h \in Handlers : InCircuit(h)' <=> InCircuit(h)
  /\ hopTagged' \subseteq hopTagged
  /\ spans' = {h \in Handlers : at'[h] = "check" \/ InCircuit(h)'}
  /\ UNCHANGED <<conns, src, dest>>

\* Every step is one of these, and leaves a goroutine with every circuit that runs.
LEMMA CircuitSteps ==
  ASSUME CircuitInv, [Next]_vars
  PROVE /\ CircuitsStay \/ \E h \in Handlers : Enters(h) \/ Leaves(h)
        /\ Copied'
<1>t. /\ TypeOK /\ Copied
      /\ spans = {h \in Handlers : at[h] = "check" \/ InCircuit(h)}
  BY DEF CircuitInv, CircuitsCounted
<1>a. at \in [Handlers -> {"idle", "reserve", "connect", "check", "open", "handshake", "relay", "done"}]
  BY <1>t DEF TypeOK
<1>b. copying \in [Handlers -> 0..2]
  BY <1>t DEF TypeOK
<1>1. CASE UNCHANGED vars
  BY <1>1, <1>t DEF vars, tableVars, handlerVars, CircuitsStay, InCircuit, Copied
<1>2. ASSUME NEW p \in Peers,
             Connect(p) \/ Disconnect(p) \/ DisconnectedCheck(p) \/ DisconnectedDelete(p)
               \/ TagsDropped(p)
      PROVE CircuitsStay /\ Copied'
  <2>1. UNCHANGED <<conns, at, src, dest, copying, spans>> /\ hopTagged' \subseteq hopTagged
    BY <1>2 DEF Connect, Disconnect, DisconnectedCheck, DisconnectedDelete, TagsDropped,
                tableVars, handlerVars
  <2> QED BY <2>1, <1>t DEF CircuitsStay, InCircuit, Copied
<1>3. ASSUME GC \/ Close \/ CloseCollects \/ Tick
      PROVE CircuitsStay /\ Copied'
  <2>1. UNCHANGED <<conns, at, src, dest, copying, spans, hopTagged>>
    BY <1>3 DEF GC, Close, CloseCollects, Tick, tableVars, handlerVars
  <2> QED BY <2>1, <1>t DEF CircuitsStay, InCircuit, Copied
<1>4. ASSUME NEW h \in Handlers, HandleStream(h) \/ Refuse(h) \/ HandleReserve(h)
      PROVE CircuitsStay /\ Copied'
  <2>1. /\ UNCHANGED <<conns, src, dest, copying, spans, hopTagged>>
        /\ at[h] \in {"idle", "reserve", "connect"}
        /\ \E x \in {"reserve", "connect", "done"} : at' = [at EXCEPT ![h] = x]
    BY <1>4 DEF HandleStream, Refuse, HandleReserve, tableVars
  <2>2. \A i \in Handlers : /\ InCircuit(i)' <=> InCircuit(i)
                            /\ at'[i] = "check" <=> at[i] = "check"
                            /\ at'[i] = "relay" => at[i] = "relay"
    BY <2>1, <1>a DEF InCircuit
  <2> QED BY <2>1, <2>2, <1>t DEF CircuitsStay, Copied
<1>5. ASSUME NEW h \in Handlers, BeginSpan(h)
      PROVE CircuitsStay /\ Copied'
  <2>1. UNCHANGED <<conns, src, dest, copying, hopTagged>> /\ at[h] = "connect"
    BY <1>5 DEF BeginSpan, tableVars
  <2>2. \A i \in Handlers : /\ InCircuit(i)' <=> InCircuit(i)
                            /\ at'[i] = "relay" => at[i] = "relay"
    BY <1>5, <1>a DEF InCircuit, BeginSpan
  <2>3. spans' = {i \in Handlers : at'[i] = "check" \/ InCircuit(i)'}
    <3>1. CASE at' = [at EXCEPT ![h] = "check"] /\ spans' = spans \cup {h}
      BY <3>1, <1>a, <1>t, <2>2 DEF InCircuit
    <3>2. CASE at' = [at EXCEPT ![h] = "done"] /\ UNCHANGED spans
      BY <3>2, <1>a, <1>t, <2>1, <2>2 DEF InCircuit
    <3> QED BY <3>1, <3>2, <1>5 DEF BeginSpan
  <2> QED BY <2>1, <2>2, <2>3, <1>t DEF CircuitsStay, Copied
<1>6. ASSUME NEW h \in Handlers, OpenStop(h) \/ Handshake(h)
      PROVE CircuitsStay /\ Copied'
  <2>1. /\ UNCHANGED <<conns, src, dest, hopTagged, spans>>
        /\ at[h] \in {"open", "handshake"}
        /\ \E x \in {"handshake", "relay"} : at' = [at EXCEPT ![h] = x]
    BY <1>6 DEF OpenStop, Handshake, tableVars
  <2>2. \A i \in Handlers : /\ InCircuit(i)' <=> InCircuit(i)
                            /\ at'[i] = "check" <=> at[i] = "check"
    BY <2>1, <1>a DEF InCircuit
  <2>3. Copied'
    BY <1>6, <1>a, <1>b, <1>t DEF Copied, OpenStop, Handshake
  <2> QED BY <2>1, <2>2, <2>3, <1>t DEF CircuitsStay
<1>7. ASSUME NEW h \in Handlers, CheckConnect(h)
      PROVE (CircuitsStay \/ Enters(h)) /\ Copied'
  <2>1. at[h] = "check" /\ UNCHANGED <<src, dest, copying>>
    BY <1>7 DEF CheckConnect
  <2>2. \E x \in {"open", "done"} : at' = [at EXCEPT ![h] = x]
    BY <1>7 DEF CheckConnect
  <2>3. Copied'
    BY <2>1, <2>2, <1>a, <1>t DEF Copied
  <2>4. CASE rsvp[dest[h]] # 0 /\ HaveRoom(h)
    BY <1>7, <2>1, <2>3, <2>4 DEF CheckConnect, Enters
  <2>5. CASE ~(rsvp[dest[h]] # 0 /\ HaveRoom(h))
    <3>1. at' = [at EXCEPT ![h] = "done"] /\ spans' = spans \ {h} /\ UNCHANGED <<conns, hopTagged>>
      BY <1>7, <2>5 DEF CheckConnect
    <3>2. \A i \in Handlers : InCircuit(i)' <=> InCircuit(i)
      BY <3>1, <2>1, <1>a DEF InCircuit
    <3>3. spans' = {i \in Handlers : at'[i] = "check" \/ InCircuit(i)'}
      BY <3>1, <3>2, <2>1, <1>a, <1>t DEF InCircuit
    <3> QED BY <3>1, <3>2, <3>3, <2>1, <2>3 DEF CircuitsStay
  <2> QED BY <2>4, <2>5
<1>8. ASSUME NEW h \in Handlers, ConnectFails(h)
      PROVE Leaves(h) /\ Copied'
  <2>1. Leaves(h)
    BY <1>8 DEF ConnectFails, Leaves, InCircuit
  <2>2. Copied'
    BY <1>8, <1>a, <1>t DEF ConnectFails, Copied
  <2> QED BY <2>1, <2>2
<1>9. ASSUME NEW h \in Handlers, CopyEnds(h)
      PROVE (CircuitsStay \/ Leaves(h)) /\ Copied'
  <2>1. CASE copying[h] = 1
    <3>1. at' = [at EXCEPT ![h] = "done"] /\ CleanupCircuit(h)
      BY <1>9, <2>1 DEF CopyEnds
    <3>2. Leaves(h)
      BY <3>1, <1>9 DEF Leaves, InCircuit, CopyEnds
    <3>3. Copied'
      BY <3>1, <1>9, <1>a, <1>b, <1>t DEF Copied, CopyEnds
    <3> QED BY <3>2, <3>3
  <2>2. CASE copying[h] # 1
    <3>1. UNCHANGED <<at, src, dest, spans, conns, hopTagged>> /\ copying' = [copying EXCEPT ![h] = @ - 1]
      BY <1>9, <2>2 DEF CopyEnds, tableVars
    <3>2. copying[h] \in 0..2 /\ copying[h] # 0
      BY <1>9, <1>b, <1>t DEF CopyEnds, Copied
    <3>3. Copied'
      BY <3>1, <3>2, <2>2, <1>b, <1>t DEF Copied
    <3> QED BY <3>1, <3>3, <1>t DEF CircuitsStay, InCircuit
  <2> QED BY <2>1, <2>2
<1> QED BY <1>1, <1>2, <1>3, <1>4, <1>5, <1>6, <1>7, <1>8, <1>9 DEF Next, HandlerStep

\* A set with one element more than a set below a limit is within the limit.
LEMMA OneMore ==
  ASSUME NEW S, IsFiniteSet(S), NEW x, NEW T \in SUBSET (S \cup {x}), NEW m \in Nat,
         Cardinality(S) < m
  PROVE Cardinality(T) <= m
<1>1. /\ IsFiniteSet(S \cup {x})
      /\ Cardinality(S \cup {x}) = IF x \in S THEN Cardinality(S) ELSE Cardinality(S) + 1
  BY FS_AddElement
<1>2. Cardinality(T) <= Cardinality(S \cup {x}) /\ IsFiniteSet(T)
  BY <1>1, FS_Subset
<1>3. Cardinality(S) \in Nat /\ Cardinality(T) \in Nat
  BY <1>2, FS_CardinalityType
<1> QED BY <1>1, <1>2, <1>3

\* The streams are finitely many.
LEMMA StreamsFinite ==
  ASSUME NEW p
  PROVE /\ IsFiniteSet(From(p)) /\ IsFiniteSet(To(p)) /\ IsFiniteSet(Circuits(p))
        /\ Cardinality(From(p)) \in Nat /\ Cardinality(To(p)) \in Nat
        /\ Cardinality(Circuits(p)) \in Nat
<1>1. From(p) \in SUBSET Handlers /\ To(p) \in SUBSET Handlers /\ Circuits(p) \in SUBSET Handlers
  BY DEF From, To, Circuits
<1>2. IsFiniteSet(Handlers)
  BY RelayAssumption
<1>3. IsFiniteSet(From(p)) /\ IsFiniteSet(To(p)) /\ IsFiniteSet(Circuits(p))
  BY <1>1, <1>2, FS_Subset
<1> QED BY <1>3, FS_CardinalityType

\* A circuit of a peer is counted for it at least once.
LEMMA CircuitsWithin ==
  ASSUME NEW p
  PROVE Cardinality(Circuits(p)) <= Cardinality(From(p)) + Cardinality(To(p))
<1>1. Circuits(p) = From(p) \cup To(p)
  BY DEF Circuits, From, To
<1>2. Cardinality(From(p) \cup To(p))
        = Cardinality(From(p)) + Cardinality(To(p)) - Cardinality(From(p) \cap To(p))
  BY StreamsFinite, FS_Union
<1>3. Cardinality(From(p) \cap To(p)) \in Nat
  <2>1. (From(p) \cap To(p)) \in SUBSET From(p)
    OBVIOUS
  <2>2. IsFiniteSet(From(p) \cap To(p))
    BY <2>1, StreamsFinite, FS_Subset
  <2> QED BY <2>2, FS_CardinalityType
<1> QED BY <1>1, <1>2, <1>3, StreamsFinite

\* What is counted for p: the sums of both ends.
Counted(p) == conns[p] = Cardinality(From(p)) + Cardinality(To(p))

\* The counts after one circuit more or less with the ends s and d.
LEMMA CountsMove ==
  ASSUME NEW c \in [Peers -> Nat], NEW s \in Peers, NEW d \in Peers, NEW p \in Peers
  PROVE /\ addConn(addConn(c, s), d)[p] = c[p] + (IF s = p THEN 1 ELSE 0) + (IF d = p THEN 1 ELSE 0)
        /\ c[p] >= (IF s = p THEN 1 ELSE 0) + (IF d = p THEN 1 ELSE 0)
             => rmConn(rmConn(c, s), d)[p]
                  = c[p] - (IF s = p THEN 1 ELSE 0) - (IF d = p THEN 1 ELSE 0)
BY DEF addConn, rmConn

\* A stream that enters its circuit is counted once for each of its ends.
LEMMA EntersCounted ==
  ASSUME CircuitInv, NEW h \in Handlers, Enters(h), NEW p \in Peers
  PROVE Counted(p)' /\ Cardinality(Circuits(p))' <= MaxCircuits
<1>t. TypeOK /\ Counted(p) /\ Cardinality(Circuits(p)) <= MaxCircuits
  BY DEF CircuitInv, CircuitsCounted, Counted, From, To
<1>a. at \in [Handlers -> {"idle", "reserve", "connect", "check", "open", "handshake", "relay", "done"}]
  BY <1>t DEF TypeOK
<1>b. src[h] \in Peers /\ dest[h] \in Peers /\ conns \in [Peers -> Nat] /\ conns[p] \in Nat
  BY <1>t DEF TypeOK
<1>1. \A i \in Handlers : InCircuit(i)' <=> InCircuit(i) \/ i = h
  BY <1>a DEF Enters, InCircuit
<1>2. ~InCircuit(h)
  BY DEF Enters, InCircuit
<1>3. From(p)' = (IF src[h] = p THEN From(p) \cup {h} ELSE From(p)) /\ h \notin From(p)
  BY <1>1, <1>2 DEF From, Enters
<1>4. To(p)' = (IF dest[h] = p THEN To(p) \cup {h} ELSE To(p)) /\ h \notin To(p)
  BY <1>1, <1>2 DEF To, Enters
<1>f. IsFiniteSet(From(p)) /\ IsFiniteSet(To(p))
  BY StreamsFinite
<1>5. Cardinality(From(p)') = Cardinality(From(p)) + (IF src[h] = p THEN 1 ELSE 0)
  <2>1. Cardinality(From(p) \cup {h}) = Cardinality(From(p)) + 1
    BY <1>3, <1>f, FS_AddElement
  <2>2. Cardinality(From(p)) \in Nat
    BY <1>f, FS_CardinalityType
  <2> QED BY <2>1, <2>2, <1>3
<1>6. Cardinality(To(p)') = Cardinality(To(p)) + (IF dest[h] = p THEN 1 ELSE 0)
  <2>1. Cardinality(To(p) \cup {h}) = Cardinality(To(p)) + 1
    BY <1>4, <1>f, FS_AddElement
  <2>2. Cardinality(To(p)) \in Nat
    BY <1>f, FS_CardinalityType
  <2> QED BY <2>1, <2>2, <1>4
<1>7. conns'[p] = conns[p] + (IF src[h] = p THEN 1 ELSE 0) + (IF dest[h] = p THEN 1 ELSE 0)
  BY <1>b, CountsMove DEF Enters
<1>8. Counted(p)'
  <2>1. conns[p] = Cardinality(From(p)) + Cardinality(To(p))
    BY <1>t DEF Counted
  <2>2. Cardinality(From(p)) \in Nat /\ Cardinality(To(p)) \in Nat
    BY StreamsFinite
  <2>3. conns'[p] = Cardinality(From(p)') + Cardinality(To(p)')
    BY <2>1, <2>2, <1>5, <1>6, <1>7
  <2> QED BY <2>3 DEF Counted
<1>9. Cardinality(Circuits(p)') <= MaxCircuits
  <2>1. CASE p \in {src[h], dest[h]}
    <3>1. conns[p] < MaxCircuits /\ MaxCircuits \in Nat
      BY <2>1, RelayAssumption DEF Enters, HaveRoom
    <3>2. Cardinality(Circuits(p)) < MaxCircuits
      <4>1. Cardinality(Circuits(p)) <= conns[p]
        BY <1>t, CircuitsWithin DEF Counted
      <4> QED BY <4>1, <3>1, <1>b, StreamsFinite
    <3>3. Circuits(p)' \in SUBSET (Circuits(p) \cup {h})
      BY <1>1 DEF Circuits, Enters
    <3>4. IsFiniteSet(Circuits(p))
      BY StreamsFinite
    <3> QED BY <3>1, <3>2, <3>3, <3>4, OneMore
  <2>2. CASE p \notin {src[h], dest[h]}
    <3>1. Circuits(p)' = Circuits(p)
      BY <2>2, <1>1 DEF Circuits, Enters
    <3> QED BY <3>1, <1>t
  <2> QED BY <2>1, <2>2
<1> QED BY <1>8, <1>9

\* A stream that leaves its circuit is taken off the counts of both ends.
LEMMA LeavesCounted ==
  ASSUME CircuitInv, NEW h \in Handlers, Leaves(h), NEW p \in Peers
  PROVE Counted(p)' /\ Cardinality(Circuits(p))' <= MaxCircuits
<1>t. TypeOK /\ Counted(p) /\ Cardinality(Circuits(p)) <= MaxCircuits
  BY DEF CircuitInv, CircuitsCounted, Counted, From, To
<1>a. at \in [Handlers -> {"idle", "reserve", "connect", "check", "open", "handshake", "relay", "done"}]
  BY <1>t DEF TypeOK
<1>b. src[h] \in Peers /\ dest[h] \in Peers /\ conns \in [Peers -> Nat] /\ conns[p] \in Nat
  BY <1>t DEF TypeOK
<1>1. \A i \in Handlers : InCircuit(i)' <=> InCircuit(i) /\ i # h
  BY <1>a DEF Leaves, InCircuit
<1>2. InCircuit(h)
  BY DEF Leaves
<1>3. From(p)' = From(p) \ {h} /\ (h \in From(p) <=> src[h] = p)
  BY <1>1, <1>2 DEF From, Leaves
<1>4. To(p)' = To(p) \ {h} /\ (h \in To(p) <=> dest[h] = p)
  BY <1>1, <1>2 DEF To, Leaves
<1>n. Cardinality(From(p)) \in Nat /\ Cardinality(To(p)) \in Nat
  BY StreamsFinite
<1>f. IsFiniteSet(From(p)) /\ IsFiniteSet(To(p))
  BY StreamsFinite
<1>5. Cardinality(From(p)') = Cardinality(From(p)) - (IF src[h] = p THEN 1 ELSE 0)
  <2>1. Cardinality(From(p) \ {h})
          = IF h \in From(p) THEN Cardinality(From(p)) - 1 ELSE Cardinality(From(p))
    BY <1>f, FS_RemoveElement
  <2> QED BY <2>1, <1>3, <1>n
<1>6. Cardinality(To(p)') = Cardinality(To(p)) - (IF dest[h] = p THEN 1 ELSE 0)
  <2>1. Cardinality(To(p) \ {h})
          = IF h \in To(p) THEN Cardinality(To(p)) - 1 ELSE Cardinality(To(p))
    BY <1>f, FS_RemoveElement
  <2> QED BY <2>1, <1>4, <1>n
<1>7. Cardinality(From(p)') \in Nat /\ Cardinality(To(p)') \in Nat
  <2>1. From(p)' \in SUBSET From(p) /\ To(p)' \in SUBSET To(p)
    BY <1>3, <1>4
  <2>2. IsFiniteSet(From(p)') /\ IsFiniteSet(To(p)')
    BY <2>1, StreamsFinite, FS_Subset
  <2> QED BY <2>2, FS_CardinalityType
<1>8. Counted(p)'
  <2>1. conns[p] = Cardinality(From(p)) + Cardinality(To(p))
    BY <1>t DEF Counted
  <2>2. conns[p] >= (IF src[h] = p THEN 1 ELSE 0) + (IF dest[h] = p THEN 1 ELSE 0)
    <3>1. Cardinality(From(p)) >= IF src[h] = p THEN 1 ELSE 0
      BY <1>n, <1>5, <1>7
    <3>2. Cardinality(To(p)) >= IF dest[h] = p THEN 1 ELSE 0
      BY <1>n, <1>6, <1>7
    <3> QED BY <3>1, <3>2, <2>1, <1>n
  <2>3. conns'[p] = conns[p] - (IF src[h] = p THEN 1 ELSE 0) - (IF dest[h] = p THEN 1 ELSE 0)
    <3>1. conns' = rmConn(rmConn(conns, src[h]), dest[h])
      BY DEF Leaves, CleanupCircuit
    <3>2. rmConn(rmConn(conns, src[h]), dest[h])[p]
            = conns[p] - (IF src[h] = p THEN 1 ELSE 0) - (IF dest[h] = p THEN 1 ELSE 0)
      BY <2>2, <1>b, CountsMove, SMTT(30)
    <3> QED BY <3>1, <3>2
  <2>4. conns'[p] = Cardinality(From(p)') + Cardinality(To(p)')
    BY <2>1, <2>3, <1>5, <1>6, <1>n
  <2> QED BY <2>4 DEF Counted
<1>9. Cardinality(Circuits(p)') <= MaxCircuits
  <2>1. Circuits(p)' \in SUBSET Circuits(p)
    BY <1>1 DEF Circuits, Leaves
  <2>2. Cardinality(Circuits(p)') <= Cardinality(Circuits(p)) /\ IsFiniteSet(Circuits(p)')
    BY <2>1, StreamsFinite, FS_Subset
  <2>3. Cardinality(Circuits(p)') \in Nat /\ MaxCircuits \in Nat
    BY <2>2, FS_CardinalityType, RelayAssumption
  <2> QED BY <2>2, <2>3, <1>t, StreamsFinite
<1> QED BY <1>8, <1>9

\* The hop tag follows the counts.
LEMMA TagsFollow ==
  ASSUME CircuitInv, NEW h \in Handlers, Enters(h) \/ Leaves(h), NEW p \in hopTagged', TypeOK'
  PROVE conns'[p] > 0
<1>t. TypeOK /\ (p \in hopTagged => conns[p] > 0)
  BY DEF CircuitInv, CircuitsCounted, TypeOK
<1>b. p \in Peers /\ src[h] \in Peers /\ dest[h] \in Peers /\ conns \in [Peers -> Nat] /\ conns[p] \in Nat
  BY <1>t DEF TypeOK
<1>1. CASE Enters(h)
  <2>1. conns'[p] = conns[p] + (IF src[h] = p THEN 1 ELSE 0) + (IF dest[h] = p THEN 1 ELSE 0)
    BY <1>1, <1>b, CountsMove DEF Enters
  <2>2. p \in hopTagged \/ conns'[p] > 0
    BY <1>1 DEF Enters
  <2>3. CASE p \in hopTagged
    BY <2>1, <2>3, <1>b, <1>t
  <2> QED BY <2>2, <2>3
<1>2. CASE Leaves(h)
  <2>1. CASE p \in {src[h], dest[h]}
    BY <1>2, <2>1 DEF Leaves, CleanupCircuit
  <2>2. CASE p \notin {src[h], dest[h]}
    <3>1. conns'[p] = conns[p]
      BY <1>2, <2>2, <1>b DEF Leaves, CleanupCircuit, rmConn
    <3> QED BY <1>2, <2>2, <3>1, <1>t DEF Leaves, CleanupCircuit
  <2> QED BY <2>1, <2>2
<1> QED BY <1>1, <1>2

\* The spans follow the streams.
LEMMA SpansFollow ==
  ASSUME CircuitInv, NEW h \in Handlers, Enters(h) \/ Leaves(h)
  PROVE spans' = {i \in Handlers : at'[i] = "check" \/ InCircuit(i)'}
<1>t. TypeOK /\ spans = {i \in Handlers : at[i] = "check" \/ InCircuit(i)}
  BY DEF CircuitInv, CircuitsCounted
<1>a. at \in [Handlers -> {"idle", "reserve", "connect", "check", "open", "handshake", "relay", "done"}]
  BY <1>t DEF TypeOK
<1>1. CASE Enters(h)
  BY <1>1, <1>t, <1>a DEF Enters, InCircuit
<1>2. CASE Leaves(h)
  <2>1. at' = [at EXCEPT ![h] = "done"] /\ spans' = spans \ {h}
    BY <1>2 DEF Leaves, CleanupCircuit
  <2> QED BY <2>1, <1>t, <1>a DEF InCircuit
<1> QED BY <1>1, <1>2

\* The parts of CircuitsCounted, put together after a step.
LEMMA CountedAgain ==
  ASSUME TypeOK',
         \A p \in Peers : Counted(p)' /\ Cardinality(Circuits(p))' <= MaxCircuits,
         \A p \in Peers : p \in hopTagged' => conns'[p] > 0,
         spans' = {i \in Handlers : at'[i] = "check" \/ InCircuit(i)'}
  PROVE CircuitsCounted'
BY DEF CircuitsCounted, Counted, From, To

\* Every step keeps the invariant of the circuits.
LEMMA CircuitInvKept ==
  ASSUME CircuitInv, [Next]_vars
  PROVE CircuitInv'
<1>1. TypeOK' /\ Copied'
  BY NextTyped, CircuitSteps DEF CircuitInv, CircuitsCounted
<1>2. ASSUME NEW h \in Handlers, Enters(h) \/ Leaves(h)
      PROVE CircuitsCounted'
  <2>1. ASSUME NEW p \in Peers
        PROVE Counted(p)' /\ Cardinality(Circuits(p))' <= MaxCircuits
    BY <1>2, <2>1, EntersCounted, LeavesCounted
  <2>2. ASSUME NEW p \in Peers
        PROVE p \in hopTagged' => conns'[p] > 0
    BY <1>1, <1>2, <2>2, TagsFollow
  <2>3. spans' = {i \in Handlers : at'[i] = "check" \/ InCircuit(i)'}
    BY <1>2, SpansFollow
  <2> QED BY <1>1, <2>1, <2>2, <2>3, CountedAgain
<1>3. CASE CircuitsStay
  <2>t. /\ \A p \in Peers : Counted(p) /\ Cardinality(Circuits(p)) <= MaxCircuits
        /\ \A p \in Peers : p \in hopTagged => conns[p] > 0
    BY DEF CircuitInv, CircuitsCounted, Counted, From, To
  <2>1. ASSUME NEW p \in Peers
        PROVE Counted(p)' /\ Cardinality(Circuits(p))' <= MaxCircuits
    <3>1. From(p)' = From(p) /\ To(p)' = To(p) /\ Circuits(p)' = Circuits(p) /\ conns' = conns
      BY <1>3 DEF CircuitsStay, From, To, Circuits
    <3> QED BY <3>1, <2>t DEF Counted
  <2>2. \A p \in Peers : p \in hopTagged' => conns'[p] > 0
    BY <1>3, <2>t DEF CircuitsStay
  <2>3. spans' = {i \in Handlers : at'[i] = "check" \/ InCircuit(i)'}
    BY <1>3 DEF CircuitsStay
  <2> QED BY <1>1, <2>1, <2>2, <2>3, CountedAgain DEF CircuitInv
<1> QED BY <1>1, <1>2, <1>3, CircuitSteps DEF CircuitInv

----------------------------------------------------------------------------
(* Grants.                                                                 *)

\* What a step does to the grants: a grant at this time, checked against the lists as
\* cleanup leaves them, or the lists at most cleaned up and the grants left alone, while
\* time may pass.
Grants(p) ==
  /\ Allowed(Cleanup(total), p)
  /\ granted' = Append(granted, [peer |-> p, at |-> now])
  /\ total' = Cleanup(total) \cup {Len(granted')}
  /\ UNCHANGED now

GrantsStay ==
  /\ UNCHANGED granted
  /\ now' = now \/ now' = now + 1
  /\ total' = total \/ (total' = Cleanup(total) /\ now' = now)

\* Every step is one of these.
LEMMA GrantSteps ==
  ASSUME TypeOK, [Next]_vars
  PROVE GrantsStay \/ \E p \in Peers : Grants(p)
<1>1. CASE UNCHANGED vars
  BY <1>1 DEF vars, tableVars, GrantsStay
<1>2. ASSUME NEW p \in Peers,
             Connect(p) \/ Disconnect(p) \/ DisconnectedCheck(p) \/ DisconnectedDelete(p)
               \/ TagsDropped(p)
      PROVE GrantsStay
  BY <1>2 DEF Connect, Disconnect, DisconnectedCheck, DisconnectedDelete, TagsDropped,
              tableVars, GrantsStay
<1>3. ASSUME GC \/ Close \/ CloseCollects \/ Tick
      PROVE GrantsStay
  BY <1>3 DEF GC, Close, CloseCollects, Tick, tableVars, GrantsStay
<1>4. ASSUME NEW h \in Handlers,
             HandleStream(h) \/ Refuse(h) \/ BeginSpan(h) \/ CheckConnect(h) \/ OpenStop(h)
               \/ Handshake(h) \/ ConnectFails(h) \/ CopyEnds(h)
      PROVE GrantsStay
  BY <1>4 DEF HandleStream, Refuse, BeginSpan, CheckConnect, OpenStop, Handshake, ConnectFails,
              CopyEnds, CleanupCircuit, tableVars, GrantsStay
<1>5. ASSUME NEW h \in Handlers, HandleReserve(h)
      PROVE GrantsStay \/ \E p \in Peers : Grants(p)
  <2>1. src[h] \in Peers
    BY DEF TypeOK
  <2>2. UNCHANGED now
    BY <1>5 DEF HandleReserve
  <2>3. CASE UNCHANGED <<total, granted>>
    BY <2>2, <2>3 DEF GrantsStay
  <2>4. CASE total' = Cleanup(total) /\ UNCHANGED granted
    BY <2>2, <2>4 DEF GrantsStay
  <2>5. CASE /\ Allowed(Cleanup(total), src[h])
             /\ granted' = Append(granted, [peer |-> src[h], at |-> now])
             /\ total' = Cleanup(total) \cup {Len(granted')}
    BY <2>1, <2>2, <2>5 DEF Grants
  <2> QED BY <1>5, <2>3, <2>4, <2>5 DEF HandleReserve
<1> QED BY <1>1, <1>2, <1>3, <1>4, <1>5 DEF Next, HandlerStep

\* Cleaning up keeps the recent grants.
LEMMA CleanupKeeps ==
  ASSUME GrantInv
  PROVE Recent \subseteq Cleanup(total)
<1>1. ASSUME NEW i \in Recent
      PROVE i \in Cleanup(total)
  <2>1. i \in total /\ ~Expired(i) /\ i \in Nat
    BY DEF GrantInv, Recent
  <2>2. i <= i
    BY <2>1
  <2> QED BY <2>1, <2>2 DEF Cleanup
<1> QED BY <1>1

\* A smaller finite set keeps a bound.
LEMMA Fewer ==
  ASSUME NEW S, IsFiniteSet(S), NEW T \in SUBSET S, NEW m \in Nat, Cardinality(S) <= m
  PROVE Cardinality(T) <= m
<1>1. Cardinality(T) <= Cardinality(S) /\ IsFiniteSet(T)
  BY FS_Subset
<1>2. Cardinality(T) \in Nat /\ Cardinality(S) \in Nat
  BY <1>1, FS_CardinalityType
<1> QED BY <1>1, <1>2

\* What is granted is finite.
LEMMA GrantsFinite ==
  ASSUME TypeOK, NEW S \in SUBSET (1..Len(granted))
  PROVE IsFiniteSet(S) /\ S \subseteq Nat
<1>1. Len(granted) \in Nat
  BY DEF TypeOK
<1>2. IsFiniteSet(1..Len(granted))
  BY <1>1, FS_Interval
<1>3. IsFiniteSet(S)
  BY <1>2, FS_Subset
<1> QED BY <1>1, <1>3

\* The four limits on the grants of the last Validity.
Limited ==
  /\ Cardinality(Recent) <= MaxReservations
  /\ \A p \in Peers : Cardinality(OfPeer(Recent, p)) <= MaxReservationsPerPeer
  /\ \A ip \in IPs : Cardinality(OfIP(Recent, ip)) <= MaxReservationsPerIP
  /\ \A asn \in ASNs : Cardinality(OfASN(Recent, asn)) <= MaxReservationsPerASN

\* As time passes, grants only stop being recent.
LEMMA LimitedStays ==
  ASSUME GrantInv, GrantsStay
  PROVE Limited' /\ Recent' \subseteq total'
<1>t. /\ TypeOK /\ Recent \subseteq total
      /\ Limited
  BY DEF GrantInv, GrantsBounded, Limited
<1>1. now \in Nat /\ Validity \in Nat /\ granted \in Seq([peer : Peers, at : Nat])
  BY <1>t, RelayAssumption DEF TypeOK
<1>2. \A i \in 1..Len(granted) : Expired(i) => Expired(i)'
  <2> SUFFICES ASSUME NEW i \in 1..Len(granted), Expired(i)
               PROVE granted'[i].at + Validity <= now'
    BY DEF Expired
  <2>0. granted[i] \in [peer : Peers, at : Nat]
    BY <1>1, ElementOfSeq
  <2>1. granted[i].at \in Nat
    BY <2>0
  <2> QED BY <2>1, <1>1 DEF Expired, GrantsStay
<1>3. Recent' \subseteq Recent
  BY <1>2 DEF Recent, GrantsStay
<1>4. Recent' \subseteq total'
  BY <1>3, <1>t, CleanupKeeps DEF GrantsStay
<1>m. {MaxReservations, MaxReservationsPerPeer, MaxReservationsPerIP, MaxReservationsPerASN} \subseteq Nat
  BY RelayAssumption
<1>f. IsFiniteSet(Recent)
  BY <1>t, GrantsFinite DEF Recent
<1>5. Cardinality(Recent') <= MaxReservations
  BY <1>3, <1>f, <1>m, <1>t, Fewer DEF Limited
<1>6. ASSUME NEW p \in Peers
      PROVE Cardinality(OfPeer(Recent, p)') <= MaxReservationsPerPeer
  <2>1. OfPeer(Recent, p)' \in SUBSET OfPeer(Recent, p)
    BY <1>3 DEF OfPeer, GrantsStay
  <2>2. IsFiniteSet(OfPeer(Recent, p))
    BY <1>f, FS_Subset DEF OfPeer
  <2> QED BY <2>1, <2>2, <1>m, <1>t, Fewer DEF Limited
<1>7. ASSUME NEW ip \in IPs
      PROVE Cardinality(OfIP(Recent, ip)') <= MaxReservationsPerIP
  <2>1. OfIP(Recent, ip)' \in SUBSET OfIP(Recent, ip)
    BY <1>3 DEF OfIP, GrantsStay
  <2>2. IsFiniteSet(OfIP(Recent, ip))
    BY <1>f, FS_Subset DEF OfIP
  <2> QED BY <2>1, <2>2, <1>m, <1>t, Fewer DEF Limited
<1>8. ASSUME NEW asn \in ASNs
      PROVE Cardinality(OfASN(Recent, asn)') <= MaxReservationsPerASN
  <2>1. OfASN(Recent, asn)' \in SUBSET OfASN(Recent, asn)
    BY <1>3 DEF OfASN, GrantsStay
  <2>2. IsFiniteSet(OfASN(Recent, asn))
    BY <1>f, FS_Subset DEF OfASN
  <2> QED BY <2>1, <2>2, <1>m, <1>t, Fewer DEF Limited
<1> QED BY <1>4, <1>5, <1>6, <1>7, <1>8 DEF Limited

\* A grant was checked against every recent one.
LEMMA LimitedGrows ==
  ASSUME GrantInv, NEW p \in Peers, Grants(p)
  PROVE Limited' /\ Recent' \subseteq total'
<1> DEFINE live == Cleanup(total)
           n == Len(granted) + 1
<1>t. /\ TypeOK /\ Recent \subseteq total /\ Recent \subseteq live
      /\ Limited
  BY CleanupKeeps DEF GrantInv, GrantsBounded, Limited
<1>1. now \in Nat /\ Validity \in Nat /\ granted \in Seq([peer : Peers, at : Nat]) /\ Len(granted) \in Nat
  BY <1>t, RelayAssumption DEF TypeOK
<1>2. /\ Len(granted') = n
      /\ granted'[n] = [peer |-> p, at |-> now]
      /\ \A i \in 1..Len(granted) : granted'[i] = granted[i]
  BY <1>1 DEF Grants
<1>3. Recent' \subseteq Recent \cup {n}
  <2> SUFFICES ASSUME NEW i \in Recent', i # n
               PROVE i \in Recent
    OBVIOUS
  <2>1. i \in 1..Len(granted') /\ ~Expired(i)'
    BY DEF Recent
  <2>2. i \in 1..Len(granted)
    BY <2>1, <1>1, <1>2
  <2>3. ~(granted'[i].at + Validity <= now')
    BY <2>1 DEF Expired
  <2>4. ~Expired(i)
    BY <2>2, <2>3, <1>2 DEF Expired, Grants
  <2> QED BY <2>2, <2>4 DEF Recent
<1>4. Recent' \subseteq total'
  BY <1>2, <1>3, <1>t DEF Grants
<1>5. live \subseteq 1..Len(granted) /\ Recent \subseteq 1..Len(granted)
  BY <1>t DEF Cleanup, TypeOK, Recent
<1>f. IsFiniteSet(live) /\ IsFiniteSet(Recent)
  BY <1>t, <1>5, GrantsFinite
<1>m. {MaxReservations, MaxReservationsPerPeer, MaxReservationsPerIP, MaxReservationsPerASN} \subseteq Nat
  BY RelayAssumption
<1>i. \A i \in Recent : i \in live /\ granted'[i] = granted[i]
  BY <1>t, <1>2, <1>5
<1>a. /\ Cardinality(live) < MaxReservations
      /\ Cardinality(OfPeer(live, p)) < MaxReservationsPerPeer
      /\ Cardinality(OfIP(live, ipOf[p])) < MaxReservationsPerIP
      /\ asnOf[p] # NoASN => Cardinality(OfASN(live, asnOf[p])) < MaxReservationsPerASN
  BY DEF Grants, Allowed
<1> HIDE DEF live, n
<1>6. Cardinality(Recent') <= MaxReservations
  <2>1. Recent' \in SUBSET (live \cup {n})
    BY <1>3, <1>t
  <2> QED BY <2>1, <1>a, <1>f, <1>m, OneMore
<1>7. ASSUME NEW q \in Peers
      PROVE Cardinality(OfPeer(Recent, q)') <= MaxReservationsPerPeer
  <2>1. CASE q = p
    <3>1. OfPeer(Recent, q)' \in SUBSET (OfPeer(live, p) \cup {n})
      BY <2>1, <1>3, <1>i DEF OfPeer
    <3>2. IsFiniteSet(OfPeer(live, p))
      BY <1>f, FS_Subset DEF OfPeer
    <3> QED BY <3>1, <3>2, <1>a, <1>m, OneMore
  <2>2. CASE q # p
    <3>1. OfPeer(Recent, q)' \in SUBSET OfPeer(Recent, q)
      BY <2>2, <1>2, <1>3, <1>i DEF OfPeer
    <3>2. IsFiniteSet(OfPeer(Recent, q))
      BY <1>f, FS_Subset DEF OfPeer
    <3> QED BY <3>1, <3>2, <1>m, <1>t, Fewer DEF Limited
  <2> QED BY <2>1, <2>2
<1>8. ASSUME NEW ip \in IPs
      PROVE Cardinality(OfIP(Recent, ip)') <= MaxReservationsPerIP
  <2>1. CASE ip = ipOf[p]
    <3>1. OfIP(Recent, ip)' \in SUBSET (OfIP(live, ipOf[p]) \cup {n})
      BY <2>1, <1>3, <1>i DEF OfIP
    <3>2. IsFiniteSet(OfIP(live, ipOf[p]))
      BY <1>f, FS_Subset DEF OfIP
    <3> QED BY <3>1, <3>2, <1>a, <1>m, OneMore
  <2>2. CASE ip # ipOf[p]
    <3>1. OfIP(Recent, ip)' \in SUBSET OfIP(Recent, ip)
      BY <2>2, <1>2, <1>3, <1>i DEF OfIP
    <3>2. IsFiniteSet(OfIP(Recent, ip))
      BY <1>f, FS_Subset DEF OfIP
    <3> QED BY <3>1, <3>2, <1>m, <1>t, Fewer DEF Limited
  <2> QED BY <2>1, <2>2
<1>9. ASSUME NEW asn \in ASNs
      PROVE Cardinality(OfASN(Recent, asn)') <= MaxReservationsPerASN
  <2>1. CASE asn = asnOf[p]
    <3>1. OfASN(Recent, asn)' \in SUBSET (OfASN(live, asnOf[p]) \cup {n})
      BY <2>1, <1>3, <1>i DEF OfASN
    <3>2. IsFiniteSet(OfASN(live, asnOf[p]))
      BY <1>f, FS_Subset DEF OfASN
    <3>3. asnOf[p] # NoASN
      BY <2>1, RelayAssumption
    <3> QED BY <3>1, <3>2, <3>3, <1>a, <1>m, OneMore
  <2>2. CASE asn # asnOf[p]
    <3>1. OfASN(Recent, asn)' \in SUBSET OfASN(Recent, asn)
      BY <2>2, <1>2, <1>3, <1>i DEF OfASN
    <3>2. IsFiniteSet(OfASN(Recent, asn))
      BY <1>f, FS_Subset DEF OfASN
    <3> QED BY <3>1, <3>2, <1>m, <1>t, Fewer DEF Limited
  <2> QED BY <2>1, <2>2
<1> QED BY <1>4, <1>6, <1>7, <1>8, <1>9 DEF Limited

\* Once Close has returned, nobody reserves again.
LEMMA ClosedKept ==
  ASSUME TypeOK, closed = "yes" => \A p \in Peers : rsvp[p] = 0, [Next]_vars
  PROVE closed' = "yes" => \A p \in Peers : rsvp'[p] = 0
<1>t. rsvp \in [Peers -> Nat]
  BY DEF TypeOK
<1>1. CASE UNCHANGED <<closed, rsvp>>
  BY <1>1
<1>2. ASSUME NEW p \in Peers,
             Connect(p) \/ Disconnect(p) \/ DisconnectedCheck(p) \/ TagsDropped(p)
      PROVE UNCHANGED <<closed, rsvp>>
  BY <1>2 DEF Connect, Disconnect, DisconnectedCheck, TagsDropped, tableVars
<1>3. ASSUME NEW p \in Peers, DisconnectedDelete(p)
      PROVE closed' = "yes" => \A q \in Peers : rsvp'[q] = 0
  BY <1>3, <1>t DEF DisconnectedDelete
<1>4. ASSUME NEW h \in Handlers,
             HandleStream(h) \/ Refuse(h) \/ BeginSpan(h) \/ CheckConnect(h) \/ OpenStop(h)
               \/ Handshake(h) \/ ConnectFails(h) \/ CopyEnds(h)
      PROVE UNCHANGED <<closed, rsvp>>
  BY <1>4 DEF HandleStream, Refuse, BeginSpan, CheckConnect, OpenStop, Handshake, ConnectFails,
              CopyEnds, CleanupCircuit, tableVars
<1>5. ASSUME NEW h \in Handlers, HandleReserve(h)
      PROVE closed' = "yes" => \A q \in Peers : rsvp'[q] = 0
  BY <1>5 DEF HandleReserve
<1>6. ASSUME GC \/ Close \/ Tick
      PROVE UNCHANGED <<closed, rsvp>> \/ closed' # "yes"
  BY <1>6 DEF GC, Close, Tick, tableVars
<1>7. ASSUME CloseCollects
      PROVE \A q \in Peers : rsvp'[q] = 0
  BY <1>7 DEF CloseCollects, CollectReservations
<1> QED BY <1>1, <1>2, <1>3, <1>4, <1>5, <1>6, <1>7 DEF Next, HandlerStep, vars, tableVars

\* Every step keeps the invariant of the grants.
LEMMA GrantInvKept ==
  ASSUME CircuitInv, GrantInv, [Next]_vars
  PROVE GrantInv'
<1>1. TypeOK'
  BY NextTyped DEF CircuitInv, GrantInv
<1>2. Limited' /\ Recent' \subseteq total'
  BY GrantSteps, LimitedStays, LimitedGrows DEF GrantInv
<1>3. closed' = "yes" => \A p \in Peers : rsvp'[p] = 0
  BY ClosedKept DEF GrantInv, GrantsBounded
<1>4. GrantsBounded'
  BY <1>2, <1>3 DEF GrantsBounded, Limited
<1> QED BY <1>1, <1>2, <1>4 DEF GrantInv

\* The relay begins with nothing.
LEMMA InitEmpty == Init => CircuitInv /\ GrantInv
<1> SUFFICES ASSUME Init
             PROVE CircuitInv /\ GrantInv
  OBVIOUS
<1>1. TypeOK
  BY InitTyped
<1>e. /\ Cardinality({}) = 0
      /\ {MaxReservations, MaxReservationsPerPeer, MaxReservationsPerIP, MaxReservationsPerASN,
          MaxCircuits} \subseteq Nat
  BY FS_EmptySet, RelayAssumption
<1>2. \A h \in Handlers : ~InCircuit(h) /\ at[h] # "check" /\ at[h] # "relay"
  BY DEF Init, InCircuit
<1>3. \A p \in Peers : From(p) = {} /\ To(p) = {} /\ Circuits(p) = {} /\ conns[p] = 0
  BY <1>2 DEF From, To, Circuits, Init
<1>4. spans = {h \in Handlers : at[h] = "check" \/ InCircuit(h)} /\ hopTagged = {}
  BY <1>2 DEF Init
<1>5. CircuitsCounted
  <2>1. \A p \in Peers : conns[p] = Cardinality(From(p)) + Cardinality(To(p))
                         /\ Cardinality(Circuits(p)) <= MaxCircuits
    BY <1>3, <1>e
  <2> QED BY <1>1, <1>4, <2>1 DEF CircuitsCounted, From, To
<1>6. Copied
  BY <1>2 DEF Copied
<1>7. Recent = {}
  BY EmptySeq DEF Recent, Init
<1>8. GrantsBounded
  <2>1. /\ \A p \in Peers : OfPeer(Recent, p) = {}
        /\ \A ip \in IPs : OfIP(Recent, ip) = {}
        /\ \A asn \in ASNs : OfASN(Recent, asn) = {}
    BY <1>7 DEF OfPeer, OfIP, OfASN
  <2>2. closed # "yes"
    BY DEF Init
  <2>3. /\ Cardinality(Recent) <= MaxReservations
        /\ \A p \in Peers : Cardinality(OfPeer(Recent, p)) <= MaxReservationsPerPeer
        /\ \A ip \in IPs : Cardinality(OfIP(Recent, ip)) <= MaxReservationsPerIP
        /\ \A asn \in ASNs : Cardinality(OfASN(Recent, asn)) <= MaxReservationsPerASN
    <3>1. \A m \in Nat : Cardinality({}) <= m
      BY <1>e
    <3>2. /\ MaxReservations \in Nat /\ MaxReservationsPerPeer \in Nat
          /\ MaxReservationsPerIP \in Nat /\ MaxReservationsPerASN \in Nat
      BY <1>e
    <3> QED BY <1>7, <2>1, <3>1, <3>2, Zenon
  <2> QED BY <2>2, <2>3 DEF GrantsBounded
<1> QED BY <1>1, <1>5, <1>6, <1>7, <1>8 DEF CircuitInv, GrantInv

\* Whatever fails and whenever, and whoever comes, goes and closes the service, the relay
\* keeps its limits: conns counts the circuits of every peer exactly, within MaxCircuits,
\* every span and hop tag is given back, and in no window of the validity are more
\* reservations granted than the four constraints allow
\* (relay.go: handleReserve, handleConnect, gc, Close; constraints.go: AddReservation).
THEOREM LimitsKept == Spec => []RelayBounded
<1>1. CircuitInv /\ GrantInv /\ [Next]_vars => (CircuitInv /\ GrantInv)'
  BY CircuitInvKept, GrantInvKept
<1>2. CircuitInv /\ GrantInv => RelayBounded
  BY DEF CircuitInv, GrantInv, RelayBounded
<1> QED BY <1>1, <1>2, InitEmpty, PTL DEF Spec

============================================================================
