-------------------------- MODULE ComponentProofs --------------------------
(***************************************************************************)
(* What is proved of the smaller components, each in a section of its own: *)
(* the dial backoff, the connection gater, the upgrader's listener, the    *)
(* hole puncher, the relay client, WebTransport sessions and certificates. *)
(* A section is an inductive invariant, a lemma for each kind of step, and *)
(* the theorem.                                                            *)
(***************************************************************************)
EXTENDS DialBackoff, Admission, HolePunch, CircuitClient, WebTransport, Sequences, FiniteSets,
        FiniteSetTheorems, TLAPS

----------------------------------------------------------------------------
(* The dial backoff, for any peers, addresses and backoff parameters.  The  *)
(* invariant bounds until by the time of the last backoff, which is         *)
(* computed from one failure less than are recorded now; a backoff never    *)
(* exceeds BackoffMax, but grows only as long as the formula fits into a    *)
(* time.Duration.                                                           *)

\* The backoff that the last of t > 0 failures started.
LastTime(t) == IF t = 1 THEN BackoffBase ELSE backoffTime(t - 1)

BackoffInv ==
  /\ TypeOK
  /\ \A p \in Peers, a \in Addrs :
       IF tries[p][a] = 0 THEN until[p][a] = 0
       ELSE until[p][a] <= now + LastTime(tries[p][a])

\* The square and its multiples grow.
LEMMA SquareGrows ==
  ASSUME NEW c \in Nat, NEW t \in Nat
  PROVE  /\ t * t \in Nat /\ c * (t * t) \in Nat
         /\ c * (t * t) <= c * ((t + 1) * (t + 1))
<1>1. t * t \in Nat /\ (t + 1) * (t + 1) = t * t + 2 * t + 1
  OBVIOUS
<1> DEFINE x == t * t
           d == 2 * t + 1
<1>2. x \in Nat /\ d \in Nat /\ (t + 1) * (t + 1) = x + d
  BY <1>1
<1> HIDE DEF x, d
<1>3. c * (x + d) = c * x + c * d
  BY <1>2
<1>4. c * x \in Nat /\ c * d \in Nat
  BY <1>2
<1>5. c * x <= c * (x + d)
  BY <1>3, <1>4
<1>6. QED
  BY <1>1, <1>2, <1>4, <1>5 DEF x

\* What the formula gives, and that it grows.
LEMMA QuadraticGrows ==
  ASSUME NEW t \in Nat
  PROVE  /\ Quadratic(t) \in Nat /\ BackoffBase <= Quadratic(t)
         /\ Quadratic(t + 1) \in Nat /\ Quadratic(t) <= Quadratic(t + 1)
<1>1. /\ BackoffCoef * (t * t) \in Nat /\ BackoffCoef * ((t + 1) * (t + 1)) \in Nat
      /\ BackoffCoef * (t * t) <= BackoffCoef * ((t + 1) * (t + 1))
  BY SquareGrows, BackoffAssumption
<1> DEFINE x == BackoffCoef * (t * t)
           y == BackoffCoef * ((t + 1) * (t + 1))
<1>2. Quadratic(t) = BackoffBase + x /\ Quadratic(t + 1) = BackoffBase + y
  BY DEF Quadratic
<1>3. x \in Nat /\ y \in Nat /\ x <= y
  BY <1>1
<1> HIDE DEF x, y
<1>4. QED
  BY <1>2, <1>3, BackoffAssumption

\* Wrap gives an integer, and the number itself where it fits.
LEMMA WrapFacts ==
  ASSUME NEW d \in Nat
  PROVE  Wrap(d) \in Int /\ (d <= MaxDuration => Wrap(d) = d)
<1> DEFINE m == 2 * (MaxDuration + 1)
           n == d + MaxDuration + 1
<1>1. m \in Nat \ {0} /\ n \in Nat /\ MaxDuration \in Nat
  BY BackoffAssumption
<1>2. Wrap(d) = IF d <= MaxDuration THEN d ELSE (n % m) - (MaxDuration + 1)
  BY DEF Wrap
<1> HIDE DEF m, n
<1>3. n % m \in Int
  BY <1>1
<1>4. QED
  BY <1>1, <1>2, <1>3

\* A backoff never lasts longer than BackoffMax; before the overflow it lasts for
\* BackoffBase at least, and longer after more failures.
LEMMA TimeFacts ==
  ASSUME NEW t \in Nat
  PROVE  /\ backoffTime(t) \in Int /\ backoffTime(t) <= BackoffMax
         /\ Fits(t) => BackoffBase <= backoffTime(t)
         /\ Fits(t + 1) => backoffTime(t) <= backoffTime(t + 1)
<1>1. /\ Quadratic(t) \in Nat /\ BackoffBase <= Quadratic(t)
      /\ Quadratic(t + 1) \in Nat /\ Quadratic(t) <= Quadratic(t + 1)
  BY QuadraticGrows
<1>2. /\ Wrap(Quadratic(t)) \in Int /\ (Fits(t) => Wrap(Quadratic(t)) = Quadratic(t))
      /\ Wrap(Quadratic(t + 1)) \in Int
      /\ (Fits(t + 1) => Wrap(Quadratic(t + 1)) = Quadratic(t + 1))
  BY <1>1, WrapFacts DEF Fits
<1>3. Fits(t + 1) => Fits(t)
  BY <1>1, BackoffAssumption DEF Fits
<1>4. backoffTime(t) \in Int /\ backoffTime(t) <= BackoffMax
  BY <1>2, BackoffAssumption DEF backoffTime
<1>5. Fits(t) => BackoffBase <= backoffTime(t)
  BY <1>1, <1>2, BackoffAssumption DEF backoffTime
<1>6. Fits(t + 1) => backoffTime(t) <= backoffTime(t + 1)
  BY <1>1, <1>2, <1>3, BackoffAssumption DEF backoffTime
<1>7. QED
  BY <1>4, <1>5, <1>6

\* Before the overflow, the last backoff is no longer than the one that the next failure
\* starts.
LEMMA LastTimeFacts ==
  ASSUME NEW t \in Nat \ {0}
  PROVE  /\ LastTime(t) \in Int /\ LastTime(t) <= BackoffMax
         /\ Fits(t) => LastTime(t) <= backoffTime(t)
         /\ LastTime(t + 1) = backoffTime(t)
<1>1. CASE t = 1
  BY <1>1, TimeFacts, BackoffAssumption DEF LastTime
<1>2. CASE t # 1
  <2>1. t - 1 \in Nat /\ (t - 1) + 1 = t
    OBVIOUS
  <2>2. /\ backoffTime(t - 1) \in Int /\ backoffTime(t - 1) <= BackoffMax
        /\ Fits((t - 1) + 1) => backoffTime(t - 1) <= backoffTime((t - 1) + 1)
    BY <2>1, TimeFacts
  <2>3. backoffTime((t - 1) + 1) = backoffTime(t) /\ Fits((t - 1) + 1) = Fits(t)
    BY <2>1
  <2>4. LastTime(t) = backoffTime(t - 1) /\ t + 1 # 1 /\ (t + 1) - 1 = t
    BY <1>2 DEF LastTime
  <2>5. LastTime(t + 1) = backoffTime(t)
    BY <2>4 DEF LastTime
  <2>6. QED
    BY <2>2, <2>3, <2>4, <2>5
<1>3. QED
  BY <1>1, <1>2

\* The entry of address a of peer p agrees with its number of failures.
EntryInv(p, a) ==
  IF tries[p][a] = 0 THEN until[p][a] = 0
  ELSE until[p][a] <= now + LastTime(tries[p][a])

\* The initial state: no entries.
LEMMA BackoffInvInit == Init => BackoffInv
<1> SUFFICES ASSUME Init
             PROVE  BackoffInv
  OBVIOUS
<1>1. NoEntries \in [Addrs -> Nat] /\ NoEntries \in [Addrs -> Int]
  BY DEF NoEntries
<1>2. TypeOK
  BY <1>1 DEF Init, TypeOK
<1>3. \A p \in Peers, a \in Addrs : tries[p][a] = 0 /\ until[p][a] = 0
  BY DEF Init, NoEntries
<1>4. QED
  BY <1>2, <1>3 DEF BackoffInv

\* A failure was recorded for an address.
LEMMA AddBackoffInv ==
  ASSUME BackoffInv, NEW p \in Peers, NEW a \in Addrs, AddBackoff(p, a)
  PROVE  BackoffInv' /\ (Fits(tries[p][a]) => until[p][a] <= until'[p][a])
<1> DEFINE t == tries[p][a]
           bt == IF t = 0 THEN BackoffBase ELSE backoffTime(t)
<1>1. /\ now \in Nat /\ tries \in [Peers -> [Addrs -> Nat]]
      /\ until \in [Peers -> [Addrs -> Int]] /\ now' = now /\ ctxDone' \in BOOLEAN
  BY DEF BackoffInv, TypeOK, AddBackoff
<1>2. t \in Nat /\ bt \in Int
  BY <1>1, TimeFacts, BackoffAssumption
<1>3. LastTime(t + 1) = bt
  <2>1. CASE t = 0
    BY <2>1 DEF LastTime
  <2>2. CASE t # 0
    BY <2>2, <1>2, LastTimeFacts
  <2>3. QED
    BY <2>1, <2>2
<1>4. Fits(tries[p][a]) => until[p][a] <= now + bt
  <2>1. CASE t = 0
    BY <2>1, <1>1, <1>2, BackoffAssumption DEF BackoffInv
  <2>2. CASE t # 0
    <3>1. (Fits(t) => LastTime(t) <= bt) /\ LastTime(t) \in Int
      BY <2>2, <1>2, LastTimeFacts
    <3>2. until[p][a] <= now + LastTime(t) /\ until[p][a] \in Int
      BY <2>2, <1>1 DEF BackoffInv
    <3>3. QED
      BY <3>1, <3>2, <1>1, <1>2
  <2>3. QED
    BY <2>1, <2>2
<1>5. /\ tries' = [tries EXCEPT ![p][a] = t + 1]
      /\ until' = [until EXCEPT ![p][a] = now + bt]
  BY DEF AddBackoff
<1> HIDE DEF t, bt
<1>6. tries' \in [Peers -> [Addrs -> Nat]] /\ until' \in [Peers -> [Addrs -> Int]]
  BY <1>1, <1>2, <1>5
<1>7. tries'[p][a] = t + 1 /\ until'[p][a] = now + bt /\ t + 1 # 0
  BY <1>1, <1>2, <1>5
<1>8. ASSUME NEW q \in Peers, NEW b \in Addrs
      PROVE  EntryInv(q, b)'
  <2>1. CASE q = p /\ b = a
    <3>1. EntryInv(p, a)'
      BY <1>1, <1>2, <1>3, <1>7 DEF EntryInv
    <3>2. QED
      BY <2>1, <3>1
  <2>2. CASE ~(q = p /\ b = a)
    <3>1. tries'[q][b] = tries[q][b] /\ until'[q][b] = until[q][b]
      BY <2>2, <1>1, <1>5
    <3>2. EntryInv(q, b)
      BY DEF BackoffInv, EntryInv
    <3>3. QED
      BY <3>1, <3>2, <1>1 DEF EntryInv
  <2>3. QED
    BY <2>1, <2>2
<1>9. QED
  BY <1>1, <1>4, <1>6, <1>7, <1>8 DEF BackoffInv, TypeOK, EntryInv

\* Clearing a peer and the cleanup keep or drop the whole entry of a peer.
LEMMA ForgetInv ==
  ASSUME BackoffInv, now' = now, ctxDone' = ctxDone, NEW Kept \in SUBSET Peers,
         tries' = [p \in Peers |-> IF p \in Kept THEN tries[p] ELSE NoEntries],
         until' = [p \in Peers |-> IF p \in Kept THEN until[p] ELSE NoEntries]
  PROVE  BackoffInv'
<1>1. /\ now \in Nat /\ ctxDone \in BOOLEAN /\ tries \in [Peers -> [Addrs -> Nat]]
      /\ until \in [Peers -> [Addrs -> Int]] /\ NoEntries \in [Addrs -> Nat]
      /\ NoEntries \in [Addrs -> Int]
  BY DEF BackoffInv, TypeOK, NoEntries
<1>2. TypeOK'
  BY <1>1 DEF TypeOK
<1>3. ASSUME NEW q \in Peers, NEW b \in Addrs
      PROVE  EntryInv(q, b)'
  <2>1. CASE q \in Kept
    <3>1. tries'[q][b] = tries[q][b] /\ until'[q][b] = until[q][b]
      BY <2>1
    <3>2. EntryInv(q, b)
      BY DEF BackoffInv, EntryInv
    <3>3. QED
      BY <3>1, <3>2 DEF EntryInv
  <2>2. CASE q \notin Kept
    <3>1. tries'[q][b] = 0 /\ until'[q][b] = 0
      BY <2>2 DEF NoEntries
    <3>2. QED
      BY <3>1 DEF EntryInv
  <2>3. QED
    BY <2>1, <2>2
<1>4. QED
  BY <1>2, <1>3 DEF BackoffInv, EntryInv

\* The clock advances.
LEMMA TickInv ==
  ASSUME BackoffInv, Tick
  PROVE  BackoffInv'
<1>1. /\ now \in Nat /\ tries \in [Peers -> [Addrs -> Nat]]
      /\ until \in [Peers -> [Addrs -> Int]]
      /\ now' = now + 1 /\ tries' = tries /\ until' = until /\ ctxDone' \in BOOLEAN
  BY DEF BackoffInv, TypeOK, Tick
<1>2. ASSUME NEW q \in Peers, NEW b \in Addrs
      PROVE  EntryInv(q, b)'
  <2>1. EntryInv(q, b) /\ tries[q][b] \in Nat /\ until[q][b] \in Int
    BY <1>1 DEF BackoffInv, EntryInv
  <2>2. tries[q][b] # 0 => LastTime(tries[q][b]) \in Int
    BY <2>1, LastTimeFacts
  <2>3. QED
    BY <2>1, <2>2, <1>1 DEF EntryInv
<1>3. QED
  BY <1>1, <1>2 DEF BackoffInv, TypeOK, EntryInv

\* Clear and Cleanup as steps of ForgetInv.
LEMMA ForgetSteps ==
  ASSUME BackoffInv, Cleanup \/ \E p \in Peers : Clear(p)
  PROVE  BackoffInv'
<1>1. tries \in [Peers -> [Addrs -> Nat]] /\ until \in [Peers -> [Addrs -> Int]]
  BY DEF BackoffInv, TypeOK
<1>2. CASE Cleanup
  <2> DEFINE K == {p \in Peers : Good(p)}
  <2>1. /\ now' = now /\ ctxDone' = ctxDone /\ K \in SUBSET Peers
        /\ tries' = [p \in Peers |-> IF p \in K THEN tries[p] ELSE NoEntries]
        /\ until' = [p \in Peers |-> IF p \in K THEN until[p] ELSE NoEntries]
    BY <1>2 DEF Cleanup
  <2>2. QED
    BY <2>1, ForgetInv
<1>3. ASSUME NEW p \in Peers, Clear(p)
      PROVE  BackoffInv'
  <2> DEFINE K == Peers \ {p}
  <2>1. /\ now' = now /\ ctxDone' = ctxDone /\ K \in SUBSET Peers
        /\ tries' = [q \in Peers |-> IF q \in K THEN tries[q] ELSE NoEntries]
        /\ until' = [q \in Peers |-> IF q \in K THEN until[q] ELSE NoEntries]
    BY <1>1, <1>3 DEF Clear
  <2>2. QED
    BY <2>1, ForgetInv
<1>4. QED
  BY <1>2, <1>3

\* Every step keeps the inductive invariant.
LEMMA BackoffInvNext == BackoffInv /\ [Next]_vars => BackoffInv'
<1> SUFFICES ASSUME BackoffInv, [Next]_vars
             PROVE  BackoffInv'
  OBVIOUS
<1>1. CASE UNCHANGED vars
  BY <1>1 DEF vars, BackoffInv, TypeOK
<1>2. CASE \E p \in Peers, a \in Addrs : AddBackoff(p, a)
  BY <1>2, AddBackoffInv
<1>3. CASE Cleanup \/ \E p \in Peers : Clear(p)
  BY <1>3, ForgetSteps
<1>4. CASE Tick
  BY <1>4, TickInv
<1>5. CASE CtxDone
  BY <1>5 DEF CtxDone, BackoffInv, TypeOK
<1>6. QED
  BY <1>1, <1>2, <1>3, <1>4, <1>5 DEF Next

\* The inductive invariant holds in every reachable state.
THEOREM BackoffInvariance == Spec => []BackoffInv
  BY BackoffInvInit, BackoffInvNext, PTL DEF Spec

\* Entries are numbers and moments, for every peer and address, whatever
\* AddBackoff, Clear and cleanup do to the maps.
THEOREM TypeCorrect == Spec => []TypeOK
<1>1. BackoffInv => TypeOK
  BY DEF BackoffInv
<1>2. QED
  BY <1>1, BackoffInvariance, PTL

\* No address is kept in backoff for longer than BackoffMax.
THEOREM BackoffsBounded == Spec => []BackoffBounded
<1>1. BackoffInv => BackoffBounded
  <2> SUFFICES ASSUME BackoffInv, NEW p \in Peers, NEW a \in Addrs, Backoff(p, a)
               PROVE  until[p][a] - now <= BackoffMax
    BY DEF BackoffBounded
  <2>1. /\ tries[p][a] \in Nat \ {0} /\ until[p][a] \in Int /\ now \in Nat
        /\ until[p][a] <= now + LastTime(tries[p][a])
    BY DEF BackoffInv, TypeOK, Backoff
  <2>2. LastTime(tries[p][a]) \in Int /\ LastTime(tries[p][a]) <= BackoffMax
    BY <2>1, LastTimeFacts
  <2>3. QED
    BY <2>1, <2>2, BackoffAssumption
<1>2. QED
  BY <1>1, BackoffInvariance, PTL

\* Before the overflow a further failure never ends a backoff earlier: by LastTimeFacts
\* each backoff is at least as long as the one before, and time does not go back.
THEOREM MonotoneBackoff == Spec => NeverShortened
<1> DEFINE Step == \A p \in Peers, a \in Addrs :
                     tries'[p][a] > tries[p][a] /\ Fits(tries[p][a])
                       => until'[p][a] >= until[p][a]
<1>1. BackoffInv /\ [Next]_vars => [Step]_vars
  <2> SUFFICES ASSUME BackoffInv, Next, NEW p \in Peers, NEW a \in Addrs,
                      tries'[p][a] > tries[p][a], Fits(tries[p][a])
               PROVE  until'[p][a] >= until[p][a]
    OBVIOUS
  <2>1. /\ tries \in [Peers -> [Addrs -> Nat]] /\ until \in [Peers -> [Addrs -> Int]]
        /\ NoEntries \in [Addrs -> Nat] /\ NoEntries[a] = 0
    BY DEF BackoffInv, TypeOK, NoEntries
  <2>2. tries[p][a] \in Nat /\ until[p][a] \in Int
    BY <2>1
  <2>3. ASSUME NEW q \in Peers, NEW b \in Addrs, AddBackoff(q, b)
        PROVE  until'[p][a] >= until[p][a]
    <3>1. CASE q = p /\ b = a
      <4>1. AddBackoff(p, a)
        BY <2>3, <3>1
      <4>2. until[p][a] <= until'[p][a] /\ BackoffInv'
        BY <4>1, AddBackoffInv
      <4>3. until'[p][a] \in Int
        BY <4>2 DEF BackoffInv, TypeOK
      <4>4. QED
        BY <4>2, <4>3, <2>2
    <3>2. CASE ~(q = p /\ b = a)
      <4>1. tries'[p][a] = tries[p][a]
        BY <2>1, <2>3, <3>2 DEF AddBackoff
      <4>2. QED
        BY <4>1, <2>2
    <3>3. QED
      BY <3>1, <3>2
  <2>4. ASSUME tries'[p] = tries[p] \/ tries'[p] = NoEntries
        PROVE  FALSE
    BY <2>1, <2>2, <2>4
  <2>5. CASE Cleanup
    BY <2>4, <2>5 DEF Cleanup
  <2>6. CASE Tick \/ CtxDone
    BY <2>4, <2>6 DEF Tick, CtxDone
  <2>7. ASSUME NEW q \in Peers, Clear(q)
        PROVE  FALSE
    BY <2>1, <2>4, <2>7 DEF Clear
  <2>8. QED
    BY <2>3, <2>5, <2>6, <2>7 DEF Next
<1>2. QED
  BY <1>1, BackoffInvariance, PTL DEF Spec, NeverShortened

\* The cleanup forgets a peer only when none of its addresses came out of a backoff recently
\* and, before the overflow, none is in one.
THEOREM StaleOnly == Spec => ForgottenOnlyWhenStale
<1> DEFINE Step == \A p \in Peers, a \in Addrs :
                     tries[p][a] # 0 /\ tries'[p][a] = 0 /\ ~Clear(p)
                       => /\ now >= until[p][a] + backoffTime(tries[p][a])
                          /\ Fits(tries[p][a]) => ~Backoff(p, a)
<1>1. BackoffInv /\ [Next]_vars => [Step]_vars
  <2> SUFFICES ASSUME BackoffInv, Next, NEW p \in Peers, NEW a \in Addrs,
                      tries[p][a] # 0, tries'[p][a] = 0, ~Clear(p)
               PROVE  /\ now >= until[p][a] + backoffTime(tries[p][a])
                      /\ Fits(tries[p][a]) => ~Backoff(p, a)
    OBVIOUS
  <2>1. /\ now \in Nat /\ tries \in [Peers -> [Addrs -> Nat]]
        /\ until \in [Peers -> [Addrs -> Int]]
    BY DEF BackoffInv, TypeOK
  <2>2. tries[p][a] \in Nat /\ until[p][a] \in Int /\ backoffTime(tries[p][a]) \in Int
        /\ (Fits(tries[p][a]) => BackoffBase <= backoffTime(tries[p][a]))
    BY <2>1, TimeFacts
  <2>3. CASE Cleanup
    <3>1. ~Good(p)
      BY <2>3 DEF Cleanup
    <3>2. now >= until[p][a] + backoffTime(tries[p][a])
      BY <3>1, <2>1, <2>2 DEF Good
    <3>3. Fits(tries[p][a]) => now >= until[p][a]
      BY <3>2, <2>1, <2>2, BackoffAssumption
    <3>4. QED
      BY <3>2, <3>3, <2>1, <2>2 DEF Backoff
  <2>4. CASE Tick \/ CtxDone
    BY <2>4 DEF Tick, CtxDone
  <2>5. ASSUME NEW q \in Peers, Clear(q)
        PROVE  FALSE
    <3>1. q # p
      BY <2>5
    <3>2. tries'[p] = tries[p]
      BY <3>1, <2>1, <2>5 DEF Clear
    <3>3. QED
      BY <3>2
  <2>6. ASSUME NEW q \in Peers, NEW b \in Addrs, AddBackoff(q, b)
        PROVE  FALSE
    <3>1. tries'[p][a] = tries[p][a] \/ tries'[p][a] = tries[p][a] + 1
      BY <2>1, <2>6 DEF AddBackoff
    <3>2. QED
      BY <3>1, <2>2
  <2>7. QED
    BY <2>3, <2>4, <2>5, <2>6 DEF Next
<1>2. QED
  BY <1>1, BackoffInvariance, PTL DEF Spec, ForgottenOnlyWhenStale

----------------------------------------------------------------------------
(* The connection gater, for any peers, addresses, subnets and any number   *)
(* of callers and attempts.  What the finished calls entitle to is in the   *)
(* datastore and in memory, and no call under way is against it.            *)

\* An address without an IP is none, and in no subnet.
GCall == [at : {"store", "memory"}, op : {"block", "unblock"}, rule : Rules, sure : BOOLEAN]
GTry == [at : {"first", "open"}, p : GPeers, ip : GIPs \union {NoIP}, dir : {"in", "out"}, must : SUBSET Rules]

GateTypeOK ==
  /\ withDs \in BOOLEAN /\ stored \subseteq Rules /\ blocked \subseteq Rules
  /\ gater \in {"down", "up"} \union Kinds
  /\ known \in [Rules -> {"blocked", "open", "unsure"}]
  /\ calls \in [GCallers -> GCall \union {NoGateCall}]
  /\ attempts \in [Attempts -> GTry \union {NoAttempt}]

\* c is under way and about r.
About(c, r) == calls[c].at # "none" /\ calls[c].rule = r

\* What is known of a rule is so in the datastore and, while the gater is up and unless it was not
\* read, in memory, and no call under way is going to change it.
KnownStored ==
  \A r \in Rules :
    /\ known[r] = "blocked" /\ withDs => r \in stored
    /\ known[r] = "open" /\ withDs => r \notin stored
KnownInForce ==
  gater = "up" => \A r \in Rules : /\ known[r] = "blocked" => r \in blocked \cup unread
                                   /\ known[r] = "open" => r \notin blocked
NobodyObjects ==
  \A c \in GCallers, r \in Rules :
    About(c, r) => /\ (known[r] = "blocked" => calls[c].op = "block")
                   /\ (known[r] = "open" => calls[c].op = "unblock")

\* A call that is sure of its outcome has no opponent, and its write to the datastore stands.
SureAlone ==
  \A c \in GCallers, d \in GCallers : \A r \in Rules :
    About(c, r) /\ About(d, r) /\ calls[c].sure => calls[d].op = calls[c].op
SureStored ==
  \A c \in GCallers :
    calls[c].at = "memory" /\ calls[c].sure /\ withDs =>
      /\ calls[c].op = "block" => calls[c].rule \in stored
      /\ calls[c].op = "unblock" => calls[c].rule \notin stored

\* While it is not up the gater has no calls and no attempts, and it has the rules read so far.
Quiet ==
  gater # "up" => /\ \A c \in GCallers : calls[c].at = "none"
                  /\ \A a \in Attempts : attempts[a].at = "none"
Loading ==
  /\ gater \in Kinds => withDs
  /\ gater = "down" => blocked = {} /\ (withDs \/ \A r \in Rules : known[r] = "open")
  /\ gater = "peer" => blocked = {}
  /\ gater = "addr" => blocked = stored \intersect GPeers
  /\ gater = "subnet" => blocked = stored \intersect (GPeers \union GIPs)

\* Of an attempt under way the rules that bind it are known, and the first interception has seen to
\* those it looks for.
Bound ==
  \A a \in Attempts : attempts[a].at # "none" =>
    /\ \A r \in attempts[a].must : Entitled(r)
    /\ attempts[a].must \subseteq Covering(attempts[a].p, attempts[a].ip)
    /\ attempts[a].dir = "out" => attempts[a].p \notin attempts[a].must
    /\ attempts[a].dir = "in" => attempts[a].must \subseteq {attempts[a].p}
    /\ attempts[a].at = "open" => attempts[a].must = {}

GateInv ==
  /\ GateTypeOK /\ KnownStored /\ KnownInForce /\ NobodyObjects /\ SureAlone /\ SureStored
  /\ Quiet /\ Loading /\ Bound

\* The gater starts with no rules and nothing under way.
LEMMA GateInvInit == GateInit => GateInv
  BY DEF GateInit, GateInv, GateTypeOK, KnownStored, KnownInForce, NobodyObjects, SureAlone, SureStored,
         Quiet, Loading, Bound, About, Kinds, NoGateCall, NoAttempt

\* A call begins: it makes its rule uncertain unless it repeats what is known, and takes the
\* certainty from the calls it is opposed to.
LEMMA GateBegin ==
  ASSUME GateInv, NEW c \in GCallers, NEW op \in {"block", "unblock"}, NEW r \in Rules, Begin(c, op, r)
  PROVE  GateInv'
  <1> USE DEF GateInv
  <1> DEFINE new == [at |-> IF withDs THEN "store" ELSE "memory", op |-> op, rule |-> r, sure |-> ~Opposed(op, r)]
             objects(d) == d # c /\ calls[d].at # "none" /\ calls[d].rule = r /\ calls[d].op # op
  <1>0. /\ new \in GCall /\ gater = "up" /\ calls[c].at = "none"
        /\ UNCHANGED <<withDs, stored, blocked, gater, unread>>
        /\ calls'[c] = new
        /\ \A d \in GCallers : objects(d) => calls'[d] = [calls[d] EXCEPT !.sure = FALSE]
        /\ \A d \in GCallers : d # c /\ ~objects(d) => calls'[d] = calls[d]
        /\ DOMAIN calls' = GCallers /\ calls' = [d \in GCallers |-> calls'[d]]
    BY DEF Begin, GCall, GateTypeOK, Opposed
  <1>1. ASSUME NEW d \in GCallers, d # c
        PROVE  /\ calls'[d].at = calls[d].at
               /\ calls[d].at # "none" => /\ calls'[d] \in GCall /\ calls'[d].op = calls[d].op
                                          /\ calls'[d].rule = calls[d].rule
                                          /\ (calls'[d].sure => calls[d].sure)
               /\ calls[d].at = "none" => calls'[d] = calls[d]
               /\ objects(d) => ~calls'[d].sure
    <2>1. calls[d] \in GCall \/ calls[d] = NoGateCall
      BY DEF GateTypeOK
    <2>2. CASE objects(d)
      <3>1. calls[d] \in GCall /\ calls'[d] = [calls[d] EXCEPT !.sure = FALSE]
        BY <2>1, <2>2, <1>0, <1>1 DEF NoGateCall
      <3> QED BY <3>1, <2>2 DEF GCall
    <2>3. CASE ~objects(d)
      BY <2>1, <2>3, <1>0, <1>1 DEF NoGateCall, GCall
    <2> QED BY <2>2, <2>3
  <1>2. /\ \A x \in Rules : x # r => known'[x] = known[x]
        /\ known'[r] \in {known[r], "unsure"}
        /\ known'[r] = "blocked" => op = "block"
        /\ known'[r] = "open" => op = "unblock"
        /\ known' \in [Rules -> {"blocked", "open", "unsure"}]
    BY DEF Begin, GateTypeOK
  <1>3. /\ op = "block" => attempts' = attempts /\ (known[r] = "blocked" => known'[r] = "blocked")
        /\ attempts' \in [Attempts -> GTry \union {NoAttempt}]
        /\ \A a \in Attempts :
             /\ attempts'[a].at = attempts[a].at
             /\ attempts[a].at # "none" => /\ attempts'[a].p = attempts[a].p /\ attempts'[a].ip = attempts[a].ip
                                           /\ attempts'[a].dir = attempts[a].dir
                                           /\ attempts'[a].must \subseteq attempts[a].must
                                           /\ (op = "unblock" => r \notin attempts'[a].must)
    <2>1. CASE op = "block" BY <2>1 DEF Begin, GateTypeOK
    <2>2. CASE op = "unblock"
      <3>1. attempts' = [a \in Attempts |-> IF attempts[a].at = "none" THEN attempts[a] ELSE [attempts[a] EXCEPT !.must = @ \ {r}]]
        BY <2>2 DEF Begin
      <3> QED BY <3>1, <2>2 DEF GateTypeOK, GTry, NoAttempt
    <2> QED BY <2>1, <2>2
  <1>a. GateTypeOK'
    <2>1. \A d \in GCallers : calls'[d] \in GCall \union {NoGateCall}
      BY <1>0, <1>1 DEF GateTypeOK
    <2> QED BY <1>0, <1>2, <1>3, <2>1 DEF GateTypeOK, Rules, Kinds
  <1>b. KnownStored' /\ KnownInForce'
    BY <1>0, <1>2 DEF KnownStored, KnownInForce, Rules, GateTypeOK
  <1>c. NobodyObjects'
    BY <1>0, <1>1, <1>2 DEF NobodyObjects, About, Rules, GateTypeOK
  <1>d. SureAlone'
    <2> SUFFICES ASSUME NEW d \in GCallers, NEW e \in GCallers, NEW x \in Rules,
                        About(d, x)', About(e, x)', calls'[d].sure PROVE calls'[e].op = calls'[d].op
      BY DEF SureAlone, Rules
    <2>1. CASE d = c
      <3>0. calls'[d].op = op /\ calls'[d].rule = r
        BY <2>1, <1>0
      <3>a. ASSUME Opposed(op, r) PROVE FALSE
        <4>1. \E y \in GCallers : calls[y].at # "none" /\ calls[y].rule = r /\ calls[y].op # op
          BY <3>a DEF Opposed
        <4>2. calls'[c] = [at |-> IF withDs THEN "store" ELSE "memory", op |-> op, rule |-> r, sure |-> FALSE]
          BY <4>1 DEF Begin, Opposed
        <4> QED BY <4>2, <2>1
      <3>1. x = r /\ calls'[d].op = op /\ ~Opposed(op, r)
        BY <3>0, <3>a DEF About
      <3>2. e # c => calls[e].at # "none" /\ calls[e].rule = r /\ calls'[e].op = calls[e].op
        BY <3>1, <1>1 DEF About
      <3> QED BY <3>1, <3>2, <2>1 DEF Opposed
    <2>2. CASE d # c /\ e = c BY <2>2, <1>0, <1>1 DEF About
    <2>3. CASE d # c /\ e # c BY <2>3, <1>0, <1>1 DEF About, SureAlone
    <2> QED BY <2>1, <2>2, <2>3
  <1>e. SureStored'
    BY <1>0, <1>1 DEF SureStored
  <1>f. Quiet' /\ Loading'
    BY <1>0 DEF Quiet, Loading, Kinds
  <1>g. Bound'
    <2> SUFFICES ASSUME NEW a \in Attempts, attempts'[a].at # "none"
                 PROVE /\ \A x \in attempts'[a].must : known'[x] = "blocked" /\ x \notin unread'
                       /\ attempts'[a].must \subseteq Covering(attempts'[a].p, attempts'[a].ip)
                       /\ attempts'[a].dir = "out" => attempts'[a].p \notin attempts'[a].must
                       /\ attempts'[a].dir = "in" => attempts'[a].must \subseteq {attempts'[a].p}
                       /\ attempts'[a].at = "open" => attempts'[a].must = {}
      BY DEF Bound, Covering, Entitled
    <2>0. /\ attempts[a].at # "none" /\ attempts[a] \in GTry /\ attempts'[a].at = attempts[a].at
          /\ attempts'[a].p = attempts[a].p /\ attempts'[a].ip = attempts[a].ip /\ attempts'[a].dir = attempts[a].dir
          /\ attempts'[a].must \subseteq attempts[a].must
          /\ op = "unblock" => r \notin attempts'[a].must
      BY <1>3 DEF GateTypeOK, NoAttempt
    <2>1. ASSUME NEW x \in attempts'[a].must PROVE known'[x] = "blocked" /\ x \notin unread'
      <3>1. x \in Rules /\ known[x] = "blocked" /\ x \notin unread'
        BY <1>0, <2>0, <2>1 DEF Bound, GTry, Entitled
      <3>2. CASE x = r
        <4>1. op = "block" BY <2>0, <2>1, <3>2
        <4> QED BY <1>3, <3>1, <3>2, <4>1
      <3>3. CASE x # r BY <1>2, <3>1, <3>3
      <3> QED BY <3>2, <3>3
    <2> QED BY <2>0, <2>1 DEF Bound
  <1> QED BY <1>a, <1>b, <1>c, <1>d, <1>e, <1>f, <1>g

\* The datastore is written, or the call ends with the error.
LEMMA GatePersist ==
  ASSUME GateInv, NEW c \in GCallers, Persist(c)
  PROVE  GateInv'
  <1> USE DEF GateInv
  <1> DEFINE r == calls[c].rule
  <1>0. /\ UNCHANGED <<withDs, blocked, gater, attempts, known, unread>>
        /\ calls[c].at = "store" /\ calls[c] \in GCall /\ r \in Rules
        /\ \A d \in GCallers : d # c => calls'[d] = calls[d]
        /\ \/ /\ stored' = IF calls[c].op = "block" THEN stored \union {r} ELSE stored \ {r}
              /\ calls'[c] = [calls[c] EXCEPT !.at = "memory"]
           \/ stored' = stored /\ calls'[c] = NoGateCall
        /\ calls' = [d \in GCallers |-> calls'[d]]
    BY DEF Persist, GateTypeOK, GCall, NoGateCall
  <1>1. /\ gater = "up"
        /\ calls'[c].at \in {"memory", "none"}
        /\ calls'[c].at = "memory" => /\ calls'[c].op = calls[c].op /\ calls'[c].rule = r
                                      /\ calls'[c].sure = calls[c].sure /\ calls'[c] \in GCall
                                      /\ stored' = IF calls[c].op = "block" THEN stored \union {r} ELSE stored \ {r}
        /\ calls'[c].at = "none" => stored' = stored /\ calls'[c] = NoGateCall
    BY <1>0 DEF Quiet, GCall, NoGateCall
  <1>a. GateTypeOK'
    <2>1. \A d \in GCallers : calls'[d] \in GCall \union {NoGateCall}
      BY <1>0, <1>1 DEF GateTypeOK
    <2> QED BY <1>0, <1>1, <2>1 DEF GateTypeOK, Rules, Kinds
  <1>b. KnownStored' 
    BY <1>0, <1>1 DEF KnownStored, NobodyObjects, About, Rules, GateTypeOK, GCall
  <1>c. KnownInForce'
    BY <1>0 DEF KnownInForce, Rules
  <1>d. NobodyObjects'
    BY <1>0, <1>1 DEF NobodyObjects, About, Rules
  <1>e. SureAlone'
    BY <1>0, <1>1 DEF SureAlone, About, Rules
  <1>f. SureStored'
    <2> SUFFICES ASSUME NEW d \in GCallers, calls'[d].at = "memory", calls'[d].sure, withDs
                 PROVE  /\ calls'[d].op = "block" => calls'[d].rule \in stored'
                        /\ calls'[d].op = "unblock" => calls'[d].rule \notin stored'
      BY <1>0 DEF SureStored
    <2>1. CASE d = c BY <2>1, <1>1 DEF GCall
    <2>2. CASE d # c /\ calls[d].rule = r
      <3>1. calls[c].op = calls[d].op
        BY <2>2, <1>0 DEF SureAlone, About
      <3> QED BY <3>1, <2>2, <1>0, <1>1 DEF SureStored, GCall
    <2>3. CASE d # c /\ calls[d].rule # r
      BY <2>3, <1>0, <1>1 DEF SureStored
    <2> QED BY <2>1, <2>2, <2>3
  <1>g. Quiet' /\ Loading'
    BY <1>0, <1>1 DEF Quiet, Loading, Kinds
  <1>h. Bound'
    BY <1>0 DEF Bound, Covering, Entitled
  <1> QED BY <1>a, <1>b, <1>c, <1>d, <1>e, <1>f, <1>g, <1>h

\* The rule is changed in memory: the call's outcome is known if nobody opposed it.
LEMMA GateRemember ==
  ASSUME GateInv, NEW c \in GCallers, Remember(c)
  PROVE  GateInv'
  <1> USE DEF GateInv
  <1> DEFINE r == calls[c].rule
             outcome == IF calls[c].op = "block" THEN "blocked" ELSE "open"
  <1>0. /\ UNCHANGED <<withDs, stored, gater, attempts>>
        /\ calls[c].at = "memory" /\ calls[c] \in GCall /\ r \in Rules
        /\ blocked' = IF calls[c].op = "block" THEN blocked \union {r} ELSE blocked \ {r}
        /\ \A d \in GCallers : d # c => calls'[d] = calls[d]
        /\ calls'[c] = NoGateCall /\ calls' = [d \in GCallers |-> calls'[d]]
        /\ known' = IF calls[c].sure THEN [known EXCEPT ![r] = outcome] ELSE known
        /\ unread' = unread \ {r}
    <2>1. /\ UNCHANGED <<withDs, stored, gater, attempts>> /\ calls[c].at = "memory"
          /\ blocked' = IF calls[c].op = "block" THEN blocked \union {r} ELSE blocked \ {r}
          /\ calls' = [calls EXCEPT ![c] = NoGateCall]
          /\ known' = IF calls[c].sure THEN [known EXCEPT ![r] = outcome] ELSE known
          /\ unread' = unread \ {r}
      BY DEF Remember
    <2>2. calls[c] \in GCall
      BY <2>1 DEF GateTypeOK, NoGateCall
    <2> QED BY <2>1, <2>2 DEF GateTypeOK, GCall
  <1>1. /\ gater = "up" /\ calls'[c].at = "none"
        /\ \A x \in Rules : x # r => known'[x] = known[x]
        /\ known'[r] = IF calls[c].sure THEN outcome ELSE known[r]
        /\ known' \in [Rules -> {"blocked", "open", "unsure"}]
    BY <1>0 DEF Quiet, NoGateCall, GateTypeOK
  <1>2. known'[r] # known[r] => calls[c].sure /\ known'[r] = outcome
    BY <1>1
  <1>3. /\ known[r] = "blocked" => calls[c].op = "block"
        /\ known[r] = "open" => calls[c].op = "unblock"
    BY <1>0 DEF NobodyObjects, About
  <1>a. GateTypeOK'
    BY <1>0, <1>1 DEF GateTypeOK, Rules, Kinds
  <1>b. KnownStored'
    BY <1>0, <1>1, <1>2 DEF KnownStored, SureStored, GCall, Rules
  <1>c. KnownInForce'
    BY <1>0, <1>1, <1>2, <1>3 DEF KnownInForce, GCall, Rules
  <1>d. NobodyObjects'
    <2> SUFFICES ASSUME NEW d \in GCallers, NEW x \in Rules, About(d, x)'
                 PROVE  /\ known'[x] = "blocked" => calls'[d].op = "block"
                        /\ known'[x] = "open" => calls'[d].op = "unblock"
      BY DEF NobodyObjects, Rules
    <2>1. d # c /\ calls'[d] = calls[d] /\ About(d, x)
      BY <1>0, <1>1 DEF About
    <2>2. CASE x = r /\ calls[c].sure
      <3>1. calls[d].op = calls[c].op BY <2>1, <2>2, <1>0 DEF SureAlone, About
      <3> QED BY <3>1, <2>1, <2>2, <1>0, <1>1 DEF GCall
    <2>3. CASE x # r \/ ~calls[c].sure
      BY <2>1, <2>3, <1>1 DEF NobodyObjects
    <2> QED BY <2>2, <2>3
  <1>e. SureAlone' /\ SureStored'
    BY <1>0, <1>1 DEF SureAlone, SureStored, About, Rules
  <1>f. Quiet' /\ Loading'
    BY <1>0, <1>1 DEF Quiet, Loading, Kinds
  <1>g. Bound'
    <2>1. \A x \in Rules : known[x] = "blocked" => known'[x] = "blocked"
      BY <1>1, <1>3
    <2> QED BY <2>1, <1>0 DEF Bound, Covering, Entitled, GateTypeOK, GTry, NoAttempt
  <1> QED BY <1>a, <1>b, <1>c, <1>d, <1>e, <1>f, <1>g

\* A crash, the construction and the reading of the rules back.
LEMMA GateRestarts ==
  ASSUME GateInv, GateCrash \/ Construct \/ LoadRules \/ EntryFails
  PROVE  GateInv'
  <1> USE DEF GateInv, Kinds
  <1>1. CASE GateCrash
    <2>1. /\ gater' = "down" /\ blocked' = {} /\ UNCHANGED <<withDs, stored>>
          /\ \A c \in GCallers : calls'[c] = NoGateCall
          /\ \A a \in Attempts : attempts'[a] = NoAttempt
          /\ calls' = [c \in GCallers |-> NoGateCall] /\ attempts' = [a \in Attempts |-> NoAttempt]
          /\ known' = IF withDs THEN known ELSE [r \in Rules |-> "open"]
      BY <1>1 DEF GateCrash
    <2>2. GateTypeOK' BY <2>1 DEF GateTypeOK, Rules
    <2>3. KnownStored' /\ KnownInForce' BY <2>1 DEF KnownStored, KnownInForce, Rules, GateTypeOK
    <2>4. NobodyObjects' /\ SureAlone' /\ SureStored' /\ Quiet' /\ Bound'
      BY <2>1 DEF NobodyObjects, SureAlone, SureStored, Quiet, Bound, About, NoGateCall, NoAttempt
    <2>5. Loading' BY <2>1 DEF Loading, Rules
    <2> QED BY <2>2, <2>3, <2>4, <2>5
  <1>2. ASSUME gater # "up", UNCHANGED <<withDs, stored, calls, attempts>>
        PROVE  NobodyObjects' /\ SureAlone' /\ SureStored' /\ Quiet' /\ Bound'
    BY <1>2 DEF NobodyObjects, SureAlone, SureStored, Quiet, Bound, About
  <1>3. CASE Construct
    <2>1. /\ gater = "down" /\ gater' = IF withDs THEN "peer" ELSE "up"
          /\ UNCHANGED <<withDs, stored, blocked, calls, attempts, known, unread>>
      BY <1>3 DEF Construct
    <2>2. GateTypeOK' BY <2>1 DEF GateTypeOK, Rules
    <2>3. KnownStored' /\ KnownInForce' /\ Loading' BY <2>1 DEF KnownStored, KnownInForce, Loading, Rules, GateTypeOK
    <2> QED BY <2>1, <2>2, <2>3, <1>2
  <1>4. CASE LoadRules
    <2>1. /\ gater \in Kinds /\ UNCHANGED <<withDs, stored, calls, attempts, known>>
          /\ \/ blocked' = blocked \union (stored \intersect OfKind(gater)) /\ gater' = After(gater)
             \/ blocked' = {} /\ gater' = "down"
      BY <1>4 DEF LoadRules
    <2>2. GateTypeOK' BY <2>1 DEF GateTypeOK, Rules, OfKind, After
    <2>3. KnownStored' BY <2>1 DEF KnownStored, Rules
    <2>4. gater' = "up" => blocked' = stored /\ withDs
      BY <2>1 DEF Loading, GateTypeOK, Rules, OfKind, After
    <2>5. KnownInForce' BY <2>1, <2>4 DEF KnownStored, KnownInForce, Rules
    <2>6. Loading' BY <2>1 DEF Loading, Rules, OfKind, After
    <2> QED BY <2>1, <2>2, <2>3, <2>5, <2>6, <1>2
  <1>5. CASE EntryFails
    <2>1. /\ gater \in Kinds /\ gater' = "up" /\ UNCHANGED <<withDs, stored, calls, attempts, known>>
          /\ unread' = stored \ blocked'
      BY <1>5 DEF EntryFails
    <2>2. blocked' \subseteq stored
      BY <1>5 DEF EntryFails, Loading
    <2>3. GateTypeOK' BY <2>1, <2>2 DEF GateTypeOK, Rules
    <2>4. KnownStored' /\ KnownInForce' /\ Loading'
      BY <2>1, <2>2 DEF KnownStored, KnownInForce, Loading, Rules
    <2> QED BY <2>1, <2>3, <2>4, <1>2
  <1> QED BY <1>1, <1>3, <1>4, <1>5

\* The interceptions of an attempt, and its end.
LEMMA GateIntercepts ==
  ASSUME GateInv, NEW a \in Attempts,
         \/ \E p \in GPeers, ip \in GIPs \union {NoIP}, dir \in {"in", "out"} : FirstIntercept(a, p, ip, dir)
         \/ SecondIntercept(a) \/ AttemptEnds(a)
  PROVE  GateInv'
  <1> USE DEF GateInv
  <1>0. UNCHANGED <<withDs, stored, blocked, gater, calls, known, unread>>
    BY DEF FirstIntercept, SecondIntercept, AttemptEnds
  <1>1. /\ KnownStored' /\ KnownInForce' /\ NobodyObjects' /\ SureAlone' /\ SureStored' /\ Loading'
    BY <1>0 DEF KnownStored, KnownInForce, NobodyObjects, SureAlone, SureStored, Loading, About, Rules, Kinds
  <1>2. \A b \in Attempts : b # a => attempts'[b] = attempts[b]
    BY DEF FirstIntercept, SecondIntercept, AttemptEnds, GateTypeOK
  <1>3. /\ gater = "up" \/ attempts'[a].at = "none"
        /\ attempts' = [b \in Attempts |-> attempts'[b]]
        /\ attempts'[a] \in GTry \union {NoAttempt}
        /\ attempts'[a].at # "none" =>
             /\ \A r \in attempts'[a].must : Entitled(r)
             /\ attempts'[a].must \subseteq Covering(attempts'[a].p, attempts'[a].ip)
             /\ attempts'[a].dir = "out" => attempts'[a].p \notin attempts'[a].must
             /\ attempts'[a].dir = "in" => attempts'[a].must \subseteq {attempts'[a].p}
             /\ attempts'[a].at = "open" => attempts'[a].must = {}
    <2>1. ASSUME NEW p \in GPeers, NEW ip \in GIPs \union {NoIP}, NEW dir \in {"in", "out"}, FirstIntercept(a, p, ip, dir)
          PROVE  <1>3!:
      <3> DEFINE must == {r \in Covering(p, ip) : Entitled(r)}
      <3>1. /\ gater = "up" /\ (IF dir = "out" THEN PeerAllowed(p) ELSE AddrAllowed(ip))
            /\ attempts'[a] = [at |-> "first", p |-> p, ip |-> ip, dir |-> dir, must |-> must]
            /\ attempts' = [b \in Attempts |-> attempts'[b]]
        BY <2>1 DEF FirstIntercept, GateTypeOK
      <3>2. must \subseteq Rules
        BY DEF Covering, Rules
      <3>3. \A r \in must : r \in blocked
        BY <3>1, <3>2 DEF KnownInForce, Entitled
      <3>4. dir = "out" => p \notin must
        BY <3>1, <3>3 DEF PeerAllowed
      <3>5. dir = "in" => must \subseteq {p}
        BY <3>1, <3>3, GateAssumption DEF AddrAllowed, Covering
      <3> HIDE DEF must
      <3> QED BY <3>1, <3>2, <3>4, <3>5 DEF GTry, must
    <2>2. CASE SecondIntercept(a)
      <3>1. /\ gater = "up" /\ attempts[a].at = "first" /\ attempts[a] \in GTry
            /\ attempts' = [b \in Attempts |-> attempts'[b]]
            /\ LET ok == IF attempts[a].dir = "out" THEN AddrAllowed(attempts[a].ip) ELSE PeerAllowed(attempts[a].p)
               IN attempts'[a] = IF ok THEN [attempts[a] EXCEPT !.at = "open"] ELSE NoAttempt
        <4>1. gater = "up" /\ attempts[a].at = "first" /\ attempts \in [Attempts -> GTry \union {NoAttempt}]
          BY <2>2 DEF SecondIntercept, GateTypeOK
        <4>2. attempts[a] \in GTry BY <4>1 DEF NoAttempt
        <4> DEFINE ok == IF attempts[a].dir = "out" THEN AddrAllowed(attempts[a].ip) ELSE PeerAllowed(attempts[a].p)
        <4>3. attempts' = [attempts EXCEPT ![a] = IF ok THEN [attempts[a] EXCEPT !.at = "open"] ELSE NoAttempt]
          BY <2>2 DEF SecondIntercept
        <4> HIDE DEF ok
        <4>4. attempts' = [b \in Attempts |-> attempts'[b]]
              /\ attempts'[a] = IF ok THEN [attempts[a] EXCEPT !.at = "open"] ELSE NoAttempt
          BY <4>1, <4>3
        <4> QED BY <4>1, <4>2, <4>4 DEF ok
      <3>2. \A r \in attempts[a].must : r \in blocked
        BY <3>1 DEF Bound, KnownInForce, GTry, Entitled
      <3>3. attempts[a].dir = "out" /\ AddrAllowed(attempts[a].ip) => attempts[a].must = {}
        BY <3>1, <3>2, GateAssumption DEF Bound, AddrAllowed, Covering
      <3>4. attempts[a].dir = "in" /\ PeerAllowed(attempts[a].p) => attempts[a].must = {}
        BY <3>1, <3>2 DEF Bound, PeerAllowed
      <3>5. CASE attempts'[a] = NoAttempt BY <3>5, <3>1 DEF NoAttempt
      <3>6. CASE attempts'[a] = [attempts[a] EXCEPT !.at = "open"] /\ attempts[a].must = {}
        BY <3>6, <3>1 DEF GTry
      <3> QED BY <3>1, <3>3, <3>4, <3>5, <3>6 DEF GTry
    <2>3. CASE AttemptEnds(a)
      BY <2>3 DEF AttemptEnds, NoAttempt, GateTypeOK
    <2> QED BY <2>1, <2>2, <2>3
  <1>4. GateTypeOK' BY <1>0, <1>2, <1>3 DEF GateTypeOK, Rules, Kinds
  <1>5. Quiet' BY <1>0, <1>2, <1>3 DEF Quiet
  <1>6. Bound' BY <1>0, <1>2, <1>3 DEF Bound, Covering, Entitled
  <1> QED BY <1>1, <1>4, <1>5, <1>6

\* Every step of the gater preserves the invariant.
LEMMA GateInvNext == ASSUME GateInv, [GateNext]_gateVars PROVE GateInv'
  <1>1. CASE UNCHANGED gateVars
    BY <1>1 DEF GateInv, GateTypeOK, KnownStored, KnownInForce, NobodyObjects, SureAlone, SureStored, Quiet, Loading,
                Bound, About, gateVars, Rules, Kinds, Covering, Entitled
  <1>2. CASE GateNext
    BY <1>2, GateBegin, GatePersist, GateRemember, GateRestarts, GateIntercepts DEF GateNext
  <1> QED BY <1>1, <1>2

\* An attempt that every interception let through is bound by no rule that was in force when it
\* began and was not lifted since; and the rules known to be blocked are in memory while the gater is
\* up, also after restarts, except for those whose entries this start failed to read (conngater.go:
\* BlockPeer and the others, loadRules, InterceptPeerDial and the others).
THEOREM GateRulesInForce == GateSpec => []RulesInForce
  <1>1. GateInit => GateInv BY GateInvInit
  <1>2. GateInv /\ [GateNext]_gateVars => GateInv' BY GateInvNext
  <1>3. GateInv => RulesInForce BY DEF GateInv, KnownInForce, Bound, RulesInForce
  <1> QED BY <1>1, <1>2, <1>3, PTL DEF GateSpec

----------------------------------------------------------------------------
(* The upgrader's listener, for any number of raw connections and any       *)
(* threshold.                                                               *)

UpStates == {"none", "accepted", "security", "secured", "muxer", "upgraded", "offered", "failed", "dropped",
             "drained", "skipped", "delivered", "refused"}
InGoroutine == {"security", "secured", "muxer", "upgraded", "offered"}
Gone == {"failed", "refused", "dropped", "drained", "skipped"}
Offered == {c \in Raw : raw[c].at = "offered"}

RawState == [at : UpStates, closed : BOOLEAN, scope : {"none", "open", "done"}]

UpTypeOK ==
  /\ raw \in [Raw -> RawState]
  /\ loop \in {"accept", "gate", "scope", "wait", "ending", "done"} /\ count \in Int
  /\ closer \in {"no", "cancel", "drain", "returned"} /\ incomingClosed \in BOOLEAN

\* The loop has a connection in its hands exactly while one is accepted and not yet refused or given
\* to a goroutine, and the scope is opened before the wait.
InHand ==
  /\ loop \in {"gate", "scope", "wait"} => cur \in Raw /\ raw[cur].at = "accepted"
  /\ \A c \in Raw : raw[c].at = "accepted" => loop \in {"gate", "scope", "wait"} /\ cur = c
  /\ loop \in {"gate", "scope"} => raw[cur].scope = "none"
  /\ loop = "wait" => raw[cur].scope = "open"

Scoped ==
  \A c \in Raw :
    /\ raw[c].at = "none" => raw[c] = NoRaw
    /\ raw[c].at \in InGoroutine \union {"delivered"} => raw[c].scope = "open"
    /\ raw[c].at \in Gone => GivenBack(c)

\* incoming is closed once no goroutine is left, and Close waits for that.
UpEnds ==
  /\ incomingClosed = TRUE => loop = "done"
  /\ loop = "done" => \A c \in Raw : raw[c].at \notin InGoroutine
  /\ closer = "returned" => incomingClosed = TRUE

\* Raw need not be finite: those offered always are.
Counted == IsFiniteSet(Offered) /\ count = Cardinality(Offered)

UpInv == UpTypeOK /\ InHand /\ Scoped /\ UpEnds /\ Counted

\* The listener starts with no connection.
LEMMA UpInvInit == UpInit => UpInv
  <1> SUFFICES ASSUME UpInit PROVE UpInv OBVIOUS
  <1>1. Offered = {} BY DEF UpInit, NoRaw, Offered
  <1>2. Counted BY <1>1, FS_EmptySet DEF Counted, UpInit
  <1>3. UpTypeOK
    <2>1. NoRaw \in RawState /\ 0 \in Int BY DEF NoRaw, RawState, UpStates
    <2> QED BY <2>1 DEF UpInit, UpTypeOK
  <1>4. InHand /\ Scoped /\ UpEnds
    BY DEF UpInit, NoRaw, InHand, Scoped, Gone, UpEnds, InGoroutine
  <1> QED BY <1>2, <1>3, <1>4 DEF UpInv

\* What a step does to the connections in the goroutines counts when it moves one to or from offered.
LEMMA CountedKept ==
  ASSUME Counted, count' = count, \A c \in Raw : raw'[c].at = "offered" <=> raw[c].at = "offered"
  PROVE  Counted'
  BY DEF Counted, Offered

\* A connection is offered: threshold.Acquire.
LEMMA CountedMore ==
  ASSUME Counted, NEW c \in Raw, count' = count + 1, raw[c].at # "offered", raw'[c].at = "offered",
         \A d \in Raw : d # c => raw'[d] = raw[d]
  PROVE  Counted'
  <1>1. Offered' = Offered \union {c} /\ c \notin Offered BY DEF Offered
  <1> QED BY <1>1, FS_AddElement DEF Counted

\* A connection offered is taken or dropped: threshold.Release.
LEMMA CountedLess ==
  ASSUME Counted, NEW c \in Raw, count' = count - 1, raw[c].at = "offered", raw'[c].at # "offered",
         \A d \in Raw : d # c => raw'[d] = raw[d]
  PROVE  Counted'
  <1>1. Offered' = Offered \ {c} /\ c \in Offered BY DEF Offered
  <1> QED BY <1>1, FS_RemoveElement DEF Counted

\* A step of handleIncoming.
LEMMA UpLoop ==
  ASSUME UpInv, AcceptRaw \/ GateRaw \/ OpenScope \/ StartUpgrade
  PROVE  UpInv'
  <1> USE DEF UpInv, UNCHANGED_END, NoRaw, Nothing
  <1>1. CASE AcceptRaw
    <2>1. CASE \E c \in Raw : /\ raw[c].at = "none" /\ cur' = c /\ loop' = "gate" /\ ~lctx
                              /\ raw' = [raw EXCEPT ![c].at = "accepted"]
      <3>1. PICK c \in Raw : /\ raw[c].at = "none" /\ cur' = c /\ loop' = "gate"
                             /\ raw' = [raw EXCEPT ![c].at = "accepted"]
        BY <2>1
      <3>2. /\ loop = "accept" /\ UNCHANGED <<count, forced, closer, incomingClosed>>
            /\ raw'[c] = [raw[c] EXCEPT !.at = "accepted"] /\ \A d \in Raw : d # c => raw'[d] = raw[d]
        BY <1>1, <3>1 DEF AcceptRaw, UpTypeOK
      <3>3. UpTypeOK' BY <3>1, <3>2 DEF UpTypeOK, RawState, UpStates
      <3>4. InHand' BY <3>1, <3>2 DEF InHand, Scoped, UpTypeOK, RawState
      <3>5. Scoped' BY <3>1, <3>2 DEF Scoped, UpTypeOK, RawState, InGoroutine, Gone, GivenBack
      <3>6. UpEnds' BY <3>1, <3>2 DEF UpEnds, UpTypeOK
      <3>7. Counted' BY <3>1, <3>2, CountedKept DEF UpTypeOK, RawState
      <3> QED BY <3>3, <3>4, <3>5, <3>6, <3>7
    <2>2. CASE loop' \in {"accept", "ending"} /\ UNCHANGED <<cur, raw>>
      <3>1. loop = "accept" /\ UNCHANGED <<count, forced, closer, incomingClosed>>
        BY <1>1 DEF AcceptRaw
      <3> QED BY <2>2, <3>1 DEF UpTypeOK, InHand, Scoped, GivenBack, UpEnds, Counted, Offered
    <2> QED BY <1>1, <2>1, <2>2 DEF AcceptRaw
  <1>2. ASSUME loop \in {"gate", "scope"}, Rejected(cur), UNCHANGED <<count, forced, closer, incomingClosed>>
        PROVE  UpInv'
    <2>1. /\ cur \in Raw /\ raw[cur].at = "accepted" /\ raw[cur].scope = "none" /\ loop' = "accept"
          /\ raw'[cur] = [raw[cur] EXCEPT !.at = "failed", !.closed = TRUE]
          /\ \A d \in Raw : d # cur => raw'[d] = raw[d]
          /\ raw' = [d \in Raw |-> raw'[d]]
      BY <1>2 DEF Rejected, InHand, UpTypeOK
    <2>2. raw'[cur] = [at |-> "failed", closed |-> TRUE, scope |-> "none"]
      BY <2>1 DEF UpTypeOK, RawState
    <2>3. UpTypeOK'
      <3>1. \A d \in Raw : raw[d] \in RawState BY DEF UpTypeOK
      <3>2. raw'[cur] \in RawState BY <2>2 DEF RawState, UpStates
      <3>3. \A d \in Raw : raw'[d] \in RawState BY <2>1, <3>1, <3>2
      <3> QED BY <1>2, <2>1, <3>3 DEF UpTypeOK
    <2>4. InHand' BY <1>2, <2>1 DEF InHand, UpTypeOK, RawState
    <2>5. Scoped'
      <3> SUFFICES ASSUME NEW c \in Raw
                   PROVE  /\ raw'[c].at = "none" => raw'[c] = NoRaw
                          /\ raw'[c].at \in InGoroutine \union {"delivered"} => raw'[c].scope = "open"
                          /\ raw'[c].at \in Gone => GivenBack(c)'
        BY DEF Scoped
      <3>1. CASE c = cur BY <2>2, <3>1 DEF InGoroutine, Gone, GivenBack
      <3>2. CASE c # cur BY <1>2, <2>1, <3>2 DEF Scoped, GivenBack
      <3> QED BY <3>1, <3>2
    <2>6. UpEnds' BY <1>2, <2>1 DEF UpEnds, UpTypeOK
    <2>7. Counted' BY <1>2, <2>1, CountedKept DEF UpTypeOK, RawState
    <2> QED BY <2>3, <2>4, <2>5, <2>6, <2>7
  <1>3. CASE GateRaw
    <2>1. CASE Rejected(cur) BY <1>2, <1>3, <2>1 DEF GateRaw
    <2>2. CASE loop' = "scope" /\ UNCHANGED <<raw, cur>>
      BY <1>3, <2>2 DEF GateRaw, UpTypeOK, InHand, Scoped, GivenBack, UpEnds, Counted, Offered
    <2> QED BY <1>3, <2>1, <2>2 DEF GateRaw
  <1>4. CASE OpenScope
    <2>1. CASE Rejected(cur) BY <1>2, <1>4, <2>1 DEF OpenScope
    <2>2. CASE loop' = "wait" /\ raw' = [raw EXCEPT ![cur].scope = "open"] /\ UNCHANGED cur
      <3>1. /\ cur \in Raw /\ raw[cur].at = "accepted" /\ loop = "scope" /\ UNCHANGED <<count, forced, closer, incomingClosed>>
            /\ raw'[cur] = [raw[cur] EXCEPT !.scope = "open"]
            /\ \A d \in Raw : d # cur => raw'[d] = raw[d]
        BY <1>4, <2>2 DEF OpenScope, InHand, UpTypeOK
      <3>3. UpTypeOK'
        <4>1. \A d \in Raw : raw'[d] \in RawState BY <3>1 DEF UpTypeOK, RawState, UpStates
        <4>2. raw' = [d \in Raw |-> raw'[d]] BY <2>2 DEF UpTypeOK
        <4> QED BY <2>2, <3>1, <4>1, <4>2 DEF UpTypeOK
      <3>4. InHand' BY <2>2, <3>1 DEF InHand, UpTypeOK, RawState
      <3>5. Scoped'
        <4>1. raw'[cur].at = "accepted" BY <3>1 DEF UpTypeOK, RawState
        <4> QED BY <3>1, <4>1 DEF Scoped, InGoroutine, Gone, GivenBack
      <3>6. UpEnds' BY <2>2, <3>1 DEF UpEnds, UpTypeOK
      <3>7. Counted' BY <2>2, <3>1, CountedKept DEF UpTypeOK, RawState
      <3> QED BY <3>3, <3>4, <3>5, <3>6, <3>7
    <2> QED BY <1>4, <2>1, <2>2 DEF OpenScope
  <1>5. CASE StartUpgrade
    <2>1. /\ cur \in Raw /\ raw[cur].at = "accepted" /\ raw[cur].scope = "open" /\ loop = "wait" /\ loop' = "accept"
          /\ UNCHANGED <<count, forced, closer, incomingClosed>>
          /\ raw'[cur] = [raw[cur] EXCEPT !.at = "security"]
          /\ \A d \in Raw : d # cur => raw'[d] = raw[d]
          /\ raw' = [d \in Raw |-> raw'[d]]
      BY <1>5 DEF StartUpgrade, InHand, UpTypeOK
    <2>3. UpTypeOK' BY <2>1 DEF UpTypeOK, RawState, UpStates
    <2>4. InHand' BY <2>1 DEF InHand, UpTypeOK, RawState
    <2>5. Scoped' BY <2>1 DEF Scoped, UpTypeOK, RawState, InGoroutine, Gone, GivenBack
    <2>6. UpEnds' BY <2>1 DEF UpEnds, UpTypeOK
    <2>7. Counted' BY <2>1, CountedKept DEF UpTypeOK, RawState
    <2> QED BY <2>3, <2>4, <2>5, <2>6, <2>7
  <1> QED BY <1>1, <1>3, <1>4, <1>5

\* A step of the listener's end: the loop's, the swarm's or Close's.
LEMMA UpEnding ==
  ASSUME UpInv, Ended \/ SwarmEnds \/ CloseListener \/ UNCHANGED upVars
  PROVE  UpInv'
  <1> USE DEF UpInv
  <1>1. UNCHANGED <<cur, raw, count, forced>> /\ loop' \in {loop, "done"}
    BY DEF Ended, SwarmEnds, CloseListener, upVars
  <1>2. loop' # loop => loop = "ending" /\ loop' = "done" /\ \A c \in Raw : raw[c].at \notin InGoroutine
    BY DEF Ended, SwarmEnds, CloseListener, upVars, InGoroutine
  <1>3. incomingClosed' = incomingClosed \/ (incomingClosed' = TRUE /\ loop' = "done" /\ closer' = closer)
    BY DEF Ended, SwarmEnds, CloseListener, upVars
  <1>a. incomingClosed' \in BOOLEAN /\ (incomingClosed' = TRUE => loop' = "done")
    BY <1>1, <1>2, <1>3 DEF UpEnds, UpTypeOK
  <1>b. closer' = closer \/ closer' \in {"cancel", "drain"} \/ (closer' = "returned" /\ incomingClosed = TRUE /\ incomingClosed' = incomingClosed)
    BY DEF Ended, SwarmEnds, CloseListener, upVars, UpTypeOK
  <1>4. closer' \in {"no", "cancel", "drain", "returned"} /\ (closer' = "returned" => incomingClosed' = TRUE)
    BY <1>3, <1>b DEF UpEnds, UpTypeOK
  <1>5. UpTypeOK' BY <1>1, <1>a, <1>4 DEF UpTypeOK
  <1>6. InHand' /\ Scoped' BY <1>1, <1>2 DEF InHand, Scoped, GivenBack
  <1>7. UpEnds' BY <1>1, <1>2, <1>a, <1>4 DEF UpEnds
  <1>8. Counted' BY <1>1 DEF Counted, Offered
  <1> QED BY <1>5, <1>6, <1>7, <1>8

\* What is left of the invariant when one connection in a goroutine moves on.
LEMMA UpMoves ==
  ASSUME UpInv, NEW c \in Raw, raw[c].at \in InGoroutine, UNCHANGED <<loop, cur, incomingClosed, forced, closer>>,
         raw' = [raw EXCEPT ![c] = raw'[c]], raw'[c] \in RawState,
         raw'[c].at \notin {"none", "accepted"},
         raw'[c].at \in InGoroutine \union {"delivered"} => raw'[c].scope = "open",
         raw'[c].at \in Gone => GivenBack(c)',
         count' \in Int, Counted'
  PROVE  UpInv'
  <1> USE DEF UpInv
  <1>1. \A d \in Raw : d # c => raw'[d] = raw[d] BY DEF UpTypeOK
  <1>2. UpTypeOK' BY DEF UpTypeOK
  <1>3. InHand' BY <1>1 DEF InHand, UpTypeOK, RawState, InGoroutine
  <1>4. Scoped' BY <1>1 DEF Scoped, InGoroutine, Gone, GivenBack
  <1>5. UpEnds' BY <1>1 DEF UpEnds
  <1> QED BY <1>2, <1>3, <1>4, <1>5

\* The steps of the goroutine of a connection.
LEMMA UpUpgrades ==
  ASSUME UpInv, NEW c \in Raw,
         \/ NoProtector(c) \/ SetupSecurity(c) \/ AdmitRaw(c) \/ SetupMuxer(c) \/ Acquire(c)
         \/ ClosedEarly(c) \/ DropSlow(c) \/ Receive(c, "swarm") \/ Receive(c, "closer")
  PROVE  UpInv'
  <1> USE DEF UpInv, UNCHANGED_LOOP, UNCHANGED_END
  <1>1. CASE NoProtector(c) \/ SetupSecurity(c) \/ AdmitRaw(c) \/ SetupMuxer(c)
    <2>1. /\ raw[c].at \in {"security", "secured", "muxer"} /\ UNCHANGED <<count, loop, cur, incomingClosed, forced, closer>>
          /\ raw' = [raw EXCEPT ![c] = raw'[c]]
          /\ \/ raw'[c] = [at |-> "failed", closed |-> TRUE, scope |-> "done"]
             \/ forced /\ raw'[c] = [at |-> "refused", closed |-> raw[c].closed, scope |-> "done"]
             \/ \E s \in {"secured", "muxer", "upgraded"} : raw'[c] = [raw[c] EXCEPT !.at = s]
      BY <1>1 DEF NoProtector, SetupSecurity, AdmitRaw, SetupMuxer, FailUpgrade, UpTypeOK, RawState
    <2>2. raw[c].scope = "open" BY <2>1 DEF Scoped, InGoroutine
    <2>3. Counted' BY <2>1, CountedKept DEF UpTypeOK, RawState
    <2>4. /\ raw[c].at \in InGoroutine /\ raw'[c].at \notin {"none", "accepted"} /\ count' \in Int
          /\ raw'[c].at \in InGoroutine \union {"delivered"} => raw'[c].scope = "open"
      BY <2>1, <2>2 DEF UpTypeOK, RawState, InGoroutine
    <2>6. raw'[c] \in RawState
      <3>1. raw[c] \in RawState BY DEF UpTypeOK
      <3>2. \A s \in UpStates : [raw[c] EXCEPT !.at = s] \in RawState /\ [raw[c] EXCEPT !.closed = TRUE] \in RawState
        BY <3>1 DEF RawState
      <3>3. \A s \in UpStates, b \in BOOLEAN : [at |-> s, closed |-> b, scope |-> "done"] \in RawState BY DEF RawState
      <3>4. raw[c].closed \in BOOLEAN BY <3>1 DEF RawState
      <3> QED BY <2>1, <3>2, <3>3, <3>4 DEF UpStates
    <2>5. raw'[c].at \in Gone => GivenBack(c)'
      BY <2>1 DEF UpTypeOK, RawState, Gone, GivenBack
    <2> QED BY <2>1, <2>3, <2>4, <2>5, <2>6, UpMoves
  <1>2. CASE Acquire(c)
    <2>1. /\ raw[c].at = "upgraded" /\ UNCHANGED <<loop, cur, incomingClosed, forced, closer>> /\ count' = count + 1
          /\ raw' = [raw EXCEPT ![c] = raw'[c]] /\ raw'[c] = [raw[c] EXCEPT !.at = "offered"]
      BY <1>2 DEF Acquire, UpTypeOK
    <2>2. raw[c].scope = "open" BY <2>1 DEF Scoped, InGoroutine
    <2>3. Counted' BY <2>1, CountedMore DEF UpTypeOK, RawState
    <2>4. /\ raw[c].at \in InGoroutine /\ raw'[c].at \notin {"none", "accepted"} /\ count' \in Int
          /\ raw'[c].at \in InGoroutine \union {"delivered"} => raw'[c].scope = "open"
      BY <2>1, <2>2 DEF UpTypeOK, RawState, InGoroutine
    <2>6. raw'[c] \in RawState
      <3>1. raw[c] \in RawState BY DEF UpTypeOK
      <3>2. \A s \in UpStates : [raw[c] EXCEPT !.at = s] \in RawState /\ [raw[c] EXCEPT !.closed = TRUE] \in RawState
        BY <3>1 DEF RawState
      <3>3. \A s \in UpStates : [at |-> s, closed |-> TRUE, scope |-> "done"] \in RawState BY DEF RawState
      <3> QED BY <2>1, <3>2, <3>3 DEF UpStates
    <2>5. raw'[c].at \in Gone => GivenBack(c)'
      BY <2>1 DEF UpTypeOK, RawState, Gone, GivenBack
    <2> QED BY <2>1, <2>3, <2>4, <2>5, <2>6, UpMoves
  <1>3. CASE ClosedEarly(c)
    <2>1. /\ raw[c].at = "offered" /\ UNCHANGED <<count, loop, cur, incomingClosed, forced, closer>>
          /\ raw' = [raw EXCEPT ![c] = raw'[c]] /\ raw'[c] = [raw[c] EXCEPT !.closed = TRUE]
      BY <1>3 DEF ClosedEarly, UpTypeOK
    <2>2. raw[c].scope = "open" BY <2>1 DEF Scoped, InGoroutine
    <2>3. Counted' BY <2>1, CountedKept DEF UpTypeOK, RawState
    <2>4. /\ raw[c].at \in InGoroutine /\ raw'[c].at \notin {"none", "accepted"} /\ count' \in Int
          /\ raw'[c].at \in InGoroutine \union {"delivered"} => raw'[c].scope = "open"
      BY <2>1, <2>2 DEF UpTypeOK, RawState, InGoroutine
    <2>6. raw'[c] \in RawState
      <3>1. raw[c] \in RawState BY DEF UpTypeOK
      <3>2. \A s \in UpStates : [raw[c] EXCEPT !.at = s] \in RawState /\ [raw[c] EXCEPT !.closed = TRUE] \in RawState
        BY <3>1 DEF RawState
      <3>3. \A s \in UpStates : [at |-> s, closed |-> TRUE, scope |-> "done"] \in RawState BY DEF RawState
      <3> QED BY <2>1, <3>2, <3>3 DEF UpStates
    <2>5. raw'[c].at \in Gone => GivenBack(c)'
      BY <2>1 DEF UpTypeOK, RawState, Gone, GivenBack
    <2> QED BY <2>1, <2>3, <2>4, <2>5, <2>6, UpMoves
  <1>4. CASE DropSlow(c) \/ Receive(c, "swarm") \/ Receive(c, "closer")
    <2>1. /\ raw[c].at = "offered" /\ UNCHANGED <<loop, cur, incomingClosed, forced, closer>> /\ count' = count - 1
          /\ raw' = [raw EXCEPT ![c] = raw'[c]]
          /\ \/ \E s \in {"dropped", "drained"} : raw'[c] = [at |-> s, closed |-> TRUE, scope |-> "done"]
             \/ raw[c].closed /\ raw'[c] = [raw[c] EXCEPT !.at = "skipped"]
             \/ raw'[c] = [raw[c] EXCEPT !.at = "delivered"]
      BY <1>4 DEF DropSlow, Receive, UpTypeOK
    <2>2. raw[c].scope = "open" BY <2>1 DEF Scoped, InGoroutine
    <2>3. Counted' BY <2>1, CountedLess DEF UpTypeOK, RawState
    <2>4. /\ raw[c].at \in InGoroutine /\ raw'[c].at \notin {"none", "accepted"} /\ count' \in Int
          /\ raw'[c].at \in InGoroutine \union {"delivered"} => raw'[c].scope = "open"
      BY <2>1, <2>2 DEF UpTypeOK, RawState, InGoroutine
    <2>6. raw'[c] \in RawState
      <3>1. raw[c] \in RawState BY DEF UpTypeOK
      <3>2. \A s \in UpStates : [raw[c] EXCEPT !.at = s] \in RawState /\ [raw[c] EXCEPT !.closed = TRUE] \in RawState
        BY <3>1 DEF RawState
      <3>3. \A s \in UpStates : [at |-> s, closed |-> TRUE, scope |-> "done"] \in RawState BY DEF RawState
      <3> QED BY <2>1, <3>2, <3>3 DEF UpStates
    <2>5. raw'[c].at \in Gone => GivenBack(c)'
      BY <2>1 DEF UpTypeOK, RawState, Gone, GivenBack
    <2> QED BY <2>1, <2>3, <2>4, <2>5, <2>6, UpMoves
  <1> QED BY <1>1, <1>2, <1>3, <1>4

\* Every step of the listener preserves the invariant.
LEMMA UpInvNext == UpInv /\ [UpNext]_upVars => UpInv'
  BY UpLoop, UpEnding, UpUpgrades DEF UpNext

\* Of the connections that do not reach the swarm none is left half open, but for those that a forced
\* private network refused, which are not closed, and those that Accept passed over, whose scope
\* stays open; the threshold counts those offered, and Close returns when none
\* is in a goroutine's hands (listener.go: handleIncoming, Accept, Close; upgrader.go: Upgrade).
THEOREM UpgraderNothingHalfOpen == UpSpec => []NothingHalfOpen
  <1>1. UpInv => NothingHalfOpen
    <2> SUFFICES ASSUME UpInv PROVE NothingHalfOpen OBVIOUS
    <2>1. \A c \in Raw : /\ raw[c].at \in Gone => GivenBack(c)
                         /\ raw[c].at = "delivered" => raw[c].scope = "open"
      BY DEF UpInv, Scoped
    <2>2. closer = "returned" => loop = "done" BY DEF UpInv, UpEnds
    <2>3. closer = "returned" => \A c \in Raw : raw[c].at \notin InGoroutine \union {"accepted"}
      BY <2>2 DEF UpInv, UpEnds, InHand
    <2>4. closer = "returned" => \A c \in Raw :
            raw[c].at \notin {"accepted", "security", "secured", "muxer", "upgraded", "offered"}
      BY <2>3 DEF InGoroutine
    <2>5. count = Cardinality({c \in Raw : raw[c].at = "offered"}) BY DEF UpInv, Counted, Offered
    <2> QED BY <2>1, <2>4, <2>5 DEF NothingHalfOpen, Offered, Gone
  <1> QED BY <1>1, UpInvInit, UpInvNext, PTL DEF UpSpec

----------------------------------------------------------------------------
(* The hole puncher, for any number of goroutines and retries.              *)

TryState == [at : {"idle", "begin", "over"} \union Attempting, n : 0..(maxRetries - 1)]

Outs == {<<>>, <<"CONNECT">>, <<"SYNC">>}
Replies == {<<>>, <<"CONNECT">>, <<"other">>}

PunchTypeOK ==
  /\ try \in [Tryers -> TryState] /\ active \in BOOLEAN
  /\ puncher \in {"none", "open", "closing", "closed"}
  /\ them \in [at : {"none", "read", "sync"}, punches : Nat, syncs : Nat]
  /\ str \in [out : Outs, in : Replies, open : BOOLEAN]

\* The entry for the peer belongs to the one goroutine that attempts.
OneAttempt ==
  /\ active = FALSE => \A t \in Tryers : try[t].at \notin Attempting
  /\ active = TRUE => \E t \in Tryers : /\ try[t].at \in Attempting
                                        /\ \A u \in Tryers \ {t} : try[u].at \notin Attempting

\* The puncher is made once; once it is closed its notifiee's goroutines are over or never start.
PuncherOnce ==
  /\ puncher # "none" => watch = "made"
  /\ puncher = "closed" => \A t \in Notified : try[t].at \in {"idle", "over"}

\* A stream holds at most one message; a SYNC on its way is one they have not yet answered.
StreamHolds ==
  /\ str.in # <<>> => str.out = <<>>
  /\ them.punches + (IF str.out = <<"SYNC">> THEN 1 ELSE 0) <= them.syncs

\* The retries in which a goroutine may have sent its SYNC: one SYNC each.
SentIn(t, k) == k < try[t].n \/ (k = try[t].n /\ try[t].at \in {"sync", "punch", "over"})
Sent == {x \in Tryers \X (0..(maxRetries - 1)) : SentIn(x[1], x[2])}
OneSyncEach == them.syncs <= Cardinality(Sent)

PunchInv == PunchTypeOK /\ OneAttempt /\ PuncherOnce /\ StreamHolds /\ OneSyncEach

\* There are at most as many SYNCs as goroutines times retries.
LEMMA SentFinite ==
         /\ IsFiniteSet(Sent) /\ Cardinality(Sent) \in Nat
         /\ Cardinality(Sent) <= Cardinality(Tryers) * maxRetries
  <1> DEFINE all == Tryers \X (0..(maxRetries - 1))
  <1>1. IsFiniteSet(0..(maxRetries - 1)) /\ Cardinality(0..(maxRetries - 1)) = maxRetries
    BY FS_Interval, PunchAssumption
  <1>2. IsFiniteSet(all) /\ Cardinality(all) = Cardinality(Tryers) * maxRetries
    BY <1>1, FS_Product, PunchAssumption
  <1>3. Sent \subseteq all BY DEF Sent
  <1> QED BY <1>2, <1>3, FS_Subset, FS_CardinalityType

\* No attempt is under way at the start.
LEMMA PunchInvInit == PunchInit => PunchInv
  <1> SUFFICES ASSUME PunchInit PROVE PunchInv OBVIOUS
  <1>1. PunchTypeOK
    <2>1. [at |-> "idle", n |-> 0] \in TryState BY PunchAssumption DEF TryState
    <2> QED BY <2>1 DEF PunchTypeOK, PunchInit, NoPunchStream, Outs, Replies
  <1>2. OneAttempt /\ PuncherOnce BY DEF OneAttempt, PuncherOnce, PunchInit, Attempting
  <1>3. StreamHolds BY DEF StreamHolds, PunchInit, NoPunchStream
  <1>4. OneSyncEach BY SentFinite DEF OneSyncEach, PunchInit
  <1> QED BY <1>1, <1>2, <1>3, <1>4 DEF PunchInv

\* A goroutine's step may enter the attempt, stay in it, leave it, or be outside it.
Moves(t) ==
  \/ active = FALSE /\ active' = TRUE /\ try'[t].at \in Attempting
  \/ active' = active /\ try[t].at \in Attempting /\ try'[t].at \in Attempting
  \/ active' = FALSE /\ try[t].at \in Attempting /\ try'[t].at \notin Attempting
  \/ active' = active /\ try[t].at \notin Attempting /\ try'[t].at \notin Attempting

\* Such a step keeps the entry with the one goroutine that attempts.
LEMMA TryMoves ==
  ASSUME PunchInv, NEW t \in Tryers, UNCHANGED <<puncher, watch>>,
         try' = [try EXCEPT ![t] = try'[t]], try'[t] \in TryState,
         Moves(t),
         t \in Notified /\ puncher = "closed" => try'[t].at \in {"idle", "over"}
  PROVE  /\ try' \in [Tryers -> TryState] /\ active' \in BOOLEAN
         /\ OneAttempt' /\ PuncherOnce'
  <1>1. \A u \in Tryers \ {t} : try'[u] = try[u] BY DEF PunchInv, PunchTypeOK
  <1>2. try' \in [Tryers -> TryState] /\ active' \in BOOLEAN BY DEF PunchInv, PunchTypeOK, Moves
  <1>3. PuncherOnce' BY <1>1, PunchAssumption DEF PunchInv, PuncherOnce
  <1>4. OneAttempt'
    <2>1. CASE active = FALSE /\ active' = TRUE /\ try'[t].at \in Attempting
      BY <1>1, <2>1 DEF PunchInv, OneAttempt
    <2>2. CASE active' = active /\ try[t].at \in Attempting /\ try'[t].at \in Attempting
      BY <1>1, <2>2 DEF PunchInv, PunchTypeOK, OneAttempt
    <2>3. CASE active' = FALSE /\ try[t].at \in Attempting /\ try'[t].at \notin Attempting
      <3>1. active = TRUE BY <2>3 DEF PunchInv, PunchTypeOK, OneAttempt
      <3>2. \A u \in Tryers \ {t} : try[u].at \notin Attempting BY <2>3, <3>1 DEF PunchInv, OneAttempt
      <3> QED BY <1>1, <2>3, <3>2 DEF OneAttempt
    <2>4. CASE active' = active /\ try[t].at \notin Attempting /\ try'[t].at \notin Attempting
      BY <1>1, <2>4 DEF PunchInv, PunchTypeOK, OneAttempt
    <2> QED BY <2>1, <2>2, <2>3, <2>4 DEF Moves
  <1> QED BY <1>2, <1>3, <1>4

\* A step that sends no SYNC takes none back.
LEMMA SentKept ==
  ASSUME PunchInv, NEW t \in Tryers, them'.syncs = them.syncs,
         try' = [try EXCEPT ![t] = try'[t]],
         \A k \in 0..(maxRetries - 1) : SentIn(t, k) => SentIn(t, k)'
  PROVE  OneSyncEach'
  <1>1. \A u \in Tryers \ {t} : try'[u] = try[u] BY DEF PunchInv, PunchTypeOK
  <1>2. Sent \subseteq Sent' BY <1>1 DEF Sent, SentIn
  <1>3. IsFiniteSet(Sent') /\ Cardinality(Sent') \in Nat
    <2>1. Sent' \subseteq Tryers \X (0..(maxRetries - 1)) BY DEF Sent
    <2>0. IsFiniteSet(0..(maxRetries - 1))
      <3>1. 0 \in Int /\ maxRetries - 1 \in Int BY PunchAssumption
      <3> QED BY <3>1, FS_Interval, Zenon
    <2>2. IsFiniteSet(Tryers \X (0..(maxRetries - 1))) BY <2>0, FS_Product, PunchAssumption
    <2> QED BY <2>1, <2>2, FS_Subset, FS_CardinalityType
  <1>4. Cardinality(Sent) <= Cardinality(Sent') BY <1>2, <1>3, FS_Subset
  <1> QED BY <1>3, <1>4, SentFinite DEF PunchInv, PunchTypeOK, OneSyncEach

\* A SYNC is the only one of its goroutine and retry.
LEMMA SentMore ==
  ASSUME PunchInv, NEW t \in Tryers, them'.syncs = them.syncs + 1,
         try' = [try EXCEPT ![t] = try'[t]], try[t].at = "connect", try'[t].at = "sync", try'[t].n = try[t].n
  PROVE  OneSyncEach'
  <1>1. \A u \in Tryers \ {t} : try'[u] = try[u] BY DEF PunchInv, PunchTypeOK
  <1> DEFINE x == <<t, try[t].n>>
  <1>2. x \in Tryers \X (0..(maxRetries - 1)) BY DEF PunchInv, PunchTypeOK, TryState
  <1>3. x \notin Sent BY DEF Sent, SentIn, PunchInv, PunchTypeOK, TryState
  <1>4. ASSUME NEW y \in Tryers \X (0..(maxRetries - 1)) PROVE y \in Sent' <=> y \in Sent \/ y = x
    <2>1. CASE y[1] = t
      <3>1. y = <<t, y[2]>> /\ y[2] \in 0..(maxRetries - 1) BY <2>1
      <3>2. y = x <=> y[2] = try[t].n BY <3>1
      <3> QED BY <1>1, <2>1, <3>2 DEF Sent, SentIn, PunchInv, PunchTypeOK, TryState
    <2>2. CASE y[1] # t BY <1>1, <2>2 DEF Sent, SentIn
    <2> QED BY <2>1, <2>2
  <1>5. Sent' = Sent \union {x}
    <2>1. Sent \subseteq Tryers \X (0..(maxRetries - 1)) /\ Sent' \subseteq Tryers \X (0..(maxRetries - 1)) BY DEF Sent
    <2> QED BY <1>2, <1>4, <2>1
  <1>6. Cardinality(Sent') = Cardinality(Sent) + 1 BY <1>3, <1>5, SentFinite, FS_AddElement
  <1> QED BY <1>6, SentFinite DEF PunchInv, PunchTypeOK, OneSyncEach

\* The steps of a goroutine: outside the attempt, entering it, in it, and ending it.
LEMMA TrySteps ==
  ASSUME PunchInv, NEW t \in Tryers,
         \/ StartTry(t) \/ BeginDirectConnect(t) \/ Check(t) \/ DialDirect(t) \/ SendConnect(t)
         \/ SendSync(t) \/ StreamFails(t) \/ PunchTimerFires(t) \/ Punch(t)
  PROVE  PunchInv'
  <1> USE DEF TryAt, TryGoto, TryEnds, serviceVars, Cancelled
  <1> DEFINE States == {"idle", "begin", "over", "check", "dial", "open", "connect", "sync", "punch"}
             Tried == try' \in [Tryers -> TryState] /\ active' \in BOOLEAN /\ OneAttempt' /\ PuncherOnce'
  <1>0. /\ try[t] \in TryState /\ try[t].n \in 0..(maxRetries - 1) /\ active \in BOOLEAN /\ maxRetries \in Nat
        /\ them \in [at : {"none", "read", "sync"}, punches : Nat, syncs : Nat]
        /\ str \in [out : Outs, in : Replies, open : BOOLEAN] /\ puncher \in {"none", "open", "closing", "closed"}
    BY PunchAssumption DEF PunchInv, PunchTypeOK, TryState
  <1>1. UNCHANGED <<watch, puncher>>
    BY DEF StartTry, BeginDirectConnect, Check, DialDirect, SendConnect, SendSync,
           StreamFails, PunchTimerFires, Punch
  <1>a. try[t].at \in {"idle", "over"} \/ ~(t \in Notified /\ puncher = "closed")
    BY DEF PunchInv, PuncherOnce
  <1>2. ASSUME NEW s \in States, try' = [try EXCEPT ![t].at = s]
        PROVE  /\ try' = [try EXCEPT ![t] = try'[t]] /\ try'[t] \in TryState
               /\ try'[t].at = s /\ try'[t].n = try[t].n
    <2>1. try'[t] = [try[t] EXCEPT !.at = s] /\ try' = [try EXCEPT ![t] = try'[t]]
      BY <1>2 DEF PunchInv, PunchTypeOK
    <2> QED BY <1>0, <2>1 DEF TryState, Attempting
  \* A goroutine outside the attempt, the one that begins it, the one in it, and the one that ends it.
  <1>3. ASSUME try[t].at \in {"idle", "begin"}, NEW s \in {"begin", "over"}, try' = [try EXCEPT ![t].at = s],
               t \in Notified /\ puncher = "closed" => s = "over", UNCHANGED <<active, them>>
        PROVE  Tried /\ OneSyncEach'
    <2>1. /\ try' = [try EXCEPT ![t] = try'[t]] /\ try'[t] \in TryState /\ try'[t].at = s /\ try'[t].n = try[t].n
      BY <1>2, <1>3
    <2>2. Moves(t) BY <1>3, <2>1 DEF Moves, Attempting
    <2>3. \A k \in 0..(maxRetries - 1) : SentIn(t, k) => SentIn(t, k)' BY <1>3, <2>1 DEF SentIn
    <2>4. OneSyncEach' BY <1>3, <2>1, <2>3, SentKept
    <2> QED BY <1>1, <1>3, <2>1, <2>2, <2>4, TryMoves
  <1>4. ASSUME try[t].at = "begin", active = FALSE, active' = TRUE, try' = [try EXCEPT ![t].at = "check"], UNCHANGED them
        PROVE  Tried /\ OneSyncEach'
    <2>1. /\ try' = [try EXCEPT ![t] = try'[t]] /\ try'[t] \in TryState /\ try'[t].at = "check" /\ try'[t].n = try[t].n
      BY <1>2, <1>4
    <2>2. Moves(t) BY <1>4, <2>1 DEF Moves, Attempting
    <2>3. \A k \in 0..(maxRetries - 1) : SentIn(t, k) => SentIn(t, k)' BY <1>4, <2>1 DEF SentIn
    <2>4. OneSyncEach' BY <1>4, <2>1, <2>3, SentKept
    <2> QED BY <1>1, <1>4, <1>a, <2>1, <2>2, <2>4, TryMoves
  <1>5. ASSUME try[t].at \in Attempting, NEW s \in Attempting, try' = [try EXCEPT ![t].at = s],
               UNCHANGED active, try[t].at \in {"sync", "punch"} => s \in {"sync", "punch"}
        PROVE  Tried /\ (them'.syncs = them.syncs => OneSyncEach')
    <2>1. /\ try' = [try EXCEPT ![t] = try'[t]] /\ try'[t] \in TryState /\ try'[t].at = s /\ try'[t].n = try[t].n
      BY <1>2, <1>5 DEF Attempting
    <2>2. Moves(t) BY <1>5, <2>1 DEF Moves
    <2>3. \A k \in 0..(maxRetries - 1) : SentIn(t, k) => SentIn(t, k)' BY <1>5, <2>1 DEF SentIn, Attempting
    <2>4. them'.syncs = them.syncs => OneSyncEach' BY <2>1, <2>3, SentKept
    <2>5. try[t].at \notin {"idle", "over"} BY <1>5 DEF Attempting
    <2> QED BY <1>1, <1>a, <2>1, <2>2, <2>4, <2>5, TryMoves
  <1>6. ASSUME try[t].at \in Attempting, try' = [try EXCEPT ![t].at = "over"], active' = FALSE, UNCHANGED them
        PROVE  Tried /\ OneSyncEach'
    <2>1. /\ try' = [try EXCEPT ![t] = try'[t]] /\ try'[t] \in TryState /\ try'[t].at = "over" /\ try'[t].n = try[t].n
      BY <1>2, <1>6
    <2>2. Moves(t) BY <1>6, <2>1 DEF Moves, Attempting
    <2>3. \A k \in 0..(maxRetries - 1) : SentIn(t, k) => SentIn(t, k)' BY <2>1 DEF SentIn
    <2>4. OneSyncEach' BY <1>6, <2>1, <2>3, SentKept
    <2> QED BY <1>1, <2>1, <2>2, <2>4, TryMoves
  <1>7. CASE StartTry(t) \/ BeginDirectConnect(t)
    <2>1. /\ UNCHANGED <<str, them>>
          /\ \/ /\ try[t].at \in {"idle", "begin"} /\ UNCHANGED active
                /\ \E s \in {"begin", "over"} : /\ try' = [try EXCEPT ![t].at = s]
                                                /\ t \in Notified /\ puncher = "closed" => s = "over"
             \/ try[t].at = "begin" /\ try' = [try EXCEPT ![t].at = "check"] /\ active = FALSE /\ active' = TRUE
      BY <1>0, <1>7 DEF StartTry, BeginDirectConnect
    <2>2. Tried /\ OneSyncEach' BY <1>3, <1>4, <2>1
    <2> QED BY <1>0, <1>1, <2>1, <2>2 DEF PunchInv, PunchTypeOK, StreamHolds
  <1>8. CASE Check(t) \/ DialDirect(t) \/ StreamFails(t) \/ PunchTimerFires(t)
    <2>1. /\ UNCHANGED them /\ str' \in {str, [str EXCEPT !.open = FALSE]}
          /\ \/ try[t].at = "check" /\ try' = [try EXCEPT ![t].at = "dial"] /\ UNCHANGED active
             \/ try[t].at = "dial" /\ try' = [try EXCEPT ![t].at = "open"] /\ UNCHANGED active
             \/ try[t].at = "sync" /\ try' = [try EXCEPT ![t].at = "punch"] /\ UNCHANGED active
             \/ /\ try[t].at \in {"check", "dial", "connect", "sync"}
                /\ try' = [try EXCEPT ![t].at = "over"] /\ active' = FALSE
      BY <1>8 DEF Check, DialDirect, StreamFails, PunchTimerFires
    <2>2. Tried /\ OneSyncEach' BY <2>1, <1>5, <1>6 DEF Attempting
    <2>3. str' \in [out : Outs, in : Replies, open : BOOLEAN] /\ str'.out = str.out /\ str'.in = str.in
      BY <1>0, <2>1
    <2> QED BY <1>0, <1>1, <2>1, <2>2, <2>3 DEF PunchInv, PunchTypeOK, StreamHolds
  <1>9. CASE SendConnect(t)
    <2>0. try[t].at = "open" BY <1>9 DEF SendConnect
    <2>1. CASE try' = [try EXCEPT ![t].at = "over"] /\ active' = FALSE /\ UNCHANGED <<str, them>>
      <3>1. Tried /\ OneSyncEach' BY <2>0, <2>1, <1>6 DEF Attempting
      <3> QED BY <1>0, <1>1, <2>1, <3>1 DEF PunchInv, PunchTypeOK, StreamHolds
    <2>2. CASE /\ try' = [try EXCEPT ![t].at = "connect"] /\ UNCHANGED active
               /\ str' = [out |-> <<"CONNECT">>, in |-> <<>>, open |-> TRUE] /\ them' = [them EXCEPT !.at = "read"]
      <3>1. /\ them' \in [at : {"none", "read", "sync"}, punches : Nat, syncs : Nat]
            /\ them'.syncs = them.syncs /\ them'.punches = them.punches
        BY <1>0, <2>2
      <3>2. str' \in [out : Outs, in : Replies, open : BOOLEAN] BY <2>2 DEF Outs, Replies
      <3>3. StreamHolds'
        <4>1. them.punches <= them.syncs BY <1>0 DEF PunchInv, StreamHolds
        <4> QED BY <2>2, <3>1, <4>1, <1>0 DEF StreamHolds
      <3>4. Tried /\ OneSyncEach' BY <2>0, <2>2, <3>1, <1>5 DEF Attempting
      <3> QED BY <1>0, <1>1, <3>1, <3>2, <3>3, <3>4 DEF PunchInv, PunchTypeOK
    <2> QED BY <1>9, <2>1, <2>2 DEF SendConnect, NoPunchStream
  <1>10. CASE SendSync(t)
    <2>0. try[t].at = "connect" /\ str.in # <<>> /\ str.out = <<>> BY <1>10 DEF SendSync, PunchInv, StreamHolds
    <2>1. CASE /\ try' = [try EXCEPT ![t].at = "over"] /\ active' = FALSE /\ them' = them
               /\ str' = [str EXCEPT !.open = FALSE]
      <3>1. Tried /\ OneSyncEach' BY <2>0, <2>1, <1>6 DEF Attempting
      <3>2. str' \in [out : Outs, in : Replies, open : BOOLEAN] /\ str'.out = str.out /\ str'.in = str.in
        BY <1>0, <2>1
      <3> QED BY <1>0, <1>1, <2>1, <3>1, <3>2 DEF PunchInv, PunchTypeOK, StreamHolds
    <2>2. CASE /\ try' = [try EXCEPT ![t].at = "sync"] /\ UNCHANGED active
               /\ str' = [str EXCEPT !.in = <<>>, !.out = Append(@, "SYNC")]
               /\ them' = [them EXCEPT !.syncs = @ + 1]
      <3>1. /\ them' \in [at : {"none", "read", "sync"}, punches : Nat, syncs : Nat]
            /\ them'.syncs = them.syncs + 1 /\ them'.punches = them.punches
        BY <1>0, <2>2
      <3>2. str'.out = <<"SYNC">> /\ str'.in = <<>> /\ str' \in [out : Outs, in : Replies, open : BOOLEAN]
        <4>1. Append(<<>>, "SYNC") = <<"SYNC">> OBVIOUS
        <4> QED BY <1>0, <2>0, <2>2, <4>1 DEF Outs, Replies
      <3>3. StreamHolds'
        <4>1. them.punches <= them.syncs BY <1>0 DEF PunchInv, StreamHolds
        <4> QED BY <1>0, <3>1, <3>2, <4>1 DEF StreamHolds
      <3>4. Tried BY <2>0, <2>2, <1>5 DEF Attempting
      <3>5. try' = [try EXCEPT ![t] = try'[t]] /\ try'[t].at = "sync" /\ try'[t].n = try[t].n BY <1>2, <2>2
      <3>6. OneSyncEach' BY <2>0, <3>1, <3>5, SentMore
      <3> QED BY <1>0, <1>1, <3>1, <3>2, <3>3, <3>4, <3>6 DEF PunchInv, PunchTypeOK
    <2> QED BY <1>10, <2>1, <2>2 DEF SendSync
  <1>11. CASE Punch(t)
    <2>0. try[t].at = "punch" /\ UNCHANGED <<str, them>> BY <1>11 DEF Punch
    <2>1. CASE try' = [try EXCEPT ![t].at = "over"] /\ active' = FALSE
      <3>1. Tried /\ OneSyncEach' BY <2>0, <2>1, <1>6 DEF Attempting
      <3> QED BY <1>0, <1>1, <2>0, <3>1 DEF PunchInv, PunchTypeOK, StreamHolds
    <2>2. CASE try[t].n + 1 < maxRetries /\ try' = [try EXCEPT ![t] = [at |-> "open", n |-> @.n + 1]] /\ UNCHANGED active
      <3>1. try'[t] = [at |-> "open", n |-> try[t].n + 1] /\ try' = [try EXCEPT ![t] = try'[t]]
        BY <2>2 DEF PunchInv, PunchTypeOK
      <3>2. try'[t] \in TryState BY <1>0, <2>2, <3>1 DEF TryState, Attempting
      <3>3. \A k \in 0..(maxRetries - 1) : SentIn(t, k) => SentIn(t, k)' BY <1>0, <3>1 DEF SentIn
      <3>4. OneSyncEach' BY <2>0, <3>1, <3>3, SentKept
      <3>5. Moves(t) BY <2>0, <2>2, <3>1 DEF Moves, Attempting
      <3>6. Tried BY <1>1, <1>a, <2>0, <3>1, <3>2, <3>5, TryMoves
      <3> QED BY <1>0, <1>1, <2>0, <3>4, <3>6 DEF PunchInv, PunchTypeOK, StreamHolds
    <2> QED BY <1>11, <2>1, <2>2 DEF Punch
  <1> QED BY <1>7, <1>8, <1>9, <1>10, <1>11

\* The service, the other peer and the environment move no goroutine.
LEMMA OtherSteps ==
  ASSUME PunchInv,
         \/ PublicAddrFound \/ ReachabilityRead \/ WatchExits \/ CloseService
         \/ TheyAnswer \/ TheyPunch \/ Environment \/ UNCHANGED punchVars
  PROVE  PunchInv'
  <1> USE DEF UNCHANGED_TRY, serviceVars, punchVars
  <1> DEFINE Str == [out : Outs, in : Replies, open : BOOLEAN]
             Them == [at : {"none", "read", "sync"}, punches : Nat, syncs : Nat]
  <1>0. str \in Str /\ them \in Them BY DEF PunchInv, PunchTypeOK
  <1>c. \A m \in {"CONNECT", "SYNC"} : Head(<<m>>) = m /\ Tail(<<m>>) = <<>> OBVIOUS
  <1>1. UNCHANGED <<try, active>>
    BY DEF PublicAddrFound, ReachabilityRead, WatchExits, CloseService, TheyAnswer,
           TheyPunch, Environment
  <1>2. OneAttempt' BY <1>1 DEF PunchInv, OneAttempt
  <1>3. /\ puncher' \in {"none", "open", "closing", "closed"} /\ (puncher' # "none" => watch' = "made")
        /\ puncher' = "closed" => puncher = "closed" \/ \A t \in Notified : try[t].at \in {"idle", "over"}
    <2>1. CASE CloseService
      <3>0. watch' = watch BY <2>1 DEF CloseService
      <3>1. \/ puncher' = puncher \/ (puncher = "open" /\ puncher' = "closing")
            \/ puncher = "closing" /\ puncher' = "closed" /\ \A t \in Notified : try[t].at \in {"idle", "over"}
        <4>1. CASE svcClose = "no" BY <2>1, <4>1 DEF CloseService
        <4>2. CASE svcClose = "puncher" BY <2>1, <4>2 DEF CloseService
        <4>3. CASE svcClose \notin {"no", "puncher"} BY <2>1, <4>3 DEF CloseService
        <4> QED BY <4>1, <4>2, <4>3
      <3> QED BY <3>0, <3>1 DEF PunchInv, PunchTypeOK, PuncherOnce
    <2>2. CASE PublicAddrFound \/ ReachabilityRead \/ WatchExits
      BY <2>2 DEF PublicAddrFound, ReachabilityRead, WatchExits, PunchInv, PunchTypeOK, PuncherOnce
    <2>3. CASE UNCHANGED <<puncher, watch>> BY <2>3 DEF PunchInv, PunchTypeOK, PuncherOnce
    <2> QED BY <2>1, <2>2, <2>3 DEF TheyAnswer, TheyPunch, Environment
  <1>4. PuncherOnce' BY <1>1, <1>3 DEF PunchInv, PuncherOnce
  <1>5. ASSUME str' \in Str, them' \in Them, them'.syncs = them.syncs, StreamHolds'
        PROVE  PunchInv'
    <2>1. OneSyncEach' BY <1>1, <1>5 DEF PunchInv, OneSyncEach, Sent, SentIn
    <2> QED BY <1>1, <1>2, <1>3, <1>4, <1>5, <2>1 DEF PunchInv, PunchTypeOK
  <1>6. CASE them' = them /\ str' \in {str, [str EXCEPT !.open = FALSE]}
    <2>1. str' \in Str /\ str'.out = str.out /\ str'.in = str.in BY <1>0, <1>6
    <2> QED BY <1>0, <1>5, <1>6, <2>1 DEF PunchInv, StreamHolds
  <1>7. CASE TheyAnswer
    <2>1. CASE str' = [str EXCEPT !.open = FALSE] /\ them' = [them EXCEPT !.at = "none"]
      <3>1. str' \in Str /\ str'.out = str.out /\ str'.in = str.in BY <1>0, <2>1
      <3>2. them' \in Them /\ them'.syncs = them.syncs /\ them'.punches = them.punches BY <1>0, <2>1
      <3> QED BY <1>5, <3>1, <3>2 DEF PunchInv, StreamHolds
    <2>2. ASSUME NEW reply \in {"CONNECT", "other"}, them' = [them EXCEPT !.at = "sync"],
                 str' = [str EXCEPT !.out = Tail(@), !.in = <<reply>>], Head(str.out) = "CONNECT", str.out # <<>>
          PROVE  PunchInv'
      <3>1. them' \in Them /\ them'.syncs = them.syncs /\ them'.punches = them.punches BY <1>0, <2>2
      <3>2. Tail(str.out) = <<>> BY <1>0, <1>c, <2>2 DEF Outs
      <3>3. str' \in Str /\ str'.out = <<>> BY <1>0, <2>2, <3>2 DEF Outs, Replies
      <3>4. StreamHolds'
        <4>1. them.punches <= them.syncs BY <1>0 DEF PunchInv, StreamHolds
        <4> QED BY <1>0, <3>1, <3>3, <4>1 DEF StreamHolds
      <3> QED BY <1>5, <3>1, <3>3, <3>4
    <2> QED BY <1>7, <2>1, <2>2 DEF TheyAnswer
  <1>8. CASE TheyPunch
    <2>1. CASE str' = [str EXCEPT !.open = FALSE] /\ them' = [them EXCEPT !.at = "none"]
      <3>1. str' \in Str /\ str'.out = str.out /\ str'.in = str.in BY <1>0, <2>1
      <3>2. them' \in Them /\ them'.syncs = them.syncs /\ them'.punches = them.punches BY <1>0, <2>1
      <3> QED BY <1>5, <3>1, <3>2 DEF PunchInv, StreamHolds
    <2>2. CASE /\ str.out # <<>> /\ Head(str.out) = "SYNC" /\ str' = [str EXCEPT !.out = Tail(@)]
               /\ them' = [them EXCEPT !.at = "none", !.punches = @ + 1]
      <3>1. them' \in Them /\ them'.syncs = them.syncs /\ them'.punches = them.punches + 1
        <4>1. them' = [at |-> "none", punches |-> them.punches + 1, syncs |-> them.syncs] BY <1>0, <2>2
        <4> QED BY <1>0, <4>1
      <3>2. Tail(str.out) = <<>> /\ str.out = <<"SYNC">> BY <1>0, <1>c, <2>2 DEF Outs
      <3>3. str' \in Str /\ str'.out = <<>> /\ str'.in = str.in BY <1>0, <2>2, <3>2 DEF Outs
      <3>4. them.punches + 1 <= them.syncs BY <3>2 DEF PunchInv, StreamHolds
      <3>5. StreamHolds' BY <1>0, <3>1, <3>3, <3>4 DEF StreamHolds
      <3> QED BY <1>5, <3>1, <3>3, <3>5
    <2> QED BY <1>8, <2>1, <2>2 DEF TheyPunch
  <1> QED BY <1>6, <1>7, <1>8
         DEF PublicAddrFound, ReachabilityRead, WatchExits, CloseService, Environment

\* Every step preserves the invariant.
LEMMA PunchInvNext == PunchInv /\ [PunchNext]_punchVars => PunchInv'
  BY TrySteps, OtherSteps DEF PunchNext

\* One goroutine at a time attempts a direct connection and its entry goes with it, the other side
\* punches at most once for each SYNC, of which there are at most maxRetries for a goroutine, and no
\* goroutine of the notifiee tries after Close (holepuncher.go: beginDirectConnect, directConnect,
\* initiateHolePunch; svc.go: Close).
THEOREM PunchAttemptsExclusive ==
  PunchSpec => []AttemptsExclusive
  <1>1. PunchInv => AttemptsExclusive
    <2> SUFFICES ASSUME PunchInv PROVE AttemptsExclusive OBVIOUS
    <2> DEFINE trying == {t \in Tryers : try[t].at \in Attempting}
    <2>1. Cardinality(trying) = IF active THEN 1 ELSE 0
      <3>1. CASE active = TRUE
        <4>1. PICK t \in Tryers : trying = {t} BY <3>1 DEF PunchInv, OneAttempt
        <4> QED BY <3>1, <4>1, FS_Singleton
      <3>2. CASE active = FALSE
        <4>1. trying = {} BY <3>2 DEF PunchInv, OneAttempt
        <4> QED BY <3>2, <4>1, FS_EmptySet
      <3> QED BY <3>1, <3>2 DEF PunchInv, PunchTypeOK
    <2>3. \A t \in Tryers : try[t].n < maxRetries BY PunchAssumption DEF PunchInv, PunchTypeOK, TryState
    <2>4. them.punches <= them.syncs BY DEF PunchInv, PunchTypeOK, StreamHolds
    <2>5. them.syncs <= Cardinality(Tryers) * maxRetries
      <3>1. Cardinality(Tryers) * maxRetries \in Nat BY FS_CardinalityType, PunchAssumption
      <3> QED BY <3>1, SentFinite DEF PunchInv, PunchTypeOK, OneSyncEach
    <2>6. puncher = "closed" => \A t \in Notified : try[t].at \notin Attempting
      BY DEF PunchInv, PuncherOnce, Attempting
    <2> QED BY <2>1, <2>3, <2>4, <2>5, <2>6 DEF AttemptsExclusive
  <1> QED BY <1>1, PunchInvInit, PunchInvNext, PTL DEF PunchSpec

----------------------------------------------------------------------------
(* The relay client, for any number of dials, incoming connections and      *)
(* relays.                                                                  *)

DialState == [at : {"idle", "lookup", "join", "dialing", "publish", "upgrade", "returned", "failed", "closed"},
              on : Dials \union {NoDial}]
StopState == {"none", "offered", "upgrade", "conn", "over"}

ClientTypeOK ==
  /\ dl \in [Dials -> DialState] /\ activeDial \in Dials \union {NoDial}
  /\ comp \in [Dials -> [closed : BOOLEAN, err : {"nil", "other", "relay"}]]
  /\ scopes \in [Dials -> {"none", "open", "done"}]
  /\ hop \in [Conns -> {"none", "open", "closed"}] /\ stop \in [Ins -> StopState]
  /\ hopCount \in [Relays -> Int] /\ hopTag \in [Relays -> BOOLEAN]

\* The attempt published is the one being made, and whoever joined it will see its end.
Published ==
  /\ \A d \in Dials : dl[d].at \in {"dialing", "publish"} <=> activeDial = d
  /\ \A d \in Dials : dl[d].at = "join" => /\ dl[d].on \in Dials
                                           /\ activeDial = dl[d].on \/ comp[dl[d].on].closed = TRUE

\* A call has a stream, and a scope, only from the step that opens it to the one that ends it.
Left ==
  /\ \A d \in Dials :
       /\ dl[d].at \in {"idle", "lookup", "join", "dialing"} => hop[d] = "none" /\ comp[d].err = "nil"
       /\ dl[d].at = "publish" => (hop[d] = "open" <=> comp[d].err = "nil")
       /\ dl[d].at \in {"failed", "closed"} => hop[d] # "open" /\ scopes[d] # "open"
  /\ \A i \in Ins : stop[i] \in {"none", "over"} => hop[i] # "open"

\* A connection that counts for its relay.
Uses(c) == \/ c \in Dials /\ dl[c].at \in {"upgrade", "returned"}
           \/ c \in Ins /\ stop[c] \in {"upgrade", "conn"}
UsingOf(r) == {c \in Dials \union Ins : via[c] = r /\ Uses(c)}

\* The count never exceeds the connections that use the relay (a connection closed twice is taken
\* off twice), and the tag is there only while the count is positive.
TagCounted ==
  \A r \in Relays : /\ IsFiniteSet(UsingOf(r)) /\ hopCount[r] <= Cardinality(UsingOf(r))
                    /\ hopTag[r] = TRUE => hopCount[r] >= 1

ClientInv == ClientTypeOK /\ Published /\ Left /\ TagCounted

\* No call has begun.
LEMMA ClientInvInit == CircuitInit => ClientInv
  <1> SUFFICES ASSUME CircuitInit PROVE ClientInv OBVIOUS
  <1>1. ClientTypeOK
    <2>1. [at |-> "idle", on |-> NoDial] \in DialState BY DEF DialState
    <2>2. [closed |-> FALSE, err |-> "nil"] \in [closed : BOOLEAN, err : {"nil", "other", "relay"}] OBVIOUS
    <2> QED BY <2>1, <2>2 DEF CircuitInit, ClientTypeOK, StopState, Conns
  <1>2. Published BY CircuitAssumption DEF CircuitInit, Published
  <1>3. Left BY DEF CircuitInit, Left, Conns
  <1>4. \A r \in Relays : UsingOf(r) = {} BY CircuitAssumption DEF CircuitInit, UsingOf, Uses
  <1>6. \A r \in Relays : hopCount[r] = 0 /\ hopTag[r] = FALSE BY DEF CircuitInit
  <1>5. TagCounted
    <2>1. IsFiniteSet({}) /\ Cardinality({}) = 0 BY FS_EmptySet
    <2> QED BY <1>4, <1>6, <2>1 DEF TagCounted
  <1> QED BY <1>1, <1>2, <1>3, <1>5 DEF ClientInv

\* The tags of the relays, by what a step does to the connections that use them.
LEMMA TagsKept ==
  ASSUME ClientInv, UNCHANGED <<hopCount, hopTag>>, \A c \in Dials \union Ins : Uses(c)' <=> Uses(c)
  PROVE  TagCounted'
  <1>1. \A r \in Relays : UsingOf(r)' = UsingOf(r) BY DEF UsingOf
  <1> QED BY <1>1 DEF ClientInv, TagCounted

\* tagHop: one more connection uses the relay.
LEMMA TagsMore ==
  ASSUME ClientInv, NEW c \in Dials \union Ins, tagHop(via[c]), ~Uses(c), Uses(c)',
         \A d \in (Dials \union Ins) \ {c} : Uses(d)' <=> Uses(d)
  PROVE  TagCounted' /\ hopCount' \in [Relays -> Int] /\ hopTag' \in [Relays -> BOOLEAN]
  <1> DEFINE q == via[c]
  <1>0. q \in Relays BY CircuitAssumption
  <1>1. UsingOf(q)' = UsingOf(q) \union {c} /\ c \notin UsingOf(q) BY DEF UsingOf
  <1>2. \A r \in Relays \ {q} : UsingOf(r)' = UsingOf(r) BY DEF UsingOf
  <1>3. /\ hopCount'[q] = hopCount[q] + 1 /\ \A r \in Relays \ {q} : hopCount'[r] = hopCount[r]
        /\ \A r \in Relays \ {q} : hopTag'[r] = hopTag[r]
        /\ hopCount' \in [Relays -> Int] /\ hopTag' \in [Relays -> BOOLEAN]
    BY <1>0 DEF tagHop, ClientInv, ClientTypeOK
  <1>4. hopTag'[q] = TRUE => hopTag[q] = TRUE \/ hopCount[q] = 0
    BY <1>0 DEF tagHop, ClientInv, ClientTypeOK
  <1>5. IsFiniteSet(UsingOf(q)') /\ Cardinality(UsingOf(q)') = Cardinality(UsingOf(q)) + 1
    BY <1>0, <1>1, FS_AddElement DEF ClientInv, TagCounted
  <1>6. Cardinality(UsingOf(q)) \in Nat /\ hopCount[q] \in Int
    BY <1>0, FS_CardinalityType DEF ClientInv, TagCounted, ClientTypeOK
  <1>7. ASSUME NEW r \in Relays PROVE /\ IsFiniteSet(UsingOf(r)') /\ hopCount'[r] <= Cardinality(UsingOf(r)')
                                      /\ hopTag'[r] = TRUE => hopCount'[r] >= 1
    <2>1. CASE r = q BY <1>3, <1>4, <1>5, <1>6, <2>1 DEF ClientInv, TagCounted
    <2>2. CASE r # q BY <1>2, <1>3, <2>2 DEF ClientInv, TagCounted
    <2> QED BY <2>1, <2>2
  <1> QED BY <1>3, <1>7 DEF TagCounted

\* untagHop, once or twice: one connection less uses the relay.
LEMMA TagsLess ==
  ASSUME ClientInv, NEW c \in Dials \union Ins, NEW times \in {1, 2}, untagHop(via[c], times),
         Uses(c), ~Uses(c)', \A d \in (Dials \union Ins) \ {c} : Uses(d)' <=> Uses(d)
  PROVE  TagCounted' /\ hopCount' \in [Relays -> Int] /\ hopTag' \in [Relays -> BOOLEAN]
  <1> DEFINE q == via[c]
  <1>0. q \in Relays BY CircuitAssumption
  <1>1. UsingOf(q)' = UsingOf(q) \ {c} /\ c \in UsingOf(q) BY DEF UsingOf
  <1>2. \A r \in Relays \ {q} : UsingOf(r)' = UsingOf(r) BY DEF UsingOf
  <1>3. /\ hopCount'[q] = hopCount[q] - times /\ \A r \in Relays \ {q} : hopCount'[r] = hopCount[r]
        /\ \A r \in Relays \ {q} : hopTag'[r] = hopTag[r]
        /\ hopCount' \in [Relays -> Int] /\ hopTag' \in [Relays -> BOOLEAN]
    BY <1>0 DEF untagHop, ClientInv, ClientTypeOK
  <1>4. hopTag'[q] = TRUE => hopTag[q] = TRUE /\ hopCount[q] \notin 1..times
    BY <1>0 DEF untagHop, ClientInv, ClientTypeOK
  <1>5. IsFiniteSet(UsingOf(q)') /\ Cardinality(UsingOf(q)') = Cardinality(UsingOf(q)) - 1
    BY <1>0, <1>1, FS_RemoveElement DEF ClientInv, TagCounted
  <1>6. Cardinality(UsingOf(q)) \in Nat /\ hopCount[q] \in Int
    BY <1>0, FS_CardinalityType DEF ClientInv, TagCounted, ClientTypeOK
  <1>7. ASSUME NEW r \in Relays PROVE /\ IsFiniteSet(UsingOf(r)') /\ hopCount'[r] <= Cardinality(UsingOf(r)')
                                      /\ hopTag'[r] = TRUE => hopCount'[r] >= 1
    <2>1. CASE r = q BY <1>3, <1>4, <1>5, <1>6, <2>1 DEF ClientInv, TagCounted
    <2>2. CASE r # q BY <1>2, <1>3, <2>2 DEF ClientInv, TagCounted
    <2> QED BY <2>1, <2>2
  <1> QED BY <1>3, <1>7 DEF TagCounted

\* One call moves; the others, the connections that come in and the rest are as they were.
OneMoves(d) ==
  /\ dl'[d] \in DialState /\ \A e \in Dials \ {d} : dl'[e] = dl[e]
  /\ scopes'[d] \in {"none", "open", "done"} /\ \A e \in Dials \ {d} : scopes'[e] = scopes[e]
  /\ comp'[d] \in [closed : BOOLEAN, err : {"nil", "other", "relay"}] /\ \A e \in Dials \ {d} : comp'[e] = comp[e]
  /\ hop'[d] \in {"none", "open", "closed"} /\ \A e \in Conns \ {d} : hop'[e] = hop[e]
  /\ DOMAIN dl' = Dials /\ dl' = [e \in Dials |-> dl'[e]] /\ scopes' = [e \in Dials |-> scopes'[e]]
  /\ comp' = [e \in Dials |-> comp'[e]] /\ hop' = [e \in Conns |-> hop'[e]]
  /\ activeDial' \in Dials \union {NoDial} /\ stop' = stop

\* The types after the move of one call.
LEMMA OneMovesTyped ==
  ASSUME ClientInv, NEW d \in Dials, OneMoves(d),
         hopCount' \in [Relays -> Int], hopTag' \in [Relays -> BOOLEAN]
  PROVE  ClientTypeOK'
  <1>1. \A e \in Dials : dl'[e] \in DialState BY DEF OneMoves, ClientInv, ClientTypeOK
  <1>2. \A e \in Dials : scopes'[e] \in {"none", "open", "done"} BY DEF OneMoves, ClientInv, ClientTypeOK
  <1>3. \A e \in Dials : comp'[e] \in [closed : BOOLEAN, err : {"nil", "other", "relay"}]
    BY DEF OneMoves, ClientInv, ClientTypeOK
  <1>4. \A e \in Conns : hop'[e] \in {"none", "open", "closed"} BY DEF OneMoves, ClientInv, ClientTypeOK
  <1>5. stop' \in [Ins -> StopState] /\ activeDial' \in Dials \union {NoDial}
    BY DEF OneMoves, ClientInv, ClientTypeOK
  <1>6. dl' \in [Dials -> DialState] BY <1>1 DEF OneMoves
  <1>7. scopes' \in [Dials -> {"none", "open", "done"}] BY <1>2 DEF OneMoves
  <1>8. comp' \in [Dials -> [closed : BOOLEAN, err : {"nil", "other", "relay"}]] BY <1>3 DEF OneMoves
  <1>9. hop' \in [Conns -> {"none", "open", "closed"}] BY <1>4 DEF OneMoves
  <1> QED BY <1>5, <1>6, <1>7, <1>8, <1>9 DEF ClientTypeOK

\* What the calls leave behind, after the move of one.
LEMMA OneMovesLeft ==
  ASSUME ClientInv, NEW d \in Dials, OneMoves(d),
         dl'[d].at \in {"idle", "lookup", "join", "dialing"} => hop'[d] = "none" /\ comp'[d].err = "nil",
         dl'[d].at = "publish" => (hop'[d] = "open" <=> comp'[d].err = "nil"),
         dl'[d].at \in {"failed", "closed"} => hop'[d] # "open" /\ scopes'[d] # "open"
  PROVE  Left'
  BY CircuitAssumption DEF OneMoves, ClientInv, Left, Conns

\* Who uses a relay, after the move of one call.
LEMMA OneMovesUses ==
  ASSUME NEW d \in Dials, OneMoves(d)
  PROVE  /\ \A c \in (Dials \union Ins) \ {d} : Uses(c)' <=> Uses(c)
         /\ Uses(d) <=> dl[d].at \in {"upgrade", "returned"}
         /\ Uses(d)' <=> dl'[d].at \in {"upgrade", "returned"}
  BY CircuitAssumption DEF OneMoves, Uses

\* A call that neither begins nor ends to use a relay, nor moves the attempt published.
LEMMA QuietMove ==
  ASSUME ClientInv, NEW d \in Dials, OneMoves(d), Left', UNCHANGED <<hopCount, hopTag, activeDial>>,
         dl[d].at \in {"upgrade", "returned"} <=> dl'[d].at \in {"upgrade", "returned"},
         dl[d].at \in {"dialing", "publish"} <=> dl'[d].at \in {"dialing", "publish"},
         comp[d].closed = TRUE => comp'[d].closed = TRUE,
         dl'[d].at = "join" => dl'[d].on \in Dials /\ (activeDial = dl'[d].on \/ comp'[dl'[d].on].closed = TRUE)
  PROVE  ClientInv'
  <1>1. ClientTypeOK' BY OneMovesTyped DEF ClientInv, ClientTypeOK
  <1>2. TagCounted' BY OneMovesUses, TagsKept
  <1>3. Published' BY DEF OneMoves, ClientInv, Published
  <1> QED BY <1>1, <1>2, <1>3 DEF ClientInv

\* The steps of a call up to its attempt's outcome.
LEMMA DialSteps ==
  ASSUME ClientInv, NEW d \in Dials,
         DialCircuit(d) \/ Lookup(d) \/ Join(d) \/ dialPeer(d)
  PROVE  ClientInv'
  <1> USE DEF DialAt, DialGoto, UNCHANGED_TAGS, FailDial
  <1>0. /\ dl[d] \in DialState /\ comp[d] \in [closed : BOOLEAN, err : {"nil", "other", "relay"}]
        /\ dl \in [Dials -> DialState] /\ scopes \in [Dials -> {"none", "open", "done"}]
        /\ comp \in [Dials -> [closed : BOOLEAN, err : {"nil", "other", "relay"}]]
        /\ hop \in [Conns -> {"none", "open", "closed"}] /\ d \in Conns
        /\ activeDial \in Dials \union {NoDial}
    BY DEF ClientInv, ClientTypeOK, Conns
  <1>1. ASSUME NEW s \in {"lookup", "failed", "dialing", "publish"}, dl' = [dl EXCEPT ![d].at = s]
        PROVE  /\ dl'[d] \in DialState /\ dl'[d].at = s /\ dl' = [e \in Dials |-> dl'[e]]
               /\ \A e \in Dials \ {d} : dl'[e] = dl[e]
    BY <1>0, <1>1 DEF DialState
  \* A call fails before there is anything to take back.
  <1>2. ASSUME dl[d].at \in {"idle", "join"}, FailDial(d), UNCHANGED <<activeDial, comp, hop, stop, hopCount, hopTag>>
        PROVE  ClientInv'
    <2>1. /\ scopes'[d] \in {"none", "done"} /\ scopes' = [e \in Dials |-> scopes'[e]]
          /\ \A e \in Dials \ {d} : scopes'[e] = scopes[e]
      BY <1>0, <1>2
    <2>2. OneMoves(d) /\ dl'[d].at = "failed" BY <1>0, <1>1, <1>2, <2>1 DEF OneMoves
    <2>3. hop'[d] = "none" BY <1>2 DEF ClientInv, Left
    <2>4. Left' BY <2>1, <2>2, <2>3, OneMovesLeft
    <2> QED BY <1>2, <2>2, <2>4, QuietMove
  <1>3. CASE DialCircuit(d)
    <2>1. CASE dl' = [dl EXCEPT ![d].at = "lookup"] /\ scopes' = [scopes EXCEPT ![d] = "open"]
      <3>0. dl[d].at = "idle" /\ UNCHANGED <<activeDial, comp, hop, stop, hopCount, hopTag>> BY <1>3 DEF DialCircuit
      <3>2. OneMoves(d) /\ dl'[d].at = "lookup" BY <1>0, <1>1, <2>1, <3>0 DEF OneMoves
      <3>3. hop'[d] = "none" /\ comp'[d].err = "nil" BY <3>0 DEF ClientInv, Left
      <3>4. Left' BY <3>2, <3>3, OneMovesLeft
      <3> QED BY <3>0, <3>2, <3>4, QuietMove
    <2> QED BY <1>2, <1>3, <2>1 DEF DialCircuit
  <1>4. CASE Lookup(d)
    <2>0. dl[d].at = "lookup" /\ UNCHANGED <<scopes, comp, hop, stop, hopCount, hopTag>> BY <1>4 DEF Lookup
    <2>3. hop'[d] = "none" /\ comp'[d].err = "nil" BY <2>0 DEF ClientInv, Left
    <2>1. CASE activeDial = NoDial /\ dl' = [dl EXCEPT ![d].at = "dialing"] /\ activeDial' = d
      <3>2. OneMoves(d) /\ dl'[d].at = "dialing" BY <1>0, <1>1, <2>0, <2>1 DEF OneMoves
      <3>3. Left' BY <2>3, <3>2, OneMovesLeft
      <3>4. ClientTypeOK' BY <2>0, <3>2, OneMovesTyped DEF ClientInv, ClientTypeOK
      <3>5. TagCounted' BY <2>0, <3>2, OneMovesUses, TagsKept
      <3>6. \A e \in Dials : dl[e].at \notin {"dialing", "publish"} BY <2>1, CircuitAssumption DEF ClientInv, Published
      <3>7. Published'
        BY <2>0, <2>1, <3>2, <3>6, CircuitAssumption DEF OneMoves, ClientInv, Published
      <3> QED BY <3>3, <3>4, <3>5, <3>7 DEF ClientInv
    <2>2. CASE activeDial # NoDial /\ dl' = [dl EXCEPT ![d] = [at |-> "join", on |-> activeDial]] /\ activeDial' = activeDial
      <3>1. dl'[d] = [at |-> "join", on |-> activeDial] /\ activeDial \in Dials /\ dl'[d] \in DialState
        BY <1>0, <2>2 DEF DialState
      <3>2. OneMoves(d) BY <1>0, <2>0, <2>2, <3>1 DEF OneMoves
      <3>3. Left' BY <2>3, <3>1, <3>2, OneMovesLeft
      <3>4. dl'[d].at = "join" /\ dl'[d].on = activeDial /\ comp' = comp BY <2>0, <3>1
      <3> QED BY <2>0, <2>2, <3>1, <3>2, <3>3, <3>4, QuietMove
    <2> QED BY <1>4, <2>1, <2>2 DEF Lookup
  <1>5. CASE Join(d)
    <2>0. dl[d].at = "join" /\ UNCHANGED <<activeDial, comp, hop, stop, hopCount, hopTag>> BY <1>5 DEF Join
    <2>1. CASE dl' = [dl EXCEPT ![d] = [at |-> "lookup", on |-> NoDial]] /\ UNCHANGED scopes
      <3>1. dl'[d] = [at |-> "lookup", on |-> NoDial] /\ dl'[d] \in DialState BY <1>0, <2>1 DEF DialState
      <3>2. OneMoves(d) BY <1>0, <2>0, <2>1, <3>1 DEF OneMoves
      <3>3. hop'[d] = "none" /\ comp'[d].err = "nil" BY <2>0 DEF ClientInv, Left
      <3>4. Left' BY <3>1, <3>2, <3>3, OneMovesLeft
      <3>5. dl'[d].at = "lookup" /\ comp' = comp BY <2>0, <3>1
      <3> QED BY <2>0, <3>2, <3>4, <3>5, QuietMove
    <2> QED BY <1>2, <1>5, <2>0, <2>1 DEF Join
  <1>6. CASE dialPeer(d)
    <2>0. /\ dl[d].at = "dialing" /\ dl' = [dl EXCEPT ![d].at = "publish"]
          /\ UNCHANGED <<activeDial, scopes, stop, hopCount, hopTag>>
      BY <1>6 DEF dialPeer
    <2>1. hop[d] = "none" /\ comp[d].err = "nil" BY <2>0 DEF ClientInv, Left
    <2> DEFINE Done == /\ hop'[d] \in {"none", "open", "closed"} /\ \A x \in Conns \ {d} : hop'[x] = hop[x]
                       /\ hop' = [x \in Conns |-> hop'[x]]
                       /\ comp'[d] \in [closed : BOOLEAN, err : {"nil", "other", "relay"}]
                       /\ comp'[d].closed = comp[d].closed
                       /\ comp' = [x \in Dials |-> comp'[x]] /\ \A x \in Dials \ {d} : comp'[x] = comp[x]
                       /\ hop'[d] = "open" <=> comp'[d].err = "nil"
    <2>2. Done
      <3>1. CASE hop' = [hop EXCEPT ![d] = "open"] /\ UNCHANGED comp BY <1>0, <2>1, <3>1
      <3>2. ASSUME NEW e \in {"other", "relay"}, comp' = [comp EXCEPT ![d].err = e],
                   hop' = [hop EXCEPT ![d] = IF e = "relay" THEN "closed" ELSE @]
            PROVE  Done
        BY <1>0, <2>1, <3>2
      <3> QED BY <1>6, <3>1, <3>2 DEF dialPeer
    <2>3. OneMoves(d) /\ dl'[d].at = "publish" BY <1>0, <1>1, <2>0, <2>2 DEF OneMoves
    <2>4. Left' BY <2>2, <2>3, OneMovesLeft
    <2> QED BY <2>0, <2>2, <2>3, <2>4, QuietMove
  <1> QED BY <1>3, <1>4, <1>5, <1>6

\* The steps from the publication of the outcome to the connection's end.
LEMMA DialEnds ==
  ASSUME ClientInv, NEW d \in Dials,
         Publish(d) \/ UpgradeDial(d) \/ CloseRelayed(d)
  PROVE  ClientInv'
  <1> USE DEF DialAt, DialGoto, UNCHANGED_TAGS, FailDial
  <1>0. /\ dl[d] \in DialState /\ comp[d] \in [closed : BOOLEAN, err : {"nil", "other", "relay"}]
        /\ dl \in [Dials -> DialState] /\ scopes \in [Dials -> {"none", "open", "done"}]
        /\ comp \in [Dials -> [closed : BOOLEAN, err : {"nil", "other", "relay"}]]
        /\ hop \in [Conns -> {"none", "open", "closed"}] /\ d \in Conns /\ d \in Dials \union Ins
        /\ activeDial \in Dials \union {NoDial} /\ d \notin Ins
        /\ hopCount \in [Relays -> Int] /\ hopTag \in [Relays -> BOOLEAN]
    BY CircuitAssumption DEF ClientInv, ClientTypeOK, Conns
  <1>1. ASSUME NEW s \in {"failed", "upgrade", "returned", "closed"}, dl' = [dl EXCEPT ![d].at = s]
        PROVE  /\ dl'[d] \in DialState /\ dl'[d].at = s /\ dl' = [e \in Dials |-> dl'[e]]
               /\ \A e \in Dials \ {d} : dl'[e] = dl[e]
    BY <1>0, <1>1 DEF DialState
  <1>2. ASSUME scopes' = [scopes EXCEPT ![d] = IF @ = "open" THEN "done" ELSE @] \/ scopes' = [scopes EXCEPT ![d] = "done"]
        PROVE  /\ scopes'[d] \in {"none", "done"} /\ scopes' = [e \in Dials |-> scopes'[e]]
               /\ \A e \in Dials \ {d} : scopes'[e] = scopes[e]
    BY <1>0, <1>2
  <1>3. CASE Publish(d)
    <2>0. /\ dl[d].at = "publish" /\ comp' = [comp EXCEPT ![d].closed = TRUE] /\ activeDial' = NoDial
          /\ UNCHANGED <<hop, stop>>
      BY <1>3 DEF Publish
    <2>1. /\ comp'[d] \in [closed : BOOLEAN, err : {"nil", "other", "relay"}] /\ comp'[d].closed = TRUE
          /\ comp' = [x \in Dials |-> comp'[x]] /\ \A x \in Dials \ {d} : comp'[x] = comp[x]
      BY <1>0, <2>0
    <2>2. activeDial = d /\ \A e \in Dials \ {d} : dl[e].at \notin {"dialing", "publish"}
      BY <2>0 DEF ClientInv, Published
    <2>3. ASSUME NEW s \in {"failed", "upgrade"}, dl' = [dl EXCEPT ![d].at = s]
          PROVE  Published'
      <3>1. \A e \in Dials : dl'[e].at \notin {"dialing", "publish"} BY <1>1, <2>2, <2>3
      <3>2. ASSUME NEW e \in Dials, dl'[e].at = "join" PROVE dl'[e].on \in Dials /\ comp'[dl'[e].on].closed = TRUE
        <4>1. e # d /\ dl'[e] = dl[e] BY <1>1, <2>3, <3>2
        <4> QED BY <2>1, <2>2, <3>2, <4>1 DEF ClientInv, Published
      <3> QED BY <2>0, <3>1, <3>2, CircuitAssumption DEF Published
    <2>4. CASE comp[d].err = "nil"
      <3>0. dl' = [dl EXCEPT ![d].at = "upgrade"] /\ tagHop(via[d]) /\ UNCHANGED scopes
        BY <1>3, <2>4 DEF Publish
      <3>1. OneMoves(d) /\ dl'[d].at = "upgrade" BY <1>0, <1>1, <2>0, <2>1, <3>0 DEF OneMoves
      <3>2. Left' BY <3>1, OneMovesLeft
      <3>3. ~Uses(d) /\ Uses(d)' /\ \A c \in (Dials \union Ins) \ {d} : Uses(c)' <=> Uses(c)
        BY <2>0, <3>1, OneMovesUses
      <3>4. TagCounted' /\ hopCount' \in [Relays -> Int] /\ hopTag' \in [Relays -> BOOLEAN]
        BY <1>0, <3>0, <3>3, TagsMore
      <3>5. ClientTypeOK' BY <3>1, <3>4, OneMovesTyped
      <3>6. Published' BY <2>3, <3>0
      <3> QED BY <3>2, <3>4, <3>5, <3>6 DEF ClientInv
    <2>5. CASE comp[d].err # "nil"
      <3>0. FailDial(d) /\ UNCHANGED <<hopCount, hopTag>> BY <1>3, <2>5 DEF Publish
      <3>1. OneMoves(d) /\ dl'[d].at = "failed" /\ scopes'[d] # "open"
        BY <1>0, <1>1, <1>2, <2>0, <2>1, <3>0 DEF OneMoves
      <3>2. hop'[d] # "open" BY <2>0, <2>5 DEF ClientInv, Left
      <3>3. Left' BY <3>1, <3>2, OneMovesLeft
      <3>4. \A c \in Dials \union Ins : Uses(c)' <=> Uses(c) BY <2>0, <3>1, OneMovesUses
      <3>5. TagCounted' BY <3>0, <3>4, TagsKept
      <3>6. ClientTypeOK' BY <1>0, <3>0, <3>1, OneMovesTyped
      <3>7. Published' BY <2>3, <3>0
      <3> QED BY <3>3, <3>5, <3>6, <3>7 DEF ClientInv
    <2> QED BY <2>4, <2>5
  \* The connection is closed, by the upgrader or by its owner.
  <1>4. ASSUME dl[d].at \in {"upgrade", "returned"}, NEW s \in {"failed", "closed"}, dl' = [dl EXCEPT ![d].at = s],
               NEW times \in {1, 2}, untagHop(via[d], times), hop' = [hop EXCEPT ![d] = "closed"],
               scopes' = [scopes EXCEPT ![d] = IF @ = "open" THEN "done" ELSE @] \/ scopes' = [scopes EXCEPT ![d] = "done"],
               UNCHANGED <<activeDial, comp, stop>>
        PROVE  ClientInv'
    <2>1. hop'[d] = "closed" /\ hop' = [e \in Conns |-> hop'[e]] /\ \A e \in Conns \ {d} : hop'[e] = hop[e]
      BY <1>0, <1>4
    <2>2. OneMoves(d) /\ dl'[d].at = s /\ scopes'[d] # "open" BY <1>0, <1>1, <1>2, <1>4, <2>1 DEF OneMoves
    <2>3. Left' BY <2>1, <2>2, OneMovesLeft
    <2>4. Uses(d) /\ ~Uses(d)' /\ \A c \in (Dials \union Ins) \ {d} : Uses(c)' <=> Uses(c)
      BY <1>4, <2>2, OneMovesUses
    <2>5. TagCounted' /\ hopCount' \in [Relays -> Int] /\ hopTag' \in [Relays -> BOOLEAN]
      BY <1>0, <1>4, <2>4, TagsLess
    <2>6. ClientTypeOK' BY <2>2, <2>5, OneMovesTyped
    <2>7. Published' BY <1>4, <2>2 DEF OneMoves, ClientInv, Published
    <2> QED BY <2>3, <2>5, <2>6, <2>7 DEF ClientInv
  <1>5. CASE UpgradeDial(d)
    <2>0. dl[d].at = "upgrade" /\ UNCHANGED <<activeDial, comp, stop>> BY <1>5 DEF UpgradeDial
    <2>1. CASE dl' = [dl EXCEPT ![d].at = "returned"] /\ UNCHANGED <<scopes, hop, hopCount, hopTag>>
      <3>1. OneMoves(d) /\ dl'[d].at = "returned" BY <1>0, <1>1, <2>0, <2>1 DEF OneMoves
      <3>2. Left' BY <3>1, OneMovesLeft
      <3> QED BY <2>0, <2>1, <3>1, <3>2, QuietMove
    <2>2. ASSUME NEW times \in {1, 2}, FailDial(d), hop' = [hop EXCEPT ![d] = "closed"],
                 untagHop(via[d], times)
          PROVE  ClientInv'
      BY <1>4, <2>0, <2>2
    <2> QED BY <1>5, <2>1, <2>2 DEF UpgradeDial
  <1>6. CASE CloseRelayed(d)
    <2>1. /\ dl[d].at = "returned" /\ dl' = [dl EXCEPT ![d].at = "closed"] /\ scopes' = [scopes EXCEPT ![d] = "done"]
          /\ hop' = [hop EXCEPT ![d] = "closed"] /\ untagHop(via[d], 1) /\ UNCHANGED <<activeDial, comp, stop>>
      BY <1>0, <1>6 DEF CloseRelayed
    <2> QED BY <1>4, <2>1
  <1> QED BY <1>3, <1>5, <1>6

\* A connection that comes in moves; the calls are as they were.
LEMMA InSteps ==
  ASSUME ClientInv, NEW i \in Ins,
         \/ handleStreamV2(i) \/ AcceptTimeout(i) \/ AcceptCircuit(i) \/ UpgradeIn(i)
         \/ CloseRelayed(i)
  PROVE  ClientInv'
  <1> USE DEF UNCHANGED_TAGS
  <1>0. /\ stop \in [Ins -> StopState] /\ hop \in [Conns -> {"none", "open", "closed"}] /\ i \in Conns
        /\ i \notin Dials /\ i \in Dials \union Ins /\ hopCount \in [Relays -> Int] /\ hopTag \in [Relays -> BOOLEAN]
    BY CircuitAssumption DEF ClientInv, ClientTypeOK, Conns
  <1>1. UNCHANGED <<dl, activeDial, comp, scopes>>
    BY <1>0 DEF handleStreamV2, AcceptTimeout, AcceptCircuit, UpgradeIn, CloseRelayed
  <1> DEFINE Moved(s, h) == stop' = [stop EXCEPT ![i] = s] /\ hop' = [hop EXCEPT ![i] = h]
  <1>2. ASSUME NEW s \in StopState, NEW h \in {"open", "closed"}, Moved(s, h), s = "over" => h = "closed", s # "none",
               TagCounted', hopCount' \in [Relays -> Int], hopTag' \in [Relays -> BOOLEAN]
        PROVE  ClientInv'
    <2>1. stop'[i] = s /\ hop'[i] = h BY <1>0, <1>2
    <2>2. (\A j \in Ins \ {i} : stop'[j] = stop[j]) /\ \A c \in Conns \ {i} : hop'[c] = hop[c] BY <1>0, <1>2
    <2>3. ClientTypeOK' BY <1>0, <1>1, <1>2 DEF ClientInv, ClientTypeOK
    <2>4. Left' BY <1>0, <1>1, <1>2, <2>1, <2>2 DEF ClientInv, Left, Conns
    <2>5. Published' BY <1>1 DEF ClientInv, Published
    <2> QED BY <1>2, <2>3, <2>4, <2>5 DEF ClientInv
  <1>3. ASSUME NEW s \in StopState, stop' = [stop EXCEPT ![i] = s]
        PROVE  /\ \A c \in (Dials \union Ins) \ {i} : Uses(c)' <=> Uses(c)
               /\ Uses(i) <=> stop[i] \in {"upgrade", "conn"}
               /\ Uses(i)' <=> s \in {"upgrade", "conn"}
    BY <1>0, <1>1, <1>3 DEF Uses
  <1>4. ASSUME NEW s \in StopState, stop' = [stop EXCEPT ![i] = s], UNCHANGED <<hopCount, hopTag>>,
               s \in {"upgrade", "conn"} <=> stop[i] \in {"upgrade", "conn"}
        PROVE  TagCounted' /\ hopCount' \in [Relays -> Int] /\ hopTag' \in [Relays -> BOOLEAN]
    <2>1. \A c \in Dials \union Ins : Uses(c)' <=> Uses(c) BY <1>3, <1>4
    <2> QED BY <1>0, <1>4, <2>1, TagsKept
  <1>5. CASE \/ handleStreamV2(i) \/ AcceptTimeout(i)
    <2>1. /\ stop[i] \in {"none", "offered"} /\ UNCHANGED <<hopCount, hopTag>>
          /\ Moved("offered", "open") \/ Moved("over", "closed")
      BY <1>5 DEF handleStreamV2, AcceptTimeout
    <2> QED BY <1>2, <1>4, <2>1 DEF StopState
  <1>6. CASE AcceptCircuit(i)
    <2>0. stop[i] = "offered" BY <1>6 DEF AcceptCircuit
    <2>1. CASE Moved("over", "closed") /\ UNCHANGED <<hopCount, hopTag>> BY <1>2, <1>4, <2>0, <2>1 DEF StopState
    <2>2. CASE stop' = [stop EXCEPT ![i] = "upgrade"] /\ tagHop(via[i]) /\ UNCHANGED hop
      <3>1. TagCounted' /\ hopCount' \in [Relays -> Int] /\ hopTag' \in [Relays -> BOOLEAN]
        BY <1>0, <1>3, <2>0, <2>2, TagsMore DEF StopState
      <3>2. stop'[i] = "upgrade" /\ \A j \in Ins \ {i} : stop'[j] = stop[j] BY <1>0, <2>2
      <3>3. ClientTypeOK' BY <1>0, <1>1, <2>2, <3>1 DEF ClientInv, ClientTypeOK, StopState
      <3>4. Left' BY <1>1, <2>2, <3>2 DEF ClientInv, Left
      <3>5. Published' BY <1>1 DEF ClientInv, Published
      <3> QED BY <3>1, <3>3, <3>4, <3>5 DEF ClientInv
    <2> QED BY <1>6, <2>1, <2>2 DEF AcceptCircuit
  <1>7. ASSUME stop[i] \in {"upgrade", "conn"}, Moved("over", "closed"), NEW times \in {1, 2}, untagHop(via[i], times)
        PROVE  ClientInv'
    <2>1. Uses(i) /\ ~Uses(i)' /\ \A c \in (Dials \union Ins) \ {i} : Uses(c)' <=> Uses(c)
      BY <1>3, <1>7 DEF StopState
    <2>2. TagCounted' /\ hopCount' \in [Relays -> Int] /\ hopTag' \in [Relays -> BOOLEAN]
      BY <1>0, <1>7, <2>1, TagsLess
    <2> QED BY <1>2, <1>7, <2>2 DEF StopState
  <1>8. CASE UpgradeIn(i)
    <2>0. stop[i] = "upgrade" BY <1>8 DEF UpgradeIn
    <2>1. CASE stop' = [stop EXCEPT ![i] = "conn"] /\ UNCHANGED <<hop, hopCount, hopTag>>
      <3>1. TagCounted' /\ hopCount' \in [Relays -> Int] /\ hopTag' \in [Relays -> BOOLEAN]
        BY <1>4, <2>0, <2>1 DEF StopState
      <3>2. stop'[i] = "conn" /\ \A j \in Ins \ {i} : stop'[j] = stop[j] BY <1>0, <2>1
      <3>3. ClientTypeOK' BY <1>0, <1>1, <2>1, <3>1 DEF ClientInv, ClientTypeOK, StopState
      <3>4. Left' BY <1>1, <2>1, <3>2 DEF ClientInv, Left
      <3>5. Published' BY <1>1 DEF ClientInv, Published
      <3> QED BY <3>1, <3>3, <3>4, <3>5 DEF ClientInv
    <2> QED BY <1>7, <1>8, <2>0, <2>1 DEF UpgradeIn
  <1>9. CASE CloseRelayed(i)
    <2>1. stop[i] = "conn" /\ Moved("over", "closed") /\ untagHop(via[i], 1)
      BY <1>0, <1>9 DEF CloseRelayed
    <2> QED BY <1>7, <2>1
  <1> QED BY <1>5, <1>6, <1>8, <1>9

\* Every step of the client preserves the invariant.
LEMMA ClientInvNext == ClientInv /\ [CircuitNext]_clientVars => ClientInv'
  <1> SUFFICES ASSUME ClientInv, [CircuitNext]_clientVars PROVE ClientInv' OBVIOUS
  <1>1. CASE CloseClient \/ UNCHANGED clientVars
    <2>1. UNCHANGED <<dl, activeDial, comp, scopes, hop, stop, hopCount, hopTag>>
      BY <1>1 DEF CloseClient, clientVars, UNCHANGED_TAGS
    <2>2. ClientTypeOK' BY <2>1 DEF ClientInv, ClientTypeOK
    <2>3. Published' BY <2>1 DEF ClientInv, Published
    <2>4. Left' BY <2>1 DEF ClientInv, Left
    <2>5. TagCounted' BY <2>1 DEF ClientInv, TagCounted, UsingOf, Uses
    <2> QED BY <2>2, <2>3, <2>4, <2>5 DEF ClientInv
  <1> QED BY <1>1, DialSteps, DialEnds, InSteps DEF CircuitNext, Conns

\* Calls for one peer share one attempt and wait only for one that is being made or has ended, the
\* failed ones leave neither a stream nor a scope, and no relay is tagged without a connection that
\* uses it (circuitv2/client: dial.go, dial and dialPeer; conn.go, tagHop, untagHop and Close).
THEOREM ClientRelayDialsShared ==
  CircuitSpec => []RelayDialsShared
  <1>1. ClientInv => RelayDialsShared
    <2> SUFFICES ASSUME ClientInv PROVE RelayDialsShared OBVIOUS
    <2>1. \A d \in Dials : dl[d].at \in {"dialing", "publish"} <=> activeDial = d BY DEF ClientInv, Published
    <2>2. \A d \in Dials : dl[d].at = "join" => activeDial = dl[d].on \/ comp[dl[d].on].closed BY DEF ClientInv, Published
    <2>3. \A c \in Conns : Over(c) => hop[c] # "open"
      BY CircuitAssumption DEF ClientInv, Left, Over, Conns
    <2>4. \A d \in Dials : dl[d].at \in {"failed", "closed"} => scopes[d] # "open" BY DEF ClientInv, Left
    <2>5. ASSUME NEW r \in Relays, hopTag[r] PROVE Using(r) # {}
      <3>1. hopTag[r] = TRUE BY <2>5 DEF ClientInv, ClientTypeOK
      <3>2. UsingOf(r) # {}
        <4>1. Cardinality({}) = 0 BY FS_EmptySet
        <4>2. hopCount[r] \in Int /\ hopCount[r] >= 1 /\ hopCount[r] <= Cardinality(UsingOf(r))
          BY <3>1 DEF ClientInv, TagCounted, ClientTypeOK
        <4> QED BY <4>1, <4>2
      <3>3. UsingOf(r) \subseteq Using(r) BY CircuitAssumption DEF UsingOf, Uses, Using, Conns
      <3> QED BY <3>2, <3>3
    <2> QED BY <2>1, <2>2, <2>3, <2>4, <2>5 DEF RelayDialsShared, DialAt
  <1> QED BY <1>1, ClientInvInit, ClientInvNext, PTL DEF CircuitSpec

----------------------------------------------------------------------------
(* WebTransport sessions, dialled and incoming, of any number over any QUIC *)
(* connections.  The invariant says at every step of a session which scope  *)
(* and hashes it has, that a dialled session has its QUIC connection to     *)
(* itself, and that a session that is not accounted in conns shares its     *)
(* connection with the one that took or removed its entry.                  *)

SessionAts == {NoneYet, "refused", "dialing", "connected", "upgrading", "dialled", "failed", "abandoned", "request",
               "upgraded", "secured", "admitted", "queued", "accepted", "dropped", "closed"}
SessionRecs == [at : SessionAts, open : BOOLEAN, scope : {NoneYet, "open", "done"}, hashes : SUBSET Hashes,
                leaf : Hashes \cup {NoneYet}, listed : SUBSET Hashes]

WtTypeOK ==
  /\ wsess \in [Sessions -> SessionRecs] /\ wconns \in [QuicConns -> Sessions \cup {NoneYet}]
  /\ wqueue \subseteq Sessions

\* What one session says of its scope and hashes, wherever it is on its way.
SessionOK(r) ==
  /\ r.at = NoneYet => r = NoSession
  /\ r.at \in {"dialing", "connected", "request"} => ~r.open
  /\ r.at \in {"dialing", "connected", "upgrading", "request", "upgraded", "secured", "admitted", "queued", "accepted",
               "dialled"} => r.scope = "open"
  /\ r.at \in {"connected", "upgrading", "dialled"} => r.leaf \in r.hashes
  /\ r.at \in {"failed", "abandoned", "dropped"} => r.scope = "done" /\ ~r.open
  /\ r.at = "refused" => r.scope = NoneYet /\ ~r.open
  /\ r.at = "dialled" => r.hashes \subseteq r.listed
  /\ r.at = "closed" => ~r.open

SessionsOK == \A s \in Sessions : SessionOK(wsess[s])

\* Listen has run listenOnce, and a manager that could not be made leaves no listener.
ManagerOK ==
  /\ wcerts \in [once : BOOLEAN, manager : {"nil", "running", "closed"}, has : BOOLEAN]
  /\ wln # NoneYet => wcerts.once /\ (wcerts.has => wcerts.manager # "nil")
  /\ wln = "panicked" => wcerts.manager = "nil"

\* A dialled session has its QUIC connection to itself.
DialsAlone == \A s \in Sessions : wsess[s].hashes # {} => Sharing(s) = {}

ConnsRight ==
  /\ \A s \in Sessions :
       /\ wsess[s].at \in {"queued", "accepted", "dialled"} =>
            wconns[QuicOf[s]] = s \/ \E r \in Sharing(s) : wsess[r].at \in {"queued", "accepted", "dropped", "closed"}
       /\ wconns[QuicOf[s]] = s => wsess[s].at \in {"queued", "accepted", "dialled", "dropped"}
  /\ \A s \in Sessions : (s \in wqueue) <=> (wsess[s].at = "queued")

WtInv == WtTypeOK /\ SessionsOK /\ ManagerOK /\ DialsAlone /\ ConnsRight

\* No session exists at the start.
LEMMA WtInvInit == WtInit => WtInv
  BY SessionAssumption, SMT DEF WtInit, WtInv, WtTypeOK, SessionsOK, SessionOK, DialsAlone, ConnsRight, NoSession, SessionRecs,
     SessionAts, NoneYet, ManagerOK, Sharing

\* Before it is queued or dialled, a session moves without touching what is shared.
LEMMA SessionMoves ==
  ASSUME WtInv, NEW s \in Sessions, NEW r \in SessionRecs, wsess' = [wsess EXCEPT ![s] = r],
         UNCHANGED <<wconns, wqueue, wln, wcerts>>, SessionOK(r),
         r.at # NoneYet, r.at \notin {"queued", "accepted", "dialled"},
         wsess[s].at \notin {"queued", "accepted", "dialled", "dropped", "closed"},
         r.hashes = wsess[s].hashes \/ r.hashes = {} \/ Sharing(s) = {},
         wsess[s].at = NoneYet => \A t \in Sharing(s) : wsess[t].hashes = {}
  PROVE  WtInv'
  <1> USE DEF WtInv
  <1>0. /\ wsess'[s] = r /\ \A t \in Sessions \ {s} : wsess'[t] = wsess[t]
        /\ wconns' = wconns /\ wqueue' = wqueue /\ wln' = wln /\ wcerts' = wcerts
    BY DEF WtTypeOK
  <1>1. WtTypeOK'
    BY <1>0 DEF WtTypeOK
  <1>2. SessionsOK' /\ ManagerOK'
    BY <1>0 DEF SessionsOK, ManagerOK
  <1>3. \A t \in Sessions : wsess[t].at = NoneYet => wsess[t].hashes = {}
    BY DEF SessionsOK, SessionOK, NoSession
  <1>4. \A t \in Sessions \ {s} : wsess[t].hashes # {} => Sharing(t)' = {}
    <2> TAKE t \in Sessions \ {s}
    <2> HAVE wsess[t].hashes # {}
    <2>1. Sharing(t) = {} /\ wsess[t].at # NoneYet
      BY <1>3 DEF DialsAlone
    <2>2. QuicOf[s] # QuicOf[t]
      BY <2>1, <1>3 DEF Sharing
    <2> QED BY <2>1, <2>2, <1>0 DEF Sharing
  <1>5. Sharing(s)' = Sharing(s)
    BY <1>0 DEF Sharing
  <1>6. DialsAlone'
    BY <1>0, <1>4, <1>5 DEF DialsAlone
  <1>7. \A t \in Sessions \ {s} : \A u \in Sharing(t) :
          wsess[u].at \in {"queued", "accepted", "dropped", "closed"} => u \in Sharing(t)' /\ wsess'[u].at = wsess[u].at
    BY <1>0 DEF Sharing
  <1>8. ConnsRight'
    BY <1>0, <1>7 DEF ConnsRight
  <1> QED BY <1>1, <1>2, <1>6, <1>8

\* A step that fails leaves a session closed, its scope done.
LEMMA SessionFails ==
  ASSUME WtInv, NEW s \in Sessions, FailSession(s), UNCHANGED <<wconns, wqueue, wln, wcerts>>,
         wsess[s].at \notin {NoneYet, "queued", "accepted", "dialled", "dropped", "closed"}
  PROVE  WtInv'
  <1> DEFINE r == [NoSession EXCEPT !.at = "failed", !.scope = "done"]
  <1>1. /\ r \in SessionRecs /\ r.at = "failed" /\ r.hashes = {} /\ r.scope = "done" /\ ~r.open
    BY DEF NoSession, SessionRecs, SessionAts, NoneYet
  <1>2. SessionOK(r)
    BY <1>1 DEF SessionOK, NoneYet
  <1>3. wsess' = [wsess EXCEPT ![s] = r]
    BY DEF FailSession
  <1> HIDE DEF r
  <1> QED BY <1>1, <1>2, <1>3, SessionMoves DEF NoneYet

\* A dial: scope, QUIC connection, session.
LEMMA DialMoves ==
  ASSUME WtInv, NEW s \in Sessions,
         (\E hashes \in SUBSET Hashes : DialWithScope(s, hashes)) \/ DialQUIC(s) \/ DialSession(s)
  PROVE  WtInv'
  <1>0. wsess[s] \in SessionRecs /\ SessionOK(wsess[s])
    BY DEF WtInv, WtTypeOK, SessionsOK
  <1>u. UNCHANGED <<wconns, wqueue, wln, wcerts>>
    BY DEF DialWithScope, DialQUIC, DialSession
  <1> USE DEF SessionRecs, SessionAts, NoneYet
  <1>1. ASSUME NEW hashes \in SUBSET Hashes, DialWithScope(s, hashes)
        PROVE  WtInv'
    <2> DEFINE r == [NoSession EXCEPT !.at = "refused"]
               q == [NoSession EXCEPT !.at = "dialing", !.scope = "open", !.hashes = hashes]
    <2>1. wsess[s] = NoSession /\ Sharing(s) = {} /\ wsess[s].at = NoneYet
      BY <1>0, <1>1 DEF DialWithScope, SessionOK
    <2>2. /\ r \in SessionRecs /\ r.at = "refused" /\ r.hashes = {} /\ SessionOK(r)
          /\ q \in SessionRecs /\ q.at = "dialing" /\ SessionOK(q)
      <3>1. r \in SessionRecs /\ r.at = "refused" /\ r.open = FALSE /\ r.scope = NoneYet /\ r.hashes = {}
        BY DEF NoSession
      <3>2. q \in SessionRecs /\ q.at = "dialing" /\ q.open = FALSE /\ q.scope = "open" /\ q.hashes = hashes
        BY DEF NoSession
      <3> HIDE DEF r, q
      <3> QED BY <3>1, <3>2 DEF SessionOK
    <2>3. wsess' = [wsess EXCEPT ![s] = r] \/ wsess' = [wsess EXCEPT ![s] = q]
      <3>1. \/ wsess' = [wsess EXCEPT ![s] = [wsess[s] EXCEPT !.at = "refused"]]
            \/ wsess' = [wsess EXCEPT ![s] = [wsess[s] EXCEPT !.at = "dialing", !.scope = "open", !.hashes = hashes]]
        BY <1>1 DEF DialWithScope
      <3> QED BY <3>1, <2>1, Zenon
    <2> HIDE DEF r, q
    <2> QED BY <2>1, <2>2, <2>3, <1>u, SessionMoves
  <1>2. ASSUME DialQUIC(s) PROVE WtInv'
    <2>1. CASE FailSession(s)
      BY <2>1, <1>2, <1>u, SessionFails DEF DialQUIC
    <2>2. CASE ~FailSession(s)
      <3>1. PICK leaf \in Hashes : /\ leaf \in wsess[s].hashes
                                   /\ wsess' = [wsess EXCEPT ![s].at = "connected", ![s].leaf = leaf]
        BY <1>2, <2>2 DEF DialQUIC, VerifyRawCerts
      <3> DEFINE r == [wsess[s] EXCEPT !.at = "connected", !.leaf = leaf]
      <3>2. /\ r \in SessionRecs /\ r.at = "connected" /\ r.hashes = wsess[s].hashes
            /\ SessionOK(r)
        BY <3>1, <1>0, <1>2 DEF DialQUIC, SessionOK
      <3>3. wsess' = [wsess EXCEPT ![s] = r] /\ wsess[s].at = "dialing"
        BY <3>1, <1>2 DEF DialQUIC
      <3> HIDE DEF r
      <3> QED BY <3>2, <3>3, <1>u, SessionMoves
    <2> QED BY <2>1, <2>2
  <1>3. ASSUME DialSession(s) PROVE WtInv'
    <2> DEFINE r == [wsess[s] EXCEPT !.at = "abandoned", !.scope = "done"]
               q == [wsess[s] EXCEPT !.at = "upgrading", !.open = TRUE]
    <2>1. wsess[s].at = "connected"
      BY <1>3 DEF DialSession
    <2>2. /\ r \in SessionRecs /\ r.at = "abandoned" /\ r.hashes = wsess[s].hashes /\ SessionOK(r)
          /\ q \in SessionRecs /\ q.at = "upgrading" /\ q.hashes = wsess[s].hashes /\ SessionOK(q)
         
      BY <2>1, <1>0 DEF SessionOK
    <2>3. wsess' = [wsess EXCEPT ![s] = r] \/ wsess' = [wsess EXCEPT ![s] = q]
      BY <1>3 DEF DialSession
    <2> HIDE DEF r, q
    <2> QED BY <2>1, <2>2, <2>3, <1>u, SessionMoves
  <1> QED BY <1>1, <1>2, <1>3

\* An incoming session up to the queue.
LEMMA IncomingMoves ==
  ASSUME WtInv, NEW s \in Sessions, HttpHandler(s) \/ UpgradeRequest(s) \/ Handshake(s) \/ AdmitSession(s)
  PROVE  WtInv'
  <1>0. /\ wsess[s] \in SessionRecs /\ SessionOK(wsess[s])
    BY DEF WtInv, WtTypeOK, SessionsOK
  <1>u. UNCHANGED <<wconns, wqueue, wln, wcerts>>
    BY DEF HttpHandler, UpgradeRequest, Handshake, AdmitSession
  <1> USE DEF SessionRecs, SessionAts, NoneYet
  <1>1. ASSUME HttpHandler(s) PROVE WtInv'
    <2> DEFINE r == [NoSession EXCEPT !.at = "refused"]
               q == [NoSession EXCEPT !.at = "request", !.scope = "open"]
    <2>1. /\ wsess[s] = NoSession /\ wsess[s].at = NoneYet /\ wsess[s].hashes = {}
          /\ \A t \in Sharing(s) : wsess[t].hashes = {}
      BY <1>0, <1>1 DEF HttpHandler, SessionOK, NoSession
    <2>2. /\ r \in SessionRecs /\ r.at = "refused" /\ r.hashes = {} /\ SessionOK(r)
          /\ q \in SessionRecs /\ q.at = "request" /\ q.hashes = {} /\ SessionOK(q)
      <3>1. r \in SessionRecs /\ r.at = "refused" /\ r.open = FALSE /\ r.scope = NoneYet /\ r.hashes = {}
        BY DEF NoSession
      <3>2. q \in SessionRecs /\ q.at = "request" /\ q.open = FALSE /\ q.scope = "open" /\ q.hashes = {}
        BY DEF NoSession
      <3> HIDE DEF r, q
      <3> QED BY <3>1, <3>2 DEF SessionOK
    <2>3. wsess' = [wsess EXCEPT ![s] = r] \/ wsess' = [wsess EXCEPT ![s] = q]
      <3>1. \/ wsess' = [wsess EXCEPT ![s] = [wsess[s] EXCEPT !.at = "refused"]]
            \/ wsess' = [wsess EXCEPT ![s] = [wsess[s] EXCEPT !.at = "request", !.scope = "open"]]
        BY <1>1 DEF HttpHandler
      <3> QED BY <3>1, <2>1, Zenon
    <2> HIDE DEF r, q
    <2> QED BY <2>1, <2>2, <2>3, <1>u, SessionMoves
  <1>2. ASSUME UpgradeRequest(s) \/ Handshake(s) \/ AdmitSession(s), ~FailSession(s) PROVE WtInv'
    <2>0. wsess[s].at \in {"request", "upgraded", "secured"}
      BY <1>2 DEF UpgradeRequest, Handshake, AdmitSession
    <2>1. CASE UpgradeRequest(s)
      <3> DEFINE r == [wsess[s] EXCEPT !.at = "upgraded", !.open = TRUE]
      <3>1. r \in SessionRecs /\ r.at = "upgraded" /\ r.hashes = wsess[s].hashes /\ SessionOK(r)
        BY <2>0, <1>0 DEF SessionOK
      <3>2. wsess' = [wsess EXCEPT ![s] = r]
        BY <2>1, <1>2 DEF UpgradeRequest
      <3> HIDE DEF r
      <3> QED BY <2>0, <3>1, <3>2, <1>u, SessionMoves
    <2>2. CASE Handshake(s) \/ AdmitSession(s)
      <3>1. PICK at \in {"secured", "admitted"} : wsess' = [wsess EXCEPT ![s].at = at]
        BY <2>2, <1>2 DEF Handshake, AdmitSession, StepSession
      <3> DEFINE r == [wsess[s] EXCEPT !.at = at]
      <3>2. r \in SessionRecs /\ r.at \in {"secured", "admitted"} /\ r.hashes = wsess[s].hashes /\ SessionOK(r)
        BY <2>0, <1>0 DEF SessionOK
      <3>3. wsess' = [wsess EXCEPT ![s] = r]
        BY <3>1
      <3> HIDE DEF r
      <3> QED BY <2>0, <3>2, <3>3, <1>u, SessionMoves
    <2> QED BY <1>2, <2>1, <2>2
  <1>3. ASSUME UpgradeRequest(s) \/ Handshake(s) \/ AdmitSession(s), FailSession(s) PROVE WtInv'
    BY <1>3, <1>u, SessionFails DEF UpgradeRequest, Handshake, AdmitSession
  <1> QED BY <1>1, <1>2, <1>3

\* A session enters conns, dialled or on its way to the queue, or leaves them: with r it is s that
\* moves, and no session comes or goes beside it.
LEMMA AccountMoves ==
  ASSUME WtInv, NEW s \in Sessions, NEW r \in SessionRecs, wsess' = [wsess EXCEPT ![s] = r], UNCHANGED <<wln, wcerts>>,
         SessionOK(r), r.hashes = wsess[s].hashes,
         wsess[s].at # NoneYet, wsess[s].at \notin {"dropped", "closed"}, wqueue' \in SUBSET Sessions,
         \A t \in Sessions \ {s} : t \in wqueue' <=> t \in wqueue,
         s \in wqueue' <=> r.at = "queued",
         \/ AddConn(s) /\ r.at \in {"queued", "dropped"}
         \/ AddConn(s) /\ r.at = "dialled" /\ wsess[s].hashes # {}
         \/ RemoveConn(s) /\ r.at = "closed"
         \/ wconns' = wconns /\ wsess[s].at = "queued" /\ r.at = "accepted"
  PROVE  WtInv'
  <1> USE DEF WtInv
  <1>0. /\ wsess'[s] = r /\ \A t \in Sessions \ {s} : wsess'[t] = wsess[t]
        /\ r.at # NoneYet /\ s # NoneYet /\ QuicOf[s] \in QuicConns
    BY SessionAssumption DEF WtTypeOK, NoneYet
  <1>1. WtTypeOK'
    BY <1>0 DEF WtTypeOK, AddConn, RemoveConn
  <1>2. SessionsOK' /\ ManagerOK'
    BY <1>0 DEF SessionsOK, ManagerOK
  <1>3. \A t \in Sessions : Sharing(t)' = Sharing(t)
    BY <1>0 DEF Sharing
  <1>4. DialsAlone'
    BY <1>0, <1>3 DEF DialsAlone
  <1>5. \A t \in Sessions \ {s} : QuicOf[t] = QuicOf[s] => s \in Sharing(t) /\ t # NoneYet
    BY <1>0, SessionAssumption DEF Sharing
  <1>6. \A t \in Sessions \ {s} : QuicOf[t] # QuicOf[s] => wconns'[QuicOf[t]] = wconns[QuicOf[t]]
    BY SessionAssumption DEF WtTypeOK, AddConn, RemoveConn
  <1>7. ASSUME NEW t \in Sessions \ {s}
        PROVE  /\ wsess'[t].at \in {"queued", "accepted", "dialled"} =>
                    \/ wconns'[QuicOf[t]] = t
                    \/ \E u \in Sharing(t)' : wsess'[u].at \in {"queued", "accepted", "dropped", "closed"}
               /\ wconns'[QuicOf[t]] = t => wsess'[t].at \in {"queued", "accepted", "dialled", "dropped"}
    <2>1. CASE r.at = "dialled"
      <3>1. QuicOf[t] # QuicOf[s] \/ wsess[t].at = NoneYet
        BY <2>1, <1>0 DEF DialsAlone, Sharing
      <3>2. \A u \in Sharing(t) : wsess[t].at # NoneYet => u # s
        BY <3>1 DEF Sharing
      <3> QED BY <3>1, <3>2, <1>0, <1>3, <1>6, SessionAssumption DEF ConnsRight, Sharing, NoneYet, WtTypeOK, AddConn, RemoveConn
    <2>2. CASE r.at # "dialled" /\ QuicOf[t] = QuicOf[s] /\ wconns' # wconns
      <3>1. r.at \in {"queued", "dropped", "closed"} /\ wconns'[QuicOf[t]] \in {s, NoneYet}
        BY <2>2, <1>0 DEF WtTypeOK, AddConn, RemoveConn
      <3> QED BY <3>1, <2>2, <1>0, <1>3, <1>5
    <2>3. CASE r.at # "dialled" /\ (QuicOf[t] # QuicOf[s] \/ wconns' = wconns)
      <3>1. wconns'[QuicOf[t]] = wconns[QuicOf[t]]
        BY <2>3, <1>6
      <3>2. r.at \in {"queued", "accepted", "dropped", "closed"}
        BY <2>3
      <3> QED BY <3>1, <3>2, <1>0, <1>3 DEF ConnsRight
    <2> QED BY <2>1, <2>2, <2>3
  <1>8. /\ wsess'[s].at \in {"queued", "accepted", "dialled"} =>
             \/ wconns'[QuicOf[s]] = s
             \/ \E u \in Sharing(s)' : wsess'[u].at \in {"queued", "accepted", "dropped", "closed"}
        /\ wconns'[QuicOf[s]] = s => wsess'[s].at \in {"queued", "accepted", "dialled", "dropped"}
    <2>0. AddConn(s) => wconns'[QuicOf[s]] = s
      BY <1>0 DEF WtTypeOK, AddConn
    <2>1. CASE AddConn(s) /\ r.at \in {"queued", "dialled", "dropped"}
      BY <2>0, <2>1, <1>0
    <2>3. CASE RemoveConn(s) /\ r.at = "closed"
      <3>1. wconns'[QuicOf[s]] = NoneYet
        BY <2>3, <1>0 DEF WtTypeOK, RemoveConn
      <3> QED BY <3>1, <2>3, <1>0
    <2>2. CASE wconns' = wconns /\ wsess[s].at = "queued" /\ r.at = "accepted"
      BY <2>2, <1>0, <1>3 DEF ConnsRight, Sharing
    <2> QED BY <2>1, <2>2, <2>3
  <1>9. \A t \in Sessions : (t \in wqueue') <=> (wsess'[t].at = "queued")
    BY <1>0 DEF ConnsRight
  <1>10. ConnsRight'
    BY <1>7, <1>8, <1>9 DEF ConnsRight
  <1> QED BY <1>1, <1>2, <1>4, <1>10

\* The sessions' steps with the queue and with conns.
LEMMA SharedMoves ==
  ASSUME WtInv, NEW s \in Sessions, Upgrade(s) \/ Enqueue(s) \/ AcceptSession(s) \/ CloseSession(s)
  PROVE  WtInv'
  <1>0. /\ wsess[s] \in SessionRecs /\ SessionOK(wsess[s]) /\ wqueue \subseteq Sessions
        /\ s \in wqueue <=> wsess[s].at = "queued"
    BY DEF WtInv, WtTypeOK, SessionsOK, ConnsRight
  <1> USE DEF SessionRecs, SessionAts, NoneYet
  <1>1. ASSUME Upgrade(s) PROVE WtInv'
    <2>1. CASE FailSession(s) /\ UNCHANGED wconns
      BY <2>1, <1>1, SessionFails DEF Upgrade
    <2>2. CASE ~(FailSession(s) /\ UNCHANGED wconns)
      <3>1. PICK listed \in SUBSET Hashes :
              /\ wsess[s].hashes \subseteq listed /\ AddConn(s)
              /\ wsess' = [wsess EXCEPT ![s].at = "dialled", ![s].listed = listed]
        BY <1>1, <2>2 DEF Upgrade, VerifyExtension
      <3> DEFINE r == [wsess[s] EXCEPT !.at = "dialled", !.listed = listed]
      <3>2. wsess[s].at = "upgrading" /\ wsess[s].hashes # {} /\ wqueue' = wqueue /\ wln' = wln /\ wcerts' = wcerts
        BY <1>1, <1>0 DEF Upgrade, SessionOK
      <3>3. r \in SessionRecs /\ r.at = "dialled" /\ r.hashes = wsess[s].hashes /\ SessionOK(r)
        BY <3>1, <3>2, <1>0 DEF SessionOK
      <3>4. wsess' = [wsess EXCEPT ![s] = r]
        BY <3>1
      <3> HIDE DEF r
      <3> QED BY <3>1, <3>2, <3>3, <3>4, <1>0, AccountMoves
    <2> QED BY <2>1, <2>2
  <1>2. ASSUME Enqueue(s) PROVE WtInv'
    <2>0. wsess[s].at = "admitted" /\ AddConn(s) /\ UNCHANGED <<wln, wcerts>>
      BY <1>2 DEF Enqueue
    <2>1. CASE wqueue' = wqueue \cup {s} /\ StepSession(s, "queued")
      <3> DEFINE r == [wsess[s] EXCEPT !.at = "queued"]
      <3>1. r \in SessionRecs /\ r.at = "queued" /\ r.hashes = wsess[s].hashes /\ r.open = wsess[s].open /\ SessionOK(r)
        BY <2>0, <1>0 DEF SessionOK
      <3>2. wsess' = [wsess EXCEPT ![s] = r]
        BY <2>0, <2>1, <3>1, <1>0 DEF StepSession
      <3> HIDE DEF r
      <3> QED BY <2>0, <2>1, <3>1, <3>2, <1>0, AccountMoves
    <2>2. CASE wqueue' = wqueue /\ wsess' = [wsess EXCEPT ![s].at = "dropped", ![s].open = FALSE, ![s].scope = "done"]
      <3> DEFINE r == [wsess[s] EXCEPT !.at = "dropped", !.open = FALSE, !.scope = "done"]
      <3>1. r \in SessionRecs /\ r.at = "dropped" /\ r.hashes = wsess[s].hashes /\ ~r.open /\ SessionOK(r)
        BY <2>0, <1>0 DEF SessionOK
      <3>2. wsess' = [wsess EXCEPT ![s] = r]
        BY <2>2
      <3> HIDE DEF r
      <3> QED BY <2>0, <2>2, <3>1, <3>2, <1>0, AccountMoves
    <2> QED BY <1>2, <2>1, <2>2 DEF Enqueue
  <1>3. ASSUME AcceptSession(s) PROVE WtInv'
    <2> DEFINE r == [wsess[s] EXCEPT !.at = "accepted"]
    <2>0. /\ wsess[s].at = "queued" /\ wconns' = wconns /\ UNCHANGED <<wln, wcerts>> /\ wqueue' = wqueue \ {s}
          /\ wsess' = [wsess EXCEPT ![s] = r]
      BY <1>3, <1>0 DEF AcceptSession, StepSession
    <2>1. r \in SessionRecs /\ r.at = "accepted" /\ r.hashes = wsess[s].hashes /\ r.open = wsess[s].open /\ SessionOK(r)
      BY <2>0, <1>0 DEF SessionOK
    <2> HIDE DEF r
    <2> QED BY <2>0, <2>1, <1>0, AccountMoves
  <1>4. ASSUME CloseSession(s) PROVE WtInv'
    <2> DEFINE r == [wsess[s] EXCEPT !.at = "closed", !.open = FALSE]
    <2>0. /\ wsess[s].at \in {"dialled", "accepted"} /\ RemoveConn(s) /\ UNCHANGED <<wln, wcerts>> /\ wqueue' = wqueue
          /\ wsess' = [wsess EXCEPT ![s] = r]
      BY <1>4 DEF CloseSession
    <2>1. r \in SessionRecs /\ r.at = "closed" /\ r.hashes = wsess[s].hashes /\ ~r.open /\ SessionOK(r)
      BY <2>0, <1>0 DEF SessionOK
    <2> HIDE DEF r
    <2> QED BY <2>0, <2>1, <1>0, AccountMoves
  <1> QED BY <1>1, <1>2, <1>3, <1>4

\* Steps that move no session: one closes at the other side, or the listener, the manager and the
\* transport change beside them.
LEMMA SessionsClose ==
  ASSUME WtInv, \/ (\E s \in Sessions : RemoteCloses(s)) \/ CloseWtListener \/ ConfigForClient \/ Listen
                \/ CloseTransport \/ UNCHANGED wtVars
  PROVE  WtInv'
  <1> USE DEF WtInv
  <1>0. wconns' = wconns /\ wqueue' = wqueue
    BY DEF RemoteCloses, CloseWtListener, ConfigForClient, Listen, CloseTransport, wtVars
  <1>1. /\ wsess' \in [Sessions -> SessionRecs]
        /\ \A s \in Sessions : /\ wsess'[s].at = wsess[s].at /\ wsess'[s].scope = wsess[s].scope
                               /\ wsess'[s].hashes = wsess[s].hashes /\ wsess'[s].leaf = wsess[s].leaf
                               /\ wsess'[s].listed = wsess[s].listed /\ (wsess'[s].open => wsess[s].open)
                               /\ wsess'[s] = wsess[s] \/ wsess[s].open
    <2>0. ASSUME NEW r \in SessionRecs
          PROVE  LET q == [r EXCEPT !.open = FALSE] IN
                 /\ q \in SessionRecs /\ q.at = r.at /\ q.scope = r.scope /\ q.hashes = r.hashes
                 /\ q.leaf = r.leaf /\ q.listed = r.listed /\ q.open = FALSE
      BY DEF SessionRecs
    <2>1. CASE \E s \in Sessions : RemoteCloses(s)
      <3>1. PICK s \in Sessions : RemoteCloses(s)
        BY <2>1
      <3>2. /\ wsess' = [wsess EXCEPT ![s] = [wsess[s] EXCEPT !.open = FALSE]] /\ wsess[s].open
            /\ wsess[s] \in SessionRecs
        BY <3>1 DEF RemoteCloses, WtTypeOK
      <3> QED BY <3>2, <2>0 DEF WtTypeOK
    <2>2. CASE wsess' = wsess
      BY <2>2 DEF WtTypeOK
    <2> QED BY <2>1, <2>2 DEF CloseWtListener, ConfigForClient, Listen, CloseTransport, wtVars
  <1>2. WtTypeOK'
    BY <1>0, <1>1 DEF WtTypeOK
  <1>3. SessionsOK'
    BY <1>1 DEF SessionsOK, SessionOK, NoSession, NoneYet
  <1>4. \A t \in Sessions : Sharing(t)' = Sharing(t)
    BY <1>1 DEF Sharing
  <1>5. DialsAlone'
    BY <1>1, <1>4 DEF DialsAlone
  <1>6. ConnsRight'
    BY <1>0, <1>1, <1>4 DEF ConnsRight, Sharing
  <1>7. ManagerOK'
    <2>1. CASE (\E s \in Sessions : RemoteCloses(s)) \/ UNCHANGED wtVars
      BY <2>1 DEF ManagerOK, RemoteCloses, wtVars
    <2>2. CASE CloseWtListener
      BY <2>2 DEF ManagerOK, CloseWtListener, NoneYet
    <2>3. CASE ConfigForClient
      BY <2>3 DEF ManagerOK, ConfigForClient, NoneYet
    <2>4. CASE Listen
      <3>1. /\ wcerts' \in [once : BOOLEAN, manager : {"nil", "running", "closed"}, has : BOOLEAN] /\ wcerts'.once
        <4>1. CASE wcerts.once
          BY <2>4, <4>1 DEF ManagerOK, Listen, ListenOnce
        <4>2. CASE ~wcerts.once
          <5>1. PICK manager \in {"nil", "running"} : wcerts' = [once |-> TRUE, manager |-> manager, has |-> TRUE]
            BY <2>4, <4>2 DEF Listen, ListenOnce
          <5> QED BY <5>1
        <4> QED BY <4>1, <4>2
      <3>2. wln' # NoneYet => wln' = "open" /\ (wcerts'.has => wcerts'.manager # "nil")
        BY <2>4 DEF Listen
      <3> QED BY <3>1, <3>2 DEF ManagerOK, NoneYet
    <2>5. CASE CloseTransport
      BY <2>5 DEF ManagerOK, CloseTransport, NoneYet
    <2> QED BY <2>1, <2>2, <2>3, <2>4, <2>5
  <1> QED BY <1>2, <1>3, <1>5, <1>6, <1>7

\* Every step keeps the invariant.
LEMMA WtInvNext == WtInv /\ [WtNext]_wtVars => WtInv'
  BY DialMoves, IncomingMoves, SharedMoves, SessionsClose DEF WtNext, SessionStep

\* Whichever step refuses a session, it ends closed and its scope done; one that was let through has its
\* scope, whatever Close of the listener does, and its place in conns, unless another session of its
\* QUIC connection took it; a dialled session runs to a server that presented a certificate of
\* the address and lists all of its hashes; and a missing manager is asked for a certificate only when
\* the transport was closed before the first Listen (transport.go, listener.go, conn.go of
\* p2p/transport/webtransport).
THEOREM WtSessionsAccounted == WtSpec => []SessionsAccounted
  <1>1. WtInv => SessionsAccounted
    <2> SUFFICES ASSUME WtInv PROVE SessionsAccounted
      OBVIOUS
    <2>1. wln = "panicked" => wcerts = [once |-> TRUE, manager |-> "nil", has |-> FALSE]
      BY DEF WtInv, ManagerOK, NoneYet
    <2> QED BY <2>1 DEF WtInv, SessionsOK, SessionOK, ConnsRight, SessionsAccounted
  <1> QED BY <1>1, WtInvInit, WtInvNext, PTL DEF WtSpec

----------------------------------------------------------------------------
(* The WebTransport certificate manager, for any validity that exceeds      *)
(* twice the clock skew.  The invariant keeps the current and the next      *)
(* certificate a period apart and aligned to the peer ID's offset, the      *)
(* clock between the current one's start and its roll-over, and for every   *)
(* address handed out which of the served certificates it still names.      *)

\* A multiple of a positive number is not less than it.
LEMMA MultipleGrows ==
  ASSUME NEW P \in Nat, P > 0, NEW m \in Int, m >= 1
  PROVE  m * P \in Int /\ m * P >= P
  <1>1. (m - 1) * P >= 0 BY Z3
  <1>2. m * P = (m - 1) * P + P BY Z3
  <1> QED BY <1>1, <1>2

\* The quotient is the only number of whole periods that fit.
LEMMA QuotientUnique ==
  ASSUME NEW P \in Nat, P > 0, NEW k \in Int, NEW x \in Int, k * P <= x, x < k * P + P
  PROVE  x \div P = k
  <1> DEFINE q == x \div P
  <1>1. q \in Int /\ q * P <= x /\ x < q * P + P BY Z3
  <1>2. CASE q >= k + 1
    <2>1. (q - k) * P >= P BY <1>1, <1>2, MultipleGrows
    <2>2. (q - k) * P = q * P - k * P BY <1>1
    <2>3. k * P \in Int /\ q * P \in Int BY <1>1
    <2> HIDE DEF q
    <2> QED BY <1>1, <2>1, <2>2, <2>3
  <1>3. CASE k >= q + 1
    <2>1. (k - q) * P >= P BY <1>1, <1>3, MultipleGrows
    <2>2. (k - q) * P = k * P - q * P BY <1>1
    <2>3. k * P \in Int /\ q * P \in Int BY <1>1
    <2> HIDE DEF q
    <2> QED BY <1>1, <2>1, <2>2, <2>3
  <1> HIDE DEF q
  <1>4. q = k BY <1>1, <1>2, <1>3
  <1> QED BY <1>4 DEF q

\* A start time: a number of periods after the offset.
Aligned(c) == \E k \in Nat : c = Offset + k * Period

\* The period is positive, and the validity is a period with the skew at either end.
LEMMA PeriodType == Period \in Nat /\ Period > 0 /\ CertValidity = Period + 2 * ClockSkew
  BY CertAssumption DEF Period

\* The bucket of a time is the aligned start that lies at most a period, and the skew, before it.
LEMMA BucketOf ==
  ASSUME NEW t \in Int, NEW c \in Int, Aligned(c), c + ClockSkew <= t, t < c + Period + ClockSkew
  PROVE  FirstBucket(t) = c
  <1>1. PICK k \in Nat : c = Offset + k * Period BY DEF Aligned
  <1> DEFINE x == t - ClockSkew - Offset
  <1>2. k * Period \in Int /\ x \in Int /\ Period \in Nat /\ Period > 0 BY PeriodType, CertAssumption
  <1>3. k * Period <= x /\ x < k * Period + Period
    <2> HIDE DEF Period
    <2> QED BY <1>1, <1>2, CertAssumption
  <1>4. x \div Period = k BY <1>2, <1>3, QuotientUnique
  <1> QED BY <1>1, <1>4 DEF FirstBucket, getCurrentBucketStartTime

\* The bucket that getCurrentBucketStartTime gives is an aligned start, and the time lies in it.
LEMMA BucketNow ==
  ASSUME NEW t \in Int, t >= Offset + ClockSkew
  PROVE  /\ FirstBucket(t) \in Nat /\ Aligned(FirstBucket(t))
         /\ FirstBucket(t) + ClockSkew <= t /\ t < FirstBucket(t) + Period + ClockSkew
  <1> DEFINE x == t - ClockSkew - Offset
             P == Period
             q == x \div P
  <1>1. P \in Nat /\ P > 0 BY PeriodType
  <1>2. x \in Int /\ x >= 0 BY CertAssumption
  <1>3. FirstBucket(t) = Offset + q * P BY DEF FirstBucket, getCurrentBucketStartTime
  <1> HIDE DEF P, x
  <1>4. q \in Nat /\ q * P <= x /\ x < q * P + P /\ q * P \in Nat BY <1>1, <1>2, Z3
  <1> HIDE DEF q
  <1>5. FirstBucket(t) \in Nat BY <1>3, <1>4, CertAssumption
  <1>6. Aligned(FirstBucket(t)) BY <1>3, <1>4 DEF Aligned, P
  <1>7. FirstBucket(t) + ClockSkew <= t /\ t < FirstBucket(t) + P + ClockSkew
    BY <1>1, <1>3, <1>4, CertAssumption DEF x
  <1> QED BY <1>5, <1>6, <1>7 DEF P

\* While a manager runs its certificates are consecutive buckets, and the clock is within the current
\* one's time, but for the timer's lateness.
Rolling ==
  managing = TRUE =>
    /\ currentConfig \in Nat /\ Aligned(currentConfig)
    /\ nextConfig = currentConfig + Period /\ fire = currentConfig + Period + ClockSkew
    /\ currentConfig + ClockSkew <= clock /\ clock <= fire + MaxLag

\* An address handed out by the running manager has the current certificate or the last one as its
\* older one, or is a period old.
Handed ==
  \A a \in handed : a.kept = TRUE =>
    /\ managing = TRUE /\ a.at \in Int
    /\ \E c \in Nat : /\ a.certs = {c, c + Period} /\ a.at <= c + Period + ClockSkew + MaxLag
                      /\ \/ c = currentConfig
                         \/ c = lastConfig /\ lastConfig = currentConfig - Period
                         \/ clock + MaxLag >= a.at + Period

\* The inductive invariant of the certificate manager.
CertInv ==
  /\ clock \in Int /\ clock >= Offset + ClockSkew /\ managing \in BOOLEAN
  /\ handed \subseteq [at : Int, certs : SUBSET Int, kept : BOOLEAN]
  /\ Rolling /\ Handed

\* It holds before a manager has been started.
LEMMA CertInvInit == CertsInit => CertInv
  <1> SUFFICES ASSUME CertsInit PROVE CertInv OBVIOUS
  <1>1. managing = FALSE /\ handed = {} /\ clock = Offset + ClockSkew BY DEF CertsInit
  <1>2. Rolling /\ Handed BY <1>1 DEF Rolling, Handed
  <1>3. clock \in Int /\ clock >= Offset + ClockSkew BY <1>1, CertAssumption
  <1>4. handed \subseteq [at : Int, certs : SUBSET Int, kept : BOOLEAN] BY <1>1
  <1> QED BY <1>1, <1>2, <1>3, <1>4 DEF CertInv

\* What the running manager keeps is what Rolling says of the state after a step.
LEMMA RollingNext ==
  ASSUME currentConfig' \in Nat, Aligned(currentConfig'), nextConfig' = currentConfig' + Period,
         fire' = currentConfig' + Period + ClockSkew,
         currentConfig' + ClockSkew <= clock', clock' <= fire' + MaxLag
  PROVE  Rolling'
  <1>1. Aligned(currentConfig)' BY DEF Aligned, Period
  <1> QED BY <1>1 DEF Rolling, Period

\* Starting, rolling and closing a manager, handing out an address and the clock preserve it.
LEMMA CertInvNext == CertInv /\ [CertsNext]_certVars => CertInv'
  <1> SUFFICES ASSUME CertInv, [CertsNext]_certVars PROVE CertInv' OBVIOUS
  <1>0. Period \in Nat /\ Period > 0 /\ CertValidity = Period + 2 * ClockSkew BY PeriodType
  <1>a. ASSUME NEW c \in Int PROVE NextStart(c) = c + Period /\ CertEnd(c) - ClockSkew = c + Period + ClockSkew
    BY <1>0, CertAssumption DEF NextStart, CertEnd
  <1>1. CASE NewCertManager
    <2> DEFINE b == FirstBucket(clock)
    <2>1. /\ managing = FALSE /\ managing' = TRUE /\ currentConfig' = b /\ nextConfig' = NextStart(b)
          /\ fire' = CertEnd(b) - ClockSkew /\ UNCHANGED <<clock, handed>>
      BY <1>1 DEF NewCertManager, RollConfig, CertInv
    <2>2. b \in Nat /\ Aligned(b) /\ b + ClockSkew <= clock /\ clock < b + Period + ClockSkew
      BY BucketNow DEF CertInv
    <2> HIDE DEF b
    <2>3. Rolling'
      <3>1. nextConfig' = b + Period /\ fire' = b + Period + ClockSkew BY <1>a, <2>1, <2>2
      <3>2. Aligned(currentConfig') BY <2>1, <2>2
      <3>3. fire' + MaxLag >= clock' /\ currentConfig' + ClockSkew <= clock'
        BY <1>0, <2>1, <2>2, <3>1, CertAssumption DEF CertInv
      <3>4. currentConfig' = b /\ b \in Nat BY <2>1, <2>2
      <3>5. /\ currentConfig' \in Nat /\ nextConfig' = currentConfig' + Period
            /\ fire' = currentConfig' + Period + ClockSkew
        BY <3>1, <3>4
      <3> QED BY <3>2, <3>3, <3>5, RollingNext
    <2>4. Handed' BY <2>1 DEF CertInv, Handed
    <2> QED BY <2>1, <2>3, <2>4 DEF CertInv
  <1>2. CASE Roll
    <2>1. /\ managing = TRUE /\ clock >= fire /\ lastConfig' = currentConfig /\ currentConfig' = nextConfig
          /\ nextConfig' = NextStart(nextConfig) /\ fire' = CertEnd(nextConfig) - ClockSkew
          /\ UNCHANGED <<clock, managing, handed>>
      BY <1>2 DEF Roll, RollConfig, CertInv
    <2>2. /\ currentConfig \in Nat /\ Aligned(currentConfig) /\ nextConfig = currentConfig + Period
          /\ fire = currentConfig + Period + ClockSkew /\ clock <= fire + MaxLag
      BY <2>1 DEF CertInv, Rolling
    <2>3. nextConfig' = nextConfig + Period /\ fire' = nextConfig + Period + ClockSkew
      BY <1>0, <1>a, <2>1, <2>2
    <2>4. Aligned(nextConfig)
      <3>1. PICK k \in Nat : currentConfig = Offset + k * Period BY <2>2 DEF Aligned
      <3>2. (k + 1) * Period = k * Period + Period /\ k * Period \in Int BY <1>0
      <3>3. nextConfig = Offset + (k + 1) * Period BY <1>0, <2>2, <3>1, <3>2, CertAssumption
      <3> QED BY <3>3 DEF Aligned
    <2>5. Rolling'
      <3>1. Aligned(currentConfig') BY <2>1, <2>4
      <3>2. /\ currentConfig' \in Nat /\ nextConfig' = currentConfig' + Period
            /\ fire' = currentConfig' + Period + ClockSkew
        BY <1>0, <2>1, <2>2, <2>3
      <3>3. currentConfig' + ClockSkew <= clock' /\ clock' <= fire' + MaxLag
        BY <1>0, <2>1, <2>2, <2>3, CertAssumption DEF CertInv
      <3> QED BY <3>1, <3>2, <3>3, RollingNext
    <2>6. ASSUME NEW a \in handed, a.kept = TRUE
          PROVE  \E c \in Nat : /\ a.certs = {c, c + Period} /\ a.at <= c + Period + ClockSkew + MaxLag
                               /\ \/ c = currentConfig'
                                  \/ c = lastConfig' /\ lastConfig' = currentConfig' - Period
                                  \/ clock' + MaxLag >= a.at + Period
      <3>1. PICK c \in Nat : /\ a.certs = {c, c + Period} /\ a.at <= c + Period + ClockSkew + MaxLag
                            /\ \/ c = currentConfig
                               \/ c = lastConfig /\ lastConfig = currentConfig - Period
                               \/ clock + MaxLag >= a.at + Period
        BY <2>6 DEF CertInv, Handed
      <3>2. a.at \in Int BY <2>6 DEF CertInv, Handed
      <3>3. \/ c = lastConfig' /\ lastConfig' = currentConfig' - Period
            \/ clock' + MaxLag >= a.at + Period
        BY <1>0, <2>1, <2>2, <3>1, <3>2, CertAssumption DEF CertInv
      <3> QED BY <3>1, <3>3
    <2>7. Handed' BY <2>1, <2>6 DEF CertInv, Handed
    <2> QED BY <2>1, <2>5, <2>7 DEF CertInv
  <1>3. CASE CloseCertManager
    <2>1. /\ managing' = FALSE /\ handed' = {[a EXCEPT !.kept = FALSE] : a \in handed} /\ UNCHANGED clock
      BY <1>3 DEF CloseCertManager
    <2>2. handed' \subseteq [at : Int, certs : SUBSET Int, kept : BOOLEAN] /\ \A a \in handed' : a.kept = FALSE
      BY <2>1 DEF CertInv
    <2> QED BY <2>1, <2>2 DEF CertInv, Rolling, Handed
  <1>4. CASE AddrComponent
    <2>1. /\ managing = TRUE /\ handed' = {[at |-> clock, certs |-> {currentConfig, nextConfig}, kept |-> TRUE]}
          /\ UNCHANGED <<clock, managing, lastConfig, currentConfig, nextConfig, fire>>
      BY <1>4 DEF AddrComponent, CertInv
    <2>2. Rolling' BY <2>1 DEF CertInv, Rolling, Aligned
    <2>3. /\ currentConfig \in Nat /\ nextConfig = currentConfig + Period /\ nextConfig \in Int
          /\ clock <= currentConfig + Period + ClockSkew + MaxLag
      BY <1>0, <2>1 DEF CertInv, Rolling
    <2>4. handed' \subseteq [at : Int, certs : SUBSET Int, kept : BOOLEAN] BY <2>1, <2>3 DEF CertInv
    <2>5. Handed'
      <3> SUFFICES ASSUME NEW a \in handed' PROVE
             /\ a.at \in Int
             /\ a.certs = {currentConfig', currentConfig' + Period} /\ a.at <= currentConfig' + Period + ClockSkew + MaxLag
        BY <2>1, <2>3 DEF Handed
      <3> QED BY <2>1, <2>3 DEF CertInv
    <2> QED BY <2>1, <2>2, <2>4, <2>5 DEF CertInv
  <1>5. CASE CertTick
    <2>1. /\ clock' = clock + 1 /\ (managing = TRUE => clock < fire + MaxLag)
          /\ UNCHANGED <<managing, lastConfig, currentConfig, nextConfig, fire, handed>>
      BY <1>5 DEF CertTick, CertInv
    <2>2. Rolling' BY <1>0, <2>1, CertAssumption DEF CertInv, Rolling, Aligned
    <2>3. Handed' BY <1>0, <2>1, CertAssumption DEF CertInv, Handed
    <2> QED BY <2>1, <2>2, <2>3, CertAssumption DEF CertInv
  <1>6. CASE UNCHANGED certVars BY <1>6 DEF certVars, CertInv, Rolling, Aligned, Handed
  <1> QED BY <1>1, <1>2, <1>3, <1>4, <1>5, <1>6 DEF CertsNext

\* The certificate of a running manager is valid by every clock within the skew, and an address handed
\* out less than a period ago still names only certificates whose hashes the listener serves, restarts
\* in the same bucket included, for any validity, skew, offset of the peer ID and lateness of the timer.
THEOREM CertificatesServe == CertsSpec => []CertsServe
  <1>1. CertInv => CertsServe
    <2> SUFFICES ASSUME CertInv PROVE CertsServe OBVIOUS
    <2>0. Period \in Nat /\ Period > 0 /\ CertValidity = Period + 2 * ClockSkew BY PeriodType
    <2>1. CurrentValid
      BY <2>0, CertAssumption DEF CertInv, Rolling, CurrentValid, CertStart, CertEnd
    <2>2. ASSUME NEW a \in handed, managing,
                 IF a.kept THEN clock + MaxLag < a.at + Period
                 ELSE /\ clock < fire /\ FirstBucket(a.at) = FirstBucket(clock)
                      /\ a.certs = {FirstBucket(a.at), NextStart(FirstBucket(a.at))}
          PROVE  a.certs \subseteq SerializedCertHashes
      <3>0. managing = TRUE /\ a \in [at : Int, certs : SUBSET Int, kept : BOOLEAN] BY <2>2 DEF CertInv
      <3>1. /\ currentConfig \in Nat /\ Aligned(currentConfig) /\ nextConfig = currentConfig + Period
            /\ fire = currentConfig + Period + ClockSkew /\ currentConfig + ClockSkew <= clock
        BY <3>0 DEF CertInv, Rolling
      <3>2. currentConfig \in SerializedCertHashes /\ nextConfig \in SerializedCertHashes
        BY <2>0, <3>1 DEF SerializedCertHashes, NoCert
      <3>3. CASE a.kept = TRUE
        <4>1. PICK c \in Nat : /\ a.certs = {c, c + Period}
                              /\ \/ c = currentConfig
                                 \/ c = lastConfig /\ lastConfig = currentConfig - Period
                                 \/ clock + MaxLag >= a.at + Period
          BY <3>3 DEF CertInv, Handed
        <4>2. c = currentConfig \/ (c = lastConfig /\ c + Period = currentConfig)
          BY <2>0, <2>2, <3>0, <3>1, <3>3, <4>1, CertAssumption DEF CertInv
        <4>3. c = lastConfig => c \in SerializedCertHashes BY DEF SerializedCertHashes, NoCert
        <4> QED BY <3>1, <3>2, <4>1, <4>2, <4>3
      <3>4. CASE a.kept = FALSE
        <4>1. clock < fire /\ a.certs = {FirstBucket(clock), NextStart(FirstBucket(clock))} BY <2>2, <3>4
        <4>2. FirstBucket(clock) = currentConfig BY <3>1, <4>1, BucketOf DEF CertInv
        <4>3. NextStart(currentConfig) = nextConfig
          BY <2>0, <3>1, CertAssumption DEF NextStart, CertEnd
        <4> QED BY <3>2, <4>1, <4>2, <4>3
      <3> QED BY <3>0, <3>3, <3>4
    <2>3. AddressAccepted BY <2>2 DEF AddressAccepted
    <2> QED BY <2>1, <2>3 DEF CertsServe
  <1> QED BY <1>1, CertInvInit, CertInvNext, PTL DEF CertsSpec
============================================================================
