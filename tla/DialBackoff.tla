---------------------------- MODULE DialBackoff ----------------------------
(***************************************************************************)
(* The dial backoff of the swarm (DialBackoff in p2p/net/swarm/            *)
(* swarm_dial.go): a failed address is not dialed again for a time that    *)
(* grows with the square of its failures; a background goroutine forgets   *)
(* peers whose backoffs have long expired.  Every method holds db.lock.    *)
(* Durations are 64-bit integers, and the square overflows: with the       *)
(* default coefficient of a second after 96,037 failures in a row.         *)
(***************************************************************************)
EXTENDS Integers

CONSTANTS
  Peers, Addrs,
  BackoffBase, BackoffCoef, BackoffMax,
  MaxDuration,  \* the largest time.Duration
  MaxTime,      \* bound of the model: the clock stops here
  MaxTries      \* bound of the model: failures of one address

ASSUME BackoffAssumption ==
  /\ BackoffBase \in Nat \ {0} /\ BackoffCoef \in Nat /\ BackoffMax \in Nat
  /\ BackoffBase <= BackoffMax /\ BackoffMax <= MaxDuration /\ MaxDuration \in Nat
  /\ MaxTime \in Nat /\ MaxTries \in Nat

VARIABLES
  now,
  tries,  \* backoffAddr.tries, 0 where there is no entry
  until,  \* backoffAddr.until, 0 where there is no entry
  ctxDone \* the swarm is closed, and with it background ends

vars == <<now, tries, until, ctxDone>>

NoEntries == [a \in Addrs |-> 0]

Init == /\ now = 0
        /\ tries = [p \in Peers |-> NoEntries]
        /\ until = [p \in Peers |-> NoEntries]
        /\ ctxDone = FALSE

\* The formula, and whether its value is a time.Duration.
Quadratic(t) == BackoffBase + BackoffCoef * (t * t)
Fits(t) == Quadratic(t) <= MaxDuration

\* What 64 bits keep of a positive number: all of it, or the rest as a signed number.
Wrap(d) ==
  IF d <= MaxDuration THEN d
  ELSE ((d + MaxDuration + 1) % (2 * (MaxDuration + 1))) - (MaxDuration + 1)

backoffTime(t) ==
  IF Wrap(Quadratic(t)) > BackoffMax THEN BackoffMax ELSE Wrap(Quadratic(t))

Backoff(p, a) == tries[p][a] # 0 /\ now < until[p][a]

\* The first failure backs off for BackoffBase, each further one for longer.
AddBackoff(p, a) ==
  /\ tries[p][a] < MaxTries
  /\ tries' = [tries EXCEPT ![p][a] = @ + 1]
  /\ until' = [until EXCEPT ![p][a] =
       now + IF tries[p][a] = 0 THEN BackoffBase ELSE backoffTime(tries[p][a])]
  /\ UNCHANGED <<now, ctxDone>>

\* addConn succeeded for the peer.
Clear(p) ==
  /\ tries' = [tries EXCEPT ![p] = NoEntries]
  /\ until' = [until EXCEPT ![p] = NoEntries]
  /\ UNCHANGED <<now, ctxDone>>

\* A mutant: one expired address is enough to forget the peer.
GoodIfAll(p) ==
  \A a \in Addrs : tries[p][a] # 0 => now < until[p][a] + backoffTime(tries[p][a])

\* Some address of the peer is in backoff, or was until recently.
Good(p) ==
  \E a \in Addrs : tries[p][a] # 0 /\ now < until[p][a] + backoffTime(tries[p][a])

\* The ticker of background fires.
Cleanup ==
  /\ ~ctxDone
  /\ tries' = [p \in Peers |-> IF Good(p) THEN tries[p] ELSE NoEntries]
  /\ until' = [p \in Peers |-> IF Good(p) THEN until[p] ELSE NoEntries]
  /\ UNCHANGED <<now, ctxDone>>

CtxDone == ~ctxDone /\ ctxDone' = TRUE /\ UNCHANGED <<now, tries, until>>

Tick == now < MaxTime /\ now' = now + 1 /\ UNCHANGED <<tries, until, ctxDone>>

Next == \/ \E p \in Peers : Clear(p) \/ \E a \in Addrs : AddBackoff(p, a)
        \/ Cleanup \/ CtxDone
        \/ Tick

Spec == Init /\ [][Next]_vars

----------------------------------------------------------------------------
(* Properties.                                                             *)

TypeOK == /\ now \in Nat /\ ctxDone \in BOOLEAN
          /\ tries \in [Peers -> [Addrs -> Nat]]
          /\ until \in [Peers -> [Addrs -> Int]]

\* However often an address has failed, and whatever overflowed, it is dialed again at
\* the latest BackoffMax after its last failure (AddBackoff, Backoff).
BackoffBounded ==
  \A p \in Peers, a \in Addrs : Backoff(p, a) => until[p][a] - now <= BackoffMax

\* The cleanup never forgets the failures of an address that came out of backoff less than
\* another backoff time ago, nor, before the formula overflows, cuts a backoff short; only
\* a successful connection of the peer does (cleanup, AddBackoff, Clear).
ForgottenOnlyWhenStale ==
  [][\A p \in Peers, a \in Addrs :
       tries[p][a] # 0 /\ tries'[p][a] = 0 /\ ~Clear(p)
         => /\ now >= until[p][a] + backoffTime(tries[p][a])
            /\ Fits(tries[p][a]) => ~Backoff(p, a)]_vars

\* Before the formula overflows, a failure during a backoff never makes it end earlier
\* (AddBackoff).
NeverShortened ==
  [][\A p \in Peers, a \in Addrs :
       tries'[p][a] > tries[p][a] /\ Fits(tries[p][a]) => until'[p][a] >= until[p][a]]_vars
============================================================================
