------------------------------ MODULE DialPool ------------------------------
(***************************************************************************)
(* What the dial limiter promises each peer, whatever else it does: a pool *)
(* of perPeerLimit places and a queue.  A job that finds a free place and  *)
(* nobody waiting takes it, any other one queues; places are given to the  *)
(* head of the queue, and nobody overtakes.  A waiting job may be dropped  *)
(* from the head of the queue, or the whole queue at once.  DialLimiter    *)
(* implements this (ImplementsPool).                                       *)
(***************************************************************************)
EXTENDS Integers, Sequences

CONSTANTS
  Jobs, Peers,
  poolOf,        \* the peer of each job
  perPeerLimit

VARIABLES
  fresh,         \* the jobs not submitted yet
  waiting,       \* for each peer, the queue
  active,        \* for each peer, the jobs that have a place
  free           \* for each peer, the number of places that nobody has

poolVars == <<fresh, waiting, active, free>>

Init ==
  /\ fresh = Jobs
  /\ waiting = [p \in Peers |-> <<>>]
  /\ active = [p \in Peers |-> {}]
  /\ free = [p \in Peers |-> perPeerLimit]

\* j takes a place that is free.
Take(p, j) ==
  /\ free[p] > 0
  /\ free' = [free EXCEPT ![p] = @ - 1]
  /\ active' = [active EXCEPT ![p] = @ \cup {j}]

Submit(j) ==
  /\ j \in fresh
  /\ fresh' = fresh \ {j}
  /\ \/ /\ free[poolOf[j]] = 0
        /\ waiting' = [waiting EXCEPT ![poolOf[j]] = Append(@, j)]
        /\ UNCHANGED <<active, free>>
     \/ /\ waiting[poolOf[j]] = <<>>
        /\ Take(poolOf[j], j)
        /\ UNCHANGED waiting

\* A job gives its place back.
Leave(j) ==
  /\ j \in active[poolOf[j]]
  /\ active' = [active EXCEPT ![poolOf[j]] = @ \ {j}]
  /\ free' = [free EXCEPT ![poolOf[j]] = @ + 1]
  /\ UNCHANGED <<fresh, waiting>>

\* The head of the queue gets a place.
Admit(p) ==
  /\ waiting[p] # <<>>
  /\ Take(p, Head(waiting[p]))
  /\ waiting' = [waiting EXCEPT ![p] = Tail(@)]
  /\ UNCHANGED fresh

\* The head of the queue is dropped.
Skip(p) ==
  /\ waiting[p] # <<>>
  /\ waiting' = [waiting EXCEPT ![p] = Tail(@)]
  /\ UNCHANGED <<fresh, active, free>>

\* The queue is dropped.
Clear(p) ==
  /\ waiting' = [waiting EXCEPT ![p] = <<>>]
  /\ UNCHANGED <<fresh, active, free>>

Next ==
  \/ \E j \in Jobs : Submit(j) \/ Leave(j)
  \/ \E p \in Peers : Admit(p) \/ Skip(p) \/ Clear(p)

Spec == Init /\ [][Next]_poolVars
=============================================================================
