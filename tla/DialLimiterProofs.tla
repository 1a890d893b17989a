------------------------- MODULE DialLimiterProofs -------------------------
(***************************************************************************)
(* Proofs about the dial limiter for any number of peers, dials and jobs   *)
(* and any limits.  The inductive invariant IInv ties the waiting lists    *)
(* and the critical section to the stages of the jobs; the limits and the  *)
(* absence of lost wakeups need its last parts, which say what still holds *)
(* in the middle of the release loops.                                     *)
(***************************************************************************)
EXTENDS DialLimiter, FiniteSetTheorems, TLAPS

Types ==
  /\ phase \in [Dials -> Phases]
  /\ stage \in [Jobs -> Stages]
  /\ fdConsuming \in Int
  /\ waitingOnFd \in Seq(Jobs)
  /\ activePerPeer \in [Peers -> Int]
  /\ waitingOnPeerLimit \in [Peers -> Seq(Jobs)]
  /\ crit \in [at : {"idle", "freeFD", "freePeer"},
              fin : Jobs \cup {NoJob}, tok : Jobs \cup {NoJob}]

NoDuplicates(s) == \A i, k \in 1..Len(s) : s[i] = s[k] => i = k

\* The waiting lists hold jobs of the right stage, once each.
FdList ==
  /\ NoDuplicates(waitingOnFd)
  /\ \A i \in 1..Len(waitingOnFd) :
       waitingOnFd[i] \in FdJobs /\ stage[waitingOnFd[i]] = "waitFd"

PeerList ==
  \A p \in Peers :
    /\ NoDuplicates(waitingOnPeerLimit[p])
    /\ \A i \in 1..Len(waitingOnPeerLimit[p]) :
         /\ stage[waitingOnPeerLimit[p][i]] = "waitPeer"
         /\ peer(waitingOnPeerLimit[p][i]) = p

\* The loop of freeFDToken is running, possibly inside a nested freePeerToken.
InFreeFD == \/ crit.at = "freeFD"
            \/ crit.at = "freePeer" /\ crit.tok # crit.fin

CritOK ==
  /\ crit.at = "idle" => crit = Idle
  /\ crit.at = "freePeer" => crit.tok \in Jobs
  /\ crit.at # "idle" => crit.fin \in Jobs
  /\ InFreeFD => crit.fin \in FdJobs /\ stage[crit.fin] = "freedFd"

\* In the loop of freePeerToken one token of the peer is free.
PeerTokens ==
  \A p \in Peers :
    LET freed == crit.at = "freePeer" /\ peer(crit.tok) = p
    IN /\ activePerPeer[p] <= IF freed THEN perPeerLimit - 1 ELSE perPeerLimit
       /\ waitingOnPeerLimit[p] # <<>> =>
            activePerPeer[p] >= IF freed THEN perPeerLimit - 1 ELSE perPeerLimit

\* In the loop of freeFDToken one FD token may be free while a job waits.
FdTokens ==
  waitingOnFd # <<>> =>
    fdConsuming >= IF InFreeFD THEN fdLimit - 1 ELSE fdLimit

IInv == /\ Types /\ FdList /\ PeerList /\ CritOK
        /\ TokenAccounting /\ PeerTokens /\ FdTokens

----------------------------------------------------------------------------
(* Sequences and cardinalities.                                            *)

\* What taking the first job off a waiting list leaves.
LEMMA TailFacts ==
  ASSUME NEW S, NEW s \in Seq(S), s # <<>>
  PROVE  /\ Tail(s) \in Seq(S)
         /\ Len(s) \in Nat /\ Len(s) >= 1
         /\ Len(Tail(s)) = Len(s) - 1
         /\ Head(s) = s[1]
         /\ Head(s) \in S
         /\ \A i \in 1..Len(Tail(s)) : Tail(s)[i] = s[i + 1]
  OBVIOUS

\* What appending a job to a waiting list adds.
LEMMA AppendFacts ==
  ASSUME NEW S, NEW s \in Seq(S), NEW x \in S
  PROVE  /\ Append(s, x) \in Seq(S)
         /\ Len(s) \in Nat
         /\ Append(s, x) # <<>>
         /\ Len(Append(s, x)) = Len(s) + 1
         /\ \A i \in 1..Len(s) : Append(s, x)[i] = s[i]
         /\ Append(s, x)[Len(s) + 1] = x
  OBVIOUS

\* A list without duplicates keeps none when its first job is taken.
LEMMA TailNoDuplicates ==
  ASSUME NEW S, NEW s \in Seq(S), s # <<>>, NoDuplicates(s)
  PROVE  /\ NoDuplicates(Tail(s))
         /\ \A i \in 1..Len(Tail(s)) : Tail(s)[i] # Head(s)
<1>1. \A i \in 1..Len(Tail(s)) : /\ i + 1 \in 1..Len(s) /\ 1 \in 1..Len(s)
                                 /\ Tail(s)[i] = s[i + 1]
                                 /\ i + 1 # 1
  BY TailFacts
<1>2. Head(s) = s[1]
  BY TailFacts
<1>3. QED
  BY <1>1, <1>2 DEF NoDuplicates

\* A list without duplicates keeps none when a job it lacks is appended.
LEMMA AppendNoDuplicates ==
  ASSUME NEW S, NEW s \in Seq(S), NEW x \in S, NoDuplicates(s),
         \A i \in 1..Len(s) : s[i] # x
  PROVE  NoDuplicates(Append(s, x))
<1>1. \A i \in 1..Len(Append(s, x)) :
        \/ i \in 1..Len(s) /\ Append(s, x)[i] = s[i]
        \/ i = Len(s) + 1 /\ Append(s, x)[i] = x
  BY AppendFacts
<1>2. QED
  BY <1>1 DEF NoDuplicates

\* The holders of tokens are finite sets.
LEMMA HoldersFinite ==
  /\ IsFiniteSet(FdHolders)
  /\ \A p \in Peers : IsFiniteSet(PeerHolders(p))
<1>1. FdHolders \subseteq Jobs /\ \A p \in Peers : PeerHolders(p) \subseteq Jobs
  BY DialAssumption DEF FdHolders, PeerHolders
<1>2. QED
  BY <1>1, DialAssumption, FS_Subset

\* The cardinalities of two sets that differ in x at most.
LEMMA CardinalityChange ==
  ASSUME NEW S, NEW T, NEW x, IsFiniteSet(S),
         T \subseteq S \cup {x}, S \subseteq T \cup {x}
  PROVE  Cardinality(T) = Cardinality(S) + (IF x \in T THEN 1 ELSE 0)
                                         - (IF x \in S THEN 1 ELSE 0)
<1>1. Cardinality(S) \in Nat
  BY FS_CardinalityType
<1>2. CASE (x \in S) = (x \in T)
  <2>1. S = T
    BY <1>2
  <2>2. QED
    BY <1>1, <2>1
<1>3. CASE x \in S /\ x \notin T
  <2>1. T = S \ {x}
    BY <1>3
  <2>2. Cardinality(T) = Cardinality(S) - 1
    BY <1>3, <2>1, FS_RemoveElement
  <2>3. QED
    BY <1>1, <1>3, <2>2
<1>4. CASE x \notin S /\ x \in T
  <2>1. T = S \cup {x}
    BY <1>4
  <2>2. Cardinality(T) = Cardinality(S) + 1
    BY <1>4, <2>1, FS_AddElement
  <2>3. QED
    BY <1>1, <1>4, <2>2
<1>5. QED
  BY <1>2, <1>3, <1>4

----------------------------------------------------------------------------
(* Token accounting.                                                       *)

\* A job of this stage holds a token of its peer.
HoldsPeer == Executing \cup {"freedFd", "waitFd"}

\* What moving one job to another stage does to the numbers of token holders.
LEMMA MoveJob ==
  ASSUME Types, NEW k \in Jobs, NEW st \in Stages,
         stage' = [stage EXCEPT ![k] = st]
  PROVE  /\ Cardinality(FdHolders') = Cardinality(FdHolders)
                + (IF k \in FdJobs /\ st \in Executing THEN 1 ELSE 0)
                - (IF k \in FdJobs /\ stage[k] \in Executing THEN 1 ELSE 0)
         /\ \A p \in Peers :
              Cardinality(PeerHolders(p)') = Cardinality(PeerHolders(p))
                + (IF peer(k) = p /\ st \in HoldsPeer THEN 1 ELSE 0)
                - (IF peer(k) = p /\ stage[k] \in HoldsPeer THEN 1 ELSE 0)
<1>1. /\ FdHolders' \subseteq FdHolders \cup {k}
      /\ FdHolders \subseteq FdHolders' \cup {k}
      /\ k \in FdHolders' <=> k \in FdJobs /\ st \in Executing
      /\ k \in FdHolders <=> k \in FdJobs /\ stage[k] \in Executing
  BY DialAssumption DEF FdHolders, Types
<1>2. ASSUME NEW p \in Peers
      PROVE  /\ PeerHolders(p)' \subseteq PeerHolders(p) \cup {k}
             /\ PeerHolders(p) \subseteq PeerHolders(p)' \cup {k}
             /\ k \in PeerHolders(p)' <=> peer(k) = p /\ st \in HoldsPeer
             /\ k \in PeerHolders(p) <=> peer(k) = p /\ stage[k] \in HoldsPeer
  BY DEF PeerHolders, HoldsPeer, Types, peer
<1>3. Cardinality(FdHolders') = Cardinality(FdHolders)
                + (IF k \in FdHolders' THEN 1 ELSE 0)
                - (IF k \in FdHolders THEN 1 ELSE 0)
  BY <1>1, HoldersFinite, CardinalityChange
<1>4. ASSUME NEW p \in Peers
      PROVE  Cardinality(PeerHolders(p)') = Cardinality(PeerHolders(p))
                + (IF k \in PeerHolders(p)' THEN 1 ELSE 0)
                - (IF k \in PeerHolders(p) THEN 1 ELSE 0)
  BY <1>2, HoldersFinite, CardinalityChange
<1>5. QED
  BY <1>1, <1>2, <1>3, <1>4

\* The counters are natural numbers because they count holders.
LEMMA CountersNat ==
  ASSUME Types, TokenAccounting
  PROVE  fdConsuming \in Nat /\ activePerPeer \in [Peers -> Nat]
<1>1. /\ fdConsuming \in Nat
      /\ \A p \in Peers : activePerPeer[p] \in Nat
  BY HoldersFinite, FS_CardinalityType DEF TokenAccounting
<1>2. QED
  BY <1>1 DEF Types

----------------------------------------------------------------------------
(* The invariant is inductive: one lemma per action.                       *)

\* The empty limiter.
LEMMA InitIInv == ASSUME Init PROVE IInv
<1>1. FdHolders = {} /\ \A p \in Peers : PeerHolders(p) = {}
  BY DialAssumption DEF Init, FdHolders, PeerHolders, Executing
<1>2. TokenAccounting
  BY <1>1, FS_EmptySet DEF Init, TokenAccounting
<1>3. Types /\ FdList /\ PeerList /\ CritOK
  BY DEF Init, Types, FdList, PeerList, CritOK, Idle, InFreeFD, NoDuplicates,
         Phases, Stages
<1>4. PeerTokens /\ FdTokens
  BY LimitAssumption DEF Init, PeerTokens, FdTokens, Idle
<1>5. QED
  BY <1>2, <1>3, <1>4 DEF IInv

\* Steps that only change the phase of a dial.
LEMMA PhaseStep ==
  ASSUME IInv, phase' \in [Dials -> Phases],
         UNCHANGED <<stage, fdConsuming, waitingOnFd, activePerPeer,
                     waitingOnPeerLimit, crit>>
  PROVE  IInv'
<1>1. Types'
  BY DEF IInv, Types
<1>2. FdList' /\ PeerList'
  BY DEF IInv, FdList, PeerList, NoDuplicates, peer
<1>3. CritOK' /\ FdTokens'
  BY DEF IInv, CritOK, FdTokens, InFreeFD
<1>4. TokenAccounting'
  BY DEF IInv, TokenAccounting, FdHolders, PeerHolders, peer
<1>5. PeerTokens'
  BY DEF IInv, PeerTokens, peer
<1>6. QED
  BY <1>1, <1>2, <1>3, <1>4, <1>5 DEF IInv

\* The deferred clearAllPeerDials of a worker.
LEMMA ClearStep ==
  ASSUME IInv, NEW d \in Dials, ClearAllPeerDials(d)
  PROVE  IInv'
<1> USE DEF ClearAllPeerDials
<1>1. Types'
  <2>1. phase' \in [Dials -> Phases] /\ stage' \in [Jobs -> Stages]
    BY DEF IInv, Types, Phases, Stages
  <2>2. waitingOnPeerLimit' \in [Peers -> Seq(Jobs)]
    <3>1. <<>> \in Seq(Jobs)
      OBVIOUS
    <3>2. QED
      BY <3>1 DEF IInv, Types
  <2>3. QED
    BY <2>1, <2>2 DEF IInv, Types
<1>2. /\ FdHolders' = FdHolders
      /\ \A p \in Peers : PeerHolders(p)' = PeerHolders(p)
  BY DialAssumption DEF IInv, Types, FdHolders, PeerHolders, Executing, peer
<1>3. TokenAccounting'
  BY <1>2 DEF IInv, TokenAccounting
<1>4. FdList'
  BY DialAssumption DEF IInv, Types, FdList, NoDuplicates
<1>5. PeerList'
  BY DialAssumption DEF IInv, Types, PeerList, NoDuplicates, peer
<1>6. CritOK' /\ PeerTokens' /\ FdTokens'
  BY DialAssumption DEF IInv, Types, CritOK, InFreeFD, PeerTokens, FdTokens, Idle, peer
<1>7. QED
  BY <1>1, <1>3, <1>4, <1>5, <1>6 DEF IInv

\* A job moves between stages of executeDial and keeps its tokens.
LEMMA RunningStep ==
  ASSUME IInv, NEW j \in Jobs, NEW st \in Executing, stage[j] \in Executing,
         stage' = [stage EXCEPT ![j] = st],
         UNCHANGED <<phase, fdConsuming, waitingOnFd, activePerPeer,
                     waitingOnPeerLimit, crit>>
  PROVE  IInv'
<1>1. Types'
  BY DEF IInv, Types, Stages
<1>2. TokenAccounting'
  <2>1. /\ FdHolders' = FdHolders
        /\ \A p \in Peers : PeerHolders(p)' = PeerHolders(p)
    BY DialAssumption DEF IInv, Types, FdHolders, PeerHolders, peer
  <2>2. QED
    BY <2>1 DEF IInv, TokenAccounting
<1>3. FdList'
  BY DialAssumption DEF IInv, Types, FdList, NoDuplicates, Executing
<1>6. PeerList'
  BY DEF IInv, Types, PeerList, NoDuplicates, Executing, peer
<1>7. CritOK'
  BY DialAssumption DEF IInv, Types, CritOK, InFreeFD, Executing, Idle
<1>4. PeerTokens' /\ FdTokens'
  BY DEF IInv, PeerTokens, FdTokens, InFreeFD, peer
<1>5. QED
  BY <1>1, <1>2, <1>3, <1>4, <1>6, <1>7 DEF IInv

\* addCheckFdLimit starts a job or queues it, and queues it only when the FD
\* tokens are all taken.
LEMMA AddCheckFdLimitStep ==
  ASSUME IInv, NEW j \in Jobs, stage[j] \in {"new", "waitPeer"},
         AddCheckFdLimit(j)
  PROVE  /\ \E st \in {"dialing", "waitFd"} : stage' = [stage EXCEPT ![j] = st]
         /\ waitingOnFd' \in Seq(Jobs)
         /\ FdList'
         /\ fdConsuming' \in Int
         /\ fdConsuming' = Cardinality(FdHolders')
         /\ fdConsuming' >= fdConsuming
         /\ waitingOnFd' = waitingOnFd \/ fdConsuming' >= fdLimit
<1> USE DEF IInv, FdLimitReached
<1>1. \A i \in 1..Len(waitingOnFd) : waitingOnFd[i] # j /\ waitingOnFd[i] \in Jobs
  BY DEF FdList, Types
<1>2. CASE j \in FdJobs /\ FdLimitReached
  <2>1. /\ waitingOnFd' = Append(waitingOnFd, j)
        /\ stage' = [stage EXCEPT ![j] = "waitFd"]
        /\ fdConsuming' = fdConsuming
    BY <1>2 DEF AddCheckFdLimit
  <2>2. NoDuplicates(waitingOnFd')
    BY <1>1, <2>1, AppendNoDuplicates DEF Types, FdList
  <2>3. FdList'
    BY <1>1, <1>2, <2>1, <2>2, AppendFacts DEF Types, FdList
  <2>4. Cardinality(FdHolders') = Cardinality(FdHolders)
    <3>1. /\ "waitFd" \in Stages /\ "waitFd" \notin Executing
          /\ stage[j] \notin Executing
      BY DEF Stages, Executing
    <3>2. Cardinality(FdHolders') = Cardinality(FdHolders) + 0 - 0
      BY <2>1, <3>1, MoveJob
    <3>3. QED
      BY <3>2, HoldersFinite, FS_CardinalityType
  <2>5. QED
    BY <1>2, <2>1, <2>3, <2>4, AppendFacts, LimitAssumption DEF Types, TokenAccounting
<1>3. CASE ~(j \in FdJobs /\ FdLimitReached)
  <2>1. /\ waitingOnFd' = waitingOnFd
        /\ stage' = [stage EXCEPT ![j] = "dialing"]
        /\ fdConsuming' = fdConsuming + (IF j \in FdJobs THEN 1 ELSE 0)
    BY <1>3 DEF AddCheckFdLimit, Types
  <2>2. FdList'
    BY <1>1, <2>1 DEF Types, FdList, NoDuplicates
  <2>3. Cardinality(FdHolders') = Cardinality(FdHolders) + (IF j \in FdJobs THEN 1 ELSE 0)
    <3>1. /\ "dialing" \in Stages /\ "dialing" \in Executing
          /\ stage[j] \notin Executing
      BY DEF Stages, Executing
    <3>2. Cardinality(FdHolders') = Cardinality(FdHolders)
                                    + (IF j \in FdJobs THEN 1 ELSE 0) - 0
      BY <2>1, <3>1, MoveJob
    <3>3. QED
      BY <3>2, HoldersFinite, FS_CardinalityType
  <2>4. QED
    BY <2>1, <2>2, <2>3 DEF Types, TokenAccounting
<1>4. QED
  BY <1>2, <1>3

\* addCheckFdLimit for a job that has just been given a token of its peer.
LEMMA TakePeerToken ==
  ASSUME IInv, NEW j \in Jobs, stage[j] \in {"new", "waitPeer"},
         AddCheckFdLimit(j),
         activePerPeer' = [activePerPeer EXCEPT ![peer(j)] = @ + 1]
  PROVE  /\ stage' \in [Jobs -> Stages]
         /\ \A k \in Jobs : k # j => stage'[k] = stage[k]
         /\ activePerPeer' \in [Peers -> Int]
         /\ TokenAccounting'
<1>1. PICK st \in {"dialing", "waitFd"} : stage' = [stage EXCEPT ![j] = st]
  BY AddCheckFdLimitStep
<1>2. st \in Stages /\ st \in HoldsPeer /\ stage[j] \notin HoldsPeer
  BY DEF Stages, Executing, HoldsPeer
<1>3. ASSUME NEW p \in Peers
      PROVE  activePerPeer'[p] = Cardinality(PeerHolders(p)')
  <2>1. Cardinality(PeerHolders(p)') = Cardinality(PeerHolders(p))
                + (IF peer(j) = p THEN 1 ELSE 0) - 0
    BY <1>1, <1>2, MoveJob DEF IInv
  <2>2. Cardinality(PeerHolders(p)) = activePerPeer[p] /\ activePerPeer[p] \in Int
    BY DEF IInv, TokenAccounting, Types
  <2>3. activePerPeer'[p] = activePerPeer[p] + (IF peer(j) = p THEN 1 ELSE 0)
    BY DEF IInv, Types
  <2>4. QED
    BY <2>1, <2>2, <2>3
<1>4. TokenAccounting'
  BY <1>3, AddCheckFdLimitStep DEF TokenAccounting
<1>5. /\ stage' \in [Jobs -> Stages]
      /\ \A k \in Jobs : k # j => stage'[k] = stage[k]
  BY <1>1, <1>2 DEF IInv, Types
<1>6. activePerPeer' \in [Peers -> Int]
  <2>1. peer(j) \in Peers
    BY DialAssumption DEF peer
  <2>2. QED
    BY <2>1 DEF IInv, Types
<1>7. QED
  BY <1>4, <1>5, <1>6

\* addCheckPeerLimit, under the lock.
LEMMA AddDialJobStep ==
  ASSUME IInv, NEW j \in Jobs, AddDialJob(j)
  PROVE  IInv'
<1>0. /\ stage[j] = "new" /\ UNCHANGED <<phase, crit>> /\ crit = Idle
      /\ crit.at = "idle"
      /\ peer(j) \in Peers
  BY DialAssumption DEF AddDialJob, Idle, peer
<1> DEFINE p == peer(j)
<1>1. CASE PeerLimitReached(p)
  <2>1. /\ waitingOnPeerLimit' = [waitingOnPeerLimit EXCEPT ![p] = Append(@, j)]
        /\ stage' = [stage EXCEPT ![j] = "waitPeer"]
        /\ UNCHANGED <<fdConsuming, waitingOnFd, activePerPeer>>
    BY <1>1 DEF AddDialJob, AddCheckPeerLimit
  <2> DEFINE w == waitingOnPeerLimit[p]
  <2>2. w \in Seq(Jobs) /\ waitingOnPeerLimit'[p] = Append(w, j)
        /\ \A q \in Peers : q # p => waitingOnPeerLimit'[q] = waitingOnPeerLimit[q]
    BY <1>0, <2>1 DEF IInv, Types
  <2>3. Types'
    <3>1. Append(w, j) \in Seq(Jobs)
      BY <2>2
    <3>2. QED
      BY <1>0, <2>1, <3>1 DEF IInv, Types, Stages
  <2>4. TokenAccounting'
    <3>1. /\ FdHolders' = FdHolders
          /\ \A q \in Peers : PeerHolders(q)' = PeerHolders(q)
      BY <1>0, <2>1, DialAssumption DEF IInv, Types, FdHolders, PeerHolders, Executing, peer
    <3>2. QED
      BY <2>1, <3>1 DEF IInv, TokenAccounting
  <2>5. FdList'
    BY <1>0, <2>1, DialAssumption DEF IInv, Types, FdList, NoDuplicates
  <2>6. PeerList'
    <3>1. NoDuplicates(Append(w, j))
      BY <1>0, <2>2, AppendNoDuplicates DEF IInv, PeerList
    <3>2. ASSUME NEW i \in 1..Len(Append(w, j))
          PROVE  stage'[Append(w, j)[i]] = "waitPeer" /\ peer(Append(w, j)[i]) = p
      BY <1>0, <2>1, <2>2, AppendFacts DEF IInv, PeerList, Types
    <3>3. ASSUME NEW q \in Peers, q # p, NEW i \in 1..Len(waitingOnPeerLimit[q])
          PROVE  stage'[waitingOnPeerLimit[q][i]] = "waitPeer"
      BY <1>0, <2>1 DEF IInv, PeerList, Types
    <3>4. ASSUME NEW q \in Peers
          PROVE  /\ NoDuplicates(waitingOnPeerLimit'[q])
                 /\ \A i \in 1..Len(waitingOnPeerLimit'[q]) :
                      /\ stage'[waitingOnPeerLimit'[q][i]] = "waitPeer"
                      /\ peer(waitingOnPeerLimit'[q][i]) = q
      <4>1. CASE q = p
        BY <2>2, <3>1, <3>2, <4>1
      <4>2. CASE q # p
        BY <2>2, <3>3, <4>2 DEF IInv, PeerList
      <4>3. QED
        BY <4>1, <4>2
    <3>5. QED
      BY <3>4 DEF PeerList, NoDuplicates, peer
  <2>7. CritOK' /\ FdTokens'
    BY <1>0, <2>1 DEF IInv, CritOK, FdTokens, InFreeFD, Idle
  <2>8. PeerTokens'
    BY <1>0, <1>1, <2>1, <2>2 DEF IInv, PeerTokens, PeerLimitReached, Types, peer
  <2>9. QED
    BY <2>3, <2>4, <2>5, <2>6, <2>7, <2>8 DEF IInv
<1>2. CASE ~PeerLimitReached(p)
  <2>1. /\ activePerPeer' = [activePerPeer EXCEPT ![p] = @ + 1]
        /\ AddCheckFdLimit(j)
        /\ UNCHANGED waitingOnPeerLimit
    BY <1>2 DEF AddDialJob, AddCheckPeerLimit
  <2>2. Types' /\ TokenAccounting' /\ FdList'
    BY <1>0, <2>1, TakePeerToken, AddCheckFdLimitStep DEF IInv, Types
  <2>3. PeerList'
    <3>1. \A k \in Jobs : k # j => stage'[k] = stage[k]
      BY <1>0, <2>1, TakePeerToken
    <3>2. \A q \in Peers : \A i \in 1..Len(waitingOnPeerLimit[q]) :
            /\ waitingOnPeerLimit[q][i] \in Jobs
            /\ waitingOnPeerLimit[q][i] # j
      BY <1>0 DEF IInv, PeerList, Types
    <3>3. QED
      BY <2>1, <3>1, <3>2 DEF IInv, PeerList, NoDuplicates, peer
  <2>4. CritOK'
    BY <1>0 DEF IInv, CritOK, InFreeFD, Idle
  <2>5. FdTokens'
    BY <1>0, <2>1, AddCheckFdLimitStep, LimitAssumption DEF IInv, FdTokens, InFreeFD, Types
  <2>6. PeerTokens'
    BY <1>0, <1>2, <2>1, LimitAssumption DEF IInv, PeerTokens, PeerLimitReached, Types, peer
  <2>7. QED
    BY <2>2, <2>3, <2>4, <2>5, <2>6 DEF IInv
<1>3. QED
  BY <1>1, <1>2

\* The waiting list of a peer is untouched by a step that moves no job of it.
LEMMA PeerListKept ==
  ASSUME IInv, waitingOnPeerLimit' = waitingOnPeerLimit,
         \A k \in Jobs : stage[k] = "waitPeer" => stage'[k] = "waitPeer"
  PROVE  PeerList'
  BY DEF IInv, Types, PeerList, NoDuplicates, peer

\* Likewise for the list of jobs waiting for an FD token.
LEMMA FdListKept ==
  ASSUME IInv, waitingOnFd' = waitingOnFd,
         \A k \in Jobs : stage[k] = "waitFd" => stage'[k] = "waitFd"
  PROVE  FdList'
  BY DEF IInv, Types, FdList, NoDuplicates

\* Taking the head of waitingOnFd.
LEMMA FdListTail ==
  ASSUME IInv, waitingOnFd # <<>>, waitingOnFd' = Tail(waitingOnFd),
         \A k \in Jobs : stage[k] = "waitFd" /\ k # Head(waitingOnFd)
                           => stage'[k] = "waitFd"
  PROVE  /\ FdList'
         /\ waitingOnFd' \in Seq(Jobs)
         /\ Head(waitingOnFd) \in FdJobs /\ stage[Head(waitingOnFd)] = "waitFd"
<1>1. waitingOnFd \in Seq(Jobs) /\ NoDuplicates(waitingOnFd)
  BY DEF IInv, Types, FdList
<1>2. /\ NoDuplicates(waitingOnFd')
      /\ \A i \in 1..Len(waitingOnFd') : waitingOnFd'[i] # Head(waitingOnFd)
  BY <1>1, TailNoDuplicates
<1>3. \A i \in 1..Len(waitingOnFd') :
        waitingOnFd'[i] \in FdJobs /\ stage[waitingOnFd'[i]] = "waitFd"
  BY <1>1, TailFacts DEF IInv, FdList
<1>4. 1 \in 1..Len(waitingOnFd) /\ Head(waitingOnFd) = waitingOnFd[1]
  BY <1>1, TailFacts
<1>5. FdList'
  BY <1>2, <1>3, DialAssumption DEF FdList, NoDuplicates
<1>6. QED
  BY <1>1, <1>4, <1>5, TailFacts DEF IInv, FdList

\* Entering freePeerToken frees one token of k's peer.
LEMMA FreePeerTokenEnter ==
  ASSUME IInv, crit.at # "freePeer", NEW k \in Jobs, NEW fin \in Jobs,
         FreePeerToken(k, fin), waitingOnPeerLimit' = waitingOnPeerLimit
  PROVE  /\ PeerTokens'
         /\ activePerPeer' \in [Peers -> Int]
         /\ crit' = [at |-> "freePeer", fin |-> fin, tok |-> k]
<1>1. peer(k) \in Peers
  BY DialAssumption DEF peer
<1>2. /\ activePerPeer' \in [Peers -> Int]
      /\ activePerPeer'[peer(k)] = activePerPeer[peer(k)] - 1
      /\ \A p \in Peers : p # peer(k) => activePerPeer'[p] = activePerPeer[p]
  BY <1>1 DEF FreePeerToken, IInv, Types
<1>3. crit'.at = "freePeer" /\ crit'.tok = k
  BY DEF FreePeerToken
<1>4. PeerTokens'
  BY <1>1, <1>2, <1>3, LimitAssumption DEF IInv, Types, PeerTokens, peer
<1>5. QED
  BY <1>2, <1>4 DEF FreePeerToken

\* A job that leaves the limiter takes its peer token with it.
LEMMA GivePeerToken ==
  ASSUME IInv, NEW k \in Jobs, NEW st \in {"done", "skipped"},
         stage[k] \in HoldsPeer,
         k \in FdJobs => stage[k] \notin Executing,
         stage' = [stage EXCEPT ![k] = st],
         fdConsuming' = fdConsuming,
         activePerPeer' = [activePerPeer EXCEPT ![peer(k)] = @ - 1]
  PROVE  TokenAccounting' /\ stage' \in [Jobs -> Stages]
<1>1. st \in Stages /\ st \notin HoldsPeer /\ st \notin Executing
  BY DEF Stages, Executing, HoldsPeer
<1>2. fdConsuming' = Cardinality(FdHolders')
  <2>1. Cardinality(FdHolders') = Cardinality(FdHolders) + 0 - 0
    BY <1>1, MoveJob DEF IInv
  <2>2. QED
    BY <2>1 DEF IInv, Types, TokenAccounting
<1>3. ASSUME NEW p \in Peers
      PROVE  activePerPeer'[p] = Cardinality(PeerHolders(p)')
  <2>1. Cardinality(PeerHolders(p)') = Cardinality(PeerHolders(p))
                + 0 - (IF peer(k) = p THEN 1 ELSE 0)
    BY <1>1, MoveJob DEF IInv
  <2>2. Cardinality(PeerHolders(p)) = activePerPeer[p] /\ activePerPeer[p] \in Int
    BY DEF IInv, TokenAccounting, Types
  <2>3. activePerPeer'[p] = activePerPeer[p] - (IF peer(k) = p THEN 1 ELSE 0)
    BY DEF IInv, Types
  <2>4. QED
    BY <2>1, <2>2, <2>3
<1>4. QED
  BY <1>1, <1>2, <1>3 DEF TokenAccounting, IInv, Types

\* finishedDial up to the first loop it enters.
LEMMA FinishedDialStep ==
  ASSUME IInv, NEW j \in Jobs, FinishedDial(j)
  PROVE  IInv'
<1>0. /\ stage[j] = "finishing" /\ crit.at = "idle"
      /\ UNCHANGED <<phase, waitingOnFd, waitingOnPeerLimit>>
  BY DEF FinishedDial, Idle
<1>1. CASE j \in FdJobs
  <2>1. /\ fdConsuming' = fdConsuming - 1
        /\ stage' = [stage EXCEPT ![j] = "freedFd"]
        /\ crit' = [at |-> "freeFD", fin |-> j, tok |-> NoJob]
        /\ UNCHANGED activePerPeer
    BY <1>1 DEF FinishedDial
  <2>2. Types'
    BY <1>0, <2>1 DEF IInv, Types, Stages
  <2>3. TokenAccounting'
    <3>1. /\ "freedFd" \in Stages /\ "freedFd" \notin Executing
          /\ "freedFd" \in HoldsPeer
          /\ stage[j] \in Executing /\ stage[j] \in HoldsPeer
      BY <1>0 DEF Stages, Executing, HoldsPeer
    <3>2. /\ Cardinality(FdHolders') = Cardinality(FdHolders) + 0 - 1
          /\ \A p \in Peers : Cardinality(PeerHolders(p)') = Cardinality(PeerHolders(p))
                                 + (IF peer(j) = p THEN 1 ELSE 0)
                                 - (IF peer(j) = p THEN 1 ELSE 0)
      BY <1>1, <2>1, <3>1, MoveJob DEF IInv
    <3>3. QED
      BY <2>1, <3>2 DEF IInv, Types, TokenAccounting
  <2>4. FdList' /\ PeerList'
    BY <1>0, <2>1, FdListKept, PeerListKept DEF IInv, Types
  <2>5. CritOK'
    BY <1>1, <2>1 DEF CritOK, InFreeFD, IInv, Types
  <2>6. PeerTokens' /\ FdTokens'
    BY <1>0, <2>1, LimitAssumption DEF IInv, Types, PeerTokens, FdTokens, InFreeFD, peer
  <2>7. QED
    BY <2>2, <2>3, <2>4, <2>5, <2>6 DEF IInv
<1>2. CASE j \notin FdJobs
  <2>1. /\ fdConsuming' = fdConsuming
        /\ stage' = [stage EXCEPT ![j] = "done"]
        /\ FreePeerToken(j, j)
    BY <1>2 DEF FinishedDial
  <2>2. /\ PeerTokens' /\ activePerPeer' \in [Peers -> Int]
        /\ crit' = [at |-> "freePeer", fin |-> j, tok |-> j]
    BY <1>0, <2>1, FreePeerTokenEnter
  <2>3. TokenAccounting' /\ stage' \in [Jobs -> Stages]
    BY <1>0, <1>2, <2>1, GivePeerToken DEF FreePeerToken, HoldsPeer, Executing
  <2>4. Types'
    BY <1>0, <2>1, <2>2, <2>3 DEF IInv, Types
  <2>5. FdList' /\ PeerList'
    BY <1>0, <2>1, FdListKept, PeerListKept DEF IInv, Types
  <2>6. CritOK' /\ FdTokens'
    BY <1>0, <2>1, <2>2 DEF CritOK, InFreeFD, FdTokens, IInv
  <2>7. QED
    BY <2>2, <2>3, <2>4, <2>5, <2>6 DEF IInv
<1>3. QED
  BY <1>1, <1>2

\* freeFDToken finds no waiting job; finishedDial goes on to the peer token.
LEMMA FreeFDTokenDoneStep ==
  ASSUME IInv, FreeFDTokenDone
  PROVE  IInv'
<1> DEFINE f == crit.fin
<1>1. /\ crit.at = "freeFD" /\ f \in FdJobs /\ f \in Jobs /\ stage[f] = "freedFd"
      /\ stage' = [stage EXCEPT ![f] = "done"]
      /\ FreePeerToken(f, f) /\ waitingOnFd = <<>>
      /\ UNCHANGED <<phase, fdConsuming, waitingOnFd, waitingOnPeerLimit>>
  BY DEF FreeFDTokenDone, IInv, CritOK, InFreeFD
<1>2. /\ PeerTokens' /\ activePerPeer' \in [Peers -> Int]
      /\ crit' = [at |-> "freePeer", fin |-> f, tok |-> f]
  BY <1>1, FreePeerTokenEnter
<1>3. TokenAccounting' /\ stage' \in [Jobs -> Stages]
  BY <1>1, GivePeerToken DEF FreePeerToken, HoldsPeer, Executing
<1>4. Types'
  BY <1>1, <1>2, <1>3 DEF IInv, Types
<1>5. FdList' /\ PeerList'
  BY <1>1, FdListKept, PeerListKept DEF IInv, Types
<1>6. CritOK' /\ FdTokens'
  BY <1>1, <1>2 DEF CritOK, InFreeFD, FdTokens
<1>7. QED
  BY <1>2, <1>3, <1>4, <1>5, <1>6 DEF IInv

\* freeFDToken skips a cancelled job and frees its peer token.
LEMMA FreeFDTokenSkipStep ==
  ASSUME IInv, FreeFDTokenSkip
  PROVE  IInv'
<1> DEFINE f == crit.fin
           h == Head(waitingOnFd)
<1>1. /\ crit.at = "freeFD" /\ f \in FdJobs /\ f \in Jobs /\ stage[f] = "freedFd"
      /\ stage' = [stage EXCEPT ![h] = "skipped"]
      /\ FreePeerToken(h, f) /\ waitingOnFd # <<>>
      /\ waitingOnFd' = Tail(waitingOnFd)
      /\ UNCHANGED <<phase, fdConsuming, waitingOnPeerLimit>>
  BY DEF FreeFDTokenSkip, IInv, CritOK, InFreeFD
<1>2. /\ h \in FdJobs /\ h \in Jobs /\ stage[h] = "waitFd" /\ h # f
      /\ FdList' /\ waitingOnFd' \in Seq(Jobs)
  BY <1>1, FdListTail, DialAssumption DEF IInv, Types
<1>3. /\ PeerTokens' /\ activePerPeer' \in [Peers -> Int]
      /\ crit' = [at |-> "freePeer", fin |-> f, tok |-> h]
  BY <1>1, <1>2, FreePeerTokenEnter
<1>4. TokenAccounting' /\ stage' \in [Jobs -> Stages]
  BY <1>1, <1>2, GivePeerToken DEF FreePeerToken, HoldsPeer, Executing
<1>5. Types'
  BY <1>1, <1>2, <1>3, <1>4 DEF IInv, Types
<1>6. PeerList'
  BY <1>1, <1>2, PeerListKept DEF IInv, Types
<1>7. CritOK' /\ FdTokens'
  BY <1>1, <1>2, <1>3 DEF CritOK, InFreeFD, FdTokens, IInv, Types
<1>8. QED
  BY <1>2, <1>3, <1>4, <1>5, <1>6, <1>7 DEF IInv

\* freeFDToken starts the next job; finishedDial goes on to the peer token.
LEMMA FreeFDTokenNextStep ==
  ASSUME IInv, FreeFDTokenNext
  PROVE  IInv'
<1> DEFINE f == crit.fin
           h == Head(waitingOnFd)
<1>1. /\ crit.at = "freeFD" /\ f \in FdJobs /\ f \in Jobs /\ stage[f] = "freedFd"
      /\ stage' = [stage EXCEPT ![h] = "dialing", ![f] = "done"]
      /\ FreePeerToken(f, f) /\ waitingOnFd # <<>>
      /\ waitingOnFd' = Tail(waitingOnFd)
      /\ fdConsuming' = fdConsuming + 1
      /\ UNCHANGED <<phase, waitingOnPeerLimit>>
  BY DEF FreeFDTokenNext, IInv, CritOK, InFreeFD
<1>2. /\ h \in FdJobs /\ h \in Jobs /\ stage[h] = "waitFd" /\ h # f
      /\ FdList' /\ waitingOnFd' \in Seq(Jobs)
  <2>1. \A k \in Jobs : stage[k] = "waitFd" /\ k # h => stage'[k] = "waitFd"
    BY <1>1 DEF IInv, Types
  <2>2. QED
    BY <1>1, <2>1, FdListTail, DialAssumption
<1>3. /\ PeerTokens' /\ activePerPeer' \in [Peers -> Int]
      /\ crit' = [at |-> "freePeer", fin |-> f, tok |-> f]
  BY <1>1, FreePeerTokenEnter
<1>4. TokenAccounting'
  <2>1. /\ stage'[h] = "dialing" /\ stage'[f] = "done"
        /\ \A k \in Jobs : k # h /\ k # f => stage'[k] = stage[k]
    BY <1>1, <1>2 DEF IInv, Types
  <2>2. /\ FdHolders' \subseteq FdHolders \cup {h}
        /\ FdHolders \subseteq FdHolders' \cup {h}
        /\ h \in FdHolders' /\ h \notin FdHolders
    BY <1>1, <1>2, <2>1, DialAssumption DEF FdHolders, Executing
  <2>3. ASSUME NEW p \in Peers
        PROVE  /\ PeerHolders(p)' \subseteq PeerHolders(p) \cup {f}
               /\ PeerHolders(p) \subseteq PeerHolders(p)' \cup {f}
               /\ f \notin PeerHolders(p)'
               /\ f \in PeerHolders(p) <=> peer(f) = p
    BY <1>1, <1>2, <2>1 DEF PeerHolders, Executing, peer
  <2>4. Cardinality(FdHolders') = Cardinality(FdHolders) + 1 - 0
    BY <2>2, HoldersFinite, CardinalityChange
  <2>5. ASSUME NEW p \in Peers
        PROVE  Cardinality(PeerHolders(p)') = Cardinality(PeerHolders(p))
                                       + 0 - (IF peer(f) = p THEN 1 ELSE 0)
    BY <2>3, HoldersFinite, CardinalityChange
  <2>6. fdConsuming' = Cardinality(FdHolders')
    BY <1>1, <2>4 DEF IInv, Types, TokenAccounting
  <2>7. ASSUME NEW p \in Peers
        PROVE  activePerPeer'[p] = Cardinality(PeerHolders(p)')
    <3>1. Cardinality(PeerHolders(p)) = activePerPeer[p] /\ activePerPeer[p] \in Int
      BY DEF IInv, TokenAccounting, Types
    <3>2. activePerPeer'[p] = activePerPeer[p] - (IF peer(f) = p THEN 1 ELSE 0)
      BY <1>1 DEF IInv, Types, FreePeerToken
    <3>3. QED
      BY <2>5, <3>1, <3>2
  <2>8. QED
    BY <2>6, <2>7 DEF TokenAccounting
<1>5. Types'
  <2>1. stage \in [Jobs -> Stages] /\ "dialing" \in Stages /\ "done" \in Stages
    BY DEF IInv, Types, Stages, Executing
  <2>2. stage' \in [Jobs -> Stages]
    BY <1>1, <2>1
  <2>3. crit' \in [at : {"idle", "freeFD", "freePeer"},
                   fin : Jobs \cup {NoJob}, tok : Jobs \cup {NoJob}]
    BY <1>1, <1>3
  <2>4. fdConsuming' \in Int /\ phase' \in [Dials -> Phases]
        /\ waitingOnPeerLimit' \in [Peers -> Seq(Jobs)]
    BY <1>1 DEF IInv, Types
  <2>5. QED
    BY <1>2, <1>3, <2>2, <2>3, <2>4 DEF Types
<1>6. PeerList'
  BY <1>1, <1>2, PeerListKept DEF IInv, Types
<1>7. CritOK'
  BY <1>1, <1>3 DEF CritOK, InFreeFD
<1>8. FdTokens'
  BY <1>1, <1>3, LimitAssumption DEF InFreeFD, FdTokens, IInv, Types
<1>9. QED
  BY <1>2, <1>3, <1>4, <1>5, <1>6, <1>7, <1>8 DEF IInv

\* Where freePeerToken returns to.
LEMMA ReturnFacts ==
  ASSUME IInv, crit.at = "freePeer", crit' = Return
  PROVE  /\ crit' \in [at : {"idle", "freeFD", "freePeer"},
                        fin : Jobs \cup {NoJob}, tok : Jobs \cup {NoJob}]
         /\ crit'.at \in {"idle", "freeFD"}
         /\ crit'.at = "idle" => crit' = Idle
         /\ crit'.at # "idle" => crit'.fin = crit.fin
         /\ InFreeFD' <=> InFreeFD
         /\ InFreeFD' <=> crit'.at = "freeFD"
  BY DEF Return, Idle, InFreeFD, IInv, Types, CritOK

\* Returning from freePeerToken leaves the critical section well formed.
LEMMA ReturnCritOK ==
  ASSUME IInv, crit.at = "freePeer", crit' = Return,
         InFreeFD => stage'[crit.fin] = stage[crit.fin]
  PROVE  CritOK'
<1>1. CASE crit.tok = crit.fin
  <2>1. crit' = Idle /\ crit'.at = "idle"
    BY <1>1 DEF Return, Idle
  <2>2. QED
    BY <2>1 DEF CritOK, InFreeFD, Idle
<1>2. CASE crit.tok # crit.fin
  <2>1. crit'.at = "freeFD" /\ crit'.fin = crit.fin
    BY <1>2 DEF Return
  <2>2. InFreeFD /\ crit.fin \in Jobs /\ crit.fin \in FdJobs /\ stage[crit.fin] = "freedFd"
    BY <1>2 DEF IInv, CritOK, InFreeFD
  <2>3. QED
    BY <2>1, <2>2 DEF CritOK
<1>3. QED
  BY <1>1, <1>2

\* freePeerToken finds no waiting job.
LEMMA FreePeerTokenDoneStep ==
  ASSUME IInv, FreePeerTokenDone
  PROVE  IInv'
<1> USE DEF FreePeerTokenDone
<1>1. crit.at = "freePeer" /\ crit' = Return
  OBVIOUS
<1>2. Types'
  BY <1>1, ReturnFacts DEF IInv, Types
<1>3. TokenAccounting'
  <2>1. /\ FdHolders' = FdHolders
        /\ \A p \in Peers : PeerHolders(p)' = PeerHolders(p)
    BY DEF FdHolders, PeerHolders, peer
  <2>2. QED
    BY <2>1 DEF IInv, TokenAccounting
<1>4. FdList' /\ PeerList'
  BY FdListKept, PeerListKept
<1>5. CritOK' /\ FdTokens'
  <2>1. CritOK'
    BY <1>1, ReturnCritOK
  <2>2. (InFreeFD' <=> InFreeFD) /\ FdTokens
    BY <1>1, ReturnFacts DEF IInv
  <2>3. QED
    BY <2>1, <2>2 DEF FdTokens
<1>6. PeerTokens'
  <2>1. crit'.at # "freePeer"
    BY <1>1, ReturnFacts
  <2>2. QED
    BY <1>1, <2>1, LimitAssumption DEF IInv, Types, PeerTokens, peer
<1>7. QED
  BY <1>2, <1>3, <1>4, <1>5, <1>6 DEF IInv

\* Taking the head of a peer's waiting list.
LEMMA PeerListTail ==
  ASSUME IInv, NEW p \in Peers, waitingOnPeerLimit[p] # <<>>,
         waitingOnPeerLimit' = [waitingOnPeerLimit EXCEPT ![p] = Tail(@)],
         \A k \in Jobs : stage[k] = "waitPeer" /\ k # Head(waitingOnPeerLimit[p])
                           => stage'[k] = "waitPeer"
  PROVE  /\ PeerList'
         /\ waitingOnPeerLimit' \in [Peers -> Seq(Jobs)]
         /\ Head(waitingOnPeerLimit[p]) \in Jobs
         /\ stage[Head(waitingOnPeerLimit[p])] = "waitPeer"
         /\ peer(Head(waitingOnPeerLimit[p])) = p
<1> DEFINE w == waitingOnPeerLimit[p]
<1>1. w \in Seq(Jobs) /\ NoDuplicates(w) /\ w # <<>>
  BY DEF IInv, Types, PeerList
<1>2. /\ waitingOnPeerLimit'[p] = Tail(w)
      /\ \A q \in Peers : q # p => waitingOnPeerLimit'[q] = waitingOnPeerLimit[q]
      /\ waitingOnPeerLimit' \in [Peers -> Seq(Jobs)]
  BY <1>1, TailFacts DEF IInv, Types
<1>3. /\ Head(w) \in Jobs
      /\ stage[Head(w)] = "waitPeer" /\ peer(Head(w)) = p
  <2>1. 1 \in 1..Len(w) /\ Head(w) = w[1] /\ Head(w) \in Jobs
    BY <1>1, TailFacts
  <2>2. QED
    BY <2>1 DEF IInv, PeerList
<1>4. /\ NoDuplicates(Tail(w))
      /\ \A i \in 1..Len(Tail(w)) : Tail(w)[i] # Head(w)
  BY <1>1, TailNoDuplicates
<1>5. \A i \in 1..Len(Tail(w)) :
        /\ stage[Tail(w)[i]] = "waitPeer" /\ peer(Tail(w)[i]) = p
        /\ Tail(w)[i] \in Jobs
  <2>1. \A i \in 1..Len(Tail(w)) : i + 1 \in 1..Len(w) /\ Tail(w)[i] = w[i + 1]
    BY <1>1, TailFacts
  <2>2. QED
    BY <1>1, <2>1 DEF IInv, PeerList
<1>6. ASSUME NEW q \in Peers
      PROVE  /\ NoDuplicates(waitingOnPeerLimit'[q])
             /\ \A i \in 1..Len(waitingOnPeerLimit'[q]) :
                  /\ stage'[waitingOnPeerLimit'[q][i]] = "waitPeer"
                  /\ peer(waitingOnPeerLimit'[q][i]) = q
  <2>1. CASE q = p
    BY <1>2, <1>4, <1>5, <2>1
  <2>2. CASE q # p
    <3>1. \A i \in 1..Len(waitingOnPeerLimit[q]) :
            /\ waitingOnPeerLimit[q][i] \in Jobs
            /\ stage[waitingOnPeerLimit[q][i]] = "waitPeer"
            /\ peer(waitingOnPeerLimit[q][i]) = q
      BY DEF IInv, PeerList, Types
    <3>2. QED
      BY <1>2, <1>3, <2>2, <3>1 DEF IInv, PeerList
  <2>3. QED
    BY <2>1, <2>2
<1>7. PeerList'
  BY <1>6 DEF PeerList, NoDuplicates, peer
<1>8. QED
  BY <1>2, <1>3, <1>7

\* freePeerToken passes over a cancelled job.
LEMMA FreePeerTokenSkipStep ==
  ASSUME IInv, FreePeerTokenSkip
  PROVE  IInv'
<1> DEFINE p == peer(crit.tok)
           h == Head(waitingOnPeerLimit[p])
<1>1. /\ crit.at = "freePeer" /\ waitingOnPeerLimit[p] # <<>>
      /\ waitingOnPeerLimit' = [waitingOnPeerLimit EXCEPT ![p] = Tail(@)]
      /\ stage' = [stage EXCEPT ![h] = "skipped"]
      /\ UNCHANGED <<phase, fdConsuming, waitingOnFd, activePerPeer, crit>>
  BY DEF FreePeerTokenSkip
<1>2. p \in Peers
  BY <1>1, DialAssumption DEF IInv, CritOK, peer
<1>3. /\ PeerList' /\ waitingOnPeerLimit' \in [Peers -> Seq(Jobs)]
      /\ h \in Jobs /\ stage[h] = "waitPeer"
  BY <1>1, <1>2, PeerListTail DEF IInv, Types
<1>4. Types'
  BY <1>1, <1>3 DEF IInv, Types, Stages
<1>5. TokenAccounting'
  <2>1. /\ FdHolders' = FdHolders
        /\ \A q \in Peers : PeerHolders(q)' = PeerHolders(q)
    BY <1>1, <1>3, DialAssumption DEF IInv, Types, FdHolders, PeerHolders, Executing, peer
  <2>2. QED
    BY <1>1, <2>1 DEF IInv, TokenAccounting
<1>6. FdList'
  BY <1>1, <1>3, FdListKept DEF IInv, Types
<1>7. CritOK'
  BY <1>1, <1>3, DialAssumption DEF IInv, Types, CritOK, InFreeFD, Idle
<1>8. FdTokens'
  BY <1>1 DEF IInv, FdTokens, InFreeFD
<1>9. PeerTokens'
  BY <1>1, <1>2 DEF IInv, Types, PeerTokens, peer
<1>10. QED
  BY <1>3, <1>4, <1>5, <1>6, <1>7, <1>8, <1>9 DEF IInv

\* freePeerToken hands the token to the next waiting job.
LEMMA FreePeerTokenNextStep ==
  ASSUME IInv, FreePeerTokenNext
  PROVE  IInv'
<1> DEFINE p == peer(crit.tok)
           h == Head(waitingOnPeerLimit[p])
<1>1. /\ crit.at = "freePeer" /\ waitingOnPeerLimit[p] # <<>>
      /\ waitingOnPeerLimit' = [waitingOnPeerLimit EXCEPT ![p] = Tail(@)]
      /\ activePerPeer' = [activePerPeer EXCEPT ![p] = @ + 1]
      /\ AddCheckFdLimit(h)
      /\ crit' = Return /\ UNCHANGED phase
  BY DEF FreePeerTokenNext
<1>2. p \in Peers
  BY <1>1, DialAssumption DEF IInv, CritOK, peer
<1>3. h \in Jobs /\ stage[h] = "waitPeer" /\ peer(h) = p
  <2>1. waitingOnPeerLimit[p] \in Seq(Jobs)
    BY <1>2 DEF IInv, Types
  <2>2. 1 \in 1..Len(waitingOnPeerLimit[p]) /\ h = waitingOnPeerLimit[p][1] /\ h \in Jobs
    BY <1>1, <2>1, TailFacts
  <2>3. QED
    BY <1>2, <2>2 DEF IInv, PeerList
<1>4. /\ stage' \in [Jobs -> Stages]
      /\ \A k \in Jobs : k # h => stage'[k] = stage[k]
      /\ activePerPeer' \in [Peers -> Int]
      /\ TokenAccounting'
  BY <1>1, <1>3, TakePeerToken
<1>5. /\ waitingOnFd' \in Seq(Jobs) /\ FdList' /\ fdConsuming' \in Int
      /\ fdConsuming' >= fdConsuming
      /\ waitingOnFd' = waitingOnFd \/ fdConsuming' >= fdLimit
  BY <1>1, <1>3, AddCheckFdLimitStep
<1>6. PeerList' /\ waitingOnPeerLimit' \in [Peers -> Seq(Jobs)]
  BY <1>1, <1>2, <1>4, PeerListTail
<1>7. Types'
  BY <1>1, <1>4, <1>5, <1>6, ReturnFacts DEF IInv, Types
<1>8. CritOK'
  BY <1>1, <1>3, <1>4, ReturnCritOK DEF IInv, CritOK
<1>9. FdTokens'
  <2>1. (InFreeFD' <=> InFreeFD) /\ FdTokens
    BY <1>1, ReturnFacts DEF IInv
  <2>2. QED
    BY <1>5, <2>1, LimitAssumption DEF IInv, Types, FdTokens
<1>10. PeerTokens'
  <2>1. crit'.at # "freePeer"
    BY <1>1, ReturnFacts
  <2>2. /\ activePerPeer'[p] = activePerPeer[p] + 1
        /\ \A q \in Peers : q # p => /\ activePerPeer'[q] = activePerPeer[q]
                                       /\ waitingOnPeerLimit'[q] = waitingOnPeerLimit[q]
    BY <1>1, <1>2 DEF IInv, Types
  <2>3. QED
    BY <1>1, <1>2, <2>1, <2>2, LimitAssumption DEF IInv, Types, PeerTokens, peer
<1>11. QED
  BY <1>4, <1>5, <1>6, <1>7, <1>8, <1>9, <1>10 DEF IInv

----------------------------------------------------------------------------
(* The theorems.                                                           *)

\* The invariant of the limiter is inductive.
LEMMA IInvInductive == IInv /\ [Next]_vars => IInv'
<1> SUFFICES ASSUME IInv, [Next]_vars PROVE IInv'
  OBVIOUS
<1>1. CASE UNCHANGED vars
  BY <1>1, PhaseStep DEF vars, IInv, Types
<1>2. ASSUME NEW d \in Dials, StartDial(d) \/ CancelDial(d) PROVE IInv'
  BY <1>2, PhaseStep DEF StartDial, CancelDial, IInv, Types, Phases
<1>3. ASSUME NEW d \in Dials, ClearAllPeerDials(d) PROVE IInv'
  BY <1>3, ClearStep
<1>4. ASSUME NEW j \in Jobs, AddDialJob(j) PROVE IInv'
  BY <1>4, AddDialJobStep
<1>5. ASSUME NEW j \in Jobs, ExecuteDial(j) \/ ReportResult(j) PROVE IInv'
  BY <1>5, RunningStep DEF ExecuteDial, ReportResult, Executing
<1>6. ASSUME NEW j \in Jobs, FinishedDial(j) PROVE IInv'
  BY <1>6, FinishedDialStep
<1>7. CASE CritStep
  BY <1>7, FreeFDTokenDoneStep, FreeFDTokenNextStep, FreeFDTokenSkipStep,
     FreePeerTokenDoneStep, FreePeerTokenNextStep, FreePeerTokenSkipStep DEF CritStep
<1>8. QED
  BY <1>1, <1>2, <1>3, <1>4, <1>5, <1>6, <1>7 DEF Next

\* IInv holds in every reachable state of the limiter.
THEOREM Invariance == Spec => []IInv
  BY InitIInv, IInvInductive, PTL DEF Spec

\* The state of the limiter is well typed and its counters never go negative.
THEOREM TypeCorrect == Spec => []TypeOK
<1>1. IInv => TypeOK
  BY CountersNat DEF IInv, Types, TypeOK
<1>2. QED
  BY <1>1, Invariance, PTL

\* fdConsuming and activePerPeer count exactly the jobs that hold a token.
THEOREM TokensAccounted == Spec => []TokenAccounting
  BY Invariance, PTL DEF IInv

\* No peer ever has more than perPeerLimit token holders.
THEOREM PeerLimitHolds == Spec => []PeerLimit
<1>1. IInv => PeerLimit
  BY LimitAssumption DEF IInv, Types, TokenAccounting, PeerTokens, PeerLimit
<1>2. QED
  BY <1>1, Invariance, PTL

\* Outside the critical section a job waits only while its tokens are taken.
THEOREM NoLostWakeup == Spec => []NoIdleToken
<1>1. IInv => NoIdleToken
  BY DEF IInv, TokenAccounting, PeerTokens, FdTokens, NoIdleToken, InFreeFD, Idle
<1>2. QED
  BY <1>1, Invariance, PTL

----------------------------------------------------------------------------
(* The FD limit is exceeded by at most one.                                *)

\* In the loop of freeFDToken the token that is handed on is already free, so that what the
\* nested freePeerToken starts stays below the limit; the loop adds one more when it ends.
FdInv == fdConsuming <= IF InFreeFD THEN fdLimit ELSE fdLimit + 1

\* addCheckFdLimit takes an FD token only when one is left.
LEMMA AddCheckFdLimitFd ==
  ASSUME IInv, NEW j \in Jobs, AddCheckFdLimit(j)
  PROVE  \/ fdConsuming' = fdConsuming
         \/ fdConsuming < fdLimit /\ fdConsuming' = fdConsuming + 1
<1>1. \/ fdConsuming' = fdConsuming
      \/ ~(fdConsuming >= fdLimit) /\ fdConsuming' = fdConsuming + 1
  BY DEF AddCheckFdLimit, FdLimitReached
<1>2. fdConsuming \in Int
  BY DEF IInv, Types
<1>3. QED
  BY <1>1, <1>2, LimitAssumption

\* Whatever is dialed again, no step takes more than one FD token above the limit.
LEMMA FdInvInductive == IInv /\ FdInv /\ [Next]_vars => FdInv'
<1> SUFFICES ASSUME IInv, FdInv, [Next]_vars PROVE FdInv'
  OBVIOUS
<1>0. fdConsuming \in Int /\ fdLimit \in Int
  BY LimitAssumption DEF IInv, Types
<1>1. CASE UNCHANGED vars
  BY <1>1 DEF vars, FdInv, InFreeFD
<1>2. ASSUME NEW d \in Dials, StartDial(d) \/ CancelDial(d) \/ ClearAllPeerDials(d)
      PROVE  FdInv'
  BY <1>2 DEF StartDial, CancelDial, ClearAllPeerDials, FdInv, InFreeFD
<1>3. ASSUME NEW j \in Jobs, ExecuteDial(j) \/ ReportResult(j) PROVE FdInv'
  BY <1>3 DEF ExecuteDial, ReportResult, FdInv, InFreeFD
<1>4. ASSUME NEW j \in Jobs, AddDialJob(j) PROVE FdInv'
  <2>1. crit = Idle /\ crit' = crit /\ crit.at = "idle"
    BY <1>4 DEF AddDialJob, Idle
  <2>2. \/ fdConsuming' = fdConsuming
        \/ fdConsuming < fdLimit /\ fdConsuming' = fdConsuming + 1
    <3>1. fdConsuming' = fdConsuming \/ AddCheckFdLimit(j)
      BY <1>4 DEF AddDialJob, AddCheckPeerLimit
    <3>2. QED
      BY <3>1, AddCheckFdLimitFd
  <2>3. QED
    BY <1>0, <2>1, <2>2 DEF FdInv, InFreeFD
<1>5. ASSUME NEW j \in Jobs, FinishedDial(j) PROVE FdInv'
  <2>1. fdConsuming <= fdLimit + 1
    BY <1>5 DEF FinishedDial, Idle, FdInv, InFreeFD
  <2>2. \/ fdConsuming' = fdConsuming - 1 /\ crit'.at = "freeFD"
        \/ fdConsuming' = fdConsuming /\ crit'.at = "freePeer" /\ crit'.tok = crit'.fin
    BY <1>5 DEF FinishedDial, FreePeerToken
  <2>3. QED
    BY <1>0, <2>1, <2>2 DEF FdInv, InFreeFD
<1>6. CASE FreeFDTokenDone \/ FreeFDTokenNext
  <2>1. fdConsuming <= fdLimit
    BY <1>6 DEF FreeFDTokenDone, FreeFDTokenNext, FdInv, InFreeFD
  <2>2. /\ fdConsuming' = fdConsuming \/ fdConsuming' = fdConsuming + 1
        /\ crit'.at = "freePeer" /\ crit'.tok = crit'.fin
    BY <1>6 DEF FreeFDTokenDone, FreeFDTokenNext, FreePeerToken
  <2>3. QED
    BY <1>0, <2>1, <2>2 DEF FdInv, InFreeFD
<1>7. CASE FreeFDTokenSkip
  <2>1. crit.at = "freeFD" /\ fdConsuming' = fdConsuming
    BY <1>7 DEF FreeFDTokenSkip
  <2>2. QED
    BY <1>0, <2>1 DEF FdInv, InFreeFD
<1>8. CASE FreePeerTokenSkip
  BY <1>8 DEF FreePeerTokenSkip, FdInv, InFreeFD
<1>9. CASE FreePeerTokenDone
  <2>1. crit.at = "freePeer" /\ crit' = Return /\ fdConsuming' = fdConsuming
    BY <1>9 DEF FreePeerTokenDone
  <2>2. InFreeFD' <=> InFreeFD
    BY <2>1, ReturnFacts
  <2>3. QED
    BY <2>1, <2>2 DEF FdInv
<1>10. CASE FreePeerTokenNext
  <2> DEFINE p == peer(crit.tok)
             h == Head(waitingOnPeerLimit[p])
  <2>1. /\ crit.at = "freePeer" /\ crit.tok \in Jobs /\ waitingOnPeerLimit[p] # <<>>
        /\ AddCheckFdLimit(h) /\ crit' = Return
    BY <1>10 DEF FreePeerTokenNext, IInv, CritOK
  <2>2. h \in Jobs
    <3>1. p \in Peers
      BY <2>1, DialAssumption DEF peer
    <3>2. waitingOnPeerLimit[p] \in Seq(Jobs)
      BY <3>1 DEF IInv, Types
    <3>3. QED
      BY <2>1, <3>2, TailFacts
  <2>3. InFreeFD' <=> InFreeFD
    BY <2>1, ReturnFacts
  <2>4. \/ fdConsuming' = fdConsuming
        \/ fdConsuming < fdLimit /\ fdConsuming' = fdConsuming + 1
    BY <2>1, <2>2, AddCheckFdLimitFd
  <2>5. QED
    BY <1>0, <2>3, <2>4 DEF FdInv
<1>11. QED
  BY <1>1, <1>2, <1>3, <1>4, <1>5, <1>6, <1>7, <1>8, <1>9, <1>10 DEF Next, CritStep

\* At most one dial more than fdLimit consumes an FD (limiter.go: freeFDToken and the
\* freePeerToken inside its loop), for any number of jobs, however often peers are dialed again
\* and their dials cancelled: the excess does not add up over time.
THEOREM FdLimitHolds == Spec => []FdLimitByOne
<1>1. Init => FdInv
  BY LimitAssumption DEF Init, FdInv, InFreeFD, Idle
<1>2. IInv /\ FdInv => FdLimitByOne
  BY LimitAssumption DEF IInv, Types, TokenAccounting, FdInv, FdLimitByOne
<1>3. QED
  BY <1>1, <1>2, FdInvInductive, Invariance, PTL DEF Spec

----------------------------------------------------------------------------
(* Each peer's tokens are a pool with a queue (DialPool).                  *)

Fresh == {j \in Jobs : stage[j] = "new"}
Places == [p \in Peers |-> PeerHolders(p)]
Tokens == [p \in Peers |-> perPeerLimit - activePerPeer[p]]

\* What moving one job to another stage does to the jobs that have a place.
LEMMA MoveInPool ==
  ASSUME Types, NEW k \in Jobs, NEW st \in Stages,
         stage' = [stage EXCEPT ![k] = st], stage[k] = "new" => st # "new"
  PROVE  /\ st \in HoldsPeer => Places' = [Places EXCEPT ![peer(k)] = @ \cup {k}]
         /\ st \notin HoldsPeer => Places' = [Places EXCEPT ![peer(k)] = @ \ {k}]
         /\ stage[k] # "new" /\ st # "new" => Fresh' = Fresh
         /\ stage[k] = "new" => Fresh' = Fresh \ {k}
<1>1. peer(k) \in Peers
  BY DialAssumption DEF peer
<1>2. ASSUME NEW p \in Peers
      PROVE  PeerHolders(p)' = IF peer(k) # p THEN PeerHolders(p)
                               ELSE IF st \in HoldsPeer THEN PeerHolders(p) \cup {k}
                               ELSE PeerHolders(p) \ {k}
  BY DEF PeerHolders, HoldsPeer, Types, peer
<1>3. /\ stage[k] # "new" /\ st # "new" => Fresh' = Fresh
      /\ stage[k] = "new" => Fresh' = Fresh \ {k}
  BY DEF Fresh, Types
<1>4. QED
  BY <1>1, <1>2, <1>3 DEF Places

\* A job that has a place and moves to a stage with one leaves the pool as it is.
LEMMA PlaceKept ==
  ASSUME Types, NEW k \in Jobs, NEW st \in HoldsPeer, stage[k] \in HoldsPeer,
         stage' = [stage EXCEPT ![k] = st]
  PROVE  Places' = Places /\ Fresh' = Fresh
<1>1. \A p \in Peers : PeerHolders(p)' = PeerHolders(p)
  BY DEF PeerHolders, HoldsPeer, Types, peer
<1>2. Fresh' = Fresh
  BY DEF Fresh, Types, HoldsPeer, Executing
<1>3. QED
  BY <1>1, <1>2 DEF Places

\* A peer has a free place exactly when its counter is below the limit.
LEMMA FreePlace ==
  ASSUME IInv, NEW p \in Peers
  PROVE  /\ PeerLimitReached(p) => Tokens[p] = 0
         /\ activePerPeer[p] < perPeerLimit => Tokens[p] > 0
         /\ ~PeerLimitReached(p) => activePerPeer[p] < perPeerLimit
<1>1. activePerPeer[p] \in Nat /\ perPeerLimit \in Nat
  BY LimitAssumption, CountersNat DEF IInv
<1>2. activePerPeer[p] <= perPeerLimit
  BY <1>1 DEF IInv, PeerTokens
<1>3. QED
  BY <1>1, <1>2 DEF PeerLimitReached, Tokens

\* The free places when the counter of a peer changes by one.
LEMMA TokenMoves ==
  ASSUME IInv, NEW p \in Peers
  PROVE  /\ activePerPeer' = [activePerPeer EXCEPT ![p] = @ + 1]
              => Tokens' = [Tokens EXCEPT ![p] = @ - 1]
         /\ activePerPeer' = [activePerPeer EXCEPT ![p] = @ - 1]
              => Tokens' = [Tokens EXCEPT ![p] = @ + 1]
<1>1. perPeerLimit \in Nat /\ activePerPeer \in [Peers -> Nat]
  BY LimitAssumption, CountersNat DEF IInv
<1>2. ASSUME NEW q \in Peers, activePerPeer' = [activePerPeer EXCEPT ![p] = @ + 1]
      PROVE  perPeerLimit - activePerPeer'[q] =
               IF q = p THEN perPeerLimit - activePerPeer[q] - 1 ELSE perPeerLimit - activePerPeer[q]
  BY <1>1, <1>2
<1>3. ASSUME NEW q \in Peers, activePerPeer' = [activePerPeer EXCEPT ![p] = @ - 1]
      PROVE  perPeerLimit - activePerPeer'[q] =
               IF q = p THEN perPeerLimit - activePerPeer[q] + 1 ELSE perPeerLimit - activePerPeer[q]
  BY <1>1, <1>3
<1>4. QED
  BY <1>2, <1>3 DEF Tokens

\* Every step is a step of the pool of one peer, or none.
LEMMA PoolStep ==
  ASSUME IInv, Next
  PROVE  [Pool!Next]_Pool!poolVars
<1> USE DEF Pool!poolVars
<1>0. Types
  BY DEF IInv
<1>1. ASSUME NEW d \in Dials, StartDial(d) \/ CancelDial(d)
      PROVE  UNCHANGED Pool!poolVars
  BY <1>1 DEF StartDial, CancelDial, PeerHolders, peer
<1>2. ASSUME NEW d \in Dials, ClearAllPeerDials(d) PROVE Pool!Next
  <2>1. peerOf[d] \in Peers
    BY DialAssumption
  <2>2. Places' = Places /\ Fresh' = Fresh
    <3>1. \A p \in Peers : PeerHolders(p)' = PeerHolders(p)
      BY <1>2, <1>0 DEF ClearAllPeerDials, PeerHolders, Executing, Types, peer
    <3>2. QED
      BY <1>2, <1>0, <3>1 DEF ClearAllPeerDials, Places, Fresh, Types
  <2>3. Pool!Clear(peerOf[d])
    BY <1>2, <2>2 DEF ClearAllPeerDials, Pool!Clear, Places, Fresh
  <2>4. QED
    BY <2>1, <2>3 DEF Pool!Next
<1>3. ASSUME NEW j \in Jobs, AddDialJob(j) PROVE Pool!Next
  <2>1. /\ stage[j] = "new" /\ peer(j) \in Peers /\ crit = Idle /\ crit.at = "idle"
        /\ AddCheckPeerLimit(j) /\ j \in Fresh
    BY <1>3, DialAssumption DEF AddDialJob, Idle, peer, Fresh
  <2>2. CASE PeerLimitReached(peer(j))
    <3>1. /\ waitingOnPeerLimit' = [waitingOnPeerLimit EXCEPT ![peer(j)] = Append(@, j)]
          /\ stage' = [stage EXCEPT ![j] = "waitPeer"] /\ activePerPeer' = activePerPeer
      BY <2>1, <2>2 DEF AddCheckPeerLimit
    <3>2. /\ \A p \in Peers : PeerHolders(p)' = PeerHolders(p)
          /\ Fresh' = Fresh \ {j}
      BY <1>0, <2>1, <3>1 DEF PeerHolders, Fresh, Types, Executing, peer
    <3>3. Tokens[peer(j)] = 0
      BY <2>1, <2>2, FreePlace
    <3>4. Pool!Submit(j)
      BY <2>1, <3>1, <3>2, <3>3 DEF Pool!Submit, Tokens, Fresh
    <3>5. QED
      BY <3>4 DEF Pool!Next
  <2>3. CASE ~PeerLimitReached(peer(j))
    <3>1. /\ AddCheckFdLimit(j) /\ waitingOnPeerLimit' = waitingOnPeerLimit
          /\ activePerPeer' = [activePerPeer EXCEPT ![peer(j)] = @ + 1]
      BY <2>1, <2>3 DEF AddCheckPeerLimit
    <3>2. waitingOnPeerLimit[peer(j)] = <<>>
      BY <2>1, <2>3, FreePlace, LimitAssumption DEF IInv, Types, PeerTokens
    <3>3. PICK st \in {"dialing", "waitFd"} : stage' = [stage EXCEPT ![j] = st]
      BY <2>1, <3>1, AddCheckFdLimitStep
    <3>4. st \in Stages /\ st \in HoldsPeer /\ st # "new"
      BY DEF Stages, HoldsPeer, Executing
    <3>5. Places' = [Places EXCEPT ![peer(j)] = @ \cup {j}] /\ Fresh' = Fresh \ {j}
      BY <1>0, <2>1, <3>3, <3>4, MoveInPool
    <3>6. Tokens[peer(j)] > 0 /\ Tokens' = [Tokens EXCEPT ![peer(j)] = @ - 1]
      BY <2>1, <2>3, <3>1, FreePlace, TokenMoves
    <3>7. Pool!Submit(j)
      BY <2>1, <3>1, <3>2, <3>5, <3>6 DEF Pool!Submit, Pool!Take, Places, Fresh, Tokens
    <3>8. QED
      BY <3>7 DEF Pool!Next
  <2>4. QED
    BY <2>2, <2>3
<1>4. ASSUME NEW j \in Jobs, ExecuteDial(j) \/ ReportResult(j)
      PROVE  UNCHANGED Pool!poolVars
  <2>1. PICK st \in HoldsPeer : stage' = [stage EXCEPT ![j] = st]
    BY <1>4 DEF ExecuteDial, ReportResult, HoldsPeer, Executing
  <2>2. /\ stage[j] \in HoldsPeer /\ waitingOnPeerLimit' = waitingOnPeerLimit
        /\ activePerPeer' = activePerPeer
    BY <1>4 DEF ExecuteDial, ReportResult, HoldsPeer, Executing
  <2>3. QED
    BY <1>0, <2>1, <2>2, PlaceKept DEF Places, Fresh
<1>5. ASSUME NEW k \in Jobs, NEW st \in {"done", "skipped"}, stage[k] \in HoldsPeer,
             stage' = [stage EXCEPT ![k] = st], waitingOnPeerLimit' = waitingOnPeerLimit,
             NEW fin, FreePeerToken(k, fin)
      PROVE  Pool!Next
  <2>1. /\ st \in Stages /\ st \notin HoldsPeer /\ st # "new" /\ stage[k] # "new"
        /\ peer(k) \in Peers
    BY <1>5, DialAssumption DEF Stages, HoldsPeer, Executing, peer
  <2>2. Places' = [Places EXCEPT ![peer(k)] = @ \ {k}] /\ Fresh' = Fresh
    BY <1>0, <1>5, <2>1, MoveInPool
  <2>3. k \in Places[peer(k)]
    BY <1>5, <2>1 DEF Places, PeerHolders, HoldsPeer
  <2>4. Tokens' = [Tokens EXCEPT ![peer(k)] = @ + 1]
    BY <1>5, <2>1, TokenMoves DEF FreePeerToken
  <2>6. Pool!Leave(k)
    BY <1>5, <2>2, <2>3, <2>4 DEF Pool!Leave, Places, Fresh, Tokens
  <2>5. QED
    BY <2>6 DEF Pool!Next
<1>6. ASSUME NEW j \in Jobs, FinishedDial(j) PROVE [Pool!Next]_Pool!poolVars
  <2>1. stage[j] \in HoldsPeer /\ waitingOnPeerLimit' = waitingOnPeerLimit
    BY <1>6 DEF FinishedDial, HoldsPeer, Executing
  <2>2. CASE j \in FdJobs
    <3>1. /\ stage' = [stage EXCEPT ![j] = "freedFd"] /\ "freedFd" \in HoldsPeer
          /\ activePerPeer' = activePerPeer
      BY <1>6, <2>2 DEF FinishedDial, HoldsPeer
    <3>2. QED
      BY <1>0, <2>1, <3>1, PlaceKept DEF Places, Fresh
  <2>3. CASE j \notin FdJobs
    BY <1>5, <1>6, <2>1, <2>3 DEF FinishedDial
  <2>4. QED
    BY <2>2, <2>3
<1>7. CASE FreeFDTokenDone
  <2>1. /\ crit.fin \in Jobs /\ stage[crit.fin] \in HoldsPeer
        /\ stage' = [stage EXCEPT ![crit.fin] = "done"]
        /\ waitingOnPeerLimit' = waitingOnPeerLimit /\ FreePeerToken(crit.fin, crit.fin)
    BY <1>7 DEF FreeFDTokenDone, IInv, CritOK, InFreeFD, HoldsPeer
  <2>2. QED
    BY <1>5, <2>1
<1>8. CASE FreeFDTokenSkip
  <2>1. /\ Head(waitingOnFd) \in Jobs /\ stage[Head(waitingOnFd)] \in HoldsPeer
        /\ stage' = [stage EXCEPT ![Head(waitingOnFd)] = "skipped"]
        /\ waitingOnPeerLimit' = waitingOnPeerLimit
        /\ FreePeerToken(Head(waitingOnFd), crit.fin)
    <3>1. waitingOnFd # <<>> /\ waitingOnFd \in Seq(Jobs)
      BY <1>0, <1>8 DEF FreeFDTokenSkip, Types
    <3>2. /\ 1 \in 1..Len(waitingOnFd) /\ Head(waitingOnFd) = waitingOnFd[1]
          /\ Head(waitingOnFd) \in Jobs
      BY <3>1, TailFacts
    <3>3. stage[Head(waitingOnFd)] = "waitFd"
      BY <3>2 DEF IInv, FdList
    <3>4. QED
      BY <1>8, <3>2, <3>3 DEF FreeFDTokenSkip, HoldsPeer
  <2>2. QED
    BY <1>5, <2>1
<1>9. CASE FreeFDTokenNext
  <2> DEFINE h == Head(waitingOnFd)
  <2>0. PICK f \in Jobs : f = crit.fin
    BY <1>9 DEF FreeFDTokenNext, IInv, CritOK
  <2>1. /\ stage[f] = "freedFd" /\ peer(f) \in Peers
        /\ stage' = [stage EXCEPT ![h] = "dialing", ![f] = "done"]
        /\ waitingOnPeerLimit' = waitingOnPeerLimit /\ FreePeerToken(f, f)
        /\ waitingOnFd # <<>> /\ waitingOnFd \in Seq(Jobs)
    BY <1>0, <1>9, <2>0, DialAssumption DEF FreeFDTokenNext, IInv, CritOK, InFreeFD, peer, Types
  <2>2. 1 \in 1..Len(waitingOnFd) /\ h = waitingOnFd[1] /\ h \in Jobs
    BY <2>1, TailFacts
  <2>3. stage[h] = "waitFd"
    BY <2>2 DEF IInv, FdList
  <2>4. \A p \in Peers : PeerHolders(p)' = IF peer(f) = p THEN PeerHolders(p) \ {f}
                                           ELSE PeerHolders(p)
    BY <1>0, <2>1, <2>2, <2>3 DEF PeerHolders, Executing, Types, peer
  <2>5. Fresh' = Fresh
    BY <1>0, <2>1, <2>2, <2>3 DEF Fresh, Types
  <2>6. Places' = [Places EXCEPT ![peer(f)] = @ \ {f}]
    BY <2>1, <2>4 DEF Places
  <2>7. f \in Places[peer(f)]
    BY <2>1 DEF Places, PeerHolders
  <2>10. Tokens' = [Tokens EXCEPT ![peer(f)] = @ + 1]
    BY <2>1, TokenMoves DEF FreePeerToken
  <2>8. Pool!Leave(f)
    BY <2>1, <2>5, <2>6, <2>7, <2>10 DEF Pool!Leave, Places, Fresh, Tokens
  <2>9. QED
    BY <2>1, <2>8 DEF Pool!Next
<1>10. CASE FreePeerTokenDone
  BY <1>10 DEF FreePeerTokenDone, PeerHolders, peer
<1>11. CASE FreePeerTokenNext \/ FreePeerTokenSkip
  <2>0. PICK p \in Peers : p = peer(crit.tok)
    BY <1>11, DialAssumption DEF FreePeerTokenNext, FreePeerTokenSkip, IInv, CritOK, peer
  <2> DEFINE h == Head(waitingOnPeerLimit[p])
  <2>1. /\ crit.at = "freePeer" /\ p = peer(crit.tok) /\ waitingOnPeerLimit[p] # <<>>
        /\ waitingOnPeerLimit' = [waitingOnPeerLimit EXCEPT ![p] = Tail(@)]
    BY <1>11, <2>0 DEF FreePeerTokenNext, FreePeerTokenSkip
  <2>2. h \in Jobs /\ peer(h) = p /\ stage[h] = "waitPeer"
    <3>1. waitingOnPeerLimit[p] \in Seq(Jobs)
      BY <1>0, <2>1 DEF Types
    <3>2. 1 \in 1..Len(waitingOnPeerLimit[p]) /\ h = waitingOnPeerLimit[p][1] /\ h \in Jobs
      BY <2>1, <3>1, TailFacts
    <3>3. QED
      BY <2>1, <3>2 DEF IInv, PeerList
  <2>3. CASE FreePeerTokenNext
    <3>1. AddCheckFdLimit(h) /\ activePerPeer' = [activePerPeer EXCEPT ![p] = @ + 1]
      BY <2>0, <2>3 DEF FreePeerTokenNext
    <3>2. PICK st \in {"dialing", "waitFd"} : stage' = [stage EXCEPT ![h] = st]
      BY <2>2, <3>1, AddCheckFdLimitStep
    <3>3. st \in Stages /\ st \in HoldsPeer /\ st # "new"
      BY DEF Stages, HoldsPeer, Executing
    <3>4. Places' = [Places EXCEPT ![p] = @ \cup {h}] /\ Fresh' = Fresh
      BY <1>0, <2>2, <3>2, <3>3, MoveInPool
    <3>5. activePerPeer[p] < perPeerLimit
      BY <2>1, LimitAssumption, CountersNat DEF IInv, PeerTokens
    <3>6. Tokens[p] > 0 /\ Tokens' = [Tokens EXCEPT ![p] = @ - 1]
      BY <2>1, <3>1, <3>5, FreePlace, TokenMoves
    <3>7. Pool!Admit(p)
      BY <2>1, <3>4, <3>6 DEF Pool!Admit, Pool!Take, Places, Fresh, Tokens
    <3>8. QED
      BY <2>1, <3>7 DEF Pool!Next
  <2>4. CASE FreePeerTokenSkip
    <3>1. stage' = [stage EXCEPT ![h] = "skipped"] /\ activePerPeer' = activePerPeer
      BY <2>0, <2>4 DEF FreePeerTokenSkip
    <3>2. /\ \A q \in Peers : PeerHolders(q)' = PeerHolders(q)
          /\ Fresh' = Fresh
      BY <1>0, <2>2, <3>1 DEF PeerHolders, Fresh, Types, Executing, peer
    <3>3. Pool!Skip(p)
      BY <2>1, <3>1, <3>2 DEF Pool!Skip, Fresh
    <3>4. QED
      BY <2>1, <3>3 DEF Pool!Next
  <2>5. QED
    BY <1>11, <2>3, <2>4
<1>12. QED
  BY <1>1, <1>2, <1>3, <1>4, <1>6, <1>7, <1>8, <1>9, <1>10, <1>11 DEF Next, CritStep

\* The limiter implements the pool of each peer: nobody overtakes in its queue, and
\* places are taken and given back one by one (AddDialJob, freePeerToken).
THEOREM PoolImplemented == Spec => ImplementsPool
<1>1. Init => Pool!Init
  <2>1. ASSUME Init PROVE \A p \in Peers : PeerHolders(p) = {}
    BY <2>1 DEF Init, PeerHolders, Executing
  <2>2. QED
    BY <2>1, LimitAssumption DEF Init, Pool!Init
<1>2. IInv /\ [Next]_vars => [Pool!Next]_Pool!poolVars
  <2>1. CASE vars' = vars
    BY <2>1 DEF vars, Pool!poolVars, PeerHolders, peer
  <2>2. QED
    BY <2>1, PoolStep
<1>3. QED
  BY <1>1, <1>2, Invariance, PTL DEF Spec, ImplementsPool, Pool!Spec
============================================================================
