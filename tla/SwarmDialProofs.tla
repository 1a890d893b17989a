-------------------------- MODULE SwarmDialProofs --------------------------
(***************************************************************************)
(* Callers share a dial soundly, for any number of callers, addresses and  *)
(* activeDials.  The three parts of DialsShared need three strengthenings: *)
(* who holds an activeDial holds one that was started; a request that the  *)
(* worker tracks belongs to a caller of that worker and has no answer yet; *)
(* and an address is scheduled or dialed only after its addrDial was made, *)
(* not both at a time.                                                     *)
(***************************************************************************)
EXTENDS SwarmDial, FiniteSetTheorems, TLAPS

Holding == {"send", "wait", "leave"}

\* TypeOK, and the response channels are sequences.
Types == TypeOK /\ resch \in [Callers -> Seq(Results)]

\* The callers and their activeDials (dialSync).
Sharing ==
  /\ \A c \in Callers : at[c] \in Holding => gen[c] \in Gens
  /\ \A g \in Gens :
       /\ refCnt[g] = Cardinality(Holders(g))
       /\ dials = g <=> refCnt[g] > 0
       /\ closed[g] <=> worker[g] # "none" /\ refCnt[g] = 0
       /\ refCnt[g] > 0 => worker[g] # "none"

\* The requests and their answers.
Asked(c) == at[c] \in {"wait", "leave", "done"}
Answering ==
  \A c \in Callers :
    /\ Len(resch[c]) <= 1
    /\ ~Asked(c) => resch[c] = <<>>
    /\ \A g \in Gens : c \in requests[g] => gen[c] = g /\ Asked(c) /\ resch[c] = <<>>

\* The addresses and their dials.
Underway == {"queued", "running", "conn", "err", "cancelled"}
Dialing ==
  \A g \in Gens : \A a \in Addrs :
    /\ a \in nextDial[g] => pending[g][a].st = "pending" /\ job[g][a] = "none"
    /\ job[g][a] \in Underway => pending[g][a].st = "pending"
    /\ pending[g][a].st = "none" => job[g][a] = "none"

IInv == Types /\ Sharing /\ Answering /\ Dialing

----------------------------------------------------------------------------
(* Responses and cardinalities.                                            *)

\* What a caller can be answered is a result, whatever connections there are.
LEMMA AcceptableResults ==
  ASSUME Types, NEW f, NEW u, NEW r \in Acceptable(f, u)
  PROVE  r \in Results
<1>1. PICK x \in conns : r = IF u \/ x[2] \notin Transient THEN ConnResponse(x)
                             ELSE ErrResponse("transientConn")
  BY DEF Acceptable, BestConns
<1>2. x \in ConnIds
  BY DEF Types, TypeOK
<1> QED
  BY <1>1, <1>2 DEF Results, Errors

LEMMA LastCheckResults ==
  ASSUME Types, NEW f, NEW r \in LastCheck(f)
  PROVE  r \in Results
<1>1. r \in Acceptable(f, FALSE) \/ r = ErrResponse("dialError")
  BY DEF LastCheck
<1> QED
  BY <1>1, AcceptableResults DEF Results, Errors

\* An answer on an empty channel is the only one.
LEMMA FirstAnswer ==
  ASSUME NEW s \in Seq(Results), NEW r \in Results, s = <<>>
  PROVE  Append(s, r) \in Seq(Results) /\ Len(Append(s, r)) = 1
  OBVIOUS

LEMMA HoldersFinite == \A g \in Gens : IsFiniteSet(Holders(g))
<1>1. \A g \in Gens : Holders(g) \subseteq Callers
  BY DEF Holders
<1> QED
  BY <1>1, CallerAssumption, FS_Subset

\* The holders stay the same when no caller joins or leaves.
LEMMA SameHolders ==
  ASSUME Types, gen' = gen,
         \A c \in Callers : at[c] \in Holding <=> at'[c] \in Holding
  PROVE  \A g \in Gens : Holders(g)' = Holders(g)
  BY DEF Holders, Holding

LEMMA IInvInit == Init => IInv
<1> SUFFICES ASSUME Init PROVE IInv
  OBVIOUS
<1>1. Types
  <2>1. resch \in [Callers -> Seq(Results)]
    BY DEF Init
  <2>2. result \in [Callers -> Results \cup {NoResult}]
    BY DEF Init
  <2>3. pending \in [Gens -> [Addrs -> [st : {"none", "pending", "conn", "err"},
                                        reqs : SUBSET Callers, forced : BOOLEAN]]]
    BY DEF Init, NoAddrDial
  <2> QED
    BY <2>1, <2>2, <2>3 DEF Init, Types, TypeOK
<1>2. Sharing
  <2>1. \A g \in Gens : Holders(g) = {}
    BY DEF Init, Holders
  <2>2. Cardinality({}) = 0
    BY FS_EmptySet
  <2>3. \A g \in Gens : g # NoDial
    BY CallerAssumption DEF Gens, NoDial
  <2>4. \A g \in Gens : refCnt[g] = 0 /\ ~closed[g] /\ worker[g] = "none" /\ dials = NoDial
    BY DEF Init
  <2>5. \A c \in Callers : at[c] \notin Holding
    BY DEF Init, Holding
  <2>6. ~(0 > 0)
    OBVIOUS
  <2> QED
    BY <2>1, <2>2, <2>3, <2>4, <2>5, <2>6, Zenon DEF Sharing
<1>3. Answering /\ Dialing
  BY DEF Init, Answering, Dialing, Asked, Underway, NoAddrDial
<1> QED
  BY <1>1, <1>2, <1>3 DEF IInv

----------------------------------------------------------------------------
(* What keeps each part.                                                   *)

\* Sharing, when nobody joins or leaves and workers only start or go on.
LEMMA SharingKept ==
  ASSUME Types, Sharing, gen' = gen, UNCHANGED syncVars,
         \A c \in Callers : at[c] \in Holding <=> at'[c] \in Holding,
         \A g \in Gens : worker[g] = "none" <=> worker'[g] = "none"
  PROVE  Sharing'
<1>1. \A g \in Gens : Holders(g)' = Holders(g)
  BY SameHolders
<1>2. dials' = dials /\ refCnt' = refCnt /\ closed' = closed
  BY DEF syncVars
<1> QED
  BY <1>1, <1>2, Zenon DEF Sharing

\* Answering, when no request is tracked or answered and callers do not go back.
LEMMA AnsweringKept ==
  ASSUME Answering, UNCHANGED <<resch, requests>>,
         \A c \in Callers : Asked(c) => Asked(c)' /\ gen'[c] = gen[c]
  PROVE  Answering'
<1>1. \A c \in Callers, g \in Gens : c \in requests[g] => Asked(c)
  BY DEF Answering
<1>2. \A c \in Callers : ~Asked(c)' => ~Asked(c)
  OBVIOUS
<1> QED
  BY <1>1, <1>2, Zenon DEF Answering

\* Answering, when cs, whose requests are tracked, are answered and dropped.
LEMMA Answered ==
  ASSUME Types, Answering, NEW g \in Gens, NEW cs \in SUBSET requests[g],
         resch' = [c \in Callers |-> resch'[c]],
         \A c \in cs : \E r \in Results : resch'[c] = Append(resch[c], r),
         \A c \in Callers \ cs : resch'[c] = resch[c],
         requests' = [requests EXCEPT ![g] = @ \ cs],
         UNCHANGED <<at, gen>>
  PROVE  Answering' /\ resch' \in [Callers -> Seq(Results)]
<1>1. cs \subseteq Callers /\ requests \in [Gens -> SUBSET Callers]
  BY DEF Types, TypeOK
<1>2. \A c \in cs : resch[c] = <<>> /\ gen[c] = g /\ Asked(c)
  BY <1>1 DEF Answering
<1>3. \A c \in cs : resch'[c] \in Seq(Results) /\ Len(resch'[c]) = 1
  <2> SUFFICES ASSUME NEW c \in cs PROVE resch'[c] \in Seq(Results) /\ Len(resch'[c]) = 1
    OBVIOUS
  <2>1. PICK r \in Results : resch'[c] = Append(resch[c], r)
    OBVIOUS
  <2>2. resch[c] \in Seq(Results) /\ resch[c] = <<>>
    BY <1>1, <1>2 DEF Types
  <2> QED
    BY <2>1, <2>2, FirstAnswer
<1>4. \A c \in Callers \ cs : resch'[c] = resch[c] /\ resch[c] \in Seq(Results)
  BY DEF Types
<1>5. \A c \in Callers : resch'[c] \in Seq(Results)
  BY <1>3, <1>4
<1>6. resch' \in [Callers -> Seq(Results)]
  BY <1>5
<1>7. \A c \in Callers : Asked(c)' = Asked(c) /\ gen'[c] = gen[c]
  BY DEF Asked
<1>8. \A c \in Callers, h \in Gens : c \in requests'[h] => c \in requests[h] /\ (h = g => c \notin cs)
  BY <1>1
<1>9. \A c \in Callers, h \in Gens : c \in requests'[h] => c \notin cs
  BY <1>2, <1>8 DEF Answering
<1>10. ASSUME NEW c \in Callers
       PROVE  /\ Len(resch'[c]) <= 1
              /\ ~Asked(c)' => resch'[c] = <<>>
              /\ \A h \in Gens : c \in requests'[h] => gen'[c] = h /\ Asked(c)' /\ resch'[c] = <<>>
  <2>1. CASE c \in cs
    BY <2>1, <1>2, <1>3, <1>7, <1>9
  <2>2. CASE c \notin cs
    BY <2>2, <1>4, <1>7, <1>8 DEF Answering
  <2> QED
    BY <2>1, <2>2
<1> QED
  BY <1>6, <1>10 DEF Answering

AddrDials == [st : {"none", "pending", "conn", "err"}, reqs : SUBSET Callers, forced : BOOLEAN]

\* dispatchError answers tracked requests once, and leaves the other addresses alone.
LEMMA DispatchErrorKeeps ==
  ASSUME Types, Answering, NEW g \in Gens, NEW a \in Addrs, NEW err,
         DispatchError(g, a, err), UNCHANGED <<at, gen>>
  PROVE  /\ Answering' /\ resch' \in [Callers -> Seq(Results)]
         /\ requests' \in [Gens -> SUBSET Callers] /\ left' \in [Callers -> SUBSET Addrs]
         /\ pending' \in [Gens -> [Addrs -> AddrDials]]
         /\ \A h \in Gens, b \in Addrs : h # g \/ b # a => pending'[h][b] = pending[h][b]
         /\ pending'[g][a].st = IF err = "backoff" THEN "none" ELSE "err"
<1> DEFINE hit == pending[g][a].reqs \cap requests[g]
           finished == {c \in hit : left[c] \subseteq {a}}
<1>1. /\ requests \in [Gens -> SUBSET Callers] /\ left \in [Callers -> SUBSET Addrs]
      /\ pending \in [Gens -> [Addrs -> AddrDials]]
  BY DEF Types, TypeOK, AddrDials
<1>2. finished \in SUBSET requests[g]
  OBVIOUS
<1>3. PICK forced \in LastCheck(TRUE), unforced \in LastCheck(FALSE) :
        resch' = [c \in Callers |-> IF c \notin finished THEN resch[c]
                    ELSE Append(resch[c], IF c \in Forced THEN forced ELSE unforced)]
  BY DEF DispatchError
<1>4. forced \in Results /\ unforced \in Results
  BY LastCheckResults
<1>5. /\ resch' = [c \in Callers |-> resch'[c]]
      /\ \A c \in Callers \ finished : resch'[c] = resch[c]
  BY <1>3
<1>6. \A c \in finished : \E r \in Results : resch'[c] = Append(resch[c], r)
  <2>1. finished \subseteq Callers
    BY <1>1
  <2> QED
    BY <1>3, <1>4, <2>1
<1>7. requests' = [requests EXCEPT ![g] = @ \ finished]
  BY DEF DispatchError
<1>8. Answering' /\ resch' \in [Callers -> Seq(Results)]
  <2> HIDE DEF finished
  <2> QED
    BY <1>2, <1>5, <1>6, <1>7, Answered
<1>9. requests' \in [Gens -> SUBSET Callers] /\ left' \in [Callers -> SUBSET Addrs]
  <2>1. left' = [c \in Callers |-> IF c \in hit THEN left[c] \ {a} ELSE left[c]]
    BY DEF DispatchError
  <2> QED
    BY <1>1, <1>7, <2>1
<1>10. pending' = [pending EXCEPT ![g][a] =
          IF err = "backoff" THEN NoAddrDial ELSE [@ EXCEPT !.st = "err", !.reqs = {}]]
  BY DEF DispatchError
<1>11. pending[g][a] \in AddrDials
  BY <1>1
<1>12. [pending[g][a] EXCEPT !.st = "err", !.reqs = {}] \in AddrDials
  BY <1>11 DEF AddrDials
<1>13. NoAddrDial \in AddrDials /\ NoAddrDial.st = "none"
  BY DEF NoAddrDial, AddrDials
<1>14. [pending[g][a] EXCEPT !.st = "err", !.reqs = {}].st = "err"
  BY <1>11 DEF AddrDials
<1> QED
  BY <1>1, <1>8, <1>9, <1>10, <1>12, <1>13, <1>14

----------------------------------------------------------------------------
(* The steps.                                                              *)

\* A step of a caller that neither joins nor leaves.
LEMMA CallerWaits ==
  ASSUME IInv, NEW c \in Callers, DialPeer(c) \/ CtxDone(c) \/ TakeAnswer(c)
  PROVE  IInv'
<1> USE DEF IInv
<1>1. /\ UNCHANGED <<gen, resch, syncVars, workerVars, envVars>>
      /\ \E x \in {"get", "leave", "done"} : at' = [at EXCEPT ![c] = x]
  BY DEF DialPeer, CtxDone, TakeAnswer
<1>2. result' = result \/ \E r \in Results : result' = [result EXCEPT ![c] = r]
  <2>1. CASE DialPeer(c)
    <3>1. \/ result' = result
          \/ \E r \in Acceptable(c \in Forced, c \in UseTransient) \cup {ErrResponse("gated")} :
               result' = [result EXCEPT ![c] = r]
      BY <2>1 DEF DialPeer
    <3>2. \A r \in Acceptable(c \in Forced, c \in UseTransient) : r \in Results
      BY AcceptableResults
    <3> QED
      BY <3>1, <3>2 DEF Results, Errors
  <2>2. CASE CtxDone(c)
    BY <2>2 DEF CtxDone, Results, Errors
  <2>3. CASE TakeAnswer(c)
    <3>1. resch[c] # <<>> /\ resch[c] \in Seq(Results)
      BY <2>3 DEF TakeAnswer, Types
    <3>2. Head(resch[c]) \in Results
      BY <3>1
    <3> QED
      BY <2>3, <3>2 DEF TakeAnswer
  <2> QED
    BY <2>1, <2>2, <2>3
<1>3. Types'
  <2>1. result' \in [Callers -> Results \cup {NoResult}]
    BY <1>2 DEF Types, TypeOK
  <2>2. at' \in [Callers -> {"idle", "get", "send", "wait", "leave", "done"}]
    BY <1>1 DEF Types, TypeOK
  <2> QED
    BY <1>1, <2>1, <2>2 DEF Types, TypeOK, syncVars, workerVars, envVars
<1>4. \A d \in Callers : at[d] \in Holding <=> at'[d] \in Holding
  BY DEF DialPeer, CtxDone, TakeAnswer, Types, TypeOK, Holding
<1>5. \A d \in Callers : Asked(d) => Asked(d)' /\ gen'[d] = gen[d]
  BY <1>1 DEF DialPeer, CtxDone, TakeAnswer, Types, TypeOK, Asked
<1>6. Sharing'
  BY <1>1, <1>4, SharingKept DEF workerVars
<1>7. Answering'
  BY <1>1, <1>5, AnsweringKept DEF workerVars
<1>8. Dialing'
  BY <1>1 DEF Dialing, workerVars
<1> QED
  BY <1>3, <1>6, <1>7, <1>8

\* The holders after c has joined h.
LEMMA Joined ==
  ASSUME Types, NEW c \in Callers, at[c] = "get", NEW h \in Gens,
         at' = [at EXCEPT ![c] = "send"], gen' = [gen EXCEPT ![c] = h]
  PROVE  \A g \in Gens : Cardinality(Holders(g)') = Cardinality(Holders(g)) + IF g = h THEN 1 ELSE 0
<1> SUFFICES ASSUME NEW g \in Gens
             PROVE  Cardinality(Holders(g)') = Cardinality(Holders(g)) + IF g = h THEN 1 ELSE 0
  OBVIOUS
<1>1. c \notin Holders(g) /\ IsFiniteSet(Holders(g)) /\ Cardinality(Holders(g)) \in Nat
  BY HoldersFinite, FS_CardinalityType DEF Holders
<1>2. Holders(g)' = IF g = h THEN Holders(g) \cup {c} ELSE Holders(g)
  BY DEF Types, TypeOK, Holders
<1>3. CASE g = h
  BY <1>1, <1>2, <1>3, FS_AddElement
<1>4. CASE g # h
  BY <1>1, <1>2, <1>4
<1> QED
  BY <1>3, <1>4

LEMMA Joins ==
  ASSUME IInv, NEW c \in Callers, GetActiveDial(c)
  PROVE  IInv'
<1> USE DEF IInv
<1>1. /\ at[c] = "get" /\ at' = [at EXCEPT ![c] = "send"]
      /\ UNCHANGED <<resch, result, closed, requests, left, pending, nextDial, connected, job, envVars>>
  BY DEF GetActiveDial
<1>2. PICK h \in Gens : /\ gen' = [gen EXCEPT ![c] = h] /\ dials' = h
                        /\ refCnt' = [refCnt EXCEPT ![h] = @ + 1]
                        /\ \/ dials = h /\ worker' = worker
                           \/ /\ dials = NoDial /\ worker[h] = "none"
                              /\ worker' = [worker EXCEPT ![h] = "loop"]
  <2>1. CASE dials # NoDial
    BY <2>1 DEF GetActiveDial, JoinActiveDial, Types, TypeOK
  <2>2. CASE dials = NoDial
    <3>1. PICK g \in Gens : /\ worker[g] = "none" /\ gen' = [gen EXCEPT ![c] = g] /\ dials' = g
                            /\ refCnt' = [refCnt EXCEPT ![g] = 1]
                            /\ worker' = [worker EXCEPT ![g] = "loop"]
      BY <2>2 DEF GetActiveDial
    <3>2. refCnt[g] = 0
      BY <3>1 DEF Sharing, Types, TypeOK
    <3>3. refCnt[g] + 1 = 1
      BY <3>2
    <3> QED
      BY <2>2, <3>1, <3>3
  <2> QED
    BY <2>1, <2>2
<1>3. Types'
  <2>1. refCnt' \in [Gens -> Nat]
    <3>1. refCnt \in [Gens -> Nat]
      BY DEF Types, TypeOK
    <3> QED
      BY <1>2, <3>1
  <2>2. worker' \in [Gens -> {"none", "loop", "trigger", "exited"}]
    <3>1. worker \in [Gens -> {"none", "loop", "trigger", "exited"}]
      BY DEF Types, TypeOK
    <3> QED
      BY <1>2, <3>1
  <2> QED
    BY <1>1, <1>2, <2>1, <2>2 DEF Types, TypeOK, envVars
<1>4. Sharing'
  <2>1. \A g \in Gens : Cardinality(Holders(g)') = Cardinality(Holders(g)) + IF g = h THEN 1 ELSE 0
    BY <1>1, <1>2, Joined
  <2>2. \A g \in Gens : refCnt'[g] = Cardinality(Holders(g)')
    BY <1>2, <2>1 DEF Sharing, Types, TypeOK
  <2>3. \A d \in Callers : at'[d] \in Holding => gen'[d] \in Gens
    BY <1>1, <1>2 DEF Sharing, Types, TypeOK, Holding
  <2>4. \A g \in Gens \ {h} : refCnt'[g] = refCnt[g] /\ worker'[g] = worker[g] /\ refCnt[g] = 0
    <3>1. refCnt \in [Gens -> Nat] /\ worker \in [Gens -> {"none", "loop", "trigger", "exited"}]
      BY DEF Types, TypeOK
    <3>2. \A g \in Gens : g # NoDial /\ (dials = g <=> refCnt[g] > 0)
      BY DEF Sharing, NoDial, Gens
    <3>3. \A g \in Gens \ {h} : ~(refCnt[g] > 0)
      BY <1>2, <3>2
    <3> QED
      BY <1>2, <3>1, <3>3
  <2>5. refCnt'[h] > 0 /\ worker'[h] # "none" /\ ~closed[h]
    BY <1>2 DEF Sharing, Types, TypeOK
  <2>6. \A g \in Gens : /\ dials' = g <=> refCnt'[g] > 0
                        /\ refCnt'[g] > 0 => worker'[g] # "none"
    BY <1>2, <2>4, <2>5
  <2>7. \A g \in Gens : closed'[g] <=> worker'[g] # "none" /\ refCnt'[g] = 0
    BY <1>1, <2>4, <2>5 DEF Sharing
  <2> QED
    BY <2>2, <2>3, <2>6, <2>7 DEF Sharing
<1>5. Answering'
  <2>1. \A d \in Callers : Asked(d) => Asked(d)' /\ gen'[d] = gen[d]
    BY <1>1, <1>2 DEF Types, TypeOK, Asked
  <2> QED
    BY <1>1, <2>1, AnsweringKept
<1>6. Dialing'
  BY <1>1 DEF Dialing
<1> QED
  BY <1>3, <1>4, <1>5, <1>6

LEMMA Leaves ==
  ASSUME IInv, NEW c \in Callers, Leave(c)
  PROVE  IInv'
<1> USE DEF IInv
<1> DEFINE h == gen[c]
<1>1. /\ at[c] = "leave" /\ at' = [at EXCEPT ![c] = "done"] /\ h \in Gens
      /\ refCnt' = [refCnt EXCEPT ![h] = @ - 1]
      /\ UNCHANGED <<gen, resch, result, workerVars, envVars>>
      /\ \/ /\ refCnt[h] = 1 /\ closed' = [closed EXCEPT ![h] = TRUE] /\ dials' = NoDial
         \/ refCnt[h] # 1 /\ closed' = closed /\ dials' = dials
  BY DEF Leave, Sharing, Holding
<1>2. \A g \in Gens : Cardinality(Holders(g)') = Cardinality(Holders(g)) - IF g = h THEN 1 ELSE 0
  <2> SUFFICES ASSUME NEW g \in Gens
               PROVE  Cardinality(Holders(g)') = Cardinality(Holders(g)) - IF g = h THEN 1 ELSE 0
    OBVIOUS
  <2>1. IsFiniteSet(Holders(g)) /\ Cardinality(Holders(g)) \in Nat
    BY HoldersFinite, FS_CardinalityType
  <2>2. Holders(g)' = IF g = h THEN Holders(g) \ {c} ELSE Holders(g)
    BY <1>1 DEF Types, TypeOK, Holders
  <2>3. g = h => c \in Holders(g)
    BY <1>1 DEF Holders
  <2> QED
    BY <2>1, <2>2, <2>3, FS_RemoveElement
<1>3. refCnt[h] > 0
  <2>1. c \in Holders(h) /\ IsFiniteSet(Holders(h)) /\ Cardinality(Holders(h)) \in Nat
    BY <1>1, HoldersFinite, FS_CardinalityType DEF Holders
  <2>2. Cardinality(Holders(h)) # 0
    BY <2>1, FS_EmptySet
  <2> QED
    BY <1>1, <2>1, <2>2 DEF Sharing
<1>4. Types'
  <2>1. refCnt' \in [Gens -> Nat]
    <3>1. refCnt \in [Gens -> Nat]
      BY DEF Types, TypeOK
    <3> QED
      BY <1>1, <1>3, <3>1
  <2>2. closed' \in [Gens -> BOOLEAN]
    <3>1. closed \in [Gens -> BOOLEAN]
      BY DEF Types, TypeOK
    <3> QED
      BY <1>1, <3>1
  <2> QED
    BY <1>1, <2>1, <2>2 DEF Types, TypeOK, workerVars, envVars
<1>5. Sharing'
  <2>1. worker' = worker /\ gen' = gen
    BY <1>1 DEF workerVars
  <2>2. \A g \in Gens : refCnt'[g] = Cardinality(Holders(g)')
    BY <1>1, <1>2 DEF Sharing, Types, TypeOK
  <2>3. \A d \in Callers : at'[d] \in Holding => gen'[d] \in Gens
    BY <1>1, <2>1 DEF Sharing, Types, TypeOK, Holding
  <2>4. dials = h /\ worker[h] # "none" /\ ~closed[h]
    BY <1>1, <1>3 DEF Sharing
  <2>5. \A g \in Gens \ {h} : refCnt'[g] = refCnt[g] /\ refCnt[g] = 0 /\ closed'[g] = closed[g]
    BY <1>1, <2>4 DEF Sharing, Types, TypeOK
  <2>6. refCnt'[h] = refCnt[h] - 1 /\ refCnt[h] \in Nat
    BY <1>1 DEF Types, TypeOK
  <2>7. h # NoDial /\ \A g \in Gens : g # NoDial
    BY <1>1 DEF Gens, NoDial
  <2>8. \A g \in Gens : /\ dials' = g <=> refCnt'[g] > 0
                        /\ refCnt'[g] > 0 => worker'[g] # "none"
    BY <1>1, <1>3, <2>1, <2>4, <2>5, <2>6, <2>7
  <2>9. closed'[h] <=> refCnt'[h] = 0
    BY <1>1, <1>3, <2>4, <2>6 DEF Types, TypeOK
  <2>10. \A g \in Gens : closed'[g] <=> worker'[g] # "none" /\ refCnt'[g] = 0
    BY <2>1, <2>4, <2>5, <2>9 DEF Sharing
  <2> QED
    BY <2>2, <2>3, <2>8, <2>10 DEF Sharing
<1>6. Answering'
  <2>1. \A d \in Callers : Asked(d) => Asked(d)' /\ gen'[d] = gen[d]
    BY <1>1 DEF Types, TypeOK, Asked
  <2> QED
    BY <1>1, <2>1, AnsweringKept DEF workerVars
<1>7. Dialing'
  BY <1>1 DEF Dialing, workerVars
<1> QED
  BY <1>4, <1>5, <1>6, <1>7

\* The worker goes on, and no caller joins or leaves: Sharing and the types of the rest hold.
LEMMA WorkerGoesOn ==
  ASSUME IInv, gen' = gen, UNCHANGED syncVars,
         \A c \in Callers : at[c] \in Holding <=> at'[c] \in Holding,
         \/ worker' = worker
         \/ \E g \in Gens, w \in {"loop", "trigger", "exited"} :
              worker[g] # "none" /\ worker' = [worker EXCEPT ![g] = w]
  PROVE  Sharing' /\ worker' \in [Gens -> {"none", "loop", "trigger", "exited"}]
<1>1. worker \in [Gens -> {"none", "loop", "trigger", "exited"}]
  BY DEF IInv, Types, TypeOK
<1>2. \A g \in Gens : worker[g] = "none" <=> worker'[g] = "none"
  BY <1>1
<1> QED
  BY <1>1, <1>2, SharingKept DEF IInv

LEMMA Receives ==
  ASSUME IInv, NEW g \in Gens, NEW c \in Callers, ReceiveRequest(g, c)
  PROVE  IInv'
<1> USE DEF IInv
<1> DEFINE addrs == AddrsForDial(c)
           todial == {a \in addrs : pending[g][a].st = "none"}
           tojoin == {a \in addrs : pending[g][a].st = "pending"}
<1>1. /\ at[c] = "send" /\ gen[c] = g /\ at' = [at EXCEPT ![c] = "wait"]
      /\ UNCHANGED <<gen, result, syncVars, worker, connected, job, envVars>>
  BY DEF ReceiveRequest
<1>2. addrs \subseteq Addrs
  BY DEF AddrsForDial, Types, TypeOK
<1>3. /\ at \in [Callers -> {"idle", "get", "send", "wait", "leave", "done"}]
      /\ pending \in [Gens -> [Addrs -> AddrDials]] /\ nextDial \in [Gens -> SUBSET Addrs]
      /\ requests \in [Gens -> SUBSET Callers] /\ left \in [Callers -> SUBSET Addrs]
      /\ resch \in [Callers -> Seq(Results)]
  BY DEF Types, TypeOK, AddrDials
<1>4. at' \in [Callers -> {"idle", "get", "send", "wait", "leave", "done"}]
  BY <1>1, <1>3
<1>5. Sharing'
  <2>1. \A d \in Callers : at[d] \in Holding <=> at'[d] \in Holding
    BY <1>1, <1>3 DEF Holding
  <2> QED
    BY <1>1, <2>1, WorkerGoesOn
<1>6. /\ \A d \in Callers \ {c} : Asked(d)' = Asked(d)
      /\ Asked(c)' /\ ~Asked(c) /\ resch[c] = <<>> /\ \A h \in Gens : c \notin requests[h]
  BY <1>1, <1>3 DEF Asked, Answering
<1>7. CASE AnswerRequest(g, c, addrs)
  <2>1. UNCHANGED <<requests, left, pending, nextDial>>
    BY <1>7 DEF AnswerRequest
  <2>2. PICK r \in Results : resch' = Answer({c}, r)
    <3>1. \A a \in addrs : <<g, a>> \in ConnIds
      BY <1>2 DEF ConnIds
    <3>2. \A a \in addrs : ConnResponse(<<g, a>>) \in Results
      BY <3>1 DEF Results
    <3>3. ErrResponse("noAddresses") \in Results /\ ErrResponse("dialError") \in Results
      BY DEF Results, Errors
    <3>4. \A r \in Acceptable(c \in Forced, FALSE) : r \in Results
      BY AcceptableResults
    <3>5. \A S : Lowest(S) \subseteq S
      BY DEF Lowest
    <3> QED
      BY <1>7, <3>2, <3>3, <3>4, <3>5 DEF AnswerRequest
  <2>3. /\ resch' = [d \in Callers |-> resch'[d]]
        /\ resch'[c] \in Seq(Results) /\ Len(resch'[c]) = 1
        /\ \A d \in Callers \ {c} : resch'[d] = resch[d]
    <3>1. resch' = [d \in Callers |-> IF d \in {c} THEN Append(resch[d], r) ELSE resch[d]]
      BY <2>2 DEF Answer
    <3>2. Append(resch[c], r) \in Seq(Results) /\ Len(Append(resch[c], r)) = 1
      BY <1>3, <1>6, FirstAnswer
    <3> QED
      BY <3>1, <3>2
  <2>4. resch' \in [Callers -> Seq(Results)]
    BY <1>3, <2>3
  <2>5. Types'
    BY <1>1, <1>4, <2>1, <2>4 DEF Types, TypeOK, syncVars, envVars
  <2>6. Answering'
    <3>1. ASSUME NEW d \in Callers \ {c}
          PROVE  /\ Len(resch'[d]) <= 1
                 /\ ~Asked(d)' => resch'[d] = <<>>
                 /\ \A h \in Gens : d \in requests'[h] => gen'[d] = h /\ Asked(d)' /\ resch'[d] = <<>>
      BY <1>1, <1>6, <2>1, <2>3 DEF Answering
    <3>2. Len(resch'[c]) <= 1
      BY <2>3
    <3>3. \A h \in Gens : c \notin requests'[h]
      BY <1>6, <2>1
    <3> QED
      BY <1>6, <3>1, <3>2, <3>3 DEF Answering
  <2>7. Dialing'
    BY <1>1, <2>1 DEF Dialing
  <2> QED
    BY <1>5, <2>5, <2>6, <2>7
<1>8. CASE TrackRequest(g, c, addrs)
  <2>1. /\ requests' = [requests EXCEPT ![g] = @ \cup {c}]
        /\ left' = [left EXCEPT ![c] = todial \cup tojoin]
        /\ nextDial' = [nextDial EXCEPT ![g] = @ \cup todial]
        /\ resch' = resch
    BY <1>8 DEF TrackRequest
  <2> DEFINE New(a) == IF a \in todial THEN [st |-> "pending", reqs |-> {c}, forced |-> c \in Forced]
                       ELSE IF a \in tojoin THEN [pending[g][a] EXCEPT !.reqs = @ \cup {c}]
                       ELSE pending[g][a]
  <2>9. pending' = [pending EXCEPT ![g] = [a \in Addrs |-> New(a)]]
    BY <1>8 DEF TrackRequest
  <2>2. todial \subseteq Addrs /\ tojoin \subseteq Addrs
    BY <1>2
  <2>3. \A a \in Addrs : /\ [st |-> "pending", reqs |-> {c}, forced |-> c \in Forced] \in AddrDials
                         /\ [pending[g][a] EXCEPT !.reqs = @ \cup {c}] \in AddrDials
                         /\ [pending[g][a] EXCEPT !.reqs = @ \cup {c}].st = pending[g][a].st
                         /\ pending[g][a] \in AddrDials
    <3>1. \A a \in Addrs : pending[g][a] \in AddrDials
      BY <1>3
    <3>2. (c \in Forced) \in BOOLEAN
      OBVIOUS
    <3>3. [st |-> "pending", reqs |-> {c}, forced |-> c \in Forced] \in AddrDials
      BY <3>2 DEF AddrDials
    <3>4. \A d \in AddrDials : /\ [d EXCEPT !.reqs = @ \cup {c}] \in AddrDials
                               /\ [d EXCEPT !.reqs = @ \cup {c}].st = d.st
      BY DEF AddrDials
    <3> QED
      BY <3>1, <3>3, <3>4
  <2>10. \A a \in Addrs : /\ New(a) \in AddrDials
                          /\ New(a).st = IF a \in todial THEN "pending" ELSE pending[g][a].st
    BY <2>3
  <2> HIDE DEF New
  <2>11. [a \in Addrs |-> New(a)] \in [Addrs -> AddrDials]
    BY <2>10
  <2>4. pending' \in [Gens -> [Addrs -> AddrDials]]
    BY <1>3, <2>9, <2>11
  <2>5. \A h \in Gens, a \in Addrs :
          pending'[h][a].st = IF h = g /\ a \in todial THEN "pending" ELSE pending[h][a].st
    <3>1. pending'[g] = [a \in Addrs |-> New(a)] /\ \A h \in Gens \ {g} : pending'[h] = pending[h]
      BY <1>3, <2>9
    <3> QED
      BY <2>10, <3>1
  <2>6. Types'
    <3>1. /\ requests' \in [Gens -> SUBSET Callers] /\ left' \in [Callers -> SUBSET Addrs]
          /\ nextDial' \in [Gens -> SUBSET Addrs]
      BY <1>3, <2>1, <2>2
    <3> QED
      BY <1>1, <1>4, <2>1, <2>4, <3>1 DEF Types, TypeOK, AddrDials, syncVars, envVars
  <2>7. Answering'
    <3>1. \A d \in Callers, h \in Gens : d \in requests'[h] => d \in requests[h] \/ (d = c /\ h = g)
      BY <1>3, <2>1
    <3>2. ASSUME NEW d \in Callers
          PROVE  /\ Len(resch'[d]) <= 1
                 /\ ~Asked(d)' => resch'[d] = <<>>
                 /\ \A h \in Gens : d \in requests'[h] => gen'[d] = h /\ Asked(d)' /\ resch'[d] = <<>>
      <4>1. CASE d = c
        <5>1. Len(resch'[c]) <= 1
          BY <2>1 DEF Answering
        <5> QED
          BY <4>1, <5>1, <1>1, <1>6, <2>1, <3>1
      <4>2. CASE d # c
        BY <4>2, <1>1, <1>6, <2>1, <3>1 DEF Answering
      <4> QED
        BY <4>1, <4>2
    <3> QED
      BY <3>2 DEF Answering
  <2>8. Dialing'
    <3>1. \A h \in Gens, a \in Addrs :
            /\ a \in nextDial'[h] => a \in nextDial[h] \/ (h = g /\ a \in todial)
            /\ job'[h][a] = job[h][a]
      BY <1>1, <1>3, <2>1
    <3>2. \A a \in todial : pending[g][a].st = "none" /\ job[g][a] = "none"
      BY <2>2 DEF Dialing
    <3>3. "none" \notin Underway
      BY DEF Underway
    <3> QED
      BY <2>5, <3>1, <3>2, <3>3 DEF Dialing
  <2> QED
    BY <1>5, <2>6, <2>7, <2>8
<1> QED
  BY <1>7, <1>8 DEF ReceiveRequest

\* A step of a job or of the limiter.
LEMMA JobGoesOn ==
  ASSUME IInv, NEW g \in Gens, NEW a \in Addrs, JobStep(g, a)
  PROVE  IInv'
<1> USE DEF IInv
<1>1. /\ UNCHANGED <<callerVars, syncVars, worker, requests, left, pending, nextDial,
                     connected, envVars>>
      /\ job[g][a] \in Underway
      /\ \E s \in {"running", "conn", "err", "cancelled", "gone"} : job' = [job EXCEPT ![g][a] = s]
  BY DEF JobStep, JobStarts, DialReturns, ResultDropped, Underway
<1>2. job \in [Gens -> [Addrs -> {"none", "queued", "running", "conn", "err", "cancelled", "gone", "cleared"}]]
  BY DEF Types, TypeOK
<1>3. job' \in [Gens -> [Addrs -> {"none", "queued", "running", "conn", "err", "cancelled", "gone", "cleared"}]]
  BY <1>1, <1>2
<1>4. Types'
  BY <1>1, <1>3 DEF Types, TypeOK, callerVars, syncVars, envVars
<1>5. Sharing' /\ Answering'
  <2>1. UNCHANGED <<at, gen, resch, syncVars, worker, requests>>
    BY <1>1 DEF callerVars
  <2>2. \A c \in Callers : Asked(c) => Asked(c)' /\ gen'[c] = gen[c]
    BY <2>1 DEF Asked
  <2> QED
    BY <2>1, <2>2, SharingKept, AnsweringKept
<1>6. Dialing'
  <2>1. \A h \in Gens, b \in Addrs : h # g \/ b # a => job'[h][b] = job[h][b]
    BY <1>1, <1>2
  <2>2. pending[g][a].st = "pending" /\ a \notin nextDial[g]
    BY <1>1 DEF Dialing, Underway
  <2>3. pending' = pending /\ nextDial' = nextDial
    BY <1>1
  <2> QED
    BY <2>1, <2>2, <2>3 DEF Dialing
<1> QED
  BY <1>4, <1>5, <1>6

JobStates == {"none", "queued", "running", "conn", "err", "cancelled", "gone", "cleared"}

\* Starting a dial takes the address from the schedule.
LEMMA Dials ==
  ASSUME IInv, NEW g \in Gens, NEW a \in Addrs, DialNextAddr(g, a)
  PROVE  IInv'
<1> USE DEF IInv
<1>1. /\ nextDial' = [nextDial EXCEPT ![g] = @ \ {a}] /\ a \in nextDial[g] /\ worker[g] # "none"
      /\ \E w \in {"loop", "trigger"} : worker' = [worker EXCEPT ![g] = w]
      /\ UNCHANGED <<at, gen, result, syncVars, connected, envVars>>
  BY DEF DialNextAddr, Lowest
<1>2. nextDial \in [Gens -> SUBSET Addrs] /\ job \in [Gens -> [Addrs -> JobStates]]
  BY DEF Types, TypeOK, JobStates
<1>3. /\ nextDial' \in [Gens -> SUBSET Addrs] /\ a \notin nextDial'[g]
      /\ \A h \in Gens : nextDial'[h] \subseteq nextDial[h]
  BY <1>1, <1>2
<1>4. Sharing' /\ worker' \in [Gens -> {"none", "loop", "trigger", "exited"}]
  BY <1>1, WorkerGoesOn
<1>5. pending[g][a].st = "pending" /\ job[g][a] = "none"
  BY <1>1 DEF Dialing
<1>6. CASE DispatchError(g, a, "backoff") /\ UNCHANGED job
  <2>1. /\ Answering' /\ resch' \in [Callers -> Seq(Results)]
        /\ requests' \in [Gens -> SUBSET Callers] /\ left' \in [Callers -> SUBSET Addrs]
        /\ pending' \in [Gens -> [Addrs -> AddrDials]]
        /\ \A h \in Gens, b \in Addrs : h # g \/ b # a => pending'[h][b] = pending[h][b]
        /\ pending'[g][a].st = "none"
    BY <1>1, <1>6, DispatchErrorKeeps
  <2>2. Types'
    BY <1>1, <1>3, <1>4, <1>6, <2>1 DEF Types, TypeOK, AddrDials, syncVars, envVars
  <2>3. Dialing'
    <3>1. ASSUME NEW h \in Gens, NEW b \in Addrs
          PROVE  /\ b \in nextDial'[h] => pending'[h][b].st = "pending" /\ job'[h][b] = "none"
                 /\ job'[h][b] \in Underway => pending'[h][b].st = "pending"
                 /\ pending'[h][b].st = "none" => job'[h][b] = "none"
      <4>1. CASE h = g /\ b = a
        BY <4>1, <1>3, <1>5, <1>6 DEF Underway
      <4>2. CASE h # g \/ b # a
        BY <4>2, <1>3, <1>6, <2>1 DEF Dialing
      <4> QED
        BY <4>1, <4>2
    <3> QED
      BY <3>1 DEF Dialing
  <2> QED
    BY <1>4, <2>1, <2>2, <2>3
<1>7. CASE /\ \E s \in {"running", "queued"} : job' = [job EXCEPT ![g][a] = s]
           /\ UNCHANGED <<requests, left, pending, resch>>
  <2>1. /\ job' \in [Gens -> [Addrs -> JobStates]]
        /\ \A h \in Gens, b \in Addrs : h # g \/ b # a => job'[h][b] = job[h][b]
    BY <1>2, <1>7 DEF JobStates
  <2>2. Types'
    BY <1>1, <1>3, <1>4, <1>7, <2>1 DEF Types, TypeOK, JobStates, syncVars, envVars
  <2>3. Answering'
    <3>1. \A c \in Callers : Asked(c) => Asked(c)' /\ gen'[c] = gen[c]
      BY <1>1 DEF Asked
    <3> QED
      BY <1>7, <3>1, AnsweringKept
  <2>4. Dialing'
    <3>1. ASSUME NEW h \in Gens, NEW b \in Addrs
          PROVE  /\ b \in nextDial'[h] => pending'[h][b].st = "pending" /\ job'[h][b] = "none"
                 /\ job'[h][b] \in Underway => pending'[h][b].st = "pending"
                 /\ pending'[h][b].st = "none" => job'[h][b] = "none"
      <4>1. CASE h = g /\ b = a
        BY <4>1, <1>3, <1>5, <1>7
      <4>2. CASE h # g \/ b # a
        BY <4>2, <1>3, <1>7, <2>1 DEF Dialing
      <4> QED
        BY <4>1, <4>2
    <3> QED
      BY <3>1 DEF Dialing
  <2> QED
    BY <1>4, <2>2, <2>3, <2>4
<1> QED
  BY <1>6, <1>7 DEF DialNextAddr

\* The worker takes a result: the job is over, and so is the addrDial.
LEMMA DialingOver ==
  ASSUME IInv, NEW g \in Gens, NEW a \in Addrs, NEW s \in {"conn", "err"},
         job[g][a] \in Underway, job' = [job EXCEPT ![g][a] = "gone"], nextDial' = nextDial,
         \A h \in Gens, b \in Addrs : h # g \/ b # a => pending'[h][b] = pending[h][b],
         pending'[g][a].st = s
  PROVE  Dialing' /\ job' \in [Gens -> [Addrs -> JobStates]]
<1> USE DEF IInv
<1>1. job \in [Gens -> [Addrs -> JobStates]]
  BY DEF Types, TypeOK, JobStates
<1>2. /\ job' \in [Gens -> [Addrs -> JobStates]] /\ job'[g][a] = "gone"
      /\ \A h \in Gens, b \in Addrs : h # g \/ b # a => job'[h][b] = job[h][b]
  BY <1>1 DEF JobStates
<1>3. a \notin nextDial[g]
  BY DEF Dialing, Underway
<1>4. ASSUME NEW h \in Gens, NEW b \in Addrs
      PROVE  /\ b \in nextDial'[h] => pending'[h][b].st = "pending" /\ job'[h][b] = "none"
             /\ job'[h][b] \in Underway => pending'[h][b].st = "pending"
             /\ pending'[h][b].st = "none" => job'[h][b] = "none"
  <2>1. CASE h = g /\ b = a
    BY <2>1, <1>2, <1>3 DEF Underway
  <2>2. CASE h # g \/ b # a
    BY <2>2, <1>2 DEF Dialing
  <2> QED
    BY <2>1, <2>2
<1> QED
  BY <1>2, <1>4 DEF Dialing

LEMMA Fails ==
  ASSUME IInv, NEW g \in Gens, NEW a \in Addrs, DispatchError(g, a, "err"),
         job[g][a] \in Underway, job' = [job EXCEPT ![g][a] = "gone"],
         backf' \subseteq Addrs, connected' \in [Gens -> BOOLEAN],
         UNCHANGED <<at, gen, result, syncVars, worker, nextDial, conns, known>>
  PROVE  IInv'
<1> USE DEF IInv
<1>1. /\ Answering' /\ resch' \in [Callers -> Seq(Results)]
      /\ requests' \in [Gens -> SUBSET Callers] /\ left' \in [Callers -> SUBSET Addrs]
      /\ pending' \in [Gens -> [Addrs -> AddrDials]]
      /\ \A h \in Gens, b \in Addrs : h # g \/ b # a => pending'[h][b] = pending[h][b]
      /\ pending'[g][a].st = "err"
  BY DispatchErrorKeeps
<1>2. Dialing' /\ job' \in [Gens -> [Addrs -> JobStates]]
  BY <1>1, DialingOver
<1>3. Sharing'
  BY WorkerGoesOn
<1>4. Types'
  BY <1>1, <1>2 DEF Types, TypeOK, AddrDials, JobStates, syncVars
<1> QED
  BY <1>1, <1>2, <1>3, <1>4

LEMMA ReceivesError ==
  ASSUME IInv, NEW g \in Gens, NEW a \in Addrs, ReceiveError(g, a)
  PROVE  IInv'
<1>1. /\ DispatchError(g, a, "err") /\ job[g][a] \in Underway /\ job' = [job EXCEPT ![g][a] = "gone"]
      /\ UNCHANGED <<at, gen, result, syncVars, worker, nextDial, connected, conns, known>>
      /\ backf' \subseteq backf \cup {a}
  BY DEF ReceiveError, Underway
<1>2. backf' \subseteq Addrs /\ connected' \in [Gens -> BOOLEAN]
  BY <1>1 DEF IInv, Types, TypeOK
<1> QED
  BY <1>1, <1>2, Fails

LEMMA ReceivesConn ==
  ASSUME IInv, NEW g \in Gens, NEW a \in Addrs, ReceiveConn(g, a)
  PROVE  IInv'
<1> USE DEF IInv
<1>1. /\ job[g][a] \in Underway /\ job' = [job EXCEPT ![g][a] = "gone"]
      /\ connected' = [connected EXCEPT ![g] = TRUE]
      /\ UNCHANGED <<at, gen, result, syncVars, worker, nextDial, known>>
  BY DEF ReceiveConn, Underway
<1>2. connected' \in [Gens -> BOOLEAN]
  <2>1. connected \in [Gens -> BOOLEAN]
    BY DEF Types, TypeOK
  <2> QED
    BY <1>1, <2>1
<1>3. CASE /\ backf' \in {backf, {}} /\ DispatchError(g, a, "err") /\ UNCHANGED conns
  <2>1. backf' \subseteq Addrs
    BY <1>3 DEF Types, TypeOK
  <2> QED
    BY <1>1, <1>2, <1>3, <2>1, Fails
<1>4. CASE /\ conns' = conns \cup {<<g, a>>} /\ backf' = {} /\ DispatchConn(g, a) /\ UNCHANGED left
  <2> DEFINE hit == pending[g][a].reqs \cap requests[g]
  <2>1. /\ requests \in [Gens -> SUBSET Callers] /\ pending \in [Gens -> [Addrs -> AddrDials]]
        /\ resch \in [Callers -> Seq(Results)]
    BY DEF Types, TypeOK, AddrDials
  <2>2. /\ resch' = Answer(hit, ConnResponse(<<g, a>>))
        /\ requests' = [requests EXCEPT ![g] = @ \ hit]
        /\ pending' = [pending EXCEPT ![g][a] = [pending[g][a] EXCEPT !.st = "conn", !.reqs = {}]]
    BY <1>4 DEF DispatchConn
  <2>3. <<g, a>> \in ConnIds /\ ConnResponse(<<g, a>>) \in Results
    BY DEF ConnIds, Results
  <2>4. hit \in SUBSET requests[g] /\ hit \subseteq Callers
    BY <2>1
  <2>5. /\ resch' = [c \in Callers |-> resch'[c]]
        /\ \A c \in hit : \E r \in Results : resch'[c] = Append(resch[c], r)
        /\ \A c \in Callers \ hit : resch'[c] = resch[c]
    <3> HIDE DEF hit
    <3> QED
      BY <2>2, <2>3, <2>4 DEF Answer
  <2>6. Answering' /\ resch' \in [Callers -> Seq(Results)]
    <3> HIDE DEF hit
    <3> QED
      BY <1>1, <2>2, <2>4, <2>5, Answered
  <2>7. [pending[g][a] EXCEPT !.st = "conn", !.reqs = {}] \in AddrDials
    <3>1. pending[g][a] \in AddrDials
      BY <2>1
    <3> QED
      BY <3>1 DEF AddrDials
  <2>8. [pending[g][a] EXCEPT !.st = "conn", !.reqs = {}].st = "conn"
    <3>1. pending[g][a] \in AddrDials
      BY <2>1
    <3> QED
      BY <3>1 DEF AddrDials
  <2>9. /\ pending' \in [Gens -> [Addrs -> AddrDials]]
        /\ \A h \in Gens, b \in Addrs : h # g \/ b # a => pending'[h][b] = pending[h][b]
        /\ pending'[g][a].st = "conn"
    BY <2>1, <2>2, <2>7, <2>8
  <2>10. Dialing' /\ job' \in [Gens -> [Addrs -> JobStates]]
    BY <1>1, <2>9, DialingOver
  <2>11. Sharing'
    BY <1>1, WorkerGoesOn
  <2>12. requests' \in [Gens -> SUBSET Callers] /\ conns' \subseteq ConnIds
    BY <1>4, <2>1, <2>2, <2>3 DEF Types, TypeOK
  <2>13. Types'
    BY <1>1, <1>2, <1>4, <2>6, <2>9, <2>10, <2>12 DEF Types, TypeOK, AddrDials, JobStates, syncVars
  <2> QED
    BY <2>6, <2>10, <2>11, <2>13
<1> QED
  BY <1>3, <1>4 DEF ReceiveConn

LEMMA Exits ==
  ASSUME IInv, NEW g \in Gens, WorkerExits(g)
  PROVE  IInv'
<1> USE DEF IInv
<1>1. /\ worker[g] # "none" /\ worker' = [worker EXCEPT ![g] = "exited"]
      /\ job' = [h \in Gens |-> [a \in Addrs |-> IF job[h][a] = "queued" THEN "cleared" ELSE job[h][a]]]
      /\ UNCHANGED <<callerVars, syncVars, requests, left, pending, nextDial, connected, envVars>>
  BY DEF WorkerExits
<1>2. job \in [Gens -> [Addrs -> JobStates]]
  BY DEF Types, TypeOK, JobStates
<1>3. /\ job' \in [Gens -> [Addrs -> JobStates]]
      /\ \A h \in Gens, a \in Addrs : job'[h][a] = IF job[h][a] = "queued" THEN "cleared" ELSE job[h][a]
  BY <1>1, <1>2 DEF JobStates
<1>4. Sharing' /\ worker' \in [Gens -> {"none", "loop", "trigger", "exited"}]
  BY <1>1, WorkerGoesOn DEF callerVars
<1>5. Types'
  BY <1>1, <1>3, <1>4 DEF Types, TypeOK, JobStates, callerVars, syncVars, envVars
<1>6. Answering'
  <2>1. \A c \in Callers : Asked(c) => Asked(c)' /\ gen'[c] = gen[c]
    BY <1>1 DEF Asked, callerVars
  <2> QED
    BY <1>1, <2>1, AnsweringKept DEF callerVars
<1>7. Dialing'
  BY <1>1, <1>3 DEF Dialing, Underway
<1> QED
  BY <1>4, <1>5, <1>6, <1>7

\* The rest of the swarm touches neither callers nor workers.
LEMMA EnvironmentSteps ==
  ASSUME IInv, Environment \/ UNCHANGED vars
  PROVE  IInv'
<1> USE DEF IInv
<1>1. UNCHANGED <<callerVars, syncVars, workerVars>>
  BY DEF Environment, InboundConn, BackoffExpires, LearnAddr, CloseConn, vars
<1>2. conns' \subseteq ConnIds /\ backf' \subseteq Addrs /\ known' \subseteq Addrs
  <2>1. conns \subseteq ConnIds /\ backf \subseteq Addrs /\ known \subseteq Addrs
    BY DEF Types, TypeOK
  <2>2. \A a \in Addrs : <<NoDial, a>> \in ConnIds
    BY DEF ConnIds
  <2>3. InboundAddrs \subseteq Addrs
    BY AddrAssumption
  <2> QED
    BY <2>1, <2>2, <2>3 DEF Environment, InboundConn, BackoffExpires, LearnAddr, CloseConn, vars, envVars
<1>3. Types'
  BY <1>1, <1>2 DEF Types, TypeOK, callerVars, syncVars, workerVars
<1>4. Sharing'
  BY <1>1, WorkerGoesOn DEF callerVars, workerVars
<1>5. Answering'
  <2>1. \A c \in Callers : Asked(c) => Asked(c)' /\ gen'[c] = gen[c]
    BY <1>1 DEF Asked, callerVars
  <2> QED
    BY <1>1, <2>1, AnsweringKept DEF callerVars, workerVars
<1>6. Dialing'
  BY <1>1 DEF Dialing, workerVars
<1> QED
  BY <1>3, <1>4, <1>5, <1>6

LEMMA IInvStep == IInv /\ [Next]_vars => IInv'
<1> SUFFICES ASSUME IInv, [Next]_vars PROVE IInv'
  OBVIOUS
<1>1. CASE Environment \/ UNCHANGED vars
  BY <1>1, EnvironmentSteps
<1>2. ASSUME NEW c \in Callers, DialPeer(c) \/ CtxDone(c) \/ CallerStep(c)
      PROVE  IInv'
  BY <1>2, CallerWaits, Joins, Leaves DEF CallerStep
<1>3. ASSUME NEW g \in Gens, WorkerStep(g)
      PROVE  IInv'
  BY <1>3, Receives, Dials, ReceivesConn, ReceivesError, Exits DEF WorkerStep
<1>4. ASSUME NEW g \in Gens, NEW a \in Addrs, JobStep(g, a)
      PROVE  IInv'
  BY <1>4, JobGoesOn
<1> QED
  BY <1>1, <1>2, <1>3, <1>4 DEF Next

----------------------------------------------------------------------------
\* The states of callers, activeDials, workers and jobs are what they should be; in
\* particular refCnt never drops below zero (dial_sync.go: Dial).
THEOREM TypeCorrect == Spec => []TypeOK
<1>1. IInv => TypeOK
  BY DEF IInv, Types
<1> QED
  BY <1>1, IInvInit, IInvStep, PTL DEF Spec

LEMMA SharedInv == IInv => DialsShared
<1> SUFFICES ASSUME IInv PROVE DialsShared
  OBVIOUS
<1>1. OneActiveDial
  BY DEF IInv, Sharing, OneActiveDial
<1>2. AnswerOnce
  BY DEF IInv, Answering, AnswerOnce
<1>3. NoMissingAddrDial
  <2>1. \A g \in Gens : nextDial[g] \subseteq Addrs
    BY DEF IInv, Types, TypeOK
  <2>2. \A g \in Gens : \A a \in InFlight(g) : a \in Addrs /\ (a \in nextDial[g] \/ job[g][a] \in Underway)
    BY <2>1 DEF InFlight, Underway
  <2> QED
    BY <2>2 DEF IInv, Types, Dialing, NoMissingAddrDial
<1> QED
  BY <1>1, <1>2, <1>3 DEF DialsShared

\* Callers share a dial soundly (dial_sync.go: getActiveDial, Dial, close; dial_worker.go: loop,
\* dispatchError): a peer has one active dial at a time, refCnt counts its callers and nobody
\* sends on the channel of one that is closed; a request is answered at most once; and the worker
\* has the unfinished addrDial of every address it schedules or hears of.
THEOREM SharedSoundly == Spec => []DialsShared
  BY SharedInv, IInvInit, IInvStep, PTL DEF Spec
============================================================================
