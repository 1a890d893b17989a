----------------------- MODULE ResourceManagerProofs -----------------------
(***************************************************************************)
(* The limits of every scope hold, for any peers, protocols, services,     *)
(* connections, streams, spans, limits and priorities.  Types are needed   *)
(* first: which scope a step visits follows from the peer, protocol and    *)
(* service that the calls have recorded, so the invariant says which of    *)
(* these are known during a call.                                          *)
(*                                                                         *)
(* The references of the shared scopes are right, too.  The invariant for  *)
(* that says which edges a connection or stream has, how far its call has  *)
(* come, and that the count of a peer's or protocol's scope is the number  *)
(* of connections and streams that refer to it at this very step.          *)
(***************************************************************************)
EXTENDS ResourceManager, FiniteSetTheorems, SequenceTheorems, TLAPS

\* What a call knows of its connection or stream.
Known(a, op) ==
  /\ a.proto # None => a.peer \in Peers
  /\ a.svc # None => a.proto # None
  /\ op \in {"setPeer", "transfer"} => a.peer \in Peers /\ a.proto = None
  /\ op = "setProtocol" => a.proto \in Protos /\ a.peer \in Peers /\ a.svc = None
  /\ op = "setService" => a.svc \in Svcs /\ a.proto \in Protos /\ a.peer \in Peers

KnownInv == \A l \in Leaves : Known(attr[l], call[l].op)

IInv == TypeOK /\ WithinLimits /\ KnownInv

----------------------------------------------------------------------------
(* Amounts and limits.                                                     *)

\* A priority never raises the limit.
LEMMA Threshold ==
  ASSUME NEW lim \in Nat, NEW prio \in 0..255
  PROVE  (lim * (1 + prio)) \div 256 \in Nat /\ (lim * (1 + prio)) \div 256 <= lim
<1>1. lim * (255 - prio) \in Nat /\ lim * (1 + prio) \in Nat
  OBVIOUS
<1>2. lim * 256 = lim * (1 + prio) + lim * (255 - prio)
  OBVIOUS
<1> DEFINE x == lim * (1 + prio)
<1>3. x \in Nat /\ x <= 256 * lim
  BY <1>1, <1>2
<1> HIDE DEF x
<1>4. x \div 256 \in Nat /\ x \div 256 <= lim
  BY <1>3
<1>5. QED
  BY <1>4 DEF x

\* The kinds of resources are distinct members of Res.
LEMMA Additions ==
  ASSUME NEW u \in Amounts, NEW amt \in Amounts
  PROVE  Plus(u, amt) \in Amounts /\ Minus(u, amt) \in Amounts
  BY DEF Amounts, Plus, Minus, Less

\* What checkMemory, addStreams and addConns let pass is within the limits.
LEMMA FitsWithin ==
  ASSUME NEW lim \in [Res \cup {"streams", "conns"} -> Nat], NEW u \in Amounts,
         NEW amt \in Amounts, NEW prio \in 0..255,
         Within(lim, u), Fits(lim, u, amt, prio)
  PROVE  Within(lim, Plus(u, amt))
<1> DEFINE w == Plus(u, amt)
<1>1. w \in Amounts
  BY Additions
<1>2. lim["memory"] \in Nat /\ "memory" \in Res
  BY DEF Res
<1>3. w["memory"] <= lim["memory"]
  <2>1. w["memory"] <= (lim["memory"] * (1 + prio)) \div 256
    BY DEF Fits, FitsMemory
  <2>2. w["memory"] \in Nat
    BY <1>1, <1>2 DEF Amounts
  <2>3. QED
    BY <2>1, <2>2, <1>2, Threshold
<1>4. ASSUME NEW r \in Res
      PROVE  w[r] <= lim[r]
  <2>1. CASE r = "memory"
    BY <2>1, <1>3
  <2>2. CASE r # "memory" /\ amt[r] > 0
    BY <2>2 DEF Fits, FitsStreams, FitsConns, Res
  <2>3. CASE ~(amt[r] > 0)
    <3>1. amt[r] = 0 /\ u[r] \in Nat
      BY <2>3 DEF Amounts
    <3>2. w[r] = u[r]
      BY <3>1 DEF Plus
    <3>3. QED
      BY <3>2 DEF Within
  <2>4. QED
    BY <2>1, <2>2, <2>3
<1>5. /\ w["streamsIn"] + w["streamsOut"] <= lim["streams"]
      /\ w["connsIn"] + w["connsOut"] <= lim["conns"]
  BY DEF Fits, FitsStreams, FitsConns
<1>6. QED
  BY <1>4, <1>5 DEF Within

\* A release keeps within the limits.
LEMMA MinusWithin ==
  ASSUME NEW lim \in [Res \cup {"streams", "conns"} -> Nat], NEW u \in Amounts,
         NEW amt \in Amounts, Within(lim, u)
  PROVE  Within(lim, Minus(u, amt))
<1> DEFINE w == Minus(u, amt)
<1>1. w \in Amounts
  BY Additions
<1>2. ASSUME NEW r \in Res
      PROVE  w[r] \in Nat /\ w[r] <= u[r] /\ u[r] \in Nat /\ lim[r] \in Nat /\ u[r] <= lim[r]
  BY <1>1 DEF Amounts, Minus, Less, Within
<1>3. /\ "streamsIn" \in Res /\ "streamsOut" \in Res /\ "connsIn" \in Res /\ "connsOut" \in Res
      /\ lim["streams"] \in Nat /\ lim["conns"] \in Nat
  BY DEF Res
<1>4. \A r \in Res : w[r] <= lim[r]
  BY <1>2
<1>5. w["streamsIn"] + w["streamsOut"] <= lim["streams"]
  <2>1. u["streamsIn"] + u["streamsOut"] <= lim["streams"]
    BY DEF Within
  <2>2. QED
    BY <2>1, <1>2, <1>3
<1>6. w["connsIn"] + w["connsOut"] <= lim["conns"]
  <2>1. u["connsIn"] + u["connsOut"] <= lim["conns"]
    BY DEF Within
  <2>2. QED
    BY <2>1, <1>2, <1>3
<1>7. QED
  BY <1>4, <1>5, <1>6 DEF Within

\* No resources are within any limits.
LEMMA NothingWithin ==
  ASSUME NEW lim \in [Res \cup {"streams", "conns"} -> Nat]
  PROVE  Nothing \in Amounts /\ Within(lim, Nothing)
<1>1. /\ "streamsIn" \in Res /\ "streamsOut" \in Res /\ "connsIn" \in Res /\ "connsOut" \in Res
      /\ lim["streams"] \in Nat /\ lim["conns"] \in Nat /\ \A r \in Res : lim[r] \in Nat
  BY DEF Res
<1>2. QED
  BY <1>1 DEF Nothing, Amounts, Within

\* Every scope has limits.
LEMMA ScopeLimits ==
  ASSUME NEW sc \in Scopes
  PROVE  LimitOf(sc) \in [Res \cup {"streams", "conns"} -> Nat]
<1>1. sc[1] \in Kinds
  BY DEF Scopes, Permanent, Collectable, PerPeer, System, Transient, AllowlistedSystem,
         AllowlistedTransient, PeerScope, ProtoScope, SvcScope, ProtoPeer, SvcPeer, Kinds
<1>2. QED
  BY <1>1, ResourceAssumption DEF LimitOf

\* The amounts that calls ask for.
LEMMA AmountTypes ==
  /\ Nothing \in Amounts
  /\ \A n \in Nat : Memory(n) \in Amounts
  /\ \A dir \in {"in", "out"} : OneStream(dir) \in Amounts
  /\ \A dir \in {"in", "out"}, fd \in BOOLEAN : OneConn(dir, fd) \in Amounts
<1>1. Nothing \in [Res -> Nat] /\ Nothing \in Amounts
  BY DEF Nothing, Amounts
<1>2. QED
  BY <1>1 DEF Amounts, Memory, OneStream, OneConn, Res

----------------------------------------------------------------------------
(* Steps and references.                                                   *)

\* The scopes that calls name are scopes.
LEMMA ScopeNames ==
  /\ System \in Scopes /\ Transient \in Scopes
  /\ AllowlistedSystem \in Scopes /\ AllowlistedTransient \in Scopes
  /\ \A p \in Peers : PeerScope(p) \in Scopes
  /\ \A r \in Protos : ProtoScope(r) \in Scopes
  /\ \A v \in Svcs : SvcScope(v) \in Scopes
  /\ \A r \in Protos, p \in Peers : ProtoPeer(r, p) \in Scopes
  /\ \A v \in Svcs, p \in Peers : SvcPeer(v, p) \in Scopes
  BY DEF Scopes, Permanent, Collectable, PerPeer

\* A list of scopes gives a list of steps.
LEMMA DoSteps ==
  ASSUME NEW scs \in Seq(Scopes),
         NEW what \in {"reserve", "release", "attach", "detach"}
  PROVE  Do(what, scs) \in Seq(Steps)
<1>1. DOMAIN scs = 1..Len(scs) /\ Len(scs) \in Nat
  OBVIOUS
<1>2. Do(what, scs) \in [1..Len(scs) -> Steps]
  BY <1>1 DEF Do, Steps
<1>3. QED
  BY <1>1, <1>2, SeqDef

\* References are counted in integers.
LEMMA RefsType ==
  ASSUME TypeOK, NEW scs, IsFiniteSet(scs)
  PROVE  Refs(scs) \in [Scopes -> Int]
<1>1. Created(scs) \subseteq scs
  BY DEF Created
<1>2. Cardinality(Created(scs)) \in Nat
  BY <1>1, FS_Subset, FS_CardinalityType
<1>3. \A sc \in Scopes : refCnt[sc] \in Int
  BY DEF TypeOK
<1>4. QED
  BY <1>2, <1>3 DEF Refs

\* The first step of a call visits a scope.
LEMMA HeadType ==
  ASSUME TypeOK, NEW l \in Leaves, todo[l] # <<>>
  PROVE  /\ Head1(l) \in Steps /\ Head1(l).sc \in Scopes
         /\ Tail(todo[l]) \in Seq(Steps)
<1>1. todo[l] \in Seq(Steps)
  BY DEF TypeOK
<1>2. Head(todo[l]) \in Steps /\ Tail(todo[l]) \in Seq(Steps)
  BY <1>1
<1>3. QED
  BY <1>2 DEF Head1, Steps

\* The call of a connection or stream has an amount and a priority.
LEMMA CallType ==
  ASSUME TypeOK, NEW l \in Leaves
  PROVE  call[l] \in Calls /\ call[l].amt \in Amounts /\ call[l].prio \in 0..255
<1>1. call[l] \in Calls
  BY DEF TypeOK
<1>2. QED
  BY <1>1 DEF Calls

\* The priority and the span of calls that are not about memory.
LEMMA Defaults == 255 \in 0..255 /\ None \in Spans \cup {None}
  OBVIOUS

\* Starting a call.
LEMMA BeginType ==
  ASSUME TypeOK, NEW l \in Leaves,
         NEW op \in {"open", "abort", "close", "reserveMemory", "releaseMemory", "transfer"}
                      \cup Sets,
         NEW steps \in Seq(Steps), NEW amt \in Amounts, NEW prio \in 0..255,
         NEW via \in Spans \cup {None}, Begin(l, op, steps, amt, prio, via)
  PROVE  /\ call' \in [Leaves -> Calls] /\ call'[l].op = op
         /\ \A k \in Leaves : k # l => call'[k] = call[k]
         /\ todo' \in [Leaves -> Seq(Steps)] /\ undo' \in [Leaves -> Seq(Steps)]
         /\ stale' \in [Leaves -> SUBSET Scopes]
<1> DEFINE c == [op |-> op, amt |-> amt, prio |-> prio, ok |-> TRUE, via |-> via]
<1>1. c \in Calls /\ c.op = op
  BY DEF Calls
<1>2. call \in [Leaves -> Calls] /\ call' = [call EXCEPT ![l] = c]
  BY DEF TypeOK, Begin
<1> HIDE DEF c
<1>3. call' \in [Leaves -> Calls] /\ call'[l].op = op
      /\ \A k \in Leaves : k # l => call'[k] = call[k]
  BY <1>1, <1>2
<1>4. todo \in [Leaves -> Seq(Steps)] /\ todo' = [todo EXCEPT ![l] = steps]
  BY DEF TypeOK, Begin
<1>5. undo \in [Leaves -> Seq(Steps)] /\ undo' = [undo EXCEPT ![l] = <<>>]
      /\ <<>> \in Seq(Steps)
  BY DEF TypeOK, Begin
<1>6. stale' = stale /\ stale \in [Leaves -> SUBSET Scopes]
  BY DEF TypeOK, Begin
<1>7. todo' \in [Leaves -> Seq(Steps)]
  BY <1>4
<1>8. undo' \in [Leaves -> Seq(Steps)]
  BY <1>5
<1>9. QED
  BY <1>3, <1>6, <1>7, <1>8

\* Ending a call.
LEMMA EndType ==
  ASSUME TypeOK, NEW l \in Leaves, End(l)
  PROVE  /\ call' \in [Leaves -> Calls] /\ call'[l].op = "none"
         /\ \A k \in Leaves : k # l => call'[k] = call[k]
         /\ todo' \in [Leaves -> Seq(Steps)] /\ undo' \in [Leaves -> Seq(Steps)]
         /\ stale' \in [Leaves -> SUBSET Scopes]
<1>1. NoCall \in Calls /\ NoCall.op = "none"
  BY AmountTypes DEF NoCall, Calls
<1>2. call \in [Leaves -> Calls] /\ call' = [call EXCEPT ![l] = NoCall]
  BY DEF TypeOK, End
<1>3. call' \in [Leaves -> Calls] /\ call'[l].op = "none"
      /\ \A k \in Leaves : k # l => call'[k] = call[k]
  BY <1>1, <1>2
<1>4. /\ todo' = todo /\ undo' = undo /\ stale' = stale
      /\ todo \in [Leaves -> Seq(Steps)] /\ undo \in [Leaves -> Seq(Steps)]
      /\ stale \in [Leaves -> SUBSET Scopes]
  BY DEF TypeOK, End
<1>5. QED
  BY <1>3, <1>4

\* What the other connections and streams know is not touched.
LEMMA KnownStep ==
  ASSUME KnownInv, NEW l \in Leaves,
         \A k \in Leaves : k # l => call'[k] = call[k] /\ attr'[k] = attr[k],
         Known(attr'[l], call'[l].op)
  PROVE  KnownInv'
<1>1. ASSUME NEW k \in Leaves
      PROVE  Known(attr'[k], call'[k].op)
  <2>1. CASE k = l
    BY <2>1
  <2>2. CASE k # l
    <3>1. Known(attr[k], call[k].op) /\ call'[k] = call[k] /\ attr'[k] = attr[k]
      BY <2>2 DEF KnownInv
    <3>2. QED
      BY <3>1 DEF Known
  <2>3. QED
    BY <2>1, <2>2
<1>2. QED
  BY <1>1 DEF KnownInv, Known

\* What is known of a scope outside a call is known in a call that sets nothing.
LEMMA KnownOps ==
  ASSUME NEW a, NEW op, NEW op2, Known(a, op), op2 \notin Sets \cup {"transfer"}
  PROVE  Known(a, op2)
  BY DEF Known, Sets

----------------------------------------------------------------------------
(* The steps inside a call.                                                *)

\* A shared scope is charged.
LEMMA ChargeInv ==
  ASSUME IInv, NEW l \in Leaves, Charge(l)
  PROVE  IInv'
<1> USE DEF IInv
<1> DEFINE sc == Head1(l).sc
           new == IF Head1(l).do = "attach" THEN {sc} ELSE {}
<1>1. todo[l] # <<>> /\ Granted(l)
  BY DEF Charge
<1>2. /\ sc \in Scopes /\ Head1(l) \in Steps /\ Tail(todo[l]) \in Seq(Steps)
      /\ call[l].amt \in Amounts /\ call[l].prio \in 0..255
  BY <1>1, HeadType, CallType
<1>3. usage \in [Scopes -> Amounts] /\ usage[sc] \in Amounts
  BY <1>2 DEF TypeOK
<1>4. LimitOf(sc) \in [Res \cup {"streams", "conns"} -> Nat] /\ Within(LimitOf(sc), usage[sc])
      /\ Fits(LimitOf(sc), usage[sc], call[l].amt, call[l].prio)
  BY <1>1, <1>2, ScopeLimits DEF WithinLimits, Granted
<1>5. Plus(usage[sc], call[l].amt) \in Amounts
      /\ Within(LimitOf(sc), Plus(usage[sc], call[l].amt))
  BY <1>2, <1>3, <1>4, Additions, FitsWithin
<1>6. usage' = [usage EXCEPT ![sc] = Plus(usage[sc], call[l].amt)]
  BY DEF Charge
<1>7. /\ refCnt' = Refs(new) /\ present' = present \cup new
      /\ stale' = [stale EXCEPT ![l] = stale[l] \ new]
      /\ undo' = [undo EXCEPT ![l] = Append(undo[l], Inverse1(Head1(l)))]
      /\ todo' = [todo EXCEPT ![l] = Tail(todo[l])]
      /\ st' = st /\ own' = own /\ edges' = edges /\ attr' = attr /\ call' = call /\ span' = span
  BY DEF Charge, leaf
<1>8. usage' \in [Scopes -> Amounts] /\ WithinLimits'
  <2>1. usage' \in [Scopes -> Amounts]
    BY <1>3, <1>5, <1>6
  <2>2. ASSUME NEW x \in Scopes
        PROVE  Within(LimitOf(x), usage'[x])
    <3>1. CASE x = sc
      BY <3>1, <1>3, <1>5, <1>6
    <3>2. CASE x # sc
      BY <3>2, <1>3, <1>6 DEF WithinLimits
    <3>3. QED
      BY <3>1, <3>2
  <2>3. QED
    BY <2>1, <2>2 DEF WithinLimits, Within, LimitOf
<1>9. IsFiniteSet(new) /\ new \subseteq Scopes
  BY <1>2, FS_EmptySet, FS_Singleton
<1>10. refCnt' \in [Scopes -> Int] /\ present' \in SUBSET Scopes
  BY <1>7, <1>9, RefsType DEF TypeOK
<1>11. Inverse1(Head1(l)) \in Steps
  BY <1>2 DEF Inverse1, Steps
<1>12. undo' \in [Leaves -> Seq(Steps)]
  <2>1. undo \in [Leaves -> Seq(Steps)] /\ undo[l] \in Seq(Steps)
    BY DEF TypeOK
  <2>2. Append(undo[l], Inverse1(Head1(l))) \in Seq(Steps)
    BY <2>1, <1>11
  <2>3. QED
    BY <2>1, <2>2, <1>7
<1>13. todo' \in [Leaves -> Seq(Steps)]
  <2>1. todo \in [Leaves -> Seq(Steps)]
    BY DEF TypeOK
  <2>2. QED
    BY <2>1, <1>2, <1>7
<1>14. stale' \in [Leaves -> SUBSET Scopes]
  <2>1. stale \in [Leaves -> SUBSET Scopes]
    BY DEF TypeOK
  <2>2. QED
    BY <2>1, <1>7
<1>15. TypeOK'
  <2> HIDE DEF new, sc
  <2>1. /\ st \in [Leaves -> {"new", "live", "failed", "done"}] /\ own \in [Leaves -> Amounts]
        /\ edges \in [Leaves -> Seq(Scopes)] /\ attr \in [Leaves -> Attrs]
        /\ call \in [Leaves -> Calls]
        /\ span \in [Spans -> [owner : Leaves \cup {None}, mem : Nat, open : BOOLEAN]]
    BY DEF TypeOK
  <2>2. QED
    BY <2>1, <1>7, <1>8, <1>10, <1>12, <1>13, <1>14 DEF TypeOK
<1>16. KnownInv'
  BY <1>7 DEF KnownInv, Known
<1>17. QED
  BY <1>8, <1>15, <1>16

SpanType == [owner : Leaves \cup {None}, mem : Nat, open : BOOLEAN]
StType == {"new", "live", "failed", "done"}

\* The types of the variables one by one.
LEMMA Types ==
  ASSUME TypeOK
  PROVE  /\ usage \in [Scopes -> Amounts] /\ refCnt \in [Scopes -> Int]
         /\ present \in SUBSET Scopes /\ st \in [Leaves -> StType]
         /\ own \in [Leaves -> Amounts] /\ edges \in [Leaves -> Seq(Scopes)]
         /\ attr \in [Leaves -> Attrs] /\ call \in [Leaves -> Calls]
         /\ todo \in [Leaves -> Seq(Steps)] /\ undo \in [Leaves -> Seq(Steps)]
         /\ stale \in [Leaves -> SUBSET Scopes] /\ span \in [Spans -> SpanType]
  BY DEF TypeOK, StType, SpanType

\* A step that charges nothing and changes one connection or stream.
LEMMA QuietStep ==
  ASSUME IInv, NEW l \in Leaves,
         usage' = usage, refCnt' \in [Scopes -> Int], present' \in SUBSET Scopes,
         st' \in [Leaves -> StType], own' \in [Leaves -> Amounts],
         edges' \in [Leaves -> Seq(Scopes)], attr' \in [Leaves -> Attrs],
         call' \in [Leaves -> Calls], todo' \in [Leaves -> Seq(Steps)],
         undo' \in [Leaves -> Seq(Steps)], stale' \in [Leaves -> SUBSET Scopes],
         span' \in [Spans -> SpanType],
         \A k \in Leaves : k # l => call'[k] = call[k] /\ attr'[k] = attr[k],
         Known(attr'[l], call'[l].op)
  PROVE  IInv'
<1>1. usage \in [Scopes -> Amounts]
  BY Types DEF IInv
<1>2. TypeOK'
  BY <1>1 DEF TypeOK, StType, SpanType
<1>3. WithinLimits'
  BY DEF IInv, WithinLimits, Within, LimitOf
<1>4. KnownInv'
  BY KnownStep DEF IInv
<1>5. QED
  BY <1>2, <1>3, <1>4 DEF IInv

\* A shared scope refuses.
LEMMA RefuseInv ==
  ASSUME IInv, NEW l \in Leaves, Refuse(l)
  PROVE  IInv'
<1>1. TypeOK /\ KnownInv /\ todo[l] # <<>>
  BY DEF IInv, Refuse
<1> DEFINE new == IF Head1(l).do = "attach" THEN {Head1(l).sc} ELSE {}
<1>2. Head1(l).sc \in Scopes
  BY <1>1, HeadType
<1>3. /\ present' = present \cup new
      /\ refCnt' = [Refs(new) EXCEPT ![Head1(l).sc] = refCnt[Head1(l).sc]]
      /\ todo' = [todo EXCEPT ![l] = undo[l]] /\ undo' = [undo EXCEPT ![l] = <<>>]
      /\ call' = [call EXCEPT ![l].ok = FALSE]
      /\ usage' = usage /\ st' = st /\ own' = own /\ edges' = edges /\ attr' = attr
      /\ stale' = stale /\ span' = span
  BY DEF Refuse, leaf
<1>4. IsFiniteSet(new) /\ new \subseteq Scopes
  BY <1>2, FS_EmptySet, FS_Singleton
<1>5. Refs(new) \in [Scopes -> Int] /\ refCnt \in [Scopes -> Int]
  BY <1>1, <1>4, RefsType, Types
<1> HIDE DEF new
<1>6. refCnt' \in [Scopes -> Int] /\ present' \in SUBSET Scopes
  BY <1>1, <1>2, <1>3, <1>4, <1>5, Types
<1>7. todo' \in [Leaves -> Seq(Steps)] /\ undo' \in [Leaves -> Seq(Steps)]
  <2>1. todo \in [Leaves -> Seq(Steps)] /\ undo \in [Leaves -> Seq(Steps)] /\ undo[l] \in Seq(Steps)
    BY <1>1, Types
  <2>2. QED
    BY <2>1, <1>3
<1>8. /\ call' \in [Leaves -> Calls] /\ call'[l].op = call[l].op
      /\ \A k \in Leaves : k # l => call'[k] = call[k]
  <2>1. call \in [Leaves -> Calls] /\ call[l] \in Calls
    BY <1>1, Types
  <2>2. [call[l] EXCEPT !.ok = FALSE] \in Calls /\ [call[l] EXCEPT !.ok = FALSE].op = call[l].op
    BY <2>1 DEF Calls
  <2>3. QED
    BY <2>1, <2>2, <1>3
<1>9. Known(attr'[l], call'[l].op)
  BY <1>1, <1>3, <1>8 DEF KnownInv
<1>10. QED
  BY <1>1, <1>3, <1>6, <1>7, <1>8, <1>9, Types, QuietStep

\* A shared scope gets back what was charged.
LEMMA UnchargeInv ==
  ASSUME IInv, NEW l \in Leaves, Uncharge(l)
  PROVE  IInv'
<1>1. TypeOK /\ KnownInv /\ WithinLimits /\ todo[l] # <<>>
  BY DEF IInv, Uncharge
<1> DEFINE sc == Head1(l).sc
           d == IF Head1(l).do = "detach" THEN 1 ELSE 0
<1>2. /\ sc \in Scopes /\ Tail(todo[l]) \in Seq(Steps)
      /\ call[l].amt \in Amounts /\ d \in Int
  BY <1>1, HeadType, CallType
<1>3. /\ usage \in [Scopes -> Amounts] /\ usage[sc] \in Amounts
      /\ refCnt \in [Scopes -> Int] /\ refCnt[sc] \in Int
  BY <1>1, <1>2, Types
<1>4. /\ usage' = usage \/ usage' = [usage EXCEPT ![sc] = Minus(usage[sc], call[l].amt)]
      /\ refCnt' = refCnt \/ refCnt' = [refCnt EXCEPT ![sc] = refCnt[sc] - d]
  BY DEF Uncharge
<1>5. /\ todo' = [todo EXCEPT ![l] = Tail(todo[l])]
      /\ present' = present /\ call' = call /\ undo' = undo /\ stale' = stale /\ span' = span
      /\ st' = st /\ own' = own /\ edges' = edges /\ attr' = attr
  BY DEF Uncharge, leaf
<1>6. LimitOf(sc) \in [Res \cup {"streams", "conns"} -> Nat] /\ Within(LimitOf(sc), usage[sc])
  BY <1>1, <1>2, ScopeLimits DEF WithinLimits
<1>7. Minus(usage[sc], call[l].amt) \in Amounts
      /\ Within(LimitOf(sc), Minus(usage[sc], call[l].amt))
  BY <1>2, <1>3, <1>6, Additions, MinusWithin
<1> HIDE DEF sc, d
<1>8. usage' \in [Scopes -> Amounts] /\ refCnt' \in [Scopes -> Int]
  BY <1>2, <1>3, <1>4, <1>7
<1>9. ASSUME NEW x \in Scopes
      PROVE  Within(LimitOf(x), usage'[x])
  <2>1. Within(LimitOf(x), usage[x])
    BY <1>1 DEF WithinLimits
  <2>2. usage'[x] = usage[x] \/ (x = sc /\ usage'[x] = Minus(usage[sc], call[l].amt))
    BY <1>2, <1>3, <1>4
  <2>3. QED
    BY <2>1, <2>2, <1>7
<1>10. WithinLimits'
  BY <1>9 DEF WithinLimits, Within, LimitOf
<1>11. todo' \in [Leaves -> Seq(Steps)]
  BY <1>1, <1>2, <1>5, Types
<1>12. TypeOK'
  BY <1>1, <1>5, <1>8, <1>11, Types DEF TypeOK, StType, SpanType
<1>13. KnownInv'
  BY <1>1, <1>5 DEF KnownInv, Known
<1>14. QED
  BY <1>10, <1>12, <1>13 DEF IInv

\* Unused scopes are collected.
LEMMA GCInv ==
  ASSUME IInv, GC
  PROVE  IInv'
<1>1. TypeOK /\ KnownInv /\ WithinLimits
  BY DEF IInv
<1> DEFINE dead == {sc \in Collectable \cap present : IsUnused(sc)}
           deadPeers == {p \in Peers : PeerScope(p) \in dead}
           deadProtos == {r \in Protos : ProtoScope(r) \in dead}
           gone == dead \cup (UNION {PerPeer(p) : p \in deadPeers})
                     \cup {ProtoPeer(r, p) : r \in deadProtos, p \in Peers}
<1>2. /\ present' = present \ gone
      /\ usage' = [sc \in Scopes |-> IF sc \in gone THEN Nothing ELSE usage[sc]]
      /\ refCnt' = [sc \in Scopes |-> IF sc \in gone THEN 0
                                      ELSE IF sc = System THEN refCnt[sc] - Cardinality(dead)
                                      ELSE refCnt[sc]]
      /\ stale' = [l \in Leaves |-> stale[l] \cup (gone \cap RefersTo(l))]
      /\ st' = st /\ own' = own /\ edges' = edges /\ attr' = attr
      /\ call' = call /\ todo' = todo /\ undo' = undo /\ span' = span
  BY DEF GC, leaf
<1>3. IsFiniteSet(Collectable)
  <2>1. IsFiniteSet({PeerScope(p) : p \in Peers})
    <3> DEFINE f == [p \in Peers |-> PeerScope(p)]
               T == {PeerScope(p) : p \in Peers}
    <3>1. f \in Surjection(Peers, T)
      BY DEF Surjection
    <3>2. QED
      BY <3>1, ResourceAssumption, FS_Surjection
  <2>2. IsFiniteSet({ProtoScope(r) : r \in Protos})
    <3> DEFINE f == [r \in Protos |-> ProtoScope(r)]
               T == {ProtoScope(r) : r \in Protos}
    <3>1. f \in Surjection(Protos, T)
      BY DEF Surjection
    <3>2. QED
      BY <3>1, ResourceAssumption, FS_Surjection
  <2>3. QED
    BY <2>1, <2>2, FS_Union DEF Collectable
<1>4. dead \subseteq Collectable /\ gone \subseteq Scopes
  <2>1. dead \subseteq Collectable
    OBVIOUS
  <2>2. \A p \in Peers : PerPeer(p) \subseteq Scopes
    BY DEF Scopes
  <2>3. Collectable \subseteq Scopes
    BY DEF Scopes
  <2>4. UNION {PerPeer(p) : p \in deadPeers} \subseteq Scopes
    <3>1. deadPeers \subseteq Peers
      OBVIOUS
    <3> HIDE DEF deadPeers
    <3>2. QED
      BY <2>2, <3>1
  <2>5. {ProtoPeer(r, p) : r \in deadProtos, p \in Peers} \subseteq Scopes
    <3>1. deadProtos \subseteq Protos
      OBVIOUS
    <3> HIDE DEF deadProtos
    <3>2. QED
      BY <3>1, ScopeNames
  <2> DEFINE A == UNION {PerPeer(p) : p \in deadPeers}
             B == {ProtoPeer(r, p) : r \in deadProtos, p \in Peers}
  <2>6. A \subseteq Scopes
    BY <2>4
  <2>7. B \subseteq Scopes
    BY <2>5
  <2>8. gone = (dead \cup A) \cup B
    OBVIOUS
  <2> HIDE DEF A, B, dead, gone
  <2>9. QED
    BY <2>1, <2>3, <2>6, <2>7, <2>8
<1>5. Cardinality(dead) \in Nat
  BY <1>3, <1>4, FS_Subset, FS_CardinalityType
<1> HIDE DEF dead, gone
<1>6. refCnt' \in [Scopes -> Int]
  <2>1. \A sc \in Scopes : refCnt[sc] \in Int
    BY <1>1, Types
  <2>2. QED
    BY <2>1, <1>2, <1>5
<1>7. usage' \in [Scopes -> Amounts]
  BY <1>1, <1>2, Types, AmountTypes
<1>8. ASSUME NEW x \in Scopes
      PROVE  Within(LimitOf(x), usage'[x])
  <2>1. Within(LimitOf(x), usage[x]) /\ Within(LimitOf(x), Nothing)
    BY <1>1, ScopeLimits, NothingWithin DEF WithinLimits
  <2>2. usage'[x] = usage[x] \/ usage'[x] = Nothing
    BY <1>2
  <2>3. QED
    BY <2>1, <2>2
<1>9. WithinLimits'
  BY <1>8 DEF WithinLimits, Within, LimitOf
<1>10. stale' \in [Leaves -> SUBSET Scopes]
  BY <1>1, <1>2, <1>4, Types
<1>11. TypeOK'
  BY <1>1, <1>2, <1>6, <1>7, <1>10, Types DEF TypeOK, StType, SpanType
<1>12. KnownInv'
  BY <1>1, <1>2 DEF KnownInv, Known
<1>13. QED
  BY <1>9, <1>11, <1>12 DEF IInv

----------------------------------------------------------------------------
(* Opening and closing.                                                    *)

\* OpenStream and OpenConnection: a call starts, edges and attributes are set.
LEMMA OpenStep ==
  ASSUME IInv, NEW l \in Leaves, NEW es \in Seq(Scopes), NEW scs, IsFiniteSet(scs),
         NEW a \in Attrs, NEW amt \in Amounts,
         a.proto # None => a.peer \in Peers, a.svc # None => a.proto # None,
         refCnt' = Refs(scs), present' \in SUBSET Scopes,
         attr' = [attr EXCEPT ![l] = a], edges' = [edges EXCEPT ![l] = es],
         Begin(l, "open", Do("reserve", es), amt, 255, None),
         UNCHANGED <<usage, st, own, span>>
  PROVE  IInv'
<1>1. TypeOK
  BY DEF IInv
<1>2. Do("reserve", es) \in Seq(Steps)
  BY DoSteps
<1>3. /\ call' \in [Leaves -> Calls] /\ call'[l].op = "open"
      /\ \A k \in Leaves : k # l => call'[k] = call[k]
      /\ todo' \in [Leaves -> Seq(Steps)] /\ undo' \in [Leaves -> Seq(Steps)]
      /\ stale' \in [Leaves -> SUBSET Scopes]
  <2>1. "open" \in {"open", "abort", "close", "reserveMemory", "releaseMemory", "transfer"}
                     \cup Sets
    OBVIOUS
  <2>2. QED
    BY <1>1, <1>2, <2>1, Defaults, BeginType
<1>4. refCnt' \in [Scopes -> Int]
  BY <1>1, RefsType
<1>5. attr' \in [Leaves -> Attrs] /\ attr'[l] = a
      /\ \A k \in Leaves : k # l => attr'[k] = attr[k]
  BY <1>1, Types
<1>6. edges' \in [Leaves -> Seq(Scopes)]
  BY <1>1, Types
<1>7. Known(attr'[l], call'[l].op)
  BY <1>3, <1>5 DEF Known
<1>8. QED
  BY <1>1, <1>3, <1>4, <1>5, <1>6, <1>7, Types, QuietStep

\* OpenStream.
LEMMA OpenStreamInv ==
  ASSUME IInv, NEW l \in Streams, NEW p \in Peers, NEW dir \in {"in", "out"},
         OpenStream(l, p, dir)
  PROVE  IInv'
<1>1. TypeOK /\ KnownInv /\ l \in Leaves
  BY DEF IInv, Leaves
<1> DEFINE a == [attr[l] EXCEPT !.dir = dir, !.peer = p]
           es == <<PeerScope(p), Transient, System>>
           scs == {PeerScope(p), Transient, System}
<1>2. attr[l] \in Attrs /\ Known(attr[l], call[l].op) /\ attr \in [Leaves -> Attrs]
  BY <1>1, Types DEF KnownInv
<1>3. a \in Attrs /\ a.peer = p /\ a.proto = attr[l].proto /\ a.svc = attr[l].svc
  BY <1>2 DEF Attrs
<1>4. (a.proto # None => a.peer \in Peers) /\ (a.svc # None => a.proto # None)
  BY <1>2, <1>3 DEF Known
<1>5. es \in Seq(Scopes) /\ present \cup {PeerScope(p)} \in SUBSET Scopes
  BY <1>1, ScopeNames, Types
<1>6. IsFiniteSet(scs)
  <2>1. IsFiniteSet({PeerScope(p)}) /\ IsFiniteSet({Transient}) /\ IsFiniteSet({System})
    BY FS_Singleton
  <2>2. scs = {PeerScope(p)} \cup ({Transient} \cup {System})
    OBVIOUS
  <2>3. IsFiniteSet({Transient} \cup {System})
    BY <2>1, FS_Union
  <2>4. IsFiniteSet({PeerScope(p)} \cup ({Transient} \cup {System}))
    <3> DEFINE A == {PeerScope(p)}
               B == {Transient} \cup {System}
    <3>1. IsFiniteSet(A) /\ IsFiniteSet(B)
      BY <2>1, <2>3
    <3> HIDE DEF A, B
    <3>2. IsFiniteSet(A \cup B)
      BY <3>1, FS_Union
    <3>3. QED
      BY <3>2 DEF A, B
  <2>5. QED
    BY <2>2, <2>4
<1>7. /\ refCnt' = Refs(scs) /\ present' = present \cup {PeerScope(p)}
      /\ attr' = [attr EXCEPT ![l] = a] /\ edges' = [edges EXCEPT ![l] = es]
      /\ Begin(l, "open", Do("reserve", es), OneStream(dir), 255, None)
      /\ UNCHANGED <<usage, st, own, span>>
  BY <1>2 DEF OpenStream
<1> HIDE DEF a, es, scs
<1>8. QED
  BY <1>1, <1>3, <1>4, <1>5, <1>6, <1>7, AmountTypes, OpenStep

\* OpenConnection, with or without the allowlist.
LEMMA BeginConnInv ==
  ASSUME IInv, NEW l \in Leaves, NEW dir \in {"in", "out"}, NEW fd \in BOOLEAN,
         NEW al \in BOOLEAN, BeginConn(l, dir, fd, al)
  PROVE  IInv'
<1>1. TypeOK /\ KnownInv
  BY DEF IInv
<1> DEFINE a == [attr[l] EXCEPT !.dir = dir, !.fd = fd, !.allowlisted = al]
           es == ConnEdges(al)
           scs == {es[1], es[2]}
<1>2. attr[l] \in Attrs /\ Known(attr[l], call[l].op) /\ attr \in [Leaves -> Attrs]
  BY <1>1, Types DEF KnownInv
<1>3. /\ a \in Attrs /\ a.peer = attr[l].peer /\ a.proto = attr[l].proto
      /\ a.svc = attr[l].svc
  BY <1>2 DEF Attrs
<1>4. (a.proto # None => a.peer \in Peers) /\ (a.svc # None => a.proto # None)
  BY <1>2, <1>3 DEF Known
<1>5. es \in Seq(Scopes) /\ present \in SUBSET Scopes
  BY <1>1, ScopeNames, Types DEF ConnEdges
<1>6. IsFiniteSet(scs)
  <2>1. IsFiniteSet({es[1]}) /\ IsFiniteSet({es[2]}) /\ scs = {es[1]} \cup {es[2]}
    BY FS_Singleton
  <2>2. QED
    BY <2>1, FS_Union
<1>7. /\ refCnt' = Refs(scs) /\ present' = present
      /\ attr' = [attr EXCEPT ![l] = a] /\ edges' = [edges EXCEPT ![l] = es]
      /\ Begin(l, "open", Do("reserve", es), OneConn(dir, fd), 255, None)
      /\ UNCHANGED <<usage, st, own, span>>
  BY <1>2 DEF BeginConn
<1> HIDE DEF a, es, scs
<1>8. QED
  BY <1>1, <1>3, <1>4, <1>5, <1>6, <1>7, AmountTypes, OpenStep

\* The second attempt uses the direction and descriptor of the first.
LEMMA RetryInv ==
  ASSUME IInv, NEW l \in Leaves, RetryAllowlisted(l)
  PROVE  IInv'
<1>1. attr[l] \in Attrs
  BY Types DEF IInv
<1>2. attr[l].dir \in {"in", "out"} /\ attr[l].fd \in BOOLEAN
  BY <1>1 DEF Attrs
<1>3. QED
  BY <1>2, BeginConnInv DEF RetryAllowlisted

\* A call ends, and the scope's state, resources, edges, attributes and the
\* spans may change.
LEMMA EndStep ==
  ASSUME IInv, NEW l \in Leaves, End(l), UNCHANGED shared,
         st' \in [Leaves -> StType], own' \in [Leaves -> Amounts],
         edges' \in [Leaves -> Seq(Scopes)], span' \in [Spans -> SpanType],
         NEW a \in Attrs, attr' = [attr EXCEPT ![l] = a],
         a.proto # None => a.peer \in Peers, a.svc # None => a.proto # None
  PROVE  IInv'
<1>1. TypeOK
  BY DEF IInv
<1>2. /\ call' \in [Leaves -> Calls] /\ call'[l].op = "none"
      /\ \A k \in Leaves : k # l => call'[k] = call[k]
      /\ todo' \in [Leaves -> Seq(Steps)] /\ undo' \in [Leaves -> Seq(Steps)]
      /\ stale' \in [Leaves -> SUBSET Scopes]
  BY <1>1, EndType
<1>3. usage' = usage /\ refCnt' = refCnt /\ present' = present
  BY DEF shared
<1>4. attr' \in [Leaves -> Attrs] /\ attr'[l] = a
      /\ \A k \in Leaves : k # l => attr'[k] = attr[k]
  BY <1>1, Types
<1>5. Known(attr'[l], call'[l].op)
  BY <1>2, <1>4 DEF Known
<1>6. QED
  BY <1>1, <1>2, <1>3, <1>4, <1>5, Types, QuietStep

\* What is known of the attributes in any case.
LEMMA AttrFacts ==
  ASSUME IInv, NEW l \in Leaves
  PROVE  /\ attr[l] \in Attrs /\ attr = [attr EXCEPT ![l] = attr[l]]
         /\ attr[l].proto # None => attr[l].peer \in Peers
         /\ attr[l].svc # None => attr[l].proto # None
         /\ attr[l].peer \in Peers \cup {None} /\ attr[l].proto \in Protos \cup {None}
         /\ attr[l].svc \in Svcs \cup {None} /\ attr[l].allowlisted \in BOOLEAN
<1>1. attr \in [Leaves -> Attrs] /\ attr[l] \in Attrs /\ Known(attr[l], call[l].op)
  BY Types DEF IInv, KnownInv
<1>2. QED
  BY <1>1 DEF Attrs, Known

\* The end of an opening or closing call.
LEMMA OpenedClosedInv ==
  ASSUME IInv, NEW l \in Leaves, Opened(l) \/ Closed(l)
  PROVE  IInv'
<1>1. TypeOK
  BY DEF IInv
<1>2. /\ st \in [Leaves -> StType] /\ own \in [Leaves -> Amounts] /\ own[l] \in Amounts
      /\ edges \in [Leaves -> Seq(Scopes)] /\ span \in [Spans -> SpanType]
      /\ call[l].amt \in Amounts
  BY <1>1, Types, CallType
<1>3. Plus(own[l], call[l].amt) \in Amounts /\ Nothing \in Amounts
  BY <1>2, Additions, AmountTypes
<1>4. /\ End(l) /\ UNCHANGED shared /\ edges' = edges /\ attr' = attr /\ span' = span
      /\ st' = [st EXCEPT ![l] = "live"] \/ st' = [st EXCEPT ![l] = "done"]
      /\ own' = [own EXCEPT ![l] = Plus(own[l], call[l].amt)] \/ own' = [own EXCEPT ![l] = Nothing]
  BY DEF Opened, Closed, shared
<1>5. st' \in [Leaves -> StType] /\ own' \in [Leaves -> Amounts]
  BY <1>2, <1>3, <1>4 DEF StType
<1>6. attr' = [attr EXCEPT ![l] = attr[l]]
  BY <1>4, AttrFacts
<1>7. QED
  BY <1>2, <1>4, <1>5, <1>6, AttrFacts, EndStep

\* A call that sets nothing starts.
LEMMA BeginStep ==
  ASSUME IInv, NEW l \in Leaves,
         NEW op \in {"abort", "close", "reserveMemory", "releaseMemory"},
         NEW what \in {"reserve", "release", "detach"}, NEW amt \in Amounts,
         NEW prio \in 0..255, NEW via \in Spans \cup {None},
         Begin(l, op, Do(what, edges[l]), amt, prio, via),
         UNCHANGED <<shared, st, edges, attr>>,
         own' \in [Leaves -> Amounts], span' \in [Spans -> SpanType]
  PROVE  IInv'
<1>1. TypeOK /\ KnownInv
  BY DEF IInv
<1>2. edges[l] \in Seq(Scopes)
  BY <1>1, Types
<1>3. Do(what, edges[l]) \in Seq(Steps)
  BY <1>2, DoSteps
<1>4. /\ call' \in [Leaves -> Calls] /\ call'[l].op = op
      /\ \A k \in Leaves : k # l => call'[k] = call[k]
      /\ todo' \in [Leaves -> Seq(Steps)] /\ undo' \in [Leaves -> Seq(Steps)]
      /\ stale' \in [Leaves -> SUBSET Scopes]
  BY <1>1, <1>3, BeginType
<1>5. /\ usage' = usage /\ refCnt' = refCnt /\ present' = present
      /\ st' = st /\ edges' = edges /\ attr' = attr
  BY DEF shared
<1>6. Known(attr'[l], call'[l].op)
  <2>1. Known(attr[l], call[l].op) /\ op \notin Sets \cup {"transfer"}
    BY <1>1 DEF KnownInv, Sets
  <2>2. QED
    BY <2>1, <1>4, <1>5, KnownOps
<1>7. QED
  BY <1>1, <1>4, <1>5, <1>6, Types, QuietStep

\* Done, also of a scope that could not be opened.
LEMMA DoneInv ==
  ASSUME IInv, NEW l \in Leaves, Done(l) \/ OpenRefused(l)
  PROVE  IInv'
<1>1. own \in [Leaves -> Amounts] /\ own[l] \in Amounts /\ span \in [Spans -> SpanType]
  BY Types DEF IInv
<1>2. UNCHANGED <<shared, st, edges, attr>> /\ own' = own /\ span' = span
  BY DEF Done, OpenRefused, leaf, shared
<1>3. CASE Done(l)
  <2>1. Begin(l, "close", Do("detach", edges[l]), own[l], 255, None)
    BY <1>3 DEF Done
  <2>2. QED
    BY <1>1, <1>2, <2>1, Defaults, BeginStep
<1>4. CASE OpenRefused(l)
  <2>1. Begin(l, "abort", Do("detach", edges[l]), Nothing, 255, None)
    BY <1>4 DEF OpenRefused
  <2>2. QED
    BY <1>1, <1>2, <2>1, Defaults, AmountTypes, BeginStep
<1>5. QED
  BY <1>3, <1>4

----------------------------------------------------------------------------
(* Moving a scope to other edges.                                          *)

\* A call that sets the peer, protocol or service starts.
LEMMA SetStep ==
  ASSUME IInv, NEW l \in Leaves, NEW op \in Sets \cup {"transfer"},
         NEW steps \in Seq(Steps), NEW a \in Attrs, Known(a, op),
         attr' = [attr EXCEPT ![l] = a],
         Begin(l, op, steps, own[l], 255, None),
         UNCHANGED <<shared, st, own, span>>, edges' \in [Leaves -> Seq(Scopes)]
  PROVE  IInv'
<1>1. TypeOK /\ own[l] \in Amounts
  BY Types DEF IInv
<1>2. op \in {"open", "abort", "close", "reserveMemory", "releaseMemory", "transfer"} \cup Sets
  OBVIOUS
<1>3. /\ call' \in [Leaves -> Calls] /\ call'[l].op = op
      /\ \A k \in Leaves : k # l => call'[k] = call[k]
      /\ todo' \in [Leaves -> Seq(Steps)] /\ undo' \in [Leaves -> Seq(Steps)]
      /\ stale' \in [Leaves -> SUBSET Scopes]
  BY <1>1, <1>2, Defaults, BeginType
<1>4. attr' \in [Leaves -> Attrs] /\ attr'[l] = a
      /\ \A k \in Leaves : k # l => attr'[k] = attr[k]
  BY <1>1, Types
<1>5. /\ usage' = usage /\ refCnt' = refCnt /\ present' = present
      /\ st' = st /\ own' = own /\ span' = span
  BY DEF shared
<1>6. Known(attr'[l], call'[l].op)
  BY <1>3, <1>4
<1>7. QED
  BY <1>1, <1>3, <1>4, <1>5, <1>6, Types, QuietStep

\* Steps that attach to and detach from scopes.
LEMMA StepTypes ==
  ASSUME NEW sc \in Scopes
  PROVE  Attach(sc) \in Steps /\ Detach(sc) \in Steps
  BY DEF Attach, Detach, Steps

\* SetProtocol starts.
LEMMA SetProtocolInv ==
  ASSUME IInv, NEW l \in Streams, NEW r \in Protos, SetProtocol(l, r)
  PROVE  IInv'
<1>1. l \in Leaves
  BY DEF Leaves
<1> DEFINE a == [attr[l] EXCEPT !.proto = r]
           steps == SetProtocolSteps(r, attr[l].peer)
<1>2. /\ attr[l] \in Attrs /\ attr[l].peer \in Peers /\ attr[l].proto = None
      /\ attr[l].svc = None
  BY <1>1, AttrFacts DEF SetProtocol
<1>3. a \in Attrs /\ a.peer = attr[l].peer /\ a.proto = r /\ a.svc = None
  BY <1>2 DEF Attrs
<1>4. Known(a, "setProtocol")
  BY <1>2, <1>3 DEF Known
<1>5. steps \in Seq(Steps)
  <2>1. /\ Attach(ProtoScope(r)) \in Steps /\ Attach(ProtoPeer(r, attr[l].peer)) \in Steps
        /\ Detach(Transient) \in Steps
    BY <1>2, ScopeNames, StepTypes
  <2>2. QED
    BY <2>1 DEF SetProtocolSteps
<1>6. /\ attr' = [attr EXCEPT ![l] = a] /\ edges' = edges
      /\ Begin(l, "setProtocol", steps, own[l], 255, None)
      /\ UNCHANGED <<shared, st, own, span>>
  BY <1>2 DEF SetProtocol
<1>7. "setProtocol" \in Sets \cup {"transfer"} /\ edges \in [Leaves -> Seq(Scopes)]
  BY Types DEF Sets, IInv
<1> HIDE DEF a, steps
<1>8. QED
  BY <1>1, <1>3, <1>4, <1>5, <1>6, <1>7, SetStep

\* SetService starts.
LEMMA SetServiceInv ==
  ASSUME IInv, NEW l \in Streams, NEW v \in Svcs, SetService(l, v)
  PROVE  IInv'
<1>1. l \in Leaves
  BY DEF Leaves
<1> DEFINE a == [attr[l] EXCEPT !.svc = v]
           steps == <<Attach(SvcScope(v)), Attach(SvcPeer(v, attr[l].peer))>>
<1>2. /\ attr[l] \in Attrs /\ attr[l].peer \in Peers /\ attr[l].proto \in Protos
      /\ attr[l].proto # None
  BY <1>1, AttrFacts DEF SetService
<1>3. a \in Attrs /\ a.peer = attr[l].peer /\ a.proto = attr[l].proto /\ a.svc = v
  BY <1>2 DEF Attrs
<1>4. Known(a, "setService")
  BY <1>2, <1>3 DEF Known
<1>5. steps \in Seq(Steps)
  <2>1. Attach(SvcScope(v)) \in Steps /\ Attach(SvcPeer(v, attr[l].peer)) \in Steps
    BY <1>2, ScopeNames, StepTypes
  <2>2. QED
    BY <2>1
<1>6. /\ attr' = [attr EXCEPT ![l] = a] /\ edges' = edges
      /\ Begin(l, "setService", steps, own[l], 255, None)
      /\ UNCHANGED <<shared, st, own, span>>
  BY <1>2 DEF SetService
<1>7. "setService" \in Sets \cup {"transfer"} /\ edges \in [Leaves -> Seq(Scopes)]
  BY Types DEF Sets, IInv
<1> HIDE DEF a, steps
<1>8. QED
  BY <1>1, <1>3, <1>4, <1>5, <1>6, <1>7, SetStep

\* The steps of SetPeer and of the transfer from the allowlist.
LEMMA PeerSteps ==
  ASSUME NEW p \in Peers
  PROVE  /\ SetPeerSteps(p) \in Seq(Steps) /\ SetPeerStepsAllowlisted(p) \in Seq(Steps)
         /\ <<Detach(AllowlistedTransient), Detach(AllowlistedSystem),
              Attach(System), Attach(Transient)>> \in Seq(Steps)
<1>1. /\ Attach(PeerScope(p)) \in Steps /\ Detach(Transient) \in Steps
      /\ Detach(AllowlistedTransient) \in Steps /\ Detach(AllowlistedSystem) \in Steps
      /\ Attach(System) \in Steps /\ Attach(Transient) \in Steps
  BY ScopeNames, StepTypes
<1>2. QED
  BY <1>1 DEF SetPeerSteps, SetPeerStepsAllowlisted

\* SetPeer starts, possibly with a transfer.
LEMMA SetPeerInv ==
  ASSUME IInv, NEW l \in Conns, NEW p \in Peers, NEW allowed \in BOOLEAN,
         SetPeer(l, p, allowed)
  PROVE  IInv'
<1>1. l \in Leaves
  BY DEF Leaves
<1> DEFINE a == [attr[l] EXCEPT !.peer = p, !.allowlisted = attr[l].allowlisted /\ allowed]
<1>2. /\ attr[l] \in Attrs /\ attr[l].peer = None /\ attr[l].allowlisted \in BOOLEAN
      /\ attr[l].svc # None => attr[l].proto # None
  BY <1>1, AttrFacts DEF SetPeer
<1>3. a \in Attrs /\ a.peer = p /\ a.proto = attr[l].proto /\ a.svc = attr[l].svc
  BY <1>2 DEF Attrs
<1>4. /\ attr' = [attr EXCEPT ![l] = a] /\ edges' = edges
      /\ UNCHANGED <<shared, st, own, span>>
  BY <1>2 DEF SetPeer
<1>5. edges \in [Leaves -> Seq(Scopes)] /\ "transfer" \in Sets \cup {"transfer"}
      /\ "setPeer" \in Sets \cup {"transfer"}
  BY Types DEF Sets, IInv
<1>6. ASSUME attr[l].proto = None
      PROVE  Known(a, "transfer") /\ Known(a, "setPeer")
  BY <1>2, <1>3, <1>6 DEF Known
<1>7. attr[l].proto = None
  BY <1>1, AttrFacts, ResourceAssumption DEF SetPeer
<1> HIDE DEF a
<1>8. CASE attr[l].allowlisted /\ ~allowed
  <2>1. Begin(l, "transfer", <<Detach(AllowlistedTransient), Detach(AllowlistedSystem),
                  Attach(System), Attach(Transient)>>, own[l], 255, None)
    BY <1>8 DEF SetPeer
  <2>2. QED
    BY <1>1, <1>3, <1>4, <1>5, <1>6, <1>7, <2>1, PeerSteps, SetStep
<1>9. CASE ~(attr[l].allowlisted /\ ~allowed)
  <2> DEFINE steps == IF attr[l].allowlisted THEN SetPeerStepsAllowlisted(p)
                      ELSE SetPeerSteps(p)
  <2>1. Begin(l, "setPeer", steps, own[l], 255, None) /\ steps \in Seq(Steps)
    BY <1>9, PeerSteps DEF SetPeer
  <2> HIDE DEF steps
  <2>2. QED
    BY <1>1, <1>3, <1>4, <1>5, <1>6, <1>7, <2>1, SetStep
<1>10. QED
  BY <1>8, <1>9

\* The transfer is done, SetPeer goes on.
LEMMA TransferredInv ==
  ASSUME IInv, NEW l \in Leaves, Transferred(l)
  PROVE  IInv'
<1>1. call[l].op = "transfer" /\ Known(attr[l], call[l].op)
  BY DEF Transferred, Returns, IInv, KnownInv
<1>2. attr[l].peer \in Peers /\ Known(attr[l], "setPeer")
  BY <1>1 DEF Known
<1>3. SetPeerSteps(attr[l].peer) \in Seq(Steps)
  BY <1>2, PeerSteps
<1>4. attr[l] \in Attrs /\ attr = [attr EXCEPT ![l] = attr[l]]
  BY AttrFacts
<1>5. edges \in [Leaves -> Seq(Scopes)] /\ "setPeer" \in Sets \cup {"transfer"}
  BY Types DEF Sets, IInv
<1>6. <<System, Transient>> \in Seq(Scopes)
  BY ScopeNames
<1>7. /\ edges' = [edges EXCEPT ![l] = <<System, Transient>>] /\ attr' = attr
      /\ Begin(l, "setPeer", SetPeerSteps(attr[l].peer), own[l], 255, None)
      /\ UNCHANGED <<shared, st, own, span>>
  BY DEF Transferred
<1>8. edges' \in [Leaves -> Seq(Scopes)]
  BY <1>5, <1>6, <1>7
<1>9. QED
  BY <1>2, <1>3, <1>4, <1>5, <1>7, <1>8, SetStep

\* The scope has its new edges.
LEMMA SetInv ==
  ASSUME IInv, NEW l \in Leaves, Set(l)
  PROVE  IInv'
<1>1. call[l].op \in Sets /\ Known(attr[l], call[l].op)
  BY DEF Set, IInv, KnownInv
<1>2. NewEdges(l) \in Seq(Scopes)
  <2>1. CASE call[l].op = "setPeer"
    <3>1. NewEdges(l) = <<PeerScope(attr[l].peer),
                          IF attr[l].allowlisted THEN AllowlistedSystem ELSE System>>
      BY <2>1 DEF NewEdges
    <3>2. attr[l].peer \in Peers
      BY <1>1, <2>1 DEF Known
    <3>3. QED
      BY <3>1, <3>2, ScopeNames
  <2>2. CASE call[l].op = "setProtocol"
    <3>1. NewEdges(l) = <<PeerScope(attr[l].peer), ProtoPeer(attr[l].proto, attr[l].peer),
                          ProtoScope(attr[l].proto), System>>
      BY <2>2 DEF NewEdges
    <3>2. attr[l].peer \in Peers /\ attr[l].proto \in Protos
      BY <1>1, <2>2 DEF Known
    <3>3. QED
      BY <3>1, <3>2, ScopeNames
  <2>3. CASE call[l].op = "setService"
    <3>1. NewEdges(l) = <<PeerScope(attr[l].peer), ProtoPeer(attr[l].proto, attr[l].peer),
                          SvcPeer(attr[l].svc, attr[l].peer), ProtoScope(attr[l].proto),
                          SvcScope(attr[l].svc), System>>
      BY <2>3 DEF NewEdges
    <3>2. attr[l].peer \in Peers /\ attr[l].proto \in Protos /\ attr[l].svc \in Svcs
      BY <1>1, <2>3 DEF Known
    <3>3. QED
      BY <3>1, <3>2, ScopeNames
  <2>4. QED
    BY <1>1, <2>1, <2>2, <2>3 DEF Sets
<1>3. /\ edges' = [edges EXCEPT ![l] = NewEdges(l)] /\ End(l) /\ UNCHANGED shared
      /\ st' = st /\ own' = own /\ attr' = attr /\ span' = span
  BY DEF Set, shared
<1>4. /\ st \in [Leaves -> StType] /\ own \in [Leaves -> Amounts] /\ span \in [Spans -> SpanType]
      /\ edges \in [Leaves -> Seq(Scopes)]
  BY Types DEF IInv
<1>5. edges' \in [Leaves -> Seq(Scopes)]
  BY <1>2, <1>3, <1>4
<1>6. attr' = [attr EXCEPT ![l] = attr[l]]
  BY <1>3, AttrFacts
<1>7. QED
  BY <1>3, <1>4, <1>5, <1>6, AttrFacts, EndStep

\* The move was refused.
LEMMA SetRefusedInv ==
  ASSUME IInv, NEW l \in Leaves, SetRefused(l)
  PROVE  IInv'
<1>1. call[l].op \in Sets \cup {"transfer"} /\ Known(attr[l], call[l].op)
  BY DEF SetRefused, IInv, KnownInv
<1>2. /\ st \in [Leaves -> StType] /\ st[l] \in StType
      /\ own \in [Leaves -> Amounts] /\ span \in [Spans -> SpanType]
      /\ edges \in [Leaves -> Seq(Scopes)] /\ edges[l] \in Seq(Scopes)
      /\ attr \in [Leaves -> Attrs] /\ attr[l] \in Attrs
  BY Types DEF IInv
<1>3. /\ End(l) /\ UNCHANGED shared /\ own' = own /\ span' = span
      /\ edges' = [edges EXCEPT ![l] = IF call[l].op = "transfer" THEN <<>> ELSE edges[l]]
      /\ st' = [st EXCEPT ![l] = IF st[l] = "live" THEN "failed" ELSE st[l]]
  BY DEF SetRefused, shared
<1>4. st' \in [Leaves -> StType] /\ edges' \in [Leaves -> Seq(Scopes)]
  BY <1>2, <1>3 DEF StType
<1>5. \E a \in Attrs : /\ attr' = [attr EXCEPT ![l] = a]
                       /\ a.proto # None => a.peer \in Peers
                       /\ a.svc # None => a.proto # None
  <2>1. CASE call[l].op = "setService"
    <3> DEFINE a == [attr[l] EXCEPT !.svc = None]
    <3>1. a \in Attrs /\ a.peer = attr[l].peer /\ a.proto = attr[l].proto /\ a.svc = None
      BY <1>2 DEF Attrs
    <3>2. attr' = [attr EXCEPT ![l] = a]
      BY <1>2, <2>1 DEF SetRefused
    <3> HIDE DEF a
    <3>3. QED
      BY <3>1, <3>2, AttrFacts
  <2>2. CASE call[l].op = "setProtocol"
    <3> DEFINE a == [attr[l] EXCEPT !.proto = None]
    <3>1. a \in Attrs /\ a.peer = attr[l].peer /\ a.proto = None /\ a.svc = attr[l].svc
      BY <1>2 DEF Attrs
    <3>2. attr' = [attr EXCEPT ![l] = a]
      BY <1>2, <2>2 DEF SetRefused
    <3>3. a.svc = None
      BY <1>1, <2>2, <3>1 DEF Known
    <3> HIDE DEF a
    <3>4. QED
      BY <3>1, <3>2, <3>3
  <2>3. CASE call[l].op \in {"setPeer", "transfer"}
    <3> DEFINE a == [attr[l] EXCEPT !.peer = None]
    <3>1. a \in Attrs /\ a.proto = attr[l].proto /\ a.svc = attr[l].svc
      BY <1>2 DEF Attrs
    <3>2. attr' = [attr EXCEPT ![l] = a]
      BY <1>2, <2>3 DEF SetRefused
    <3>3. a.proto = None /\ (a.svc # None => a.proto # None)
      BY <1>1, <2>3, <3>1, AttrFacts DEF Known
    <3> HIDE DEF a
    <3>4. QED
      BY <3>1, <3>2, <3>3
  <2>4. QED
    BY <1>1, <2>1, <2>2, <2>3 DEF Sets
<1>6. PICK a \in Attrs : /\ attr' = [attr EXCEPT ![l] = a]
                         /\ a.proto # None => a.peer \in Peers
                         /\ a.svc # None => a.proto # None
  BY <1>5
<1>7. QED
  BY <1>2, <1>3, <1>4, <1>6, EndStep

----------------------------------------------------------------------------
(* Memory.                                                                 *)

\* A span of a connection or stream begins.
LEMMA BeginSpanInv ==
  ASSUME IInv, NEW l \in Leaves, NEW x \in Spans, BeginSpan(x, l)
  PROVE  IInv'
<1>1. /\ span' = [span EXCEPT ![x] = [owner |-> l, mem |-> 0, open |-> TRUE]]
      /\ usage' = usage /\ refCnt' = refCnt /\ present' = present
      /\ st' = st /\ own' = own /\ edges' = edges /\ attr' = attr
      /\ call' = call /\ todo' = todo /\ undo' = undo /\ stale' = stale
  BY DEF BeginSpan, shared, leaf
<1>2. span' \in [Spans -> SpanType]
  <2>1. [owner |-> l, mem |-> 0, open |-> TRUE] \in SpanType
    BY DEF SpanType
  <2>2. span \in [Spans -> SpanType]
    BY Types DEF IInv
  <2>3. QED
    BY <2>1, <2>2, <1>1
<1>3. Known(attr'[l], call'[l].op)
  BY <1>1 DEF IInv, KnownInv
<1>4. TypeOK
  BY DEF IInv
<1>5. QED
  BY <1>1, <1>2, <1>3, <1>4, Types, QuietStep

\* Memory is added to a span, or taken back if the span has it.
LEMMA SpanMemory ==
  ASSUME IInv, NEW via \in Spans \cup {None}, NEW n \in Int, AddToSpan(via, n),
         via # None => span[via].mem + n >= 0
  PROVE  span' \in [Spans -> SpanType]
<1>1. span \in [Spans -> SpanType]
  BY Types DEF IInv
<1>2. CASE via = None
  BY <1>1, <1>2 DEF AddToSpan
<1>3. CASE via # None
  <2>1. via \in Spans /\ span[via] \in SpanType
    BY <1>1, <1>3
  <2>2. span[via].mem + n \in Nat
    BY <1>3, <2>1 DEF SpanType
  <2>3. [span[via] EXCEPT !.mem = span[via].mem + n] \in SpanType
    BY <2>1, <2>2 DEF SpanType
  <2>4. span' = [span EXCEPT ![via] = [span[via] EXCEPT !.mem = span[via].mem + n]]
    BY <1>1, <1>3, <2>1 DEF AddToSpan
  <2>5. QED
    BY <1>1, <2>1, <2>3, <2>4
<1>4. QED
  BY <1>2, <1>3

\* ReserveMemory starts.
LEMMA ReserveMemoryInv ==
  ASSUME IInv, NEW l \in Leaves, NEW via \in Spans \cup {None}, NEW n \in Mem,
         NEW prio \in Prios, ReserveMemory(l, via, n, prio)
  PROVE  IInv'
<1>1. Memory(n) \in Amounts /\ prio \in 0..255
  BY AmountTypes, ResourceAssumption
<1>2. own \in [Leaves -> Amounts] /\ span \in [Spans -> SpanType]
  BY Types DEF IInv
<1>3. /\ Begin(l, "reserveMemory", Do("reserve", edges[l]), Memory(n), prio, via)
      /\ UNCHANGED <<shared, st, edges, attr>> /\ own' = own /\ span' = span
  BY DEF ReserveMemory, leaf, shared
<1>4. QED
  BY <1>1, <1>2, <1>3, BeginStep

\* ReserveMemory ends.
LEMMA MemoryReservedInv ==
  ASSUME IInv, NEW l \in Leaves, MemoryReserved(l)
  PROVE  IInv'
<1> DEFINE n == IF call[l].ok THEN call[l].amt["memory"] ELSE 0
<1>1. call[l] \in Calls /\ call[l].amt \in Amounts
  BY CallType DEF IInv
<1>2. n \in Nat /\ call[l].via \in Spans \cup {None}
  BY <1>1 DEF Calls, Amounts, Res
<1>3. /\ own' = [own EXCEPT ![l] = Plus(own[l], Memory(n))] /\ AddToSpan(call[l].via, n)
      /\ End(l) /\ UNCHANGED shared /\ st' = st /\ edges' = edges /\ attr' = attr
  BY DEF MemoryReserved, shared
<1> HIDE DEF n
<1>4. /\ st \in [Leaves -> StType] /\ edges \in [Leaves -> Seq(Scopes)]
      /\ own \in [Leaves -> Amounts] /\ own[l] \in Amounts /\ span \in [Spans -> SpanType]
  BY Types DEF IInv
<1>5. own' \in [Leaves -> Amounts]
  <2>1. Plus(own[l], Memory(n)) \in Amounts
    BY <1>2, <1>4, AmountTypes, Additions
  <2>2. QED
    BY <2>1, <1>3, <1>4
<1>6. span' \in [Spans -> SpanType]
  <2>1. call[l].via # None => span[call[l].via].mem + n >= 0
    BY <1>2, <1>4 DEF SpanType
  <2>2. QED
    BY <2>1, <1>2, <1>3, SpanMemory
<1>7. attr' = [attr EXCEPT ![l] = attr[l]]
  BY <1>3, AttrFacts
<1>8. QED
  BY <1>3, <1>4, <1>5, <1>6, <1>7, AttrFacts, EndStep

\* ReleaseMemory starts.
LEMMA ReleaseMemoryInv ==
  ASSUME IInv, NEW l \in Leaves, NEW via \in Spans \cup {None}, NEW n \in Mem,
         ReleaseMemory(l, via, n)
  PROVE  IInv'
<1>1. n \in Nat /\ Memory(n) \in Amounts
  BY AmountTypes, ResourceAssumption
<1>2. own \in [Leaves -> Amounts] /\ own[l] \in Amounts /\ span \in [Spans -> SpanType]
  BY Types DEF IInv
<1>3. /\ own' = [own EXCEPT ![l] = Minus(own[l], Memory(n))] /\ AddToSpan(via, 0 - n)
      /\ Begin(l, "releaseMemory", Do("release", edges[l]), Memory(n), 255, None)
      /\ UNCHANGED <<shared, st, edges, attr>>
      /\ via # None => n <= span[via].mem
  BY DEF ReleaseMemory, shared
<1>4. own' \in [Leaves -> Amounts]
  BY <1>1, <1>2, <1>3, Additions
<1>5. span' \in [Spans -> SpanType]
  <2>1. via # None => span[via].mem + (0 - n) >= 0
    BY <1>1, <1>2, <1>3 DEF SpanType
  <2>2. 0 - n \in Int
    BY <1>1
  <2>3. QED
    BY <2>1, <2>2, <1>3, SpanMemory
<1>6. QED
  BY <1>1, <1>3, <1>4, <1>5, Defaults, BeginStep

\* ReleaseMemory ends.
LEMMA MemoryReleasedInv ==
  ASSUME IInv, NEW l \in Leaves, MemoryReleased(l)
  PROVE  IInv'
<1>1. /\ End(l) /\ UNCHANGED shared /\ st' = st /\ own' = own /\ edges' = edges
      /\ attr' = attr /\ span' = span
  BY DEF MemoryReleased, leaf, shared
<1>2. attr' = [attr EXCEPT ![l] = attr[l]]
  BY <1>1, AttrFacts
<1>3. /\ st \in [Leaves -> StType] /\ edges \in [Leaves -> Seq(Scopes)]
      /\ own \in [Leaves -> Amounts] /\ span \in [Spans -> SpanType]
  BY Types DEF IInv
<1>4. QED
  BY <1>1, <1>2, <1>3, AttrFacts, EndStep

\* A span is done, before or after its owner.
LEMMA SpanDoneInv ==
  ASSUME IInv, NEW l \in Leaves, NEW x \in Spans, SpanDone(x, l)
  PROVE  IInv'
<1> DEFINE n == span[x].mem
<1>1. span \in [Spans -> SpanType] /\ span[x] \in SpanType
      /\ own \in [Leaves -> Amounts] /\ own[l] \in Amounts
  BY Types DEF IInv
<1>2. n \in Nat /\ Memory(n) \in Amounts
  BY <1>1, AmountTypes DEF SpanType
<1>3. span' \in [Spans -> SpanType]
  <2>1. [span[x] EXCEPT !.mem = 0, !.open = FALSE] \in SpanType
    BY <1>1 DEF SpanType
  <2>2. span' = [span EXCEPT ![x] = [span[x] EXCEPT !.mem = 0, !.open = FALSE]]
    BY <1>1 DEF SpanDone
  <2>3. QED
    BY <1>1, <2>1, <2>2
<1>4. CASE OwnerOpen(l)
  <2>1. /\ own' = [own EXCEPT ![l] = Minus(own[l], Memory(n))]
        /\ Begin(l, "releaseMemory", Do("release", edges[l]), Memory(n), 255, None)
        /\ UNCHANGED <<shared, st, edges, attr>>
    BY <1>4 DEF SpanDone, shared
  <2> HIDE DEF n
  <2>2. own' \in [Leaves -> Amounts]
    BY <1>1, <1>2, <2>1, Additions
  <2>3. QED
    BY <1>2, <1>3, <2>1, <2>2, Defaults, BeginStep
<1>5. CASE ~OwnerOpen(l)
  <2>1. /\ own' = own /\ call' = call /\ todo' = todo /\ undo' = undo /\ stale' = stale
        /\ usage' = usage /\ refCnt' = refCnt /\ present' = present
        /\ st' = st /\ edges' = edges /\ attr' = attr
    BY <1>5 DEF SpanDone, shared
  <2>2. Known(attr'[l], call'[l].op) /\ TypeOK
    BY <2>1 DEF IInv, KnownInv
  <2>3. QED
    BY <1>3, <2>1, <2>2, Types, QuietStep
<1>6. QED
  BY <1>4, <1>5

----------------------------------------------------------------------------
(* The theorems.                                                           *)

\* Initially nothing is charged.
LEMMA InitInv == Init => IInv
<1> SUFFICES ASSUME Init
             PROVE  IInv
  OBVIOUS
<1>1. Nothing \in Amounts /\ NoCall \in Calls /\ NoCall.op = "none"
  BY AmountTypes DEF NoCall, Calls
<1>2. NoAttr \in Attrs /\ NoAttr.proto = None /\ NoAttr.svc = None
  BY DEF NoAttr, Attrs
<1>3. Permanent \subseteq Scopes
  BY DEF Scopes
<1>4. <<>> \in Seq(Scopes) /\ <<>> \in Seq(Steps)
  OBVIOUS
<1>5. /\ usage \in [Scopes -> Amounts] /\ refCnt \in [Scopes -> Int]
      /\ present \in SUBSET Scopes
  BY <1>1, <1>3 DEF Init
<1>6. /\ st \in [Leaves -> StType] /\ own \in [Leaves -> Amounts]
      /\ edges \in [Leaves -> Seq(Scopes)] /\ attr \in [Leaves -> Attrs]
      /\ call \in [Leaves -> Calls] /\ stale \in [Leaves -> SUBSET Scopes]
  BY <1>1, <1>2, <1>4 DEF Init, StType
<1>7. todo \in [Leaves -> Seq(Steps)] /\ undo \in [Leaves -> Seq(Steps)]
  BY <1>4 DEF Init
<1>8. span \in [Spans -> SpanType]
  BY DEF Init, SpanType
<1>9. TypeOK
  BY <1>5, <1>6, <1>7, <1>8 DEF TypeOK, StType, SpanType
<1>10. WithinLimits
  <2>1. ASSUME NEW sc \in Scopes
        PROVE  Within(LimitOf(sc), usage[sc])
    <3>1. usage[sc] = Nothing
      BY DEF Init
    <3>2. QED
      BY <3>1, ScopeLimits, NothingWithin
  <2>2. QED
    BY <2>1 DEF WithinLimits
<1>11. KnownInv
  BY <1>1, <1>2 DEF Init, KnownInv, Known
<1>12. QED
  BY <1>9, <1>10, <1>11 DEF IInv

\* Every step keeps the invariant.
LEMMA NextInv == IInv /\ [Next]_vars => IInv'
<1> SUFFICES ASSUME IInv, [Next]_vars
             PROVE  IInv'
  OBVIOUS
<1>1. CASE UNCHANGED vars
  BY <1>1 DEF vars, IInv, TypeOK, WithinLimits, Within, LimitOf, KnownInv, Known
<1>2. CASE GC
  BY <1>2, GCInv
<1>3. ASSUME NEW l \in Leaves, Charge(l) \/ Refuse(l) \/ Uncharge(l)
      PROVE  IInv'
  BY <1>3, ChargeInv, RefuseInv, UnchargeInv
<1>4. ASSUME NEW l \in Leaves,
             Opened(l) \/ OpenRefused(l) \/ RetryAllowlisted(l) \/ Done(l) \/ Closed(l)
      PROVE  IInv'
  BY <1>4, OpenedClosedInv, DoneInv, RetryInv
<1>5. ASSUME NEW l \in Leaves, Transferred(l) \/ Set(l) \/ SetRefused(l)
      PROVE  IInv'
  BY <1>5, TransferredInv, SetInv, SetRefusedInv
<1>6. ASSUME NEW l \in Leaves, MemoryReserved(l) \/ MemoryReleased(l)
      PROVE  IInv'
  BY <1>6, MemoryReservedInv, MemoryReleasedInv
<1>7. ASSUME NEW l \in Leaves, NEW x \in Spans, BeginSpan(x, l) \/ SpanDone(x, l)
      PROVE  IInv'
  BY <1>7, BeginSpanInv, SpanDoneInv
<1>8. ASSUME NEW l \in Leaves, NEW via \in Spans \cup {None}, NEW n \in Mem,
             ReleaseMemory(l, via, n) \/ \E prio \in Prios : ReserveMemory(l, via, n, prio)
      PROVE  IInv'
  BY <1>8, ReleaseMemoryInv, ReserveMemoryInv
<1>9. ASSUME NEW l \in Streams, NEW dir \in {"in", "out"}, NEW p \in Peers,
             OpenStream(l, p, dir)
      PROVE  IInv'
  BY <1>9, OpenStreamInv
<1>10. ASSUME NEW l \in Streams,
              \/ \E r \in Protos : SetProtocol(l, r)
              \/ \E v \in Svcs : SetService(l, v)
       PROVE  IInv'
  BY <1>10, SetProtocolInv, SetServiceInv
<1>11. ASSUME NEW l \in Conns, NEW dir \in {"in", "out"}, NEW fd \in BOOLEAN,
              OpenConnection(l, dir, fd)
       PROVE  IInv'
  BY <1>11, BeginConnInv DEF OpenConnection, Leaves
<1>12. ASSUME NEW l \in Conns, NEW p \in Peers, NEW allowed \in BOOLEAN,
              SetPeer(l, p, allowed)
       PROVE  IInv'
  BY <1>12, SetPeerInv
<1>13. QED
  BY <1>1, <1>2, <1>3, <1>4, <1>5, <1>6, <1>7, <1>8, <1>9, <1>10, <1>11, <1>12 DEF Next

\* The inductive invariant holds in every reachable state.
THEOREM Invariance == Spec => []IInv
  BY InitInv, NextInv, PTL DEF Spec

\* Whatever calls fail half way, amounts stay natural numbers and every step of
\* a call visits an existing kind of scope.
THEOREM TypeCorrect == Spec => []TypeOK
<1>1. IInv => TypeOK
  BY DEF IInv
<1>2. QED
  BY <1>1, Invariance, PTL

\* No shared scope is ever charged more than its limits, at any moment between
\* the steps of concurrent calls.
THEOREM LimitsHold == Spec => []WithinLimits
<1>1. IInv => WithinLimits
  BY DEF IInv
<1>2. QED
  BY <1>1, Invariance, PTL

----------------------------------------------------------------------------
(* References.                                                             *)

\* The edges of a stream follow from what was set on it.
FirstEdges(a) == <<PeerScope(a.peer), Transient, System>>
ProtoEdges(a) == <<PeerScope(a.peer), ProtoPeer(a.proto, a.peer), ProtoScope(a.proto), System>>
SvcEdges(a) ==
  <<PeerScope(a.peer), ProtoPeer(a.proto, a.peer), SvcPeer(a.svc, a.peer),
    ProtoScope(a.proto), SvcScope(a.svc), System>>
StreamEdges(a, op) ==
  IF a.peer = None THEN <<>>
  ELSE IF a.proto = None \/ op = "setProtocol" THEN FirstEdges(a)
  ELSE IF a.svc = None \/ op = "setService" THEN ProtoEdges(a)
  ELSE SvcEdges(a)

\* A connection has a peer scope as an edge exactly when its peer is set.
PeerEdges(a) == <<PeerScope(a.peer), IF a.allowlisted THEN AllowlistedSystem ELSE System>>

EdgesFit(l, s, e, a, op) ==
  /\ l \in Streams => e = StreamEdges(a, op) /\ op \notin {"setPeer", "transfer"}
  /\ l \in Conns =>
       /\ a.proto = None /\ a.svc = None /\ op \notin {"setProtocol", "setService"}
       /\ s = "new" => a.peer = None
       /\ IF a.peer = None \/ op \in {"setPeer", "transfer"} THEN Range(e) \subseteq Permanent
          ELSE e = PeerEdges(a)

\* How far a call has come that sets a peer, a protocol or a service: t is left to do, u
\* would undo what was done.
Undone(ok, t, u) == ~ok /\ t = <<>> /\ u = <<>>
SettingPeer(p, ok, t, u) ==
  \/ \E sc \in Permanent :
       ok /\ \/ t = <<Attach(PeerScope(p)), Detach(sc)>> /\ u = <<>>
             \/ t = <<Detach(sc)>> /\ u = <<Detach(PeerScope(p))>>
  \/ ok /\ t = <<>> /\ u = <<Detach(PeerScope(p))>>
  \/ Undone(ok, t, u)
SettingProtocol(r, p, ok, t, u) ==
  \/ ok /\ \/ t = SetProtocolSteps(r, p) /\ u = <<>>
           \/ t = <<Attach(ProtoPeer(r, p)), Detach(Transient)>> /\ u = <<Detach(ProtoScope(r))>>
           \/ t = <<Detach(Transient)>> /\ u = <<Detach(ProtoScope(r)), Detach(ProtoPeer(r, p))>>
           \/ t = <<>> /\ u = <<Detach(ProtoScope(r)), Detach(ProtoPeer(r, p))>>
  \/ ~ok /\ t = <<Detach(ProtoScope(r))>> /\ u = <<>>
  \/ Undone(ok, t, u)
SettingService(v, p, ok, t, u) ==
  \/ ok /\ \/ t = <<Attach(SvcScope(v)), Attach(SvcPeer(v, p))>> /\ u = <<>>
           \/ t = <<Attach(SvcPeer(v, p))>> /\ u = <<Detach(SvcScope(v))>>
           \/ t = <<>> /\ u = <<Detach(SvcScope(v)), Detach(SvcPeer(v, p))>>
  \/ ~ok /\ t = <<Detach(SvcScope(v))>> /\ u = <<>>
  \/ Undone(ok, t, u)

\* The steps of the calls.
Plain == {"none", "open", "reserveMemory", "releaseMemory"}
Leaving == {"close", "abort"}
StepsFit(s, e, a, op, ok, t, u) ==
  /\ op = "none" => t = <<>>
  /\ op \in Plain \ {"none"} => \A x \in Range(t) \cup Range(u) : x.do \in {"reserve", "release"}
  /\ op \in Leaving => /\ \A x \in Range(t) : x.do = "detach"
                       /\ \A i, j \in DOMAIN t : t[i] = t[j] /\ t[i].sc \in Collectable => i = j
                       /\ s # "done"
  /\ op = "transfer" => (\A x \in Range(t) \cup Range(u) : x.sc \in Permanent) /\ s # "done"
  /\ op = "setPeer" => SettingPeer(a.peer, ok, t, u) /\ s # "done"
  /\ op = "setProtocol" => SettingProtocol(a.proto, a.peer, ok, t, u)
  /\ op = "setService" => SettingService(a.svc, a.peer, ok, t, u)
  /\ op \in Sets \cup {"transfer"} => s # "new" /\ (s = "done" => LateCalls)
  /\ op \in {"open", "abort"} => s = "new"
  /\ s = "new" /\ op \notin {"open", "abort"} => e = <<>> /\ t = <<>> /\ u = <<>>

\* A connection or stream keeps a reference to each of its edges until it leaves it, and to
\* what it has attached so far.
RefersAs(s, e, op, t, u, sc) ==
  \/ s # "done" /\ op \notin Leaving /\ sc \in Range(e)
  \/ op \in Leaving \cup Sets /\ Detach(sc) \in Range(t)
  \/ op \in Sets /\ Detach(sc) \in Range(u)

\* What it refers to is not collected.
NotStale(s, e, op, ok, t, u, z) ==
  /\ z \cap Permanent = {}
  /\ s # "done" /\ op \notin Leaving => Range(e) \cap z = {}
  /\ s # "done" /\ op \in Sets /\ ok => \A x \in Range(u) : x.sc \notin z
  /\ \A sc \in Collectable : RefersAs(s, e, op, t, u, sc) => sc \notin z
  /\ s = "new" /\ op \notin {"open", "abort"} => z = {}

LeafOK(l) ==
  /\ EdgesFit(l, st[l], edges[l], attr[l], call[l].op)
  /\ StepsFit(st[l], edges[l], attr[l], call[l].op, call[l].ok, todo[l], undo[l])
  /\ NotStale(st[l], edges[l], call[l].op, call[l].ok, todo[l], undo[l], stale[l])

\* The references to a collectable scope are those of the connections and streams, and at
\* most one for each stream whose protocol was set too late.
Refers(l, sc) == RefersAs(st[l], edges[l], call[l].op, todo[l], undo[l], sc)
Late(l, sc) == /\ LateCalls /\ st[l] = "done" /\ call[l].op # "setProtocol"
               /\ attr[l].proto # None /\ sc = ProtoScope(attr[l].proto)
Referring(sc) == {l \in Leaves : Refers(l, sc)}
Referred(sc) == {l \in Leaves : Refers(l, sc) \/ Late(l, sc)}
Counted(sc) ==
  /\ IsFiniteSet(Referred(sc))
  /\ Cardinality(Referring(sc)) <= refCnt[sc] /\ refCnt[sc] <= Cardinality(Referred(sc))

RefInv == (\A l \in Leaves : LeafOK(l)) /\ (\A sc \in Collectable : Counted(sc))

\* Nothing of l changes.
Same(l) == /\ st'[l] = st[l] /\ edges'[l] = edges[l] /\ attr'[l] = attr[l] /\ call'[l] = call[l]
           /\ todo'[l] = todo[l] /\ undo'[l] = undo[l] /\ stale'[l] = stale[l]

\* A step of l changes the count of a scope as it changes whether l refers to it.
Recounts(l, sc) ==
  \/ /\ refCnt'[sc] = refCnt[sc] /\ (Refers(l, sc)' => Refers(l, sc))
     /\ Refers(l, sc) \/ Late(l, sc) => Refers(l, sc)' \/ Late(l, sc)'
  \/ /\ refCnt'[sc] = refCnt[sc] + 1
     /\ ~Refers(l, sc) /\ ~Late(l, sc) /\ Refers(l, sc)'
  \/ /\ refCnt'[sc] = refCnt[sc] - 1
     /\ Refers(l, sc) /\ ~Refers(l, sc)' /\ ~Late(l, sc)'

\* What is said of a connection or stream stays true while nothing of it changes.
LEMMA LeafSame ==
  ASSUME NEW l, Same(l), LeafOK(l)
  PROVE  LeafOK(l)'
BY DEF Same, LeafOK

\* So does what it refers to.
LEMMA RefersSame ==
  ASSUME NEW l, NEW sc, Same(l)
  PROVE  (Refers(l, sc)' <=> Refers(l, sc)) /\ (Late(l, sc)' <=> Late(l, sc))
BY DEF Same, Refers, Late, ProtoScope

\* A step of one connection or stream keeps the count of a scope right.
LEMMA CountStep ==
  ASSUME NEW sc, NEW l \in Leaves, Counted(sc), refCnt[sc] \in Int,
         \A k \in Leaves \ {l} : Same(k), Recounts(l, sc)
  PROVE  Counted(sc)'
<1> DEFINE R == Referring(sc)
           U == Referred(sc)
           R1 == {k \in Leaves : Refers(k, sc)'}
           U1 == {k \in Leaves : Refers(k, sc)' \/ Late(k, sc)'}
<1>1. R1 = Referring(sc)' /\ U1 = Referred(sc)'
  BY DEF Referring, Referred
<1>2. \A k \in Leaves \ {l} : (k \in R1 <=> k \in R) /\ (k \in U1 <=> k \in U)
  BY RefersSame DEF Referring, Referred
<1>3. /\ l \in R <=> Refers(l, sc)
      /\ l \in U <=> Refers(l, sc) \/ Late(l, sc)
      /\ l \in R1 <=> Refers(l, sc)'
      /\ l \in U1 <=> Refers(l, sc)' \/ Late(l, sc)'
      /\ R \subseteq U /\ U \subseteq Leaves /\ R1 \subseteq U1 /\ U1 \subseteq Leaves
  BY DEF Referring, Referred
<1>4. /\ IsFiniteSet(U) /\ IsFiniteSet(R) /\ Cardinality(R) \in Nat /\ Cardinality(U) \in Nat
      /\ Cardinality(R) <= refCnt[sc] /\ refCnt[sc] <= Cardinality(U)
  BY <1>3, FS_Subset, FS_CardinalityType DEF Counted
<1> HIDE DEF R, U, R1, U1
<1>5. /\ IsFiniteSet(U1)
      /\ Cardinality(R1) <= refCnt'[sc] /\ refCnt'[sc] <= Cardinality(U1)
  <2>1. CASE /\ refCnt'[sc] = refCnt[sc] /\ (Refers(l, sc)' => Refers(l, sc))
             /\ Refers(l, sc) \/ Late(l, sc) => Refers(l, sc)' \/ Late(l, sc)'
    <3>1. R1 \subseteq R /\ U \subseteq U1 /\ U1 \subseteq U \cup {l}
      BY <1>2, <1>3, <2>1
    <3>2. IsFiniteSet(U \cup {l})
      BY <1>4, FS_AddElement
    <3>3. IsFiniteSet(U1) /\ Cardinality(U) <= Cardinality(U1) /\ Cardinality(R1) <= Cardinality(R)
      BY <1>4, <3>1, <3>2, FS_Subset
    <3>4. Cardinality(R1) \in Nat /\ Cardinality(U1) \in Nat
      BY <1>4, <3>1, <3>3, FS_Subset, FS_CardinalityType
    <3> QED
      BY <1>4, <2>1, <3>3, <3>4
  <2>2. CASE /\ refCnt'[sc] = refCnt[sc] + 1
             /\ ~Refers(l, sc) /\ ~Late(l, sc) /\ Refers(l, sc)'
    <3>1. R1 = R \cup {l} /\ U1 = U \cup {l} /\ l \notin R /\ l \notin U
      BY <1>2, <1>3, <2>2
    <3>2. IsFiniteSet(U1) /\ Cardinality(R1) = Cardinality(R) + 1 /\ Cardinality(U1) = Cardinality(U) + 1
      BY <1>4, <3>1, FS_AddElement
    <3> QED
      BY <1>4, <2>2, <3>2
  <2>3. CASE /\ refCnt'[sc] = refCnt[sc] - 1
             /\ Refers(l, sc) /\ ~Refers(l, sc)' /\ ~Late(l, sc)'
    <3>1. R1 = R \ {l} /\ U1 = U \ {l} /\ l \in R /\ l \in U
      BY <1>2, <1>3, <2>3
    <3>2. IsFiniteSet(U1) /\ Cardinality(R1) = Cardinality(R) - 1 /\ Cardinality(U1) = Cardinality(U) - 1
      BY <1>4, <3>1, FS_RemoveElement
    <3> QED
      BY <1>4, <2>3, <3>2
  <2> QED
    BY <2>1, <2>2, <2>3 DEF Recounts
<1> QED
  BY <1>1, <1>5 DEF Counted

\* A step of one connection or stream.
LEMMA LeafStep ==
  ASSUME RefInv, TypeOK, NEW l \in Leaves, \A k \in Leaves \ {l} : Same(k),
         LeafOK(l)', \A sc \in Collectable : Recounts(l, sc)
  PROVE  RefInv'
<1>1. \A k \in Leaves : LeafOK(k)'
  BY LeafSame DEF RefInv
<1>2. \A sc \in Collectable : refCnt[sc] \in Int
  BY DEF TypeOK, Scopes
<1>3. \A sc \in Collectable : Counted(sc)'
  BY <1>2, CountStep DEF RefInv
<1> QED
  BY <1>1, <1>3 DEF RefInv

----------------------------------------------------------------------------
(* Scopes and steps.                                                       *)

\* Scopes of different kinds or names are different.
LEMMA ScopesDiffer ==
  /\ \A sc \in Permanent : sc \notin Collectable
  /\ \A p, q : PeerScope(p) = PeerScope(q) => p = q
  /\ \A r, q : ProtoScope(r) = ProtoScope(q) => r = q
  /\ \A p, r : PeerScope(p) # ProtoScope(r)
  /\ \A r, p, x, y : ProtoPeer(r, p) = ProtoPeer(x, y) => r = x /\ p = y
  /\ \A v, p, x, y : SvcPeer(v, p) = SvcPeer(x, y) => v = x /\ p = y
  /\ \A r, p, x, y : ProtoPeer(r, p) # SvcPeer(x, y)
  /\ \A r, p, x : /\ ProtoPeer(r, p) # PeerScope(x) /\ SvcPeer(r, p) # PeerScope(x)
                  /\ ProtoPeer(r, p) # ProtoScope(x) /\ SvcPeer(r, p) # ProtoScope(x)
                  /\ ProtoPeer(r, p) # SvcScope(x) /\ SvcPeer(r, p) # SvcScope(x)
  /\ \A p : PeerScope(p) \notin Permanent
  /\ \A r : ProtoScope(r) \notin Permanent
  /\ \A v : SvcScope(v) \notin Permanent /\ SvcScope(v) \notin Collectable
  /\ \A r, p : ProtoPeer(r, p) \notin Permanent /\ ProtoPeer(r, p) \notin Collectable
  /\ \A v, p : SvcPeer(v, p) \notin Permanent /\ SvcPeer(v, p) \notin Collectable
  /\ \A p \in Peers : PeerScope(p) \in Collectable
  /\ \A r \in Protos : ProtoScope(r) \in Collectable
  /\ System \in Permanent /\ Transient \in Permanent
  /\ AllowlistedSystem \in Permanent /\ AllowlistedTransient \in Permanent
<1> USE DEF Permanent, Collectable, System, Transient, AllowlistedSystem, AllowlistedTransient,
            PeerScope, ProtoScope, SvcScope, ProtoPeer, SvcPeer
<1>1. \A p : PeerScope(p)[1] = "peer" /\ PeerScope(p)[2] = p
  OBVIOUS
<1>2. \A p : ProtoScope(p)[1] = "proto" /\ ProtoScope(p)[2] = p
  OBVIOUS
<1>3. /\ \A v : SvcScope(v)[1] = "svc"
      /\ \A r, p : ProtoPeer(r, p)[1] = "protoPeer" /\ SvcPeer(r, p)[1] = "svcPeer"
      /\ \A r, p : ProtoPeer(r, p)[2] = r /\ ProtoPeer(r, p)[3] = p
      /\ \A r, p : SvcPeer(r, p)[2] = r /\ SvcPeer(r, p)[3] = p
  OBVIOUS
<1>4. \A sc \in Permanent : sc[1] \in {"system", "transient", "allowlistedSystem", "allowlistedTransient"}
  OBVIOUS
<1>5. \A sc \in Collectable : sc[1] \in {"peer", "proto"}
  OBVIOUS
<1>6. /\ \A p \in Peers : PeerScope(p) \in Collectable
      /\ \A r \in Protos : ProtoScope(r) \in Collectable
      /\ System \in Permanent /\ Transient \in Permanent
      /\ AllowlistedSystem \in Permanent /\ AllowlistedTransient \in Permanent
  OBVIOUS
<1> HIDE DEF Permanent, Collectable, System, Transient, AllowlistedSystem, AllowlistedTransient,
             PeerScope, ProtoScope, SvcScope, ProtoPeer, SvcPeer
<1>7. /\ \A r, p, x, y : ProtoPeer(r, p) = ProtoPeer(x, y) => r = x /\ p = y
      /\ \A v, p, x, y : SvcPeer(v, p) = SvcPeer(x, y) => v = x /\ p = y
  BY <1>3
<1>8. /\ \A r, p, x, y : ProtoPeer(r, p) # SvcPeer(x, y)
      /\ \A r, p, x : /\ ProtoPeer(r, p) # PeerScope(x) /\ SvcPeer(r, p) # PeerScope(x)
                      /\ ProtoPeer(r, p) # ProtoScope(x) /\ SvcPeer(r, p) # ProtoScope(x)
                      /\ ProtoPeer(r, p) # SvcScope(x) /\ SvcPeer(r, p) # SvcScope(x)
  BY <1>1, <1>2, <1>3
<1>9. /\ \A p, q : PeerScope(p) = PeerScope(q) => p = q
      /\ \A r, q : ProtoScope(r) = ProtoScope(q) => r = q
      /\ \A p, r : PeerScope(p) # ProtoScope(r)
  BY <1>1, <1>2
<1>10. /\ \A sc \in Permanent : sc \notin Collectable
       /\ \A p : PeerScope(p) \notin Permanent
       /\ \A r : ProtoScope(r) \notin Permanent
       /\ \A v : SvcScope(v) \notin Permanent /\ SvcScope(v) \notin Collectable
       /\ \A r, p : ProtoPeer(r, p) \notin Permanent /\ ProtoPeer(r, p) \notin Collectable
       /\ \A v, p : SvcPeer(v, p) \notin Permanent /\ SvcPeer(v, p) \notin Collectable
  BY <1>1, <1>2, <1>3, <1>4, <1>5
<1> QED
  BY <1>6, <1>7, <1>8, <1>9, <1>10

\* The scopes of the edges.
LEMMA EdgeScopes ==
  ASSUME NEW a
  PROVE  /\ Range(FirstEdges(a)) = {PeerScope(a.peer), Transient, System}
         /\ Range(ProtoEdges(a)) =
              {PeerScope(a.peer), ProtoPeer(a.proto, a.peer), ProtoScope(a.proto), System}
         /\ Range(SvcEdges(a)) =
              {PeerScope(a.peer), ProtoPeer(a.proto, a.peer), SvcPeer(a.svc, a.peer),
               ProtoScope(a.proto), SvcScope(a.svc), System}
         /\ Range(PeerEdges(a)) =
              {PeerScope(a.peer), IF a.allowlisted THEN AllowlistedSystem ELSE System}
<1>1. \A x, y, z : Range(<<x, y, z>>) = {x, y, z}
  BY DEF Range
<1>2. \A x, y : Range(<<x, y>>) = {x, y}
  BY DEF Range
<1>3. \A x, y, z, w : Range(<<x, y, z, w>>) = {x, y, z, w}
  BY DEF Range
<1>4. \A x, y, z, w, v, u : Range(<<x, y, z, w, v, u>>) = {x, y, z, w, v, u}
  BY DEF Range
<1> QED
  BY <1>1, <1>2, <1>3, <1>4 DEF FirstEdges, ProtoEdges, SvcEdges, PeerEdges

\* No scope is an edge twice.
LEMMA EdgesDiffer ==
  ASSUME NEW a, NEW e \in {FirstEdges(a), ProtoEdges(a), SvcEdges(a), PeerEdges(a)},
         NEW i \in DOMAIN e, NEW j \in DOMAIN e, e[i] = e[j], e[i] \in Collectable
  PROVE  i = j
<1> DEFINE F(x) == x \in Collectable
<1>1. /\ PeerScope(a.peer) # ProtoScope(a.proto)
      /\ ~F(System) /\ ~F(Transient) /\ ~F(AllowlistedSystem) /\ ~F(SvcScope(a.svc))
      /\ ~F(ProtoPeer(a.proto, a.peer)) /\ ~F(SvcPeer(a.svc, a.peer))
  BY ScopesDiffer
<1>2. F(e[i]) /\ F(e[j])
  OBVIOUS
<1> HIDE DEF F
<1>3. CASE e = FirstEdges(a)
  BY <1>1, <1>2, <1>3 DEF FirstEdges
<1>4. CASE e = ProtoEdges(a)
  BY <1>1, <1>2, <1>4 DEF ProtoEdges
<1>5. CASE e = SvcEdges(a)
  BY <1>1, <1>2, <1>5 DEF SvcEdges
<1>6. CASE e = PeerEdges(a)
  <2> DEFINE y == IF a.allowlisted THEN AllowlistedSystem ELSE System
  <2>1. ~F(y) /\ e = <<PeerScope(a.peer), y>>
    BY <1>1, <1>6 DEF PeerEdges
  <2> HIDE DEF y
  <2> QED
    BY <1>2, <2>1
<1> QED
  BY <1>3, <1>4, <1>5, <1>6

\* The members of lists that are made from others.
LEMMA SeqRange ==
  /\ Range(<<>>) = {}
  /\ \A x : Range(<<x>>) = {x}
  /\ \A x, y : Range(<<x, y>>) = {x, y}
  /\ \A x, y, z : Range(<<x, y, z>>) = {x, y, z}
  BY DEF Range

\* The first member of a list and the others.
LEMMA TailRange ==
  ASSUME NEW S, NEW s \in Seq(S), s # <<>>
  PROVE  Range(s) = {Head(s)} \cup Range(Tail(s)) /\ Head(s) = s[1]
<1>1. Len(s) \in Nat \ {0} /\ DOMAIN s = 1..Len(s)
  OBVIOUS
<1>2. Tail(s) \in Seq(S) /\ Len(Tail(s)) = Len(s) - 1 /\ DOMAIN Tail(s) = 1..(Len(s) - 1)
  BY <1>1
<1>3. \A i \in DOMAIN Tail(s) : Tail(s)[i] = s[i + 1] /\ i + 1 \in DOMAIN s
  BY <1>1, <1>2
<1>4. Head(s) = s[1] /\ 1 \in DOMAIN s
  BY <1>1
<1>5. \A i \in DOMAIN s : i = 1 \/ (i - 1 \in DOMAIN Tail(s) /\ Tail(s)[i - 1] = s[i])
  BY <1>1, <1>2
<1>6. Range(Tail(s)) \subseteq Range(s)
  BY <1>3 DEF Range
<1>7. Range(s) \subseteq {Head(s)} \cup Range(Tail(s))
  BY <1>4, <1>5 DEF Range
<1> QED
  BY <1>4, <1>6, <1>7 DEF Range

\* A list with one more member.
LEMMA AppendRange ==
  ASSUME NEW S, NEW s \in Seq(S), NEW x \in S
  PROVE  Range(Append(s, x)) = Range(s) \cup {x}
<1>1. Len(s) \in Nat /\ DOMAIN s = 1..Len(s) /\ DOMAIN Append(s, x) = 1..(Len(s) + 1)
  OBVIOUS
<1>2. /\ \A i \in DOMAIN s : Append(s, x)[i] = s[i]
      /\ Append(s, x)[Len(s) + 1] = x
  BY <1>1
<1>3. \A i \in DOMAIN Append(s, x) : i = Len(s) + 1 \/ i \in DOMAIN s
  BY <1>1
<1> QED
  BY <1>1, <1>2, <1>3 DEF Range

\* The steps that visit a list of scopes.
LEMMA DoRange ==
  ASSUME NEW what, NEW e
  PROVE  /\ Range(Do(what, e)) = {[do |-> what, sc |-> x] : x \in Range(e)}
         /\ DOMAIN Do(what, e) = DOMAIN e
         /\ \A i \in DOMAIN e : Do(what, e)[i] = [do |-> what, sc |-> e[i]]
  BY DEF Do, Range

\* Who has an edge to a scope within a protocol or service has those it is part of, and no
\* collectable edge twice.
LEMMA EdgesClosed ==
  ASSUME NEW l \in Leaves, NEW s, NEW e, NEW a, NEW op, EdgesFit(l, s, e, a, op)
  PROVE  /\ \A r, p : ProtoPeer(r, p) \in Range(e) =>
                        PeerScope(p) \in Range(e) /\ ProtoScope(r) \in Range(e)
         /\ \A v, p : SvcPeer(v, p) \in Range(e) => PeerScope(p) \in Range(e)
         /\ \A i, j \in DOMAIN e : e[i] = e[j] /\ e[i] \in Collectable => i = j
<1>1. \/ e \in {FirstEdges(a), ProtoEdges(a), SvcEdges(a), PeerEdges(a)}
      \/ Range(e) \subseteq Permanent
  BY SeqRange DEF EdgesFit, StreamEdges, Leaves
<1> DEFINE others == {PeerScope(a.peer), ProtoScope(a.proto), SvcScope(a.svc), System, Transient,
                      AllowlistedSystem}
<1>7. ASSUME NEW x, NEW p
      PROVE  /\ ProtoPeer(x, p) \notin others /\ SvcPeer(x, p) \notin others
             /\ ProtoPeer(x, p) # SvcPeer(a.svc, a.peer)
             /\ SvcPeer(x, p) # ProtoPeer(a.proto, a.peer)
  <2>1. /\ ProtoPeer(x, p) \notin Permanent /\ SvcPeer(x, p) \notin Permanent
        /\ System \in Permanent /\ Transient \in Permanent /\ AllowlistedSystem \in Permanent
    BY ScopesDiffer
  <2>2. /\ ProtoPeer(x, p) # PeerScope(a.peer) /\ SvcPeer(x, p) # PeerScope(a.peer)
        /\ ProtoPeer(x, p) # ProtoScope(a.proto) /\ SvcPeer(x, p) # ProtoScope(a.proto)
        /\ ProtoPeer(x, p) # SvcScope(a.svc) /\ SvcPeer(x, p) # SvcScope(a.svc)
        /\ ProtoPeer(x, p) # SvcPeer(a.svc, a.peer) /\ SvcPeer(x, p) # ProtoPeer(a.proto, a.peer)
    BY DEF ProtoPeer, SvcPeer, PeerScope, ProtoScope, SvcScope
  <2> QED
    BY <2>1, <2>2
<1>2. CASE Range(e) \subseteq Permanent
  <2>1. \A i \in DOMAIN e : e[i] \in Permanent
    BY <1>2 DEF Range
  <2> QED
    BY <1>2, <2>1, ScopesDiffer
<1>3. CASE e = FirstEdges(a)
  <2>1. /\ \A r, p : ProtoPeer(r, p) \notin Range(e)
        /\ \A v, p : SvcPeer(v, p) \notin Range(e)
    BY <1>3, <1>7, EdgeScopes
  <2> QED
    BY <1>3, <2>1, EdgesDiffer
<1>4. CASE e = ProtoEdges(a)
  <2>1. /\ \A r, p : ProtoPeer(r, p) \in Range(e) => r = a.proto /\ p = a.peer
        /\ \A v, p : SvcPeer(v, p) \notin Range(e)
    BY <1>4, EdgeScopes, ScopesDiffer
  <2>2. PeerScope(a.peer) \in Range(e) /\ ProtoScope(a.proto) \in Range(e)
    BY <1>4, EdgeScopes
  <2> QED
    BY <1>4, <2>1, <2>2, EdgesDiffer
<1>5. CASE e = SvcEdges(a)
  <2>1. /\ \A r, p : ProtoPeer(r, p) \in Range(e) => r = a.proto /\ p = a.peer
        /\ \A v, p : SvcPeer(v, p) \in Range(e) => p = a.peer
    BY <1>5, <1>7, EdgeScopes, ScopesDiffer
  <2>2. PeerScope(a.peer) \in Range(e) /\ ProtoScope(a.proto) \in Range(e)
    BY <1>5, EdgeScopes
  <2> QED
    BY <1>5, <2>1, <2>2, EdgesDiffer
<1>6. CASE e = PeerEdges(a)
  <2>1. /\ \A r, p : ProtoPeer(r, p) \notin Range(e)
        /\ \A v, p : SvcPeer(v, p) \notin Range(e)
    BY <1>6, <1>7, EdgeScopes
  <2> QED
    BY <1>6, <2>1, EdgesDiffer
<1> QED
  BY <1>1, <1>2, <1>3, <1>4, <1>5, <1>6

----------------------------------------------------------------------------
(* Calls that move no edges.                                               *)

\* A call that only reserves and releases refers to its edges all the time.
LEMMA PlainStep ==
  ASSUME RefInv, TypeOK, NEW l \in Leaves, \A k \in Leaves \ {l} : Same(k),
         call[l].op \in Plain, call'[l].op \in Plain,
         edges'[l] = edges[l], attr'[l] = attr[l], stale'[l] = stale[l],
         st'[l] = st[l] \/ (st[l] = "new" /\ call[l].op = "open" /\ st'[l] = "live"),
         call'[l].op = "none" => todo'[l] = <<>>,
         call'[l].op # "none" =>
           \A x \in Range(todo'[l]) \cup Range(undo'[l]) : x.do \in {"reserve", "release"},
         call'[l].op = "open" => st'[l] = "new",
         st'[l] = "new" /\ call'[l].op # "open" =>
           st[l] = "new" /\ call[l].op # "open" /\ todo'[l] = <<>> /\ undo'[l] = <<>>,
         \A sc \in Collectable : refCnt'[sc] = refCnt[sc]
  PROVE  RefInv'
<1>1. LeafOK(l)
  BY DEF RefInv
<1>2. /\ call[l].op \notin Leaving \cup Sets \cup {"transfer"}
      /\ call'[l].op \notin Leaving \cup Sets \cup {"transfer"}
  BY DEF Plain, Leaving, Sets
<1>3. st'[l] = "done" <=> st[l] = "done"
  OBVIOUS
<1>4. EdgesFit(l, st'[l], edges'[l], attr'[l], call'[l].op)
  BY <1>1, <1>2 DEF LeafOK, EdgesFit, StreamEdges, Sets
<1>5. StepsFit(st'[l], edges'[l], attr'[l], call'[l].op, call'[l].ok, todo'[l], undo'[l])
  BY <1>1, <1>2 DEF LeafOK, StepsFit, Sets, Leaving
<1>6. \A sc : (Refers(l, sc)' <=> Refers(l, sc)) /\ (Late(l, sc)' <=> Late(l, sc))
  BY <1>2, <1>3 DEF Refers, RefersAs, Late, Sets, ProtoScope
<1>7. NotStale(st'[l], edges'[l], call'[l].op, call'[l].ok, todo'[l], undo'[l], stale'[l])
  <2>1. \A sc \in Collectable :
          RefersAs(st'[l], edges'[l], call'[l].op, todo'[l], undo'[l], sc) => sc \notin stale'[l]
    BY <1>1, <1>6 DEF LeafOK, NotStale, Refers
  <2> QED
    BY <1>1, <1>2, <1>3, <2>1 DEF LeafOK, NotStale, Leaving
<1>8. LeafOK(l)'
  BY <1>4, <1>5, <1>7 DEF LeafOK
<1>9. \A sc \in Collectable : Recounts(l, sc)
  BY <1>6 DEF Recounts
<1> QED
  BY <1>8, <1>9, LeafStep

\* Short lists of steps.
LEMMA ShortSeqs ==
  /\ \A x : <<x>> # <<>> /\ Head(<<x>>) = x /\ Tail(<<x>>) = <<>> /\ Append(<<>>, x) = <<x>>
  /\ \A x, y : /\ <<x, y>> # <<>> /\ Head(<<x, y>>) = x /\ Tail(<<x, y>>) = <<y>>
               /\ Append(<<x>>, y) = <<x, y>>
  /\ \A x, y, z : /\ <<x, y, z>> # <<>> /\ Head(<<x, y, z>>) = x /\ Tail(<<x, y, z>>) = <<y, z>>
<1>1. \A x : <<x>> # <<>> /\ Head(<<x>>) = x /\ Tail(<<x>>) = <<>> /\ Append(<<>>, x) = <<x>>
  OBVIOUS
<1>2. \A x, y : <<x, y>> # <<>> /\ Head(<<x, y>>) = x /\ Tail(<<x, y>>) = <<y>>
  OBVIOUS
<1>3. ASSUME NEW x, NEW y
      PROVE  Append(<<x>>, y) = <<x, y>>
  <2>1. <<x>> \in Seq({x, y}) /\ Len(<<x>>) = 1 /\ <<x>>[1] = x
    OBVIOUS
  <2>2. /\ Append(<<x>>, y) \in Seq({x, y}) /\ Len(Append(<<x>>, y)) = 2
        /\ Append(<<x>>, y)[1] = x /\ Append(<<x>>, y)[2] = y
    BY <2>1
  <2>3. <<x, y>> \in Seq({x, y}) /\ Len(<<x, y>>) = 2
    OBVIOUS
  <2>4. \A i \in 1..2 : Append(<<x>>, y)[i] = <<x, y>>[i]
    BY <2>2
  <2> QED
    BY <2>2, <2>3, <2>4, SeqEqual
<1>4. \A x, y, z : <<x, y, z>> # <<>> /\ Head(<<x, y, z>>) = x
  OBVIOUS
<1>5. \A x, y, z : Tail(<<x, y, z>>) = <<y, z>>
  OBVIOUS
<1> QED
  BY <1>1, <1>2, <1>3, <1>4, <1>5

\* What is attached and detached.
LEMMA StepNames ==
  /\ \A sc : /\ Attach(sc).do = "attach" /\ Attach(sc).sc = sc
             /\ Detach(sc).do = "detach" /\ Detach(sc).sc = sc
             /\ Takes(Attach(sc)) /\ ~Takes(Detach(sc))
             /\ Inverse1(Attach(sc)) = Detach(sc)
  /\ \A x, y : Detach(x) = Detach(y) => x = y
  /\ \A x, y : Detach(x) # Attach(y)
<1>1. \A sc : /\ Attach(sc).do = "attach" /\ Attach(sc).sc = sc
              /\ Detach(sc).do = "detach" /\ Detach(sc).sc = sc
  BY DEF Attach, Detach
<1>2. \A sc : Takes(Attach(sc)) /\ ~Takes(Detach(sc))
  BY <1>1 DEF Takes
<1>3. \A sc : Inverse1(Attach(sc)) = Detach(sc)
  BY DEF Inverse1, Attach, Detach
<1> QED
  BY <1>1, <1>2, <1>3

\* References are taken where they are asked for; the scopes that are made for it are
\* referred to by nobody else.
LEMMA RefsAt ==
  ASSUME TypeOK, NEW scs, NEW sc \in Collectable
  PROVE  Refs(scs)[sc] = IF sc \in scs THEN refCnt[sc] + 1 ELSE refCnt[sc]
<1>1. sc \in Scopes /\ sc # System /\ refCnt[sc] \in Int
  BY ScopesDiffer DEF Scopes, TypeOK
<1> QED
  BY <1>1 DEF Refs

----------------------------------------------------------------------------
(* Calls that move edges.                                                  *)

\* A transfer visits permanent scopes only.
LEMMA TransferStep ==
  ASSUME RefInv, TypeOK, NEW l \in Leaves, \A k \in Leaves \ {l} : Same(k),
         call[l].op = "transfer", call'[l].op = "transfer",
         st'[l] = st[l], edges'[l] = edges[l], attr'[l] = attr[l], stale'[l] \subseteq stale[l],
         \A x \in Range(todo'[l]) \cup Range(undo'[l]) : x.sc \in Permanent,
         \A sc \in Collectable : refCnt'[sc] = refCnt[sc]
  PROVE  RefInv'
<1>1. LeafOK(l)
  BY DEF RefInv
<1>2. EdgesFit(l, st'[l], edges'[l], attr'[l], call'[l].op)
  BY <1>1 DEF LeafOK
<1>3. StepsFit(st'[l], edges'[l], attr'[l], call'[l].op, call'[l].ok, todo'[l], undo'[l])
  BY <1>1 DEF LeafOK, StepsFit, Sets, Leaving, Plain
<1>4. \A sc : (Refers(l, sc)' <=> Refers(l, sc)) /\ (Late(l, sc)' <=> Late(l, sc))
  BY DEF Refers, RefersAs, Late, Sets, Leaving, ProtoScope
<1>5. NotStale(st'[l], edges'[l], call'[l].op, call'[l].ok, todo'[l], undo'[l], stale'[l])
  <2>1. \A sc \in Collectable :
          RefersAs(st'[l], edges'[l], call'[l].op, todo'[l], undo'[l], sc) => sc \notin stale'[l]
    BY <1>1, <1>4 DEF LeafOK, NotStale, Refers
  <2>2. st'[l] # "new"
    BY <1>1 DEF LeafOK, StepsFit
  <2> QED
    BY <1>1, <2>1, <2>2 DEF LeafOK, NotStale, Leaving, Sets
<1>6. LeafOK(l)'
  BY <1>2, <1>3, <1>5 DEF LeafOK
<1>7. \A sc \in Collectable : Recounts(l, sc)
  BY <1>4 DEF Recounts
<1> QED
  BY <1>6, <1>7, LeafStep

\* What a call that sets something has attached.
Attached(l, sc) == Detach(sc) \in Range(todo[l]) \cup Range(undo[l])

\* A step of such a call attaches or detaches a scope, or none.
LEMMA MoveStep ==
  ASSUME RefInv, TypeOK, NEW l \in Leaves, \A k \in Leaves \ {l} : Same(k),
         call[l].op \in Sets, call'[l].op = call[l].op,
         st'[l] = st[l], edges'[l] = edges[l], attr'[l] = attr[l], stale'[l] \subseteq stale[l],
         StepsFit(st'[l], edges'[l], attr'[l], call'[l].op, call'[l].ok, todo'[l], undo'[l]),
         call'[l].ok => /\ call[l].ok
                        /\ \A x \in Range(undo'[l]) : x \in Range(undo[l]) \/ x.sc \notin stale'[l],
         \A sc \in Collectable :
           \/ refCnt'[sc] = refCnt[sc] /\ (Attached(l, sc)' <=> Attached(l, sc))
           \/ /\ refCnt'[sc] = refCnt[sc] + 1 /\ call[l].op # "setService"
              /\ ~Attached(l, sc) /\ Attached(l, sc)'
              /\ sc \notin Range(edges[l]) /\ sc \notin stale'[l]
           \/ /\ refCnt'[sc] = refCnt[sc] - 1 /\ call[l].op # "setService"
              /\ Attached(l, sc) /\ ~Attached(l, sc)'
              /\ sc \notin Range(edges[l])
  PROVE  RefInv'
<1>1. LeafOK(l)
  BY DEF RefInv
<1>2. EdgesFit(l, st'[l], edges'[l], attr'[l], call'[l].op)
  BY <1>1 DEF LeafOK
<1>3. /\ \A sc : Refers(l, sc) <=> (st[l] # "done" /\ sc \in Range(edges[l])) \/ Attached(l, sc)
      /\ \A sc : Refers(l, sc)' <=> (st[l] # "done" /\ sc \in Range(edges[l])) \/ Attached(l, sc)'
  BY DEF Refers, RefersAs, Sets, Leaving, Attached
<1>4. \A sc : Late(l, sc)' <=> Late(l, sc)
  BY DEF Late, ProtoScope
<1>5. \A sc : call[l].op # "setService" => ~Late(l, sc)
  BY <1>1 DEF LeafOK, StepsFit, Sets, Late
<1>6. \A sc \in Collectable : Recounts(l, sc)
  BY <1>3, <1>4, <1>5 DEF Recounts
<1>7. NotStale(st'[l], edges'[l], call'[l].op, call'[l].ok, todo'[l], undo'[l], stale'[l])
  <2>1. \A sc \in Collectable : Refers(l, sc)' => sc \notin stale'[l]
    <3>1. \A sc \in Collectable : Refers(l, sc) => sc \notin stale[l]
      BY <1>1 DEF LeafOK, NotStale, Refers
    <3> QED
      BY <1>3, <3>1
  <2>2. st'[l] # "new"
    BY <1>1 DEF LeafOK, StepsFit
  <2>3. st'[l] # "done" /\ call'[l].ok => \A x \in Range(undo'[l]) : x.sc \notin stale'[l]
    BY <1>1 DEF LeafOK, NotStale
  <2> QED
    BY <1>1, <2>1, <2>2, <2>3 DEF LeafOK, NotStale, Leaving, Sets, Refers
<1>8. LeafOK(l)'
  BY <1>2, <1>7 DEF LeafOK
<1> QED
  BY <1>6, <1>8, LeafStep

----------------------------------------------------------------------------
(* The steps inside a call.                                                *)

\* What a leaf has.
LEMMA LeafTypes ==
  ASSUME IInv, NEW l \in Leaves
  PROVE  /\ todo[l] \in Seq(Steps) /\ undo[l] \in Seq(Steps)
         /\ call[l].op \in Plain \cup Leaving \cup {"transfer"} \cup Sets
         /\ call[l].ok \in BOOLEAN /\ st[l] \in {"new", "live", "failed", "done"}
         /\ stale[l] \subseteq Scopes /\ attr[l] \in Attrs /\ Known(attr[l], call[l].op)
<1>1. call[l] \in Calls /\ attr[l] \in Attrs
  BY DEF IInv, TypeOK
<1>2. call[l].op \in Plain \cup Leaving \cup {"transfer"} \cup Sets /\ call[l].ok \in BOOLEAN
  BY <1>1 DEF Calls, Plain, Leaving
<1> QED
  BY <1>1, <1>2 DEF IInv, TypeOK, KnownInv

\* The scope that a call sets is collectable or not, and is no edge yet.
LEMMA NewScopes ==
  ASSUME IInv, RefInv, NEW l \in Leaves, LateCalls \in BOOLEAN
  PROVE  /\ call[l].op = "setPeer" => /\ PeerScope(attr[l].peer) \in Collectable
                                      /\ PeerScope(attr[l].peer) \notin Range(edges[l])
         /\ call[l].op = "setProtocol" => /\ ProtoScope(attr[l].proto) \in Collectable
                                          /\ ProtoScope(attr[l].proto) \notin Range(edges[l])
<1>1. /\ LeafOK(l) /\ Known(attr[l], call[l].op)
  BY LeafTypes DEF RefInv
<1>2. ASSUME call[l].op = "setPeer"
      PROVE  /\ PeerScope(attr[l].peer) \in Collectable
             /\ PeerScope(attr[l].peer) \notin Range(edges[l])
  <2>1. attr[l].peer \in Peers /\ l \in Conns
    BY <1>1, <1>2 DEF Known, LeafOK, EdgesFit, Leaves
  <2>2. Range(edges[l]) \subseteq Permanent
    BY <1>1, <1>2, <2>1 DEF LeafOK, EdgesFit
  <2> QED
    BY <2>1, <2>2, ScopesDiffer
<1>3. ASSUME call[l].op = "setProtocol"
      PROVE  /\ ProtoScope(attr[l].proto) \in Collectable
             /\ ProtoScope(attr[l].proto) \notin Range(edges[l])
  <2>1. attr[l].proto \in Protos /\ attr[l].peer \in Peers /\ l \in Streams
    BY <1>1, <1>3 DEF Known, LeafOK, EdgesFit, Leaves
  <2>2. edges[l] = FirstEdges(attr[l])
    BY <1>1, <1>3, <2>1, ResourceAssumption DEF LeafOK, EdgesFit, StreamEdges
  <2>3. /\ ProtoScope(attr[l].proto) # PeerScope(attr[l].peer)
        /\ ProtoScope(attr[l].proto) \notin Permanent
        /\ System \in Permanent /\ Transient \in Permanent
    BY ScopesDiffer
  <2> QED
    BY <2>1, <2>2, <2>3, EdgeScopes, ScopesDiffer
<1> QED
  BY <1>2, <1>3

\* A shared scope is charged.
LEMMA ChargeRefs ==
  ASSUME IInv, RefInv, NEW l \in Leaves, Charge(l)
  PROVE  RefInv'
<1> DEFINE h == Head1(l)
           new == IF h.do = "attach" THEN {h.sc} ELSE {}
           a == attr[l]
<1>1. /\ todo[l] # <<>> /\ Takes(h) /\ h = Head(todo[l])
      /\ refCnt' = Refs(new)
      /\ stale' = [stale EXCEPT ![l] = stale[l] \ new]
      /\ undo' = [undo EXCEPT ![l] = Append(undo[l], Inverse1(h))]
      /\ todo' = [todo EXCEPT ![l] = Tail(todo[l])]
      /\ st' = st /\ edges' = edges /\ attr' = attr /\ call' = call
  BY DEF Charge, leaf, Head1
<1>2. TypeOK /\ LeafOK(l)
  BY DEF IInv, RefInv
<1>3. /\ stale'[l] = stale[l] \ new /\ undo'[l] = Append(undo[l], Inverse1(h))
      /\ todo'[l] = Tail(todo[l])
      /\ \A k \in Leaves \ {l} : Same(k)
  BY <1>1, <1>2 DEF TypeOK, Same
<1>4. \A sc \in Collectable : refCnt'[sc] = IF sc \in new THEN refCnt[sc] + 1 ELSE refCnt[sc]
  BY <1>1, <1>2, RefsAt
<1>5. /\ h \in Steps /\ Inverse1(h) \in Steps
      /\ h.do = "reserve" => Inverse1(h) = [do |-> "release", sc |-> h.sc]
      /\ Inverse1(h).sc = h.sc
  <2>1. h \in Steps
    BY <1>1, <1>2, HeadType
  <2> HIDE DEF h
  <2> QED
    BY <2>1 DEF Steps, Inverse1
<1>6. /\ Range(todo[l]) = {h} \cup Range(todo'[l])
      /\ Range(undo'[l]) = Range(undo[l]) \cup {Inverse1(h)}
  BY <1>1, <1>3, <1>5, LeafTypes, TailRange, AppendRange
<1> HIDE DEF h, new
<1>7. CASE call[l].op \in Plain
  <2>1. call[l].op # "none" /\ h.do \in {"reserve", "release"} /\ h.do # "release"
    BY <1>1, <1>2, <1>6, <1>7 DEF LeafOK, StepsFit, Takes
  <2>2. new = {} /\ Inverse1(h).do = "release"
    BY <1>5, <2>1 DEF new
  <2>3. \A x \in Range(todo'[l]) \cup Range(undo'[l]) : x.do \in {"reserve", "release"}
    BY <1>2, <1>6, <1>7, <2>1, <2>2 DEF LeafOK, StepsFit
  <2>4. st[l] = "new" <=> call[l].op = "open"
    BY <1>1, <1>2, <1>7 DEF LeafOK, StepsFit, Plain
  <2>5. stale'[l] = stale[l] /\ \A sc \in Collectable : refCnt'[sc] = refCnt[sc]
    BY <1>3, <1>4, <2>2
  <2> QED
    BY <1>1, <1>2, <1>3, <1>7, <2>1, <2>3, <2>4, <2>5, PlainStep
<1>8. CASE call[l].op \in Leaving
  BY <1>1, <1>2, <1>6, <1>8 DEF LeafOK, StepsFit, Takes
<1>9. CASE call[l].op = "transfer"
  <2>1. \A x \in Range(todo[l]) \cup Range(undo[l]) : x.sc \in Permanent
    BY <1>2, <1>9 DEF LeafOK, StepsFit
  <2>2. h.sc \in Permanent /\ Inverse1(h).sc \in Permanent
    BY <1>5, <1>6, <2>1
  <2>3. \A sc \in Collectable : refCnt'[sc] = refCnt[sc]
    BY <1>4, <2>2, ScopesDiffer DEF new
  <2>4. \A x \in Range(todo'[l]) \cup Range(undo'[l]) : x.sc \in Permanent
    BY <1>6, <2>1, <2>2
  <2> QED
    BY <1>1, <1>2, <1>3, <1>9, <2>3, <2>4, TransferStep
<1>10. CASE call[l].op \in Sets
  <2>1. ASSUME NEW sc, h = Attach(sc), sc \in Collectable => call[l].op # "setService",
               sc \in Collectable => sc \notin Range(edges[l]) /\ ~Attached(l, sc),
               call[l].ok,
               StepsFit(st'[l], edges'[l], attr'[l], call'[l].op, call'[l].ok, todo'[l], undo'[l])
        PROVE  RefInv'
    <3>1. /\ new = {sc} /\ Inverse1(h) = Detach(sc) /\ Detach(sc).sc = sc
      BY <2>1, StepNames DEF new
    <3>2. \A x : x # sc => (Attached(l, x)' <=> Attached(l, x))
      BY <1>6, <2>1, <3>1, StepNames DEF Attached
    <3>3. Attached(l, sc)'
      BY <1>6, <3>1 DEF Attached
    <3>4. \A x \in Range(undo'[l]) : x \in Range(undo[l]) \/ x.sc \notin stale'[l]
      BY <1>3, <1>6, <3>1
    <3>5. sc \notin stale'[l] /\ stale'[l] \subseteq stale[l]
      BY <1>3, <3>1
    <3>6. ASSUME NEW x \in Collectable
          PROVE  \/ refCnt'[x] = refCnt[x] /\ (Attached(l, x)' <=> Attached(l, x))
                 \/ /\ refCnt'[x] = refCnt[x] + 1 /\ call[l].op # "setService"
                    /\ ~Attached(l, x) /\ Attached(l, x)'
                    /\ x \notin Range(edges[l]) /\ x \notin stale'[l]
      <4>1. CASE x = sc
        BY <1>4, <2>1, <3>1, <3>3, <3>5, <4>1
      <4>2. CASE x # sc
        BY <1>4, <3>1, <3>2, <4>2
      <4> QED
        BY <4>1, <4>2
    <3> QED
      BY <1>1, <1>2, <1>3, <1>10, <2>1, <3>4, <3>5, <3>6, MoveStep
  <2> USE DEF StepsFit, Sets, Plain, Leaving
  <2>2. CASE call[l].op = "setPeer"
    <3>1. PICK sc \in Permanent : /\ call[l].ok /\ undo[l] = <<>>
                                  /\ todo[l] = <<Attach(PeerScope(a.peer)), Detach(sc)>>
      BY <1>1, <1>2, <2>2, ShortSeqs, StepNames DEF LeafOK, SettingPeer, Undone
    <3>2. /\ h = Attach(PeerScope(a.peer)) /\ todo'[l] = <<Detach(sc)>>
          /\ undo'[l] = <<Detach(PeerScope(a.peer))>>
      BY <1>1, <1>3, <3>1, ShortSeqs, StepNames
    <3>3. ~Attached(l, PeerScope(a.peer))
      BY <3>1, SeqRange, StepNames, ScopesDiffer DEF Attached
    <3>4. StepsFit(st'[l], edges'[l], attr'[l], call'[l].op, call'[l].ok, todo'[l], undo'[l])
      BY <1>1, <1>2, <2>2, <3>1, <3>2 DEF LeafOK, SettingPeer
    <3> HIDE DEF StepsFit, Sets, Plain, Leaving
    <3> QED
      BY <2>1, <2>2, <3>1, <3>2, <3>3, <3>4, NewScopes, ResourceAssumption
  <2>3. CASE call[l].op = "setProtocol"
    <3> DEFINE R == ProtoScope(a.proto)
               P == ProtoPeer(a.proto, a.peer)
    <3>1. \/ call[l].ok /\ undo[l] = <<>> /\ todo[l] = <<Attach(R), Attach(P), Detach(Transient)>>
          \/ call[l].ok /\ undo[l] = <<Detach(R)>> /\ todo[l] = <<Attach(P), Detach(Transient)>>
      BY <1>1, <1>2, <2>3, ShortSeqs, StepNames DEF LeafOK, SettingProtocol, Undone, SetProtocolSteps
    <3>2. R # Transient /\ P \notin Collectable
      <4>1. R \notin Permanent /\ Transient \in Permanent
        BY ScopesDiffer
      <4>2. P \notin Collectable
        BY ScopesDiffer
      <4> QED
        BY <4>1, <4>2
    <3>3. CASE undo[l] = <<>> /\ todo[l] = <<Attach(R), Attach(P), Detach(Transient)>>
      <4>1. /\ h = Attach(R) /\ todo'[l] = <<Attach(P), Detach(Transient)>>
            /\ undo'[l] = <<Detach(R)>>
        BY <1>1, <1>3, <3>3, ShortSeqs, StepNames
      <4>2. ~Attached(l, R)
        BY <3>2, <3>3, SeqRange, StepNames DEF Attached
      <4>3. StepsFit(st'[l], edges'[l], attr'[l], call'[l].op, call'[l].ok, todo'[l], undo'[l])
        BY <1>1, <1>2, <2>3, <3>1, <4>1 DEF LeafOK, SettingProtocol
      <4> HIDE DEF StepsFit, Sets, Plain, Leaving
      <4> QED
        BY <2>1, <2>3, <3>1, <4>1, <4>2, <4>3, NewScopes, ResourceAssumption
    <3>4. CASE undo[l] = <<Detach(R)>> /\ todo[l] = <<Attach(P), Detach(Transient)>>
      <4>1. /\ h = Attach(P) /\ todo'[l] = <<Detach(Transient)>>
            /\ undo'[l] = <<Detach(R), Detach(P)>>
        BY <1>1, <1>3, <3>4, ShortSeqs, StepNames
      <4>2. StepsFit(st'[l], edges'[l], attr'[l], call'[l].op, call'[l].ok, todo'[l], undo'[l])
        BY <1>1, <1>2, <2>3, <3>1, <4>1 DEF LeafOK, SettingProtocol
      <4> HIDE DEF StepsFit, Sets, Plain, Leaving
      <4> QED
        BY <2>1, <3>1, <3>2, <4>1, <4>2
    <3> QED
      BY <3>1, <3>3, <3>4
  <2>4. CASE call[l].op = "setService"
    <3> DEFINE V == SvcScope(a.svc)
               P == SvcPeer(a.svc, a.peer)
    <3>1. \/ call[l].ok /\ undo[l] = <<>> /\ todo[l] = <<Attach(V), Attach(P)>>
          \/ call[l].ok /\ undo[l] = <<Detach(V)>> /\ todo[l] = <<Attach(P)>>
      BY <1>1, <1>2, <2>4, ShortSeqs, StepNames DEF LeafOK, SettingService, Undone
    <3>2. V \notin Collectable /\ P \notin Collectable
      BY ScopesDiffer
    <3>3. CASE undo[l] = <<>> /\ todo[l] = <<Attach(V), Attach(P)>>
      <4>1. h = Attach(V) /\ todo'[l] = <<Attach(P)>> /\ undo'[l] = <<Detach(V)>>
        BY <1>1, <1>3, <3>3, ShortSeqs, StepNames
      <4>2. StepsFit(st'[l], edges'[l], attr'[l], call'[l].op, call'[l].ok, todo'[l], undo'[l])
        BY <1>1, <1>2, <2>4, <3>1, <4>1 DEF LeafOK, SettingService
      <4> HIDE DEF StepsFit, Sets, Plain, Leaving
      <4> QED
        BY <2>1, <3>1, <3>2, <4>1, <4>2
    <3>4. CASE undo[l] = <<Detach(V)>> /\ todo[l] = <<Attach(P)>>
      <4>1. h = Attach(P) /\ todo'[l] = <<>> /\ undo'[l] = <<Detach(V), Detach(P)>>
        BY <1>1, <1>3, <3>4, ShortSeqs, StepNames
      <4>2. StepsFit(st'[l], edges'[l], attr'[l], call'[l].op, call'[l].ok, todo'[l], undo'[l])
        BY <1>1, <1>2, <2>4, <3>1, <4>1 DEF LeafOK, SettingService
      <4> HIDE DEF StepsFit, Sets, Plain, Leaving
      <4> QED
        BY <2>1, <3>1, <3>2, <4>1, <4>2
    <3> QED
      BY <3>1, <3>3, <3>4
  <2> QED
    BY <1>10, <2>2, <2>3, <2>4 DEF Sets
<1> QED
  BY <1>7, <1>8, <1>9, <1>10, LeafTypes

\* A shared scope refuses.
LEMMA RefuseRefs ==
  ASSUME IInv, RefInv, NEW l \in Leaves, Refuse(l)
  PROVE  RefInv'
<1> DEFINE h == Head1(l)
           a == attr[l]
<1>1. /\ todo[l] # <<>> /\ Takes(h) /\ h = Head(todo[l])
      /\ undo' = [undo EXCEPT ![l] = <<>>]
      /\ todo' = [todo EXCEPT ![l] = undo[l]]
      /\ call' = [call EXCEPT ![l].ok = FALSE]
      /\ st' = st /\ edges' = edges /\ attr' = attr /\ stale' = stale
  BY DEF Refuse, leaf, Head1
<1>2. TypeOK /\ LeafOK(l)
  BY DEF IInv, RefInv
<1>3. /\ undo'[l] = <<>> /\ todo'[l] = undo[l] /\ call'[l].op = call[l].op /\ ~call'[l].ok
      /\ \A k \in Leaves \ {l} : Same(k)
  <2>1. undo'[l] = <<>> /\ todo'[l] = undo[l] /\ call'[l] = [call[l] EXCEPT !.ok = FALSE]
    BY <1>1, <1>2 DEF TypeOK
  <2>2. call[l] \in Calls
    BY <1>2 DEF TypeOK
  <2>3. call'[l].op = call[l].op /\ ~call'[l].ok
    BY <2>1, <2>2 DEF Calls
  <2> QED
    BY <1>1, <1>2, <2>1, <2>3 DEF TypeOK, Same
<1>4. \A sc \in Collectable : refCnt'[sc] = refCnt[sc]
  <2> DEFINE new == IF h.do = "attach" THEN {h.sc} ELSE {}
  <2>1. refCnt' = [Refs(new) EXCEPT ![h.sc] = refCnt[h.sc]]
    BY DEF Refuse
  <2>2. \A sc \in Collectable : Refs(new)[sc] = IF sc \in new THEN refCnt[sc] + 1 ELSE refCnt[sc]
    BY <1>2, RefsAt
  <2>3. \A sc \in Collectable : sc \in Scopes
    BY DEF Scopes
  <2> QED
    BY <2>1, <2>2, <2>3 DEF Refs
<1>5. h \in Range(todo[l]) /\ Range(undo'[l]) = {}
  BY <1>1, <1>3, LeafTypes, TailRange, SeqRange
<1> HIDE DEF h
<1>6. CASE call[l].op \in Plain
  <2>1. call[l].op # "none"
    BY <1>1, <1>2 DEF LeafOK, StepsFit
  <2>2. \A x \in Range(todo'[l]) \cup Range(undo'[l]) : x.do \in {"reserve", "release"}
    BY <1>2, <1>3, <1>5, <1>6, <2>1 DEF LeafOK, StepsFit
  <2>3. st[l] = "new" <=> call[l].op = "open"
    BY <1>1, <1>2, <1>6 DEF LeafOK, StepsFit, Plain
  <2> QED
    BY <1>1, <1>2, <1>3, <1>4, <1>6, <2>1, <2>2, <2>3, PlainStep
<1>7. CASE call[l].op \in Leaving
  BY <1>1, <1>2, <1>5, <1>7 DEF LeafOK, StepsFit, Takes
<1>8. CASE call[l].op = "transfer"
  <2>1. \A x \in Range(todo'[l]) \cup Range(undo'[l]) : x.sc \in Permanent
    BY <1>2, <1>3, <1>5, <1>8 DEF LeafOK, StepsFit
  <2> QED
    BY <1>1, <1>2, <1>3, <1>4, <1>8, <2>1, TransferStep
<1>9. CASE call[l].op \in Sets
  <2>1. ASSUME \A sc \in Collectable : Detach(sc) \notin Range(todo[l]),
               StepsFit(st'[l], edges'[l], attr'[l], call'[l].op, call'[l].ok, todo'[l], undo'[l])
        PROVE  RefInv'
    <3>1. \A sc \in Collectable : Attached(l, sc)' <=> Attached(l, sc)
      BY <1>3, <1>5, <2>1 DEF Attached
    <3> QED
      BY <1>1, <1>2, <1>3, <1>4, <1>9, <2>1, <3>1, MoveStep
  <2> USE DEF StepsFit, Sets, Plain, Leaving
  <2>2. CASE call[l].op = "setPeer"
    <3>1. PICK sc \in Permanent : /\ call[l].ok /\ undo[l] = <<>>
                                  /\ todo[l] = <<Attach(PeerScope(a.peer)), Detach(sc)>>
      BY <1>1, <1>2, <2>2, ShortSeqs, StepNames DEF LeafOK, SettingPeer, Undone
    <3>2. \A x \in Collectable : Detach(x) \notin Range(todo[l])
      BY <3>1, SeqRange, StepNames, ScopesDiffer
    <3>3. StepsFit(st'[l], edges'[l], attr'[l], call'[l].op, call'[l].ok, todo'[l], undo'[l])
      BY <1>1, <1>2, <1>3, <2>2, <3>1 DEF LeafOK, SettingPeer, Undone
    <3> QED
      BY <2>1, <3>2, <3>3
  <2>3. CASE call[l].op = "setProtocol"
    <3> DEFINE R == ProtoScope(a.proto)
               P == ProtoPeer(a.proto, a.peer)
    <3>1. \/ undo[l] = <<>> /\ todo[l] = <<Attach(R), Attach(P), Detach(Transient)>>
          \/ undo[l] = <<Detach(R)>> /\ todo[l] = <<Attach(P), Detach(Transient)>>
      BY <1>1, <1>2, <2>3, ShortSeqs, StepNames DEF LeafOK, SettingProtocol, Undone, SetProtocolSteps
    <3>2. \A x \in Collectable : Detach(x) \notin Range(todo[l])
      <4>1. /\ Range(<<Attach(R), Attach(P), Detach(Transient)>>) = {Attach(R), Attach(P), Detach(Transient)}
            /\ Range(<<Attach(P), Detach(Transient)>>) = {Attach(P), Detach(Transient)}
        BY SeqRange
      <4>2. \A x \in Collectable : x # Transient
        BY ScopesDiffer
      <4> HIDE DEF R, P
      <4> QED
        BY <3>1, <4>1, <4>2, StepNames
    <3>3. StepsFit(st'[l], edges'[l], attr'[l], call'[l].op, call'[l].ok, todo'[l], undo'[l])
      BY <1>1, <1>2, <1>3, <2>3, <3>1 DEF LeafOK, SettingProtocol, Undone
    <3> QED
      BY <2>1, <3>2, <3>3
  <2>4. CASE call[l].op = "setService"
    <3> DEFINE V == SvcScope(a.svc)
               P == SvcPeer(a.svc, a.peer)
    <3>1. \/ undo[l] = <<>> /\ todo[l] = <<Attach(V), Attach(P)>>
          \/ undo[l] = <<Detach(V)>> /\ todo[l] = <<Attach(P)>>
      BY <1>1, <1>2, <2>4, ShortSeqs, StepNames DEF LeafOK, SettingService, Undone
    <3>2. \A x \in Collectable : Detach(x) \notin Range(todo[l])
      <4>1. Range(<<Attach(V), Attach(P)>>) = {Attach(V), Attach(P)} /\ Range(<<Attach(P)>>) = {Attach(P)}
        BY SeqRange
      <4> HIDE DEF V, P
      <4> QED
        BY <3>1, <4>1, StepNames
    <3>3. StepsFit(st'[l], edges'[l], attr'[l], call'[l].op, call'[l].ok, todo'[l], undo'[l])
      BY <1>1, <1>2, <1>3, <2>4, <3>1 DEF LeafOK, SettingService, Undone
    <3> QED
      BY <2>1, <3>2, <3>3
  <2> QED
    BY <1>9, <2>2, <2>3, <2>4 DEF Sets
<1> QED
  BY <1>6, <1>7, <1>8, <1>9, LeafTypes

\* A shared scope gets back what was charged.
LEMMA UnchargeRefs ==
  ASSUME IInv, RefInv, NEW l \in Leaves, Uncharge(l)
  PROVE  RefInv'
<1> DEFINE h == Head1(l)
           a == attr[l]
<1>1. /\ todo[l] # <<>> /\ ~Takes(h) /\ h = Head(todo[l])
      /\ todo' = [todo EXCEPT ![l] = Tail(todo[l])] /\ undo' = undo /\ call' = call
      /\ st' = st /\ edges' = edges /\ attr' = attr /\ stale' = stale
  BY DEF Uncharge, leaf, Head1
<1>2. TypeOK /\ LeafOK(l)
  BY DEF IInv, RefInv
<1>3. /\ todo'[l] = Tail(todo[l]) /\ undo'[l] = undo[l] /\ call'[l] = call[l]
      /\ \A k \in Leaves \ {l} : Same(k)
  BY <1>1, <1>2 DEF TypeOK, Same
<1>4. /\ \A sc \in Collectable : sc # h.sc \/ h.do # "detach" => refCnt'[sc] = refCnt[sc]
      /\ h.sc \in Collectable /\ h.do = "detach" /\ h.sc \notin stale[l] =>
           refCnt'[h.sc] = refCnt[h.sc] - 1
  <2>1. refCnt \in [Scopes -> Int] /\ Collectable \subseteq Scopes /\ h.sc \in Scopes
    BY <1>1, <1>2, HeadType DEF TypeOK, Scopes
  <2>2. CASE IsDone(l)
    BY <2>2 DEF Uncharge, IsDone
  <2>3. CASE ~IsDone(l)
    <3>1. refCnt' = [refCnt EXCEPT ![h.sc] = refCnt[h.sc] - IF h.do = "detach" THEN 1 ELSE 0]
      BY <2>3 DEF Uncharge
    <3> HIDE DEF h
    <3> QED
      BY <2>1, <3>1
  <2> QED
    BY <2>2, <2>3
<1>5. h \in Steps /\ Range(todo[l]) = {h} \cup Range(todo'[l])
  BY <1>1, <1>2, <1>3, HeadType, LeafTypes, TailRange
<1> HIDE DEF h
<1>6. CASE call[l].op \in Plain
  <2>1. call[l].op # "none" /\ h.do # "detach"
    BY <1>1, <1>2, <1>5, <1>6 DEF LeafOK, StepsFit
  <2>2. \A x \in Range(todo'[l]) \cup Range(undo'[l]) : x.do \in {"reserve", "release"}
    BY <1>2, <1>3, <1>5, <1>6, <2>1 DEF LeafOK, StepsFit
  <2>3. st[l] = "new" <=> call[l].op = "open"
    BY <1>1, <1>2, <1>6 DEF LeafOK, StepsFit, Plain
  <2> QED
    BY <1>1, <1>2, <1>3, <1>4, <1>6, <2>1, <2>2, <2>3, PlainStep
<1>7. CASE call[l].op \in Leaving
  <2>1. /\ \A x \in Range(todo[l]) : x.do = "detach" /\ st[l] # "done"
        /\ \A i, j \in DOMAIN todo[l] : todo[l][i] = todo[l][j] /\ todo[l][i].sc \in Collectable => i = j
    BY <1>2, <1>7 DEF LeafOK, StepsFit
  <2>2. h = Detach(h.sc)
    BY <1>5, <2>1 DEF Steps, Detach
  <2>3. /\ \A sc : Refers(l, sc) <=> Detach(sc) \in Range(todo[l])
        /\ \A sc : Refers(l, sc)' <=> Detach(sc) \in Range(todo'[l])
        /\ \A sc : ~Late(l, sc) /\ ~Late(l, sc)'
    BY <1>1, <1>3, <1>7, <2>1, <1>5 DEF Refers, RefersAs, Late, Leaving, Sets
  <2>4. /\ DOMAIN todo[l] = 1..Len(todo[l]) /\ Len(todo[l]) \in Nat \ {0} /\ todo[l][1] = h
        /\ DOMAIN todo'[l] = 1..(Len(todo[l]) - 1)
        /\ \A i \in DOMAIN todo'[l] : todo'[l][i] = todo[l][i + 1] /\ i + 1 \in DOMAIN todo[l]
        /\ \A i \in DOMAIN todo'[l] : i \in Nat /\ i + 1 # 1
    <3> DEFINE s == todo[l]
    <3>1. s \in Seq(Steps) /\ s # <<>>
      BY <1>1, LeafTypes
    <3>2. h = Head(s) /\ todo'[l] = Tail(s)
      BY <1>1, <1>3
    <3> HIDE DEF s
    <3>3. DOMAIN s = 1..Len(s) /\ Len(s) \in Nat \ {0} /\ s[1] = Head(s)
      BY <3>1
    <3>4. /\ DOMAIN Tail(s) = 1..(Len(s) - 1)
          /\ \A i \in 1..(Len(s) - 1) : Tail(s)[i] = s[i + 1] /\ i + 1 \in DOMAIN s
      BY <3>1, <3>3
    <3> QED
      BY <3>2, <3>3, <3>4 DEF s
  <2>5. h.sc \in Collectable => h \notin Range(todo'[l])
    <3>1. ASSUME NEW i \in DOMAIN todo'[l], h.sc \in Collectable, todo'[l][i] = h
          PROVE  FALSE
      <4>1. /\ i + 1 \in DOMAIN todo[l] /\ 1 \in DOMAIN todo[l] /\ i + 1 # 1
            /\ todo[l][i + 1] = h /\ todo[l][1] = h
        BY <2>4, <3>1
      <4> QED
        BY <2>1, <3>1, <4>1
    <3> QED
      BY <3>1 DEF Range
  <2>6. \A i, j \in DOMAIN todo'[l] : todo'[l][i] = todo'[l][j] /\ todo'[l][i].sc \in Collectable => i = j
    <3> SUFFICES ASSUME NEW i \in DOMAIN todo'[l], NEW j \in DOMAIN todo'[l],
                        todo'[l][i] = todo'[l][j], todo'[l][i].sc \in Collectable
                 PROVE  i = j
      OBVIOUS
    <3>1. i + 1 = j + 1
      BY <2>1, <2>4
    <3> QED
      BY <2>4, <3>1
  <2>7. StepsFit(st'[l], edges'[l], attr'[l], call'[l].op, call'[l].ok, todo'[l], undo'[l])
    <3>1. /\ ~(st[l] = "new" /\ call[l].op \notin {"open", "abort"})
          /\ call[l].op \in {"open", "abort"} => st[l] = "new"
      BY <1>1, <1>2 DEF LeafOK, StepsFit
    <3> QED
      BY <1>1, <1>3, <1>5, <1>7, <2>1, <2>6, <3>1 DEF StepsFit, Leaving, Plain, Sets
  <2>8. /\ \A sc \in Collectable : Refers(l, sc) => sc \notin stale[l]
        /\ ~(st[l] = "new" /\ call[l].op \notin {"open", "abort"})
    BY <1>1, <1>2 DEF LeafOK, NotStale, Refers, StepsFit
  <2>9. NotStale(st'[l], edges'[l], call'[l].op, call'[l].ok, todo'[l], undo'[l], stale'[l])
    <3>1. \A sc \in Collectable : Refers(l, sc)' => sc \notin stale'[l]
      BY <1>1, <1>5, <2>3, <2>8
    <3>2. stale'[l] \cap Permanent = {}
      BY <1>1, <1>2 DEF LeafOK, NotStale
    <3> QED
      BY <1>1, <1>3, <1>7, <2>8, <3>1, <3>2 DEF NotStale, Leaving, Sets, Refers
  <2>10. LeafOK(l)'
    BY <1>1, <1>2, <2>7, <2>9 DEF LeafOK
  <2>11. ASSUME NEW sc \in Collectable
         PROVE  Recounts(l, sc)
    <3>1. CASE sc = h.sc
      <4>1. Refers(l, sc) /\ ~Refers(l, sc)' /\ sc \notin stale[l]
        BY <1>5, <2>2, <2>3, <2>5, <2>8, <3>1
      <4>2. refCnt'[sc] = refCnt[sc] - 1
        BY <1>4, <1>5, <2>1, <3>1, <4>1
      <4> QED
        BY <2>3, <4>1, <4>2 DEF Recounts
    <3>2. CASE sc # h.sc
      <4>1. Refers(l, sc)' <=> Refers(l, sc)
        BY <1>5, <2>2, <2>3, <3>2, StepNames
      <4> QED
        BY <1>4, <2>3, <3>2, <4>1 DEF Recounts
    <3> QED
      BY <3>1, <3>2
  <2> QED
    BY <1>2, <1>3, <2>10, <2>11, LeafStep
<1>8. CASE call[l].op = "transfer"
  <2>1. \A x \in Range(todo'[l]) \cup Range(undo'[l]) \cup {h} : x.sc \in Permanent
    BY <1>2, <1>3, <1>5, <1>8 DEF LeafOK, StepsFit
  <2>2. \A sc \in Collectable : refCnt'[sc] = refCnt[sc]
    BY <1>4, <2>1, ScopesDiffer
  <2> QED
    BY <1>1, <1>2, <1>3, <1>8, <2>1, <2>2, TransferStep
<1>9. CASE call[l].op \in Sets
  <2>1. ASSUME NEW sc, sc \notin Collectable, h = Detach(sc),
               StepsFit(st'[l], edges'[l], attr'[l], call'[l].op, call'[l].ok, todo'[l], undo'[l])
        PROVE  RefInv'
    <3>1. h.sc = sc /\ \A x \in Collectable : Detach(x) # h
      BY <2>1, StepNames
    <3>2. \A x \in Collectable : refCnt'[x] = refCnt[x] /\ (Attached(l, x)' <=> Attached(l, x))
      BY <1>3, <1>4, <1>5, <2>1, <3>1 DEF Attached
    <3> QED
      BY <1>1, <1>2, <1>3, <1>9, <2>1, <3>2, MoveStep
  <2> USE DEF StepsFit, Sets, Plain, Leaving
  <2>2. CASE call[l].op = "setPeer"
    <3>1. PICK sc \in Permanent : /\ call[l].ok /\ undo[l] = <<Detach(PeerScope(a.peer))>>
                                  /\ todo[l] = <<Detach(sc)>>
      BY <1>1, <1>2, <2>2, ShortSeqs, StepNames DEF LeafOK, SettingPeer, Undone
    <3>2. h = Detach(sc) /\ todo'[l] = <<>> /\ sc \notin Collectable
      BY <1>1, <1>3, <3>1, ShortSeqs, ScopesDiffer
    <3>3. StepsFit(st'[l], edges'[l], attr'[l], call'[l].op, call'[l].ok, todo'[l], undo'[l])
      BY <1>1, <1>2, <1>3, <2>2, <3>1, <3>2 DEF LeafOK, SettingPeer
    <3> QED
      BY <2>1, <3>2, <3>3
  <2>3. CASE call[l].op = "setProtocol"
    <3> DEFINE R == ProtoScope(a.proto)
               P == ProtoPeer(a.proto, a.peer)
    <3>1. \/ call[l].ok /\ undo[l] = <<Detach(R), Detach(P)>> /\ todo[l] = <<Detach(Transient)>>
          \/ ~call[l].ok /\ undo[l] = <<>> /\ todo[l] = <<Detach(R)>>
      BY <1>1, <1>2, <2>3, ShortSeqs, StepNames DEF LeafOK, SettingProtocol, Undone, SetProtocolSteps
    <3>2. StepsFit(st'[l], edges'[l], attr'[l], call'[l].op, call'[l].ok, todo'[l], undo'[l])
      <4>1. todo'[l] = <<>>
        BY <1>3, <3>1, ShortSeqs
      <4>2. \/ call[l].ok /\ undo[l] = <<Detach(R), Detach(P)>>
            \/ ~call[l].ok /\ undo[l] = <<>>
        BY <3>1
      <4>3. SettingProtocol(a.proto, a.peer, call'[l].ok, todo'[l], undo'[l])
        BY <1>3, <4>1, <4>2 DEF SettingProtocol, Undone
      <4> QED
        BY <1>1, <1>2, <1>3, <2>3, <4>3 DEF LeafOK
    <3>3. CASE todo[l] = <<Detach(Transient)>>
      <4>1. h = Detach(Transient) /\ Transient \notin Collectable
        BY <1>1, <3>3, ShortSeqs, ScopesDiffer
      <4> QED
        BY <2>1, <3>2, <4>1
    <3>4. CASE ~call[l].ok /\ undo[l] = <<>> /\ todo[l] = <<Detach(R)>>
      <4>1. h = Detach(R) /\ todo'[l] = <<>> /\ h.sc = R /\ h.do = "detach"
        BY <1>1, <1>3, <3>4, ShortSeqs, StepNames
      <4>2. /\ Attached(l, R) /\ \A x : ~Attached(l, x)'
            /\ \A x : x # R => ~Attached(l, x)
        BY <1>3, <3>4, <4>1, SeqRange, StepNames DEF Attached
      <4>3. R \in Collectable /\ R \notin Range(edges[l])
        BY <2>3, NewScopes, ResourceAssumption
      <4>4. R \notin stale[l]
        BY <1>2, <2>3, <4>2, <4>3 DEF LeafOK, NotStale, RefersAs, Attached
      <4>5. refCnt'[R] = refCnt[R] - 1
        BY <1>4, <4>1, <4>3, <4>4
      <4>6. \A x \in Collectable : x # R => refCnt'[x] = refCnt[x]
        BY <1>4, <4>1
      <4> HIDE DEF StepsFit, Sets, Plain, Leaving, R
      <4>7. \A x \in Collectable :
              \/ refCnt'[x] = refCnt[x] /\ (Attached(l, x)' <=> Attached(l, x))
              \/ /\ refCnt'[x] = refCnt[x] - 1 /\ call[l].op # "setService"
                 /\ Attached(l, x) /\ ~Attached(l, x)' /\ x \notin Range(edges[l])
        BY <2>3, <4>2, <4>3, <4>5, <4>6
      <4> QED
        BY <1>1, <1>2, <1>3, <1>9, <3>2, <3>4, <4>7, MoveStep
    <3> QED
      BY <3>1, <3>3, <3>4
  <2>4. CASE call[l].op = "setService"
    <3>1. ~call[l].ok /\ undo[l] = <<>> /\ todo[l] = <<Detach(SvcScope(a.svc))>>
      BY <1>1, <1>2, <2>4, ShortSeqs, StepNames DEF LeafOK, SettingService, Undone
    <3>2. h = Detach(SvcScope(a.svc)) /\ todo'[l] = <<>> /\ SvcScope(a.svc) \notin Collectable
      BY <1>1, <1>3, <3>1, ShortSeqs, ScopesDiffer
    <3>3. StepsFit(st'[l], edges'[l], attr'[l], call'[l].op, call'[l].ok, todo'[l], undo'[l])
      BY <1>1, <1>2, <1>3, <2>4, <3>1, <3>2 DEF LeafOK, SettingService, Undone
    <3> QED
      BY <2>1, <3>2, <3>3
  <2> QED
    BY <1>9, <2>2, <2>3, <2>4 DEF Sets
<1> QED
  BY <1>6, <1>7, <1>8, <1>9, LeafTypes

----------------------------------------------------------------------------
(* Opening, closing and memory.                                            *)

\* Nothing happens to the connections and streams.
LEMMA NoLeafStep ==
  ASSUME RefInv, \A k \in Leaves : Same(k), refCnt' = refCnt
  PROVE  RefInv'
<1>1. \A k \in Leaves : LeafOK(k)'
  BY LeafSame DEF RefInv
<1>2. ASSUME NEW sc \in Collectable
      PROVE  Counted(sc)'
  <2>1. Referring(sc)' = Referring(sc) /\ Referred(sc)' = Referred(sc)
    BY RefersSame DEF Referring, Referred
  <2> QED
    BY <2>1 DEF RefInv, Counted
<1> QED
  BY <1>1, <1>2 DEF RefInv

\* What starting and ending a call changes.
LEMMA Began ==
  ASSUME TypeOK, NEW l \in Leaves, NEW op, NEW steps, NEW amt, NEW prio, NEW via,
         Begin(l, op, steps, amt, prio, via)
  PROVE  /\ call'[l].op = op /\ call'[l].ok /\ todo'[l] = steps /\ undo'[l] = <<>>
         /\ stale' = stale
         /\ \A k \in Leaves \ {l} : call'[k] = call[k] /\ todo'[k] = todo[k] /\ undo'[k] = undo[k]
<1> DEFINE c == [op |-> op, amt |-> amt, prio |-> prio, ok |-> TRUE, via |-> via]
<1>1. c.op = op /\ c.ok
  OBVIOUS
<1>2. /\ call' = [call EXCEPT ![l] = c] /\ todo' = [todo EXCEPT ![l] = steps]
      /\ undo' = [undo EXCEPT ![l] = <<>>] /\ stale' = stale
  BY DEF Begin
<1> HIDE DEF c
<1> QED
  BY <1>1, <1>2 DEF TypeOK

\* What ending a call changes.
LEMMA Ended ==
  ASSUME TypeOK, NEW l \in Leaves, End(l)
  PROVE  /\ call'[l].op = "none" /\ todo' = todo /\ undo' = undo /\ stale' = stale
         /\ \A k \in Leaves \ {l} : call'[k] = call[k]
<1>1. NoCall.op = "none"
  BY DEF NoCall
<1> QED
  BY <1>1 DEF End, TypeOK

\* The steps of a reservation or release.
LEMMA DoPlain ==
  ASSUME NEW what \in {"reserve", "release"}, NEW e
  PROVE  /\ \A x \in Range(Do(what, e)) \cup Range(<<>>) : x.do \in {"reserve", "release"}
         /\ e = <<>> => Do(what, e) = <<>>
<1>1. \A x \in Range(Do(what, e)) : x.do = what
  BY DoRange
<1>2. e = <<>> => Do(what, e) = <<>>
  BY DEF Do
<1> QED
  BY <1>1, <1>2, SeqRange

\* An opened scope, and what uses memory.
LEMMA OpenedRefs ==
  ASSUME IInv, RefInv, NEW l \in Leaves, Opened(l)
  PROVE  RefInv'
<1>1. /\ call[l].op = "open" /\ todo[l] = <<>> /\ st' = [st EXCEPT ![l] = "live"] /\ End(l)
      /\ refCnt' = refCnt /\ edges' = edges /\ attr' = attr
  BY DEF Opened, Returns, shared
<1>2. TypeOK /\ LeafOK(l)
  BY DEF IInv, RefInv
<1>3. st'[l] = "live" /\ \A k \in Leaves \ {l} : st'[k] = st[k]
  BY <1>1, <1>2 DEF TypeOK
<1>4. \A k \in Leaves \ {l} : Same(k)
  BY <1>1, <1>2, <1>3, Ended DEF Same
<1>5. st[l] = "new"
  BY <1>1, <1>2 DEF LeafOK, StepsFit
<1>6. call'[l].op = "none" /\ todo' = todo /\ stale' = stale
  BY <1>1, <1>2, Ended
<1> QED
  BY <1>1, <1>2, <1>3, <1>4, <1>5, <1>6, PlainStep DEF Plain

\* Memory is reserved or released.
LEMMA MemoryBeginRefs ==
  ASSUME IInv, RefInv, NEW l \in Leaves, NEW what \in {"reserve", "release"}, Idle(l),
         NEW op \in {"reserveMemory", "releaseMemory"}, NEW amt, NEW prio, NEW via,
         Begin(l, op, Do(what, edges[l]), amt, prio, via),
         refCnt' = refCnt, st' = st, edges' = edges, attr' = attr
  PROVE  RefInv'
<1>1. TypeOK /\ LeafOK(l) /\ call[l].op = "none"
  BY DEF IInv, RefInv, Idle
<1>2. /\ call'[l].op = op /\ todo'[l] = Do(what, edges[l]) /\ undo'[l] = <<>> /\ stale' = stale
      /\ \A k \in Leaves \ {l} : Same(k)
  BY <1>1, Began DEF Same
<1>3. st[l] = "new" => edges[l] = <<>>
  BY <1>1 DEF LeafOK, StepsFit
<1>4. /\ \A x \in Range(todo'[l]) \cup Range(undo'[l]) : x.do \in {"reserve", "release"}
      /\ st[l] = "new" => todo'[l] = <<>>
  BY <1>2, <1>3, DoPlain
<1> QED
  BY <1>1, <1>2, <1>4, PlainStep DEF Plain

\* The reservation or release is done.
LEMMA MemoryEndRefs ==
  ASSUME IInv, RefInv, NEW l \in Leaves, call[l].op \in {"reserveMemory", "releaseMemory"},
         todo[l] = <<>>, End(l), refCnt' = refCnt, st' = st, edges' = edges, attr' = attr
  PROVE  RefInv'
<1>1. TypeOK /\ LeafOK(l)
  BY DEF IInv, RefInv
<1>2. /\ call'[l].op = "none" /\ todo' = todo /\ undo' = undo /\ stale' = stale
      /\ \A k \in Leaves \ {l} : Same(k)
  BY <1>1, Ended DEF Same
<1>3. st[l] = "new" => undo[l] = <<>>
  BY <1>1 DEF LeafOK, StepsFit
<1> QED
  BY <1>1, <1>2, <1>3, PlainStep DEF Plain

\* The calls about memory.
LEMMA MemoryRefs ==
  ASSUME IInv, RefInv, NEW l \in Leaves, NEW via \in Spans \cup {None}, NEW n \in Mem,
         ReleaseMemory(l, via, n) \/ \E prio \in Prios : ReserveMemory(l, via, n, prio)
  PROVE  RefInv'
<1>1. CASE ReleaseMemory(l, via, n)
  BY <1>1, MemoryBeginRefs DEF ReleaseMemory, shared
<1>2. CASE \E prio \in Prios : ReserveMemory(l, via, n, prio)
  BY <1>2, MemoryBeginRefs DEF ReserveMemory, shared, leaf
<1> QED
  BY <1>1, <1>2

\* Spans use the memory of their owner.
LEMMA SpanRefs ==
  ASSUME IInv, RefInv, NEW l \in Leaves, NEW x \in Spans, BeginSpan(x, l) \/ SpanDone(x, l)
  PROVE  RefInv'
<1>1. CASE BeginSpan(x, l)
  BY <1>1, NoLeafStep DEF BeginSpan, shared, leaf, Same
<1>2. CASE SpanDone(x, l) /\ OwnerOpen(l)
  BY <1>2, MemoryBeginRefs DEF SpanDone, shared
<1>3. CASE SpanDone(x, l) /\ ~OwnerOpen(l)
  BY <1>3, NoLeafStep DEF SpanDone, shared, Same
<1> QED
  BY <1>1, <1>2, <1>3

\* What a call does that begins a change or opens something is not collected before.
LEMMA StaleKept ==
  ASSUME NEW s, NEW e, NEW op, NEW ok, NEW t, NEW z,
         z \cap Permanent = {}, s # "done" => Range(e) \cap z = {},
         \A sc \in Collectable : RefersAs(s, e, op, t, <<>>, sc) => s # "done" /\ sc \in Range(e),
         s # "new" \/ op \in {"open", "abort"}
  PROVE  NotStale(s, e, op, ok, t, <<>>, z)
  BY SeqRange DEF NotStale

\* A step after which l refers to the same collectable scopes.
LEMMA KeepStep ==
  ASSUME RefInv, TypeOK, NEW l \in Leaves, \A k \in Leaves \ {l} : Same(k), LeafOK(l)',
         \A sc \in Collectable :
           /\ refCnt'[sc] = refCnt[sc] /\ (Refers(l, sc)' <=> Refers(l, sc))
           /\ Late(l, sc) => Late(l, sc)'
  PROVE  RefInv'
  BY LeafStep DEF Recounts

\* The scope is left: what it referred to is to be detached.
LEMMA LeaveRefs ==
  ASSUME IInv, RefInv, NEW l \in Leaves, call[l].op \in Plain, st[l] # "done",
         NEW op \in Leaving, op = "abort" <=> st[l] = "new", NEW amt,
         Begin(l, op, Do("detach", edges[l]), amt, 255, None),
         refCnt' = refCnt, st' = st, edges' = edges, attr' = attr
  PROVE  RefInv'
<1> DEFINE e == edges[l]
<1>1. TypeOK /\ LeafOK(l)
  BY DEF IInv, RefInv
<1>2. /\ call'[l].op = op /\ todo'[l] = Do("detach", e) /\ undo'[l] = <<>> /\ stale' = stale
      /\ \A k \in Leaves \ {l} : Same(k)
  BY <1>1, Began DEF Same
<1>3. op \in {"close", "abort"} /\ call[l].op \notin Leaving \cup Sets
  BY DEF Leaving, Plain, Sets
<1>4. EdgesFit(l, st'[l], edges'[l], attr'[l], call'[l].op)
  BY <1>1, <1>2, <1>3 DEF LeafOK, EdgesFit, StreamEdges, Plain
<1>5. Range(todo'[l]) = {Detach(x) : x \in Range(e)}
  BY <1>2, DoRange DEF Detach
<1>6. /\ \A x \in Range(todo'[l]) : x.do = "detach"
      /\ \A i, j \in DOMAIN todo'[l] : todo'[l][i] = todo'[l][j] /\ todo'[l][i].sc \in Collectable => i = j
  <2>1. \A x \in Range(todo'[l]) : x.do = "detach"
    BY <1>5, StepNames
  <2>2. /\ DOMAIN todo'[l] = DOMAIN e
        /\ \A i \in DOMAIN e : todo'[l][i] = Detach(e[i])
    BY <1>2, DoRange DEF Detach
  <2>3. \A i, j \in DOMAIN e : e[i] = e[j] /\ e[i] \in Collectable => i = j
    BY <1>1, EdgesClosed DEF LeafOK
  <2> QED
    BY <2>1, <2>2, <2>3, StepNames
<1>7. StepsFit(st'[l], edges'[l], attr'[l], call'[l].op, call'[l].ok, todo'[l], undo'[l])
  BY <1>2, <1>3, <1>6 DEF StepsFit, Plain, Sets
<1>8. \A sc : (Refers(l, sc)' <=> Refers(l, sc)) /\ (Late(l, sc)' <=> Late(l, sc))
  BY <1>2, <1>3, <1>5, StepNames DEF Refers, RefersAs, Late, Leaving, Sets
<1>9. NotStale(st'[l], edges'[l], call'[l].op, call'[l].ok, todo'[l], undo'[l], stale'[l])
  <2>1. \A sc \in Collectable :
          RefersAs(st'[l], edges'[l], call'[l].op, todo'[l], undo'[l], sc) => sc \notin stale'[l]
    BY <1>1, <1>2, <1>8 DEF LeafOK, NotStale, Refers
  <2> QED
    BY <1>1, <1>2, <1>3, <2>1 DEF LeafOK, NotStale, Leaving, Sets
<1> QED
  BY <1>1, <1>2, <1>4, <1>7, <1>8, <1>9, KeepStep DEF LeafOK

\* Done of a scope, opened or not.
LEMMA DoneRefs ==
  ASSUME IInv, RefInv, NEW l \in Leaves, OpenRefused(l) \/ Done(l)
  PROVE  RefInv'
<1>1. LeafOK(l) /\ call[l].op \in {"open", "none"}
  BY DEF RefInv, OpenRefused, Done, Returns, Idle
<1>2. CASE OpenRefused(l)
  <2>1. st[l] = "new"
    BY <1>1, <1>2 DEF OpenRefused, Returns, LeafOK, StepsFit
  <2> QED
    BY <1>1, <1>2, <2>1, LeaveRefs DEF OpenRefused, Plain, Leaving, leaf, shared
<1>3. CASE Done(l)
  BY <1>1, <1>3, LeaveRefs DEF Done, Plain, Leaving, leaf, shared
<1> QED
  BY <1>2, <1>3

\* All was left.
LEMMA ClosedRefs ==
  ASSUME IInv, RefInv, NEW l \in Leaves, Closed(l)
  PROVE  RefInv'
<1>1. /\ call[l].op \in {"close", "abort"} /\ todo[l] = <<>> /\ End(l)
      /\ st' = [st EXCEPT ![l] = "done"] /\ refCnt' = refCnt /\ edges' = edges /\ attr' = attr
  BY DEF Closed, Returns, shared
<1>2. TypeOK /\ LeafOK(l)
  BY DEF IInv, RefInv
<1>3. st'[l] = "done" /\ \A k \in Leaves \ {l} : st'[k] = st[k]
  BY <1>1, <1>2 DEF TypeOK
<1>4. /\ call'[l].op = "none" /\ todo' = todo /\ undo' = undo /\ stale' = stale
      /\ \A k \in Leaves \ {l} : Same(k)
  BY <1>1, <1>2, <1>3, Ended DEF Same
<1>5. EdgesFit(l, st'[l], edges'[l], attr'[l], call'[l].op)
  BY <1>1, <1>2, <1>3, <1>4 DEF LeafOK, EdgesFit, StreamEdges
<1>6. StepsFit(st'[l], edges'[l], attr'[l], call'[l].op, call'[l].ok, todo'[l], undo'[l])
  BY <1>1, <1>3, <1>4 DEF StepsFit, Plain, Leaving, Sets
<1>7. /\ \A sc : ~Refers(l, sc) /\ ~Refers(l, sc)'
      /\ \A sc : ~Late(l, sc)
  BY <1>1, <1>2, <1>3, <1>4, SeqRange DEF LeafOK, StepsFit, Refers, RefersAs, Leaving, Sets, Late
<1>8. NotStale(st'[l], edges'[l], call'[l].op, call'[l].ok, todo'[l], undo'[l], stale'[l])
  BY <1>2, <1>3, <1>4, <1>7 DEF LeafOK, NotStale, Refers
<1> QED
  BY <1>1, <1>2, <1>4, <1>5, <1>6, <1>7, <1>8, KeepStep DEF LeafOK

\* A connection is opened, or tried again as one of the allowlist.
LEMMA OpenConnRefs ==
  ASSUME IInv, RefInv, NEW l \in Conns, NEW dir, NEW fd, NEW al \in BOOLEAN, BeginConn(l, dir, fd, al),
         \/ st[l] = "new" /\ Idle(l)
         \/ Returns(l, "abort")
  PROVE  RefInv'
<1> DEFINE es == ConnEdges(al)
<1>1. /\ refCnt' = Refs({es[1], es[2]}) /\ edges' = [edges EXCEPT ![l] = es] /\ st' = st
      /\ attr' = [attr EXCEPT ![l].dir = dir, ![l].fd = fd, ![l].allowlisted = al]
      /\ Begin(l, "open", Do("reserve", es), OneConn(dir, fd), 255, None)
  BY DEF BeginConn
<1>2. TypeOK /\ LeafOK(l) /\ l \in Leaves /\ l \notin Streams
  BY ResourceAssumption DEF IInv, RefInv, Leaves
<1>3. es \in {<<Transient, System>>, <<AllowlistedTransient, AllowlistedSystem>>}
  BY DEF ConnEdges
<1>4. Range(es) \subseteq Permanent /\ es[1] \in Permanent /\ es[2] \in Permanent
  <2>1. CASE es = <<Transient, System>>
    BY <2>1, SeqRange DEF Permanent
  <2>2. CASE es = <<AllowlistedTransient, AllowlistedSystem>>
    BY <2>2, SeqRange DEF Permanent
  <2> QED
    BY <1>3, <2>1, <2>2
<1> HIDE DEF es
<1>5. /\ call'[l].op = "open" /\ todo'[l] = Do("reserve", es) /\ undo'[l] = <<>> /\ stale' = stale
      /\ \A k \in Leaves \ {l} : call'[k] = call[k] /\ todo'[k] = todo[k] /\ undo'[k] = undo[k]
  BY <1>1, <1>2, Began
<1>6. /\ edges'[l] = es
      /\ attr'[l].peer = attr[l].peer /\ attr'[l].proto = attr[l].proto /\ attr'[l].svc = attr[l].svc
      /\ \A k \in Leaves \ {l} : edges'[k] = edges[k] /\ attr'[k] = attr[k]
  <2>1. attr \in [Leaves -> Attrs] /\ edges \in [Leaves -> Seq(Scopes)]
    BY <1>2 DEF TypeOK
  <2>2. edges'[l] = es /\ \A k \in Leaves \ {l} : edges'[k] = edges[k] /\ attr'[k] = attr[k]
    BY <1>1, <1>2, <2>1
  <2>3. attr'[l] = [attr[l] EXCEPT !.dir = dir, !.fd = fd, !.allowlisted = al] /\ attr[l] \in Attrs
    BY <1>1, <1>2, <2>1
  <2>4. attr'[l].peer = attr[l].peer /\ attr'[l].proto = attr[l].proto /\ attr'[l].svc = attr[l].svc
    BY <2>3 DEF Attrs
  <2> QED
    BY <2>2, <2>4
<1>7. \A k \in Leaves \ {l} : Same(k)
  BY <1>1, <1>5, <1>6 DEF Same
<1>8. st[l] = "new" /\ attr[l].peer = None /\ attr[l].proto = None /\ attr[l].svc = None
  <2>1. st[l] = "new"
    BY <1>2 DEF LeafOK, StepsFit, Returns
  <2> QED
    BY <1>2, <2>1 DEF LeafOK, EdgesFit
<1>9. EdgesFit(l, st'[l], edges'[l], attr'[l], call'[l].op)
  BY <1>1, <1>2, <1>4, <1>5, <1>6, <1>8 DEF EdgesFit
<1>10. StepsFit(st'[l], edges'[l], attr'[l], call'[l].op, call'[l].ok, todo'[l], undo'[l])
  <2>1. \A x \in Range(todo'[l]) \cup Range(undo'[l]) : x.do \in {"reserve", "release"}
    BY <1>5, DoPlain
  <2> QED
    BY <1>1, <1>5, <1>8, <2>1 DEF StepsFit, Leaving, Sets
<1>11. \A sc \in Collectable : ~Refers(l, sc) /\ ~Refers(l, sc)' /\ ~Late(l, sc)
  <2>1. CASE Idle(l)
    <3>1. Range(edges[l]) = {} /\ call[l].op = "none"
      BY <1>2, <1>8, <2>1, SeqRange DEF Idle, LeafOK, StepsFit
    <3> QED
      BY <1>1, <1>4, <1>5, <1>6, <1>8, <3>1, ScopesDiffer DEF Refers, RefersAs, Leaving, Sets, Late
  <2>2. CASE Returns(l, "abort")
    BY <1>1, <1>4, <1>5, <1>6, <1>8, <2>2, SeqRange, ScopesDiffer DEF Refers, RefersAs, Leaving, Sets, Late, Returns
  <2> QED
    BY <2>1, <2>2
<1>12. NotStale(st'[l], edges'[l], call'[l].op, call'[l].ok, todo'[l], undo'[l], stale'[l])
  <2>1. stale'[l] \cap Permanent = {}
    BY <1>2, <1>5 DEF LeafOK, NotStale
  <2> QED
    BY <1>4, <1>5, <1>6, <1>11, <2>1, StaleKept DEF Refers
<1>13. \A sc \in Collectable : refCnt'[sc] = refCnt[sc]
  BY <1>1, <1>2, <1>4, RefsAt, ScopesDiffer
<1> QED
  BY <1>2, <1>7, <1>9, <1>10, <1>11, <1>12, <1>13, KeepStep DEF LeafOK

\* A stream is opened, and refers to its peer from then on.
LEMMA OpenStreamRefs ==
  ASSUME IInv, RefInv, NEW l \in Streams, NEW p \in Peers, NEW dir, OpenStream(l, p, dir)
  PROVE  RefInv'
<1> DEFINE es == <<PeerScope(p), Transient, System>>
           scs == {PeerScope(p), Transient, System}
<1>1. /\ refCnt' = Refs(scs) /\ edges' = [edges EXCEPT ![l] = es] /\ st' = st
      /\ attr' = [attr EXCEPT ![l].dir = dir, ![l].peer = p]
      /\ Begin(l, "open", Do("reserve", es), OneStream(dir), 255, None)
      /\ st[l] = "new" /\ call[l].op = "none"
  BY DEF OpenStream, Idle
<1>2. TypeOK /\ LeafOK(l) /\ l \in Leaves /\ l \notin Conns
  BY ResourceAssumption DEF IInv, RefInv, Leaves
<1>3. Range(es) = scs
  BY SeqRange
<1>4. /\ call'[l].op = "open" /\ todo'[l] = Do("reserve", es) /\ undo'[l] = <<>> /\ stale' = stale
      /\ \A k \in Leaves \ {l} : call'[k] = call[k] /\ todo'[k] = todo[k] /\ undo'[k] = undo[k]
  BY <1>1, <1>2, Began
<1>5. /\ edges'[l] = es
      /\ attr'[l].peer = p /\ attr'[l].proto = attr[l].proto /\ attr'[l].svc = attr[l].svc
      /\ \A k \in Leaves \ {l} : edges'[k] = edges[k] /\ attr'[k] = attr[k]
  <2>1. attr \in [Leaves -> Attrs] /\ edges \in [Leaves -> Seq(Scopes)]
    BY <1>2 DEF TypeOK
  <2> HIDE DEF es
  <2>2. edges'[l] = es /\ \A k \in Leaves \ {l} : edges'[k] = edges[k] /\ attr'[k] = attr[k]
    BY <1>1, <1>2, <2>1
  <2>3. attr'[l] = [attr[l] EXCEPT !.dir = dir, !.peer = p] /\ attr[l] \in Attrs
    BY <1>1, <1>2, <2>1
  <2>4. attr'[l].peer = p /\ attr'[l].proto = attr[l].proto /\ attr'[l].svc = attr[l].svc
    BY <2>3 DEF Attrs
  <2> QED
    BY <2>2, <2>4
<1>6. \A k \in Leaves \ {l} : Same(k)
  BY <1>1, <1>4, <1>5 DEF Same
<1>7. edges[l] = <<>> /\ Range(edges[l]) = {} /\ stale[l] = {}
  BY <1>1, <1>2, SeqRange DEF LeafOK, StepsFit, NotStale
<1>8. attr[l].proto = None /\ p # None
  <2>1. StreamEdges(attr[l], "none") = <<>>
    BY <1>1, <1>2, <1>7 DEF LeafOK, EdgesFit
  <2>2. attr[l].peer = None
    BY <2>1, ShortSeqs DEF StreamEdges, FirstEdges, ProtoEdges, SvcEdges
  <2> QED
    BY <1>2, <2>2, LeafTypes, ResourceAssumption DEF Known
<1>9. EdgesFit(l, st'[l], edges'[l], attr'[l], call'[l].op)
  BY <1>1, <1>2, <1>4, <1>5, <1>8 DEF EdgesFit, StreamEdges, FirstEdges
<1> HIDE DEF es
<1>10. StepsFit(st'[l], edges'[l], attr'[l], call'[l].op, call'[l].ok, todo'[l], undo'[l])
  <2>1. \A x \in Range(todo'[l]) \cup Range(undo'[l]) : x.do \in {"reserve", "release"}
    BY <1>4, DoPlain
  <2> QED
    BY <1>1, <1>4, <2>1 DEF StepsFit, Leaving, Sets
<1>11. NotStale(st'[l], edges'[l], call'[l].op, call'[l].ok, todo'[l], undo'[l], stale'[l])
  BY <1>4, <1>7 DEF NotStale
<1>12. ASSUME NEW sc \in Collectable
       PROVE  Recounts(l, sc)
  <2>1. sc \in scs <=> sc = PeerScope(p)
    BY ScopesDiffer
  <2>2. refCnt'[sc] = IF sc \in scs THEN refCnt[sc] + 1 ELSE refCnt[sc]
    BY <1>1, <1>2, RefsAt
  <2>3. ~Refers(l, sc) /\ ~Late(l, sc) /\ (Refers(l, sc)' <=> sc \in scs)
    BY <1>1, <1>3, <1>4, <1>5, <1>7 DEF Refers, RefersAs, Late, Leaving, Sets
  <2> QED
    BY <2>2, <2>3 DEF Recounts
<1> QED
  BY <1>2, <1>6, <1>9, <1>10, <1>11, <1>12, LeafStep DEF LeafOK

----------------------------------------------------------------------------
(* Setting a peer, a protocol or a service.                                *)

\* A change begins: nothing is attached yet, and only permanent scopes will be left.
LEMMA SetBeginRefs ==
  ASSUME IInv, RefInv, NEW l \in Leaves, call[l].op \in {"none", "transfer"}, st[l] # "new",
         st'[l] = st[l], stale'[l] = stale[l], \A k \in Leaves \ {l} : Same(k),
         call'[l].op \in Sets \cup {"transfer"}, undo'[l] = <<>>,
         \A x \in Range(todo'[l]) : x.do = "detach" => x.sc \in Permanent,
         edges'[l] = edges[l] \/ (Range(edges'[l]) \subseteq Permanent /\ Range(edges[l]) \subseteq Permanent),
         EdgesFit(l, st'[l], edges'[l], attr'[l], call'[l].op),
         StepsFit(st'[l], edges'[l], attr'[l], call'[l].op, call'[l].ok, todo'[l], undo'[l]),
         \A sc : Late(l, sc) => Late(l, sc)',
         \A sc \in Collectable : refCnt'[sc] = refCnt[sc]
  PROVE  RefInv'
<1>1. TypeOK /\ LeafOK(l)
  BY DEF IInv, RefInv
<1>2. /\ call[l].op \notin Leaving \cup Sets /\ call'[l].op \notin Leaving
      /\ call'[l].op \notin {"open", "abort"}
  BY DEF Leaving, Sets
<1>3. \A sc \in Collectable : Detach(sc) \notin Range(todo'[l]) /\ sc \notin Permanent
  BY StepNames, ScopesDiffer
<1>4. \A sc \in Collectable : /\ Refers(l, sc) <=> st[l] # "done" /\ sc \in Range(edges[l])
                              /\ Refers(l, sc)' <=> st[l] # "done" /\ sc \in Range(edges'[l])
  BY <1>2, <1>3, SeqRange DEF Refers, RefersAs
<1>5. \A sc \in Collectable : Refers(l, sc)' <=> Refers(l, sc)
  BY <1>3, <1>4
<1>6. stale'[l] \cap Permanent = {} /\ (st'[l] # "done" => Range(edges'[l]) \cap stale'[l] = {})
  BY <1>1, <1>2 DEF LeafOK, NotStale
<1>7. NotStale(st'[l], edges'[l], call'[l].op, call'[l].ok, todo'[l], undo'[l], stale'[l])
  BY <1>4, <1>6, StaleKept DEF Refers
<1> QED
  BY <1>1, <1>5, <1>7, KeepStep DEF LeafOK

\* SetProtocol begins, on a stream that may be done.
LEMMA SetProtocolRefs ==
  ASSUME IInv, RefInv, NEW l \in Streams, NEW r \in Protos, SetProtocol(l, r)
  PROVE  RefInv'
<1> DEFINE p == attr[l].peer
<1>1. /\ call[l].op = "none" /\ (st[l] = "live" \/ (LateCalls /\ st[l] = "done"))
      /\ p # None /\ attr[l].proto = None
      /\ attr' = [attr EXCEPT ![l].proto = r]
      /\ Begin(l, "setProtocol", SetProtocolSteps(r, p), own[l], 255, None)
      /\ refCnt' = refCnt /\ st' = st /\ edges' = edges
  BY DEF SetProtocol, Settable, Idle, shared
<1>2. TypeOK /\ LeafOK(l) /\ l \in Leaves /\ l \notin Conns
  BY ResourceAssumption DEF IInv, RefInv, Leaves
<1>3. /\ call'[l].op = "setProtocol" /\ call'[l].ok /\ todo'[l] = SetProtocolSteps(r, p)
      /\ undo'[l] = <<>> /\ stale' = stale
      /\ \A k \in Leaves \ {l} : call'[k] = call[k] /\ todo'[k] = todo[k] /\ undo'[k] = undo[k]
  BY <1>1, <1>2, Began
<1>4. attr'[l].peer = p /\ attr'[l].proto = r /\ \A k \in Leaves \ {l} : attr'[k] = attr[k]
  <2>1. attr \in [Leaves -> Attrs]
    BY <1>2 DEF TypeOK
  <2>2. attr'[l] = [attr[l] EXCEPT !.proto = r] /\ attr[l] \in Attrs
    BY <1>1, <1>2, <2>1
  <2> QED
    BY <1>1, <2>1, <2>2 DEF Attrs
<1>5. \A k \in Leaves \ {l} : Same(k)
  BY <1>1, <1>3, <1>4 DEF Same
<1>6. EdgesFit(l, st'[l], edges'[l], attr'[l], call'[l].op)
  BY <1>1, <1>2, <1>3, <1>4 DEF LeafOK, EdgesFit, StreamEdges, FirstEdges
<1>7. StepsFit(st'[l], edges'[l], attr'[l], call'[l].op, call'[l].ok, todo'[l], undo'[l])
  BY <1>1, <1>3, <1>4 DEF StepsFit, SettingProtocol, Plain, Leaving, Sets
<1>8. \A x \in Range(todo'[l]) : x.do = "detach" => x.sc \in Permanent
  BY <1>3, SeqRange, StepNames, ScopesDiffer DEF SetProtocolSteps
<1>9. \A sc : ~Late(l, sc)
  BY <1>1 DEF Late
<1> QED
  BY <1>1, <1>2, <1>3, <1>5, <1>6, <1>7, <1>8, <1>9, SetBeginRefs DEF Sets

\* SetService begins, on a stream that may be done.
LEMMA SetServiceRefs ==
  ASSUME IInv, RefInv, NEW l \in Streams, NEW v \in Svcs, SetService(l, v)
  PROVE  RefInv'
<1> DEFINE p == attr[l].peer
<1>1. /\ call[l].op = "none" /\ (st[l] = "live" \/ (LateCalls /\ st[l] = "done"))
      /\ attr[l].proto # None /\ attr[l].svc = None
      /\ attr' = [attr EXCEPT ![l].svc = v]
      /\ Begin(l, "setService", <<Attach(SvcScope(v)), Attach(SvcPeer(v, p))>>, own[l], 255, None)
      /\ refCnt' = refCnt /\ st' = st /\ edges' = edges
  BY DEF SetService, Settable, Idle, shared
<1>2. TypeOK /\ LeafOK(l) /\ l \in Leaves /\ l \notin Conns
  BY ResourceAssumption DEF IInv, RefInv, Leaves
<1>3. /\ call'[l].op = "setService" /\ call'[l].ok
      /\ todo'[l] = <<Attach(SvcScope(v)), Attach(SvcPeer(v, p))>>
      /\ undo'[l] = <<>> /\ stale' = stale
      /\ \A k \in Leaves \ {l} : call'[k] = call[k] /\ todo'[k] = todo[k] /\ undo'[k] = undo[k]
  BY <1>1, <1>2, Began
<1>4. /\ attr'[l].peer = p /\ attr'[l].proto = attr[l].proto /\ attr'[l].svc = v
      /\ \A k \in Leaves \ {l} : attr'[k] = attr[k]
  <2>1. attr \in [Leaves -> Attrs]
    BY <1>2 DEF TypeOK
  <2>2. attr'[l] = [attr[l] EXCEPT !.svc = v] /\ attr[l] \in Attrs
    BY <1>1, <1>2, <2>1
  <2> QED
    BY <1>1, <2>1, <2>2 DEF Attrs
<1>5. \A k \in Leaves \ {l} : Same(k)
  BY <1>1, <1>3, <1>4 DEF Same
<1>6. EdgesFit(l, st'[l], edges'[l], attr'[l], call'[l].op)
  BY <1>1, <1>2, <1>3, <1>4 DEF LeafOK, EdgesFit, StreamEdges, ProtoEdges
<1>7. StepsFit(st'[l], edges'[l], attr'[l], call'[l].op, call'[l].ok, todo'[l], undo'[l])
  BY <1>1, <1>3, <1>4 DEF StepsFit, SettingService, Plain, Leaving, Sets
<1>8. \A x \in Range(todo'[l]) : x.do = "detach" => x.sc \in Permanent
  BY <1>3, SeqRange, StepNames
<1>9. \A sc : Late(l, sc) => Late(l, sc)'
  BY <1>1, <1>3, <1>4 DEF Late, ProtoScope
<1> QED
  BY <1>1, <1>2, <1>3, <1>5, <1>6, <1>7, <1>8, <1>9, SetBeginRefs DEF Sets

\* SetPeer begins, or the transfer that comes before it.
LEMMA SetPeerRefs ==
  ASSUME IInv, RefInv, NEW l \in Conns, NEW p \in Peers, NEW allowed \in BOOLEAN, SetPeer(l, p, allowed)
  PROVE  RefInv'
<1> DEFINE moves == <<Detach(AllowlistedTransient), Detach(AllowlistedSystem),
                      Attach(System), Attach(Transient)>>
           steps == IF attr[l].allowlisted THEN SetPeerStepsAllowlisted(p) ELSE SetPeerSteps(p)
<1>1. /\ call[l].op = "none" /\ st[l] = "live" /\ attr[l].peer = None
      /\ attr' = [attr EXCEPT ![l].peer = p, ![l].allowlisted = @ /\ allowed]
      /\ \/ Begin(l, "transfer", moves, own[l], 255, None)
         \/ Begin(l, "setPeer", steps, own[l], 255, None)
      /\ refCnt' = refCnt /\ st' = st /\ edges' = edges
  BY DEF SetPeer, Idle, shared
<1>2. TypeOK /\ LeafOK(l) /\ l \in Leaves /\ l \notin Streams
  BY ResourceAssumption DEF IInv, RefInv, Leaves
<1> HIDE DEF moves, steps
<1>3. /\ \/ call'[l].op = "transfer" /\ todo'[l] = moves
         \/ call'[l].op = "setPeer" /\ todo'[l] = steps
      /\ call'[l].ok /\ undo'[l] = <<>> /\ stale' = stale
      /\ \A k \in Leaves \ {l} : call'[k] = call[k] /\ todo'[k] = todo[k] /\ undo'[k] = undo[k]
  <2>1. CASE Begin(l, "transfer", moves, own[l], 255, None)
    BY <1>2, <2>1, Began
  <2>2. CASE Begin(l, "setPeer", steps, own[l], 255, None)
    BY <1>2, <2>2, Began
  <2> QED
    BY <1>1, <2>1, <2>2
<1>4. /\ attr'[l].peer = p /\ attr'[l].proto = attr[l].proto /\ attr'[l].svc = attr[l].svc
      /\ \A k \in Leaves \ {l} : attr'[k] = attr[k]
  <2> DEFINE a == [attr[l] EXCEPT !.peer = p, !.allowlisted = attr[l].allowlisted /\ allowed]
  <2>1. attr \in [Leaves -> Attrs] /\ attr[l] \in Attrs
    BY <1>2 DEF TypeOK
  <2>2. a.peer = p /\ a.proto = attr[l].proto /\ a.svc = attr[l].svc
    BY <2>1 DEF Attrs
  <2>3. attr' = [attr EXCEPT ![l] = a]
    BY <1>1, <2>1
  <2> HIDE DEF a
  <2> QED
    BY <1>2, <2>1, <2>2, <2>3
<1>5. \A k \in Leaves \ {l} : Same(k)
  BY <1>1, <1>3, <1>4 DEF Same
<1>6. EdgesFit(l, st'[l], edges'[l], attr'[l], call'[l].op)
  BY <1>1, <1>2, <1>3, <1>4 DEF LeafOK, EdgesFit
<1>7. /\ Range(moves) = {Detach(AllowlistedTransient), Detach(AllowlistedSystem), Attach(System), Attach(Transient)}
      /\ \E sc \in Permanent : steps = <<Attach(PeerScope(p)), Detach(sc)>>
  <2>1. \A x, y, z, w : Range(<<x, y, z, w>>) = {x, y, z, w}
    BY DEF Range
  <2>2. Transient \in Permanent /\ AllowlistedTransient \in Permanent
    BY ScopesDiffer
  <2> QED
    BY <2>1, <2>2 DEF moves, steps, SetPeerSteps, SetPeerStepsAllowlisted
<1>8. \A x \in Range(moves) : x.sc \in Permanent
  BY <1>7, StepNames, ScopesDiffer
<1>9. \A x \in Range(steps) : x.do = "detach" => x.sc \in Permanent
  BY <1>7, SeqRange, StepNames
<1>10. StepsFit(st'[l], edges'[l], attr'[l], call'[l].op, call'[l].ok, todo'[l], undo'[l])
  BY <1>1, <1>3, <1>4, <1>7, <1>8, SeqRange DEF StepsFit, SettingPeer, Plain, Leaving, Sets
<1>11. \A sc : ~Late(l, sc)
  BY <1>1 DEF Late
<1> QED
  BY <1>1, <1>2, <1>3, <1>5, <1>6, <1>8, <1>9, <1>10, <1>11, SetBeginRefs DEF Sets

\* The transfer is done, SetPeer goes on.
LEMMA TransferredRefs ==
  ASSUME IInv, RefInv, NEW l \in Leaves, Transferred(l)
  PROVE  RefInv'
<1> DEFINE p == attr[l].peer
           es == <<System, Transient>>
<1>1. /\ call[l].op = "transfer" /\ edges' = [edges EXCEPT ![l] = es]
      /\ Begin(l, "setPeer", SetPeerSteps(p), own[l], 255, None)
      /\ refCnt' = refCnt /\ st' = st /\ attr' = attr
  BY DEF Transferred, Returns, shared
<1>2. TypeOK /\ LeafOK(l)
  BY DEF IInv, RefInv
<1>3. Range(es) \subseteq Permanent
  BY SeqRange, ScopesDiffer
<1> HIDE DEF es
<1>4. /\ call'[l].op = "setPeer" /\ call'[l].ok /\ todo'[l] = SetPeerSteps(p)
      /\ undo'[l] = <<>> /\ stale' = stale
      /\ \A k \in Leaves \ {l} : call'[k] = call[k] /\ todo'[k] = todo[k] /\ undo'[k] = undo[k]
  BY <1>1, <1>2, Began
<1>5. edges'[l] = es /\ \A k \in Leaves \ {l} : edges'[k] = edges[k]
  BY <1>1, <1>2 DEF TypeOK
<1>6. \A k \in Leaves \ {l} : Same(k)
  BY <1>1, <1>4, <1>5 DEF Same
<1>7. l \in Conns /\ l \notin Streams /\ Range(edges[l]) \subseteq Permanent
  BY <1>1, <1>2, ResourceAssumption DEF LeafOK, EdgesFit, Leaves
<1>8. st[l] # "new" /\ st[l] # "done"
  BY <1>1, <1>2 DEF LeafOK, StepsFit
<1>9. EdgesFit(l, st'[l], edges'[l], attr'[l], call'[l].op)
  BY <1>1, <1>2, <1>3, <1>4, <1>5, <1>7, <1>8 DEF LeafOK, EdgesFit
<1>10. Transient \in Permanent
  BY ScopesDiffer
<1>11. StepsFit(st'[l], edges'[l], attr'[l], call'[l].op, call'[l].ok, todo'[l], undo'[l])
  BY <1>1, <1>4, <1>8, <1>10 DEF StepsFit, SettingPeer, SetPeerSteps, Plain, Leaving, Sets
<1>12. \A x \in Range(todo'[l]) : x.do = "detach" => x.sc \in Permanent
  BY <1>4, <1>10, SeqRange, StepNames DEF SetPeerSteps
<1>13. \A sc : ~Late(l, sc)
  BY <1>8 DEF Late
<1> QED
  BY <1>1, <1>3, <1>4, <1>5, <1>6, <1>7, <1>8, <1>9, <1>11, <1>12, <1>13, SetBeginRefs DEF Sets

\* The change is made: what was attached is an edge now.
LEMMA SetRefs ==
  ASSUME IInv, RefInv, NEW l \in Leaves, Set(l)
  PROVE  RefInv'
<1> DEFINE a == attr[l]
           e == edges'[l]
<1>1. /\ call[l].op \in Sets /\ todo[l] = <<>> /\ call[l].ok /\ End(l)
      /\ edges' = [edges EXCEPT ![l] = NewEdges(l)]
      /\ refCnt' = refCnt /\ st' = st /\ attr' = attr
  BY DEF Set, shared
<1>2. TypeOK /\ LeafOK(l)
  BY DEF IInv, RefInv
<1>3. /\ call'[l].op = "none" /\ todo' = todo /\ undo' = undo /\ stale' = stale
      /\ \A k \in Leaves \ {l} : call'[k] = call[k]
  BY <1>1, <1>2, Ended
<1>4. e = NewEdges(l) /\ \A k \in Leaves \ {l} : edges'[k] = edges[k]
  BY <1>1, <1>2 DEF TypeOK
<1>5. \A k \in Leaves \ {l} : Same(k)
  BY <1>1, <1>3, <1>4 DEF Same
<1>6. /\ st[l] # "new" /\ (st[l] = "done" => LateCalls)
      /\ stale[l] \cap Permanent = {}
      /\ st[l] # "done" => /\ Range(edges[l]) \cap stale[l] = {}
                           /\ \A x \in Range(undo[l]) : x.sc \notin stale[l]
  BY <1>1, <1>2 DEF LeafOK, StepsFit, NotStale, Sets, Leaving
<1>7. Known(a, call[l].op) /\ None \notin Peers /\ None \notin Protos
  BY LeafTypes, ResourceAssumption
<1>8. StepsFit(st'[l], edges'[l], attr'[l], call'[l].op, call'[l].ok, todo'[l], undo'[l])
  BY <1>1, <1>3, <1>6 DEF StepsFit, Plain, Leaving, Sets
<1>9. /\ \A sc : Refers(l, sc) <=> (st[l] # "done" /\ sc \in Range(edges[l])) \/ Detach(sc) \in Range(undo[l])
      /\ \A sc : Refers(l, sc)' <=> st[l] # "done" /\ sc \in Range(e)
  BY <1>1, <1>3, SeqRange DEF Refers, RefersAs, Leaving, Sets
<1> HIDE DEF e
<1>10. ASSUME EdgesFit(l, st'[l], edges'[l], attr'[l], call'[l].op),
              \A sc \in Range(e) : sc \in Range(edges[l]) \/ sc \in Permanent \/ Detach(sc) \in Range(undo[l]),
              \A sc \in Collectable :
                /\ sc \in Range(e) <=> sc \in Range(edges[l]) \/ Detach(sc) \in Range(undo[l])
                /\ st[l] = "done" /\ Detach(sc) \in Range(undo[l]) => Late(l, sc)',
              \A sc : Late(l, sc) => Late(l, sc)'
       PROVE  RefInv'
  <2>1. st[l] # "done" => Range(e) \cap stale[l] = {}
    BY <1>6, <1>10, StepNames
  <2>2. \A sc \in Collectable : Refers(l, sc)' => sc \notin stale'[l]
    BY <1>3, <1>9, <2>1
  <2>3. NotStale(st'[l], edges'[l], call'[l].op, call'[l].ok, todo'[l], undo'[l], stale'[l])
    BY <1>1, <1>3, <1>6, <2>1, <2>2 DEF NotStale, Refers, Sets, e
  <2>4. \A sc \in Collectable : Recounts(l, sc)
    BY <1>1, <1>9, <1>10 DEF Recounts
  <2> QED
    BY <1>2, <1>5, <1>8, <1>10, <2>3, <2>4, LeafStep DEF LeafOK
<1>11. CASE call[l].op = "setPeer"
  <2>1. l \in Conns /\ l \notin Streams /\ Range(edges[l]) \subseteq Permanent /\ a.proto = None /\ a.svc = None
    BY <1>2, <1>11, ResourceAssumption DEF LeafOK, EdgesFit, Leaves
  <2>2. undo[l] = <<Detach(PeerScope(a.peer))>> /\ st[l] # "done"
    BY <1>1, <1>2, <1>11, ShortSeqs DEF LeafOK, StepsFit, SettingPeer, Undone
  <2>3. e = PeerEdges(a) /\ a.peer # None
    BY <1>4, <1>7, <1>11 DEF NewEdges, PeerEdges, Known
  <2>4. EdgesFit(l, st'[l], edges'[l], attr'[l], call'[l].op)
    BY <1>1, <1>3, <1>6, <2>1, <2>3 DEF EdgesFit, e
  <2>5. Range(undo[l]) = {Detach(PeerScope(a.peer))}
    BY <2>2, SeqRange
  <2>6. \E x \in Permanent : Range(e) = {PeerScope(a.peer), x}
    BY <2>3, EdgeScopes, ScopesDiffer
  <2>7. \A sc \in Collectable : sc \notin Permanent
    BY ScopesDiffer
  <2>8. \A sc : Detach(sc) \in Range(undo[l]) <=> sc = PeerScope(a.peer)
    BY <2>5, StepNames
  <2>9. \A sc : ~Late(l, sc)
    BY <2>2 DEF Late
  <2> QED
    BY <1>10, <2>1, <2>2, <2>4, <2>6, <2>7, <2>8, <2>9
<1>12. CASE call[l].op = "setProtocol"
  <2> DEFINE R == ProtoScope(a.proto)
             P == ProtoPeer(a.proto, a.peer)
  <2>1. /\ l \in Streams /\ l \notin Conns /\ a.peer # None /\ a.proto # None /\ a.svc = None
    BY <1>2, <1>7, <1>12, ResourceAssumption DEF LeafOK, EdgesFit, Leaves, Known
  <2>2. edges[l] = FirstEdges(a)
    BY <1>2, <1>12, <2>1 DEF LeafOK, EdgesFit, StreamEdges
  <2>3. undo[l] = <<Detach(R), Detach(P)>>
    BY <1>1, <1>2, <1>12, ShortSeqs DEF LeafOK, StepsFit, SettingProtocol, Undone, SetProtocolSteps
  <2>4. e = ProtoEdges(a)
    BY <1>4, <1>12 DEF NewEdges, ProtoEdges
  <2>5. EdgesFit(l, st'[l], edges'[l], attr'[l], call'[l].op)
    BY <1>1, <1>3, <2>1, <2>4 DEF EdgesFit, StreamEdges, e
  <2>6. /\ Range(edges[l]) = {PeerScope(a.peer), Transient, System}
        /\ Range(e) = {PeerScope(a.peer), P, R, System}
    BY <2>2, <2>4, EdgeScopes
  <2>7. Range(undo[l]) = {Detach(R), Detach(P)}
    BY <2>3, SeqRange
  <2>8. /\ P \notin Collectable /\ System \notin Collectable /\ Transient \notin Collectable
        /\ System \in Permanent
    BY ScopesDiffer
  <2>9. \A sc : Detach(sc) \in Range(undo[l]) <=> sc = R \/ sc = P
    BY <2>7, StepNames
  <2>10. /\ \A sc : ~Late(l, sc)
         /\ \A sc : st[l] = "done" /\ sc = R => Late(l, sc)'
    BY <1>1, <1>3, <1>6, <1>12, <2>1 DEF Late, ProtoScope
  <2> HIDE DEF R, P
  <2>11. ASSUME NEW sc \in Collectable
         PROVE  /\ sc \in Range(e) <=> sc \in Range(edges[l]) \/ Detach(sc) \in Range(undo[l])
                /\ st[l] = "done" /\ Detach(sc) \in Range(undo[l]) => Late(l, sc)'
    BY <2>6, <2>8, <2>9, <2>10
  <2> QED
    BY <1>10, <2>5, <2>6, <2>8, <2>9, <2>10, <2>11
<1>13. CASE call[l].op = "setService"
  <2> DEFINE V == SvcScope(a.svc)
             P == SvcPeer(a.svc, a.peer)
  <2>1. /\ l \in Streams /\ l \notin Conns /\ a.peer # None /\ a.proto # None /\ a.svc # None
    BY <1>2, <1>7, <1>13, ResourceAssumption DEF LeafOK, EdgesFit, Leaves, Known
  <2>2. edges[l] = ProtoEdges(a)
    BY <1>2, <1>13, <2>1 DEF LeafOK, EdgesFit, StreamEdges
  <2>3. undo[l] = <<Detach(V), Detach(P)>>
    BY <1>1, <1>2, <1>13, ShortSeqs DEF LeafOK, StepsFit, SettingService, Undone
  <2>4. e = SvcEdges(a)
    BY <1>4, <1>13 DEF NewEdges, SvcEdges
  <2>5. EdgesFit(l, st'[l], edges'[l], attr'[l], call'[l].op)
    BY <1>1, <1>3, <2>1, <2>4 DEF EdgesFit, StreamEdges, e
  <2>6. /\ Range(edges[l]) = {PeerScope(a.peer), ProtoPeer(a.proto, a.peer), ProtoScope(a.proto), System}
        /\ Range(e) = Range(edges[l]) \cup {V, P}
    BY <2>2, <2>4, EdgeScopes
  <2>7. Range(undo[l]) = {Detach(V), Detach(P)}
    BY <2>3, SeqRange
  <2>8. P \notin Collectable /\ V \notin Collectable
    BY ScopesDiffer
  <2>9. \A sc : Detach(sc) \in Range(undo[l]) <=> sc = V \/ sc = P
    BY <2>7, StepNames
  <2>10. \A sc : Late(l, sc) => Late(l, sc)'
    BY <1>1, <1>3 DEF Late, ProtoScope
  <2> HIDE DEF V, P
  <2> QED
    BY <1>10, <2>5, <2>6, <2>8, <2>9, <2>10
<1> QED
  BY <1>1, <1>11, <1>12, <1>13 DEF Sets

\* The change is refused: nothing is attached any more.
LEMMA SetRefusedRefs ==
  ASSUME IInv, RefInv, NEW l \in Leaves, SetRefused(l)
  PROVE  RefInv'
<1> DEFINE a == attr[l]
           b == attr'[l]
           op == call[l].op
<1>1. /\ op \in Sets \cup {"transfer"} /\ todo[l] = <<>> /\ ~call[l].ok /\ End(l)
      /\ edges' = [edges EXCEPT ![l] = IF op = "transfer" THEN <<>> ELSE edges[l]]
      /\ st' = [st EXCEPT ![l] = IF st[l] = "live" THEN "failed" ELSE st[l]]
      /\ refCnt' = refCnt
  BY DEF SetRefused, shared
<1>2. TypeOK /\ LeafOK(l)
  BY DEF IInv, RefInv
<1>3. /\ call'[l].op = "none" /\ todo' = todo /\ undo' = undo /\ stale' = stale
      /\ \A k \in Leaves \ {l} : call'[k] = call[k]
  BY <1>1, <1>2, Ended
<1>4. /\ edges'[l] = IF op = "transfer" THEN <<>> ELSE edges[l]
      /\ st'[l] = IF st[l] = "live" THEN "failed" ELSE st[l]
      /\ \A k \in Leaves \ {l} : edges'[k] = edges[k] /\ st'[k] = st[k]
  BY <1>1, <1>2 DEF TypeOK
<1>5. /\ op = "setService" => b.svc = None /\ b.proto = a.proto /\ b.peer = a.peer
      /\ op = "setProtocol" => b.svc = a.svc /\ b.proto = None /\ b.peer = a.peer
      /\ op \notin {"setService", "setProtocol"} =>
           b.svc = a.svc /\ b.proto = a.proto /\ b.peer = None
      /\ \A k \in Leaves \ {l} : attr'[k] = attr[k]
  <2>1. attr \in [Leaves -> Attrs] /\ a \in Attrs
    BY <1>2 DEF TypeOK
  <2>2. CASE op = "setService"
    <3>1. attr' = [attr EXCEPT ![l].svc = None]
      BY <2>2 DEF SetRefused
    <3>2. attr' = [attr EXCEPT ![l] = [a EXCEPT !.svc = None]]
      BY <2>1, <3>1
    <3> QED
      BY <2>1, <2>2, <3>2 DEF Attrs
  <2>3. CASE op = "setProtocol"
    <3>1. attr' = [attr EXCEPT ![l].proto = None]
      BY <2>3 DEF SetRefused
    <3>2. attr' = [attr EXCEPT ![l] = [a EXCEPT !.proto = None]]
      BY <2>1, <3>1
    <3> QED
      BY <2>1, <2>3, <3>2 DEF Attrs
  <2>4. CASE op \notin {"setService", "setProtocol"}
    <3>1. attr' = [attr EXCEPT ![l].peer = None]
      BY <2>4 DEF SetRefused
    <3>2. attr' = [attr EXCEPT ![l] = [a EXCEPT !.peer = None]]
      BY <2>1, <3>1
    <3> QED
      BY <2>1, <2>4, <3>2 DEF Attrs
  <2> QED
    BY <2>2, <2>3, <2>4
<1>6. \A k \in Leaves \ {l} : Same(k)
  BY <1>3, <1>4, <1>5 DEF Same
<1>7. /\ st[l] # "new" /\ (op \in Sets => undo[l] = <<>>)
      /\ stale[l] \cap Permanent = {}
      /\ st[l] # "done" => Range(edges[l]) \cap stale[l] = {}
  <2>1. op \in Sets => undo[l] = <<>>
    BY <1>1, <1>2 DEF LeafOK, StepsFit, Sets, SettingPeer, SettingProtocol, SettingService, Undone
  <2>2. op \notin Leaving
    BY <1>1 DEF Leaving, Sets
  <2> QED
    BY <1>1, <1>2, <2>1, <2>2 DEF LeafOK, StepsFit, NotStale
<1>8. Known(a, op) /\ None \notin Peers /\ None \notin Protos /\ None \notin Svcs
  BY LeafTypes, ResourceAssumption
<1>9. StepsFit(st'[l], edges'[l], attr'[l], call'[l].op, call'[l].ok, todo'[l], undo'[l])
  BY <1>1, <1>3, <1>4, <1>7 DEF StepsFit, Plain, Leaving, Sets
<1> HIDE DEF b
<1>10. EdgesFit(l, st'[l], edges'[l], b, call'[l].op)
  <2>1. CASE l \in Streams
    <3>1. op \in {"setService", "setProtocol"} /\ l \notin Conns
      BY <1>1, <1>2, <2>1, ResourceAssumption DEF LeafOK, EdgesFit, Sets
    <3>2. edges[l] = StreamEdges(a, op) /\ edges'[l] = edges[l] /\ a.peer # None
      BY <1>2, <1>4, <1>8, <2>1, <3>1 DEF LeafOK, EdgesFit, Known
    <3>3. CASE op = "setProtocol"
      BY <1>3, <1>5, <3>1, <3>2, <3>3 DEF EdgesFit, StreamEdges, FirstEdges
    <3>4. CASE op = "setService"
      <4>1. a.proto # None
        BY <1>8, <3>4 DEF Known
      <4> QED
        BY <1>3, <1>5, <3>1, <3>2, <3>4, <4>1 DEF EdgesFit, StreamEdges, ProtoEdges
    <3> QED
      BY <3>1, <3>3, <3>4
  <2>2. CASE l \in Conns
    <3>1. op \in {"setPeer", "transfer"} /\ l \notin Streams
      BY <1>1, <1>2, <2>2, ResourceAssumption DEF LeafOK, EdgesFit, Sets
    <3>2. Range(edges[l]) \subseteq Permanent /\ a.proto = None /\ a.svc = None
      BY <1>2, <2>2, <3>1 DEF LeafOK, EdgesFit
    <3>3. Range(edges'[l]) \subseteq Permanent
      BY <1>4, <3>2, SeqRange
    <3> QED
      BY <1>3, <1>5, <3>1, <3>2, <3>3 DEF EdgesFit
  <2> QED
    BY <2>1, <2>2 DEF Leaves
<1>11. \A sc \in Collectable : Refers(l, sc)' <=> Refers(l, sc)
  <2>1. CASE op = "transfer"
    <3>1. Range(edges[l]) \subseteq Permanent
      BY <1>2, <2>1 DEF LeafOK, EdgesFit, Leaves
    <3> QED
      BY <1>3, <1>4, <2>1, <3>1, SeqRange, ScopesDiffer DEF Refers, RefersAs, Leaving, Sets
  <2>2. CASE op \in Sets
    <3>1. op # "transfer" /\ op \notin Leaving
      BY <2>2 DEF Sets, Leaving
    <3> QED
      BY <1>1, <1>3, <1>4, <1>7, <2>2, <3>1, SeqRange DEF Refers, RefersAs, Leaving, Sets
  <2> QED
    BY <1>1, <2>1, <2>2
<1>12. \A sc : Late(l, sc) => Late(l, sc)'
  <2>1. CASE op = "setService"
    BY <1>3, <1>4, <1>5, <2>1 DEF Late, ProtoScope, b
  <2>2. CASE op = "setProtocol"
    BY <2>2 DEF Late
  <2>3. CASE op \in {"setPeer", "transfer"}
    BY <1>8, <2>3 DEF Late, Known
  <2> QED
    BY <1>1, <2>1, <2>2, <2>3 DEF Sets
<1>13. NotStale(st'[l], edges'[l], call'[l].op, call'[l].ok, todo'[l], undo'[l], stale'[l])
  <2>1. \A sc \in Collectable : Refers(l, sc)' => sc \notin stale'[l]
    BY <1>2, <1>3, <1>11 DEF LeafOK, NotStale, Refers
  <2>2. st'[l] # "new" /\ (st'[l] # "done" => Range(edges'[l]) \cap stale'[l] = {})
    BY <1>3, <1>4, <1>7, SeqRange
  <2> QED
    BY <1>3, <1>7, <2>1, <2>2 DEF NotStale, Refers, Sets
<1> QED
  BY <1>1, <1>2, <1>6, <1>9, <1>10, <1>11, <1>12, <1>13, KeepStep DEF LeafOK, b

----------------------------------------------------------------------------
(* Garbage collection.                                                     *)

\* Nothing that is referred to is collected, and no scope within a protocol or service
\* whose protocol and peer are referred to.
LEMMA GCRefs ==
  ASSUME IInv, RefInv, GC
  PROVE  RefInv'
<1> DEFINE dead == {sc \in Collectable \cap present : IsUnused(sc)}
           deadPeers == {p \in Peers : PeerScope(p) \in dead}
           deadProtos == {r \in Protos : ProtoScope(r) \in dead}
           gone == dead \cup (UNION {PerPeer(p) : p \in deadPeers})
                     \cup {ProtoPeer(r, p) : r \in deadProtos, p \in Peers}
<1>1. /\ refCnt' = [sc \in Scopes |-> IF sc \in gone THEN 0
                                      ELSE IF sc = System THEN refCnt[sc] - Cardinality(dead)
                                      ELSE refCnt[sc]]
      /\ stale' = [l \in Leaves |-> stale[l] \cup (gone \cap RefersTo(l))]
      /\ st' = st /\ edges' = edges /\ attr' = attr /\ call' = call /\ todo' = todo /\ undo' = undo
  BY DEF GC, leaf
<1>2. ASSUME NEW x \in gone
      PROVE  \/ x \in dead /\ x \in Collectable
             \/ \E r, p : x = ProtoPeer(r, p) /\ (PeerScope(p) \in dead \/ ProtoScope(r) \in dead)
             \/ \E v, p : x = SvcPeer(v, p) /\ PeerScope(p) \in dead
  BY DEF PerPeer
<1>3. \A sc \in Collectable : refCnt[sc] \in Int /\ sc \in Scopes /\ sc # System
  BY ScopesDiffer DEF IInv, TypeOK, Scopes
<1>4. ASSUME NEW sc \in dead
      PROVE  sc \in Collectable /\ refCnt[sc] <= 0
  BY DEF IsUnused
<1> HIDE DEF dead, deadPeers, deadProtos, gone
<1>5. \A x \in gone : x \notin Permanent /\ (x \in Collectable => x \in dead)
  <2> SUFFICES ASSUME NEW x \in gone
               PROVE  x \notin Permanent /\ (x \in Collectable => x \in dead)
    OBVIOUS
  <2>1. CASE x \in dead /\ x \in Collectable
    BY <2>1, ScopesDiffer
  <2>2. CASE \E r, p : x = ProtoPeer(r, p)
    BY <2>2, ScopesDiffer
  <2>3. CASE \E v, p : x = SvcPeer(v, p)
    BY <2>3, ScopesDiffer
  <2> QED
    BY <1>2, <2>1, <2>2, <2>3
<1>6. ASSUME NEW sc \in Collectable
      PROVE  /\ IsFiniteSet(Referring(sc)) /\ Cardinality(Referring(sc)) \in Nat
             /\ Cardinality(Referred(sc)) \in Nat
  <2>1. Referring(sc) \subseteq Referred(sc) /\ IsFiniteSet(Referred(sc))
    BY DEF RefInv, Counted, Referring, Referred
  <2> QED
    BY <2>1, FS_Subset, FS_CardinalityType
<1>7. ASSUME NEW sc \in dead, NEW l \in Leaves
      PROVE  ~Refers(l, sc)
  <2>1. Cardinality(Referring(sc)) <= refCnt[sc] /\ refCnt[sc] <= 0
    BY <1>4 DEF RefInv, Counted
  <2>2. Referring(sc) = {}
    BY <1>3, <1>4, <1>6, <2>1, FS_EmptySet
  <2> QED
    BY <2>2 DEF Referring
<1>8. ASSUME NEW sc \in Collectable
      PROVE  Counted(sc)'
  <2>1. Referring(sc)' = Referring(sc) /\ Referred(sc)' = Referred(sc)
    BY <1>1 DEF Referring, Referred, Refers, Late, ProtoScope
  <2>2. CASE sc \in dead
    <3>1. refCnt'[sc] = 0
      <4>1. sc \in gone
        BY <2>2 DEF gone
      <4> QED
        BY <1>1, <1>3, <4>1
    <3>2. Referring(sc) = {}
      BY <1>7, <2>2 DEF Referring
    <3>3. Cardinality(Referring(sc)) = 0
      BY <3>2, FS_EmptySet
    <3> QED
      BY <1>6, <2>1, <3>1, <3>3 DEF Counted, RefInv
  <2>3. CASE sc \notin dead
    <3>1. refCnt'[sc] = refCnt[sc]
      BY <1>1, <1>3, <1>5, <2>3
    <3> QED
      BY <2>1, <3>1 DEF Counted, RefInv
  <2> QED
    BY <2>2, <2>3
<1>9. ASSUME NEW l \in Leaves
      PROVE  LeafOK(l)'
  <2>1. LeafOK(l) /\ stale'[l] = stale[l] \cup (gone \cap RefersTo(l))
    BY <1>1 DEF RefInv
  <2>2. ASSUME st[l] # "done", call[l].op \notin Leaving
        PROVE  Range(edges[l]) \cap gone = {}
    <3>1. \A sc \in Range(edges[l]) : Refers(l, sc)
      BY <2>2 DEF Refers, RefersAs
    <3>2. \A sc \in Range(edges[l]) : sc \notin dead
      BY <1>7, <3>1
    <3>3. /\ \A r, p : ProtoPeer(r, p) \in Range(edges[l]) =>
                         PeerScope(p) \in Range(edges[l]) /\ ProtoScope(r) \in Range(edges[l])
          /\ \A v, p : SvcPeer(v, p) \in Range(edges[l]) => PeerScope(p) \in Range(edges[l])
      BY <2>1, EdgesClosed DEF LeafOK
    <3> QED
      BY <1>2, <3>2, <3>3
  <2>3. ASSUME st[l] # "done", call[l].op \in Sets, call[l].ok, NEW x \in Range(undo[l])
        PROVE  x.sc \notin gone
    <3> DEFINE a == attr[l]
    <3>1. \A sc : Detach(sc) \in Range(undo[l]) => sc \notin dead
      BY <1>7, <2>3 DEF Refers, RefersAs
    <3>2. call[l].op \notin Leaving
      BY <2>3 DEF Sets, Leaving
    <3>3. CASE call[l].op = "setPeer"
      <4>1. undo[l] = <<>> \/ undo[l] = <<Detach(PeerScope(a.peer))>>
        BY <2>1, <2>3, <3>3 DEF LeafOK, StepsFit, SettingPeer, Undone
      <4>2. x = Detach(PeerScope(a.peer))
        <5>1. Range(undo[l]) \subseteq {Detach(PeerScope(a.peer))}
          BY <4>1, SeqRange
        <5> QED
          BY <2>3, <5>1
      <4>3. x.sc = PeerScope(a.peer) /\ x.sc \notin dead
        BY <2>3, <3>1, <4>2, StepNames
      <4>4. PeerScope(a.peer) \in Collectable
        BY <3>3, NewScopes, ResourceAssumption
      <4> QED
        BY <1>5, <4>3, <4>4
    <3>4. CASE call[l].op = "setProtocol"
      <4> DEFINE R == ProtoScope(a.proto)
                 P == ProtoPeer(a.proto, a.peer)
      <4>1. undo[l] = <<>> \/ undo[l] = <<Detach(R)>> \/ undo[l] = <<Detach(R), Detach(P)>>
        BY <2>1, <2>3, <3>4 DEF LeafOK, StepsFit, SettingProtocol, Undone
      <4>2. x \in {Detach(R), Detach(P)} /\ Detach(R) \in Range(undo[l])
        <5> DEFINE DR == Detach(R)
                   DP == Detach(P)
        <5>1. undo[l] = <<>> \/ undo[l] = <<DR>> \/ undo[l] = <<DR, DP>>
          BY <4>1
        <5> HIDE DEF DR, DP
        <5>2. Range(<<>>) = {} /\ Range(<<DR>>) = {DR} /\ Range(<<DR, DP>>) = {DR, DP}
          BY SeqRange
        <5>3. x \in {DR, DP} /\ DR \in Range(undo[l])
          BY <2>3, <5>1, <5>2
        <5> QED
          BY <5>3 DEF DR, DP
      <4>3. x.sc \in {R, P} /\ R \notin dead
        BY <3>1, <4>2, StepNames
      <4>4. R \in Collectable
        BY <3>4, NewScopes, ResourceAssumption
      <4>5. PeerScope(a.peer) \in Range(edges[l])
        <5>1. l \in Streams /\ a.peer # None
          BY <2>1, <3>4, LeafTypes, ResourceAssumption DEF LeafOK, EdgesFit, Leaves, Known
        <5>2. edges[l] = FirstEdges(a)
          BY <2>1, <3>4, <5>1 DEF LeafOK, EdgesFit, StreamEdges
        <5> QED
          BY <5>2, EdgeScopes
      <4>6. PeerScope(a.peer) \notin dead
        BY <1>7, <2>3, <3>2, <4>5 DEF Refers, RefersAs
      <4>7. P \notin gone
        <5>1. /\ P \notin Collectable
              /\ \A r, p : P = ProtoPeer(r, p) => r = a.proto /\ p = a.peer
              /\ \A v, p : P # SvcPeer(v, p)
          BY ScopesDiffer
        <5> HIDE DEF P
        <5> QED
          BY <1>2, <4>3, <4>6, <5>1
      <4> QED
        BY <1>5, <4>3, <4>4, <4>7
    <3>5. CASE call[l].op = "setService"
      <4> DEFINE V == SvcScope(a.svc)
                 P == SvcPeer(a.svc, a.peer)
      <4>1. undo[l] = <<>> \/ undo[l] = <<Detach(V)>> \/ undo[l] = <<Detach(V), Detach(P)>>
        BY <2>1, <2>3, <3>5 DEF LeafOK, StepsFit, SettingService, Undone
      <4>2. x \in {Detach(V), Detach(P)}
        <5> DEFINE DV == Detach(V)
                   DP == Detach(P)
        <5>1. undo[l] = <<>> \/ undo[l] = <<DV>> \/ undo[l] = <<DV, DP>>
          BY <4>1
        <5> HIDE DEF DV, DP
        <5>2. Range(<<>>) = {} /\ Range(<<DV>>) = {DV} /\ Range(<<DV, DP>>) = {DV, DP}
          BY SeqRange
        <5>3. x \in {DV, DP}
          BY <2>3, <5>1, <5>2
        <5> QED
          BY <5>3 DEF DV, DP
      <4>3. x.sc \in {V, P}
        BY <4>2, StepNames
      <4>4. PeerScope(a.peer) \in Range(edges[l])
        <5>1. l \in Streams /\ a.peer # None /\ a.proto # None
          BY <2>1, <3>5, LeafTypes, ResourceAssumption DEF LeafOK, EdgesFit, Leaves, Known
        <5>2. edges[l] = ProtoEdges(a)
          BY <2>1, <3>5, <5>1 DEF LeafOK, EdgesFit, StreamEdges
        <5> QED
          BY <5>2, EdgeScopes
      <4>5. PeerScope(a.peer) \notin dead
        BY <1>7, <2>3, <3>2, <4>4 DEF Refers, RefersAs
      <4>6. P \notin gone
        <5>1. /\ P \notin Collectable
              /\ \A v, p : P = SvcPeer(v, p) => p = a.peer
              /\ \A r, p : P # ProtoPeer(r, p)
          BY ScopesDiffer
        <5> HIDE DEF P
        <5> QED
          BY <1>2, <4>5, <5>1
      <4>7. V \notin gone
        <5>1. /\ V \notin Collectable
              /\ \A v, p : V # SvcPeer(v, p) /\ V # ProtoPeer(v, p)
          BY ScopesDiffer
        <5> HIDE DEF V
        <5> QED
          BY <1>2, <5>1
      <4> QED
        BY <4>3, <4>6, <4>7
    <3> QED
      BY <2>3, <3>3, <3>4, <3>5 DEF Sets
  <2>4. \A sc \in Collectable : Refers(l, sc) => sc \notin gone
    BY <1>5, <1>7
  <2>5. ASSUME st[l] = "new", call[l].op \notin {"open", "abort"}
        PROVE  RefersTo(l) = {}
    BY <2>1, <2>5 DEF LeafOK, StepsFit, RefersTo, EdgeSet
  <2>6. NotStale(st[l], edges[l], call[l].op, call[l].ok, todo[l], undo[l], stale'[l])
    BY <1>5, <2>1, <2>2, <2>3, <2>4, <2>5 DEF LeafOK, NotStale, Refers
  <2> QED
    BY <1>1, <2>1, <2>6 DEF LeafOK
<1> QED
  BY <1>8, <1>9 DEF RefInv

----------------------------------------------------------------------------
(* The references are right.                                               *)

\* Nothing is referred to at first.
LEMMA InitRefs == Init => RefInv
<1> SUFFICES ASSUME Init
             PROVE  RefInv
  OBVIOUS
<1>1. ASSUME NEW l \in Leaves
      PROVE  /\ st[l] = "new" /\ edges[l] = <<>> /\ attr[l] = NoAttr /\ call[l] = NoCall
             /\ todo[l] = <<>> /\ undo[l] = <<>> /\ stale[l] = {}
  BY DEF Init
<1>2. /\ NoCall.op = "none" /\ NoAttr.peer = None /\ NoAttr.proto = None /\ NoAttr.svc = None
      /\ Range(<<>>) = {}
  BY SeqRange DEF NoCall, NoAttr
<1>3. \A l \in Leaves, sc \in Collectable : ~Refers(l, sc) /\ ~Late(l, sc)
  BY <1>1, <1>2 DEF Refers, RefersAs, Late, Leaving, Sets
<1>4. ASSUME NEW l \in Leaves
      PROVE  LeafOK(l)
  <2>1. EdgesFit(l, st[l], edges[l], attr[l], call[l].op)
    BY <1>1, <1>2 DEF EdgesFit, StreamEdges
  <2>2. StepsFit(st[l], edges[l], attr[l], call[l].op, call[l].ok, todo[l], undo[l])
    BY <1>1, <1>2 DEF StepsFit, Plain, Leaving, Sets
  <2>3. NotStale(st[l], edges[l], call[l].op, call[l].ok, todo[l], undo[l], stale[l])
    BY <1>1 DEF NotStale
  <2> QED
    BY <2>1, <2>2, <2>3 DEF LeafOK
<1>5. ASSUME NEW sc \in Collectable
      PROVE  Counted(sc)
  <2>1. Referring(sc) = {} /\ Referred(sc) = {}
    BY <1>3 DEF Referring, Referred
  <2>2. refCnt[sc] = 0
    BY ScopesDiffer DEF Init, Scopes
  <2> QED
    BY <2>1, <2>2, FS_EmptySet DEF Counted
<1> QED
  BY <1>4, <1>5 DEF RefInv

\* Every step keeps the references right.
LEMMA NextRefs == IInv /\ RefInv /\ [Next]_vars => RefInv'
<1> SUFFICES ASSUME IInv, RefInv, [Next]_vars
             PROVE  RefInv'
  OBVIOUS
<1>1. CASE UNCHANGED vars
  BY <1>1, NoLeafStep DEF vars, Same
<1>2. CASE GC
  BY <1>2, GCRefs
<1>3. ASSUME NEW l \in Leaves,
             \/ Charge(l) \/ Refuse(l) \/ Uncharge(l)
             \/ Opened(l) \/ OpenRefused(l) \/ Done(l) \/ Closed(l)
             \/ Transferred(l) \/ Set(l) \/ SetRefused(l)
      PROVE  RefInv'
  BY <1>3, ChargeRefs, RefuseRefs, UnchargeRefs, OpenedRefs, DoneRefs, ClosedRefs,
     TransferredRefs, SetRefs, SetRefusedRefs
<1>4. ASSUME NEW l \in Leaves, RetryAllowlisted(l)
      PROVE  RefInv'
  BY <1>4, OpenConnRefs DEF RetryAllowlisted
<1>5. ASSUME NEW l \in Conns, NEW dir \in {"in", "out"}, NEW fd \in BOOLEAN, OpenConnection(l, dir, fd)
      PROVE  RefInv'
  BY <1>5, OpenConnRefs DEF OpenConnection
<1>6. ASSUME NEW l \in Leaves, MemoryReserved(l) \/ MemoryReleased(l)
      PROVE  RefInv'
  BY <1>6, MemoryEndRefs DEF MemoryReserved, MemoryReleased, Returns, shared, leaf
<1>7. ASSUME NEW l \in Leaves, NEW x \in Spans, BeginSpan(x, l) \/ SpanDone(x, l)
      PROVE  RefInv'
  BY <1>7, SpanRefs
<1>8. ASSUME NEW l \in Leaves, NEW via \in Spans \cup {None}, NEW n \in Mem,
             ReleaseMemory(l, via, n) \/ \E prio \in Prios : ReserveMemory(l, via, n, prio)
      PROVE  RefInv'
  BY <1>8, MemoryRefs
<1>9. ASSUME NEW l \in Streams, NEW dir \in {"in", "out"}, NEW p \in Peers, OpenStream(l, p, dir)
      PROVE  RefInv'
  BY <1>9, OpenStreamRefs
<1>10. ASSUME NEW l \in Streams, NEW r \in Protos, SetProtocol(l, r)
       PROVE  RefInv'
  BY <1>10, SetProtocolRefs
<1>11. ASSUME NEW l \in Streams, NEW v \in Svcs, SetService(l, v)
       PROVE  RefInv'
  BY <1>11, SetServiceRefs
<1>12. ASSUME NEW l \in Conns, NEW p \in Peers, NEW allowed \in BOOLEAN, SetPeer(l, p, allowed)
       PROVE  RefInv'
  BY <1>12, SetPeerRefs
<1> QED
  BY <1>1, <1>2, <1>3, <1>4, <1>5, <1>6, <1>7, <1>8, <1>9, <1>10, <1>11, <1>12 DEF Next

\* The invariant says what is wanted of the references.
LEMMA RefsRight ==
  ASSUME IInv, RefInv
  PROVE  ReferencesRight
<1>1. \A l \in Leaves : EdgeSet(l) = Range(edges[l])
  BY DEF EdgeSet, Range
<1>2. NoStaleEdges
  BY <1>1 DEF NoStaleEdges, RefInv, LeafOK, NotStale, Leaving
<1>3. ASSUME Quiescent, NEW sc \in Collectable
      PROVE  /\ Cardinality(Holders(sc)) <= refCnt[sc]
             /\ refCnt[sc] <= Cardinality(Holders(sc)) + Cardinality(SetLate(sc))
  <2>1. ASSUME NEW l \in Leaves
        PROVE  /\ Refers(l, sc) <=> st[l] \in {"live", "failed"} /\ sc \in EdgeSet(l)
               /\ Late(l, sc) <=> l \in SetLate(sc)
    <3>1. call[l].op = "none" /\ LeafOK(l) /\ st[l] \in {"new", "live", "failed", "done"}
      BY <1>3, LeafTypes DEF Quiescent, Idle, RefInv
    <3>2. st[l] = "new" => Range(edges[l]) = {}
      BY <3>1, SeqRange DEF LeafOK, StepsFit
    <3> QED
      BY <1>1, <3>1, <3>2 DEF Refers, RefersAs, Leaving, Sets, Late, SetLate
  <2>2. /\ Referring(sc) = Holders(sc)
        /\ Referred(sc) = Holders(sc) \cup SetLate(sc)
    BY <2>1 DEF Referring, Referred, Holders, SetLate
  <2> DEFINE H == Holders(sc)
             L == SetLate(sc)
  <2>3. /\ IsFiniteSet(H \cup L) /\ Cardinality(H) <= refCnt[sc] /\ refCnt[sc] <= Cardinality(H \cup L)
    BY <2>2 DEF RefInv, Counted
  <2>4. refCnt[sc] \in Int
    BY DEF IInv, TypeOK, Scopes
  <2> HIDE DEF H, L
  <2>5. IsFiniteSet(H) /\ IsFiniteSet(L) /\ IsFiniteSet(H \cap L)
    BY <2>3, FS_Subset
  <2>6. /\ Cardinality(H) \in Nat /\ Cardinality(L) \in Nat /\ Cardinality(H \cap L) \in Nat
        /\ Cardinality(H \cup L) = Cardinality(H) + Cardinality(L) - Cardinality(H \cap L)
    BY <2>5, FS_Union, FS_CardinalityType
  <2>7. Cardinality(H) <= refCnt[sc] /\ refCnt[sc] <= Cardinality(H) + Cardinality(L)
    BY <2>3, <2>4, <2>6
  <2> QED
    BY <2>7 DEF H, L
<1> QED
  BY <1>2, <1>3 DEF ReferencesRight, UnusedCollectable

\* Nobody is charged through a scope that was collected, and a peer's or protocol's scope
\* that nobody uses can be collected, whatever fails, is undone or collected in between.
THEOREM ReferencesHold == Spec => []ReferencesRight
<1>1. Init => RefInv
  BY InitRefs
<1>2. IInv /\ RefInv /\ [Next]_vars => RefInv'
  BY NextRefs
<1>3. IInv /\ RefInv => ReferencesRight
  BY RefsRight
<1>4. Spec => []IInv
  BY Invariance
<1> QED
  BY <1>1, <1>2, <1>3, <1>4, PTL DEF Spec
============================================================================
