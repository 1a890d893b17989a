--------------------------- MODULE ConnMgrProofs ---------------------------
(***************************************************************************)
(* Proofs about the connection manager, for any number of peers,           *)
(* connections and trims.  That a trim selects the right connections rests *)
(* on what holds of the entries of the peers whatever a trim has seen of   *)
(* them before: who made them, which connections they hold, and that a     *)
(* candidate stays unprotected and out of its grace period as long as the  *)
(* history variables say so.                                               *)
(***************************************************************************)
EXTENDS ConnMgr, FiniteSetTheorems, TLAPS

\* The connections that some entry holds, tracked or not.
Held == {c \in Conns : \E i \in Infos : c \in info[i].conns}

\* The entries of peers.
Entries ==
  /\ \A p \in Peers : HasInfo(p) => peers[p] < nextInfo /\ info[peers[p]].peer = p
  /\ \A i \in Infos : \A c \in info[i].conns :
       i < nextInfo /\ remotePeer[c] = info[i].peer /\ conn[c] # "none" /\ ~info[i].temp
  /\ \A i, j \in Infos : \A c \in Conns : c \in info[i].conns /\ c \in info[j].conns => i = j
  /\ \A i \in Infos : i < nextInfo /\ info[i].temp => i \in early
  /\ connCount = Cardinality(Held)

\* What is tracked, unless a trim dropped the wrong entry.
Reported(c) == conn[c] \in {"open", "closed"}
Tracking ==
  ~strayed =>
    /\ \A i \in Infos : \A c \in info[i].conns : peers[info[i].peer] = i /\ Reported(c)
    /\ \A c \in Conns : Reported(c) =>
         HasInfo(remotePeer[c]) /\ c \in info[peers[remotePeer[c]]].conns

\* What a trim has collected and selected.
Trimming ==
  \A t \in Trims :
    /\ selected[t] # {} => at[t] \in {"select", "selectAll", "close"}
    /\ \A c \in selected[t] : conn[c] # "none"
    /\ \A p \in spare[t] : Protected(p)
    /\ \A k \in 1..Len(cands[t]) : cands[t][k] < nextInfo
    /\ at[t] = "select" => \A k \in 1..Len(cands[t]) : info[cands[t][k]].peer \notin spare[t]
    /\ at[t] = "select" /\ t \in Callers \cup Background =>
         \A k \in 1..Len(cands[t]) : ~info[cands[t][k]].grace \/ cands[t][k] \in early

IInv == TypeOK /\ Entries /\ Tracking /\ Trimming /\ ProtectedSpared /\ GraceRespected

----------------------------------------------------------------------------
LEMMA InfosFacts ==
  /\ \A i \in Infos : i \in Nat /\ i # NoInfo
  /\ IsFiniteSet(Infos)
<1>1. MaxInfos \in Nat
  BY ConnMgrAssumption
<1>2. IsFiniteSet(1..MaxInfos)
  BY <1>1, FS_Interval
<1> QED
  BY <1>1, <1>2 DEF Infos, NoInfo

LEMMA HeldFinite == IsFiniteSet(Held) /\ Cardinality(Held) \in Nat
<1>1. Held \subseteq Conns
  BY DEF Held
<1> QED
  BY <1>1, ConnMgrAssumption, FS_Subset, FS_CardinalityType

\* Sorting a set of entries gives a sequence of these entries.
LEMMA SortedSeqsFacts ==
  ASSUME NEW C \in SUBSET Infos, NEW b, NEW s \in SortedSeqs(C, b)
  PROVE  s \in Seq(Infos) /\ \A k \in 1..Len(s) : s[k] \in C
<1>1. IsFiniteSet(C) /\ Cardinality(C) \in Nat
  BY InfosFacts, FS_Subset, FS_CardinalityType
<1>2. s \in [1..Cardinality(C) -> C]
  BY DEF SortedSeqs
<1>3. s \in Seq(C) /\ Len(s) = Cardinality(C)
  BY <1>1, <1>2
<1> QED
  BY <1>2, <1>3

\* The entries that are tracked.
LEMMA TrackedFacts ==
  ASSUME TypeOK
  PROVE  Tracked \subseteq Infos /\ \A i \in Tracked : \E p \in Peers : i = peers[p] /\ HasInfo(p)
<1>1. peers \in [Peers -> Infos \cup {NoInfo}]
  BY DEF TypeOK
<1> QED
  BY <1>1 DEF Tracked, HasInfo

\* The number of connections of the candidates is one.
LEMMA CandidateCount ==
  ASSUME TypeOK
  PROVE  Cardinality({x \in Candidates \X Conns : x[2] \in info[x[1]].conns}) \in Int
<1> DEFINE X == {x \in Candidates \X Conns : x[2] \in info[x[1]].conns}
<1>1. Candidates \subseteq Infos
  BY TrackedFacts DEF Candidates, Unprotected
<1>2. IsFiniteSet(Candidates) /\ IsFiniteSet(Conns)
  BY <1>1, InfosFacts, ConnMgrAssumption, FS_Subset
<1>3. IsFiniteSet(Candidates \X Conns)
  BY <1>2, FS_Product
<1>4. X \subseteq Candidates \X Conns
  OBVIOUS
<1>5. IsFiniteSet(X)
  BY <1>3, <1>4, FS_Subset
<1>6. Cardinality(X) \in Nat
  BY <1>5, FS_CardinalityType
<1> QED
  BY <1>6

LEMMA TailFacts ==
  ASSUME NEW s \in Seq(Infos), s # <<>>
  PROVE  /\ Tail(s) \in Seq(Infos) /\ Head(s) = s[1] /\ 1 \in 1..Len(s) /\ Head(s) \in Infos
         /\ \A k \in 1..Len(Tail(s)) : k + 1 \in 1..Len(s) /\ Tail(s)[k] = s[k + 1]
  OBVIOUS

LEMMA IInvInit == Init => IInv
<1> SUFFICES ASSUME Init PROVE IInv
  OBVIOUS
<1> USE ConnMgrAssumption
<1>1. (CHOOSE p \in Peers : TRUE) \in Peers
  OBVIOUS
<1>2. \A i \in Infos : info[i] = NewInfo(CHOOSE p \in Peers : TRUE, TRUE) /\ info[i].conns = {}
  BY DEF Init, NewInfo
<1>3. NewInfo(CHOOSE p \in Peers : TRUE, TRUE) \in PeerInfos
  BY <1>1 DEF NewInfo, PeerInfos
<1>4. info \in [Infos -> PeerInfos]
  BY <1>3 DEF Init
<1>5. TypeOK
  <2>1. cands \in [Trims -> Seq(Infos)] /\ trimMutex \in Trims \cup {Nobody}
    BY DEF Init
  <2>2. nextInfo \in 1..(MaxInfos + 1) /\ trimCount \in Nat /\ connCount \in Nat
    BY DEF Init
  <2>3. /\ peers \in [Peers -> Infos \cup {NoInfo}]
        /\ protected \in [Peers -> SUBSET ProtectTags]
        /\ conn \in [Conns -> {"none", "open", "closed", "gone"}]
    BY DEF Init
  <2>4. /\ at \in [Trims -> {"idle", "wait", "collect", "select", "selectAll", "close", "count",
                             "returned"}]
        /\ seen \in [Trims -> Nat] /\ target \in [Trims -> Int]
    BY DEF Init
  <2>5. selected \in [Trims -> SUBSET Conns] /\ spare \in [Trims -> SUBSET Peers]
    BY DEF Init
  <2>6. trimmed \in [Trims -> BOOLEAN] /\ early \subseteq Infos /\ strayed \in BOOLEAN /\ late \subseteq Callers
    BY DEF Init
  <2> QED
    BY <1>4, <2>1, <2>2, <2>3, <2>4, <2>5, <2>6 DEF TypeOK
<1>6. Entries
  <2>1. Held = {}
    BY <1>2 DEF Held
  <2>2. connCount = Cardinality(Held)
    BY <2>1, FS_EmptySet DEF Init
  <2>3. \A i \in Infos : ~(i < nextInfo)
    BY DEF Init, Infos
  <2>4. \A p \in Peers : ~HasInfo(p)
    BY DEF Init, HasInfo
  <2> QED
    BY <1>2, <2>2, <2>3, <2>4 DEF Entries
<1>7. Tracking
  BY <1>2 DEF Init, Tracking, Reported
<1>8. Trimming /\ ProtectedSpared /\ GraceRespected
  <2>1. \A t \in Trims : at[t] = "idle" /\ selected[t] = {} /\ spare[t] = {} /\ cands[t] = <<>>
    BY DEF Init
  <2>2. \A t \in Trims : Len(cands[t]) = 0
    BY <2>1
  <2> QED
    BY <2>1, <2>2 DEF Trimming, ProtectedSpared, GraceRespected, Trims
<1> QED
  BY <1>5, <1>6, <1>7, <1>8 DEF IInv

----------------------------------------------------------------------------
\* What the trims have collected and selected stays right whatever happens to the
\* entries, if they keep their peers and get into grace periods only when early.
LEMMA TrimmingKept ==
  ASSUME IInv, UNCHANGED <<trimVars, spare, protected>>, early \subseteq early',
         nextInfo' \in Nat, nextInfo <= nextInfo',
         \A c \in Conns : conn[c] # "none" => conn'[c] # "none",
         \A i \in Infos : i < nextInfo =>
           info'[i].peer = info[i].peer /\ (info'[i].grace => info[i].grace \/ i \in early'),
         \A i \in Infos : \A c \in info'[i].conns : conn[c] # "none" => c \in info[i].conns
  PROVE  Trimming' /\ ProtectedSpared' /\ GraceRespected'
<1>1. /\ cands \in [Trims -> Seq(Infos)] /\ selected \in [Trims -> SUBSET Conns]
      /\ nextInfo \in Nat
  BY ConnMgrAssumption DEF IInv, TypeOK
<1>2. \A t \in Trims : \A k \in 1..Len(cands[t]) : cands[t][k] \in Infos /\ cands[t][k] \in Nat
  BY <1>1, InfosFacts
<1>3. \A p : Protected(p)' = Protected(p)
  BY DEF Protected
<1>4. /\ at' = at /\ cands' = cands /\ selected' = selected /\ spare' = spare
  BY DEF trimVars
<1>5. Trimming'
  <2> SUFFICES ASSUME NEW t \in Trims
               PROVE  /\ selected[t] # {} => at[t] \in {"select", "selectAll", "close"}
                      /\ \A c \in selected[t] : conn'[c] # "none"
                      /\ \A p \in spare[t] : Protected(p)
                      /\ \A k \in 1..Len(cands[t]) : cands[t][k] < nextInfo'
                      /\ at[t] = "select" =>
                           \A k \in 1..Len(cands[t]) : info'[cands[t][k]].peer \notin spare[t]
                      /\ at[t] = "select" /\ t \in Callers \cup Background =>
                           \A k \in 1..Len(cands[t]) : ~info'[cands[t][k]].grace \/ cands[t][k] \in early'
    BY <1>3, <1>4 DEF Trimming
  <2>1. \A k \in 1..Len(cands[t]) : cands[t][k] < nextInfo
    BY DEF IInv, Trimming
  <2>2. \A k \in 1..Len(cands[t]) : cands[t][k] < nextInfo'
    BY <2>1, <1>1, <1>2
  <2> QED
    BY <2>1, <2>2, <1>1, <1>2 DEF IInv, Trimming
<1>6. ProtectedSpared'
  BY <1>4 DEF IInv, ProtectedSpared
<1>7. GraceRespected'
  <2> SUFFICES ASSUME NEW t \in Callers \cup Background, at[t] = "select",
                      NEW c \in selected[t], NEW i \in Infos, c \in info'[i].conns
               PROVE  ~info'[i].grace \/ i \in early'
    BY <1>4 DEF GraceRespected
  <2>1. conn[c] # "none"
    BY DEF IInv, Trimming, Trims
  <2>2. c \in info[i].conns
    BY <2>1
  <2>3. i < nextInfo
    BY <2>2 DEF IInv, Entries
  <2>4. ~info[i].grace \/ i \in early
    BY <2>2 DEF IInv, GraceRespected
  <2> QED
    BY <2>3, <2>4
<1> QED
  BY <1>5, <1>6, <1>7

----------------------------------------------------------------------------
\* The type of each variable.
LEMMA TypeFacts ==
  ASSUME TypeOK
  PROVE  /\ peers \in [Peers -> Infos \cup {NoInfo}] /\ info \in [Infos -> PeerInfos]
         /\ nextInfo \in Nat /\ nextInfo \in 1..(MaxInfos + 1) /\ connCount \in Nat
         /\ conn \in [Conns -> {"none", "open", "closed", "gone"}]
         /\ protected \in [Peers -> SUBSET ProtectTags]
         /\ cands \in [Trims -> Seq(Infos)] /\ selected \in [Trims -> SUBSET Conns]
         /\ spare \in [Trims -> SUBSET Peers] /\ early \subseteq Infos /\ strayed \in BOOLEAN /\ late \subseteq Callers
         /\ \A i \in Infos : /\ info[i].conns \subseteq Conns /\ info[i].peer \in Peers
                             /\ info[i].temp \in BOOLEAN /\ info[i].grace \in BOOLEAN
                             /\ info[i].value \in Values \cup {0}
<1>1. info \in [Infos -> PeerInfos]
  BY DEF TypeOK
<1>2. \A i \in Infos : /\ info[i].conns \subseteq Conns /\ info[i].peer \in Peers
                       /\ info[i].temp \in BOOLEAN /\ info[i].grace \in BOOLEAN
                       /\ info[i].value \in Values \cup {0}
  BY <1>1 DEF PeerInfos
<1> QED
  BY <1>1, <1>2, ConnMgrAssumption DEF TypeOK

\* The types of what only the trims change.
LEMMA TrimTypesKept ==
  ASSUME TypeOK, UNCHANGED <<trimVars, trimmed>>,
         peers' \in [Peers -> Infos \cup {NoInfo}], info' \in [Infos -> PeerInfos],
         nextInfo' \in 1..(MaxInfos + 1), protected' \in [Peers -> SUBSET ProtectTags],
         connCount' \in Nat, conn' \in [Conns -> {"none", "open", "closed", "gone"}],
         spare' \in [Trims -> SUBSET Peers], early' \subseteq Infos, strayed' \in BOOLEAN /\ late' \subseteq Callers
  PROVE  TypeOK'
  BY DEF TypeOK, trimVars

\* The entry of a peer that is tracked from now on.
LEMMA AllocateFacts ==
  ASSUME IInv, NEW p \in Peers, CanTrack(p), Allocate(p)
  PROVE  /\ InfoFor(p) \in Infos /\ nextInfo <= nextInfo' /\ InfoFor(p) < nextInfo'
         /\ nextInfo' \in Nat /\ nextInfo' \in 1..(MaxInfos + 1)
         /\ peers' = [peers EXCEPT ![p] = InfoFor(p)]
         /\ peers' \in [Peers -> Infos \cup {NoInfo}]
         /\ HasInfo(p) => InfoFor(p) = peers[p] /\ InfoFor(p) < nextInfo /\ info[InfoFor(p)].peer = p
         /\ ~HasInfo(p) => InfoFor(p) = nextInfo /\ info[InfoFor(p)].conns = {}
         /\ \A q \in Peers : q # p /\ HasInfo(q) => peers[q] # InfoFor(p)
         /\ \A j \in Infos : j < nextInfo' => j = InfoFor(p) \/ j < nextInfo
<1>1. /\ peers \in [Peers -> Infos \cup {NoInfo}] /\ nextInfo \in Nat
      /\ nextInfo \in 1..(MaxInfos + 1) /\ MaxInfos \in Nat
  BY TypeFacts, ConnMgrAssumption DEF IInv
<1>2. \A q \in Peers : HasInfo(q) => peers[q] < nextInfo /\ info[peers[q]].peer = q /\ peers[q] \in Infos
  BY <1>1 DEF IInv, Entries, HasInfo
<1>3. \A j \in Infos : j \in Nat
  BY InfosFacts
<1>4. CASE HasInfo(p)
  <2>1. InfoFor(p) = peers[p] /\ nextInfo' = nextInfo /\ peers' = [peers EXCEPT ![p] = InfoFor(p)]
    BY <1>4 DEF Allocate, InfoFor
  <2> QED
    BY <1>1, <1>2, <1>3, <1>4, <2>1
<1>5. CASE ~HasInfo(p)
  <2>1. /\ InfoFor(p) = nextInfo /\ nextInfo' = nextInfo + 1 /\ nextInfo \in Infos
        /\ peers' = [peers EXCEPT ![p] = InfoFor(p)]
    BY <1>5 DEF Allocate, InfoFor, CanTrack
  <2>2. info[nextInfo].conns = {}
    BY <1>1, <2>1 DEF IInv, Entries
  <2>3. nextInfo + 1 \in 1..(MaxInfos + 1)
    BY <1>1, <2>1 DEF Infos
  <2> QED
    BY <1>1, <1>2, <1>3, <1>5, <2>1, <2>2, <2>3
<1> QED
  BY <1>4, <1>5

LEMMA ConnectedKeeps ==
  ASSUME IInv, NEW c \in Conns, Connected(c)
  PROVE  IInv'
<1> DEFINE p == remotePeer[c]
           i == InfoFor(p)
           old == IF HasInfo(p) THEN info[i] ELSE NewInfo(p, FALSE)
           pinfo == IF old.temp THEN [old EXCEPT !.temp = FALSE, !.grace = TRUE] ELSE old
           new == [pinfo EXCEPT !.conns = @ \cup {c}]
<1>1. p \in Peers
  BY ConnMgrAssumption
<1>2. /\ conn[c] = "none" /\ CanTrack(p) /\ Allocate(p)
      /\ conn' = [conn EXCEPT ![c] = "open"] /\ info' = [info EXCEPT ![i] = new]
      /\ connCount' = connCount + 1
      /\ UNCHANGED <<protected, trimVars, spare, trimmed, early, strayed, late>>
  BY DEF Connected, histVars
<1>3. /\ i \in Infos /\ nextInfo <= nextInfo' /\ i < nextInfo'
      /\ nextInfo' \in Nat /\ nextInfo' \in 1..(MaxInfos + 1)
      /\ peers' = [peers EXCEPT ![p] = i]
      /\ peers' \in [Peers -> Infos \cup {NoInfo}]
      /\ HasInfo(p) => i = peers[p] /\ i < nextInfo /\ info[i].peer = p
      /\ ~HasInfo(p) => i = nextInfo /\ info[i].conns = {}
      /\ \A q \in Peers : q # p /\ HasInfo(q) => peers[q] # i
      /\ \A j \in Infos : j < nextInfo' => j = i \/ j < nextInfo
  BY <1>1, <1>2, AllocateFacts
<1>4. TypeOK /\ info \in [Infos -> PeerInfos] /\ nextInfo \in Nat
  BY TypeFacts DEF IInv
<1>5. old \in PeerInfos /\ old.peer = p /\ old.conns = info[i].conns
  <2>1. CASE HasInfo(p)
    BY <1>3, <1>4, <2>1
  <2>2. CASE ~HasInfo(p)
    <3>1. old = NewInfo(p, FALSE)
      BY <2>2
    <3> QED
      BY <1>1, <1>3, <2>2, <3>1 DEF NewInfo, PeerInfos
  <2> QED
    BY <2>1, <2>2
<1>6. /\ pinfo \in PeerInfos /\ pinfo.peer = p /\ pinfo.conns = info[i].conns /\ ~pinfo.temp
      /\ pinfo.grace => old.grace \/ old.temp
  <2>1. CASE old.temp
    BY <1>5, <2>1 DEF PeerInfos
  <2>2. CASE ~old.temp
    BY <1>5, <2>2
  <2> QED
    BY <2>1, <2>2
<1>7. /\ new \in PeerInfos /\ new.peer = p /\ new.conns = info[i].conns \cup {c} /\ ~new.temp
      /\ new.grace = pinfo.grace
  BY <1>6 DEF PeerInfos
<1> HIDE DEF p, i, old, pinfo, new
<1>8. /\ info' \in [Infos -> PeerInfos] /\ info'[i] = new
      /\ \A j \in Infos : j # i => info'[j] = info[j]
  BY <1>2, <1>3, <1>4, <1>7
<1>9. conn \in [Conns -> {"none", "open", "closed", "gone"}] /\ connCount \in Nat
  BY <1>4, TypeFacts
<1>10. /\ conn'[c] = "open" /\ \A d \in Conns : d # c => conn'[d] = conn[d]
       /\ conn' \in [Conns -> {"none", "open", "closed", "gone"}]
  BY <1>2, <1>9
<1>11. \A j \in Infos : c \notin info[j].conns
  BY <1>2 DEF IInv, Entries
<1>12. TypeOK'
  <2>1. connCount' \in Nat
    BY <1>2, <1>9
  <2>2. protected' \in [Peers -> SUBSET ProtectTags] /\ spare' \in [Trims -> SUBSET Peers]
    BY <1>2, <1>4, TypeFacts
  <2>3. early' \subseteq Infos /\ strayed' \in BOOLEAN /\ late' \subseteq Callers
    BY <1>2, <1>4, TypeFacts
  <2> QED
    BY <1>2, <1>3, <1>4, <1>8, <1>10, <2>1, <2>2, <2>3, TrimTypesKept
<1>13. \A j \in Infos : info[j].conns \subseteq Conns /\ j \in Nat
  BY <1>4, TypeFacts, InfosFacts
<1>14. Entries'
  <2>1. \A q \in Peers : peers'[q] # NoInfo => peers'[q] < nextInfo' /\ info'[peers'[q]].peer = q
    <3> SUFFICES ASSUME NEW q \in Peers, peers'[q] # NoInfo
                 PROVE  peers'[q] < nextInfo' /\ info'[peers'[q]].peer = q
      OBVIOUS
    <3>0. peers \in [Peers -> Infos \cup {NoInfo}]
      BY <1>4, TypeFacts
    <3>1. CASE q = p
      BY <1>1, <1>3, <1>7, <1>8, <3>0, <3>1
    <3>2. CASE q # p
      <4>1. peers'[q] = peers[q] /\ HasInfo(q) /\ peers[q] \in Infos
        BY <1>3, <3>0, <3>2 DEF HasInfo
      <4>2. peers[q] < nextInfo /\ info[peers[q]].peer = q
        BY <4>1 DEF IInv, Entries
      <4> QED
        BY <1>3, <1>4, <1>8, <1>13, <3>2, <4>1, <4>2
    <3> QED
      BY <3>1, <3>2
  <2>2. \A j \in Infos : \A d \in info'[j].conns :
          j < nextInfo' /\ remotePeer[d] = info'[j].peer /\ conn'[d] # "none" /\ ~info'[j].temp
    <3> SUFFICES ASSUME NEW j \in Infos, NEW d \in info'[j].conns
                 PROVE  j < nextInfo' /\ remotePeer[d] = info'[j].peer /\ conn'[d] # "none" /\ ~info'[j].temp
      OBVIOUS
    <3>1. CASE d \in info[j].conns
      <4>1. j < nextInfo /\ remotePeer[d] = info[j].peer /\ conn[d] # "none" /\ ~info[j].temp
        BY <3>1 DEF IInv, Entries
      <4>2. info'[j].peer = info[j].peer /\ ~info'[j].temp
        BY <1>3, <1>7, <1>8, <4>1, <1>13, <1>4
      <4> QED
        BY <1>3, <1>4, <1>10, <1>13, <4>1, <4>2, <3>1
    <3>2. CASE d \notin info[j].conns
      <4>1. j = i /\ d = c
        BY <1>7, <1>8, <3>2
      <4> QED
        BY <1>3, <1>7, <1>8, <1>10, <4>1 DEF p
    <3> QED
      BY <3>1, <3>2
  <2>3. \A j, k \in Infos : \A d \in Conns : d \in info'[j].conns /\ d \in info'[k].conns => j = k
    <3>1. \A j \in Infos : \A d \in info'[j].conns : IF d = c THEN j = i ELSE d \in info[j].conns
      BY <1>7, <1>8, <1>11
    <3> QED
      BY <3>1 DEF IInv, Entries
  <2>4. \A j \in Infos : j < nextInfo' /\ info'[j].temp => j \in early'
    BY <1>2, <1>3, <1>7, <1>8 DEF IInv, Entries
  <2>5. connCount' = Cardinality(Held')
    <3>1. Held' = Held \cup {c}
      BY <1>3, <1>7, <1>8 DEF Held
    <3>2. c \notin Held
      BY <1>11 DEF Held
    <3>3. Cardinality(Held \cup {c}) = Cardinality(Held) + 1
      BY <3>2, HeldFinite, FS_AddElement
    <3> QED
      BY <1>2, <3>1, <3>3 DEF IInv, Entries
  <2> QED
    BY <2>1, <2>2, <2>3, <2>4, <2>5 DEF Entries, HasInfo
<1>15. Tracking'
  <2> SUFFICES ASSUME ~strayed
               PROVE  /\ \A j \in Infos : \A d \in info'[j].conns :
                           peers'[info'[j].peer] = j /\ conn'[d] \in {"open", "closed"}
                      /\ \A d \in Conns : conn'[d] \in {"open", "closed"} =>
                           /\ peers'[remotePeer[d]] # NoInfo
                           /\ d \in info'[peers'[remotePeer[d]]].conns
    BY <1>2 DEF Tracking, Reported, HasInfo
  <2>0. /\ peers \in [Peers -> Infos \cup {NoInfo}]
        /\ \A d \in Conns : remotePeer[d] \in Peers
        /\ \A j \in Infos : info[j].peer \in Peers
        /\ i # NoInfo
    BY <1>3, <1>4, TypeFacts, ConnMgrAssumption, InfosFacts
  <2>1. ASSUME NEW j \in Infos, NEW d \in info'[j].conns
        PROVE  peers'[info'[j].peer] = j /\ conn'[d] \in {"open", "closed"}
    <3>1. CASE j = i /\ d = c
      BY <1>1, <1>3, <1>7, <1>8, <1>10, <2>0, <3>1
    <3>2. CASE ~(j = i /\ d = c)
      <4>1. d \in info[j].conns
        BY <1>7, <1>8, <3>2
      <4>2. peers[info[j].peer] = j /\ conn[d] \in {"open", "closed"}
        BY <4>1 DEF IInv, Tracking, Reported
      <4>3. info'[j].peer = info[j].peer
        <5>1. CASE j = i
          <6>1. HasInfo(p)
            BY <1>3, <4>1, <5>1
          <6> QED
            BY <1>3, <1>7, <1>8, <5>1, <6>1
        <5>2. CASE j # i
          BY <1>8, <5>2
        <5> QED
          BY <5>1, <5>2
      <4>4. peers'[info[j].peer] = j
        <5>1. CASE info[j].peer = p
          <6>1. HasInfo(p) /\ j = i
            BY <1>3, <2>0, <4>2, <5>1, InfosFacts DEF HasInfo
          <6> QED
            BY <1>1, <1>3, <2>0, <5>1, <6>1
        <5>2. CASE info[j].peer # p
          BY <1>3, <2>0, <4>2, <5>2
        <5> QED
          BY <5>1, <5>2
      <4> QED
        BY <1>10, <1>13, <4>1, <4>2, <4>3, <4>4
    <3> QED
      BY <3>1, <3>2
  <2>2. ASSUME NEW d \in Conns, conn'[d] \in {"open", "closed"}
        PROVE  peers'[remotePeer[d]] # NoInfo /\ d \in info'[peers'[remotePeer[d]]].conns
    <3>1. CASE d = c
      BY <1>1, <1>3, <1>7, <1>8, <2>0, <3>1 DEF p
    <3>2. CASE d # c
      <4>1. HasInfo(remotePeer[d]) /\ d \in info[peers[remotePeer[d]]].conns
        BY <1>10, <2>2, <3>2 DEF IInv, Tracking, Reported
      <4>2. CASE remotePeer[d] = p
        BY <1>1, <1>3, <1>7, <1>8, <2>0, <4>1, <4>2
      <4>3. CASE remotePeer[d] # p
        BY <1>3, <1>8, <2>0, <4>1, <4>3 DEF HasInfo
      <4> QED
        BY <4>2, <4>3
    <3> QED
      BY <3>1, <3>2
  <2> QED
    BY <2>1, <2>2
<1>16. Trimming' /\ ProtectedSpared' /\ GraceRespected'
  <2>1. UNCHANGED <<trimVars, spare, protected>> /\ early \subseteq early'
    BY <1>2
  <2>2. \A d \in Conns : conn[d] # "none" => conn'[d] # "none"
    BY <1>10
  <2>3. \A j \in Infos : j < nextInfo =>
          info'[j].peer = info[j].peer /\ (info'[j].grace => info[j].grace \/ j \in early')
    <3> SUFFICES ASSUME NEW j \in Infos, j < nextInfo
                 PROVE  info'[j].peer = info[j].peer /\ (info'[j].grace => info[j].grace \/ j \in early')
      OBVIOUS
    <3>1. CASE j = i
      <4>1. HasInfo(p)
        BY <1>3, <1>4, <3>1
      <4>2. old = info[i]
        BY <4>1 DEF old
      <4>3. info[j].temp => j \in early
        BY DEF IInv, Entries
      <4> QED
        BY <1>2, <1>3, <1>6, <1>7, <1>8, <3>1, <4>1, <4>2, <4>3
    <3>2. CASE j # i
      BY <1>8, <3>2
    <3> QED
      BY <3>1, <3>2
  <2>4. \A j \in Infos : \A d \in info'[j].conns : conn[d] # "none" => d \in info[j].conns
    BY <1>2, <1>7, <1>8
  <2> QED
    BY <1>3, <2>1, <2>2, <2>3, <2>4, TrimmingKept
<1> QED
  BY <1>12, <1>14, <1>15, <1>16 DEF IInv

LEMMA TagPeerKeeps ==
  ASSUME IInv, NEW p \in Peers, NEW v \in Values, TagPeer(p, v)
  PROVE  IInv'
<1> DEFINE i == InfoFor(p)
           pi == IF HasInfo(p) THEN info[i] ELSE NewInfo(p, TRUE)
           new == [pi EXCEPT !.value = v]
<1>1. /\ CanTrack(p) /\ Allocate(p) /\ info' = [info EXCEPT ![i] = new]
      /\ early' = IF HasInfo(p) THEN early ELSE early \cup {i}
      /\ UNCHANGED <<connCount, protected, conn, trimVars, spare, trimmed, strayed, late>>
  BY DEF TagPeer
<1>2. /\ i \in Infos /\ nextInfo <= nextInfo' /\ i < nextInfo'
      /\ nextInfo' \in Nat /\ nextInfo' \in 1..(MaxInfos + 1)
      /\ peers' = [peers EXCEPT ![p] = i]
      /\ peers' \in [Peers -> Infos \cup {NoInfo}]
      /\ HasInfo(p) => i = peers[p] /\ i < nextInfo /\ info[i].peer = p
      /\ ~HasInfo(p) => i = nextInfo /\ info[i].conns = {}
      /\ \A q \in Peers : q # p /\ HasInfo(q) => peers[q] # i
      /\ \A j \in Infos : j < nextInfo' => j = i \/ j < nextInfo
  BY <1>1, AllocateFacts
<1>3. TypeOK /\ info \in [Infos -> PeerInfos] /\ nextInfo \in Nat
  BY TypeFacts DEF IInv
<1>4. /\ new \in PeerInfos /\ new.peer = p /\ new.conns = info[i].conns
      /\ HasInfo(p) => new.temp = info[i].temp /\ new.grace = info[i].grace
  <2>1. CASE HasInfo(p)
    <3>1. pi = info[i] /\ info[i] \in PeerInfos /\ info[i].peer = p
      BY <1>2, <1>3, <2>1
    <3> QED
      BY <3>1 DEF PeerInfos
  <2>2. CASE ~HasInfo(p)
    <3>1. pi = NewInfo(p, TRUE) /\ info[i].conns = {}
      BY <1>2, <2>2
    <3> QED
      BY <2>2, <3>1 DEF NewInfo, PeerInfos
  <2> QED
    BY <2>1, <2>2
<1> HIDE DEF i, pi, new
<1>5. /\ info' \in [Infos -> PeerInfos] /\ info'[i] = new
      /\ \A j \in Infos : j # i => info'[j] = info[j]
  BY <1>1, <1>2, <1>3, <1>4
<1>6. \A j \in Infos : info'[j].conns = info[j].conns
  BY <1>4, <1>5
<1>7. \A j \in Infos : j < nextInfo =>
        info'[j].peer = info[j].peer /\ info'[j].temp = info[j].temp /\ info'[j].grace = info[j].grace
  <2> SUFFICES ASSUME NEW j \in Infos, j < nextInfo
               PROVE  /\ info'[j].peer = info[j].peer /\ info'[j].temp = info[j].temp
                      /\ info'[j].grace = info[j].grace
    OBVIOUS
  <2>1. CASE j = i
    <3>1. HasInfo(p)
      BY <1>2, <1>3, <2>1
    <3> QED
      BY <1>2, <1>4, <1>5, <2>1, <3>1
  <2>2. CASE j # i
    BY <1>5, <2>2
  <2> QED
    BY <2>1, <2>2
<1>8. TypeOK'
  <2>1. /\ connCount' \in Nat /\ conn' \in [Conns -> {"none", "open", "closed", "gone"}]
        /\ protected' \in [Peers -> SUBSET ProtectTags] /\ spare' \in [Trims -> SUBSET Peers]
        /\ strayed' \in BOOLEAN /\ late' \subseteq Callers
    BY <1>1, <1>3, TypeFacts
  <2>2. early' \subseteq Infos
    BY <1>1, <1>2, <1>3, TypeFacts
  <2> QED
    BY <1>1, <1>2, <1>3, <1>5, <2>1, <2>2, TrimTypesKept
<1>9. /\ peers \in [Peers -> Infos \cup {NoInfo}]
      /\ \A j \in Infos : info[j].peer \in Peers /\ j \in Nat /\ j # NoInfo
      /\ \A d \in Conns : remotePeer[d] \in Peers
  BY <1>3, TypeFacts, ConnMgrAssumption, InfosFacts
<1>10. Entries'
  <2>1. \A q \in Peers : peers'[q] # NoInfo => peers'[q] < nextInfo' /\ info'[peers'[q]].peer = q
    <3> SUFFICES ASSUME NEW q \in Peers, peers'[q] # NoInfo
                 PROVE  peers'[q] < nextInfo' /\ info'[peers'[q]].peer = q
      OBVIOUS
    <3>1. CASE q = p
      BY <1>2, <1>4, <1>5, <1>9, <3>1
    <3>2. CASE q # p
      <4>1. peers'[q] = peers[q] /\ HasInfo(q) /\ peers[q] \in Infos
        BY <1>2, <1>9, <3>2 DEF HasInfo
      <4>2. peers[q] < nextInfo /\ info[peers[q]].peer = q
        BY <4>1 DEF IInv, Entries
      <4> QED
        BY <1>2, <1>3, <1>7, <1>9, <4>1, <4>2
    <3> QED
      BY <3>1, <3>2
  <2>2. \A j \in Infos : \A d \in info'[j].conns :
          j < nextInfo' /\ remotePeer[d] = info'[j].peer /\ conn'[d] # "none" /\ ~info'[j].temp
    <3> SUFFICES ASSUME NEW j \in Infos, NEW d \in info[j].conns
                 PROVE  j < nextInfo' /\ remotePeer[d] = info'[j].peer /\ conn[d] # "none" /\ ~info'[j].temp
      BY <1>1, <1>6
    <3>1. j < nextInfo /\ remotePeer[d] = info[j].peer /\ conn[d] # "none" /\ ~info[j].temp
      BY DEF IInv, Entries
    <3> QED
      BY <1>2, <1>3, <1>7, <1>9, <3>1
  <2>3. \A j, k \in Infos : \A d \in Conns : d \in info'[j].conns /\ d \in info'[k].conns => j = k
    BY <1>6 DEF IInv, Entries
  <2>4. \A j \in Infos : j < nextInfo' /\ info'[j].temp => j \in early'
    <3> SUFFICES ASSUME NEW j \in Infos, j < nextInfo', info'[j].temp
                 PROVE  j \in early'
      OBVIOUS
    <3>1. CASE j < nextInfo
      BY <1>1, <1>7, <3>1 DEF IInv, Entries
    <3>2. CASE ~(j < nextInfo)
      <4>1. j = i /\ ~HasInfo(p)
        BY <1>2, <3>2
      <4> QED
        BY <1>1, <4>1
    <3> QED
      BY <3>1, <3>2
  <2>5. connCount' = Cardinality(Held')
    <3>1. Held' = Held
      BY <1>6 DEF Held
    <3> QED
      BY <1>1, <3>1 DEF IInv, Entries
  <2> QED
    BY <2>1, <2>2, <2>3, <2>4, <2>5 DEF Entries, HasInfo
<1>11. Tracking'
  <2> SUFFICES ASSUME ~strayed
               PROVE  /\ \A j \in Infos : \A d \in info[j].conns :
                           peers'[info'[j].peer] = j /\ conn[d] \in {"open", "closed"}
                      /\ \A d \in Conns : conn[d] \in {"open", "closed"} =>
                           /\ peers'[remotePeer[d]] # NoInfo
                           /\ d \in info[peers'[remotePeer[d]]].conns
    <3>1. \A q \in Peers : peers'[q] # NoInfo => peers'[q] \in Infos
      BY <1>2
    <3> QED
      BY <1>1, <1>6, <1>9, <3>1 DEF Tracking, Reported, HasInfo
  <2>1. ASSUME NEW j \in Infos, NEW d \in info[j].conns
        PROVE  peers'[info'[j].peer] = j /\ conn[d] \in {"open", "closed"}
    <3>1. peers[info[j].peer] = j /\ conn[d] \in {"open", "closed"}
      BY DEF IInv, Tracking, Reported
    <3>2. j < nextInfo
      BY DEF IInv, Entries
    <3>3. CASE info[j].peer = p
      BY <1>2, <1>7, <1>9, <3>1, <3>2, <3>3 DEF HasInfo
    <3>4. CASE info[j].peer # p
      BY <1>2, <1>7, <1>9, <3>1, <3>2, <3>4
    <3> QED
      BY <3>1, <3>3, <3>4
  <2>2. ASSUME NEW d \in Conns, conn[d] \in {"open", "closed"}
        PROVE  peers'[remotePeer[d]] # NoInfo /\ d \in info[peers'[remotePeer[d]]].conns
    <3>1. HasInfo(remotePeer[d]) /\ d \in info[peers[remotePeer[d]]].conns
      BY <2>2 DEF IInv, Tracking, Reported
    <3>2. peers'[remotePeer[d]] = peers[remotePeer[d]]
      BY <1>2, <1>9, <3>1
    <3> QED
      BY <3>1, <3>2 DEF HasInfo
  <2> QED
    BY <2>1, <2>2
<1>12. Trimming' /\ ProtectedSpared' /\ GraceRespected'
  <2>1. UNCHANGED <<trimVars, spare, protected>> /\ early \subseteq early'
    BY <1>1
  <2>2. \A d \in Conns : conn[d] # "none" => conn'[d] # "none"
    BY <1>1
  <2>3. \A j \in Infos : j < nextInfo =>
          info'[j].peer = info[j].peer /\ (info'[j].grace => info[j].grace \/ j \in early')
    BY <1>7
  <2>4. \A j \in Infos : \A d \in info'[j].conns : conn[d] # "none" => d \in info[j].conns
    BY <1>6
  <2> QED
    BY <1>2, <2>1, <2>2, <2>3, <2>4, TrimmingKept
<1> QED
  BY <1>8, <1>10, <1>11, <1>12 DEF IInv

LEMMA GraceEndsKeeps ==
  ASSUME IInv, NEW p \in Peers, GraceEnds(p)
  PROVE  IInv'
<1>1. /\ HasInfo(p) /\ info' = [info EXCEPT ![peers[p]].grace = FALSE]
      /\ UNCHANGED <<peers, nextInfo, connCount, protected, conn, trimVars, spare, trimmed, early,
                     strayed, late>>
  BY DEF GraceEnds, histVars
<1>2. /\ TypeOK /\ info \in [Infos -> PeerInfos] /\ nextInfo \in Nat
      /\ peers \in [Peers -> Infos \cup {NoInfo}]
  BY TypeFacts DEF IInv
<1>3. peers[p] \in Infos
  BY <1>1, <1>2 DEF HasInfo
<1>4. /\ info' \in [Infos -> PeerInfos]
      /\ \A j \in Infos : /\ info'[j].conns = info[j].conns /\ info'[j].peer = info[j].peer
                          /\ info'[j].temp = info[j].temp /\ (info'[j].grace => info[j].grace)
  <2> DEFINE new == [info[peers[p]] EXCEPT !.grace = FALSE]
  <2>1. info[peers[p]] \in PeerInfos
    BY <1>2, <1>3
  <2>2. /\ new \in PeerInfos /\ new.conns = info[peers[p]].conns /\ new.peer = info[peers[p]].peer
        /\ new.temp = info[peers[p]].temp /\ new.grace = FALSE
    BY <2>1 DEF PeerInfos
  <2>3. info' = [info EXCEPT ![peers[p]] = new]
    BY <1>1
  <2> QED
    BY <1>2, <1>3, <2>2, <2>3
<1>5. TypeOK'
  <2>1. /\ connCount' \in Nat /\ conn' \in [Conns -> {"none", "open", "closed", "gone"}]
        /\ protected' \in [Peers -> SUBSET ProtectTags] /\ spare' \in [Trims -> SUBSET Peers]
        /\ strayed' \in BOOLEAN /\ late' \subseteq Callers /\ early' \subseteq Infos /\ nextInfo' \in 1..(MaxInfos + 1)
        /\ peers' \in [Peers -> Infos \cup {NoInfo}]
    BY <1>1, <1>2, TypeFacts
  <2> QED
    BY <1>1, <1>2, <1>4, <2>1, TrimTypesKept
<1>6. Held' = Held
  BY <1>4 DEF Held
<1>7. \A q \in Peers : HasInfo(q) => peers[q] \in Infos
  BY <1>2 DEF HasInfo
<1>8. Entries'
  <2>1. \A q \in Peers : HasInfo(q) => peers[q] < nextInfo /\ info'[peers[q]].peer = q
    BY <1>4, <1>7 DEF IInv, Entries
  <2>2. \A j \in Infos : \A d \in info'[j].conns :
          j < nextInfo /\ remotePeer[d] = info'[j].peer /\ conn[d] # "none" /\ ~info'[j].temp
    BY <1>4 DEF IInv, Entries
  <2>3. \A j, k \in Infos : \A d \in Conns : d \in info'[j].conns /\ d \in info'[k].conns => j = k
    BY <1>4 DEF IInv, Entries
  <2>4. \A j \in Infos : j < nextInfo /\ info'[j].temp => j \in early
    BY <1>4 DEF IInv, Entries
  <2>5. connCount = Cardinality(Held')
    BY <1>6 DEF IInv, Entries
  <2> QED
    BY <1>1, <2>1, <2>2, <2>3, <2>4, <2>5 DEF Entries, HasInfo
<1>9. Tracking'
  <2>1. \A q \in Peers : HasInfo(q)' = HasInfo(q)
    BY <1>1 DEF HasInfo
  <2>2. \A d \in Conns : remotePeer[d] \in Peers
    BY ConnMgrAssumption
  <2> QED
    BY <1>1, <1>4, <1>7, <2>1, <2>2 DEF IInv, Tracking, Reported
<1>10. Trimming' /\ ProtectedSpared' /\ GraceRespected'
  <2>1. UNCHANGED <<trimVars, spare, protected>> /\ early \subseteq early' /\ nextInfo' \in Nat
        /\ nextInfo <= nextInfo'
    BY <1>1, <1>2
  <2>2. \A d \in Conns : conn[d] # "none" => conn'[d] # "none"
    BY <1>1
  <2> QED
    BY <1>4, <2>1, <2>2, TrimmingKept
<1> QED
  BY <1>5, <1>8, <1>9, <1>10 DEF IInv

\* A connection that ends, by itself or because a trim closes it, stays tracked until the
\* connection manager is told.
LEMMA EntriesOfEnded ==
  ASSUME IInv, NEW c \in Conns, conn[c] = "open", UNCHANGED <<trackVars, early, strayed>>,
         conn' = [conn EXCEPT ![c] = "closed"]
  PROVE  /\ Entries' /\ Tracking' /\ conn' \in [Conns -> {"none", "open", "closed", "gone"}]
         /\ \A d \in Conns : conn[d] # "none" => conn'[d] # "none"
<1>1. /\ conn \in [Conns -> {"none", "open", "closed", "gone"}] /\ nextInfo \in Nat
      /\ \A j \in Infos : info[j].conns \subseteq Conns
  BY TypeFacts DEF IInv
<1>2. /\ conn'[c] = "closed" /\ \A d \in Conns : d # c => conn'[d] = conn[d]
      /\ conn' \in [Conns -> {"none", "open", "closed", "gone"}]
  BY <1>1
<1>3. \A d \in Conns : (conn'[d] = "none" <=> conn[d] = "none") /\ (Reported(d)' <=> Reported(d))
  BY <1>2 DEF Reported
<1>4. /\ peers' = peers /\ info' = info /\ nextInfo' = nextInfo /\ connCount' = connCount
      /\ Held' = Held
  BY DEF trackVars, Held
<1>5. Entries'
  <2>1. \A j \in Infos : \A d \in info[j].conns :
          j < nextInfo /\ remotePeer[d] = info[j].peer /\ conn'[d] # "none" /\ ~info[j].temp
    BY <1>1, <1>3 DEF IInv, Entries
  <2> QED
    BY <1>4, <2>1 DEF IInv, Entries, HasInfo
<1>6. Tracking'
  <2>1. \A d \in Conns : remotePeer[d] \in Peers
    BY ConnMgrAssumption
  <2> QED
    BY <1>1, <1>3, <1>4, <2>1 DEF IInv, Tracking, HasInfo
<1> QED
  BY <1>2, <1>3, <1>5, <1>6

LEMMA ConnDiesKeeps ==
  ASSUME IInv, NEW c \in Conns, ConnDies(c)
  PROVE  IInv'
<1>1. /\ conn[c] = "open" /\ conn' = [conn EXCEPT ![c] = "closed"]
      /\ UNCHANGED <<trackVars, protected, trimVars, spare, trimmed, early, strayed, late>>
  BY DEF ConnDies, histVars
<1>2. /\ Entries' /\ Tracking' /\ conn' \in [Conns -> {"none", "open", "closed", "gone"}]
      /\ \A d \in Conns : conn[d] # "none" => conn'[d] # "none"
  BY <1>1, EntriesOfEnded
<1>3. TypeOK'
  BY <1>1, <1>2 DEF IInv, TypeOK, trackVars, trimVars
<1>4. Trimming' /\ ProtectedSpared' /\ GraceRespected'
  <2>1. info' = info /\ nextInfo' = nextInfo /\ nextInfo \in Nat
    BY <1>1, TypeFacts DEF IInv, trackVars
  <2>2. UNCHANGED <<trimVars, spare, protected>> /\ early \subseteq early' /\ nextInfo <= nextInfo'
    BY <1>1, <2>1
  <2> QED
    BY <1>2, <2>1, <2>2, TrimmingKept
<1> QED
  BY <1>2, <1>3, <1>4 DEF IInv

LEMMA DisconnectedKeeps ==
  ASSUME IInv, NEW c \in Conns, Disconnected(c)
  PROVE  IInv'
<1> DEFINE p == remotePeer[c]
           i == peers[p]
<1>1. /\ conn[c] = "closed" /\ conn' = [conn EXCEPT ![c] = "gone"]
      /\ UNCHANGED <<nextInfo, protected, trimVars, spare, trimmed, early, strayed, late>>
  BY DEF Disconnected, histVars
<1>2. /\ TypeOK /\ info \in [Infos -> PeerInfos] /\ nextInfo \in Nat
      /\ peers \in [Peers -> Infos \cup {NoInfo}] /\ connCount \in Nat
      /\ conn \in [Conns -> {"none", "open", "closed", "gone"}]
      /\ \A j \in Infos : info[j].conns \subseteq Conns /\ info[j].peer \in Peers
  BY TypeFacts DEF IInv
<1>3. /\ p \in Peers /\ \A d \in Conns : remotePeer[d] \in Peers
  BY ConnMgrAssumption
<1>4. /\ conn'[c] = "gone" /\ \A d \in Conns : d # c => conn'[d] = conn[d]
      /\ conn' \in [Conns -> {"none", "open", "closed", "gone"}]
      /\ \A d \in Conns : conn[d] # "none" => conn'[d] # "none"
  BY <1>1, <1>2
<1>5. /\ conn' \in [Conns -> {"none", "open", "closed", "gone"}]
      /\ protected' \in [Peers -> SUBSET ProtectTags] /\ spare' \in [Trims -> SUBSET Peers]
      /\ strayed' \in BOOLEAN /\ late' \subseteq Callers /\ early' \subseteq Infos /\ nextInfo' \in 1..(MaxInfos + 1)
  BY <1>1, <1>2, <1>4, TypeFacts
<1>6. UNCHANGED <<trimVars, spare, protected>> /\ early \subseteq early' /\ nextInfo <= nextInfo'
  BY <1>1, <1>2
<1>7. CASE ~(i # NoInfo /\ c \in info[i].conns)
  <2>1. UNCHANGED <<info, peers, connCount>>
    BY <1>7 DEF Disconnected
  <2>2. TypeOK'
    BY <1>1, <1>2, <1>5, <2>1, TrimTypesKept
  <2>3. Held' = Held
    BY <2>1 DEF Held
  <2>4. Entries'
    <3>1. \A j \in Infos : \A d \in info[j].conns : conn'[d] # "none"
      BY <1>2, <1>4 DEF IInv, Entries
    <3> QED
      BY <1>1, <2>1, <2>3, <3>1 DEF IInv, Entries, HasInfo
  <2>5. strayed
    BY <1>1, <1>7 DEF IInv, Tracking, Reported, HasInfo
  <2>6. Tracking'
    BY <1>1, <2>5 DEF Tracking
  <2>7. Trimming' /\ ProtectedSpared' /\ GraceRespected'
    BY <1>1, <1>2, <1>4, <1>6, <2>1, TrimmingKept
  <2> QED
    BY <2>2, <2>4, <2>6, <2>7 DEF IInv
<1>8. CASE i # NoInfo /\ c \in info[i].conns
  <2>1. /\ info' = [info EXCEPT ![i].conns = @ \ {c}]
        /\ peers' = IF WasLast(i, c) THEN [peers EXCEPT ![p] = NoInfo] ELSE peers
        /\ connCount' = connCount - 1
    BY <1>8 DEF Disconnected
  <2>2. i \in Infos
    BY <1>2, <1>3, <1>8
  <2> DEFINE new == [info[i] EXCEPT !.conns = info[i].conns \ {c}]
  <2>3. /\ new \in PeerInfos /\ new.conns = info[i].conns \ {c} /\ new.peer = info[i].peer
        /\ new.temp = info[i].temp /\ new.grace = info[i].grace
    <3>1. info[i] \in PeerInfos
      BY <1>2, <2>2
    <3> QED
      BY <3>1 DEF PeerInfos
  <2>4. info' = [info EXCEPT ![i] = new]
    BY <2>1
  <2> HIDE DEF new
  <2>5. /\ info' \in [Infos -> PeerInfos] /\ info'[i].conns = info[i].conns \ {c}
        /\ \A j \in Infos : j # i => info'[j].conns = info[j].conns
        /\ \A j \in Infos : /\ info'[j].peer = info[j].peer /\ info'[j].temp = info[j].temp
                            /\ info'[j].grace = info[j].grace
    BY <1>2, <2>2, <2>3, <2>4
  <2>6. \A j \in Infos : \A d \in Conns : d \in info'[j].conns <=> d \in info[j].conns /\ d # c
    <3>1. \A j \in Infos : c \in info[j].conns => j = i
      BY <1>8, <2>2 DEF IInv, Entries
    <3> QED
      BY <2>2, <2>5, <3>1
  <2>7. \A j \in Infos : info'[j].conns \subseteq Conns
    BY <2>5 DEF PeerInfos
  <2>8. Held' = Held \ {c} /\ c \in Held
    <3>1. c \in Held
      BY <1>8, <2>2 DEF Held
    <3>2. Held' = Held \ {c}
      BY <2>6 DEF Held
    <3> QED
      BY <3>1, <3>2
  <2>9. connCount' = Cardinality(Held') /\ connCount' \in Nat
    <3>1. Cardinality(Held \ {c}) = Cardinality(Held) - 1
      BY <2>8, HeldFinite, FS_RemoveElement
    <3>2. IsFiniteSet(Held \ {c})
      BY HeldFinite, FS_Subset
    <3>3. Cardinality(Held \ {c}) \in Nat
      BY <3>2, FS_CardinalityType
    <3>4. connCount = Cardinality(Held)
      BY DEF IInv, Entries
    <3> QED
      BY <2>1, <2>8, <3>1, <3>3, <3>4
  <2>10. /\ peers' \in [Peers -> Infos \cup {NoInfo}]
         /\ \A q \in Peers : peers'[q] \in {peers[q], NoInfo}
         /\ \A q \in Peers : peers'[q] # peers[q] => q = p /\ info[i].conns = {c}
    <3>1. CASE WasLast(i, c)
      <4>1. peers' = [peers EXCEPT ![p] = NoInfo] /\ info[i].conns = {c}
        BY <2>1, <3>1 DEF WasLast
      <4> QED
        BY <1>2, <1>3, <4>1
    <3>2. CASE ~WasLast(i, c)
      <4>1. peers' = peers
        BY <2>1, <3>2
      <4> QED
        BY <1>2, <4>1
    <3> QED
      BY <3>1, <3>2
  <2>11. TypeOK'
    BY <1>1, <1>2, <1>5, <2>5, <2>9, <2>10, TrimTypesKept
  <2>12. Entries'
    <3>1. \A q \in Peers : peers'[q] # NoInfo => peers'[q] < nextInfo /\ info'[peers'[q]].peer = q
      <4> SUFFICES ASSUME NEW q \in Peers, peers'[q] # NoInfo
                   PROVE  peers'[q] < nextInfo /\ info'[peers'[q]].peer = q
        OBVIOUS
      <4>1. peers'[q] = peers[q] /\ HasInfo(q) /\ peers[q] \in Infos
        BY <1>2, <2>10 DEF HasInfo
      <4> QED
        BY <2>5, <4>1 DEF IInv, Entries
    <3>2. \A j \in Infos : \A d \in info'[j].conns :
            j < nextInfo /\ remotePeer[d] = info'[j].peer /\ conn'[d] # "none" /\ ~info'[j].temp
      <4> SUFFICES ASSUME NEW j \in Infos, NEW d \in info'[j].conns
                   PROVE  j < nextInfo /\ remotePeer[d] = info'[j].peer /\ conn'[d] # "none" /\ ~info'[j].temp
        OBVIOUS
      <4>1. d \in Conns /\ d \in info[j].conns /\ d # c
        BY <2>6, <2>7
      <4>2. j < nextInfo /\ remotePeer[d] = info[j].peer /\ conn[d] # "none" /\ ~info[j].temp
        BY <4>1 DEF IInv, Entries
      <4> QED
        BY <1>4, <2>5, <4>1, <4>2
    <3>3. \A j, k \in Infos : \A d \in Conns : d \in info'[j].conns /\ d \in info'[k].conns => j = k
      BY <2>6 DEF IInv, Entries
    <3>4. \A j \in Infos : j < nextInfo /\ info'[j].temp => j \in early
      BY <2>5 DEF IInv, Entries
    <3> QED
      BY <1>1, <2>9, <3>1, <3>2, <3>3, <3>4 DEF Entries, HasInfo
  <2>13. Tracking'
    <3> SUFFICES ASSUME ~strayed
                 PROVE  /\ \A j \in Infos : \A d \in info'[j].conns :
                             peers'[info'[j].peer] = j /\ conn'[d] \in {"open", "closed"}
                        /\ \A d \in Conns : conn'[d] \in {"open", "closed"} =>
                             /\ peers'[remotePeer[d]] # NoInfo
                             /\ d \in info'[peers'[remotePeer[d]]].conns
      BY <1>1 DEF Tracking, Reported, HasInfo
    <3>1. ASSUME NEW j \in Infos, NEW d \in info'[j].conns
          PROVE  peers'[info'[j].peer] = j /\ conn'[d] \in {"open", "closed"}
      <4>1. d \in Conns /\ d \in info[j].conns /\ d # c
        BY <2>6, <2>7
      <4>2. peers[info[j].peer] = j /\ conn[d] \in {"open", "closed"}
        BY <4>1 DEF IInv, Tracking, Reported
      <4>3. info[j].peer = p => j = i
        BY <4>2
      <4>4. peers'[info[j].peer] = peers[info[j].peer]
        BY <1>2, <2>10, <4>1, <4>3
      <4> QED
        BY <1>4, <2>5, <4>1, <4>2, <4>4
    <3>2. ASSUME NEW d \in Conns, conn'[d] \in {"open", "closed"}
          PROVE  peers'[remotePeer[d]] # NoInfo /\ d \in info'[peers'[remotePeer[d]]].conns
      <4>1. d # c /\ conn[d] \in {"open", "closed"}
        BY <1>4, <3>2
      <4>2. HasInfo(remotePeer[d]) /\ d \in info[peers[remotePeer[d]]].conns
        BY <4>1 DEF IInv, Tracking, Reported
      <4>3. peers'[remotePeer[d]] = peers[remotePeer[d]]
        BY <1>3, <2>10, <4>1, <4>2
      <4>4. peers[remotePeer[d]] \in Infos
        BY <1>2, <1>3, <4>2 DEF HasInfo
      <4> QED
        BY <2>6, <4>1, <4>2, <4>3, <4>4 DEF HasInfo
    <3> QED
      BY <3>1, <3>2
  <2>14. Trimming' /\ ProtectedSpared' /\ GraceRespected'
    <3>1. \A j \in Infos : \A d \in info'[j].conns : conn[d] # "none" => d \in info[j].conns
      BY <2>6, <2>7
    <3>2. nextInfo' \in Nat
      BY <1>1, <1>2
    <3> QED
      BY <1>4, <1>6, <2>5, <3>1, <3>2, TrimmingKept
  <2> QED
    BY <2>11, <2>12, <2>13, <2>14 DEF IInv
<1> QED
  BY <1>7, <1>8

LEMMA ProtectKeeps ==
  ASSUME IInv, NEW p \in Peers, NEW tag \in ProtectTags, Protect(p, tag) \/ Unprotect(p, tag)
  PROVE  IInv'
<1>1. UNCHANGED <<trackVars, conn, trimVars, trimmed, early, strayed, late>>
  BY DEF Protect, Unprotect, histVars
<1>2. /\ protected \in [Peers -> SUBSET ProtectTags] /\ spare \in [Trims -> SUBSET Peers]
      /\ TypeOK
  BY TypeFacts DEF IInv
<1>3. /\ protected' \in [Peers -> SUBSET ProtectTags] /\ spare' \in [Trims -> SUBSET Peers]
      /\ \A t \in Trims : spare'[t] \subseteq spare[t]
      /\ \A t \in Trims : \A q \in spare'[t] : protected[q] # {} => protected'[q] # {}
  <2>1. CASE Protect(p, tag)
    BY <1>2, <2>1 DEF Protect, histVars
  <2>2. CASE Unprotect(p, tag)
    <3>1. /\ protected' = [protected EXCEPT ![p] = @ \ {tag}]
          /\ spare' = IF protected[p] = {tag} THEN [t \in Trims |-> spare[t] \ {p}] ELSE spare
      BY <2>2 DEF Unprotect
    <3>2. CASE protected[p] = {tag}
      BY <1>2, <3>1, <3>2
    <3>3. CASE protected[p] # {tag}
      <4>1. spare' = spare
        BY <3>1, <3>3
      <4> QED
        BY <1>2, <3>1, <3>3, <4>1
    <3> QED
      BY <3>2, <3>3
  <2> QED
    BY <2>1, <2>2
<1>4. TypeOK'
  BY <1>1, <1>2, <1>3 DEF TypeOK, trackVars, trimVars
<1>5. Entries' /\ Tracking'
  BY <1>1 DEF IInv, Entries, Tracking, trackVars, Held, HasInfo, Reported
<1>6. Trimming' /\ ProtectedSpared' /\ GraceRespected'
  <2>1. /\ at' = at /\ cands' = cands /\ selected' = selected /\ info' = info
        /\ nextInfo' = nextInfo /\ conn' = conn /\ early' = early
    BY <1>1 DEF trackVars, trimVars
  <2>2. \A t \in Trims : \A q \in spare'[t] : Protected(q)'
    BY <1>3 DEF IInv, Trimming, Protected
  <2>3. Trimming'
    BY <1>3, <2>1, <2>2 DEF IInv, Trimming
  <2> QED
    BY <1>3, <2>1, <2>3 DEF IInv, ProtectedSpared, GraceRespected
<1> QED
  BY <1>4, <1>5, <1>6 DEF IInv

----------------------------------------------------------------------------
(* The steps of the trims.                                                 *)

AtStates == {"idle", "wait", "collect", "select", "selectAll", "close", "count", "returned"}

\* What a trim step leaves alone, and the other trims.
OnlyTrim(t) ==
  /\ UNCHANGED <<info, nextInfo, connCount, protected, early>>
  /\ \A u \in Trims \ {t} : /\ at'[u] = at[u] /\ cands'[u] = cands[u]
                            /\ selected'[u] = selected[u] /\ spare'[u] = spare[u]
  /\ \A c \in Conns : conn[c] # "none" => conn'[c] # "none"

LEMMA TrackingKept ==
  ASSUME IInv, UNCHANGED <<trackVars, conn, early, strayed>>
  PROVE  Entries' /\ Tracking'
  BY DEF IInv, Entries, Tracking, trackVars, Held, HasInfo, Reported

LEMMA StepTypes ==
  ASSUME TypeOK, UNCHANGED <<info, nextInfo, connCount, protected, early>>,
         peers' \in [Peers -> Infos \cup {NoInfo}],
         trimMutex' \in Trims \cup {Nobody}, trimCount' \in Nat,
         conn' \in [Conns -> {"none", "open", "closed", "gone"}],
         at' \in [Trims -> AtStates], seen' \in [Trims -> Nat], target' \in [Trims -> Int],
         cands' \in [Trims -> Seq(Infos)], selected' \in [Trims -> SUBSET Conns],
         spare' \in [Trims -> SUBSET Peers], trimmed' \in [Trims -> BOOLEAN],
         strayed' \in BOOLEAN /\ late' \subseteq Callers
  PROVE  TypeOK'
  BY DEF TypeOK, AtStates

LEMMA TrimTypeFacts ==
  ASSUME TypeOK
  PROVE  /\ trimMutex \in Trims \cup {Nobody} /\ trimCount \in Nat
         /\ at \in [Trims -> AtStates] /\ seen \in [Trims -> Nat] /\ target \in [Trims -> Int]
         /\ cands \in [Trims -> Seq(Infos)] /\ selected \in [Trims -> SUBSET Conns]
         /\ trimmed \in [Trims -> BOOLEAN]
  BY DEF TypeOK, AtStates

\* A step of a trim that is not selecting connections from its candidates afterwards.
LEMMA NotSelecting ==
  ASSUME IInv, NEW t \in Trims, OnlyTrim(t), at'[t] # "select",
         selected'[t] # {} => at'[t] \in {"selectAll", "close"},
         \A c \in selected'[t] : conn'[c] # "none",
         \A p \in spare'[t] : Protected(p),
         \A k \in 1..Len(cands'[t]) : cands'[t][k] < nextInfo
  PROVE  Trimming' /\ ProtectedSpared' /\ GraceRespected'
<1>1. /\ info' = info /\ nextInfo' = nextInfo /\ early' = early
      /\ \A p : Protected(p)' = Protected(p)
  BY DEF OnlyTrim, Protected
<1>2. selected \in [Trims -> SUBSET Conns]
  BY TypeFacts DEF IInv
<1>3. Trimming'
  <2> SUFFICES ASSUME NEW u \in Trims
               PROVE  /\ selected'[u] # {} => at'[u] \in {"select", "selectAll", "close"}
                      /\ \A c \in selected'[u] : conn'[c] # "none"
                      /\ \A p \in spare'[u] : Protected(p)
                      /\ \A k \in 1..Len(cands'[u]) : cands'[u][k] < nextInfo
                      /\ at'[u] = "select" =>
                           \A k \in 1..Len(cands'[u]) : info[cands'[u][k]].peer \notin spare'[u]
                      /\ at'[u] = "select" /\ u \in Callers \cup Background =>
                           \A k \in 1..Len(cands'[u]) : ~info[cands'[u][k]].grace \/ cands'[u][k] \in early
    BY <1>1 DEF Trimming
  <2>1. CASE u = t
    BY <2>1
  <2>2. CASE u # t
    <3>1. /\ at'[u] = at[u] /\ cands'[u] = cands[u] /\ selected'[u] = selected[u]
          /\ spare'[u] = spare[u]
      BY <2>2 DEF OnlyTrim
    <3>2. \A c \in selected[u] : conn'[c] # "none"
      BY <1>2 DEF IInv, Trimming, OnlyTrim
    <3> QED
      BY <3>1, <3>2 DEF IInv, Trimming
  <2> QED
    BY <2>1, <2>2
<1>4. ProtectedSpared' /\ GraceRespected'
  <2>1. \A u \in Trims : at'[u] = "select" => /\ u # t /\ at[u] = "select"
                                             /\ selected'[u] = selected[u] /\ spare'[u] = spare[u]
    BY DEF OnlyTrim
  <2> QED
    BY <1>1, <2>1 DEF IInv, ProtectedSpared, GraceRespected, Trims
<1> QED
  BY <1>3, <1>4

\* A step of a trim that selects, or goes on to select, connections from its candidates.
LEMMA Selecting ==
  ASSUME IInv, NEW t \in Trims, OnlyTrim(t), at'[t] = "select", spare'[t] = spare[t],
         \A c \in selected'[t] : /\ conn'[c] # "none" /\ remotePeer[c] \notin spare[t],
         t \in Callers \cup Background =>
           \A c \in selected'[t], i \in Infos : c \in info[i].conns => ~info[i].grace \/ i \in early,
         \A k \in 1..Len(cands'[t]) :
           /\ cands'[t][k] < nextInfo /\ info[cands'[t][k]].peer \notin spare[t]
           /\ t \in Callers \cup Background => ~info[cands'[t][k]].grace \/ cands'[t][k] \in early
  PROVE  Trimming' /\ ProtectedSpared' /\ GraceRespected'
<1>1. /\ info' = info /\ nextInfo' = nextInfo /\ early' = early
      /\ \A p : Protected(p)' = Protected(p)
  BY DEF OnlyTrim, Protected
<1>2. selected \in [Trims -> SUBSET Conns]
  BY TypeFacts DEF IInv
<1>3. Trimming'
  <2> SUFFICES ASSUME NEW u \in Trims
               PROVE  /\ selected'[u] # {} => at'[u] \in {"select", "selectAll", "close"}
                      /\ \A c \in selected'[u] : conn'[c] # "none"
                      /\ \A p \in spare'[u] : Protected(p)
                      /\ \A k \in 1..Len(cands'[u]) : cands'[u][k] < nextInfo
                      /\ at'[u] = "select" =>
                           \A k \in 1..Len(cands'[u]) : info[cands'[u][k]].peer \notin spare'[u]
                      /\ at'[u] = "select" /\ u \in Callers \cup Background =>
                           \A k \in 1..Len(cands'[u]) : ~info[cands'[u][k]].grace \/ cands'[u][k] \in early
    BY <1>1 DEF Trimming
  <2>1. CASE u = t
    <3>1. \A p \in spare[t] : Protected(p)
      BY DEF IInv, Trimming
    <3> QED
      BY <2>1, <3>1
  <2>2. CASE u # t
    <3>1. /\ at'[u] = at[u] /\ cands'[u] = cands[u] /\ selected'[u] = selected[u]
          /\ spare'[u] = spare[u]
      BY <2>2 DEF OnlyTrim
    <3>2. \A c \in selected[u] : conn'[c] # "none"
      BY <1>2 DEF IInv, Trimming, OnlyTrim
    <3> QED
      BY <3>1, <3>2 DEF IInv, Trimming
  <2> QED
    BY <2>1, <2>2
<1>4. \A u \in Trims : u # t => /\ at'[u] = at[u] /\ selected'[u] = selected[u]
                                /\ spare'[u] = spare[u]
  BY DEF OnlyTrim
<1>5. ProtectedSpared'
  BY <1>1, <1>4 DEF IInv, ProtectedSpared
<1>6. GraceRespected'
  BY <1>1, <1>4 DEF IInv, GraceRespected, Trims
<1> QED
  BY <1>3, <1>5, <1>6

\* The steps with which a trim is asked for and begins.
LEMMA BeginKeeps ==
  ASSUME IInv, NEW t \in Trims,
         TrimOpenConns(t) \/ MemoryEmergency(t) \/ DoTrim(t) \/ EmergencyLock(t) \/ BackgroundTick(t)
  PROVE  IInv'
<1>1. TypeOK /\ connCount \in Nat /\ LowWater \in Nat
  BY TypeFacts, ConnMgrAssumption DEF IInv
<1>2. /\ trimMutex \in Trims \cup {Nobody} /\ trimCount \in Nat
      /\ at \in [Trims -> AtStates] /\ seen \in [Trims -> Nat] /\ target \in [Trims -> Int]
      /\ spare \in [Trims -> SUBSET Peers] /\ strayed \in BOOLEAN /\ late \subseteq Callers
  BY <1>1, TrimTypeFacts, TypeFacts
<1>3. UNCHANGED <<trackVars, protected, conn, trimCount, cands, selected, trimmed, early, strayed>>
  BY DEF TrimOpenConns, MemoryEmergency, DoTrim, EmergencyLock, BackgroundTick, histVars
<1>4. /\ at[t] \in {"idle", "wait"} /\ at' \in [Trims -> AtStates]
      /\ at'[t] \in {"wait", "collect", "returned"}
      /\ \A u \in Trims \ {t} : at'[u] = at[u]
  <2>1. CASE TrimOpenConns(t)
    BY <1>2, <2>1 DEF TrimOpenConns, AtStates
  <2>2. CASE MemoryEmergency(t)
    BY <1>2, <2>2 DEF MemoryEmergency, AtStates
  <2>3. CASE DoTrim(t)
    BY <1>2, <2>3 DEF DoTrim, AtStates
  <2>4. CASE EmergencyLock(t)
    BY <1>2, <2>4 DEF EmergencyLock, AtStates
  <2>5. CASE BackgroundTick(t)
    BY <1>2, <2>5 DEF BackgroundTick, AtStates
  <2> QED
    BY <2>1, <2>2, <2>3, <2>4, <2>5
<1>5. /\ spare' \in [Trims -> SUBSET Peers] /\ \A u \in Trims \ {t} : spare'[u] = spare[u]
      /\ \A p \in spare'[t] : Protected(p)
  <2>1. CASE spare' = spare
    BY <1>2, <2>1 DEF IInv, Trimming
  <2>2. CASE Begin(t)
    BY <1>2, <2>2 DEF Begin
  <2> QED
    BY <2>1, <2>2 DEF TrimOpenConns, MemoryEmergency, DoTrim, EmergencyLock, BackgroundTick, histVars
<1>6. seen' \in [Trims -> Nat] /\ target' \in [Trims -> Int] /\ trimMutex' \in Trims \cup {Nobody}
  <2>1. CASE TrimOpenConns(t)
    BY <1>2, <2>1 DEF TrimOpenConns
  <2>2. CASE MemoryEmergency(t)
    BY <1>1, <1>2, <2>2 DEF MemoryEmergency
  <2>3. CASE DoTrim(t) \/ EmergencyLock(t) \/ BackgroundTick(t)
    BY <1>2, <2>3 DEF DoTrim, EmergencyLock, BackgroundTick
  <2> QED
    BY <2>1, <2>2, <2>3
<1>7. TypeOK'
  <2>2. late' \subseteq Callers
    BY <1>2 DEF TrimOpenConns, BeginCall, MemoryEmergency, DoTrim, EmergencyLock, BackgroundTick, histVars
  <2>1. /\ peers' \in [Peers -> Infos \cup {NoInfo}]
        /\ conn' \in [Conns -> {"none", "open", "closed", "gone"}]
        /\ cands' \in [Trims -> Seq(Infos)] /\ selected' \in [Trims -> SUBSET Conns]
        /\ trimmed' \in [Trims -> BOOLEAN] /\ strayed' \in BOOLEAN /\ trimCount' \in Nat
        /\ UNCHANGED <<info, nextInfo, connCount, protected, early>>
    BY <1>1, <1>3, TypeFacts, TrimTypeFacts DEF trackVars
  <2> QED
    BY <1>1, <1>4, <1>5, <1>6, <2>1, <2>2, StepTypes
<1>8. Entries' /\ Tracking'
  BY <1>3, TrackingKept
<1>9. Trimming' /\ ProtectedSpared' /\ GraceRespected'
  <2>1. OnlyTrim(t)
    BY <1>3, <1>4, <1>5 DEF OnlyTrim, trackVars
  <2>2. selected'[t] = {}
    BY <1>3, <1>4 DEF IInv, Trimming
  <2>3. \A k \in 1..Len(cands'[t]) : cands'[t][k] < nextInfo
    BY <1>3 DEF IInv, Trimming
  <2> QED
    BY <1>4, <1>5, <2>1, <2>2, <2>3, NotSelecting
<1> QED
  BY <1>7, <1>8, <1>9 DEF IInv

\* The steps that collect candidates.
LEMMA CollectKeeps ==
  ASSUME IInv, NEW t \in Trims, Collect(t) \/ EmergencyCollect(t) \/ EmergencyAgain(t)
  PROVE  IInv'
<1>1. TypeOK /\ LowWater \in Nat
  BY ConnMgrAssumption DEF IInv
<1>2. /\ at \in [Trims -> AtStates] /\ target \in [Trims -> Int] /\ cands \in [Trims -> Seq(Infos)]
      /\ selected \in [Trims -> SUBSET Conns]
  BY <1>1, TrimTypeFacts
<1>3. UNCHANGED <<trackVars, protected, conn, trimMutex, trimCount, seen, selected, spare, trimmed,
                  early, strayed, late>>
  BY DEF Collect, EmergencyCollect, EmergencyAgain, histVars
<1>4. /\ Tracked \subseteq Infos /\ Candidates \subseteq Tracked /\ Unprotected \subseteq Tracked
      /\ \A i \in Tracked : i < nextInfo
  <2>1. /\ Tracked \subseteq Infos
        /\ \A i \in Tracked : \E p \in Peers : i = peers[p] /\ HasInfo(p)
    BY <1>1, TrackedFacts
  <2>2. \A i \in Tracked : i < nextInfo
    BY <2>1 DEF IInv, Entries
  <2>3. Candidates \subseteq Tracked /\ Unprotected \subseteq Tracked
    BY DEF Candidates, Unprotected
  <2> QED
    BY <2>1, <2>2, <2>3
<1>5. Entries' /\ Tracking'
  BY <1>3, TrackingKept
<1>6. ASSUME at' \in [Trims -> AtStates], target' \in [Trims -> Int],
             cands' \in [Trims -> Seq(Infos)]
      PROVE  TypeOK'
  <2>1. /\ peers' \in [Peers -> Infos \cup {NoInfo}]
        /\ conn' \in [Conns -> {"none", "open", "closed", "gone"}]
        /\ selected' \in [Trims -> SUBSET Conns] /\ spare' \in [Trims -> SUBSET Peers]
        /\ trimmed' \in [Trims -> BOOLEAN] /\ strayed' \in BOOLEAN /\ late' \subseteq Callers /\ trimCount' \in Nat
        /\ seen' \in [Trims -> Nat] /\ trimMutex' \in Trims \cup {Nobody}
        /\ UNCHANGED <<info, nextInfo, connCount, protected, early>>
    BY <1>1, <1>3, TypeFacts, TrimTypeFacts DEF trackVars
  <2> QED
    BY <1>1, <1>6, <2>1, StepTypes
<1>7. ASSUME NEW s \in Seq(Infos), NEW x \in AtStates,
             cands' = [cands EXCEPT ![t] = s], at' = [at EXCEPT ![t] = x]
      PROVE  /\ OnlyTrim(t) /\ at' \in [Trims -> AtStates] /\ cands' \in [Trims -> Seq(Infos)]
             /\ cands'[t] = s /\ at'[t] = x
  BY <1>2, <1>3, <1>7 DEF OnlyTrim, trackVars
<1>8. selected[t] # {} => at[t] \in {"select", "selectAll", "close"}
  BY DEF IInv, Trimming
<1>9. /\ \A c \in selected[t] : conn[c] # "none"
      /\ \A p \in spare[t] : Protected(p)
  BY DEF IInv, Trimming
<1>10. CASE Collect(t)
  <2> DEFINE n == Cardinality({x \in Candidates \X Conns : x[2] \in info[x[1]].conns})
             few == LowWater = 0 \/ HighWater = 0 \/ connCount <= LowWater \/ n < LowWater
  <2>0. selected[t] = {}
    BY <1>8, <1>10 DEF Collect
  <2>1. n \in Int
    BY <1>1, CandidateCount
  <2>2. CASE few
    <3>1. at' = [at EXCEPT ![t] = "close"] /\ cands' = cands /\ target' = target
      BY <1>10, <2>2 DEF Collect
    <3>2. at' \in [Trims -> AtStates] /\ at'[t] = "close" /\ OnlyTrim(t)
      BY <1>2, <1>3, <3>1 DEF AtStates, OnlyTrim, trackVars
    <3>3. TypeOK'
      BY <1>2, <1>6, <3>1, <3>2
    <3>4. /\ \A k \in 1..Len(cands'[t]) : cands'[t][k] < nextInfo
          /\ selected'[t] = {} /\ spare'[t] = spare[t]
      BY <1>3, <2>0, <3>1 DEF IInv, Trimming
    <3>5. Trimming' /\ ProtectedSpared' /\ GraceRespected'
      BY <1>9, <3>2, <3>4, NotSelecting
    <3> QED
      BY <1>5, <3>3, <3>5 DEF IInv
  <2>3. CASE ~few
    <3>1. PICK s \in SortedSeqs(Candidates, FALSE) : cands' = [cands EXCEPT ![t] = s]
      BY <1>10, <2>3 DEF Collect
    <3>2. at' = [at EXCEPT ![t] = "select"] /\ target' = [target EXCEPT ![t] = n - LowWater]
      BY <1>10, <2>3 DEF Collect
    <3> HIDE DEF n, few
    <3>3. s \in Seq(Infos) /\ \A k \in 1..Len(s) : s[k] \in Candidates
      BY <1>4, SortedSeqsFacts
    <3>4. /\ OnlyTrim(t) /\ at' \in [Trims -> AtStates] /\ cands' \in [Trims -> Seq(Infos)]
          /\ cands'[t] = s /\ at'[t] = "select"
      BY <1>7, <3>1, <3>2, <3>3 DEF AtStates
    <3>5. target' \in [Trims -> Int]
      BY <1>1, <1>2, <2>1, <3>2
    <3>6. TypeOK'
      BY <1>6, <3>4, <3>5
    <3>7. \A k \in 1..Len(cands'[t]) :
            /\ cands'[t][k] < nextInfo /\ info[cands'[t][k]].peer \notin spare[t]
            /\ ~info[cands'[t][k]].grace
      BY <1>4, <1>9, <3>3, <3>4 DEF Candidates, Unprotected
    <3>8. Trimming' /\ ProtectedSpared' /\ GraceRespected'
      <4>1. spare'[t] = spare[t] /\ selected'[t] = {}
        BY <1>3, <2>0
      <4> QED
        BY <3>4, <3>7, <4>1, Selecting
    <3> QED
      BY <1>5, <3>6, <3>8 DEF IInv
  <2> QED
    BY <2>2, <2>3
<1>11. CASE EmergencyCollect(t)
  <2>0. selected[t] = {}
    BY <1>8, <1>11 DEF EmergencyCollect
  <2>1. PICK s \in SortedSeqs(Unprotected, TRUE) : cands' = [cands EXCEPT ![t] = s]
    BY <1>11 DEF EmergencyCollect
  <2>2. at' = [at EXCEPT ![t] = "select"] /\ target' = target /\ t \in Emergencies
    BY <1>11 DEF EmergencyCollect
  <2>3. s \in Seq(Infos) /\ \A k \in 1..Len(s) : s[k] \in Unprotected
    BY <1>4, SortedSeqsFacts
  <2>4. /\ OnlyTrim(t) /\ at' \in [Trims -> AtStates] /\ cands' \in [Trims -> Seq(Infos)]
        /\ cands'[t] = s /\ at'[t] = "select"
    BY <1>7, <2>1, <2>2, <2>3 DEF AtStates
  <2>5. TypeOK'
    BY <1>2, <1>6, <2>2, <2>4
  <2>6. t \notin Callers \cup Background
    BY <2>2, ConnMgrAssumption
  <2>7. \A k \in 1..Len(cands'[t]) :
          cands'[t][k] < nextInfo /\ info[cands'[t][k]].peer \notin spare[t]
    BY <1>4, <1>9, <2>3, <2>4 DEF Unprotected
  <2>8. Trimming' /\ ProtectedSpared' /\ GraceRespected'
    <3>1. spare'[t] = spare[t] /\ selected'[t] = {}
      BY <1>3, <2>0
    <3> QED
      BY <2>4, <2>6, <2>7, <3>1, Selecting
  <2> QED
    BY <1>5, <2>5, <2>8 DEF IInv
<1>12. CASE EmergencyAgain(t)
  <2>1. PICK s \in SortedSeqs(Tracked, TRUE) : cands' = [cands EXCEPT ![t] = s]
    BY <1>12 DEF EmergencyAgain
  <2>2. at' = [at EXCEPT ![t] = "selectAll"] /\ target' = target
    BY <1>12 DEF EmergencyAgain
  <2>3. s \in Seq(Infos) /\ \A k \in 1..Len(s) : s[k] \in Tracked
    BY <1>4, SortedSeqsFacts
  <2>4. /\ OnlyTrim(t) /\ at' \in [Trims -> AtStates] /\ cands' \in [Trims -> Seq(Infos)]
        /\ cands'[t] = s /\ at'[t] = "selectAll"
    BY <1>7, <2>1, <2>2, <2>3 DEF AtStates
  <2>5. TypeOK'
    BY <1>2, <1>6, <2>2, <2>4
  <2>6. \A k \in 1..Len(cands'[t]) : cands'[t][k] < nextInfo
    BY <1>4, <2>3, <2>4
  <2>7. Trimming' /\ ProtectedSpared' /\ GraceRespected'
    <3>1. spare'[t] = spare[t] /\ selected'[t] = selected[t] /\ conn' = conn
      BY <1>3
    <3> QED
      BY <1>9, <2>4, <2>6, <3>1, NotSelecting
  <2> QED
    BY <1>5, <2>5, <2>7 DEF IInv
<1> QED
  BY <1>10, <1>11, <1>12

\* The steps that select connections.
LEMMA SelectKeeps ==
  ASSUME IInv, NEW t \in Trims, Select(t) \/ EmergencySelect(t)
  PROVE  IInv'
<1> DEFINE i == Head(cands[t])
           C == info[i].conns
<1>1. TypeOK /\ nextInfo \in Nat
  BY TypeFacts DEF IInv
<1>2. /\ at \in [Trims -> AtStates] /\ target \in [Trims -> Int] /\ cands \in [Trims -> Seq(Infos)]
      /\ selected \in [Trims -> SUBSET Conns] /\ peers \in [Peers -> Infos \cup {NoInfo}]
      /\ \A j \in Infos : info[j].conns \subseteq Conns /\ info[j].peer \in Peers
  BY <1>1, TrimTypeFacts, TypeFacts
<1>3. /\ UNCHANGED <<info, nextInfo, connCount, protected, conn, trimMutex, trimCount, at, seen,
                     spare, trimmed, early, late>>
      /\ cands[t] # <<>> /\ cands' = [cands EXCEPT ![t] = Tail(@)]
  BY DEF Select, EmergencySelect, trackVars, histVars
<1>4. /\ Tail(cands[t]) \in Seq(Infos) /\ i = cands[t][1] /\ 1 \in 1..Len(cands[t]) /\ i \in Infos
      /\ \A k \in 1..Len(Tail(cands[t])) :
           k + 1 \in 1..Len(cands[t]) /\ Tail(cands[t])[k] = cands[t][k + 1]
  <2>1. cands[t] \in Seq(Infos)
    BY <1>2
  <2> QED
    BY <1>3, <2>1, TailFacts
<1>5. cands' \in [Trims -> Seq(Infos)] /\ cands'[t] = Tail(cands[t])
  BY <1>2, <1>3, <1>4
<1>6. IsFiniteSet(C) /\ Cardinality(C) \in Int
  <2>1. IsFiniteSet(C)
    BY <1>2, <1>4, ConnMgrAssumption, FS_Subset
  <2> QED
    BY <2>1, FS_CardinalityType
<1>7. \/ /\ t \in Callers \cup Background /\ at[t] = "select" /\ C = {} /\ info[i].temp
         /\ peers' = [peers EXCEPT ![info[i].peer] = NoInfo]
         /\ strayed' = (strayed \/ peers[info[i].peer] \notin {i, NoInfo})
         /\ UNCHANGED <<selected, target>>
      \/ /\ \/ at[t] = "select"
            \/ at[t] = "selectAll"
         /\ selected' = [selected EXCEPT ![t] = @ \cup C]
         /\ target' = [target EXCEPT ![t] = @ - Cardinality(C)]
         /\ UNCHANGED <<peers, strayed>>
  <2>1. CASE Select(t)
    BY <2>1 DEF Select
  <2>2. CASE EmergencySelect(t)
    BY <2>2 DEF EmergencySelect, trackVars, histVars
  <2> QED
    BY <2>1, <2>2
<1> HIDE DEF C
<1>8. /\ selected' \in [Trims -> SUBSET Conns] /\ target' \in [Trims -> Int]
      /\ selected'[t] \subseteq selected[t] \cup C
      /\ \A u \in Trims \ {t} : selected'[u] = selected[u]
  <2>1. C \subseteq Conns
    BY <1>2, <1>4 DEF C
  <2>2. CASE UNCHANGED <<selected, target>>
    BY <1>2, <2>2
  <2>3. CASE /\ selected' = [selected EXCEPT ![t] = @ \cup C]
             /\ target' = [target EXCEPT ![t] = @ - Cardinality(C)]
    <3>1. Cardinality(C) \in Int
      BY <1>6 DEF C
    <3>2. target' \in [Trims -> Int]
      BY <1>2, <2>3, <3>1
    <3>3. /\ selected' \in [Trims -> SUBSET Conns] /\ selected'[t] = selected[t] \cup C
          /\ \A u \in Trims \ {t} : selected'[u] = selected[u]
      BY <1>2, <2>1, <2>3
    <3> QED
      BY <3>2, <3>3
  <2> QED
    BY <1>7, <2>2, <2>3
<1>9. peers' \in [Peers -> Infos \cup {NoInfo}] /\ strayed' \in BOOLEAN /\ late' \subseteq Callers
  <2>1. strayed \in BOOLEAN /\ late \subseteq Callers
    BY <1>1, TypeFacts
  <2> QED
    BY <1>2, <1>3, <1>7, <2>1
<1>10. TypeOK'
  <2>1. /\ UNCHANGED <<info, nextInfo, connCount, protected, early>>
        /\ trimMutex' \in Trims \cup {Nobody} /\ trimCount' \in Nat
        /\ conn' \in [Conns -> {"none", "open", "closed", "gone"}]
        /\ at' \in [Trims -> AtStates] /\ seen' \in [Trims -> Nat]
        /\ spare' \in [Trims -> SUBSET Peers] /\ trimmed' \in [Trims -> BOOLEAN]
    BY <1>1, <1>3, TypeFacts, TrimTypeFacts
  <2> QED
    BY <1>1, <1>5, <1>8, <1>9, <2>1, StepTypes
<1>11. Entries' /\ Tracking'
  <2>1. CASE UNCHANGED <<peers, strayed>>
    BY <1>3, <2>1, TrackingKept DEF trackVars
  <2>2. CASE /\ C = {} /\ peers' = [peers EXCEPT ![info[i].peer] = NoInfo]
             /\ strayed' = (strayed \/ peers[info[i].peer] \notin {i, NoInfo})
    <3>1. \A q \in Peers : /\ q # info[i].peer => peers'[q] = peers[q]
                           /\ q = info[i].peer => peers'[q] = NoInfo
      BY <1>2, <2>2
    <3>2. Entries'
      <4>1. \A q \in Peers : peers'[q] # NoInfo => peers'[q] < nextInfo /\ info[peers'[q]].peer = q
        BY <3>1 DEF IInv, Entries, HasInfo
      <4>2. Held' = Held
        BY <1>3 DEF Held
      <4> QED
        BY <1>3, <4>1, <4>2 DEF IInv, Entries, HasInfo
    <3>3. Tracking'
      <4> SUFFICES ASSUME ~strayed'
                   PROVE  /\ \A j \in Infos : \A d \in info[j].conns :
                               peers'[info[j].peer] = j /\ conn[d] \in {"open", "closed"}
                          /\ \A d \in Conns : conn[d] \in {"open", "closed"} =>
                               /\ peers'[remotePeer[d]] # NoInfo
                               /\ d \in info[peers'[remotePeer[d]]].conns
        BY <1>3 DEF Tracking, Reported, HasInfo
      <4>1. ~strayed /\ peers[info[i].peer] \in {i, NoInfo}
        BY <2>2
      <4>2. ASSUME NEW j \in Infos, NEW d \in info[j].conns
            PROVE  peers'[info[j].peer] = j /\ conn[d] \in {"open", "closed"}
        <5>1. peers[info[j].peer] = j /\ conn[d] \in {"open", "closed"}
          BY <4>1 DEF IInv, Tracking, Reported
        <5>2. j # i /\ j # NoInfo
          BY <2>2, InfosFacts DEF C
        <5>3. info[j].peer # info[i].peer
          BY <4>1, <5>1, <5>2
        <5> QED
          BY <1>2, <3>1, <5>1, <5>3
      <4>3. ASSUME NEW d \in Conns, conn[d] \in {"open", "closed"}
            PROVE  peers'[remotePeer[d]] # NoInfo /\ d \in info[peers'[remotePeer[d]]].conns
        <5>1. HasInfo(remotePeer[d]) /\ d \in info[peers[remotePeer[d]]].conns
          BY <4>1, <4>3 DEF IInv, Tracking, Reported
        <5>2. remotePeer[d] # info[i].peer
          BY <2>2, <4>1, <5>1 DEF C, HasInfo
        <5>3. remotePeer[d] \in Peers
          BY ConnMgrAssumption
        <5> QED
          BY <3>1, <5>1, <5>2, <5>3 DEF HasInfo
      <4> QED
        BY <4>2, <4>3
    <3> QED
      BY <3>2, <3>3
  <2> QED
    BY <1>7, <2>1, <2>2
<1>12. Trimming' /\ ProtectedSpared' /\ GraceRespected'
  <2>1. OnlyTrim(t)
    BY <1>2, <1>3, <1>8 DEF OnlyTrim
  <2>2. \A c \in C : i < nextInfo /\ remotePeer[c] = info[i].peer /\ conn[c] # "none"
    BY <1>4 DEF IInv, Entries, C
  <2>3. \A c \in selected'[t] : conn'[c] # "none"
    <3>1. \A c \in selected[t] : conn[c] # "none"
      BY DEF IInv, Trimming
    <3> QED
      BY <1>3, <1>8, <2>2, <3>1
  <2>4. \A k \in 1..Len(cands'[t]) : cands'[t][k] < nextInfo
    <3>1. \A k \in 1..Len(cands[t]) : cands[t][k] < nextInfo
      BY DEF IInv, Trimming
    <3> QED
      BY <1>4, <1>5, <3>1
  <2>5. CASE at[t] = "selectAll"
    <3>1. at'[t] = "selectAll" /\ spare'[t] = spare[t]
      BY <1>3, <2>5
    <3>2. \A p \in spare'[t] : Protected(p)
      BY <3>1 DEF IInv, Trimming
    <3> QED
      BY <2>1, <2>3, <2>4, <3>1, <3>2, NotSelecting
  <2>6. CASE at[t] = "select"
    <3>1. at'[t] = "select" /\ spare'[t] = spare[t]
      BY <1>3, <2>6
    <3>2. /\ \A k \in 1..Len(cands[t]) : info[cands[t][k]].peer \notin spare[t]
          /\ t \in Callers \cup Background =>
               \A k \in 1..Len(cands[t]) : ~info[cands[t][k]].grace \/ cands[t][k] \in early
      BY <2>6 DEF IInv, Trimming
    <3>3. \A k \in 1..Len(cands'[t]) :
            /\ info[cands'[t][k]].peer \notin spare[t]
            /\ t \in Callers \cup Background => ~info[cands'[t][k]].grace \/ cands'[t][k] \in early
      BY <1>4, <1>5, <3>2
    <3>4. \A c \in selected'[t] : remotePeer[c] \notin spare[t]
      <4>1. \A c \in selected[t] : remotePeer[c] \notin spare[t]
        BY <2>6 DEF IInv, ProtectedSpared
      <4>2. \A c \in C : remotePeer[c] \notin spare[t]
        BY <1>4, <2>2, <3>2
      <4> QED
        BY <1>8, <4>1, <4>2
    <3>5. ASSUME t \in Callers \cup Background, NEW c \in selected'[t], NEW j \in Infos,
                 c \in info[j].conns
          PROVE  ~info[j].grace \/ j \in early
      <4>1. CASE c \in selected[t]
        BY <2>6, <3>5, <4>1 DEF IInv, GraceRespected
      <4>2. CASE c \in C
        <5>1. c \in Conns /\ c \in info[i].conns
          BY <1>2, <1>4, <4>2 DEF C
        <5>2. j = i
          BY <1>4, <3>5, <5>1 DEF IInv, Entries
        <5> QED
          BY <1>4, <3>2, <3>5, <5>2
      <4> QED
        BY <1>8, <4>1, <4>2
    <3> QED
      BY <2>1, <2>3, <2>4, <3>1, <3>3, <3>4, <3>5, Selecting
  <2> QED
    BY <1>7, <2>5, <2>6
<1> QED
  BY <1>10, <1>11, <1>12 DEF IInv

\* The steps after the selection.
LEMMA DoneKeeps ==
  ASSUME IInv, NEW t \in Trims,
         SelectDone(t) \/ EmergencyDone(t) \/ Finish(t) \/ CountEmergency(t)
  PROVE  IInv'
<1>1. TypeOK /\ nextInfo \in Nat
  BY TypeFacts DEF IInv
<1>2. /\ trimMutex \in Trims \cup {Nobody} /\ trimCount \in Nat
      /\ at \in [Trims -> AtStates] /\ seen \in [Trims -> Nat] /\ target \in [Trims -> Int]
      /\ cands \in [Trims -> Seq(Infos)] /\ trimmed \in [Trims -> BOOLEAN]
  BY <1>1, TrimTypeFacts
<1>3. UNCHANGED <<trackVars, protected, conn, seen, selected, spare, early, strayed, late>>
  BY DEF SelectDone, EmergencyDone, Finish, CountEmergency, histVars
<1>4. \A k \in 1..Len(cands[t]) : cands[t][k] < nextInfo
  BY DEF IInv, Trimming
<1>5. /\ at' \in [Trims -> AtStates] /\ at'[t] \in {"close", "idle", "returned", "count"}
      /\ \A u \in Trims \ {t} : at'[u] = at[u]
      /\ selected[t] # {} => at'[t] = "close"
      /\ cands' \in [Trims -> Seq(Infos)] /\ \A u \in Trims \ {t} : cands'[u] = cands[u]
      /\ \A k \in 1..Len(cands'[t]) : cands'[t][k] < nextInfo
      /\ target' \in [Trims -> Int] /\ trimMutex' \in Trims \cup {Nobody} /\ trimCount' \in Nat
      /\ trimmed' \in [Trims -> BOOLEAN]
  <2>1. CASE SelectDone(t) \/ EmergencyDone(t)
    <3>1. /\ at' = [at EXCEPT ![t] = "close"]
          /\ UNCHANGED <<trimMutex, trimCount, cands, target, trimmed>>
      BY <2>1 DEF SelectDone, EmergencyDone, histVars
    <3> QED
      BY <1>2, <1>4, <3>1 DEF AtStates
  <2>2. CASE Finish(t)
    <3> DEFINE next == IF t \in Background THEN "idle"
                       ELSE IF t \in Callers THEN "returned" ELSE "count"
    <3>1. /\ selected[t] = {} /\ at' = [at EXCEPT ![t] = next]
          /\ trimCount' = IF t \in Callers THEN trimCount + 1 ELSE trimCount
          /\ trimMutex' = IF t \in Background THEN trimMutex ELSE Nobody
          /\ cands' = [cands EXCEPT ![t] = <<>>] /\ target' = [target EXCEPT ![t] = 0]
          /\ trimmed' = [u \in Trims |-> trimmed[u] \/ at[u] # "idle"]
      BY <2>2 DEF Finish
    <3>2. next \in {"idle", "returned", "count"}
      OBVIOUS
    <3> HIDE DEF next
    <3>3. /\ at' \in [Trims -> AtStates] /\ at'[t] \in {"idle", "returned", "count"}
          /\ \A u \in Trims \ {t} : at'[u] = at[u]
      BY <1>2, <3>1, <3>2 DEF AtStates
    <3>4. /\ cands' \in [Trims -> Seq(Infos)] /\ \A u \in Trims \ {t} : cands'[u] = cands[u]
          /\ cands'[t] = <<>>
      BY <1>2, <3>1
    <3>5. \A k \in 1..Len(cands'[t]) : cands'[t][k] < nextInfo
      BY <3>4
    <3>6. target' \in [Trims -> Int] /\ trimCount' \in Nat
      BY <1>2, <3>1
    <3>7. trimMutex' \in Trims \cup {Nobody} /\ trimmed' \in [Trims -> BOOLEAN]
      BY <1>2, <3>1
    <3> QED
      BY <3>1, <3>3, <3>4, <3>5, <3>6, <3>7
  <2>3. CASE CountEmergency(t)
    <3>1. /\ at[t] = "count" /\ at' = [at EXCEPT ![t] = "returned"] /\ trimCount' = trimCount + 1
          /\ UNCHANGED <<trimMutex, cands, target, trimmed>>
      BY <2>3 DEF CountEmergency, histVars
    <3>2. selected[t] = {}
      BY <3>1 DEF IInv, Trimming
    <3> QED
      BY <1>2, <1>4, <3>1, <3>2 DEF AtStates
  <2> QED
    BY <2>1, <2>2, <2>3
<1>6. TypeOK'
  <2>1. /\ peers' \in [Peers -> Infos \cup {NoInfo}]
        /\ conn' \in [Conns -> {"none", "open", "closed", "gone"}]
        /\ selected' \in [Trims -> SUBSET Conns] /\ spare' \in [Trims -> SUBSET Peers]
        /\ strayed' \in BOOLEAN /\ late' \subseteq Callers /\ seen' \in [Trims -> Nat]
        /\ UNCHANGED <<info, nextInfo, connCount, protected, early>>
    BY <1>1, <1>3, TypeFacts, TrimTypeFacts DEF trackVars
  <2> QED
    BY <1>1, <1>5, <2>1, StepTypes
<1>7. Entries' /\ Tracking'
  BY <1>3, TrackingKept
<1>8. Trimming' /\ ProtectedSpared' /\ GraceRespected'
  <2>1. OnlyTrim(t)
    BY <1>3, <1>5 DEF OnlyTrim, trackVars
  <2>2. /\ selected'[t] = selected[t] /\ spare'[t] = spare[t] /\ conn' = conn
        /\ \A c \in selected[t] : conn[c] # "none"
        /\ \A p \in spare[t] : Protected(p)
    BY <1>3 DEF IInv, Trimming
  <2> QED
    BY <1>5, <2>1, <2>2, NotSelecting
<1> QED
  BY <1>6, <1>7, <1>8 DEF IInv

LEMMA CloseConnKeeps ==
  ASSUME IInv, NEW t \in Trims, CloseConn(t)
  PROVE  IInv'
<1>1. PICK c \in selected[t] :
        /\ selected' = [selected EXCEPT ![t] = @ \ {c}]
        /\ conn' = IF conn[c] = "open" THEN [conn EXCEPT ![c] = "closed"] ELSE conn
  BY DEF CloseConn
<1>2. /\ at[t] = "close"
      /\ UNCHANGED <<trackVars, protected, trimMutex, trimCount, at, seen, cands, target, spare,
                     trimmed, early, strayed, late>>
  BY DEF CloseConn, histVars
<1>3. /\ TypeOK /\ selected \in [Trims -> SUBSET Conns]
      /\ conn \in [Conns -> {"none", "open", "closed", "gone"}]
  BY TypeFacts DEF IInv
<1>4. c \in Conns
  BY <1>3
<1>5. /\ Entries' /\ Tracking' /\ conn' \in [Conns -> {"none", "open", "closed", "gone"}]
      /\ \A d \in Conns : conn[d] # "none" => conn'[d] # "none"
  <2>1. CASE conn[c] = "open"
    BY <1>1, <1>2, <1>4, <2>1, EntriesOfEnded
  <2>2. CASE conn[c] # "open"
    <3>1. conn' = conn
      BY <1>1, <2>2
    <3> QED
      BY <1>2, <1>3, <3>1, TrackingKept
  <2> QED
    BY <2>1, <2>2
<1>6. /\ selected' \in [Trims -> SUBSET Conns] /\ selected'[t] \subseteq selected[t]
      /\ \A u \in Trims \ {t} : selected'[u] = selected[u]
  BY <1>1, <1>3
<1>7. TypeOK'
  BY <1>2, <1>3, <1>5, <1>6 DEF TypeOK, trackVars
<1>8. Trimming' /\ ProtectedSpared' /\ GraceRespected'
  <2>1. OnlyTrim(t)
    BY <1>2, <1>5, <1>6 DEF OnlyTrim, trackVars
  <2>2. /\ \A d \in selected[t] : conn[d] # "none"
        /\ \A p \in spare[t] : Protected(p)
        /\ \A k \in 1..Len(cands[t]) : cands[t][k] < nextInfo
    BY DEF IInv, Trimming
  <2>3. \A d \in selected'[t] : conn'[d] # "none"
    BY <1>3, <1>5, <1>6, <2>2
  <2>4. spare'[t] = spare[t] /\ cands'[t] = cands[t] /\ at'[t] = "close"
    BY <1>2
  <2> QED
    BY <2>1, <2>2, <2>3, <2>4, NotSelecting
<1> QED
  BY <1>5, <1>7, <1>8 DEF IInv

LEMMA IInvStep == IInv /\ [Next]_vars => IInv'
<1> SUFFICES ASSUME IInv, [Next]_vars PROVE IInv'
  OBVIOUS
<1>1. CASE \E c \in Conns : Connected(c) \/ ConnDies(c) \/ Disconnected(c)
  BY <1>1, ConnectedKeeps, ConnDiesKeeps, DisconnectedKeeps
<1>2. CASE \E p \in Peers : \E v \in Values : TagPeer(p, v)
  BY <1>2, TagPeerKeeps
<1>3. CASE \E p \in Peers : GraceEnds(p)
  BY <1>3, GraceEndsKeeps
<1>4. CASE \E p \in Peers : \E tag \in ProtectTags : Protect(p, tag) \/ Unprotect(p, tag)
  BY <1>4, ProtectKeeps
<1>5. CASE \E t \in Trims : \/ TrimOpenConns(t) \/ BackgroundTick(t) \/ MemoryEmergency(t)
                            \/ TrimStep(t)
  <2>1. PICK t \in Trims : \/ TrimOpenConns(t) \/ BackgroundTick(t) \/ MemoryEmergency(t)
                           \/ TrimStep(t)
    BY <1>5
  <2>2. CASE TrimOpenConns(t) \/ BackgroundTick(t) \/ MemoryEmergency(t)
    BY <2>2, BeginKeeps
  <2>3. CASE DoTrim(t) \/ EmergencyLock(t)
    BY <2>3, BeginKeeps
  <2>4. CASE Collect(t) \/ EmergencyCollect(t) \/ EmergencyAgain(t)
    BY <2>4, CollectKeeps
  <2>5. CASE Select(t) \/ EmergencySelect(t)
    BY <2>5, SelectKeeps
  <2>6. CASE SelectDone(t) \/ EmergencyDone(t) \/ Finish(t) \/ CountEmergency(t)
    BY <2>6, DoneKeeps
  <2>7. CASE CloseConn(t)
    BY <2>7, CloseConnKeeps
  <2> QED
    BY <2>1, <2>2, <2>3, <2>4, <2>5, <2>6, <2>7 DEF TrimStep
<1>6. CASE UNCHANGED vars
  <2>1. UNCHANGED <<peers, info, nextInfo, connCount, protected, conn, trimMutex, trimCount, at,
                    seen, cands, target, selected, spare, trimmed, early, strayed, late>>
    BY <1>6 DEF vars, trackVars, trimVars, histVars
  <2>2. TypeOK'
    BY <2>1 DEF IInv, TypeOK
  <2>3. Entries' /\ Tracking'
    BY <2>1, TrackingKept DEF trackVars
  <2>4. Trimming' /\ ProtectedSpared' /\ GraceRespected'
    BY <2>1 DEF IInv, Trimming, ProtectedSpared, GraceRespected, Protected
  <2> QED
    BY <2>2, <2>3, <2>4 DEF IInv
<1> QED
  BY <1>1, <1>2, <1>3, <1>4, <1>5, <1>6 DEF Next

----------------------------------------------------------------------------
\* The connections counted are those reported, as long as no trim has strayed.
LEMMA IInvCounts == IInv => CountExact
<1> SUFFICES ASSUME IInv, ~strayed
             PROVE  /\ connCount = Cardinality({c \in Conns : conn[c] \in {"open", "closed"}})
                    /\ \A c \in Conns : conn[c] \in {"open", "closed"} =>
                         HasInfo(remotePeer[c]) /\ c \in info[peers[remotePeer[c]]].conns
  BY DEF CountExact
<1>1. \A c \in Conns : Reported(c) =>
        HasInfo(remotePeer[c]) /\ c \in info[peers[remotePeer[c]]].conns
  BY DEF IInv, Tracking
<1>2. \A c \in Conns : Reported(c) => \E i \in Infos : c \in info[i].conns
  <2>1. peers \in [Peers -> Infos \cup {NoInfo}] /\ \A c \in Conns : remotePeer[c] \in Peers
    BY TypeFacts, ConnMgrAssumption DEF IInv
  <2> QED
    BY <1>1, <2>1 DEF HasInfo
<1>3. \A c \in Conns : (\E i \in Infos : c \in info[i].conns) => Reported(c)
  BY DEF IInv, Tracking
<1>4. Held = {c \in Conns : conn[c] \in {"open", "closed"}}
  BY <1>2, <1>3 DEF Held, Reported
<1> QED
  BY <1>1, <1>4 DEF IInv, Entries, Reported

\* A trim selects the right connections (connmgr.go: getConnsToClose,
\* getConnsToCloseEmergency), for any number of connections, peers and trims under way: the
\* count it decides by is exact unless two trims have forgotten entries of the same peer,
\* peers protected all along are spared, and so are peers in their grace period.
THEOREM SelectsSoundly == Spec => []TrimsSound
<1>1. Init => IInv
  BY IInvInit
<1>2. IInv /\ [Next]_vars => IInv'
  BY IInvStep
<1>3. IInv => TrimsSound
  BY IInvCounts DEF IInv, TrimsSound
<1> QED
  BY <1>1, <1>2, <1>3, PTL DEF Spec

----------------------------------------------------------------------------
\* A call that waits and finds that trims have been counted since it began will return; one
\* was completed since then, or the call is late.  As long as an emergency's trim waits to be
\* counted, this is so of every call under way.
Served(t) == trimmed[t] \/ t \in late
CallsServed ==
  /\ \A t \in Trims : at[t] = "count" => t \in Emergencies
  /\ \A t \in Callers : \/ at[t] = "returned"
                        \/ at[t] = "wait" /\ seen[t] # trimCount
                        => Served(t)
  /\ Uncounted => \A t \in Callers : at[t] # "idle" => Served(t)

LEMMA CallsServedStep ==
  ASSUME TypeOK, CallsServed, [Next]_vars
  PROVE  CallsServed'
<1>1. /\ trimMutex \in Trims \cup {Nobody} /\ trimCount \in Nat
      /\ at \in [Trims -> AtStates] /\ seen \in [Trims -> Nat]
      /\ trimmed \in [Trims -> BOOLEAN]
  BY TrimTypeFacts
<1>2. /\ \A t \in Callers : t \in Trims /\ t \notin Background /\ t \notin Emergencies
      /\ \A t \in Emergencies : t \in Trims
  BY ConnMgrAssumption DEF Trims
<1>3. CASE UNCHANGED <<trimCount, at, seen, trimmed, late>>
  BY <1>3 DEF CallsServed, Served, Uncounted
\* A step of a trim under way that is not its end.
<1>4. ASSUME NEW t \in Trims, NEW x \in AtStates, x \notin {"returned", "count"},
             t \notin Emergencies => at[t] # "idle" \/ t \in Background,
             t \notin Emergencies => x # "wait",
             at' = [at EXCEPT ![t] = x], UNCHANGED <<trimCount, seen, trimmed, late>>
      PROVE  CallsServed'
  BY <1>1, <1>2, <1>4 DEF CallsServed, Served, Uncounted
<1>5. ASSUME NEW t \in Trims, TrimOpenConns(t)
      PROVE  CallsServed'
  <2>1. /\ t \in Callers /\ at[t] = "idle" /\ at' = [at EXCEPT ![t] = "wait"]
        /\ seen' = [seen EXCEPT ![t] = trimCount] /\ UNCHANGED <<trimCount, trimmed>>
        /\ late \subseteq late' /\ (Uncounted => t \in late')
    BY <1>5 DEF TrimOpenConns, BeginCall
  <2>2. Uncounted' => Uncounted
    BY <1>1, <1>2, <2>1 DEF Uncounted
  <2>3. \A u \in Callers : Served(u) => Served(u)'
    BY <2>1 DEF Served
  <2>4. Uncounted' => Served(t)'
    BY <2>1, <2>2 DEF Served
  <2> QED
    BY <1>1, <1>2, <2>1, <2>2, <2>3, <2>4 DEF CallsServed
<1>6. ASSUME NEW t \in Trims, DoTrim(t)
      PROVE  CallsServed'
  <2>1. /\ t \in Callers /\ at[t] = "wait" /\ UNCHANGED <<trimCount, seen, trimmed, late>>
        /\ \/ seen[t] = trimCount /\ at' = [at EXCEPT ![t] = "collect"]
           \/ seen[t] # trimCount /\ at' = [at EXCEPT ![t] = "returned"]
    BY <1>6 DEF DoTrim
  <2> QED
    BY <1>1, <1>2, <2>1 DEF CallsServed, Served, Uncounted
<1>7. ASSUME NEW t \in Trims, Finish(t)
      PROVE  CallsServed'
  <2>1. /\ at[t] = "close" /\ UNCHANGED <<seen, late>>
        /\ at' = [at EXCEPT ![t] = IF t \in Background THEN "idle"
                                   ELSE IF t \in Callers THEN "returned" ELSE "count"]
        /\ trimmed' = [u \in Trims |-> trimmed[u] \/ at[u] # "idle"]
        /\ t \notin Callers => trimCount' = trimCount
    BY <1>7 DEF Finish
  <2>2. t \in Callers \/ t \in Background \/ t \in Emergencies
    BY DEF Trims
  <2>3. \A u \in Trims : at'[u] # "count" \/ u \in Emergencies
    BY <1>1, <2>1, <2>2 DEF CallsServed
  <2>4. \A u \in Callers : at'[u] # "idle" => Served(u)'
    BY <1>1, <1>2, <2>1 DEF Served
  <2> QED
    BY <2>3, <2>4 DEF CallsServed
<1>8. ASSUME NEW t \in Trims, CountEmergency(t)
      PROVE  CallsServed'
  <2>1. /\ at[t] = "count" /\ at' = [at EXCEPT ![t] = "returned"]
        /\ UNCHANGED <<seen, trimmed, late>>
    BY <1>8 DEF CountEmergency, histVars
  <2>2. t \in Emergencies /\ Uncounted
    BY <2>1 DEF CallsServed, Uncounted
  <2>3. \A u \in Callers : at'[u] = at[u] /\ (at[u] # "idle" => Served(u)')
    BY <1>1, <1>2, <2>1, <2>2 DEF CallsServed, Served
  <2>4. \A u \in Trims : at'[u] = "count" => u \in Emergencies
    BY <1>1, <2>1 DEF CallsServed
  <2> QED
    BY <2>3, <2>4 DEF CallsServed
<1>9. CASE UNCHANGED vars
  BY <1>3, <1>9 DEF vars, trimVars, histVars
<1>10. CASE \E c \in Conns : Connected(c) \/ ConnDies(c) \/ Disconnected(c)
  BY <1>3, <1>10 DEF Connected, ConnDies, Disconnected, trimVars, histVars
<1>11. CASE \E p \in Peers : \/ \E v \in Values : TagPeer(p, v)
                             \/ GraceEnds(p)
                             \/ \E tag \in ProtectTags : Protect(p, tag) \/ Unprotect(p, tag)
  BY <1>3, <1>11 DEF TagPeer, GraceEnds, Protect, Unprotect, trimVars, histVars
<1>12. ASSUME NEW t \in Trims, BackgroundTick(t)
       PROVE  CallsServed'
  BY <1>2, <1>4, <1>12 DEF BackgroundTick, AtStates
<1>13. ASSUME NEW t \in Trims, Collect(t)
       PROVE  CallsServed'
  <2>1. /\ at[t] = "collect"
        /\ \/ at' = [at EXCEPT ![t] = "close"]
           \/ at' = [at EXCEPT ![t] = "select"]
        /\ UNCHANGED <<trimCount, seen, trimmed, late>>
    BY <1>13 DEF Collect, histVars
  <2> QED
    BY <1>4, <2>1 DEF AtStates
<1>14. ASSUME NEW t \in Trims, Select(t) \/ CloseConn(t) \/ EmergencySelect(t)
       PROVE  CallsServed'
  BY <1>3, <1>14 DEF Select, CloseConn, EmergencySelect, histVars
<1>15. ASSUME NEW t \in Trims, SelectDone(t)
       PROVE  CallsServed'
  BY <1>4, <1>15 DEF SelectDone, AtStates, histVars
<1>16. ASSUME NEW t \in Trims, MemoryEmergency(t)
       PROVE  CallsServed'
  <2>1. /\ t \in Emergencies /\ at[t] = "idle" /\ UNCHANGED <<trimCount, seen, trimmed, late>>
        /\ \/ at' = [at EXCEPT ![t] = "returned"]
           \/ at' = [at EXCEPT ![t] = "wait"]
    BY <1>16 DEF MemoryEmergency, histVars
  <2> QED
    BY <1>1, <1>2, <2>1 DEF CallsServed, Served, Uncounted
<1>17. ASSUME NEW t \in Trims,
              EmergencyLock(t) \/ EmergencyCollect(t) \/ EmergencyAgain(t) \/ EmergencyDone(t)
       PROVE  CallsServed'
  <2>1. /\ t \in Emergencies /\ UNCHANGED <<trimCount, seen, trimmed, late>>
        /\ \E x \in {"collect", "select", "selectAll", "close"} : at' = [at EXCEPT ![t] = x]
    BY <1>17 DEF EmergencyLock, EmergencyCollect, EmergencyAgain, EmergencyDone, histVars
  <2> QED
    BY <1>4, <2>1 DEF AtStates
<1> QED
  BY <1>5, <1>6, <1>7, <1>8, <1>9, <1>10, <1>11, <1>12, <1>13, <1>14, <1>15, <1>16, <1>17
     DEF Next, TrimStep

\* A call of TrimOpenConns returns only after a trim was completed since it was called
\* (connmgr.go: doTrim), whoever made that trim, the memory watchdog included, for any number of
\* calls, emergencies and connections.  Exempt are the late calls: those that begin when
\* memoryEmergency has released the lock and not yet counted its trim.
THEOREM CallsTrimmed == Spec => []TrimDuringCall
<1>1. Init => CallsServed
  BY ConnMgrAssumption DEF Init, CallsServed, Uncounted, Trims
<1>2. CallsServed /\ TypeOK /\ [Next]_vars => CallsServed'
  BY CallsServedStep
<1>3. CallsServed => TrimDuringCall
  BY DEF CallsServed, Served, TrimDuringCall
<1>4. Spec => []TypeOK
  <2>1. TrimsSound => TypeOK
    BY DEF TrimsSound
  <2> QED
    BY <2>1, SelectsSoundly, PTL
<1> QED
  BY <1>1, <1>2, <1>3, <1>4, PTL DEF Spec
============================================================================
