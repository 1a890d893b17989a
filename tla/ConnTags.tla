------------------------------ MODULE ConnTags ------------------------------
(***************************************************************************)
(* The values of the connection manager's peers: tags set by TagPeer,      *)
(* UntagPeer and UpsertTag, and decaying tags, whose values one goroutine  *)
(* (decayer.process) bumps, decays, removes and drops on commands that     *)
(* reach it through three bounded queues.  A peer's entry keeps a running  *)
(* total, the value that trims sort by.                                    *)
(*                                                                         *)
(* Time is counted in units of the decayer's resolution and relative to    *)
(* the last tick: wait[d] is nextTick - lastTick of tag d.  A tick that    *)
(* comes late skips up to MaxSkip - 1 units.  An absent plain tag counts   *)
(* as 0.  Connections are modelled in ConnMgr; here a peer has one or      *)
(* none.                                                                   *)
(***************************************************************************)
EXTENDS Integers, Sequences, FiniteSets, Functions, FiniteSetsExt

CONSTANTS
    Peers,      \* the remote peers
    Tags,       \* the names of plain tags
    DTags,      \* decaying tags, in the order of their registration or not
    Name,       \* [DTags -> names]: two tags may share one, one after the other
    Interval,   \* [DTags -> Nat], in units of the resolution
    Bumpers,    \* goroutines that call Bump
    Deltas,     \* the deltas of Bump and the values of TagPeer
    MaxValue,   \* the upper bound of BumpSumBounded; its lower bound is 0
    QueueCap,   \* the capacity of each of the three queues (128 in the code)
    MaxSkip,    \* bound: the longest time between two ticks
    MaxLag,     \* bound: how late a tag's tick can be
    MaxBumps    \* bound: the calls of Bump that are queued

VARIABLES
    entry,      \* [Peers -> {"none", "temp", "conn"}]: segment.peers
    tags,       \* [Peers -> [Tags -> Nat]]: peerInfo.tags
    decaying,   \* [Peers -> [subset of DTags -> Nat]]: peerInfo.decaying
    value,      \* [Peers -> Int]: peerInfo.value
    status,     \* [DTags -> {"new", "open", "closed"}]: decayingTag.closed
    known,      \* the set of tags in decayer.knownTags
    wait,       \* [DTags -> Int]: nextTick - lastTick
    bumpTagCh, removeTagCh, closeTagCh,     \* the queues
    bumping,    \* [Bumpers -> a set of at most one bumpCmd]: not yet sent
    bumps,      \* how many bumps were sent
    closeCh,    \* whether closeCh is closed
    done        \* whether doneCh is closed

peerVars == <<entry, tags, decaying, value>>
tagVars == <<status, known, wait>>
queueVars == <<bumpTagCh, removeTagCh, closeTagCh>>
closeVars == <<closeCh, done>>
vars == <<peerVars, tagVars, queueVars, bumping, bumps, closeVars>>

BumpCmd == [peer : Peers, tag : DTags, delta : Deltas]
RemoveCmd == [peer : Peers, tag : DTags]

----------------------------------------------------------------------------
\* The functions that users configure a tag with (core/connmgr/presets.go).

\* A tag interval below the resolution is raised to it.
EffectiveInterval(d) == IF Interval[d] < 1 THEN 1 ELSE Interval[d]

\* BumpSumBounded(0, MaxValue)
BumpFn(v, delta) == IF v + delta >= MaxValue THEN MaxValue ELSE v + delta

\* DecayFixed(1): the new value, and whether the tag is to be removed.
DecayFn(v) == [after |-> v - 1, rm |-> v - 1 <= 0]

----------------------------------------------------------------------------
Init ==
    /\ entry = [p \in Peers |-> "none"]
    /\ tags = [p \in Peers |-> [t \in Tags |-> 0]]
    /\ decaying = [p \in Peers |-> <<>>]
    /\ value = [p \in Peers |-> 0]
    /\ status = [d \in DTags |-> "new"]
    /\ known = {}
    /\ wait = [d \in DTags |-> 0]
    /\ bumpTagCh = <<>> /\ removeTagCh = <<>> /\ closeTagCh = <<>>
    /\ bumping = [b \in Bumpers |-> {}]
    /\ bumps = 0
    /\ closeCh = FALSE
    /\ done = FALSE

\* tagInfoFor: a missing entry is created as a temporary one.
TagInfoFor(p) == IF entry[p] = "none" THEN [entry EXCEPT ![p] = "temp"] ELSE entry

\* Plain tags.  UpsertTag's function adds a delta to the old value, within
\* MaxValue.
SetTag(p, t, v) ==
    /\ entry' = TagInfoFor(p)
    /\ value' = [value EXCEPT ![p] = @ + v - tags[p][t]]
    /\ tags' = [tags EXCEPT ![p][t] = v]
    /\ UNCHANGED decaying

TagPeer(p, t) == \E v \in Deltas : SetTag(p, t, v)

UpsertTag(p, t) == \E x \in Deltas : SetTag(p, t, BumpFn(tags[p][t], x))

\* A mutant: UntagPeer forgets the total.
UntagPeerKeepsValue(p, t) ==
    /\ entry[p] # "none"
    /\ tags' = [tags EXCEPT ![p][t] = 0]
    /\ UNCHANGED <<entry, decaying, value>>

UntagPeer(p, t) ==
    /\ entry[p] # "none"
    /\ value' = [value EXCEPT ![p] = @ - tags[p][t]]
    /\ tags' = [tags EXCEPT ![p][t] = 0]
    /\ UNCHANGED <<entry, decaying>>

\* Connected keeps the tags of a temporary entry; the last Disconnected, and a
\* trim that finds a temporary entry past its grace period, drop the entry.
Connected(p) ==
    /\ entry[p] # "conn"
    /\ entry' = [entry EXCEPT ![p] = "conn"]
    /\ UNCHANGED <<tags, decaying, value>>

Dropped(p) ==
    /\ entry[p] # "none"
    /\ entry' = [entry EXCEPT ![p] = "none"]
    /\ tags' = [tags EXCEPT ![p] = [t \in Tags |-> 0]]
    /\ decaying' = [decaying EXCEPT ![p] = <<>>]
    /\ value' = [value EXCEPT ![p] = 0]

PeerOp(p) ==
    /\ \/ \E t \in Tags : TagPeer(p, t) \/ UpsertTag(p, t) \/ UntagPeer(p, t)
       \/ Connected(p)
       \/ Dropped(p)
    /\ UNCHANGED <<tagVars, queueVars, bumping, bumps, closeVars>>

----------------------------------------------------------------------------
\* RegisterDecayingTag, under tagsMu.
NameTaken(d) == \E e \in known : Name[e] = Name[d]

RegisterDecayingTag(d) ==
    /\ status[d] = "new"
    /\ ~NameTaken(d)
    /\ status' = [status EXCEPT ![d] = "open"]
    /\ known' = known \cup {d}
    /\ wait' = [wait EXCEPT ![d] = EffectiveInterval(d)]
    /\ UNCHANGED <<peerVars, queueVars, bumping, bumps, closeVars>>

\* Bump looks at closed and then sends, or fails when the queue is full.
Bump(b, p, d) ==
    /\ bumping[b] = {}
    /\ status[d] = "open"
    /\ \E x \in Deltas \ {0} :
          bumping' = [bumping EXCEPT ![b] = {[peer |-> p, tag |-> d, delta |-> x]}]
    /\ UNCHANGED <<peerVars, tagVars, queueVars, bumps, closeVars>>

SendBump(b) ==
    /\ bumping' = [bumping EXCEPT ![b] = {}]
    /\ \E cmd \in bumping[b] :
          IF Len(bumpTagCh) < QueueCap
          THEN /\ bumps < MaxBumps
               /\ bumpTagCh' = Append(bumpTagCh, cmd)
               /\ bumps' = bumps + 1
          ELSE UNCHANGED <<bumpTagCh, bumps>>
    /\ UNCHANGED <<peerVars, tagVars, removeTagCh, closeTagCh, closeVars>>

\* Remove fails when the queue is full.
Remove(p, d) ==
    /\ status[d] = "open"
    /\ Len(removeTagCh) < QueueCap
    /\ removeTagCh' = Append(removeTagCh, [peer |-> p, tag |-> d])
    /\ UNCHANGED <<peerVars, tagVars, bumpTagCh, closeTagCh, bumping, bumps, closeVars>>

\* decayingTag.Close: the tag is marked even when the queue is full.
CloseTag(d) ==
    /\ status[d] = "open"
    /\ status' = [status EXCEPT ![d] = "closed"]
    /\ closeTagCh' = IF Len(closeTagCh) < QueueCap THEN Append(closeTagCh, d) ELSE closeTagCh
    /\ UNCHANGED <<peerVars, known, wait, bumpTagCh, removeTagCh, bumping, bumps, closeVars>>

----------------------------------------------------------------------------
\* decayer.process: one command or tick at a time.  Only this goroutine changes
\* decaying values, and what it does to a peer it does under the lock of the
\* peer's segment.

\* A mutant: the interval that was asked for decides, and 0 is never due.
DueUnlessZero(k) == {d \in known : Interval[d] > 0 /\ wait[d] - k <= 0}

\* A tick k units after the last one: the tags that are due.
Due(k) == {d \in known : wait[d] - k <= 0}

\* The due tags that peer p keeps.
Kept(p, k) == {d \in DOMAIN decaying[p] : ~(d \in Due(k) /\ DecayFn(decaying[p][d]).rm)}

SumOf(f) == FoldFunction(+, 0, f)

Tick ==
    /\ ~done
    /\ \E k \in 1..MaxSkip :
          /\ \A d \in known : wait[d] - k >= 0 - MaxLag
          /\ decaying' = [p \in Peers |-> [d \in Kept(p, k) |->
                IF d \in Due(k) THEN DecayFn(decaying[p][d]).after ELSE decaying[p][d]]]
          /\ value' = [p \in Peers |-> value[p] + SumOf(decaying'[p]) - SumOf(decaying[p])]
          /\ wait' = [d \in DTags |->
                CASE d \in Due(k)         -> wait[d] - k + EffectiveInterval(d)
                  [] d \in known \ Due(k) -> wait[d] - k
                  [] OTHER                -> wait[d]]
    /\ UNCHANGED <<entry, tags, status, known, queueVars, bumping, bumps, closeVars>>

Held(p, d) == IF d \in DOMAIN decaying[p] THEN decaying[p][d] ELSE 0

WithTag(f, d, v) == [e \in DOMAIN f \cup {d} |-> IF e = d THEN v ELSE f[e]]

WithoutTag(f, d) == Restrict(f, DOMAIN f \ {d})

ApplyBump ==
    /\ ~done
    /\ bumpTagCh # <<>>
    /\ LET cmd == Head(bumpTagCh)
           new == BumpFn(Held(cmd.peer, cmd.tag), cmd.delta)
       IN /\ entry' = TagInfoFor(cmd.peer)
          /\ decaying' = [decaying EXCEPT ![cmd.peer] = WithTag(@, cmd.tag, new)]
          /\ value' = [value EXCEPT ![cmd.peer] = @ + new - Held(cmd.peer, cmd.tag)]
    /\ bumpTagCh' = Tail(bumpTagCh)
    /\ UNCHANGED <<tags, tagVars, removeTagCh, closeTagCh, bumping, bumps, closeVars>>

ApplyRemove ==
    /\ ~done
    /\ removeTagCh # <<>>
    /\ LET cmd == Head(removeTagCh)
       IN /\ entry' = TagInfoFor(cmd.peer)
          /\ value' = [value EXCEPT ![cmd.peer] = @ - Held(cmd.peer, cmd.tag)]
          /\ decaying' = [decaying EXCEPT ![cmd.peer] = WithoutTag(@, cmd.tag)]
    /\ removeTagCh' = Tail(removeTagCh)
    /\ UNCHANGED <<tags, tagVars, bumpTagCh, closeTagCh, bumping, bumps, closeVars>>

ApplyClose ==
    /\ ~done
    /\ closeTagCh # <<>>
    /\ LET d == Head(closeTagCh)
       IN /\ known' = {e \in known : Name[e] # Name[d]}
          /\ value' = [p \in Peers |-> value[p] - Held(p, d)]
          /\ decaying' = [p \in Peers |-> WithoutTag(decaying[p], d)]
    /\ closeTagCh' = Tail(closeTagCh)
    /\ UNCHANGED <<entry, tags, status, wait, bumpTagCh, removeTagCh, bumping, bumps, closeVars>>

\* decayer.Close closes closeCh and waits for process to return.
Close ==
    /\ ~closeCh
    /\ closeCh' = TRUE
    /\ UNCHANGED <<peerVars, tagVars, queueVars, bumping, bumps, done>>

Stop ==
    /\ ~done
    /\ closeCh
    /\ done' = TRUE
    /\ UNCHANGED <<peerVars, tagVars, queueVars, bumping, bumps, closeCh>>

Process == Tick \/ ApplyBump \/ ApplyRemove \/ ApplyClose \/ Stop

TagOp(d) ==
    \/ RegisterDecayingTag(d)
    \/ CloseTag(d)
    \/ \E p \in Peers : Remove(p, d) \/ \E b \in Bumpers : Bump(b, p, d)

Next ==
    \/ \E p \in Peers : PeerOp(p)
    \/ \E d \in DTags : TagOp(d)
    \/ \E b \in Bumpers : SendBump(b)
    \/ Process
    \/ Close

\* The process goroutine runs: a select that is ready forever takes every case
\* again and again, because Go chooses at random among the ready ones.
Fairness == WF_vars(Tick) /\ WF_vars(ApplyBump) /\ WF_vars(ApplyRemove) /\ WF_vars(ApplyClose)

Spec == Init /\ [][Next]_vars /\ Fairness

----------------------------------------------------------------------------
\* The types; a registered tag is never further from its tick than its
\* interval, which is what keeps the number of its decays within the time that
\* has passed since its registration.
TypeOK ==
    /\ entry \in [Peers -> {"none", "temp", "conn"}]
    /\ tags \in [Peers -> [Tags -> Nat]]
    /\ \A p \in Peers : /\ DOMAIN decaying[p] \subseteq DTags
                        /\ \A d \in DOMAIN decaying[p] : decaying[p][d] \in 0..MaxValue
    /\ value \in [Peers -> Int]
    /\ status \in [DTags -> {"new", "open", "closed"}]
    /\ known \subseteq DTags
    /\ \A d \in known : wait[d] \in (0 - MaxLag)..EffectiveInterval(d)
    /\ Len(bumpTagCh) <= QueueCap /\ Range(bumpTagCh) \subseteq BumpCmd
    /\ Len(removeTagCh) <= QueueCap /\ Range(removeTagCh) \subseteq RemoveCmd
    /\ Len(closeTagCh) <= QueueCap /\ Range(closeTagCh) \subseteq DTags
    /\ \A b \in Bumpers : bumping[b] \subseteq BumpCmd
    /\ bumps \in 0..MaxBumps
    /\ closeCh \in BOOLEAN /\ done \in BOOLEAN

\* The running total of a peer, by which trims choose whom to disconnect, is
\* the sum of its tags and decaying tags, whatever the order in which they are
\* set, bumped, decayed, removed and dropped, and 0 for a peer without entry.
ValueIsSum ==
    /\ TypeOK
    /\ \A p \in Peers : value[p] = SumOf(tags[p]) + SumOf(decaying[p])

\* A value that is not bumped any more is decayed until it is removed, as long
\* as its tag stays open: the tag's ticks do not stop.
ValuesExpire ==
    \A p \in Peers, d \in DTags :
        d \in DOMAIN decaying[p] /\ status[d] = "open"
            ~> \/ d \notin DOMAIN decaying[p]
               \/ status[d] = "closed"
               \/ done
=============================================================================
