------------------------------ MODULE AddrBook ------------------------------
(***************************************************************************)
(* The in-memory address book (p2p/host/peerstore/pstoremem/addr_book.go)  *)
(* for one peer, over time, and the streams on which subscribers get every *)
(* new address of the peer.  An operation holds the lock of the peer's     *)
(* segment, and hands each address it announces over to the goroutines of  *)
(* the streams before it goes on, so that it is one step of all of them.   *)
(***************************************************************************)
EXTENDS AddrBookOps, SequencesExt

CONSTANTS
  Streams,      \* calls of AddrStream
  TTLs,
  MaxSeq,       \* bound of the model: sequence numbers of signed records
  MaxTime       \* bound of the model: the clock stops here

VARIABLES
  now,
  book,
  subs,         \* AddrSubManager.subs of the peer
  stream        \* the goroutines of the streams: which addresses they have seen, the
                \* ones still to be sent (next and buffer) and, a history, those sent

vars == <<now, book, subs, stream>>

Idle == [on |-> FALSE, sent |-> {}, buffer |-> <<>>, out |-> <<>>]

Init ==
  /\ now = 1 /\ book = EmptyBook /\ subs = <<>>
  /\ stream = [s \in Streams |-> Idle]

----------------------------------------------------------------------------
\* BroadcastAddr for each of the addresses: a stream drops those it has seen.
Broadcast(as) ==
  stream' = [s \in Streams |->
    IF s \notin Range(subs) THEN stream[s]
    ELSE [stream[s] EXCEPT !.sent = @ \cup as, !.buffer = @ \o SetToSeq(as \ stream[s].sent)]]

\* addAddrsUnlocked announces the addresses that are not in the map, expired or not.
NotFound(as) == {a \in as : book.ttl[a] = 0}

AddAddrs(as, ttl) ==
  /\ book' = addAddrs(book, as, ttl, now)
  /\ Broadcast(IF ttl = 0 THEN {} ELSE NotFound(as))
  /\ UNCHANGED <<now, subs>>

Set(as, ttl) ==
  /\ book' = SetAddrs(book, as, ttl, now)
  /\ Broadcast(IF ttl = 0 THEN {} ELSE as)
  /\ UNCHANGED <<now, subs>>

Update(oldTTL, newTTL) ==
  /\ book' = UpdateAddrs(book, oldTTL, newTTL, now)
  /\ UNCHANGED <<now, subs, stream>>

Consume(seq, as, ttl) ==
  /\ book' = ConsumePeerRecord(book, seq, as, ttl, now)
  /\ Broadcast(IF book.rec > seq \/ ttl = 0 THEN {} ELSE NotFound(as))
  /\ UNCHANGED <<now, subs>>

Clear ==
  /\ book' = ClearAddrs(book)
  /\ UNCHANGED <<now, subs, stream>>

\* gc reads the clock before it comes to the peer's segment.
GC ==
  /\ \E t \in 1..now : book' = Collect(book, t)
  /\ UNCHANGED <<now, subs, stream>>

Tick ==
  /\ now < MaxTime
  /\ now' = now + 1
  /\ UNCHANGED <<book, subs, stream>>

----------------------------------------------------------------------------
\* A mutant: a stream begins with the valid addresses.
InitialValid(b) == ValidAddrs(b, now)

\* A stream begins with all addresses in the map.
Initial(b) == {a \in Addrs : b.ttl[a] # 0}

\* The subscription is made while the segment is locked.
AddrStream(s) ==
  /\ ~stream[s].on
  /\ subs' = Append(subs, s)
  /\ stream' = [stream EXCEPT ![s] =
       [on |-> TRUE, sent |-> Initial(book), buffer |-> SetToSeq(Initial(book)), out |-> <<>>]]
  /\ UNCHANGED <<now, book>>

\* The subscriber receives an address.
Send(s) ==
  /\ stream[s].on /\ stream[s].buffer # <<>>
  /\ stream' = [stream EXCEPT ![s].buffer = Tail(@), ![s].out = Append(@, Head(stream[s].buffer))]
  /\ UNCHANGED <<now, book, subs>>

\* removeSub: the last subscription takes the place of the one that goes.
removeSub(s) ==
  LET i == CHOOSE j \in 1..Len(subs) : subs[j] = s
  IN  subs' = Front([subs EXCEPT ![i] = Last(subs)])

\* The context of the stream is done.
Cancel(s) ==
  /\ stream[s].on
  /\ removeSub(s)
  /\ stream' = [stream EXCEPT ![s] = Idle]
  /\ UNCHANGED <<now, book>>

Next ==
  \/ \E as \in SUBSET Addrs \ {{}}, ttl \in TTLs \cup {0} :
       \/ AddAddrs(as, ttl) \/ Set(as, ttl)
       \/ \E seq \in 1..MaxSeq : Consume(seq, as, ttl)
  \/ \E old \in TTLs, new \in TTLs \cup {0} : Update(old, new)
  \/ Clear \/ GC \/ Tick
  \/ \E s \in Streams : AddrStream(s) \/ Send(s) \/ Cancel(s)

Spec == Init /\ [][Next]_vars

----------------------------------------------------------------------------
(* Properties.                                                             *)

TypeOK ==
  /\ now \in 1..MaxTime
  /\ book.ttl \in [Addrs -> TTLs \cup {0}] /\ book.rec \in 0..MaxSeq
  /\ \A a \in Addrs : (book.ttl[a] # 0 => book.map) /\ (book.ttl[a] = 0 <=> book.expires[a] = 0)
  /\ Range(subs) \subseteq Streams
  /\ \A s \in Streams : stream[s].sent \subseteq Addrs

\* "AddrStream returns a channel on which all new addresses discovered for a given peer
\* ID will be published": however addresses are added, set, expired, collected and
\* refreshed, and whichever other streams come and go, each address in the book has been
\* sent or is waiting in the stream, and none of them twice.
StreamComplete ==
  /\ TypeOK
  /\ \A s \in Streams : stream[s].on =>
       LET l == stream[s].out \o stream[s].buffer IN
       /\ ValidAddrs(book, now) \subseteq Range(l)
       /\ \A i, j \in 1..Len(l) : l[i] = l[j] => i = j
============================================================================
