----------------------------- MODULE Peerstore -----------------------------
(***************************************************************************)
(* The peerstores, besides the address book in memory (AddrBook): the      *)
(* address book over a datastore, and what is kept of a peer besides its   *)
(* addresses.                                                              *)
(***************************************************************************)
EXTENDS Naturals, Sequences, SequencesExt, FiniteSets, TLC

----------------------------------------------------------------------------
(***************************************************************************)
(* Addresses.  The address book over a datastore                           *)
(* (p2p/host/peerstore/pstoreds): one peer's record in the store, its copy *)
(* in the cache, the collector with its lookahead window, evictions and    *)
(* crashes, which lose the cache. Operations on the peer do not overlap:   *)
(* the code loads a record and locks it afterwards, and two callers that   *)
(* both miss the cache overwrite each other.  ref is the book as it should *)
(* be.                                                                     *)
(***************************************************************************)

CONSTANTS
  DsAddrs, DsTTLs,
  Lookaheads,      \* values of GCLookaheadInterval, 0 for full purges
  DsMaxTime, DsMaxSeq

VARIABLES
  dnow,
  lookahead, \* GCLookaheadInterval
  store,    \* the record in the datastore
  cached,   \* [on, rec]: the record in the cache
  gcKeys,   \* timestamps of the peer's lookahead entries
  winEnd,   \* currWindowEnd
  written,  \* history: the record was written since the window was populated
  mixedUp,  \* history: one call has deleted several addresses and left others, since Clear
  ref       \* [DsAddrs -> [ttl, exp]], exp 0 for none

dsVars == <<dnow, lookahead, store, cached, gcKeys, winEnd, written, mixedUp, ref>>

\* A record: its addresses in order, each with its time to live and expiry, and the sequence
\* number of the certified record.
NoRecord == [addrs |-> <<>>, seq |-> 0]
NotCached == [on |-> FALSE, rec |-> NoRecord]
NoEntry == [ttl |-> 0, exp |-> 0]

DsInit ==
  /\ dnow = 1 /\ store = NoRecord /\ cached = NotCached /\ gcKeys = {} /\ winEnd = 0 /\ written = TRUE /\ mixedUp = FALSE
  /\ lookahead \in Lookaheads /\ ref = [a \in DsAddrs |-> NoEntry]

----------------------------------------------------------------------------
(* Records                                                                 *)

Sorted(s) == SortSeq(s, LAMBDA x, y : x.exp < y.exp)

\* removeExpired splits the sorted entries at the first that survives.
RemoveExpired(s) == SelectSeq(s, LAMBDA e : e.exp > dnow)

HasExpiredAddrs(r) == r.addrs # <<>> /\ r.addrs[1].exp <= dnow

\* clean: a record that is not dirty is left alone unless its first address has expired.
Clean(r, dirty) ==
  IF ~dirty /\ ~HasExpiredAddrs(r) THEN r
  ELSE [r EXCEPT !.addrs = RemoveExpired(IF dirty THEN Sorted(@) ELSE @)]

Changed(r, dirty) == dirty \/ HasExpiredAddrs(r)

\* flush: a record without addresses is deleted.
Flush(r) == IF r.addrs = <<>> THEN NoRecord ELSE r

\* loadRecord: from the cache or the store, cleaned.
Loaded == IF cached.on THEN cached.rec ELSE store
LoadRecord == Clean(Loaded, FALSE)

Has(r, a) == \E i \in DOMAIN r.addrs : r.addrs[i].addr = a
Bigger(x, y) == IF x > y THEN x ELSE y

\* setAddrs: existing entries are extended or overridden, the others appended.
SetAddrs(r, as, ttl, override) ==
  LET updated(e) == IF e.addr \notin as THEN e
                    ELSE [e EXCEPT !.ttl = IF override THEN ttl ELSE Bigger(@, ttl),
                                   !.exp = IF override THEN dnow + ttl ELSE Bigger(@, dnow + ttl)]
      new == SetToSeq({a \in as : ~Has(r, a)})
  IN  [r EXCEPT !.addrs = [i \in DOMAIN @ |-> updated(@[i])]
                          \o [i \in DOMAIN new |-> [addr |-> new[i], ttl |-> ttl, exp |-> dnow + ttl]]]

\* deleteInPlace: the entry that takes the place of a deleted one is not looked at again there,
\* and is still seen where it came from.
DeleteInPlace(s, as) ==
  LET step(acc, i) ==
        IF acc.left = 0 \/ acc.s[i].addr \notin as THEN acc
        ELSE [s |-> IF acc.left = 1 THEN acc.s ELSE [acc.s EXCEPT ![i] = acc.s[acc.left]],
              left |-> acc.left - 1]
      end == FoldLeft(step, [s |-> s, left |-> Len(s)], [i \in 1..Len(s) |-> i])
  IN  SubSeq(end.s, 1, end.left)

----------------------------------------------------------------------------
(* The operations                                                          *)

\* Every write cleans the dirty record and flushes it.
Write(r, intoCache) ==
  LET c == Clean(r, TRUE) IN
  /\ store' = Flush(c) /\ written' = TRUE
  /\ cached' = IF cached.on \/ intoCache THEN [on |-> TRUE, rec |-> c] ELSE cached

Alive(a) == ref[a].exp > dnow

\* What the book should hold after the addresses as got the entries of f; not followed any
\* further once entries may be mixed up.
Expect(as, f(_)) ==
  ref' = [a \in DsAddrs |-> IF mixedUp' THEN NoEntry
                            ELSE IF a \in as THEN f(a) ELSE IF Alive(a) THEN ref[a] ELSE NoEntry]

Extended(a, ttl) ==
  IF Alive(a) THEN [ttl |-> Bigger(ref[a].ttl, ttl), exp |-> Bigger(ref[a].exp, dnow + ttl)]
  ELSE [ttl |-> ttl, exp |-> dnow + ttl]

UNCHANGED_GC == UNCHANGED <<dnow, lookahead, gcKeys, winEnd, mixedUp>>

AddAddrs(as, ttl) ==
  /\ Write(SetAddrs(LoadRecord, as, ttl, FALSE), TRUE)
  /\ UNCHANGED_GC /\ Expect(as, LAMBDA a : Extended(a, ttl))

Set(as, ttl) ==
  /\ Write(SetAddrs(LoadRecord, as, ttl, TRUE), TRUE)
  /\ UNCHANGED_GC /\ Expect(as, LAMBDA a : [ttl |-> ttl, exp |-> dnow + ttl])

\* SetAddrs without a time to live: deleteAddrs, which does not fill the cache.
Delete(as) ==
  /\ LoadRecord.addrs # <<>>
  /\ Write([LoadRecord EXCEPT !.addrs = DeleteInPlace(@, as)], FALSE)
  /\ LET held == {a \in DsAddrs : Has(LoadRecord, a)} IN
     mixedUp' = (mixedUp \/ (Cardinality(held \cap as) > 1 /\ held \ as # {}))
  /\ Expect(as, LAMBDA a : NoEntry) /\ UNCHANGED <<dnow, lookahead, gcKeys, winEnd>>

\* UpdateAddrs flushes only a record it has changed.
Update(old, new) ==
  LET hit == {i \in DOMAIN LoadRecord.addrs : LoadRecord.addrs[i].ttl = old} IN
  /\ IF hit = {} THEN cached' = [on |-> TRUE, rec |-> LoadRecord] /\ UNCHANGED <<store, written>>
     ELSE Write([LoadRecord EXCEPT !.addrs =
                  [i \in DOMAIN @ |-> IF i \in hit THEN [@[i] EXCEPT !.ttl = new, !.exp = dnow + new] ELSE @[i]]], TRUE)
  /\ UNCHANGED_GC
  /\ Expect({a \in DsAddrs : Alive(a) /\ ref[a].ttl = old},
            LAMBDA a : IF new = 0 THEN NoEntry ELSE [ttl |-> new, exp |-> dnow + new])

\* ConsumePeerRecord: a record older than the one stored with addresses is refused; then setAddrs
\* and storeSignedPeerRecord.
Consume(seq, as, ttl) ==
  /\ ~(LoadRecord.addrs # <<>> /\ LoadRecord.seq > seq)
  /\ Write([SetAddrs(LoadRecord, as, ttl, FALSE) EXCEPT !.seq = seq], TRUE)
  /\ UNCHANGED_GC /\ Expect(as, LAMBDA a : Extended(a, ttl))

\* Addrs and GetPeerRecord: the first also flushes what clean has changed.
Read(update) ==
  /\ cached' = [on |-> TRUE, rec |-> LoadRecord]
  /\ store' = IF update /\ Changed(Loaded, FALSE) THEN Flush(LoadRecord) ELSE store
  /\ UNCHANGED <<ref, written>> /\ UNCHANGED_GC

Clear ==
  /\ store' = NoRecord /\ cached' = NotCached /\ written' = TRUE /\ mixedUp' = FALSE
  /\ ref' = [a \in DsAddrs |-> NoEntry] /\ UNCHANGED <<dnow, lookahead, gcKeys, winEnd>>

Evict == cached.on /\ cached' = NotCached /\ UNCHANGED <<store, ref, written>> /\ UNCHANGED_GC

----------------------------------------------------------------------------
(* The collector.  A cyclic batch commits every write as the next is put.  *)

\* purgeStore visits the store and drops from the cache what it changes.
PurgeStore ==
  /\ lookahead = 0 /\ store # NoRecord /\ Changed(store, FALSE)
  /\ store' = Flush(Clean(store, FALSE)) /\ cached' = NotCached
  /\ UNCHANGED <<ref, written>> /\ UNCHANGED_GC

DropOnly(r, key) == <<gcKeys \ {key}, gcKeys \ {key}>>

\* purgeLookahead for one entry of the peer: the record is cleaned and flushed, then the entry is
\* dropped and put again if the next expiry is within the window.  A crash leaves the first n writes.
DropOrReschedule(r, key) ==
  <<gcKeys \ {key}, (gcKeys \ {key}) \cup {t \in {r.addrs[i].exp : i \in {j \in DOMAIN r.addrs : j = 1}} : t <= winEnd}>>

PurgeLookahead(n) ==
  \E key \in gcKeys :
    /\ key <= dnow /\ \A k \in gcKeys : key <= k
    /\ LET r == Clean(Loaded, FALSE)
           gone == ~cached.on /\ store = NoRecord
           steps == DropOrReschedule(r, key) IN
       /\ store' = IF n >= 1 /\ ~gone /\ Changed(Loaded, FALSE) THEN Flush(r) ELSE store
       /\ gcKeys' = CASE n < 2 -> gcKeys [] n = 2 -> steps[1]
                      [] OTHER -> IF gone THEN steps[1] ELSE steps[2]
       /\ IF n = 3
          THEN /\ cached' = IF cached.on THEN [cached EXCEPT !.rec = r] ELSE cached
               /\ UNCHANGED <<winEnd, written>>
          ELSE cached' = NotCached /\ winEnd' = 0 /\ written' = TRUE
    /\ UNCHANGED <<dnow, lookahead, mixedUp, ref>>

\* populateLookahead: an entry for a record whose first valid address expires within the window.
PopulateLookahead ==
  /\ lookahead > 0 /\ winEnd' = dnow + lookahead /\ written' = FALSE
  /\ gcKeys' = gcKeys \cup IF store # NoRecord /\ Loaded.addrs # <<>> /\ Loaded.addrs[1].exp <= dnow + lookahead
                           THEN {Loaded.addrs[1].exp} ELSE {}
  /\ UNCHANGED <<dnow, lookahead, store, cached, mixedUp, ref>>

\* The process stops and starts again with what the store holds.
Restart == /\ cached' = NotCached /\ winEnd' = 0 /\ written' = TRUE /\ UNCHANGED <<dnow, lookahead, store, gcKeys, mixedUp, ref>>

DsTick == dnow < DsMaxTime /\ dnow' = dnow + 1 /\ UNCHANGED <<lookahead, store, cached, gcKeys, winEnd, written, mixedUp, ref>>

DsNext ==
  \/ \E as \in SUBSET DsAddrs \ {{}}, ttl \in DsTTLs :
       AddAddrs(as, ttl) \/ Set(as, ttl) \/ (\E seq \in 1..DsMaxSeq : Consume(seq, as, ttl))
  \/ \E as \in SUBSET DsAddrs \ {{}} : Delete(as)
  \/ \E old \in DsTTLs, new \in DsTTLs \cup {0} : Update(old, new)
  \/ Read(TRUE) \/ Read(FALSE) \/ Clear \/ Evict
  \/ PurgeStore \/ (\E n \in 0..3 : PurgeLookahead(n)) \/ PopulateLookahead \/ Restart \/ DsTick

----------------------------------------------------------------------------
\* Whatever mix of the cache and the store an operation finds, before and after evictions,
\* collections and restarts, both give the same addresses with their expiries, each once, and a
\* record that nobody wrote since the window was populated has a lookahead entry by the time its
\* first valid address expires within the window.  The addresses are exactly those that were
\* added and not deleted, unless one call has deleted several addresses of a record and left
\* others: deleteInPlace moves an entry into the place of a deleted one without looking at it,
\* and can then keep one it was to delete and lose one it was to keep.
Entries(s) == {s[i] : i \in DOMAIN s}
Shown(r) == Entries(RemoveExpired(r.addrs))
Kept == {[addr |-> a, ttl |-> ref[a].ttl, exp |-> ref[a].exp] : a \in {b \in DsAddrs : Alive(b)}}

DsAgrees ==
  /\ Shown(Loaded) = Shown(store)
  /\ Len(RemoveExpired(Loaded.addrs)) = Cardinality(Shown(Loaded))
  /\ mixedUp \/ Shown(store) = Kept
  /\ ~written /\ Shown(Loaded) # {} => LET first == Sorted(RemoveExpired(Loaded.addrs))[1].exp IN
                                        first <= winEnd => \E k \in gcKeys : k <= first

----------------------------------------------------------------------------
(***************************************************************************)
(* Keys, protocols and metadata.  What a peerstore keeps of a peer besides *)
(* addresses, in memory (pstoremem) and over a datastore (pstoreds),       *)
(* driven side by side, and the peerstore manager, which forgets peers     *)
(* that stay away.  An operation is one step, and the datastore does not   *)
(* fail; RemovePeer goes through the books in turn.                        *)
(***************************************************************************)

CONSTANTS
  BPeers, BProtos,
  InlineKey,       \* peers whose ID contains their public key
  MaxProtos,       \* maxProtos
  GracePeriod,
  BMaxTime, MaxConnEvents   \* bounds of the model

VARIABLES
  protoMem,   \* memoryProtoBook: [BPeers -> SUBSET BProtos]
  meta,       \* memory metadata: [BPeers -> BOOLEAN], some key is set
  metaDs,     \* dsPeerMetadata: [BPeers -> [protocols, other]]; the protocols are one of its keys
  pub, priv,  \* memoryKeyBook: the peers whose keys it has
  keysDs,     \* dsKeyBook: <<p, "pub">> and <<p, "priv">>, the keys under which something is stored
  evq,        \* connectedness events not yet read, and how many there were
  disconnected, \* [BPeers -> time, 0 when absent]
  lastEv,     \* history: the last event read of each peer
  evAt,       \* history: when the first NotConnected of the current absence was read
  hasty,      \* history: a peer was removed early, see TooEarly
  pm,         \* the manager: "running", "cancelled", "ended"
  btime

bookVars == <<protoMem, meta, metaDs, pub, priv, keysDs, evq, disconnected, lastEv, evAt, hasty, pm, btime>>

NoMeta == [protocols |-> {}, other |-> FALSE]

BooksInit ==
  /\ protoMem = [p \in BPeers |-> {}] /\ meta = [p \in BPeers |-> FALSE] /\ metaDs = [p \in BPeers |-> NoMeta]
  /\ pub = {} /\ priv = {} /\ keysDs = {} /\ hasty = FALSE /\ evq = [q |-> <<>>, n |-> 0] /\ disconnected = [p \in BPeers |-> 0]
  /\ lastEv = [p \in BPeers |-> "none"] /\ evAt = [p \in BPeers |-> 0] /\ pm = "running" /\ btime = 1

UNCHANGED_MANAGER == UNCHANGED <<evq, disconnected, lastEv, evAt, hasty, pm, btime>>
UNCHANGED_KEYS == UNCHANGED <<pub, priv, keysDs>>

----------------------------------------------------------------------------
(* The protocol books                                                      *)

\* SetProtocols refuses more than maxProtos.
SetMem(p, ps) == IF Cardinality(ps) > MaxProtos THEN protoMem[p] ELSE ps
SetDs(p, ps) == IF Cardinality(ps) > MaxProtos THEN metaDs[p].protocols ELSE ps

\* AddProtocols counts what is there and what is given, also when they overlap.
AddMem(p, ps) ==
  IF Cardinality(protoMem[p]) + Cardinality(ps) > MaxProtos THEN protoMem[p] ELSE protoMem[p] \cup ps

AddDs(p, ps) ==
  IF Cardinality(metaDs[p].protocols) + Cardinality(ps) > MaxProtos THEN metaDs[p].protocols
  ELSE metaDs[p].protocols \cup ps

RemoveMem(p, ps) == protoMem[p] \ ps
RemoveDs(p, ps) == metaDs[p].protocols \ ps

Protocols(p, mem, ds) ==
  /\ protoMem' = [protoMem EXCEPT ![p] = mem] /\ metaDs' = [metaDs EXCEPT ![p].protocols = ds]
  /\ UNCHANGED meta /\ UNCHANGED_KEYS /\ UNCHANGED_MANAGER

SetProtocols(p, ps) == Protocols(p, SetMem(p, ps), SetDs(p, ps))
AddProtocols(p, ps) == Protocols(p, AddMem(p, ps), AddDs(p, ps))
RemoveProtocols(p, ps) == Protocols(p, RemoveMem(p, ps), RemoveDs(p, ps))

----------------------------------------------------------------------------
(* Metadata and keys                                                       *)

Put(p) ==
  /\ meta' = [meta EXCEPT ![p] = TRUE] /\ metaDs' = [metaDs EXCEPT ![p].other = TRUE]
  /\ UNCHANGED protoMem /\ UNCHANGED_KEYS /\ UNCHANGED_MANAGER

AddPubKey(p, matches) ==
  /\ pub' = IF matches THEN pub \cup {p} ELSE pub
  /\ keysDs' = IF matches THEN keysDs \cup {<<p, "pub">>} ELSE keysDs
  /\ UNCHANGED <<priv, protoMem, meta, metaDs>> /\ UNCHANGED_MANAGER

AddPrivKey(p, matches) ==
  /\ priv' = IF matches THEN priv \cup {p} ELSE priv
  /\ keysDs' = IF matches THEN keysDs \cup {<<p, "priv">>} ELSE keysDs
  /\ UNCHANGED <<pub, protoMem, meta, metaDs>> /\ UNCHANGED_MANAGER

\* PubKey stores the key that it finds in the ID, in memory and over the datastore.
PubKey(p) ==
  /\ pub' = IF p \notin pub /\ p \in InlineKey THEN pub \cup {p} ELSE pub
  /\ keysDs' = IF <<p, "pub">> \notin keysDs /\ p \in InlineKey THEN keysDs \cup {<<p, "pub">>} ELSE keysDs
  /\ UNCHANGED <<priv, protoMem, meta, metaDs>> /\ UNCHANGED_MANAGER

\* RemovePeer of the key book, the protocol book and the metadata, for a set of peers.  The
\* protocol book over a datastore removes all metadata of the peer.
RemovePeers(S) ==
  /\ pub' = pub \ S /\ priv' = priv \ S /\ keysDs' = keysDs \ (S \X {"priv", "pub"})
  /\ protoMem' = [p \in BPeers |-> IF p \in S THEN {} ELSE protoMem[p]]
  /\ meta' = [p \in BPeers |-> p \notin S /\ meta[p]]
  /\ metaDs' = [p \in BPeers |-> IF p \in S THEN NoMeta ELSE metaDs[p]]

RemovePeer(p) == RemovePeers({p}) /\ UNCHANGED_MANAGER

----------------------------------------------------------------------------
(* The peerstore manager                                                   *)

UNCHANGED_BOOKS == UNCHANGED <<protoMem, meta, metaDs>> /\ UNCHANGED_KEYS

Emit(p, c) ==
  /\ evq.n < MaxConnEvents /\ evq' = [q |-> Append(evq.q, <<p, c>>), n |-> evq.n + 1]
  /\ UNCHANGED <<disconnected, lastEv, evAt, hasty, pm, btime>> /\ UNCHANGED_BOOKS

\* The first NotConnected starts the clock, Connected stops it.
Noted(p, c) ==
  IF c = "connected" THEN [disconnected EXCEPT ![p] = 0]
  ELSE IF disconnected[p] # 0 THEN disconnected ELSE [disconnected EXCEPT ![p] = btime]

ReadEvent ==
  /\ pm # "ended" /\ evq.q # <<>> /\ evq' = [evq EXCEPT !.q = Tail(@)]
  /\ LET p == Head(evq.q)[1] c == Head(evq.q)[2] IN
     /\ disconnected' = Noted(p, c) /\ lastEv' = [lastEv EXCEPT ![p] = c]
     /\ evAt' = [evAt EXCEPT ![p] = IF c = "connected" THEN 0 ELSE IF @ # 0 THEN @ ELSE btime]
  /\ UNCHANGED <<hasty, pm, btime>> /\ UNCHANGED_BOOKS

\* The events read so far do not say that the peer was away for longer than the grace period.
TooEarly(p) == lastEv[p] # "not connected" \/ btime - evAt[p] <= GracePeriod

\* The ticker: peers away for longer than the grace period are removed.
Cleanup ==
  LET due == {p \in BPeers : disconnected[p] # 0 /\ disconnected[p] + GracePeriod < btime} IN
  /\ pm # "ended" /\ due # {} /\ RemovePeers(due)
  /\ disconnected' = [p \in BPeers |-> IF p \in due THEN 0 ELSE disconnected[p]]
  /\ evAt' = [p \in BPeers |-> IF p \in due THEN 0 ELSE evAt[p]]
  /\ hasty' = (hasty \/ \E p \in due : TooEarly(p)) /\ UNCHANGED <<evq, lastEv, pm, btime>>

\* Close cancels; the loop removes every peer that is away as it ends.
Close ==
  /\ pm = "running" /\ pm' = "cancelled"
  /\ UNCHANGED <<evq, disconnected, lastEv, evAt, hasty, btime>> /\ UNCHANGED_BOOKS

Ends ==
  /\ pm = "cancelled" /\ pm' = "ended" /\ RemovePeers({p \in BPeers : disconnected[p] # 0})
  /\ UNCHANGED <<evq, disconnected, lastEv, evAt, hasty, btime>>

BooksTick == btime < BMaxTime /\ btime' = btime + 1 /\ UNCHANGED <<evq, disconnected, lastEv, evAt, hasty, pm>> /\ UNCHANGED_BOOKS

BooksNext ==
  \/ \E p \in BPeers :
       \/ \E ps \in SUBSET BProtos \ {{}} : SetProtocols(p, ps) \/ AddProtocols(p, ps) \/ RemoveProtocols(p, ps)
       \/ Put(p) \/ PubKey(p) \/ RemovePeer(p)
       \/ \E matches \in BOOLEAN : AddPubKey(p, matches) \/ AddPrivKey(p, matches)
       \/ \E c \in {"connected", "not connected"} : Emit(p, c)
  \/ ReadEvent \/ Cleanup \/ Close \/ Ends \/ BooksTick

----------------------------------------------------------------------------
\* The two peerstores answer alike after any sequence of operations, at the limit of protocols and
\* after a removal too; no book exceeds the limit; and until it is closed the manager removes a
\* peer only when the events it has read say that it stayed away for the grace period (it may have
\* come back in an event that is not read yet).
BooksAgree ==
  /\ \A p \in BPeers :
       /\ protoMem[p] = metaDs[p].protocols /\ meta[p] = metaDs[p].other
       /\ (p \in pub <=> <<p, "pub">> \in keysDs) /\ (p \in priv <=> <<p, "priv">> \in keysDs)
       /\ Cardinality(protoMem[p]) <= MaxProtos
  /\ ~hasty
============================================================================
