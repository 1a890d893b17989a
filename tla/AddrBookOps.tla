---------------------------- MODULE AddrBookOps ----------------------------
(***************************************************************************)
(* The addresses that an address book keeps for one peer, and what the     *)
(* operations of the in-memory address book (p2p/host/peerstore/pstoremem/ *)
(* addr_book.go) make of them.  A peer's lock makes each of them atomic.   *)
(* A book is a record: map tells whether the peer has an address map, ttl  *)
(* and expires give the time to live of each address, 0 for one that is    *)
(* not in the map, and the time it expires; rec is the sequence number of  *)
(* the signed record, 0 without one.                                       *)
(***************************************************************************)
EXTENDS Naturals

CONSTANT Addrs

EmptyBook == [map |-> FALSE, ttl |-> [a \in Addrs |-> 0],
              expires |-> [a \in Addrs |-> 0], rec |-> 0]

Later(x, y) == IF x > y THEN x ELSE y

\* addAddrsUnlocked: the later of the expiries and the greater of the times to live.
addAddrs(b, as, ttl, now) ==
  IF ttl = 0 THEN b
  ELSE [b EXCEPT !.map = TRUE,
          !.ttl = [a \in Addrs |-> IF a \in as THEN Later(@[a], ttl) ELSE @[a]],
          !.expires = [a \in Addrs |-> IF a \in as THEN Later(@[a], now + ttl) ELSE @[a]]]

\* The entries of the addresses as become new ones, or go when the time to live is 0.
Entries(b, as, ttl, now) ==
  [b EXCEPT !.ttl = [a \in Addrs |-> IF a \in as THEN ttl ELSE @[a]],
            !.expires = [a \in Addrs |-> IF a \notin as THEN @[a]
                                         ELSE IF ttl = 0 THEN 0 ELSE now + ttl]]

SetAddrs(b, as, ttl, now) == Entries([b EXCEPT !.map = TRUE], as, ttl, now)

UpdateAddrs(b, oldTTL, newTTL, now) ==
  Entries(b, {a \in Addrs : b.ttl[a] # 0 /\ b.ttl[a] = oldTTL}, newTTL, now)

\* A record that is older than the last one is refused, without an error.
ConsumePeerRecord(b, seq, as, ttl, now) ==
  IF b.rec > seq THEN b ELSE addAddrs([b EXCEPT !.rec = seq], as, ttl, now)

ValidAddrs(b, now) == {a \in Addrs : b.ttl[a] # 0 /\ now < b.expires[a]}

ClearAddrs(b) == EmptyBook

\* gc: a peer that has a map without addresses loses it, and its record, too.
Collect(b, now) ==
  IF b.map /\ ValidAddrs(b, now) = {} THEN EmptyBook
  ELSE Entries(b, Addrs \ ValidAddrs(b, now), 0, now)
============================================================================
