----------------------------- MODULE Identify -----------------------------
(***************************************************************************)
(* The identify service (p2p/protocol/identify/id.go) and one remote peer  *)
(* with several connections.  On each connection we ask the peer who it    *)
(* is and take in its answer and its pushes, in the goroutines of their    *)
(* streams; the peer asks us, and we push every new snapshot of our own    *)
(* addresses and protocols to it.  The swarm delivers Connected before it  *)
(* accepts a connection's streams, and before Disconnected (see Swarm).    *)
(* The address book's time does not pass.                                  *)
(***************************************************************************)
EXTENDS AddrBookOps

CONSTANTS
  Conns,
  MaxRecord,       \* bound of the model: changes of the remote peer
  MaxSeq,          \* bound of the model: our own changes
  recordAddrs,     \* [1..MaxRecord -> SUBSET Addrs]: the addresses of the peer over time
  Signed,          \* the peer sends signed records
  SupportsPush     \* the peer supports identify push

Temp == 1
RecentlyConnected == 2
Connected == 3

Readers == Conns \X {"identify", "push"}

VARIABLES
  st,              \* [Conns -> "new", "up", "removed" from the swarm, "closed"]
  noted,           \* [Conns -> how far the notifications of a connection have come]
  present,         \* the connections in ids.conns
  wait,            \* [Conns -> "none", "open", "closed"]: IdentifyWaitChan
  support,         \* [Conns -> "unknown", "yes", "no"]: entry.PushSupport
  sequence,        \* [Conns -> Nat]: entry.Sequence
  reader, msg,     \* what a stream that brings a message is doing, and the message
  remote,          \* what the remote peer would say of itself now
  book,            \* the peer's addresses in our address book
  local,           \* what we would say of ourselves now
  event,           \* an event of our change waits in the loop's subscription
  snapshot, seq,   \* currentSnapshot and its sequence number
  trigger,         \* triggerPush holds a token
  pusher, todo,    \* sendPushes: "wait", "visit"; the connections not yet visited
  pushing,         \* [Conns -> "none", "open", "send"]: the push for a connection
  via,             \* [Conns -> Conns]: the connection it is sent on
  answering,       \* [Conns -> "none", "send", "done"]: the peer's request
  snap,            \* the snapshots in these messages: [Conns -> [push, answer]]
  known,           \* history: the last of our snapshots that the peer was sent
  pushFailed       \* history: a push was not sent

swarmVars == <<st, noted>>
entryVars == <<present, wait, support, sequence>>
readVars == <<reader, msg, remote>>
localVars == <<local, event, snapshot, seq, trigger, pusher, todo>>
sendVars == <<pushing, via, answering, snap, known, pushFailed>>
vars == <<swarmVars, entryVars, readVars, book, localVars, sendVars>>

Init ==
  /\ st = [c \in Conns |-> "new"] /\ noted = [c \in Conns |-> "no"]
  /\ present = {} /\ wait = [c \in Conns |-> "none"]
  /\ support = [c \in Conns |-> "unknown"] /\ sequence = [c \in Conns |-> 0]
  /\ reader = [r \in Readers |-> "none"] /\ msg = [r \in Readers |-> 0]
  /\ remote = 1 /\ book = EmptyBook
  /\ local = 1 /\ event = FALSE /\ snapshot = 1 /\ seq = 1 /\ trigger = FALSE
  /\ pusher = "wait" /\ todo = {}
  /\ pushing = [c \in Conns |-> "none"] /\ via = [c \in Conns |-> c]
  /\ answering = [c \in Conns |-> "none"]
  /\ snap = [c \in Conns |-> [push |-> 0, answer |-> 0]]
  /\ known = 0 /\ pushFailed = FALSE

\* Connectedness of the peer.
IsConnected == \E c \in Conns : st[c] = "up"

----------------------------------------------------------------------------
(* The swarm.                                                              *)

ConnOpens(c) ==
  /\ st[c] = "new"
  /\ st' = [st EXCEPT ![c] = "up"]
  /\ UNCHANGED <<noted, entryVars, readVars, book, localVars, sendVars>>

\* A connection leaves the swarm's map before it is closed.
ConnRemoved(c) ==
  /\ st[c] = "up"
  /\ st' = [st EXCEPT ![c] = "removed"]
  /\ UNCHANGED <<noted, entryVars, readVars, book, localVars, sendVars>>

ConnClosed(c) ==
  /\ st[c] = "removed"
  /\ st' = [st EXCEPT ![c] = "closed"]
  /\ UNCHANGED <<noted, entryVars, readVars, book, localVars, sendVars>>

\* The first IdentifyWait of an entry starts the goroutine that identifies the peer.
StartIdentify(c) ==
  /\ present' = present \cup {c}
  /\ IF wait[c] = "none"
     THEN /\ wait' = [wait EXCEPT ![c] = "open"]
          /\ reader' = [reader EXCEPT ![<<c, "identify">>] = "request"]
     ELSE UNCHANGED <<wait, reader>>
  /\ UNCHANGED <<support, sequence>>

ConnectedNotification(c) ==
  /\ st[c] # "new" /\ noted[c] = "no"
  /\ noted' = [noted EXCEPT ![c] = "connected"]
  /\ StartIdentify(c)
  /\ UNCHANGED <<st, msg, remote, book, localVars, sendVars>>

\* A caller that has the connection asks to wait, before Connected or after it.  The
\* entry of a connection that is closed is not made again.
IdentifyWait(c) ==
  /\ st[c] # "new"
  /\ c \in present \/ st[c] # "closed"
  /\ StartIdentify(c)
  /\ UNCHANGED <<swarmVars, msg, remote, book, localVars, sendVars>>

\* Disconnected: the entry goes, then the connectedness is looked at, then the lock
\* taken and the addresses downgraded.
DisconnectedNotification(c) ==
  /\ st[c] = "closed" /\ noted[c] = "connected"
  /\ noted' = [noted EXCEPT ![c] = "check"]
  /\ present' = present \ {c}
  /\ wait' = [wait EXCEPT ![c] = "none"]
  /\ support' = [support EXCEPT ![c] = "unknown"]
  /\ sequence' = [sequence EXCEPT ![c] = 0]
  /\ UNCHANGED <<st, readVars, book, localVars, sendVars>>

DisconnectedCheck(c) ==
  /\ noted[c] = "check"
  /\ noted' = [noted EXCEPT ![c] = IF IsConnected THEN "gone" ELSE "downgrade"]
  /\ UNCHANGED <<st, entryVars, readVars, book, localVars, sendVars>>

DisconnectedDowngrade(c) ==
  /\ noted[c] = "downgrade"
  /\ noted' = [noted EXCEPT ![c] = "gone"]
  /\ book' = UpdateAddrs(book, Connected, RecentlyConnected, 0)
  /\ UNCHANGED <<st, entryVars, readVars, localVars, sendVars>>

----------------------------------------------------------------------------
(* Messages of the peer.                                                   *)

RemoteChanges ==
  /\ remote < MaxRecord
  /\ remote' = remote + 1
  /\ UNCHANGED <<swarmVars, entryVars, reader, msg, book, localVars, sendVars>>

\* identifyConn: the stream is opened and the peer sends what it is at that moment.
Answered(c) ==
  LET r == <<c, "identify">> IN
  /\ reader[r] = "request" /\ st[c] = "up"
  /\ reader' = [reader EXCEPT ![r] = "read"]
  /\ msg' = [msg EXCEPT ![r] = remote]
  /\ UNCHANGED <<swarmVars, entryVars, remote, book, localVars, sendVars>>

PushReceived(c) ==
  LET r == <<c, "push">> IN
  /\ reader[r] = "none" /\ st[c] = "up" /\ noted[c] = "connected"
  /\ reader' = [reader EXCEPT ![r] = "read"]
  /\ msg' = [msg EXCEPT ![r] = remote]
  /\ UNCHANGED <<swarmVars, entryVars, remote, book, localVars, sendVars>>

\* The goroutine of an identify request ends and closes the channel, if the entry that
\* holds it is still there; a push just ends.
ReaderEnds(r, how) ==
  /\ reader' = [reader EXCEPT ![r] = IF r[2] = "push" THEN "none" ELSE how]
  /\ wait' = IF r[2] = "identify" /\ wait[r[1]] = "open"
             THEN [wait EXCEPT ![r[1]] = "closed"] ELSE wait

\* The stream cannot be opened, or fails before the message is read.
ReadFails(r) ==
  /\ reader[r] \in {"request", "read"}
  /\ ReaderEnds(r, "failed")
  /\ UNCHANGED <<swarmVars, present, support, sequence, msg, remote, book, localVars, sendVars>>

\* A mutant: the addresses are taken in as those of a connected peer.
ConsumedConnected(m) ==
  LET as == recordAddrs[m]
      temp == UpdateAddrs(UpdateAddrs(book, RecentlyConnected, Temp, 0), Connected, Temp, 0)
      added == IF Signed THEN ConsumePeerRecord(temp, m, as, Connected, 0)
                         ELSE addAddrs(temp, as, Connected, 0)
  IN UpdateAddrs(added, Temp, 0, 0)

\* The section of consumeMessage under addrMu: the known addresses become temporary,
\* those of the message are added, and what is still temporary goes.
Consumed(m) ==
  LET as == recordAddrs[m]
      ttl == IF IsConnected THEN Connected ELSE RecentlyConnected
      temp == UpdateAddrs(UpdateAddrs(book, RecentlyConnected, Temp, 0), Connected, Temp, 0)
      added == IF Signed THEN ConsumePeerRecord(temp, m, as, ttl, 0)
                         ELSE addAddrs(temp, as, ttl, 0)
  IN UpdateAddrs(added, Temp, 0, 0)

ConsumeMessage(r) ==
  /\ reader[r] = "read"
  /\ reader' = [reader EXCEPT ![r] = "support"]
  /\ book' = Consumed(msg[r])
  /\ UNCHANGED <<swarmVars, entryVars, msg, remote, localVars, sendVars>>

\* The end of handleIdentifyResponse.
RecordSupport(r) ==
  /\ reader[r] = "support"
  /\ support' = IF r[1] \in present
                THEN [support EXCEPT ![r[1]] = IF SupportsPush THEN "yes" ELSE "no"] ELSE support
  /\ ReaderEnds(r, "done")
  /\ UNCHANGED <<swarmVars, present, sequence, msg, remote, book, localVars, sendVars>>

----------------------------------------------------------------------------
(* Our own snapshots.                                                      *)

LocalChanges ==
  /\ local < MaxSeq
  /\ local' = local + 1
  /\ event' = TRUE
  /\ UNCHANGED <<swarmVars, entryVars, readVars, book, snapshot, seq, trigger, pusher, todo,
                 sendVars>>

\* loop: updateSnapshot, and a push if it made a difference.
HandleEvent ==
  /\ event
  /\ event' = FALSE
  /\ IF snapshot = local THEN UNCHANGED <<snapshot, seq, trigger>>
     ELSE snapshot' = local /\ seq' = seq + 1 /\ trigger' = TRUE
  /\ UNCHANGED <<swarmVars, entryVars, readVars, book, local, pusher, todo, sendVars>>

SendPushes ==
  /\ pusher = "wait" /\ trigger
  /\ trigger' = FALSE
  /\ pusher' = "visit"
  /\ todo' = {c \in present : support[c] # "no"}
  /\ UNCHANGED <<swarmVars, entryVars, readVars, book, local, event, snapshot, seq, sendVars>>

\* A connection that is gone or has seen the snapshot is skipped.
Visit(c) ==
  /\ pusher = "visit" /\ c \in todo
  /\ todo' = todo \ {c}
  /\ pushing' = [pushing EXCEPT ![c] = IF c \in present /\ sequence[c] < seq THEN "open" ELSE @]
  /\ UNCHANGED <<swarmVars, entryVars, readVars, book, local, event, snapshot, seq, trigger,
                 pusher, via, answering, snap, known, pushFailed>>

PushesDone ==
  /\ pusher = "visit" /\ todo = {} /\ \A c \in Conns : pushing[c] = "none"
  /\ pusher' = "wait"
  /\ UNCHANGED <<swarmVars, entryVars, readVars, book, local, event, snapshot, seq, trigger, todo,
                 sendVars>>

\* NewStream is free to choose any connection to the peer.
OpenPush(c) ==
  /\ pushing[c] = "open"
  /\ \E d \in Conns : st[d] = "up" /\ via' = [via EXCEPT ![c] = d]
  /\ pushing' = [pushing EXCEPT ![c] = "send"]
  /\ snap' = [snap EXCEPT ![c].push = seq]
  /\ UNCHANGED <<swarmVars, entryVars, readVars, book, localVars, answering, known, pushFailed>>

PushFails(c) ==
  /\ pushing[c] # "none"
  /\ pushing' = [pushing EXCEPT ![c] = "none"]
  /\ pushFailed' = TRUE
  /\ UNCHANGED <<swarmVars, entryVars, readVars, book, localVars, via, answering, snap, known>>

\* The end of sendIdentifyResp, snapshot s sent on connection d.
Sent(d, s) ==
  /\ sequence' = IF d \in present THEN [sequence EXCEPT ![d] = s] ELSE sequence
  /\ known' = Later(known, s)

PushSent(c) ==
  /\ pushing[c] = "send"
  /\ pushing' = [pushing EXCEPT ![c] = "none"]
  /\ Sent(via[c], snap[c].push)
  /\ UNCHANGED <<swarmVars, present, wait, support, readVars, book, localVars, via, answering,
                 snap, pushFailed>>

\* handleIdentifyRequest: a connection's streams are accepted after Connected.
Answer(c) ==
  /\ st[c] = "up" /\ noted[c] = "connected" /\ answering[c] = "none"
  /\ answering' = [answering EXCEPT ![c] = "send"]
  /\ snap' = [snap EXCEPT ![c].answer = seq]
  /\ UNCHANGED <<swarmVars, entryVars, readVars, book, localVars, pushing, via, known, pushFailed>>

AnswerSent(c) ==
  /\ answering[c] = "send"
  /\ answering' = [answering EXCEPT ![c] = "done"]
  /\ Sent(c, snap[c].answer)
  /\ UNCHANGED <<swarmVars, present, wait, support, readVars, book, localVars, pushing, via, snap,
                 pushFailed>>

AnswerFails(c) ==
  /\ answering[c] = "send"
  /\ answering' = [answering EXCEPT ![c] = "none"]
  /\ UNCHANGED <<swarmVars, entryVars, readVars, book, localVars, pushing, via, snap, known,
                 pushFailed>>

----------------------------------------------------------------------------
Next ==
  \/ \E c \in Conns :
       \/ ConnOpens(c) \/ ConnRemoved(c) \/ ConnClosed(c)
       \/ ConnectedNotification(c) \/ IdentifyWait(c)
       \/ DisconnectedNotification(c) \/ DisconnectedCheck(c) \/ DisconnectedDowngrade(c)
       \/ Answered(c) \/ PushReceived(c)
       \/ Visit(c) \/ OpenPush(c) \/ PushFails(c) \/ PushSent(c)
       \/ Answer(c) \/ AnswerSent(c) \/ AnswerFails(c)
  \/ \E r \in Readers : ReadFails(r) \/ ConsumeMessage(r) \/ RecordSupport(r)
  \/ RemoteChanges \/ LocalChanges \/ HandleEvent \/ SendPushes \/ PushesDone

Spec == Init /\ [][Next]_vars

----------------------------------------------------------------------------
(* Properties.                                                             *)

TypeOK ==
  /\ st \in [Conns -> {"new", "up", "removed", "closed"}]
  /\ noted \in [Conns -> {"no", "connected", "check", "downgrade", "gone"}]
  /\ present \subseteq Conns /\ todo \subseteq Conns
  /\ wait \in [Conns -> {"none", "open", "closed"}]
  /\ support \in [Conns -> {"unknown", "yes", "no"}]
  /\ reader \in [Readers -> {"none", "request", "read", "support", "done", "failed"}]
  /\ pusher \in {"wait", "visit"}
  /\ pushing \in [Conns -> {"none", "open", "send"}] /\ via \in [Conns -> Conns]
  /\ answering \in [Conns -> {"none", "send", "done"}]
  /\ {event, trigger, pushFailed} \subseteq BOOLEAN

\* Once all connections to the peer have ended and their Disconnected notifications were
\* handled, nothing of them is left, whatever messages are still being read: no entry,
\* and no address that is kept as that of a connected peer.
NothingLeftBehind ==
  /\ TypeOK
  /\ \A c \in Conns : noted[c] \in {"check", "downgrade", "gone"} => c \notin present
  /\ (\A c \in Conns : noted[c] = "gone" \/ st[c] = "new")
       => \A a \in Addrs : book.ttl[a] # Connected

\* A peer that was told an older snapshot of ours will be told the present one: while it
\* has not been, a push to it is under way or will be, unless a push failed.
PeerUpdated ==
  (/\ \E c \in present : answering[c] = "done" /\ support[c] # "no"
   /\ known < seq /\ ~pushFailed)
  => \/ trigger
     \/ \E c \in todo : c \in present /\ sequence[c] < seq
     \/ \E c \in Conns : \/ pushing[c] = "open"
                         \/ pushing[c] = "send" /\ snap[c].push = seq

\* "IdentifyConn runs the Identify protocol on a connection. [...] If successful, the
\* peer store will contain the peer's addresses and supported protocols."
\* (p2p/protocol/identify/id.go)
PeerStoreHasAddrs ==
  \A c \in Conns : reader[<<c, "identify">>] = "done" /\ st[c] = "up"
                   => ValidAddrs(book, 0) # {}
============================================================================
