---------------------------- MODULE NoiseSession ----------------------------
(***************************************************************************)
(* A Noise session (p2p/security/noise): the XX handshake, run by a        *)
(* goroutine that newSecureSession waits for or abandons, and the          *)
(* transport after it, where Write cuts data into messages with a length   *)
(* prefix and Read keeps what does not fit the caller's buffer.  The       *)
(* cryptography is ideal: a payload is accepted exactly if it comes from   *)
(* the peer it names.                                                      *)
(***************************************************************************)
EXTENDS Naturals, Sequences, FiniteSets

CONSTANTS
  Writers,              \* concurrent callers of Write
  WriteSizes, ReadSizes,
  MaxTransportMsgLength, Overhead,
  MaxBytes              \* bound of the model

VARIABLES
  checkPeerID, expected,  \* [Sides -> BOOLEAN], [Sides -> Sides]: whom the side expects
  stage,     \* [Sides -> 0..3]: handshake messages this side has been through, 3 for all
  hs,        \* [Sides -> "running", "ok", "error"]: runHandshake, and its answer in respCh
  sess,      \* [Sides -> "waiting", "cancelled", "session", "error"]: newSecureSession
  ctxDone,   \* [Sides -> BOOLEAN]
  open,      \* [Sides -> BOOLEAN]: insecureConn is not closed by this side
  flight,    \* handshake messages on their way: [Sides -> Nat], to the side
  remoteID, keys, \* [Sides -> ], "none" before; [enc, dec]
  upto,      \* bytes given to Write so far; they are numbered in the order of the calls
  wr,        \* [Writers -> [at, end, written]]: Write under way
  writeLock, \* its holder, or {}
  wire,      \* Seq([prefix, bytes]): messages from the initiator
  qbuf, qseek, queued,  \* queued says that qbuf is not nil
  got, readErr, lastRead

hsVars == <<checkPeerID, expected, stage, hs, sess, ctxDone, open, flight, remoteID, keys>>
rwVars == <<upto, wr, writeLock, wire, qbuf, qseek, queued, got, readErr, lastRead>>
noiseVars == <<hsVars, rwVars>>

Sides == {"init", "resp"}
Other(x) == CHOOSE y \in Sides : y # x
NoKeys == [enc |-> "none", dec |-> "none"]
NotWriting == [at |-> "idle", end |-> 0, written |-> 0]

Init ==
  /\ checkPeerID \in [Sides -> BOOLEAN] /\ expected \in [Sides -> Sides]
  /\ stage = [x \in Sides |-> 0] /\ hs = [x \in Sides |-> "running"] /\ sess = [x \in Sides |-> "waiting"]
  /\ ctxDone = [x \in Sides |-> FALSE] /\ open = [x \in Sides |-> TRUE] /\ flight = [x \in Sides |-> 0]
  /\ remoteID = [x \in Sides |-> "none"] /\ keys = [x \in Sides |-> NoKeys]
  /\ upto = 0 /\ wr = [w \in Writers |-> NotWriting] /\ writeLock = {} /\ wire = <<>>
  /\ qbuf = <<>> /\ qseek = 0 /\ queued = FALSE /\ got = <<>> /\ readErr = FALSE /\ lastRead = [len |-> 0, n |-> 0]

----------------------------------------------------------------------------
(* The handshake                                                           *)

\* The initiator sends the first and the third message, the responder the second.
Sends(x, n) == IF x = "init" THEN n \in {0, 2} ELSE n = 1

\* setCipherStates: each direction has one key.
KeysOf(x) == IF x = "init" THEN [enc |-> "cs1", dec |-> "cs2"] ELSE [enc |-> "cs2", dec |-> "cs1"]

Fails(x) == hs' = [hs EXCEPT ![x] = "error"] /\ UNCHANGED <<stage, flight, remoteID, keys>>

Passed(x) ==
  /\ stage' = [stage EXCEPT ![x] = @ + 1]
  /\ hs' = [hs EXCEPT ![x] = IF stage[x] = 2 THEN "ok" ELSE @]
  /\ keys' = [keys EXCEPT ![x] = IF stage[x] = 2 THEN KeysOf(x) ELSE @]

\* sendHandshakeMessage, and reading early data of the handler, which may fail.
SendMessage(x) ==
  /\ hs[x] = "running" /\ stage[x] < 3 /\ Sends(x, stage[x])
  /\ \/ open[x] /\ Passed(x) /\ flight' = [flight EXCEPT ![Other(x)] = @ + 1] /\ UNCHANGED remoteID
     \/ Fails(x)
  /\ UNCHANGED <<checkPeerID, expected, sess, ctxDone, open>> /\ UNCHANGED rwVars

\* handleRemoteHandshakePayload, from the second message on: the peer must be the one expected, if that
\* is checked.
PayloadAccepted(x) == stage[x] > 0 /\ checkPeerID[x] => expected[x] = Other(x)

\* readHandshakeMessage and the payload in it; the early data handler may refuse what it is given.
ReadMessage(x) ==
  /\ hs[x] = "running" /\ stage[x] < 3 /\ ~Sends(x, stage[x])
  /\ \/ /\ flight[x] > 0 /\ open[x] /\ PayloadAccepted(x)
        /\ Passed(x) /\ flight' = [flight EXCEPT ![x] = @ - 1]
        /\ remoteID' = IF stage[x] > 0 THEN [remoteID EXCEPT ![x] = Other(x)] ELSE remoteID
     \/ (flight[x] > 0 \/ ~open[x] \/ ~open[Other(x)]) /\ Fails(x)
  /\ UNCHANGED <<checkPeerID, expected, sess, ctxDone, open>> /\ UNCHANGED rwVars

\* newSecureSession: the answer of the goroutine; an error closes the connection.
HandshakeReturns(x) ==
  /\ sess[x] \in {"waiting", "cancelled"} /\ hs[x] # "running"
  /\ LET ok == hs[x] = "ok" /\ sess[x] = "waiting" IN
     /\ sess' = [sess EXCEPT ![x] = IF ok THEN "session" ELSE "error"]
     /\ open' = [open EXCEPT ![x] = @ /\ ok]
  /\ UNCHANGED <<checkPeerID, expected, stage, hs, ctxDone, flight, remoteID, keys>> /\ UNCHANGED rwVars

ContextEnds(x) ==
  /\ ~ctxDone[x] /\ sess[x] = "waiting" /\ ctxDone' = [ctxDone EXCEPT ![x] = TRUE]
  /\ UNCHANGED <<checkPeerID, expected, stage, hs, sess, open, flight, remoteID, keys>> /\ UNCHANGED rwVars

\* The context is done: the connection is closed, which ends the handshake, and that is waited for.
Cancelled(x) ==
  /\ sess[x] = "waiting" /\ ctxDone[x]
  /\ sess' = [sess EXCEPT ![x] = "cancelled"] /\ open' = [open EXCEPT ![x] = FALSE]
  /\ UNCHANGED <<checkPeerID, expected, stage, hs, ctxDone, flight, remoteID, keys>> /\ UNCHANGED rwVars

----------------------------------------------------------------------------
(* Write and Read                                                          *)

Least(x, y) == IF x < y THEN x ELSE y
MaxPlaintextLength == MaxTransportMsgLength - Overhead

\* Write takes the lock for the whole of its data.
Write(w, n) ==
  /\ sess["init"] = "session" /\ wr[w].at = "idle" /\ writeLock = {} /\ n > 0 /\ upto + n <= MaxBytes
  /\ writeLock' = writeLock \cup {w} /\ upto' = upto + n
  /\ wr' = [wr EXCEPT ![w] = [at |-> "writing", end |-> upto + n, written |-> upto]]
  /\ UNCHANGED <<wire, qbuf, qseek, queued, got, readErr, lastRead>> /\ UNCHANGED hsVars

ChunkEndNoMac(w) == Least(wr[w].written + MaxTransportMsgLength, wr[w].end)
ChunkEnd(w) == Least(wr[w].written + MaxPlaintextLength, wr[w].end)

\* One message: encrypted, with its length in a prefix of fixed width.
WriteMessage(w) ==
  /\ wr[w].at = "writing"
  /\ LET n == ChunkEnd(w) - wr[w].written
         msg == [prefix |-> (n + Overhead) % (MaxTransportMsgLength + 1),
                 bytes |-> [i \in 1..n |-> wr[w].written + i]] IN
     /\ wire' = Append(wire, msg)
     /\ IF ChunkEnd(w) < wr[w].end
        THEN wr' = [wr EXCEPT ![w].written = ChunkEnd(w)] /\ UNCHANGED writeLock
        ELSE wr' = [wr EXCEPT ![w] = NotWriting] /\ writeLock' = writeLock \ {w}
  /\ UNCHANGED <<upto, qbuf, qseek, queued, got, readErr, lastRead>> /\ UNCHANGED hsVars

\* Read with queued bytes: as many as fit; the buffer is released when all are read.
ReadQueued(len) ==
  /\ queued
  /\ LET n == Least(len, Len(qbuf) - qseek)
         end == qseek + n = Len(qbuf) IN
     /\ got' = got \o SubSeq(qbuf, qseek + 1, qseek + n) /\ lastRead' = [len |-> len, n |-> n]
     /\ queued' = ~end /\ qseek' = (IF end THEN 0 ELSE qseek + n) /\ qbuf' = IF end THEN <<>> ELSE qbuf
  /\ UNCHANGED <<wire, readErr>>

\* Otherwise the next message: into the caller's buffer if the message with its tag fits, else queued.
ReadNext(len) ==
  /\ ~queued /\ wire # <<>> /\ wire' = Tail(wire)
  /\ LET m == Head(wire)
         whole == len >= m.prefix
         n == IF whole THEN Len(m.bytes) ELSE Least(len, Len(m.bytes)) IN
     IF m.prefix # Len(m.bytes) + Overhead
     THEN readErr' = TRUE /\ UNCHANGED <<qbuf, qseek, queued, got, lastRead>>
     ELSE /\ got' = got \o SubSeq(m.bytes, 1, n) /\ lastRead' = [len |-> len, n |-> n]
          /\ IF whole THEN UNCHANGED <<qbuf, qseek, queued>>
             ELSE qbuf' = m.bytes /\ qseek' = n /\ queued' = TRUE
          /\ UNCHANGED readErr

Read(len) ==
  /\ sess["resp"] = "session" /\ ~readErr /\ (ReadQueued(len) \/ ReadNext(len))
  /\ UNCHANGED <<upto, wr, writeLock>> /\ UNCHANGED hsVars

Next ==
  \/ \E x \in Sides : SendMessage(x) \/ ReadMessage(x) \/ HandshakeReturns(x) \/ ContextEnds(x) \/ Cancelled(x)
  \/ \E w \in Writers : (\E n \in WriteSizes : Write(w, n)) \/ WriteMessage(w)
  \/ \E len \in ReadSizes : Read(len)

----------------------------------------------------------------------------
\* A session is returned only with the peer that was expected and with keys that the other side's
\* session has too, a failed or abandoned handshake leaves neither goroutine nor connection behind;
\* and Read gives the bytes in the order of the Write calls, none lost or twice, whatever the sizes of
\* the buffers on both sides.
Buffered == IF queued THEN SubSeq(qbuf, qseek + 1, Len(qbuf)) ELSE <<>>

SessionsSound ==
  /\ \A x \in Sides :
       /\ sess[x] = "session" => /\ hs[x] = "ok" /\ remoteID[x] = Other(x) /\ open[x]
                                 /\ checkPeerID[x] => expected[x] = remoteID[x]
       /\ sess[x] = "error" => hs[x] # "running" /\ ~open[x]
  /\ (\A x \in Sides : sess[x] = "session") => \A x \in Sides : keys[x].enc = keys[Other(x)].dec /\ keys[x].enc # "none"
  /\ ~readErr
  /\ LET all == got \o Buffered IN \A i \in DOMAIN all : all[i] = i

\* Not so: a Read with room for a byte returns at least one, as io.Reader asks.
NoEmptyRead == lastRead.len > 0 => lastRead.n > 0
============================================================================
