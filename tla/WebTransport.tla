---------------------------- MODULE WebTransport ----------------------------
(***************************************************************************)
(* The WebTransport transport (p2p/transport/webtransport): sessions that  *)
(* are dialled with the certificate hashes of an address, and sessions     *)
(* that come in over HTTP and are secured with Noise before they are       *)
(* queued.  A dial has a QUIC connection of its own; several requests can  *)
(* come over one connection.  The certificate manager is a machine of its  *)
(* own at the end (CertsInit, CertsNext).                                  *)
(***************************************************************************)
EXTENDS Integers, FiniteSets

CONSTANTS
  Sessions,    \* bound of the model: sessions
  QuicConns, QuicOf,  \* QUIC connections, [Sessions -> QuicConns]
  Hashes,      \* certificate hashes
  WtQueueLen,  \* queueLen
  CertValidity, ClockSkew,
  Offset,      \* derived from the public key
  MaxCertTime, \* bound of the model: the manager's clock stops here
  MaxLag       \* how late a timer can fire and a certificate be made

\* A certificate outlives the skew that is allowed for at both of its ends.
ASSUME CertAssumption ==
  /\ CertValidity \in Nat /\ ClockSkew \in Nat /\ Offset \in Nat /\ MaxLag \in Nat
  /\ 2 * ClockSkew < CertValidity

VARIABLES
  wsess,   \* [Sessions -> [at, open, scope, hashes, leaf, listed]]
  wconns,  \* transport.conns: [QuicConns -> the session that accounts for window increases]
  wqueue,  \* listener.queue
  wln,     \* "none", "open", then Close: "cancelled", "unlistened", "closed"; or "panicked"
  wcerts,  \* [once, manager, has]: listenOnce, certManager, hasCertManager
  clock,
  managing,                                \* whether a certificate manager is running
  lastConfig, currentConfig, nextConfig,   \* start times, or NoCert
  fire,                                    \* when the timer fires
  handed                                   \* the last address handed out, a set of at most one

wtVars == <<wsess, wconns, wqueue, wln, wcerts>>
certVars == <<clock, managing, lastConfig, currentConfig, nextConfig, fire, handed>>

NoneYet == "none"

ASSUME SessionAssumption == QuicOf \in [Sessions -> QuicConns] /\ NoneYet \notin Sessions

NoSession ==
  [at |-> NoneYet, open |-> FALSE, scope |-> NoneYet, hashes |-> {}, leaf |-> NoneYet, listed |-> {}]

WtInit ==
  /\ wsess = [s \in Sessions |-> NoSession] /\ wconns = [q \in QuicConns |-> NoneYet]
  /\ wqueue = {} /\ wln = NoneYet
  /\ wcerts = [once |-> FALSE, manager |-> "nil", has |-> FALSE]

\* A step that fails closes the session if there is one, and the caller ends the scope.
FailSession(s) == wsess' = [wsess EXCEPT ![s] = [NoSession EXCEPT !.at = "failed", !.scope = "done"]]
StepSession(s, at) == wsess' = [wsess EXCEPT ![s].at = at]

\* addConn and removeConn go by the QUIC connection.
AddConn(s) == wconns' = [wconns EXCEPT ![QuicOf[s]] = s]
RemoveConn(s) == wconns' = [wconns EXCEPT ![QuicOf[s]] = NoneYet]
Sharing(s) == {r \in Sessions \ {s} : QuicOf[r] = QuicOf[s] /\ wsess[r].at # NoneYet}

----------------------------------------------------------------------------
(* Dial                                                                    *)

\* verifyRawCerts: the last certificate has a SHA-256 hash of the address, is no RSA certificate
\* and is valid, for at most 14 days.
VerifyRawCerts(leaf, sound, hashes) == leaf \in hashes /\ sound

\* The Noise extension of the server must list every hash that was dialled with.
VerifyExtension(hashes, listed) == hashes \subseteq listed

\* Dial: the resource manager may refuse a scope.
DialWithScope(s, hashes) ==
  /\ wsess[s].at = NoneYet /\ Sharing(s) = {}
  /\ \/ wsess' = [wsess EXCEPT ![s].at = "refused"]
     \/ wsess' = [wsess EXCEPT ![s].at = "dialing", ![s].scope = "open", ![s].hashes = hashes]
  /\ UNCHANGED <<wconns, wqueue, wln, wcerts>>

\* dialWithScope, dial: an address without hashes, SetPeer or the QUIC dial with its certificate
\* check ends it.
DialQUIC(s) ==
  /\ wsess[s].at = "dialing"
  /\ \/ FailSession(s)
     \/ /\ wsess[s].hashes # {}
        /\ \E leaf \in Hashes, sound \in BOOLEAN :
             /\ VerifyRawCerts(leaf, sound, wsess[s].hashes)
             /\ wsess' = [wsess EXCEPT ![s].at = "connected", ![s].leaf = leaf]
  /\ UNCHANGED <<wconns, wqueue, wln, wcerts>>

\* dial: the HTTP request for a session.  When it fails nothing closes the QUIC connection.
DialSession(s) ==
  /\ wsess[s].at = "connected"
  /\ \/ wsess' = [wsess EXCEPT ![s].at = "abandoned", ![s].scope = "done"]
     \/ wsess' = [wsess EXCEPT ![s].at = "upgrading", ![s].open = TRUE]
  /\ UNCHANGED <<wconns, wqueue, wln, wcerts>>

\* upgrade: the Noise handshake, in which the server lists its hashes; then the gater, newConn
\* and addConn.
Upgrade(s) ==
  /\ wsess[s].at = "upgrading"
  /\ \/ FailSession(s) /\ UNCHANGED wconns
     \/ \E listed \in SUBSET Hashes :
          /\ wsess[s].open /\ VerifyExtension(wsess[s].hashes, listed)
          /\ wsess' = [wsess EXCEPT ![s].at = "dialled", ![s].listed = listed]
          /\ AddConn(s)
  /\ UNCHANGED <<wqueue, wln, wcerts>>

----------------------------------------------------------------------------
(* Listen and the listener                                                 *)

\* listenOnce: the first Listen creates the manager; hasCertManager is set although it may fail.
ListenOnce ==
  IF wcerts.once THEN UNCHANGED wcerts
  ELSE \E manager \in {"nil", "running"} : wcerts' = [once |-> TRUE, manager |-> manager, has |-> TRUE]

\* Listen: an error of newCertManager or ListenQUIC leaves no listener.
Listen ==
  /\ wln = NoneYet /\ ListenOnce
  /\ \/ wln' = NoneYet
     \/ wln' = "open" /\ (wcerts'.has => wcerts'.manager # "nil")
  /\ UNCHANGED <<wsess, wconns, wqueue>>

\* transport.Close; a Listen that comes later does not create a manager.
CloseTransport ==
  /\ wcerts' = [wcerts EXCEPT !.once = TRUE, !.manager = IF @ = "nil" THEN @ ELSE "closed"]
  /\ UNCHANGED <<wsess, wconns, wqueue, wln>>

\* GetConfigForClient for a client while the QUIC listener is open: a nil manager is dereferenced.
ConfigForClient ==
  /\ wln \in {"open", "cancelled"} /\ wcerts.manager = "nil" /\ wln' = "panicked"
  /\ UNCHANGED <<wsess, wconns, wqueue, wcerts>>

\* httpHandler: a request of another type, from a gated address or over the limits gets no scope.
\* ServeQUICConn handles requests of a connection that was accepted, also when the listener is closed.
HttpHandler(s) ==
  /\ wsess[s].at = NoneYet /\ \A r \in Sharing(s) : wsess[r].hashes = {}
  /\ wln # NoneYet /\ wcerts.manager # "nil"
  /\ \/ wsess' = [wsess EXCEPT ![s].at = "refused"]
     \/ wsess' = [wsess EXCEPT ![s].at = "request", ![s].scope = "open"]
  /\ UNCHANGED <<wconns, wqueue, wln, wcerts>>

\* server.Upgrade of the request.
UpgradeRequest(s) ==
  /\ wsess[s].at = "request"
  /\ FailSession(s) \/ wsess' = [wsess EXCEPT ![s].at = "upgraded", ![s].open = TRUE]
  /\ UNCHANGED <<wconns, wqueue, wln, wcerts>>

\* handshake: the first stream and the Noise handshake on it, within the handshake timeout and the
\* listener's context, which may have ended when a handshake that is complete is looked at.
Handshake(s) ==
  /\ wsess[s].at = "upgraded" /\ (FailSession(s) \/ (wsess[s].open /\ StepSession(s, "secured")))
  /\ UNCHANGED <<wconns, wqueue, wln, wcerts>>

\* InterceptSecured and SetPeer.
AdmitSession(s) ==
  /\ wsess[s].at = "secured" /\ (FailSession(s) \/ StepSession(s, "admitted"))
  /\ UNCHANGED <<wconns, wqueue, wln, wcerts>>

EnqueueKeepsScope(s) ==
  /\ wsess[s].at = "admitted" /\ AddConn(s)
  /\ \/ Cardinality(wqueue) < WtQueueLen /\ wqueue' = wqueue \cup {s} /\ StepSession(s, "queued")
     \/ /\ Cardinality(wqueue) = WtQueueLen /\ UNCHANGED wqueue
        /\ wsess' = [wsess EXCEPT ![s].at = "dropped", ![s].open = FALSE]
  /\ UNCHANGED <<wln, wcerts>>

\* addConn, then the queue; when it is full the session is closed and the scope ends, but the
\* session stays in conns.
Enqueue(s) ==
  /\ wsess[s].at = "admitted" /\ AddConn(s)
  /\ \/ Cardinality(wqueue) < WtQueueLen /\ wqueue' = wqueue \cup {s} /\ StepSession(s, "queued")
     \/ /\ Cardinality(wqueue) = WtQueueLen /\ UNCHANGED wqueue
        /\ wsess' = [wsess EXCEPT ![s].at = "dropped", ![s].open = FALSE, ![s].scope = "done"]
  /\ UNCHANGED <<wln, wcerts>>

\* Accept; once the context has ended it returns a session or errClosed.
AcceptSession(s) ==
  /\ s \in wqueue /\ wqueue' = wqueue \ {s} /\ StepSession(s, "accepted")
  /\ UNCHANGED <<wconns, wln, wcerts>>

\* listener.Close: ctxCancel, the QUIC listener, then the server.  No session is closed: what is
\* queued, or is queued later, stays there.
CloseWtListener ==
  /\ \/ wln = "open" /\ wln' = "cancelled"
     \/ wln = "cancelled" /\ wln' = "unlistened"
     \/ wln = "unlistened" /\ wln' = "closed"
  /\ UNCHANGED <<wsess, wconns, wqueue, wcerts>>

\* The other side closes the session, or its QUIC connection ends.
RemoteCloses(s) ==
  /\ wsess[s].open /\ wsess' = [wsess EXCEPT ![s].open = FALSE]
  /\ UNCHANGED <<wconns, wqueue, wln, wcerts>>

\* conn.Close: the connection leaves conns, whichever session is accounted there, and the session
\* is closed; its scope is not ended.
CloseSession(s) ==
  /\ wsess[s].at \in {"dialled", "accepted"}
  /\ wsess' = [wsess EXCEPT ![s].at = "closed", ![s].open = FALSE] /\ RemoveConn(s)
  /\ UNCHANGED <<wqueue, wln, wcerts>>

SessionStep(s) ==
  \/ \E hashes \in SUBSET Hashes : DialWithScope(s, hashes)
  \/ DialQUIC(s) \/ DialSession(s) \/ Upgrade(s)
  \/ HttpHandler(s) \/ UpgradeRequest(s) \/ Handshake(s) \/ AdmitSession(s) \/ Enqueue(s) \/ AcceptSession(s)
  \/ RemoteCloses(s) \/ CloseSession(s)

WtNext ==
  /\ wln # "panicked"
  /\ \/ Listen \/ CloseTransport \/ ConfigForClient \/ CloseWtListener
     \/ \E s \in Sessions : SessionStep(s)

WtSpec == WtInit /\ [][WtNext]_wtVars

\* Every session that is refused on the way, whichever step refuses it and also when the queue is
\* full, ends closed with its scope done; one that was let through has its scope, also when the listener
\* was closed meanwhile, and, unless a later session or Close of the same QUIC connection took its
\* place, is accounted; a dialled session runs to a server that presented a certificate of the address
\* and lists all of the address's under its own identity; and a listener has no manager to ask for a
\* certificate only when the transport was closed before the first Listen (transport.go, Listen and
\* dialWithScope; listener.go, httpHandler).  It is not said that a closed connection's scope is
\* done (conn.Close does not end it), nor that Close of a listener closes its sessions.
SessionsAccounted ==
  /\ wln = "panicked" => wcerts = [once |-> TRUE, manager |-> "nil", has |-> FALSE]
  /\ \A s \in Sessions :
       /\ wsess[s].at \in {"failed", "abandoned", "dropped"} => wsess[s].scope = "done" /\ ~wsess[s].open
       /\ wsess[s].at = "refused" => wsess[s].scope = NoneYet /\ ~wsess[s].open
       /\ wsess[s].at \in {"queued", "accepted", "dialled"} =>
            /\ wsess[s].scope = "open"
            /\ \/ wconns[QuicOf[s]] = s
               \/ \E r \in Sharing(s) : wsess[r].at \in {"queued", "accepted", "dropped", "closed"}
       /\ wconns[QuicOf[s]] = s => wsess[s].at \in {"queued", "accepted", "dialled", "dropped"}
       /\ (s \in wqueue) <=> (wsess[s].at = "queued")
       /\ wsess[s].at = "closed" => ~wsess[s].open
       /\ wsess[s].at = "dialled" =>
            wsess[s].leaf \in wsess[s].hashes /\ wsess[s].hashes \subseteq wsess[s].listed

----------------------------------------------------------------------------
(* cert_manager.go: the self-signed certificates of the listener.  A        *)
(* certificate is derived from the host key and its start time, so it is    *)
(* modelled by its start time.  The current certificate is replaced by the  *)
(* next one when a timer fires; addresses carry the hashes of both, and a   *)
(* client that dials an address refuses a server that does not list all of  *)
(* its hashes.                                                              *)

NoCert == 0 - 1
Period == CertValidity - 2 * ClockSkew    \* validityMinusTwoSkew

CertStart(c) == c
CertEnd(c) == c + CertValidity

getCurrentBucketStartTime(t) == Offset + ((t - Offset) \div Period) * Period

\* The bucket a manager starts with at time t.
FirstBucket(t) == getCurrentBucketStartTime(t - ClockSkew)

\* The start of the certificate generated when c becomes current.
NextStart(c) == CertEnd(c) - 2 * ClockSkew

\* rollConfig, with what init or the timer found as the next certificate.
RollConfig(last, current) ==
  /\ lastConfig' = last
  /\ currentConfig' = current
  /\ nextConfig' = NextStart(current)
  /\ fire' = CertEnd(current) - ClockSkew

CertsInit ==
  /\ clock = Offset + ClockSkew /\ managing = FALSE
  /\ lastConfig = NoCert /\ currentConfig = NoCert /\ nextConfig = NoCert
  /\ fire = 0
  /\ handed = {}

\* init, and the timer of background.
NewCertManager ==
  /\ ~managing
  /\ managing' = TRUE
  /\ RollConfig(NoCert, FirstBucket(clock))
  /\ UNCHANGED <<clock, handed>>

RollForgets ==
  /\ managing /\ clock >= fire
  /\ RollConfig(NoCert, nextConfig)
  /\ UNCHANGED <<clock, managing, handed>>

\* The timer fires.  When the certificate cannot be made (newCertConfig) nothing changes and the timer
\* is set for a time that is past: this is tried again, for as long as MaxLag allows.
Roll ==
  /\ managing /\ clock >= fire
  /\ RollConfig(currentConfig, nextConfig)
  /\ UNCHANGED <<clock, managing, handed>>

\* Close, or a crash: nothing is stored.
CloseCertManager ==
  /\ managing
  /\ managing' = FALSE
  /\ handed' = {[a EXCEPT !.kept = FALSE] : a \in handed}
  /\ UNCHANGED <<clock, lastConfig, currentConfig, nextConfig, fire>>

\* AddrComponent, as of the last cacheAddrComponent, goes to some client.
AddrComponent ==
  /\ managing
  /\ handed' = {[at |-> clock, certs |-> {currentConfig, nextConfig}, kept |-> TRUE]}
  /\ UNCHANGED <<clock, managing, lastConfig, currentConfig, nextConfig, fire>>

\* SerializedCertHashes, as of the last cacheSerializedCertHashes.
SerializedCertHashes == {lastConfig, currentConfig, nextConfig} \ {NoCert}

CertTick ==
  /\ clock < MaxCertTime
  /\ managing => clock < fire + MaxLag
  /\ clock' = clock + 1
  /\ UNCHANGED <<managing, lastConfig, currentConfig, nextConfig, fire, handed>>

CertsNext == NewCertManager \/ Roll \/ CloseCertManager \/ AddrComponent \/ CertTick

CertsSpec == CertsInit /\ [][CertsNext]_certVars

\* The certificate in use is valid for every client whose clock is off by at
\* most ClockSkew, less the time by which the timer is late.
CurrentValid ==
  managing => /\ CertStart(currentConfig) + ClockSkew <= clock
              /\ clock <= CertEnd(currentConfig) - ClockSkew + MaxLag

\* A server accepts the addresses it handed out for as long as a client may
\* hold on to them: for one period, less the timer's lateness, if it was not
\* restarted since, and until the next change of certificates if it was.
AddressAccepted ==
  \A a \in handed :
    LET b == FirstBucket(a.at)
        fresh == IF a.kept THEN clock + MaxLag < a.at + Period
                 ELSE clock < fire /\ b = FirstBucket(clock) /\ a.certs = {b, NextStart(b)}
    IN managing /\ fresh => a.certs \subseteq SerializedCertHashes

\* The listener can be reached with the certificates it uses and has handed out.
CertsServe == CurrentValid /\ AddressAccepted
=============================================================================
