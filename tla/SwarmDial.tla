----------------------------- MODULE SwarmDial -----------------------------
(***************************************************************************)
(* Dialing one peer (p2p/net/swarm: swarm_dial.go, dial_sync.go,           *)
(* dial_worker.go): callers of dialPeer share an activeDial, whose worker  *)
(* turns their requests into address dials and hands the outcome to every  *)
(* request that waits for it.  When the last caller leaves, the activeDial *)
(* is closed; its worker and address dials wind down on their own while a  *)
(* later caller may already have started the next one.                     *)
(*                                                                         *)
(* An address stands for the connection dialed over it.  The limiter       *)
(* (DialLimiter) appears only as the place where a job may be queued.      *)
(***************************************************************************)
EXTENDS Integers, Sequences, FiniteSets

CONSTANTS
  Callers,       \* calls of dialPeer, each made at most once
  Forced,        \* the callers whose context says WithForceDirectDial
  UseTransient,  \* the callers whose context says WithUseTransient
  Addrs,         \* the peer's addresses
  Proxy,         \* the addresses of a proxy transport (relay addresses)
  Transient,     \* the relay addresses whose connections are transient
  InboundAddrs,  \* the addresses from which the peer may connect to us
  Expensive, Private, FdConsuming,  \* further properties of addresses that rank them
  MaxDials,      \* how many activeDials there can be; one per caller suffices
  LimiterFull    \* whether a job may have to wait for a token of its peer

Gens == 1..MaxDials
NoDial == 0

\* The connections: those dialed by a worker, and inbound ones (dial NoDial).
ConnIds == (Gens \cup {NoDial}) \X Addrs

ASSUME CallerAssumption ==
  /\ IsFiniteSet(Callers) /\ Forced \subseteq Callers /\ UseTransient \subseteq Callers
  /\ MaxDials \in Nat /\ MaxDials >= Cardinality(Callers)
  /\ LimiterFull \in BOOLEAN

ASSUME AddrAssumption ==
  /\ Transient \subseteq Proxy /\ Proxy \subseteq Addrs /\ InboundAddrs \subseteq Addrs
  /\ Expensive \subseteq Addrs /\ Private \subseteq Addrs /\ FdConsuming \subseteq Addrs

VARIABLES
  at,         \* where each caller is in dialPeer
  gen,        \* the activeDial each caller holds
  resch,      \* what has been sent on each caller's response channel
  result,     \* what dialPeer returned
  dials,      \* dialSync.dials: the peer's activeDial, or NoDial
  refCnt,     \* activeDial.refCnt
  closed,     \* activeDial.close was called: context cancelled, reqch closed
  worker,     \* "none", "loop", "trigger" (in the triggerDial case), "exited"
  requests,   \* dialWorker.requests: the callers whose request is pending
  left,       \* pendRequest.addrs: the addresses a request still waits for
  pending,    \* dialWorker.pending: the addrDials
  nextDial,   \* dialWorker.nextDial; triggerDial is ready when it is not empty
  connected,  \* dialWorker.connected
  job,        \* the dial job of each worker and address
  conns,      \* the open connections of the swarm to the peer
  backf,      \* the addresses in backoff
  known       \* the peer's addresses in the peerstore

callerVars == <<at, gen, resch, result>>
syncVars == <<dials, refCnt, closed>>
workerVars == <<worker, requests, left, pending, nextDial, connected, job>>
envVars == <<conns, backf, known>>
vars == <<callerVars, syncVars, workerVars, envVars>>

\* dialResponse: a connection or an error.
Errors == {"dialError", "transientConn", "noAddresses", "gated", "ctxDone"}
ConnResponse(x) == [conn |-> {x}, err |-> "nil"]
ErrResponse(e) == [conn |-> {}, err |-> e]
NoResult == ErrResponse("nil")

NoAddrDial == [st |-> "none", reqs |-> {}, forced |-> FALSE]

Init ==
  /\ at = [c \in Callers |-> "idle"]
  /\ gen = [c \in Callers |-> NoDial]
  /\ resch = [c \in Callers |-> <<>>]
  /\ result = [c \in Callers |-> NoResult]
  /\ dials = NoDial
  /\ refCnt = [g \in Gens |-> 0]
  /\ closed = [g \in Gens |-> FALSE]
  /\ worker = [g \in Gens |-> "none"]
  /\ requests = [g \in Gens |-> {}]
  /\ left = [c \in Callers |-> {}]
  /\ pending = [g \in Gens |-> [a \in Addrs |-> NoAddrDial]]
  /\ nextDial = [g \in Gens |-> {}]
  /\ connected = [g \in Gens |-> FALSE]
  /\ job = [g \in Gens |-> [a \in Addrs |-> "none"]]
  /\ conns = {}
  /\ backf = {}
  /\ known \in SUBSET Addrs

----------------------------------------------------------------------------
(* The connections of the swarm.                                           *)

\* isBetterConn: not transient, then direct; the number of streams and the age
\* decide between the rest.
BestConns ==
  LET rank(x) == IF x[2] \in Transient THEN 2 ELSE IF x[2] \in Proxy THEN 1 ELSE 0
  IN {x \in conns : \A y \in conns : rank(x) <= rank(y)}

\* bestAcceptableConnToPeer: the answers it can give, none if one should dial.
Acceptable(forced, transient) ==
  {IF transient \/ x[2] \notin Transient
   THEN ConnResponse(x) ELSE ErrResponse("transientConn") :
     x \in {x \in BestConns : ~(forced /\ x[2] \in Proxy)}}

----------------------------------------------------------------------------
(* The callers: dialPeer and dialSync.Dial.                                *)

\* dialPeer looks for a connection with the caller's own context, then asks the
\* gater.
DialPeer(c) ==
  /\ at[c] = "idle"
  /\ LET found == Acceptable(c \in Forced, c \in UseTransient)
     IN \/ /\ \E r \in IF found = {} THEN {ErrResponse("gated")} ELSE found :
                result' = [result EXCEPT ![c] = r]
           /\ at' = [at EXCEPT ![c] = "done"]
        \/ /\ found = {}
           /\ at' = [at EXCEPT ![c] = "get"]
           /\ UNCHANGED result
  /\ UNCHANGED <<gen, resch, syncVars, workerVars, envVars>>

JoinActiveDial(c) ==
  /\ gen' = [gen EXCEPT ![c] = dials]
  /\ refCnt' = [refCnt EXCEPT ![dials] = @ + 1]

\* getActiveDial joins the activeDial in the map or starts a new worker.
GetActiveDial(c) ==
  /\ at[c] = "get"
  /\ \/ /\ dials # NoDial
        /\ JoinActiveDial(c)
        /\ UNCHANGED <<dials, worker>>
     \/ /\ dials = NoDial
        /\ \E g \in Gens :
             /\ worker[g] = "none" /\ \A h \in 1..(g - 1) : worker[h] # "none"
             /\ gen' = [gen EXCEPT ![c] = g]
             /\ refCnt' = [refCnt EXCEPT ![g] = 1]
             /\ dials' = g
             /\ worker' = [worker EXCEPT ![g] = "loop"]
  /\ at' = [at EXCEPT ![c] = "send"]
  /\ UNCHANGED <<resch, result, closed, requests, left, pending, nextDial,
                 connected, job, envVars>>

\* The caller's context is done, or its dial timeout expires.
CtxDone(c) ==
  /\ at[c] \in {"send", "wait"}
  /\ at' = [at EXCEPT ![c] = "leave"]
  /\ result' = [result EXCEPT ![c] = ErrResponse("ctxDone")]
  /\ UNCHANGED <<gen, resch, syncVars, workerVars, envVars>>

TakeAnswer(c) ==
  /\ at[c] = "wait"
  /\ resch[c] # <<>>
  /\ at' = [at EXCEPT ![c] = "leave"]
  /\ result' = [result EXCEPT ![c] = Head(resch[c])]
  /\ UNCHANGED <<gen, resch, syncVars, workerVars, envVars>>

\* A mutant: the last caller deletes the activeDial from the map without
\* closing it.
LeaveOpen(c) ==
  /\ at[c] = "leave"
  /\ at' = [at EXCEPT ![c] = "done"]
  /\ refCnt' = [refCnt EXCEPT ![gen[c]] = @ - 1]
  /\ dials' = IF refCnt[gen[c]] = 1 THEN NoDial ELSE dials
  /\ UNCHANGED <<closed, gen, resch, result, workerVars, envVars>>

\* The deferred function of dialSync.Dial: the last caller closes the activeDial
\* and deletes the peer's entry.
Leave(c) ==
  /\ at[c] = "leave"
  /\ at' = [at EXCEPT ![c] = "done"]
  /\ refCnt' = [refCnt EXCEPT ![gen[c]] = @ - 1]
  /\ \/ /\ refCnt[gen[c]] = 1
        /\ closed' = [closed EXCEPT ![gen[c]] = TRUE]
        /\ dials' = NoDial
     \/ /\ refCnt[gen[c]] # 1
        /\ UNCHANGED <<closed, dials>>
  /\ UNCHANGED <<gen, resch, result, workerVars, envVars>>

----------------------------------------------------------------------------
(* The worker: a new request.                                              *)

\* Send r on the response channel of every caller in cs.
Answer(cs, r) == [c \in Callers |-> IF c \in cs THEN Append(resch[c], r) ELSE resch[c]]

addrTier(a) ==
  (IF a \in Proxy THEN 8 ELSE 0) + (IF a \in Expensive THEN 4 ELSE 0)
    + (IF a \in Private THEN 0 ELSE 2) + (IF a \in FdConsuming THEN 1 ELSE 0)

Lowest(S) == {a \in S : \A b \in S : addrTier(a) <= addrTier(b)}

\* The request is answered at once: by a connection, or an error, found in the
\* swarm; by addrsForDial's error; by the connection one of its addresses
\* already has; or because all its addresses have failed before.
AnswerRequest(g, c, addrs) ==
  LET found == Acceptable(c \in Forced, FALSE)
      have == {a \in addrs : pending[g][a].st = "conn"}
  IN /\ \/ \E r \in found : resch' = Answer({c}, r)
        \/ /\ found = {} /\ addrs = {}
           /\ resch' = Answer({c}, ErrResponse("noAddresses"))
        \/ /\ found = {} /\ have # {}
           /\ \E a \in Lowest(have) : resch' = Answer({c}, ConnResponse(<<g, a>>))
        \/ /\ found = {} /\ addrs # {}
           /\ \A a \in addrs : pending[g][a].st = "err"
           /\ resch' = Answer({c}, ErrResponse("dialError"))
     /\ UNCHANGED <<requests, left, pending, nextDial>>

\* A mutant: the request is not added to the dials it joins.
TrackRequestNoJoin(g, c, addrs) ==
  LET todial == {a \in addrs : pending[g][a].st = "none"}
  IN /\ Acceptable(c \in Forced, FALSE) = {}
     /\ \A a \in addrs : pending[g][a].st # "conn"
     /\ \E a \in addrs : pending[g][a].st # "err"
     /\ requests' = [requests EXCEPT ![g] = @ \cup {c}]
     /\ left' = [left EXCEPT ![c] = {a \in addrs : pending[g][a].st # "err"}]
     /\ pending' = [pending EXCEPT ![g] = [a \in Addrs |->
          IF a \in todial THEN [st |-> "pending", reqs |-> {c}, forced |-> c \in Forced]
          ELSE @[a]]]
     /\ nextDial' = [nextDial EXCEPT ![g] = @ \cup todial]
     /\ UNCHANGED resch

\* The request is tracked: it joins the dials of its addresses that are still
\* pending and schedules its new addresses.
TrackRequest(g, c, addrs) ==
  LET todial == {a \in addrs : pending[g][a].st = "none"}
      tojoin == {a \in addrs : pending[g][a].st = "pending"}
  IN /\ Acceptable(c \in Forced, FALSE) = {}
     /\ \A a \in addrs : pending[g][a].st # "conn"
     /\ todial \cup tojoin # {}
     /\ requests' = [requests EXCEPT ![g] = @ \cup {c}]
     /\ left' = [left EXCEPT ![c] = todial \cup tojoin]
     /\ pending' = [pending EXCEPT ![g] = [a \in Addrs |->
          IF a \in todial THEN [st |-> "pending", reqs |-> {c}, forced |-> c \in Forced]
          ELSE IF a \in tojoin THEN [pending[g][a] EXCEPT !.reqs = @ \cup {c}]
          ELSE pending[g][a]]]
     /\ nextDial' = [nextDial EXCEPT ![g] = @ \cup todial]
     /\ UNCHANGED resch

\* The addresses addrsForDial returns; an empty set is its error.
AddrsForDial(c) == IF c \in Forced THEN known \ Proxy ELSE known

\* The worker takes the request from the unbuffered channel.
ReceiveRequest(g, c) ==
  /\ worker[g] = "loop"
  /\ at[c] = "send" /\ gen[c] = g
  /\ at' = [at EXCEPT ![c] = "wait"]
  /\ \/ AnswerRequest(g, c, AddrsForDial(c))
     \/ TrackRequest(g, c, AddrsForDial(c))
  /\ UNCHANGED <<gen, result, syncVars, worker, connected, job, envVars>>

----------------------------------------------------------------------------
(* The worker: starting dials and receiving their results.                 *)

\* The last check for an acceptable connection before a request fails.
LastCheck(forced) ==
  LET found == {r \in Acceptable(forced, FALSE) : r.conn # {}}
  IN IF found = {} THEN {ErrResponse("dialError")} ELSE found

\* dispatchError: the requests that waited only for this address are answered,
\* with a connection that has landed in the meantime if there is one.
DispatchError(g, a, err) ==
  LET hit == pending[g][a].reqs \cap requests[g]
      finished == {c \in hit : left[c] \subseteq {a}}
  IN /\ left' = [c \in Callers |-> IF c \in hit THEN left[c] \ {a} ELSE left[c]]
     /\ \E forced \in LastCheck(TRUE), unforced \in LastCheck(FALSE) :
          resch' = [c \in Callers |->
                      IF c \notin finished THEN resch[c]
                      ELSE Append(resch[c], IF c \in Forced THEN forced ELSE unforced)]
     /\ requests' = [requests EXCEPT ![g] = @ \ finished]
     /\ pending' = [pending EXCEPT ![g][a] =
          IF err = "backoff" THEN NoAddrDial ELSE [@ EXCEPT !.st = "err", !.reqs = {}]]

\* An iteration of the triggerDial case: dialNextAddr for the next address in
\* rank order, with the context of the request that first asked for it.
DialNextAddr(g, a) ==
  /\ worker[g] \in {"loop", "trigger"}
  /\ a \in Lowest(nextDial[g])
  /\ nextDial' = [nextDial EXCEPT ![g] = @ \ {a}]
  /\ worker' = [worker EXCEPT ![g] = IF nextDial[g] = {a} THEN "loop" ELSE "trigger"]
  /\ \/ /\ a \in backf /\ ~pending[g][a].forced
        /\ DispatchError(g, a, "backoff")
        /\ UNCHANGED job
     \/ /\ ~(a \in backf /\ ~pending[g][a].forced)
        /\ \E s \in {"running"} \cup (IF LimiterFull THEN {"queued"} ELSE {}) :
             job' = [job EXCEPT ![g][a] = s]
        /\ UNCHANGED <<requests, left, pending, resch>>
  /\ UNCHANGED <<at, gen, result, syncVars, connected, envVars>>

\* The limiter starts a queued job.
JobStarts(g, a) ==
  /\ job[g][a] = "queued"
  /\ job' = [job EXCEPT ![g][a] = "running"]
  /\ UNCHANGED <<callerVars, syncVars, worker, requests, left, pending, nextDial,
                 connected, envVars>>

\* executeDial: dialAddr returns; a cancelled job may not dial at all.
DialReturns(g, a) ==
  /\ job[g][a] = "running"
  /\ \E r \in {"conn", "err"} \cup (IF closed[g] THEN {"cancelled", "gone"} ELSE {}) :
       job' = [job EXCEPT ![g][a] = r]
  /\ UNCHANGED <<callerVars, syncVars, worker, requests, left, pending, nextDial,
                 connected, envVars>>

\* executeDial: the context is done before the worker takes the result; a
\* connection is closed.
ResultDropped(g, a) ==
  /\ job[g][a] \in {"conn", "err", "cancelled"}
  /\ closed[g]
  /\ job' = [job EXCEPT ![g][a] = "gone"]
  /\ UNCHANGED <<callerVars, syncVars, worker, requests, left, pending, nextDial,
                 connected, envVars>>

\* A connection answers the requests that wait for its address.
DispatchConn(g, a) ==
  LET hit == pending[g][a].reqs \cap requests[g]
  IN /\ resch' = Answer(hit, ConnResponse(<<g, a>>))
     /\ requests' = [requests EXCEPT ![g] = @ \ hit]
     /\ pending' = [pending EXCEPT ![g][a] = [@ EXCEPT !.st = "conn", !.reqs = {}]]

\* The worker receives a connection and adds it to the swarm, which clears the
\* peer's backoffs, or fails to: the gater refuses it, or the swarm is closed.
ReceiveConn(g, a) ==
  /\ worker[g] = "loop"
  /\ job[g][a] = "conn"
  /\ job' = [job EXCEPT ![g][a] = "gone"]
  /\ connected' = [connected EXCEPT ![g] = TRUE]
  /\ \/ /\ conns' = conns \cup {<<g, a>>}
        /\ backf' = {}
        /\ DispatchConn(g, a)
        /\ UNCHANGED <<left>>
     \/ /\ backf' \in {backf, {}}
        /\ DispatchError(g, a, "err")
        /\ UNCHANGED conns
  /\ UNCHANGED <<at, gen, result, syncVars, worker, nextDial, known>>

\* The worker receives an error; a dial that was not cancelled adds a backoff
\* unless this worker has had a connection.
ReceiveError(g, a) ==
  /\ worker[g] = "loop"
  /\ job[g][a] \in {"err", "cancelled"}
  /\ job' = [job EXCEPT ![g][a] = "gone"]
  /\ backf' = IF job[g][a] = "err" /\ ~connected[g] THEN backf \cup {a} ELSE backf
  /\ DispatchError(g, a, "err")
  /\ UNCHANGED <<at, gen, result, syncVars, worker, nextDial, connected, conns, known>>

\* The worker finds reqch closed and returns; the deferred clearAllPeerDials
\* drops whatever jobs are queued for the peer.
WorkerExits(g) ==
  /\ worker[g] = "loop"
  /\ closed[g]
  /\ worker' = [worker EXCEPT ![g] = "exited"]
  /\ job' = [h \in Gens |-> [a \in Addrs |->
               IF job[h][a] = "queued" THEN "cleared" ELSE job[h][a]]]
  /\ UNCHANGED <<callerVars, syncVars, requests, left, pending, nextDial,
                 connected, envVars>>

----------------------------------------------------------------------------
(* The rest of the swarm.                                                  *)

\* addConn for an inbound connection of the peer.
InboundConn(a) ==
  /\ <<NoDial, a>> \notin conns
  /\ conns' = conns \cup {<<NoDial, a>>}
  /\ backf' = {}
  /\ UNCHANGED <<callerVars, syncVars, workerVars, known>>

CloseConn(x) ==
  /\ x \in conns
  /\ conns' = conns \ {x}
  /\ UNCHANGED <<callerVars, syncVars, workerVars, backf, known>>

\* Time passes: the address may be dialed again.
BackoffExpires(a) ==
  /\ a \in backf
  /\ backf' = backf \ {a}
  /\ UNCHANGED <<callerVars, syncVars, workerVars, conns, known>>

\* The peerstore learns an address of the peer.
LearnAddr(a) ==
  /\ a \notin known
  /\ known' = known \cup {a}
  /\ UNCHANGED <<callerVars, syncVars, workerVars, conns, backf>>

Environment ==
  \/ \E a \in InboundAddrs : InboundConn(a)
  \/ \E a \in Addrs : BackoffExpires(a) \/ LearnAddr(a)
  \/ \E x \in ConnIds : CloseConn(x)

\* One goroutine each: a caller inside dialSync.Dial, a worker, an address dial.
CallerStep(c) == GetActiveDial(c) \/ TakeAnswer(c) \/ Leave(c)

WorkerStep(g) ==
  \/ \E c \in Callers : ReceiveRequest(g, c)
  \/ \E a \in Addrs : DialNextAddr(g, a) \/ ReceiveConn(g, a) \/ ReceiveError(g, a)
  \/ WorkerExits(g)

JobStep(g, a) == JobStarts(g, a) \/ DialReturns(g, a) \/ ResultDropped(g, a)

Next ==
  \/ \E c \in Callers : DialPeer(c) \/ CtxDone(c) \/ CallerStep(c)
  \/ \E g \in Gens : WorkerStep(g) \/ \E a \in Addrs : JobStep(g, a)
  \/ Environment

Spec == Init /\ [][Next]_vars

\* The goroutines run, dials return within their timeout and the limiter starts
\* queued jobs.  No caller is assumed to give up, and nothing is assumed of
\* connections, backoffs and the peerstore.
FairSpec ==
  /\ Spec
  /\ \A c \in Callers : WF_vars(CallerStep(c))
  /\ \A g \in Gens : /\ WF_vars(WorkerStep(g))
                      /\ \A a \in Addrs : WF_vars(JobStep(g, a))

----------------------------------------------------------------------------
(* Properties.                                                             *)

Results == {ConnResponse(x) : x \in ConnIds} \cup {ErrResponse(e) : e \in Errors}

\* refCnt is never negative.
TypeOK ==
  /\ at \in [Callers -> {"idle", "get", "send", "wait", "leave", "done"}]
  /\ gen \in [Callers -> Gens \cup {NoDial}]
  /\ \A c \in Callers : \A i \in DOMAIN resch[c] : resch[c][i] \in Results
  /\ result \in [Callers -> Results \cup {NoResult}]
  /\ dials \in Gens \cup {NoDial}
  /\ refCnt \in [Gens -> Nat]
  /\ closed \in [Gens -> BOOLEAN]
  /\ worker \in [Gens -> {"none", "loop", "trigger", "exited"}]
  /\ requests \in [Gens -> SUBSET Callers]
  /\ left \in [Callers -> SUBSET Addrs]
  /\ pending \in [Gens -> [Addrs -> [st : {"none", "pending", "conn", "err"},
                                     reqs : SUBSET Callers, forced : BOOLEAN]]]
  /\ nextDial \in [Gens -> SUBSET Addrs]
  /\ connected \in [Gens -> BOOLEAN]
  /\ job \in [Gens -> [Addrs -> {"none", "queued", "running", "conn", "err",
                                 "cancelled", "gone", "cleared"}]]
  /\ conns \subseteq ConnIds
  /\ backf \subseteq Addrs
  /\ known \subseteq Addrs

Holders(g) == {c \in Callers : at[c] \in {"send", "wait", "leave"} /\ gen[c] = g}

\* "at most one dial to any given peer is active at any given time": the
\* activeDial in the map is the only one that has callers, refCnt counts them,
\* and every other activeDial ever started has been closed.  So no caller sends
\* its request on a closed channel, which would panic, however others leave.
OneActiveDial ==
  \A g \in Gens :
    /\ refCnt[g] = Cardinality(Holders(g))
    /\ dials = g <=> refCnt[g] > 0
    /\ closed[g] <=> worker[g] # "none" /\ refCnt[g] = 0

\* The response channel holds one answer and nobody reads a second one: the
\* worker would block for good if it answered a request twice.
AnswerOnce == \A c \in Callers : Len(resch[c]) <= 1

\* The addresses the worker has still to start or hear of.
InFlight(g) == nextDial[g] \cup
  {a \in Addrs : job[g][a] \in {"queued", "running", "conn", "err", "cancelled"}}

\* The worker never "unexpectedly" misses the addrDial of an address it
\* scheduled or of a result it receives, and that addrDial is unfinished.
NoMissingAddrDial ==
  /\ TypeOK
  /\ \A g \in Gens : \A a \in InFlight(g) : pending[g][a].st = "pending"

\* Callers share a dial soundly: a peer has one active dial at a time and nothing is
\* sent on the channel of one that is over; a request is answered at most once; and the
\* worker has the unfinished addrDial of every address it schedules or hears of
\* (dial_sync.go: getActiveDial, close; dial_worker.go: loop, dispatchError).
DialsShared == OneActiveDial /\ AnswerOnce /\ NoMissingAddrDial

\* Dial "waits for the dial to that peer to complete": a caller whose request
\* the worker took gets an answer without its context having to expire.
CallersAnswered == \A c \in Callers : at[c] = "wait" ~> at[c] # "wait"

\* The same as long as no clearAllPeerDials takes a job from the limiter.
AnsweredUnlessCleared ==
  \A c \in Callers :
    at[c] = "wait"
      ~> at[c] # "wait" \/ \E g \in Gens, a \in Addrs : job[g][a] = "cleared"

\* Nothing leaks: when the last caller has left, the worker exits and the
\* result of every address dial is taken or dropped.
DialWindsDown ==
  \A g \in Gens : worker[g] # "none" /\ refCnt[g] = 0
                    ~> /\ worker[g] = "exited"
                       /\ \A a \in Addrs : job[g][a] \in {"none", "gone", "cleared"}
============================================================================
