---------------------------- MODULE DialLimiter ----------------------------
(***************************************************************************)
(* The swarm's dial limiter (p2p/net/swarm/limiter.go): every address dial *)
(* takes a token of its peer and, over a transport that consumes file      *)
(* descriptors, an FD token; jobs that find no token wait in two lists.    *)
(*                                                                         *)
(* The loops of freeFDToken and freePeerToken run under dl.lk.  Each       *)
(* iteration is a step here, because the context of a waiting job can be   *)
(* cancelled between two iterations; crit says how far the holder of the   *)
(* mutex has come.                                                         *)
(***************************************************************************)
EXTENDS Integers, Sequences, FiniteSets

CONSTANTS
  Jobs,          \* the dialJobs, each submitted at most once
  Dials,         \* the activeDials of dialSync: one context, one dial worker
  Peers,
  NoJob,         \* no dialJob (nil)
  dialOf,        \* the activeDial a job belongs to: its context and worker
  peerOf,        \* the peer an activeDial dials
  FdJobs,        \* the jobs for which shouldConsumeFd holds
  fdLimit,       \* dialLimiter.fdLimit
  perPeerLimit   \* dialLimiter.perPeerLimit

ASSUME DialAssumption ==
  /\ IsFiniteSet(Jobs) /\ NoJob \notin Jobs
  /\ dialOf \in [Jobs -> Dials]
  /\ peerOf \in [Dials -> Peers]
  /\ FdJobs \subseteq Jobs

\* ConcurrentFdDials = 160 and DefaultPerPeerRateLimit = 8 in the code.
ASSUME LimitAssumption ==
  /\ fdLimit \in Nat \ {0}
  /\ perPeerLimit \in Nat \ {0}

VARIABLES
  phase,              \* activeDial: "idle", "active", "cancelled", "exited"
  stage,              \* where each job is
  fdConsuming,
  waitingOnFd,        \* sequence of jobs
  activePerPeer,
  waitingOnPeerLimit, \* for each peer, a sequence of jobs
  crit                \* the critical section: the loop it is in, the job that
                      \* finished, the job whose peer token was just freed

vars == <<phase, stage, fdConsuming, waitingOnFd, activePerPeer,
          waitingOnPeerLimit, crit>>

Phases == {"idle", "active", "cancelled", "exited"}

\* A job that executeDial runs: dialFunc, then the select that reports the
\* result, then the deferred finishedDial.
Executing == {"dialing", "reporting", "finishing"}

\* "freedFd": finishedDial gave the FD token back and still has the peer token.
Stages == Executing \cup {"new", "waitPeer", "waitFd", "freedFd",
                          "done", "skipped", "cleared"}

Idle == [at |-> "idle", fin |-> NoJob, tok |-> NoJob]

peer(j) == peerOf[dialOf[j]]

\* dialJob.cancelled: the job's context descends from its activeDial's.
Cancelled(j) == phase[dialOf[j]] \in {"cancelled", "exited"}

Init ==
  /\ phase = [d \in Dials |-> "idle"]
  /\ stage = [j \in Jobs |-> "new"]
  /\ fdConsuming = 0
  /\ waitingOnFd = <<>>
  /\ activePerPeer = [p \in Peers |-> 0]
  /\ waitingOnPeerLimit = [p \in Peers |-> <<>>]
  /\ crit = Idle

----------------------------------------------------------------------------
(* The users of the limiter: dialSync and the dial workers it starts.      *)

\* getActiveDial: the map holds one activeDial per peer.
StartDial(d) ==
  /\ phase[d] = "idle"
  /\ \A e \in Dials : peerOf[e] = peerOf[d] => phase[e] # "active"
  /\ phase' = [phase EXCEPT ![d] = "active"]
  /\ UNCHANGED <<stage, fdConsuming, waitingOnFd, activePerPeer,
                 waitingOnPeerLimit, crit>>

\* The last caller of Dial leaves: ad.close() cancels the context and the
\* entry of the map is deleted, whatever the worker and its jobs are doing.
CancelDial(d) ==
  /\ phase[d] = "active"
  /\ phase' = [phase EXCEPT ![d] = "cancelled"]
  /\ UNCHANGED <<stage, fdConsuming, waitingOnFd, activePerPeer,
                 waitingOnPeerLimit, crit>>

\* The worker notices the closed request channel some time later and its
\* deferred clearAllPeerDials drops the peer's waiting list.
ClearAllPeerDials(d) ==
  /\ crit = Idle
  /\ phase[d] = "cancelled"
  /\ phase' = [phase EXCEPT ![d] = "exited"]
  /\ stage' = [j \in Jobs |->
                 IF stage[j] = "waitPeer" /\ peer(j) = peerOf[d]
                 THEN "cleared" ELSE stage[j]]
  /\ waitingOnPeerLimit' = [waitingOnPeerLimit EXCEPT ![peerOf[d]] = <<>>]
  /\ UNCHANGED <<fdConsuming, waitingOnFd, activePerPeer, crit>>

----------------------------------------------------------------------------
(* Taking tokens.                                                          *)

FdLimitReached == fdConsuming >= fdLimit

PeerLimitOffByOne(p) == activePerPeer[p] > perPeerLimit

PeerLimitReached(p) == activePerPeer[p] >= perPeerLimit

AddCheckFdLimit(j) ==
  \/ /\ j \in FdJobs
     /\ FdLimitReached
     /\ waitingOnFd' = Append(waitingOnFd, j)
     /\ stage' = [stage EXCEPT ![j] = "waitFd"]
     /\ UNCHANGED fdConsuming
  \/ /\ j \in FdJobs
     /\ ~FdLimitReached
     /\ fdConsuming' = fdConsuming + 1
     /\ stage' = [stage EXCEPT ![j] = "dialing"]
     /\ UNCHANGED waitingOnFd
  \/ /\ j \notin FdJobs
     /\ stage' = [stage EXCEPT ![j] = "dialing"]
     /\ UNCHANGED <<fdConsuming, waitingOnFd>>

AddCheckPeerLimit(j) ==
  \/ /\ PeerLimitReached(peer(j))
     /\ waitingOnPeerLimit' = [waitingOnPeerLimit EXCEPT ![peer(j)] = Append(@, j)]
     /\ stage' = [stage EXCEPT ![j] = "waitPeer"]
     /\ UNCHANGED <<fdConsuming, waitingOnFd, activePerPeer>>
  \/ /\ ~PeerLimitReached(peer(j))
     /\ activePerPeer' = [activePerPeer EXCEPT ![peer(j)] = @ + 1]
     /\ AddCheckFdLimit(j)
     /\ UNCHANGED waitingOnPeerLimit

\* A worker that has not exited submits a job, even one already cancelled.
AddDialJob(j) ==
  /\ crit = Idle
  /\ stage[j] = "new"
  /\ phase[dialOf[j]] \in {"active", "cancelled"}
  /\ AddCheckPeerLimit(j)
  /\ UNCHANGED <<phase, crit>>

----------------------------------------------------------------------------
(* executeDial, in a goroutine of its own.                                 *)

\* The job is cancelled before dialFunc is called, or dialFunc returns; its
\* context has a timeout, so it always does.
ExecuteDial(j) ==
  /\ stage[j] = "dialing"
  /\ \/ stage' = [stage EXCEPT ![j] = "reporting"]
     \/ Cancelled(j) /\ stage' = [stage EXCEPT ![j] = "finishing"]
  /\ UNCHANGED <<phase, fdConsuming, waitingOnFd, activePerPeer,
                 waitingOnPeerLimit, crit>>

\* The select: the worker takes the result, or the context is done (it is when
\* the worker is gone) and the connection, if there is one, is closed.
ReportResult(j) ==
  /\ stage[j] = "reporting"
  /\ stage' = [stage EXCEPT ![j] = "finishing"]
  /\ UNCHANGED <<phase, fdConsuming, waitingOnFd, activePerPeer,
                 waitingOnPeerLimit, crit>>

----------------------------------------------------------------------------
(* Giving tokens back.  freePeerToken(k) begins by freeing k's token.      *)

\* A mutant: a job skipped by freeFDToken keeps its peer token.
FreePeerTokenOfFinished(k, fin) ==
  /\ activePerPeer' = [activePerPeer EXCEPT ![peer(k)] = IF k = fin THEN @ - 1 ELSE @]
  /\ crit' = [at |-> "freePeer", fin |-> fin, tok |-> k]

FreePeerToken(k, fin) ==
  /\ activePerPeer' = [activePerPeer EXCEPT ![peer(k)] = @ - 1]
  /\ crit' = [at |-> "freePeer", fin |-> fin, tok |-> k]

\* finishedDial takes the lock.
FinishedDial(j) ==
  /\ crit = Idle
  /\ stage[j] = "finishing"
  /\ \/ /\ j \in FdJobs
        /\ fdConsuming' = fdConsuming - 1
        /\ stage' = [stage EXCEPT ![j] = "freedFd"]
        /\ crit' = [at |-> "freeFD", fin |-> j, tok |-> NoJob]
        /\ UNCHANGED activePerPeer
     \/ /\ j \notin FdJobs
        /\ stage' = [stage EXCEPT ![j] = "done"]
        /\ FreePeerToken(j, j)
        /\ UNCHANGED fdConsuming
  /\ UNCHANGED <<phase, waitingOnFd, waitingOnPeerLimit>>

\* freeFDToken leaves its loop; finishedDial goes on to free the peer token.
FreeFDTokenDone ==
  /\ crit.at = "freeFD"
  /\ waitingOnFd = <<>>
  /\ stage' = [stage EXCEPT ![crit.fin] = "done"]
  /\ FreePeerToken(crit.fin, crit.fin)
  /\ UNCHANGED <<phase, fdConsuming, waitingOnFd, waitingOnPeerLimit>>

\* An iteration of freeFDToken that starts the next waiting job and returns.
FreeFDTokenNext ==
  /\ crit.at = "freeFD"
  /\ waitingOnFd # <<>>
  /\ ~Cancelled(Head(waitingOnFd))
  /\ waitingOnFd' = Tail(waitingOnFd)
  /\ fdConsuming' = fdConsuming + 1
  /\ stage' = [stage EXCEPT ![Head(waitingOnFd)] = "dialing",
                            ![crit.fin] = "done"]
  /\ FreePeerToken(crit.fin, crit.fin)
  /\ UNCHANGED <<phase, waitingOnPeerLimit>>

\* An iteration of freeFDToken that skips a cancelled job: it frees the peer
\* token that job holds and continues.
FreeFDTokenSkip ==
  /\ crit.at = "freeFD"
  /\ waitingOnFd # <<>>
  /\ Cancelled(Head(waitingOnFd))
  /\ waitingOnFd' = Tail(waitingOnFd)
  /\ stage' = [stage EXCEPT ![Head(waitingOnFd)] = "skipped"]
  /\ FreePeerToken(Head(waitingOnFd), crit.fin)
  /\ UNCHANGED <<phase, fdConsuming, waitingOnPeerLimit>>

\* freePeerToken returns: to the loop of freeFDToken that called it, or from
\* finishedDial, which releases the lock.
Return == IF crit.tok = crit.fin
          THEN Idle
          ELSE [at |-> "freeFD", fin |-> crit.fin, tok |-> NoJob]

FreePeerTokenDone ==
  /\ crit.at = "freePeer"
  /\ waitingOnPeerLimit[peer(crit.tok)] = <<>>
  /\ crit' = Return
  /\ UNCHANGED <<phase, stage, fdConsuming, waitingOnFd, activePerPeer,
                 waitingOnPeerLimit>>

FreePeerTokenNext ==
  /\ crit.at = "freePeer"
  /\ LET p == peer(crit.tok)
         waitlist == waitingOnPeerLimit[p]
     IN /\ waitlist # <<>>
        /\ ~Cancelled(Head(waitlist))
        /\ waitingOnPeerLimit' = [waitingOnPeerLimit EXCEPT ![p] = Tail(@)]
        /\ activePerPeer' = [activePerPeer EXCEPT ![p] = @ + 1]
        /\ AddCheckFdLimit(Head(waitlist))
  /\ crit' = Return
  /\ UNCHANGED phase

\* A mutant: freePeerToken gives up at the first cancelled job.
FreePeerTokenSkipReturns ==
  /\ crit.at = "freePeer"
  /\ LET p == peer(crit.tok)
         waitlist == waitingOnPeerLimit[p]
     IN /\ waitlist # <<>>
        /\ Cancelled(Head(waitlist))
        /\ waitingOnPeerLimit' = [waitingOnPeerLimit EXCEPT ![p] = Tail(@)]
        /\ stage' = [stage EXCEPT ![Head(waitlist)] = "skipped"]
  /\ crit' = Return
  /\ UNCHANGED <<phase, fdConsuming, waitingOnFd, activePerPeer>>

FreePeerTokenSkip ==
  /\ crit.at = "freePeer"
  /\ LET p == peer(crit.tok)
         waitlist == waitingOnPeerLimit[p]
     IN /\ waitlist # <<>>
        /\ Cancelled(Head(waitlist))
        /\ waitingOnPeerLimit' = [waitingOnPeerLimit EXCEPT ![p] = Tail(@)]
        /\ stage' = [stage EXCEPT ![Head(waitlist)] = "skipped"]
  /\ UNCHANGED <<phase, fdConsuming, waitingOnFd, activePerPeer, crit>>

----------------------------------------------------------------------------
\* The holder of dl.lk; only one of these is enabled at a time.
CritStep ==
  \/ FreeFDTokenDone \/ FreeFDTokenNext \/ FreeFDTokenSkip
  \/ FreePeerTokenDone \/ FreePeerTokenNext \/ FreePeerTokenSkip

Next ==
  \/ \E d \in Dials : StartDial(d) \/ CancelDial(d) \/ ClearAllPeerDials(d)
  \/ \E j \in Jobs : \/ AddDialJob(j) \/ ExecuteDial(j)
                     \/ ReportResult(j) \/ FinishedDial(j)
  \/ CritStep

Spec == Init /\ [][Next]_vars

\* The holder of the lock and the dial goroutines run; dialFunc returns within
\* its timeout and the worker keeps receiving results until its context is
\* done.  Nothing is assumed of the callers that start and cancel dials.
FairSpec ==
  /\ Spec
  /\ WF_vars(CritStep)
  /\ \A j \in Jobs : /\ WF_vars(ExecuteDial(j))
                     /\ WF_vars(ReportResult(j))
                     /\ WF_vars(FinishedDial(j))

----------------------------------------------------------------------------
(* Properties.                                                             *)

\* The counters are never negative: no token is given back twice.
TypeOK ==
  /\ phase \in [Dials -> Phases]
  /\ stage \in [Jobs -> Stages]
  /\ fdConsuming \in Nat
  /\ waitingOnFd \in Seq(Jobs)
  /\ activePerPeer \in [Peers -> Nat]
  /\ waitingOnPeerLimit \in [Peers -> Seq(Jobs)]
  /\ crit \in [at : {"idle", "freeFD", "freePeer"},
              fin : Jobs \cup {NoJob}, tok : Jobs \cup {NoJob}]

FdHolders == {j \in FdJobs : stage[j] \in Executing}

PeerHolders(p) ==
  {j \in Jobs : peer(j) = p /\ stage[j] \in Executing \cup {"freedFd", "waitFd"}}

\* Tokens are neither leaked nor freed twice: fdConsuming counts exactly the FD
\* dials that executeDial still runs, and activePerPeer the peer's running
\* dials and its jobs queued for an FD, through every nesting of freeFDToken
\* and freePeerToken and wherever a cancellation falls between them.
TokenAccounting ==
  /\ fdConsuming = Cardinality(FdHolders)
  /\ \A p \in Peers : activePerPeer[p] = Cardinality(PeerHolders(p))

\* At most perPeerLimit jobs of a peer are dialed or queued for an FD, also while
\* a new dial to the peer overlaps the cancelled jobs of an earlier one.
PeerLimit == \A p \in Peers : Cardinality(PeerHolders(p)) <= perPeerLimit

\* At most fdLimit + 1 dials consume a file descriptor, whatever is dialed again and cancelled.
\* One more than fdLimit, because the freePeerToken inside the loop of freeFDToken may take the
\* token that the loop then hands on to the next job (limiter.go: freeFDToken, freePeerToken).
FdLimitByOne == Cardinality(FdHolders) <= fdLimit + 1

\* No lost wakeup: outside the critical section a job waits only while the
\* tokens it waits for are all taken, so a finishing dial will reach it.
NoIdleToken ==
  crit = Idle =>
    /\ waitingOnFd # <<>> => Cardinality(FdHolders) >= fdLimit
    /\ \A p \in Peers :
         waitingOnPeerLimit[p] # <<>> => Cardinality(PeerHolders(p)) >= perPeerLimit

\* Every waiting job is eventually dialed or dropped: the waiting lists drain
\* as long as dials return.
WaitersServed ==
  \A j \in Jobs : stage[j] \in {"waitPeer", "waitFd"}
                    ~> stage[j] \notin {"waitPeer", "waitFd"}

\* The limiter is, for each peer, a pool of perPeerLimit places with a queue in which
\* nobody overtakes (DialPool): a job submitted while others wait never takes the token
\* that a finishing dial is about to hand on, and a token is handed on to the head.
Pool == INSTANCE DialPool WITH
  poolOf <- [j \in Jobs |-> peer(j)],
  fresh <- {j \in Jobs : stage[j] = "new"},
  waiting <- waitingOnPeerLimit,
  active <- [p \in Peers |-> PeerHolders(p)],
  free <- [p \in Peers |-> perPeerLimit - activePerPeer[p]]

ImplementsPool == Pool!Spec

============================================================================
