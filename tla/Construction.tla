---------------------------- MODULE Construction ----------------------------
(***************************************************************************)
(* How a node comes to be (libp2p.go, options.go, defaults.go,             *)
(* config/config.go): options change the configuration one after the      *)
(* other, defaults fill in what none of them set, and NewNode builds the   *)
(* parts in turn.  The first error ends it, and what was built until then  *)
(* is closed or left behind.  A returned node can be closed.               *)
(*                                                                         *)
(* Of the transports the model has TCP and QUIC, which stand for WebSocket *)
(* and WebTransport too, and the circuit transport, which is not an option *)
(* of its own; a listen address is the name of its transport.              *)
(***************************************************************************)
EXTENDS Naturals, Sequences, SequencesExt

CONSTANTS
  Offered,      \* options that users give
  MaxOptions    \* bound of the model

VARIABLES
  conf,         \* Config
  applied,      \* the options that were applied, in order
  phase,        \* where New is
  nextDefault,  \* index into defaults
  running,      \* what has goroutines or resources of its own
  listening,    \* addresses with a listener
  failure       \* what failed

consVars == <<conf, applied, phase, nextDefault, running, listening, failure>>

----------------------------------------------------------------------------
(* Options                                                                 *)

Opt(op, arg) == [op |-> op, arg |-> arg]

\* Options that can be given once, and options that only note that they were given.
Once == {"peerstore", "psk", "reporter", "identity", "connmgr", "addrsfactory", "gater", "rcmgr",
         "natmgr", "routing", "registerer"}
Switches == {"relayservice", "autorelay", "natservice", "holepunching", "metricsoff", "muxers", "resolver"}

\* `some' has the lists that are not nil.
NoConfig == [given |-> {}, transports |-> <<>>, listen |-> <<>>, security |-> <<>>, some |-> {},
             relay |-> FALSE, relayCustom |-> FALSE]

\* The error of an option.  "Bad" is an option that is wrong in itself: an address that does not
\* parse, a constructor that takes no options, a dial timeout that is not positive, no registerer.
Refuses(o, c) ==
  \/ o.op = "Once" /\ o.arg \in c.given
  \/ o = Opt("Once", "registerer") /\ "metricsoff" \in c.given
  \/ o.op = "Security" /\ "insecure" \in c.given
  \/ o.op = "NoSecurity" /\ c.security # <<>>
  \/ o.op = "Bad"

\* EnableRelay, DisableRelay; and NoListenAddrs, which leaves relaying as an option before it set it.
RelaySet(c, on) == [c EXCEPT !.relayCustom = TRUE, !.relay = on]
WithoutListenAddrs(c) == RelaySet([c EXCEPT !.listen = <<>>, !.some = @ \cup {"listen"}], c.relayCustom /\ c.relay)

Applied(c, o) ==
  CASE o.op \in {"Once", "Switch"} -> [c EXCEPT !.given = @ \cup {o.arg}]
    [] o.op = "NoSecurity" -> [c EXCEPT !.given = @ \cup {"insecure"}]
    [] o.op = "Security" -> [c EXCEPT !.security = Append(@, o.arg)]
    [] o.op = "Transport" -> [c EXCEPT !.transports = Append(@, o.arg), !.some = @ \cup {"transports"}]
    [] o.op = "NoTransports" -> [c EXCEPT !.transports = <<>>, !.some = @ \cup {"transports"}]
    [] o.op = "ListenAddrs" -> [c EXCEPT !.listen = Append(@, o.arg), !.some = @ \cup {"listen"}]
    [] o.op = "NoListenAddrs" -> WithoutListenAddrs(c)
    [] o.op = "Relay" -> RelaySet(c, o.arg)

\* What an option brings with it: its maker started it.
Brings(o) == IF o.op = "Once" THEN {o.arg} \cap {"peerstore", "connmgr", "rcmgr"} ELSE {}

DefaultListenAddrs == <<Opt("ListenAddrs", "tcp"), Opt("ListenAddrs", "quic")>>
DefaultTransports == <<Opt("Transport", "tcp"), Opt("Transport", "quic")>>
DefaultPrivateTransports == <<Opt("Transport", "tcp")>>
DefaultSecurity == <<Opt("Security", "noise"), Opt("Security", "tls")>>

\* Defaults whose value has to be made first, which can fail.
Made == {Opt("Once", x) : x \in {"identity", "peerstore", "rcmgr", "connmgr"}}

\* The defaults, in the order in which they are tried, with the condition to fall back on them.
\* The options of a chain do not bear on each other's errors.
defaults ==
  LET nil(l) == l \notin conf.some
      unset(x) == x \notin conf.given
      D(cond, opts) == [fallback |-> cond, opts |-> opts]
  IN << D(nil("transports") /\ nil("listen"), DefaultListenAddrs),
        D(nil("transports") /\ unset("psk"), DefaultTransports),
        D(nil("transports") /\ ~unset("psk"), DefaultPrivateTransports),
        D(unset("muxers"), <<Opt("Switch", "muxers")>>),
        D(unset("insecure") /\ conf.security = <<>>, DefaultSecurity),
        D(unset("identity"), <<Opt("Once", "identity")>>),
        D(unset("peerstore"), <<Opt("Once", "peerstore")>>),
        D(~conf.relayCustom, <<Opt("Relay", TRUE)>>),
        D(unset("rcmgr"), <<Opt("Once", "rcmgr")>>),
        D(unset("connmgr"), <<Opt("Once", "connmgr")>>),
        D(unset("resolver"), <<Opt("Switch", "resolver")>>),
        D(unset("metricsoff") /\ unset("registerer"), <<Opt("Once", "registerer")>>) >>

----------------------------------------------------------------------------
(* Errors                                                                  *)

Fails(at) == phase' = "failed" /\ failure' = at
Goes(to) == phase' = to /\ UNCHANGED failure

\* What BasicHost.Close closes, once; the manager of QUIC's sockets, and the dialer of the AutoNAT
\* service with its peerstore, are nobody's to close.  The swarm closes the circuit client with the
\* other transports.
HostParts == {"natmgr", "connmgr", "observed", "identify", "autonat", "relayservice", "holepunching", "swarm",
              "circuit", "psmanager", "peerstore", "background", "rcmgr"}
FailsClosing(at, more) == Fails(at) /\ running' = (running \ HostParts) \cup more /\ listening' = {}

----------------------------------------------------------------------------
(* Apply, and the defaults                                                 *)

Init ==
  /\ conf = NoConfig /\ applied = <<>> /\ phase = "options" /\ nextDefault = 1
  /\ running = {} /\ listening = {} /\ failure = "none"

Apply(o) ==
  /\ phase = "options" /\ Len(applied) < MaxOptions
  /\ applied' = Append(applied, o)
  /\ IF Refuses(o, conf) THEN Fails("options") /\ UNCHANGED <<conf, running>>
     ELSE Goes("options") /\ conf' = Applied(conf, o) /\ running' = running \cup Brings(o)
  /\ UNCHANGED <<nextDefault, listening>>

\* The options Defaults and FallbackDefaults walk the list; New adds the second one at the end.
ApplyDefaults(o) ==
  /\ phase = "options" /\ (o.op = "Defaults" => Len(applied) < MaxOptions)
  /\ applied' = Append(applied, o)
  /\ Goes(o.op) /\ nextDefault' = 1
  /\ UNCHANGED <<conf, running, listening>>

NextDefault ==
  /\ phase \in {"Defaults", "FallbackDefaults"} /\ nextDefault <= Len(defaults)
  /\ nextDefault' = nextDefault + 1
  /\ LET d == defaults[nextDefault]
         made == UNION {Brings(d.opts[i]) : i \in DOMAIN d.opts}
     IN \/ /\ phase = "FallbackDefaults" /\ ~d.fallback
           /\ UNCHANGED <<conf, phase, running, failure>>
        \/ /\ phase = "Defaults" \/ d.fallback
           /\ ~\E i \in DOMAIN d.opts : Refuses(d.opts[i], conf)
           /\ conf' = FoldLeft(Applied, conf, d.opts) /\ running' = running \cup made
           /\ UNCHANGED <<phase, failure>>
        \/ /\ phase = "Defaults" \/ d.fallback
           /\ \E i \in DOMAIN d.opts : Refuses(d.opts[i], conf)
           /\ Fails("options") /\ running' = running \cup made /\ UNCHANGED conf
        \/ \* it cannot be made
           /\ phase = "Defaults" \/ d.fallback
           /\ d.opts[1] \in Made
           /\ Fails("options") /\ UNCHANGED <<conf, running>>
  /\ UNCHANGED <<applied, listening>>

DefaultsEnd ==
  /\ phase \in {"Defaults", "FallbackDefaults"} /\ nextDefault > Len(defaults)
  /\ Goes(IF phase = "Defaults" THEN "options" ELSE "swarm")
  /\ UNCHANGED <<conf, applied, nextDefault, running, listening>>

NewWithoutDefaults ==
  /\ phase = "options" /\ Goes("swarm")
  /\ UNCHANGED <<conf, applied, nextDefault, running, listening>>

----------------------------------------------------------------------------
(* NewNode                                                                 *)

Has(x) == x \in conf.given
Building(at) == phase = at /\ UNCHANGED <<conf, applied, nextDefault>>

\* Without a private network where the environment forces one, and when the peerstore refuses the keys,
\* there is no swarm either.
MakeSwarm ==
  /\ Building("swarm") /\ UNCHANGED listening
  /\ \/ Has("peerstore") /\ Has("identity") /\ Goes("host") /\ running' = running \cup {"swarm"}
     \/ Fails("swarm") /\ UNCHANGED running

\* The manager of observed addresses works already, which nobody has to close when the hole punching
\* service refuses its options.
NewHost ==
  /\ Building("host") /\ UNCHANGED listening
  /\ \/ /\ Goes("transports")
        /\ running' = running \cup {"observed"} \cup (conf.given \cap {"holepunching", "natmgr", "relayservice"})
     \/ \E made \in {{}} \cup (IF Has("holepunching") THEN {{"observed"}} ELSE {}) :
          Fails("host") /\ running' = (running \ {"swarm"}) \cup made

SecurityNamesDiffer == Has("insecure") \/ IsInjective(conf.security)
WithQUIC == "quic" \in ToSet(conf.transports)

\* QUIC takes no pre-shared key.
Addable == SecurityNamesDiffer /\ IsInjective(conf.transports) /\ ~(Has("psk") /\ WithQUIC)

\* circuitv2.AddTransport, invoked when all other transports are added, listens at once.
Circuit == IF conf.relay THEN {"circuit"} ELSE {}

\* QUIC's socket manager is made before a transport can fail.
AddTransports ==
  /\ Building("transports")
  /\ \/ /\ Addable /\ Goes("listen") /\ listening' = Circuit
        /\ running' = running \cup Circuit \cup (IF WithQUIC THEN {"quicreuse"} ELSE {})
     \/ \E made \in IF WithQUIC /\ SecurityNamesDiffer THEN SUBSET {"quicreuse"} ELSE {{}} :
          FailsClosing("transports", made)

\* One listener is enough.
Listen ==
  /\ Building("listen")
  /\ \/ /\ Goes("routing") /\ UNCHANGED running
        /\ \E opened \in SUBSET (ToSet(conf.listen) \cap ToSet(conf.transports)) :
             listening' = listening \cup opened /\ (conf.listen # <<>> => opened # {})
     \/ conf.listen # <<>> /\ FailsClosing("listen", {})

Routing ==
  /\ Building("routing")
  /\ \/ Goes("autorelay") /\ UNCHANGED <<running, listening>>
     \/ Has("routing") /\ FailsClosing("routing", {})

\* An error of AutoRelay's own options returns without closing the host.
NewAutoRelay ==
  /\ Building("autorelay")
  /\ \/ (Has("autorelay") => conf.relay) /\ Goes("service") /\ UNCHANGED <<running, listening>>
     \/ Has("autorelay") /\ ~conf.relay /\ FailsClosing("autorelay", {})
     \/ Has("autorelay") /\ conf.relay /\ Fails("autorelay options") /\ UNCHANGED <<running, listening>>

\* The dialer of the AutoNAT service: a key and a peerstore, whose errors return without closing the
\* host, a swarm, and the same transports with a socket manager of their own.
NewDialer ==
  LET sockets == IF WithQUIC THEN {"dialer quicreuse"} ELSE {}
  IN /\ Building("service")
     /\ \/ ~Has("natservice") /\ Goes("autonat") /\ UNCHANGED <<running, listening>>
        \/ /\ Has("natservice") /\ Goes("autonat") /\ UNCHANGED listening
           /\ running' = running \cup {"dialer peerstore", "dialer"} \cup sockets
        \/ Has("natservice") /\ Fails("dialer key") /\ UNCHANGED <<running, listening>>
        \/ Has("natservice") /\ \E made \in SUBSET sockets : FailsClosing("dialer", {"dialer peerstore"} \cup made)

NewAutoNAT ==
  /\ Building("autonat")
  /\ \/ Goes("start") /\ running' = running \cup {"autonat"} /\ UNCHANGED listening
     \/ FailsClosing("autonat", {})

Start ==
  /\ Building("start") /\ Goes("up") /\ UNCHANGED listening
  /\ running' = running \cup {"psmanager", "identify", "background"} \cup (conf.given \cap {"autorelay"})

\* The outer host closes AutoRelay first.
Close ==
  /\ Building("up") /\ Goes("closed") /\ listening' = {}
  /\ running' = (running \ {"autorelay"}) \ HostParts

Next ==
  \/ \E o \in Offered : IF o.op = "Defaults" THEN ApplyDefaults(o) ELSE Apply(o)
  \/ ApplyDefaults(Opt("FallbackDefaults", "")) \/ NextDefault \/ DefaultsEnd \/ NewWithoutDefaults
  \/ MakeSwarm \/ NewHost \/ AddTransports \/ Listen \/ Routing \/ NewAutoRelay \/ NewDialer \/ NewAutoNAT
  \/ Start \/ Close

Spec == Init /\ [][Next]_consVars

----------------------------------------------------------------------------
(* Properties.                                                             *)

Configured == phase \notin {"options", "Defaults", "FallbackDefaults", "failed"}
Asked(ops) == SelectSeq(applied, LAMBDA o : o.op \in ops)
WithFallback == Asked({"FallbackDefaults"}) # <<>>

\* Wherever NoListenAddrs stands among the options (options.go), the relay transport, which can be
\* reached through any relay, is as the last explicit option says, and without one it is on only in a
\* node that uses the defaults and was not told to have no addresses.
RelayAsAsked ==
  Configured =>
    LET explicit == Asked({"Relay", "Defaults"})
    IN conf.relay = IF explicit # <<>> THEN Last(explicit).op = "Defaults" \/ Last(explicit).arg = TRUE
                    ELSE WithFallback /\ Asked({"NoListenAddrs"}) = <<>>

\* Connections are unprotected only if NoSecurity was given: a node made with the defaults has security
\* transports or is asked to have none, and with a pre-shared key no transport that would ignore it.
SecuredAsAsked ==
  /\ Configured => /\ Has("insecure") = (Asked({"NoSecurity"}) # <<>>)
                   /\ WithFallback => (Has("insecure") = (conf.security = <<>>))
  /\ phase \in {"up", "closed"} => ~(Has("psk") /\ WithQUIC)

\* What the errors of New leave running (config.go, NewNode): before there is a host, what the options
\* brought; then, but for two errors that return with the node half built and listening, only the
\* sockets of QUIC and the dialer of the AutoNAT service, as Close does.
LeavesNothing ==
  LET brought == {"peerstore", "connmgr", "rcmgr"}
      unowned == {"quicreuse", "dialer quicreuse", "dialer", "dialer peerstore"}
  IN /\ phase = "failed" /\ failure \in {"options", "swarm"} => running \subseteq brought
     /\ phase = "failed" /\ failure = "host" => running \subseteq brought \cup {"observed"}
     /\ phase = "closed" \/ (phase = "failed" /\ failure \notin {"options", "swarm", "host", "autorelay options", "dialer key"})
          => running \subseteq unowned
     /\ phase = "closed" \/ (phase = "failed" /\ failure \notin {"autorelay options", "dialer key"}) => listening = {}

\* A node that is returned listens if it was to listen, for relayed connections exactly if relaying is
\* on, and AutoRelay has the transport it needs.
NodeAsAsked ==
  phase = "up" => /\ conf.listen # <<>> => listening # Circuit
                  /\ (listening \cap {"circuit"} = running \cap {"circuit"}) /\ running \cap {"circuit"} = Circuit
                  /\ Has("autorelay") => "circuit" \in running

ConstructionSound == RelayAsAsked /\ SecuredAsAsked /\ LeavesNothing /\ NodeAsAsked
=============================================================================
