------------------------------ MODULE Limits -------------------------------
(***************************************************************************)
(* How the resource manager decides: limits, the allowlist, and the memory *)
(* counter of a scope.                                                     *)
(***************************************************************************)
EXTENDS Integers, FiniteSets, Sequences, Folds, Functions

----------------------------------------------------------------------------
(***************************************************************************)
(* Limits.  How the resource manager's limits come about (resource-        *)
(* manager/limit_defaults.go and limit.go): default limits scaled to the   *)
(* memory and the file descriptors of the machine, a partial configuration *)
(* written in code or read from JSON, and the concrete limits built from   *)
(* the two.  All resources of a scope are treated alike, so a scope has    *)
(* one; of the kinds of scope that have limits by name the model has one,  *)
(* the service.                                                            *)
(***************************************************************************)

CONSTANTS
  Names,          \* services with limits of their own
  Explicit,       \* limits that a user writes, 0 among them in JSON
  Bases, Increases,
  Memories, FDs,  \* machines: mebibytes and file descriptors
  MaxInt,
  MaxEdits        \* bound of the model

VARIABLES
  scaling,   \* ScalingLimitConfig: [base, inc: [Kinds -> ], fd, named: [Names -> [on, base, inc]]]
  conc,      \* ConcreteLimitConfig: [lim: [Kinds -> Int], fd, named: [Names -> Int], Absent when there is none]
  cfg,       \* PartialLimitConfig: [def, named]
  machine, edits

limitVars == <<scaling, conc, cfg, machine, edits>>

DefaultLimit == 0
Unlimited == -1
BlockAllLimit == -2
Absent == -3     \* the map has no such key

Kinds == {"service", "conn", "stream"}

NoScaling == [base |-> [k \in Kinds |-> 0], inc |-> [k \in Kinds |-> 0], fd |-> 0,
              named |-> [n \in Names |-> [on |-> FALSE, base |-> 0, inc |-> 0]]]
NoConcrete == [lim |-> [k \in Kinds |-> 0], fd |-> 0, named |-> [n \in Names |-> Absent]]
NoPartial == [def |-> DefaultLimit, named |-> [n \in Names |-> Absent]]

----------------------------------------------------------------------------
(* Scaling                                                                 *)

\* The increase is per gibibyte; up to 128 MiB the base holds.
ScaleBy(base, inc, memory) == base + (inc * (IF memory > 128 THEN memory ELSE 0)) \div 1024

\* FDFraction is one half here; at least the base.
ScaleFD(base, numFD) == IF numFD > 0 /\ numFD \div 2 >= base THEN numFD \div 2 ELSE base

\* Scale: the streams' limit grows by the connections' increase.
IncreaseOf(k) == IF k = "stream" THEN scaling.inc["conn"] ELSE scaling.inc[k]

Scale(memory, numFD) ==
  [lim |-> [k \in Kinds |-> ScaleBy(scaling.base[k], IncreaseOf(k), memory)],
   fd |-> ScaleFD(scaling.fd, numFD),
   named |-> [n \in Names |-> IF scaling.named[n].on
                              THEN ScaleBy(scaling.named[n].base, scaling.named[n].inc, memory) ELSE Absent]]

----------------------------------------------------------------------------
(* Values                                                                  *)

\* LimitVal.Build
BuildVal(l, default) ==
  CASE l = DefaultLimit -> default [] l = Unlimited -> MaxInt [] l = BlockAllLimit -> 0 [] OTHER -> l

\* valueOrBlockAll
ValueUnchanged(n) == n
ValueOrBlockAll(n) == IF n = 0 THEN BlockAllLimit ELSE IF n = MaxInt THEN Unlimited ELSE n

\* MarshalJSON, where a default value is left out, and UnmarshalJSON, which takes a zero for none.
Omitted == "omitted"
Marshal(l) == CASE l = DefaultLimit -> <<Omitted>> [] l = Unlimited -> <<"unlimited">>
                [] l = BlockAllLimit -> <<"blockAll">> [] OTHER -> <<"number", l>>
Unmarshal(t) == CASE t[1] = Omitted -> DefaultLimit [] t[1] = "unlimited" -> Unlimited
                  [] t[1] = "blockAll" -> BlockAllLimit
                  [] t[1] = "number" -> IF t[2] = 0 THEN BlockAllLimit ELSE t[2]

\* ResourceLimits.Apply
ApplyVal(l, l2) == IF l = DefaultLimit THEN l2 ELSE l

----------------------------------------------------------------------------
(* Configurations                                                          *)

\* applyResourceLimitsMap: a name of both takes the other's values, a name of this one alone those of
\* the default limits, a name of the other alone is copied.
ApplyMap(this, other, fallback) ==
  [n \in Names |->
     CASE this[n] # Absent /\ other[n] # Absent -> ApplyVal(this[n], other[n])
       [] this[n] # Absent /\ other[n] = Absent -> ApplyVal(this[n], fallback)
       [] OTHER -> other[n]]

\* PartialLimitConfig.Apply
Apply(c, other) ==
  LET def == ApplyVal(c.def, other.def) IN [def |-> def, named |-> ApplyMap(c.named, other.named, def)]

\* buildMapWithDefault
BuildMap(named, defaults, fallback) ==
  [n \in Names |->
     IF named[n] = Absent THEN defaults[n]
     ELSE BuildVal(named[n], IF defaults[n] # Absent THEN defaults[n] ELSE fallback)]

\* PartialLimitConfig.Build
Build(c, defaults) ==
  LET def == BuildVal(c.def, defaults.lim["service"]) IN
  [defaults EXCEPT !.lim["service"] = def, !.named = BuildMap(c.named, defaults.named, def)]

\* ToPartialLimitConfig
ToPartial(c) ==
  [def |-> ValueOrBlockAll(c.lim["service"]),
   named |-> [n \in Names |-> IF c.named[n] = Absent THEN Absent ELSE ValueOrBlockAll(c.named[n])]]

\* PartialLimitConfig.MarshalJSON: the limits that are all default are left out, but not those of a
\* name; read back by readLimiterConfigFromJSON.
ThroughJSON(c) ==
  [def |-> Unmarshal(Marshal(c.def)),
   named |-> [n \in Names |-> IF c.named[n] = Absent THEN Absent ELSE Unmarshal(Marshal(c.named[n]))]]

\* GetServiceLimits
LimitFor(c, n) == IF c.named[n] = Absent THEN c.lim["service"] ELSE c.named[n]

----------------------------------------------------------------------------
(* A configuration is put together                                         *)

LimitsInit ==
  /\ scaling \in {[NoScaling EXCEPT !.base = [k \in Kinds |-> b], !.fd = b] : b \in Bases}
  /\ conc = NoConcrete /\ cfg = NoPartial /\ machine = [memory |-> 0, fds |-> 0] /\ edits = 0

Edit == edits < MaxEdits /\ edits' = edits + 1

\* The fields are set by hand, and BaseLimitIncrease.Apply fills those that are zero.
SetIncrease(k, i) ==
  /\ Edit /\ scaling' = [scaling EXCEPT !.inc[k] = i] /\ UNCHANGED <<conc, cfg, machine>>

IncreaseApply(i) ==
  /\ Edit /\ scaling' = [scaling EXCEPT !.inc = [k \in Kinds |-> IF @[k] = 0 THEN i ELSE @[k]]]
  /\ UNCHANGED <<conc, cfg, machine>>

BaseApply(b) ==
  /\ Edit /\ scaling' = [scaling EXCEPT !.base = [k \in Kinds |-> IF @[k] = 0 THEN b ELSE @[k]],
                                        !.fd = IF @ = 0 THEN b ELSE @]
  /\ UNCHANGED <<conc, cfg, machine>>

AddServiceLimit(n, b, i) ==
  /\ Edit /\ scaling' = [scaling EXCEPT !.named[n] = [on |-> TRUE, base |-> b, inc |-> i]]
  /\ UNCHANGED <<conc, cfg, machine>>

\* AutoScale, on whatever machine.
AutoScale(memory, fds) ==
  /\ Edit /\ conc' = Scale(memory, fds) /\ machine' = [memory |-> memory, fds |-> fds]
  /\ UNCHANGED <<scaling, cfg>>

Values == Explicit \cup {DefaultLimit, Unlimited, BlockAllLimit, MaxInt}

SetDefault(l) == Edit /\ cfg' = [cfg EXCEPT !.def = l] /\ UNCHANGED <<scaling, conc, machine>>
SetNamed(n, l) == Edit /\ cfg' = [cfg EXCEPT !.named[n] = l] /\ UNCHANGED <<scaling, conc, machine>>

\* A value in a JSON file, zero included.
SetNamedJSON(n, v) ==
  Edit /\ cfg' = [cfg EXCEPT !.named[n] = Unmarshal(<<"number", v>>)] /\ UNCHANGED <<scaling, conc, machine>>

ApplyDefaults == Edit /\ cfg' = Apply(cfg, ToPartial(conc)) /\ UNCHANGED <<scaling, conc, machine>>

ApplyOther(l, n) ==
  /\ Edit /\ cfg' = Apply(cfg, [NoPartial EXCEPT !.def = l, !.named[n] = l])
  /\ UNCHANGED <<scaling, conc, machine>>

\* The built limits become the defaults of another configuration.
BuildAgain == Edit /\ conc' = Build(cfg, conc) /\ cfg' = NoPartial /\ UNCHANGED <<scaling, machine>>

LimitsNext ==
  \/ \E k \in Kinds, i \in Increases : SetIncrease(k, i)
  \/ \E i \in Increases : IncreaseApply(i)
  \/ \E b \in Bases : BaseApply(b) \/ (\E n \in Names, i \in Increases : AddServiceLimit(n, b, i))
  \/ \E memory \in Memories, fds \in FDs : AutoScale(memory, fds)
  \/ \E l \in Values : SetDefault(l) \/ (\E n \in Names : SetNamed(n, l) \/ ApplyOther(l, n))
  \/ \E n \in Names, v \in Explicit \cup {0} : SetNamedJSON(n, v)
  \/ ApplyDefaults \/ BuildAgain

----------------------------------------------------------------------------
\* However a configuration was put together, what it builds does not depend on the way: written to
\* JSON and read back, completed from the defaults first, or built from its own result, every service
\* gets the same limit; a configuration made of concrete limits builds those limits over any
\* defaults; a limit of its own comes before the defaults; and scaling never gives less than the base
\* and never less to a larger machine.
LimitsDecided ==
  LET built == Build(cfg, conc)
      same(a, b) == \A n \in Names : LimitFor(a, n) = LimitFor(b, n) IN
  /\ same(Build(ThroughJSON(cfg), conc), built)
  /\ same(Build(Apply(cfg, ToPartial(conc)), conc), built)
  /\ same(Build(ToPartial(built), NoConcrete), built)
  /\ same(Build(ToPartial(conc), built), [conc EXCEPT !.named = [n \in Names |->
             IF conc.named[n] = Absent /\ built.named[n] # Absent THEN built.named[n] ELSE conc.named[n]]])
  /\ \A n \in Names : cfg.named[n] \in Explicit => LimitFor(built, n) = cfg.named[n]
  /\ \A m \in Memories, f \in FDs, k \in Kinds :
       /\ Scale(m, f).lim[k] >= scaling.base[k] /\ Scale(m, f).fd >= scaling.fd
       /\ \A m2 \in Memories : m <= m2 => Scale(m, f).lim[k] <= Scale(m2, f).lim[k]

\* Not so: the streams' limit grows with the increase configured for streams.
IncreasesHonoured ==
  \A m \in Memories, f \in FDs, k \in Kinds :
    Scale(m, f).lim[k] = ScaleBy(scaling.base[k], scaling.inc[k], m)

----------------------------------------------------------------------------
(***************************************************************************)
(* Allowlist.  The resource manager's allowlist (resource-                 *)
(* manager/allowlist.go): two lists of networks, for every peer and by     *)
(* peer, that a user edits while connections ask whether their address is  *)
(* allowed, first without and later with their peer.  IP addresses have    *)
(* IPBits bits.                                                            *)
(***************************************************************************)

CONSTANTS
  APeers, NoPeer,
  IPBits,
  MaxListed       \* bound of the model: entries

VARIABLES
  allowedNetworks,      \* Seq(network)
  allowedPeerByNetwork, \* [APeers -> Seq(network)]
  added                 \* history: [<<network, peer>> -> how often it was added and not removed]

allowVars == <<allowedNetworks, allowedPeerByNetwork, added>>

IPs == 0..(2^IPBits - 1)

\* A multiaddr: an IP or none, a mask or none, a peer or none.
Multiaddrs == [ip : IPs \cup {-1}, bits : (0..IPBits) \cup {-1}, peer : APeers \cup {NoPeer}]

\* toIPNet: without a mask the network is the address itself; with one it is masked.
Masked(ip, bits) == (ip \div 2^(IPBits - bits)) * 2^(IPBits - bits)
ToIPNet(a) == IF a.bits = -1 THEN <<a.ip, IPBits>> ELSE <<Masked(a.ip, a.bits), a.bits>>

Contains(n, ip) == Masked(ip, n[2]) = n[1]

Nets == {<<Masked(ip, b), b>> : ip \in IPs, b \in 0..IPBits}

AllowlistInit ==
  /\ allowedNetworks = <<>> /\ allowedPeerByNetwork = [p \in APeers |-> <<>>]
  /\ added = [x \in Nets \X (APeers \cup {NoPeer}) |-> 0]

Listed(p) == IF p = NoPeer THEN allowedNetworks ELSE allowedPeerByNetwork[p]

Store(p, list) ==
  IF p = NoPeer THEN allowedNetworks' = list /\ UNCHANGED allowedPeerByNetwork
  ELSE allowedPeerByNetwork' = [allowedPeerByNetwork EXCEPT ![p] = list] /\ UNCHANGED allowedNetworks

Total == FoldFunction(+, 0, added)

\* Add: an address without an IP is refused.
Add(a) ==
  /\ a.ip # -1 /\ Total < MaxListed
  /\ Store(a.peer, Append(Listed(a.peer), ToIPNet(a)))
  /\ added' = [added EXCEPT ![<<ToIPNet(a), a.peer>>] = @ + 1]

\* The last entry equal to the network is overwritten by the last of all, which is cut off.
SwapRemove(list, n) ==
  LET at == {i \in DOMAIN list : list[i] = n} IN
  IF at = {} THEN list
  ELSE LET i == CHOOSE x \in at : \A y \in at : y <= x IN
       SubSeq([list EXCEPT ![i] = list[Len(list)]], 1, Len(list) - 1)

Remove(a) ==
  /\ a.ip # -1 /\ Store(a.peer, SwapRemove(Listed(a.peer), ToIPNet(a)))
  /\ added' = [added EXCEPT ![<<ToIPNet(a), a.peer>>] = IF @ > 0 THEN @ - 1 ELSE 0]

AllowlistNext == \E a \in Multiaddrs : Add(a) \/ Remove(a)

----------------------------------------------------------------------------
HasIP(list, ip) == \E i \in DOMAIN list : Contains(list[i], ip)

\* Allowed, before the peer is known: somebody may use the address.
Allowed(ip) == HasIP(allowedNetworks, ip) \/ \E p \in APeers : HasIP(allowedPeerByNetwork[p], ip)

AllowedPeerAndMultiaddr(p, ip) == HasIP(allowedNetworks, ip) \/ HasIP(allowedPeerByNetwork[p], ip)

\* After any sequence of additions and removals a peer at an address is allowed exactly when a
\* network with the address, for that peer or for all, was added more often than it was removed; and
\* an address is let through before the peer is known exactly when some peer would be.
AllowlistDecides ==
  \A ip \in IPs :
    LET listed(p) == \E n \in Nets : Contains(n, ip) /\ added[<<n, p>>] > 0 IN
    /\ \A p \in APeers : AllowedPeerAndMultiaddr(p, ip) <=> listed(NoPeer) \/ listed(p)
    /\ Allowed(ip) <=> \E p \in APeers : AllowedPeerAndMultiaddr(p, ip)

----------------------------------------------------------------------------
(***************************************************************************)
(* Memory.  The memory counter of a resource scope (checkMemory,           *)
(* reserveMemory and releaseMemory in resource-manager/scope.go) in the    *)
(* arithmetic of machine integers, which wrap around.  The integers of the *)
(* model have fewer bits than int64 and the priorities fewer levels.       *)
(***************************************************************************)

CONSTANTS
  Half,    \* 2^63 in the code: integers are -Half .. Half - 1
  Levels   \* 256 in the code: priorities are 0 .. Levels - 1

VARIABLES memory, limit

memVars == <<memory, limit>>

MaxInt64 == Half - 1
Ints == (0 - Half)..MaxInt64

\* What the machine makes of a result, and its division, which truncates.
Wrap(x) == ((x + Half) % (2 * Half)) - Half
Abs(x) == IF x < 0 THEN 0 - x ELSE x
Quotient(a, b) == IF (a < 0) = (b < 0) THEN Abs(a) \div Abs(b) ELSE 0 - (Abs(a) \div Abs(b))

addInt64WithOverflow(a, b) ==
  LET c == Wrap(a + b) IN [c |-> c, ok |-> (c > a) = (b > 0)]

\* A mutant: a product that changes sign counts as an overflow, others do not.
MulSignOnly(a, b) == LET c == Wrap(a * b) IN [c |-> c, ok |-> (c < 0) = ((a < 0) # (b < 0))]

mulInt64WithOverflow(a, b) ==
  LET c == Wrap(a * b)
  IN [c |-> c, ok |-> \/ a \in {0, 1} \/ b \in {0, 1}
                      \/ a # 0 - Half /\ b # 0 - Half /\ Quotient(c, b) = a]

\* The product is computed again with big integers if it overflows.
threshold(prio) ==
  LET m == mulInt64WithOverflow(1 + prio, limit)
  IN IF m.ok THEN Quotient(m.c, Levels) ELSE ((1 + prio) * limit) \div Levels

checkMemory(rsvp, prio) ==
  /\ rsvp >= 0
  /\ \/ limit = MaxInt64
     \/ LET new == addInt64WithOverflow(memory, rsvp)
        IN new.ok /\ new.c <= threshold(prio)

MemoryInit == memory = 0 /\ limit \in 0..MaxInt64

ReserveMemory(size, prio) ==
  /\ checkMemory(size, prio)
  /\ memory' = Wrap(memory + size)
  /\ UNCHANGED limit

ReleaseMemory(size) ==
  /\ LET left == Wrap(memory - size) IN memory' = IF left < 0 THEN 0 ELSE left
  /\ UNCHANGED limit

MemoryNext == \E size \in Ints :
          \/ \E prio \in 0..(Levels - 1) : ReserveMemory(size, prio)
          \/ size >= 0 /\ ReleaseMemory(size)

----------------------------------------------------------------------------
\* In every state with a limit below MaxInt64, and for every request, the code decides as
\* unbounded integers would: a request is granted if it leaves the use at or below the share
\* (1 + prio) / 256 of the limit.  No overflow grants or refuses anything else.  A limit of MaxInt64
\* means none: nothing is compared and the sum is not checked (scope.go:111-114).
DecidesExactly ==
  limit < MaxInt64 => \A rsvp \in Ints, prio \in 0..(Levels - 1) :
    checkMemory(rsvp, prio) <=>
      rsvp >= 0 /\ (memory + rsvp) * Levels <= (1 + prio) * limit
============================================================================
