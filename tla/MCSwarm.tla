------------------------------ MODULE MCSwarm ------------------------------
(* A small instance of Swarm.  A behaviour either uses both connections and *)
(* no stream, or one connection and both streams, as `part' says.           *)
EXTENDS Swarm

CONSTANTS c1, c2, p1, s1, s2, l1

VARIABLE part

\* Both connections are with one peer.
SamePeer == [c \in Conns |-> p1]

Uses ==
  CASE part = "conns"   -> \A s \in Streams : stream[s] = "none"
    [] part = "streams" -> adding[c2] = "none"

MCInit == Init /\ part \in {"conns", "streams"}
MCNext == Next /\ UNCHANGED part /\ Uses'
MCSpec == MCInit /\ [][MCNext]_<<vars, part>> /\ Fairness

============================================================================
