------------------------------ MODULE MCRouting ------------------------------
(***************************************************************************)
(* Routing on a line of three networks: a station at each end, and two     *)
(* routers that both have the network in the middle, one as its local one. *)
(* Network 4 does not exist.                                               *)
(***************************************************************************)
EXTENDS Routing

CONSTANTS
    a, b, r, q,
    ab, aq, az,         \* messages of station a: to b, to router q, to network 4
    b1, b3, bAll,       \* of station b: to all on network 1, on its own, to everybody
    rb, rAll,           \* of router r: to b, to everybody
    qa,                 \* of router q: to a
    MaxSent,            \* bound: how many of them are sent
    MaxEvents           \* bound: calls, losses and restarts

Networks == [n \in Nodes |-> CASE n = a -> {1} [] n = r -> {1, 2} [] n = q -> {2, 3} [] n = b -> {3}]

Locals == [n \in Nodes |-> CASE n \in {a, r} -> 1 [] n = q -> 2 [] n = b -> 3]

Line == [s \in Nets |-> [d \in Nets |->
            CASE s = d \/ 4 \in {s, d} -> None
              [] s = 1 \/ (s = 2 /\ d = 1) -> r
              [] OTHER -> q]]

\* How many routers are between two networks.
Distances ==
    [s \in Nets |-> [d \in Nets |-> CASE 4 \in {s, d} -> 0 [] s > d -> s - d [] OTHER -> d - s]]

Senders == [m \in Messages |->
               CASE m \in {ab, aq, az} -> a [] m \in {b1, b3, bAll} -> b
                 [] m \in {rb, rAll} -> r [] m = qa -> q]

Targets == [m \in Messages |->
               CASE m \in {ab, rb} -> <<3, b>> [] m = aq -> <<2, q>> [] m = az -> <<4, b>>
                 [] m = b1 -> <<1, All>> [] m \in {bAll, rAll} -> Everywhere
                 [] m = b3 -> <<3, All>> [] m = qa -> <<1, a>>]

Bound ==
    /\ Cardinality({m \in Messages : phase'[m] # "unsent"}) <= MaxSent
    /\ calls' + lost' + Cardinality(restarted') <= MaxEvents

MCSpec == Init /\ [][Next /\ Bound]_vars
=============================================================================
