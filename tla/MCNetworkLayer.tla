--------------------------- MODULE MCNetworkLayer ---------------------------
(***************************************************************************)
(* NetworkLayer on small instances: two network numbers to learn, the      *)
(* second of them one that is also announced as remote, two routers.       *)
(***************************************************************************)
EXTENDS NetworkLayer

CONSTANTS n1, n2, d1, r1, r2, m1, m2

\* Each message is for a network of its own.
OwnNetworks == [m \in Sends |-> IF m = m1 THEN d1 ELSE n2]

\* Bound: a station with two sockets has one message and asks for nothing.
Bound == ~OneSocket => sends'[m2] = NoSend /\ asks' = 0

MCSpec == LayerInit /\ [][LayerNext /\ Bound]_layerVars /\ LayerFairness
=============================================================================
