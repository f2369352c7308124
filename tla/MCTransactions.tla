--------------------------- MODULE MCTransactions ---------------------------
(***************************************************************************)
(* Transactions on small instances: what the constants of the runs are.    *)
(***************************************************************************)
EXTENDS Transactions, TLC

AllOf(n) == [r \in Requests |-> n]

Unsegmented == AllOf(1)
TwoSegments == AllOf(2)
ThreeSegments == AllOf(3)

\* A request in three segments, and one in one piece.
Mixed == [r \in Requests |-> IF r = 1 THEN 3 ELSE 1]

\* A request in three segments, and one in two.
ThreeAndTwo == [r \in Requests |-> IF r = 1 THEN 3 ELSE 2]

\* Two devices that do everything and know each other.
Capable == {[client |-> "segmentedBoth", server |-> "segmentedBoth",
             known |-> TRUE, serverMax |-> 16, clientMax |-> 16]}

\* Devices of which one lacks something: each reason not to send segments.
Lacking ==
    {[client |-> d[1], server |-> d[2], known |-> d[3],
      serverMax |-> d[4], clientMax |-> d[5]] :
        d \in {<<"segmentedReceive", "segmentedBoth", TRUE, 16, 16>>,
               <<"segmentedTransmit", "segmentedBoth", TRUE, 0, 16>>,
               <<"segmentedBoth", "segmentedTransmit", TRUE, 16, 16>>,
               <<"segmentedBoth", "segmentedTransmit", FALSE, 16, 65>>,
               <<"segmentedBoth", "segmentedReceive", TRUE, 16, 0>>,
               <<"segmentedBoth", "segmentedBoth", FALSE, 16, 2>>,
               <<"segmentedBoth", "segmentedBoth", TRUE, 2, 3>>}}

CapableOrLacking == Capable \cup Lacking
=============================================================================
