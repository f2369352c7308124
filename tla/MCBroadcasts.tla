----------------------------- MODULE MCBroadcasts -----------------------------
(***************************************************************************)
(* Broadcasts on four subnets: A with a BBMD and a normal device, B with a *)
(* BBMD, a normal device and the second foreign device, C with the first,  *)
(* and D with a third BBMD.                                                *)
(***************************************************************************)
EXTENDS Broadcasts

CONSTANTS b1, b2, b3, s1, s2, f1, f2

OnSubnets ==
    [s \in Stations |-> CASE s \in {b1, s1} -> "A" [] s \in {b2, s2, f2} -> "B"
                      [] s \in {b3} -> "D" [] OTHER -> "C"]

AllListed == [b \in BBMDs |-> BBMDs]

BothAtOne == [f \in Foreigns |-> b1]

OneAtEach == [f \in Foreigns |-> IF f = f1 THEN b2 ELSE b1]
=============================================================================
