----------------------- MODULE MCOutstandingRequests -----------------------
(***************************************************************************)
(* OutstandingRequests with one to three requests and few invoke IDs, so  *)
(* that the counter wraps and IDs run out.                                 *)
(***************************************************************************)
EXTENDS OutstandingRequests, TLC

Symmetry == Permutations(Requests) \cup Permutations(Destinations)
=============================================================================
