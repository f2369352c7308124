--------------------------- MODULE RouterInfoCache ---------------------------
(***************************************************************************)
(* The routing cache of bacpypes3/netservice.py, class RouterInfoCache: two *)
(* dictionaries that describe one relation from both ends.                 *)
(*                                                                         *)
(*   path_info     (snet, dnet)    -> (router address, status)             *)
(*   router_dnets  (snet, address) -> set of dnets behind that router      *)
(*                                                                         *)
(* A dictionary is a function whose domain is its set of keys.  The        *)
(* methods are coroutines, but none of them suspends on anything but       *)
(* another method of this class, so on the event loop a call is one step.  *)
(***************************************************************************)
EXTENDS FiniteSets

CONSTANTS
    Snets,      \* source networks: the network numbers of the adapters
    Dnets,      \* destination networks
    Routers,    \* addresses of routers
    Statuses,   \* RouterEntryStatus
    Available   \* ROUTER_AVAILABLE

ASSUME CacheAssumption == Available \in Statuses

VARIABLES
    path_info,
    router_dnets

cacheVars == <<path_info, router_dnets>>

CacheTypeOK ==
    /\ DOMAIN path_info \subseteq Snets \X Dnets
    /\ \A k \in DOMAIN path_info : path_info[k] \in Routers \X Statuses
    /\ DOMAIN router_dnets \subseteq Snets \X Routers
    /\ \A k \in DOMAIN router_dnets : router_dnets[k] \in SUBSET Dnets

CacheInit ==
    /\ path_info = [k \in {} |-> <<>>]
    /\ router_dnets = [k \in {} |-> {}]

-----------------------------------------------------------------------------
HasPath(s, d) == <<s, d>> \in DOMAIN path_info

RouterOf(s, d) == path_info[<<s, d>>][1]

HasRouter(s, a) == <<s, a>> \in DOMAIN router_dnets

DnetsOf(s, a) == IF HasRouter(s, a) THEN router_dnets[<<s, a>>] ELSE {}

\* Wrong: nothing is taken from the routers that had the networks.
ViaNone(s, a, ds) == {}

\* The networks of ds whose path leads through router a.
Via(s, a, ds) == {d \in ds : HasPath(s, d) /\ RouterOf(s, d) = a}

\* The networks of ds over which update_path_info and remove_path_info raise
\* RuntimeError: the router the path leads to does not list the network.
Conflicts(s, ds) ==
    {d \in ds : HasPath(s, d) /\ d \notin DnetsOf(s, RouterOf(s, d))}

\* The routers of s whose entry is deleted when ds is taken from them.
Emptied(s, ds) ==
    {a \in Routers : Via(s, a, ds) # {} /\ DnetsOf(s, a) \subseteq Via(s, a, ds)}

(***************************************************************************)
(* update_path_info(snet, address, dnets).  For a router that already has  *)
(* all of these networks nothing changes.  Otherwise the new ones are      *)
(* taken from the routers that had them, which lose their entry with their *)
(* last network, and given to this one as available.                       *)
(***************************************************************************)
UpdatePathInfo(s, a, ds) ==
    LET new == ds \ DnetsOf(s, a)
        gone == {<<s, b>> : b \in Emptied(s, new)}
    IN  IF HasRouter(s, a) /\ new = {}
        THEN UNCHANGED cacheVars
        ELSE /\ Conflicts(s, new) = {}
             /\ router_dnets' =
                    [k \in (DOMAIN router_dnets \ gone) \cup {<<s, a>>} |->
                        IF k = <<s, a>> THEN DnetsOf(s, a) \cup new
                        ELSE IF k[1] = s THEN router_dnets[k] \ Via(s, k[2], new)
                        ELSE router_dnets[k]]
             /\ path_info' =
                    [k \in DOMAIN path_info \cup ({s} \X new) |->
                        IF k \in {s} \X new THEN <<a, Available>>
                        ELSE path_info[k]]

(***************************************************************************)
(* remove_path_info(snet, address): forget a router and its paths.         *)
(***************************************************************************)
RemoveRouter(s, a) ==
    /\ HasRouter(s, a)
    /\ router_dnets' = [k \in DOMAIN router_dnets \ {<<s, a>>} |-> router_dnets[k]]
    /\ path_info' = [k \in DOMAIN path_info \ ({s} \X DnetsOf(s, a)) |-> path_info[k]]

(***************************************************************************)
(* remove_path_info(snet, None, dnets): forget the paths to these          *)
(* networks.  The entry of a router that lost its last network is deleted  *)
(* under the key (snet, None), which no router has: its entry stays, empty.*)
(***************************************************************************)
RemoveDnets(s, ds) ==
    /\ Conflicts(s, ds) = {}
    /\ router_dnets' =
           [k \in DOMAIN router_dnets |->
               IF k[1] = s THEN router_dnets[k] \ Via(s, k[2], ds)
               ELSE router_dnets[k]]
    /\ path_info' = [k \in DOMAIN path_info \ ({s} \X ds) |-> path_info[k]]

(***************************************************************************)
(* update_router_status(snet, address, status): every network of the       *)
(* router gets a path through it with this status.                         *)
(***************************************************************************)
UpdateRouterStatus(s, a, st) ==
    /\ path_info' = [k \in DOMAIN path_info \cup ({s} \X DnetsOf(s, a)) |->
                        IF k \in {s} \X DnetsOf(s, a) THEN <<a, st>>
                        ELSE path_info[k]]
    /\ UNCHANGED router_dnets

\* Wrong: what is known under the old number stays.
CopySource(old, new, routers, ds) ==
    /\ router_dnets' =
           [k \in DOMAIN router_dnets \cup ({new} \X routers) |->
               IF k \in {new} \X routers THEN router_dnets[<<old, k[2]>>]
               ELSE router_dnets[k]]
    /\ path_info' =
           [k \in DOMAIN path_info \cup ({new} \X ds) |->
               IF k \in {new} \X ds THEN path_info[<<old, k[2]>>]
               ELSE path_info[k]]

(***************************************************************************)
(* update_source_network(old_snet, new_snet): the adapter has learned its  *)
(* network number, and what was known under the old number is moved, over  *)
(* whatever is there under the new one: the entries of these routers, and  *)
(* the paths to these networks.                                            *)
(***************************************************************************)
MoveSource(old, new, routers, ds) ==
    /\ router_dnets' =
           [k \in (DOMAIN router_dnets \ ({old} \X routers)) \cup ({new} \X routers) |->
               IF k \in {new} \X routers THEN router_dnets[<<old, k[2]>>]
               ELSE router_dnets[k]]
    /\ path_info' =
           [k \in (DOMAIN path_info \ ({old} \X ds)) \cup ({new} \X ds) |->
               IF k \in {new} \X ds THEN path_info[<<old, k[2]>>]
               ELSE path_info[k]]

\* A path is there to be moved once for every network that is listed.
Movable(old, routers) ==
    /\ \A a \in routers : \A d \in DnetsOf(old, a) : HasPath(old, d)
    /\ \A a, b \in routers : a # b => DnetsOf(old, a) \cap DnetsOf(old, b) = {}

RoutersOf(s) == {a \in Routers : HasRouter(s, a)}

UpdateSourceNetwork(old, new) ==
    /\ old # new
    /\ Movable(old, RoutersOf(old))
    /\ MoveSource(old, new, RoutersOf(old), UNION {DnetsOf(old, a) : a \in RoutersOf(old)})

\* What the methods leave when they raise an exception half way.  A set is gone
\* through in no particular order, so any of the networks without a conflict may
\* have been taken from its router already; the paths are not changed yet.
UpdatePathInfoRaises(s, a, ds) ==
    LET new == ds \ DnetsOf(s, a)
    IN  /\ Conflicts(s, new) # {}
        /\ \E done \in SUBSET (new \ Conflicts(s, new)) :
               router_dnets' =
                   [k \in DOMAIN router_dnets \ {<<s, b>> : b \in Emptied(s, done)} |->
                       IF k[1] = s THEN router_dnets[k] \ Via(s, k[2], done)
                       ELSE router_dnets[k]]
        /\ UNCHANGED path_info

\* The routers in done have been moved, the one after them has a network with no
\* path, or none any more, and some of its other networks have been moved.
UpdateSourceNetworkRaises(old, new) ==
    \E done \in SUBSET RoutersOf(old) : \E a \in RoutersOf(old) \ done :
        LET moved == UNION {DnetsOf(old, b) : b \in done}
            missing == {d \in DnetsOf(old, a) : ~HasPath(old, d) \/ d \in moved}
        IN  /\ old # new
            /\ Movable(old, done)
            /\ missing # {}
            /\ \E ds \in SUBSET (DnetsOf(old, a) \ missing) :
                   MoveSource(old, new, done \cup {a}, moved \cup ds)

\* Nothing is known yet under a network number.
Unused(s) == \A a \in Routers : ~HasRouter(s, a)

(***************************************************************************)
(* The class used as its callers mean to use it: the network number that   *)
(* an adapter learns is new to the cache.                                  *)
(***************************************************************************)
CacheNext ==
    \E s \in Snets :
        \/ \E a \in Routers, ds \in SUBSET Dnets : UpdatePathInfo(s, a, ds)
        \/ \E a \in Routers : RemoveRouter(s, a)
        \/ \E ds \in SUBSET Dnets : RemoveDnets(s, ds)
        \/ \E a \in Routers, st \in Statuses : UpdateRouterStatus(s, a, st)
        \/ \E new \in Snets : Unused(new) /\ UpdateSourceNetwork(s, new)

CacheSpec == CacheInit /\ [][CacheNext]_cacheVars

-----------------------------------------------------------------------------
(***************************************************************************)
(* The two dictionaries describe one relation: a network is listed under a *)
(* router exactly when the path to that network leads to that router.      *)
(* Where it is broken update_path_info and remove_path_info raise          *)
(* RuntimeError, and the early return of update_path_info is wrong.        *)
(***************************************************************************)
Consistent ==
    \A s \in Snets, a \in Routers, d \in Dnets :
        d \in DnetsOf(s, a) <=> (HasPath(s, d) /\ RouterOf(s, d) = a)

=============================================================================
