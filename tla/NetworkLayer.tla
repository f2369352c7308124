---------------------------- MODULE NetworkLayer ----------------------------
(***************************************************************************)
(* The network layer of a station with one adapter (bacpypes3/netservice.py,*)
(* classes NetworkServiceAccessPoint and NetworkServiceElement): it learns *)
(* its network number, it learns the routers to other networks, and it     *)
(* looks for a router when it has a message for a network it has no path   *)
(* to.  The event loop runs callbacks one at a time, first in first out,   *)
(* and what one handler leaves to a task of its own runs after everything  *)
(* that is in the queue already.                                           *)
(***************************************************************************)
EXTENDS RouterInfoCache, SequencesExt, Naturals

CONSTANTS
    Unknown,        \* None, the number of a network that is not known yet
    Sends,          \* messages the application sends, each to a remote network
    Destination,    \* the network of each of them
    MaxAsks,        \* bound: calls of what_is_network_number
    MaxDatagrams    \* bound: datagrams received

ASSUME NetworkAssumption ==
    /\ Unknown \in Snets
    /\ Destination \in [Sends -> Dnets]

VARIABLES
    adapterNet,     \* the network number of the adapter, its key in sap.adapters
    configured,     \* adapterNetConfigured is configured, and not unknown or learned
    sockets,        \* the sockets the adapter receives from
    ready,          \* what the event loop is about to run
    received,       \* how many datagrams have been received
    sends,          \* for each message how far it is and what it has found
    futures,        \* who_is_router_to_network_futures
    asks,           \* how often what_is_network_number has been called
    resolution,     \* what_is_network_number_resolution: the last call, or 0
    answered        \* the calls that have been answered

askVars == <<asks, resolution, answered>>

sendVars == <<sends, futures>>

layerVars ==
    <<cacheVars, adapterNet, configured, sockets, ready, received, sendVars, askVars>>

Numbers == Snets \ {Unknown}

\* The network messages that matter here, and any message from behind a router.
Npdus ==
    [type : {"NetworkNumberIs"}, net : Numbers, configured : BOOLEAN]
    \cup [type : {"IAmRouterToNetwork"}, source : Routers, dnets : SUBSET Dnets \ {{}}]
    \cup [type : {"Routed"}, source : Routers, snet : Dnets]

NoSend == [state |-> "unsent", list |-> <<>>, done |-> FALSE, timer |-> FALSE]

LayerInit ==
    /\ CacheInit
    /\ adapterNet \in Snets
    /\ configured = (adapterNet # Unknown)
    /\ sockets \in {{"local"}, {"local", "broadcast"}}
    /\ ready = <<>>
    /\ received = 0
    /\ sends = [m \in Sends |-> NoSend]
    /\ futures = <<>>
    /\ asks = 0
    /\ resolution = 0
    /\ answered = {}

-----------------------------------------------------------------------------
(***************************************************************************)
(* A socket is read once in a turn of the loop, and the task made for the  *)
(* datagram runs in the next turn, before the socket is read again: there  *)
(* is one such task for each socket.                                       *)
(***************************************************************************)
Receive(s, npdu) ==
    /\ received < MaxDatagrams
    /\ \A k \in 1..Len(ready) : ready[k].run = "datagram" => ready[k].socket # s
    /\ ready' = Append(ready, [run |-> "datagram", socket |-> s, npdu |-> npdu])
    /\ received' = received + 1
    /\ UNCHANGED <<cacheVars, adapterNet, configured, sockets, sendVars, askVars>>

\* The callback at the head of the queue runs, and schedules these.
Runs(kind) == ready # <<>> /\ Head(ready).run = kind

Schedules(callbacks) ==
    /\ ready' = Tail(ready) \o callbacks
    /\ UNCHANGED <<sockets, received>>

RunsNpdu(type) == Runs("datagram") /\ Head(ready).npdu.type = type

-----------------------------------------------------------------------------
\* Somebody waits for the number.  Wrong: it is not looked whether anybody does.
AskedUnlisted == resolution \notin answered

Asked == resolution # 0 /\ resolution \notin answered

(***************************************************************************)
(* NetworkNumberIs.  Someone who asked for the number is given it; if that *)
(* call has been answered and is still listed, set_result raises and that  *)
(* is the end of it.  An adapter whose number is configured keeps it; any  *)
(* other takes this one, and leaves the routing cache to a task.  Its first *)
(* number is learned whatever the message says of it, a later one is as    *)
(* configured as the message says.                                         *)
(***************************************************************************)
NetworkNumberIs ==
    LET npdu == Head(ready).npdu
        n == npdu.net
        Keeps == resolution \in answered \/ configured \/ adapterNet = n
        callback == IF Asked THEN <<[run |-> "resolved", ask |-> resolution]>> ELSE <<>>
    IN  /\ RunsNpdu("NetworkNumberIs")
        /\ answered' = IF Asked THEN answered \cup {resolution} ELSE answered
        /\ UNCHANGED <<cacheVars, sendVars, asks, resolution>>
        /\ \/ /\ Keeps
              /\ Schedules(IF resolution \in answered THEN <<>> ELSE callback)
              /\ UNCHANGED <<adapterNet, configured>>
           \/ /\ ~Keeps
              /\ adapterNet' = n
              /\ configured' = (adapterNet # Unknown /\ npdu.configured)
              /\ Schedules(callback \o <<[run |-> "renumber", old |-> adapterNet, new |-> n]>>)

\* The task: update_source_network.
RenumberCache ==
    /\ Runs("renumber")
    /\ \/ UpdateSourceNetwork(Head(ready).old, Head(ready).new)
       \/ UpdateSourceNetworkRaises(Head(ready).old, Head(ready).new)
    /\ Schedules(<<>>)
    /\ UNCHANGED <<adapterNet, configured, sendVars, askVars>>

\* what_is_network_number, and _resolve_what_is_network_number.
AskNetworkNumber ==
    /\ asks < MaxAsks
    /\ asks' = asks + 1
    /\ resolution' = asks'
    /\ UNCHANGED <<cacheVars, adapterNet, configured, sockets, ready, received, sendVars, answered>>

NetworkNumberResolved ==
    /\ Runs("resolved")
    /\ resolution' = IF resolution = Head(ready).ask THEN 0 ELSE resolution
    /\ Schedules(<<>>)
    /\ UNCHANGED <<cacheVars, adapterNet, configured, sendVars, asks, answered>>

-----------------------------------------------------------------------------
\* process_npdu: a message from behind a router tells the way back, unless it
\* says that it comes from the adapter's own network.
SourceRouting ==
    LET npdu == Head(ready).npdu
    IN  /\ RunsNpdu("Routed")
        /\ \/ npdu.snet = adapterNet /\ UNCHANGED cacheVars
           \/ /\ npdu.snet # adapterNet
              /\ \/ UpdatePathInfo(adapterNet, npdu.source, {npdu.snet})
                 \/ UpdatePathInfoRaises(adapterNet, npdu.source, {npdu.snet})
        /\ Schedules(<<>>)
        /\ UNCHANGED <<adapterNet, configured, sendVars, askVars>>

(***************************************************************************)
(* WhoIsRouterToNetworkFuture.match, for each of the futures in turn: the  *)
(* router is put on the list and the future gets that list as its result.  *)
(* set_result raises when the future is done, the futures after it are not *)
(* looked at, and the router stays on the list.                            *)
(***************************************************************************)
Waits(m, ds) == Destination[m] \in ds

Matching(ds) == {k \in 1..Len(futures) : Waits(futures[k], ds)}

\* The places of those that are given the router: up to the first that is done.
GivenRouter(ds) ==
    {k \in Matching(ds) : \A j \in Matching(ds) : j < k => ~sends[futures[j]].done}

Match(a, ds) ==
    LET given == {futures[k] : k \in GivenRouter(ds)}
        resolved == {k \in GivenRouter(ds) : ~sends[futures[k]].done}
        n == Cardinality(resolved)
    IN  /\ sends' = [m \in Sends |->
                        IF m \in given
                        THEN [sends[m] EXCEPT !.list = Append(@, a), !.done = TRUE]
                        ELSE sends[m]]
        /\ \E nth \in [1..n -> resolved] :
               /\ \A i, j \in 1..n : i < j => nth[i] < nth[j]
               /\ Schedules([k \in 1..(2 * n) |->
                     [run |-> IF k % 2 = 1 THEN "done" ELSE "wakeup",
                      send |-> futures[nth[(k + 1) \div 2]]]])

(***************************************************************************)
(* IAmRouterToNetwork: the cache is told first; when that raises, nobody   *)
(* who is waiting for the router hears of it.                              *)
(***************************************************************************)
IAmRouterToNetwork ==
    LET npdu == Head(ready).npdu
    IN  /\ RunsNpdu("IAmRouterToNetwork")
        /\ \/ /\ UpdatePathInfo(adapterNet, npdu.source, npdu.dnets)
              /\ Match(npdu.source, npdu.dnets)
           \/ /\ UpdatePathInfoRaises(adapterNet, npdu.source, npdu.dnets)
              /\ Schedules(<<>>)
              /\ UNCHANGED sends
        /\ UNCHANGED <<adapterNet, configured, futures, askVars>>

-----------------------------------------------------------------------------
\* A message whose router is looked for.  Wrong: for ever.
LookingForEver == [NoSend EXCEPT !.state = "waiting"]

Looking == [NoSend EXCEPT !.state = "waiting", !.timer = TRUE]

(***************************************************************************)
(* NetworkServiceAccessPoint.indication: a message for the adapter's own   *)
(* network, for one the cache has a path to whatever its status, or for    *)
(* one to look for a router to (who_is_router_to_network).                 *)
(***************************************************************************)
SendToNetwork(m) ==
    LET d == Destination[m]
        Becomes(r) == sends' = [sends EXCEPT ![m] = r]
    IN  /\ sends[m].state = "unsent"
        /\ \/ /\ d = adapterNet \/ HasPath(adapterNet, d)
              /\ Becomes([NoSend EXCEPT !.state = "sent"])
              /\ UNCHANGED futures
           \/ /\ ~(d = adapterNet \/ HasPath(adapterNet, d))
              /\ Becomes(Looking)
              /\ futures' = Append(futures, m)
        /\ UNCHANGED <<cacheVars, adapterNet, configured, sockets, ready, received, askVars>>

\* who_is_router_to_network_timeout; set_result raises when the future is done.
RouterTimeout(m) ==
    /\ sends[m].timer
    /\ sends' = [sends EXCEPT ![m].timer = FALSE, ![m].done = TRUE]
    /\ ready' = IF sends[m].done THEN ready
                ELSE ready \o <<[run |-> "done", send |-> m], [run |-> "wakeup", send |-> m]>>
    /\ UNCHANGED <<cacheVars, adapterNet, configured, sockets, received, futures, askVars>>

Without(s, x) ==
    IF x \in ToSet(s) THEN RemoveAt(s, CHOOSE k \in 1..Len(s) : s[k] = x) ELSE s

\* who_is_router_to_network_done.
RouterFutureDone ==
    LET m == Head(ready).send
    IN  /\ Runs("done")
        /\ futures' = Without(futures, m)
        /\ sends' = [sends EXCEPT ![m].timer = FALSE]
        /\ Schedules(<<>>)
        /\ UNCHANGED <<cacheVars, adapterNet, configured, askVars>>

\* A list to go on with.  Wrong: the two ends of the comparison are mixed up.
NotOne(list) == Len(list) > 1

ExactlyOne(list) == Len(list) = 1

\* indication goes on with the list: UnknownRoute unless there is one router.
SendGoesOn ==
    LET m == Head(ready).send
    IN  /\ Runs("wakeup")
        /\ sends' = [sends EXCEPT ![m].state =
                        IF ExactlyOne(sends[m].list) THEN "sent" ELSE "UnknownRoute"]
        /\ Schedules(<<>>)
        /\ UNCHANGED <<cacheVars, adapterNet, configured, futures, askVars>>

-----------------------------------------------------------------------------
RunReady ==
    \/ NetworkNumberIs
    \/ RenumberCache
    \/ NetworkNumberResolved
    \/ SourceRouting
    \/ IAmRouterToNetwork
    \/ RouterFutureDone
    \/ SendGoesOn

LayerNext ==
    \/ \E s \in sockets, npdu \in Npdus : Receive(s, npdu)
    \/ AskNetworkNumber
    \/ \E m \in Sends : SendToNetwork(m) \/ RouterTimeout(m)
    \/ RunReady

LayerSpec == LayerInit /\ [][LayerNext]_layerVars

\* The event loop runs what is ready and calls what is due.
LayerFairness ==
    /\ WF_layerVars(RunReady)
    /\ \A m \in Sends : WF_layerVars(RouterTimeout(m))

FairLayerSpec == LayerSpec /\ LayerFairness

-----------------------------------------------------------------------------
\* The shape of the state.
LayerTypeOK ==
    /\ CacheTypeOK
    /\ adapterNet \in Snets
    /\ configured \in BOOLEAN
    /\ sockets \subseteq {"local", "broadcast"}
    /\ \A k \in 1..Len(ready) :
           ready[k].run \in {"datagram", "renumber", "resolved", "done", "wakeup"}
    /\ received \in 0..MaxDatagrams
    /\ sends \in [Sends -> [state : {"unsent", "waiting", "sent", "UnknownRoute"},
                            list : Seq(Routers), done : BOOLEAN, timer : BOOLEAN]]
    /\ \A k \in 1..Len(futures) : futures[k] \in Sends
    /\ asks \in 0..MaxAsks
    /\ resolution \in 0..asks
    /\ answered \subseteq 1..asks

\* All datagrams come one after another: the task that a handler leaves runs
\* before the next datagram's.
OneSocket == sockets = {"local"}

(***************************************************************************)
(* With one socket the two dictionaries of the routing cache agree,        *)
(* whatever the handlers do to it and in whatever order their tasks run    *)
(* (process_npdu, IAmRouterToNetwork, NetworkNumberIs).                    *)
(***************************************************************************)
HandlersKeepConsistent == OneSocket => Consistent

(***************************************************************************)
(* Then, once the task that renumbers has run, nothing is known under a    *)
(* number the adapter has not got any more: a path that is found is one of *)
(* the network the adapter is on (NetworkNumberIs, update_source_network). *)
(***************************************************************************)
NothingLeftBehind ==
    OneSocket /\ (\A k \in 1..Len(ready) : ready[k].run # "renumber") =>
        \A s \in Snets \ {adapterNet} : Unused(s) /\ \A d \in Dnets : ~HasPath(s, d)

(***************************************************************************)
(* And a message is not given up for want of a route when a router to its  *)
(* network was heard while it was waiting: the router is in the list       *)
(* (match is "called for each incoming IAmRouterToNetwork").               *)
(***************************************************************************)
HeardRouterIsUsed ==
    OneSocket => \A m \in Sends : sends[m].state = "UnknownRoute" => sends[m].list = <<>>

(***************************************************************************)
(* A message that waits for a router is sent or given up, whatever the     *)
(* handlers in between raise (indication, RouterInfoFuture.timeout).       *)
(***************************************************************************)
EverySendEnds ==
    \A m \in Sends : sends[m].state = "waiting" ~> sends[m].state \in {"sent", "UnknownRoute"}

=============================================================================
