------------------------------- MODULE Routing -------------------------------
(***************************************************************************)
(* An internetwork of BACpypes3 devices (bacpypes3/netservice.py): stations *)
(* with one adapter, routers with several, each device with its routing    *)
(* cache.  Messages of the applications are broadcast, handed to the next  *)
(* router or given up; routers are looked for, answer, and pass answers    *)
(* on.  A handler runs to its end before the next datagram is looked at.   *)
(*                                                                         *)
(* Of the cache, what is asked of it is here: the router to a network from *)
(* an adapter (RouterInfoCache has the two dictionaries behind it).  The   *)
(* numbers of the networks are configured (NetworkLayer has them learned). *)
(***************************************************************************)
EXTENDS Naturals, Sequences, FiniteSets, Bags

CONSTANTS
    Nets,           \* network numbers
    Nodes,          \* devices; a device is also its address on each of its networks
    on,             \* the networks of a device, the keys of sap.adapters
    local,          \* the network of its local adapter
    Way,            \* Way[s][d]: the one router on network s that leads to d, or None
    None,           \* no router, no address, no network in particular
    All,            \* every device, every network
    Messages,       \* what the applications send
    Sender,         \* the device of each message
    Target,         \* its destination: <<network, device or All>>, or <<All, All>>
    HopCount,       \* 255
    Distance,       \* the number of routers between two networks
    MaxCalls,       \* bound: announcements and questions nobody asked for
    MaxLost,        \* bound: datagrams that are lost
    MaxRestarts     \* bound: devices that are restarted, each once

Everywhere == <<All, All>>

(***************************************************************************)
(* Between two networks there is one way: a router leads to each of its    *)
(* networks from the others, and whatever some other router on one of them *)
(* leads to, it leads to from the rest.                                    *)
(***************************************************************************)
ASSUME RoutingAssumption ==
    /\ None \notin Nodes \cup Nets \cup (Nets \X (Nodes \cup {All})) \cup {Everywhere}
    /\ All \notin Nodes \cup Nets \cup {None}
    /\ on \in [Nodes -> SUBSET Nets] /\ local \in [Nodes -> Nets]
    /\ \A n \in Nodes : local[n] \in on[n]
    /\ Way \in [Nets -> [Nets -> Nodes \cup {None}]]
    /\ Sender \in [Messages -> Nodes]
    /\ Target \in [Messages -> (Nets \X (Nodes \cup {All})) \cup {Everywhere}]
    /\ HopCount \in Nat

ASSUME TreeAssumption ==
    /\ \A s \in Nets : Way[s][s] = None
    /\ \A n \in Nodes : \A s, t \in on[n] : s # t =>
           /\ Way[s][t] = n
           /\ \A d \in Nets \ {s, t} : Way[s][d] \notin {n, None} => Way[t][d] = n

(***************************************************************************)
(* A router that leads to a network is on the way there, all devices can   *)
(* reach each other, and no way has more routers than a message may pass.  *)
(***************************************************************************)
ASSUME ReachAssumption ==
    /\ IsFiniteSet(Nets)
    /\ Distance \in [Nets -> [Nets -> 0..HopCount]]
    /\ \A s, d \in Nets : Way[s][d] # None =>
           /\ s \in on[Way[s][d]]
           /\ \E t \in on[Way[s][d]] :
                  /\ Distance[t][d] < Distance[s][d]
                  /\ t = d \/ Way[t][d] \notin {None, Way[s][d]}
    /\ \A n, p \in Nodes : local[n] = local[p] \/ Way[local[n]][local[p]] # None

VARIABLES
    path,           \* the router of a device to a network from one of its adapters
    wire,           \* the datagrams under way, a bag: each for one receiver
    phase,          \* how far a message is with its sender
    given,          \* the sources under which a device was given a message
    \* What has happened so far, to bound it and to state properties.
    calls,
    lost,
    restarted,
    dropped,        \* messages that a router had no path for
    late            \* messages given up while there were datagrams under way

history == <<calls, lost, restarted, dropped, late>>

vars == <<path, wire, phase, given, history>>

NoPaths == [s \in Nets |-> [d \in Nets |-> None]]

Init ==
    /\ path = [n \in Nodes |-> NoPaths]
    /\ wire = EmptyBag
    /\ phase = [m \in Messages |-> "unsent"]
    /\ given = [m \in Messages |-> [n \in Nodes |-> <<>>]]
    /\ calls = 0
    /\ lost = 0
    /\ restarted = {}
    /\ dropped = {}
    /\ late = {}

-----------------------------------------------------------------------------
\* NPDUs: a message, Who-Is-Router-To-Network and I-Am-Router-To-Network.
Apdu(m, sadr, dadr, hops) ==
    [type |-> "apdu", msg |-> m, sadr |-> sadr, dadr |-> dadr, hops |-> hops]

WhoIs(sadr, dnet) == [type |-> "who", sadr |-> sadr, dnet |-> dnet]

IAm(dnets) == [type |-> "iam", sadr |-> None, dnets |-> dnets]

\* What a device puts on one of its networks, for a device on it or all of them.
Transmit(n, s, x, npdu) ==
    {[net |-> s, from |-> n, to |-> y, npdu |-> npdu] :
        y \in {y \in Nodes \ {n} : s \in on[y] /\ x \in {y, All}}}

OnAll(n, nets, npdu) == UNION {Transmit(n, s, All, npdu) : s \in nets}

\* A device is done with these datagrams and sends those.
Exchange(taken, sent) == wire' = (wire (-) SetToBag(taken)) (+) SetToBag(sent)

-----------------------------------------------------------------------------
IsRouter(n) == Cardinality(on[n]) > 1

\* The networks of a device from which its cache has a path to network d.
Ways(paths, n, d) == {s \in on[n] : paths[s][d] # None}

\* The first of the adapters, in the order they were bound, that has one.
FirstWay(paths, n, d) == CHOOSE s \in Ways(paths, n, d) : TRUE

\* update_path_info: on s, router f leads to these networks.
Learned(n, s, f, dnets) ==
    [path[n] EXCEPT ![s] = [d \in Nets |-> IF d \in dnets THEN f ELSE path[n][s][d]]]

\* An NPDU may not claim to come from a network of the device itself.
Spoofs(n, npdu) == npdu.sadr # None /\ npdu.sadr[1] \in on[n]

\* process_npdu, source routing: the way back to where the NPDU comes from.
SourceLearned(n, s, f, npdu) ==
    IF npdu.sadr = None \/ Spoofs(n, npdu) THEN path[n]
    ELSE Learned(n, s, f, {npdu.sadr[1]})

\* Where an NPDU comes from.  Wrong: always the device that sent the datagram.
LastHop(s, f, npdu) == <<s, f>>

Origin(s, f, npdu) == IF npdu.sadr = None THEN <<s, f>> ELSE npdu.sadr

-----------------------------------------------------------------------------
(***************************************************************************)
(* who_is_router_to_network: the question goes out on every adapter.       *)
(***************************************************************************)
Question(n, dnet) == OnAll(n, on[n], WhoIs(None, dnet))

(***************************************************************************)
(* indication: what a device sends for a message.  On its local network it *)
(* needs no source, on another of its networks it is made to look routed.  *)
(* To a network beyond, it goes to the router without one.                 *)
(***************************************************************************)
SourceOn(n, s) == IF s = local[n] THEN None ELSE <<local[n], n>>

ToEverybody(m, n) ==
    UNION {Transmit(n, s, All, Apdu(m, SourceOn(n, s), Everywhere, HopCount)) : s \in on[n]}

ToNetwork(m, n, s) ==
    Transmit(n, s, Target[m][2], Apdu(m, SourceOn(n, s), None, HopCount))

ToRouter(m, n, s, router) == Transmit(n, s, router, Apdu(m, None, Target[m], HopCount))

\* A message becomes this, and these datagrams are sent for it.
Becomes(m, p, sent) ==
    /\ phase[m] = "unsent"
    /\ phase' = [phase EXCEPT ![m] = p]
    /\ Exchange({}, sent)
    /\ UNCHANGED <<path, given, history>>

SendToAll(m) ==
    /\ Target[m] = Everywhere
    /\ Becomes(m, "sent", ToEverybody(m, Sender[m]))

SendDirectly(m) ==
    LET d == Target[m][1]
    IN  /\ d \in on[Sender[m]]
        /\ Becomes(m, "sent", ToNetwork(m, Sender[m], d))

SendToRouter(m) ==
    LET n == Sender[m]
        d == Target[m][1]
    IN  /\ Target[m] # Everywhere /\ d \notin on[n]
        /\ Ways(path[n], n, d) # {}
        /\ LET s == FirstWay(path[n], n, d)
           IN  Becomes(m, "sent", ToRouter(m, n, s, path[n][s][d]))

LookForRouter(m) ==
    LET n == Sender[m]
        d == Target[m][1]
    IN  /\ Target[m] # Everywhere /\ d \notin on[n]
        /\ Ways(path[n], n, d) = {}
        /\ Becomes(m, "looking", Question(n, d))

\* Nobody answered: UnknownRoute.
TimeOut(m) ==
    /\ phase[m] = "looking"
    /\ phase' = [phase EXCEPT ![m] = "unknown"]
    /\ late' = IF wire = EmptyBag THEN late ELSE late \cup {m}
    /\ UNCHANGED <<path, wire, given, calls, lost, restarted, dropped>>

-----------------------------------------------------------------------------
(***************************************************************************)
(* process_npdu: where a message is meant for this device, and whether it  *)
(* is passed on.  One that comes from the network it is for has strayed.   *)
(***************************************************************************)
Strayed(s, npdu) == npdu.dadr \notin {None, Everywhere} /\ npdu.dadr[1] = s

Accepted(n, s, npdu) == ~Spoofs(n, npdu) /\ ~Strayed(s, npdu)

\* Wrong: what has no destination is taken from any adapter.
ProcessAlways(n, s, npdu) ==
    npdu.dadr \in {None, Everywhere, <<local[n], All>>, <<local[n], n>>}

ProcessLocally(n, s, npdu) ==
    \/ npdu.dadr = None /\ s = local[n]
    \/ npdu.dadr \in {Everywhere, <<local[n], All>>, <<local[n], n>>}

ForwardMessage(n, npdu) ==
    /\ npdu.dadr \notin {None, <<local[n], n>>}
    /\ IsRouter(n)
    /\ npdu.hops # 0

\* It is for a network beyond, and the router has no path to that.
MustLook(n, npdu, paths) ==
    /\ ForwardMessage(n, npdu)
    /\ npdu.dadr # Everywhere
    /\ npdu.dadr[1] \notin on[n]
    /\ Ways(paths, n, npdu.dadr[1]) = {}

\* The adapters but for the one something came from.  Wrong: on all of them.
AllAdapters(n, s) == on[n]

OtherAdapters(n, s) == on[n] \ {s}

(***************************************************************************)
(* What is sent on: to all other networks; to the network it is for; to    *)
(* the router to that, though not back; or a question.  When the question  *)
(* is answered the handler raises AttributeError, a tuple has no pduSource, *)
(* so the message ends there.                                              *)
(***************************************************************************)
Forwarded(n, s, f, npdu, paths) ==
    LET next == [npdu EXCEPT !.sadr = Origin(s, f, npdu), !.hops = npdu.hops - 1]
        d == npdu.dadr[1]
        way == FirstWay(paths, n, d)
    IN  IF ~ForwardMessage(n, npdu) THEN {}
        ELSE IF npdu.dadr = Everywhere THEN OnAll(n, OtherAdapters(n, s), next)
        ELSE IF d \in on[n] THEN Transmit(n, d, npdu.dadr[2], [next EXCEPT !.dadr = None])
        ELSE IF MustLook(n, npdu, paths) THEN Question(n, d)
        ELSE IF way = s THEN {}
        ELSE Transmit(n, way, paths[way][d], next)

ReceiveApdu(g) ==
    LET n == g.to
        s == g.net
        npdu == g.npdu
        paths == SourceLearned(n, s, g.from, npdu)
        accepted == Accepted(n, s, npdu)
    IN  /\ npdu.type = "apdu"
        /\ path' = [path EXCEPT ![n] = paths]
        /\ given' = IF accepted /\ ProcessLocally(n, s, npdu)
                    THEN [given EXCEPT ![npdu.msg][n] = Append(@, Origin(s, g.from, npdu))]
                    ELSE given
        /\ Exchange({g}, IF accepted THEN Forwarded(n, s, g.from, npdu, paths) ELSE {})
        /\ dropped' = IF accepted /\ MustLook(n, npdu, paths)
                      THEN dropped \cup {npdu.msg} ELSE dropped
        /\ UNCHANGED <<phase, calls, lost, restarted, late>>

-----------------------------------------------------------------------------
\* A router leads from s to network d: one of its others, or one it has a path to
\* over another.
LeadsFrom(n, s, d, paths) ==
    IF d \in on[n] THEN d # s
    ELSE Ways(paths, n, d) # {} /\ FirstWay(paths, n, d) # s

(***************************************************************************)
(* WhoIsRouterToNetwork: a router answers if it leads there, keeps quiet   *)
(* if the way is over the network the question came from, and asks on if   *)
(* it does not know.                                                       *)
(***************************************************************************)
Answers(n, s, f, npdu, paths) ==
    LET d == npdu.dnet
    IN  IF ~IsRouter(n) THEN {}
        ELSE IF d = None THEN Transmit(n, s, f, IAm(OtherAdapters(n, s)))
        ELSE IF LeadsFrom(n, s, d, paths) THEN Transmit(n, s, f, IAm({d}))
        ELSE IF d \in on[n] \/ Ways(paths, n, d) # {} THEN {}
        ELSE OnAll(n, OtherAdapters(n, s), WhoIs(Origin(s, f, npdu), d))

ReceiveWhoIs(g) ==
    LET n == g.to
        s == g.net
        paths == SourceLearned(n, s, g.from, g.npdu)
    IN  /\ g.npdu.type = "who"
        /\ path' = [path EXCEPT ![n] = paths]
        /\ Exchange({g}, IF Spoofs(n, g.npdu) THEN {}
                         ELSE Answers(n, s, g.from, g.npdu, paths))
        /\ UNCHANGED <<phase, given, history>>

\* What a router passes on of an announcement.  Wrong: nothing.
Unannounced(n, s, dnets) == {}

Announced(n, s, dnets) ==
    IF IsRouter(n) THEN OnAll(n, OtherAdapters(n, s), IAm(dnets)) ELSE {}

\* The messages of a device that wait for a router to one of these networks.
Waiting(n, dnets) ==
    {m \in Messages : phase[m] = "looking" /\ Sender[m] = n /\ Target[m][1] \in dnets}

(***************************************************************************)
(* IAmRouterToNetwork: the cache is told, a router tells its other         *)
(* networks, and the messages that wait for it are sent.                   *)
(***************************************************************************)
ReceiveIAm(g) ==
    LET n == g.to
        s == g.net
        dnets == g.npdu.dnets
    IN  /\ g.npdu.type = "iam"
        /\ path' = [path EXCEPT ![n] = Learned(n, s, g.from, dnets)]
        /\ phase' = [m \in Messages |-> IF m \in Waiting(n, dnets) THEN "sent" ELSE phase[m]]
        /\ Exchange({g}, Announced(n, s, dnets)
                             \cup UNION {ToRouter(m, n, s, g.from) : m \in Waiting(n, dnets)})
        /\ UNCHANGED <<given, history>>

-----------------------------------------------------------------------------
\* i_am_router_to_network, called by the program: RuntimeError if not a router.
AnnounceAll(n) ==
    /\ IsRouter(n)
    /\ calls < MaxCalls
    /\ calls' = calls + 1
    /\ Exchange({}, UNION {Transmit(n, s, All, IAm(on[n] \ {s})) : s \in on[n]})
    /\ UNCHANGED <<path, phase, given, lost, restarted, dropped, late>>

\* who_is_router_to_network, called by the program, for all networks.
AskForAll(n) ==
    /\ calls < MaxCalls
    /\ calls' = calls + 1
    /\ Exchange({}, Question(n, None))
    /\ UNCHANGED <<path, phase, given, lost, restarted, dropped, late>>

Lose(g) ==
    /\ lost < MaxLost
    /\ lost' = lost + 1
    /\ Exchange({g}, {})
    /\ UNCHANGED <<path, phase, given, calls, restarted, dropped, late>>

\* The program is started again: the cache is empty and nobody waits.
Restart(n) ==
    /\ n \notin restarted
    /\ Cardinality(restarted) < MaxRestarts
    /\ restarted' = restarted \cup {n}
    /\ path' = [path EXCEPT ![n] = NoPaths]
    /\ phase' = [m \in Messages |->
                    IF Sender[m] = n /\ phase[m] = "looking" THEN "gone" ELSE phase[m]]
    /\ UNCHANGED <<wire, given, calls, lost, dropped, late>>

Next ==
    \/ \E m \in Messages :
           SendToAll(m) \/ SendDirectly(m) \/ SendToRouter(m) \/ LookForRouter(m) \/ TimeOut(m)
    \/ \E g \in BagToSet(wire) :
           ReceiveApdu(g) \/ ReceiveWhoIs(g) \/ ReceiveIAm(g) \/ Lose(g)
    \/ \E n \in Nodes : AnnounceAll(n) \/ AskForAll(n) \/ Restart(n)

Spec == Init /\ [][Next]_vars

-----------------------------------------------------------------------------
\* The networks that an NPDU says the device it comes from leads to.
Claims(npdu) ==
    IF npdu.type = "iam" THEN npdu.dnets
    ELSE {d \in Nets : npdu.sadr # None /\ npdu.sadr[1] = d}

\* Router r is the way from network s to network d and, unless it was restarted,
\* knows how to go on: d is one of its own networks, or it has a path to d.
Leads(r, s, d) ==
    /\ r = Way[s][d]
    /\ r \in restarted \/ d \in on[r] \/ \E t \in on[r] \ {s} : path[r][t][d] # None

(***************************************************************************)
(* Every path in a cache leads to the router that there is, and that one   *)
(* knows how to go on: what one device has learned is so in the caches of  *)
(* all on the way (update_path_info, WhoIsRouterToNetwork,                 *)
(* IAmRouterToNetwork).  A message is not passed to and fro, and "no path, *)
(* look for one" happens to a router only when one was restarted.          *)
(***************************************************************************)
PathsHold ==
    /\ \A n \in Nodes : \A s \in on[n] : \A d \in Nets :
           path[n][s][d] # None => Leads(path[n][s][d], s, d)
    /\ dropped # {} => restarted # {}

\* A router whose message leaves by another than its local network, to a router
\* there: it goes out without a source (indication).
LeavesElsewhere(m) ==
    /\ Target[m] # Everywhere
    /\ Target[m][1] \notin on[Sender[m]]
    /\ Way[local[Sender[m]]][Target[m][1]] \in {Sender[m], None}

SourceFound(m) ==
    \A n \in Nodes : \A k \in 1..Len(given[m][n]) :
        given[m][n][k] = <<local[Sender[m]], Sender[m]>>

(***************************************************************************)
(* The source that an application is shown with a message is where its     *)
(* sender can be reached, so that an answer gets there (process_npdu: "see *)
(* if it needs to look routed", "set the source address").                 *)
(***************************************************************************)
SourceIsTrue == \A m \in Messages : LeavesElsewhere(m) \/ SourceFound(m)

\* The same of every message.  It does not hold: a router's application sends to
\* a network beyond one of its other networks, and is taken for a device of that
\* (indication, l.826 and l.855).
AllSourcesTrue == \A m \in Messages : SourceFound(m)

\* A router that has no path looks for one (process_npdu, l.1129).  It does not
\* hold: it looks, and the message is lost when it finds one.
NothingDropped == dropped = {}

\* The devices a message is for.
Addressees(m) ==
    {n \in Nodes \ {Sender[m]} : Target[m] \in {Everywhere, <<local[n], All>>, <<local[n], n>>}}

(***************************************************************************)
(* A message is given to a device it is for, once, over however many       *)
(* routers and adapters it comes (process_npdu: processLocally, "make sure *)
(* it hasn't looped").                                                     *)
(***************************************************************************)
DeliveredOnce ==
    \A m \in Messages, n \in Nodes :
        Len(given[m][n]) <= (IF n \in Addressees(m) THEN 1 ELSE 0)

\* There is a way from one of the networks of the sender.
HasWay(m) == \E s \in on[Sender[m]] : Way[s][Target[m][1]] # None

(***************************************************************************)
(* Once nothing is under way any more and nothing was lost: a message that *)
(* was sent has reached all it is for, but for one a restarted router had  *)
(* to look for a path for; and a message was only given up for want of a   *)
(* route when there is none or the answer was late.                        *)
(***************************************************************************)
GetsThrough ==
    wire = EmptyBag /\ lost = 0 => \A m \in Messages :
        /\ phase[m] = "sent" /\ m \notin dropped =>
               \A n \in Addressees(m) : given[m][n] # <<>>
        /\ phase[m] = "unknown" => m \in late \/ ~HasWay(m)

=============================================================================
