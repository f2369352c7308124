------------------------------ MODULE Broadcasts ------------------------------
(***************************************************************************)
(* Messages on a BACnet/IP network of several IP subnets                   *)
(* (bacpypes3/ipv4/service.py, classes BIPNormal, BIPForeign and BIPBBMD): *)
(* a broadcast stays on its subnet, so the BBMD of the subnet forwards it  *)
(* to the BBMDs in its broadcast distribution table and to the foreign     *)
(* devices in its foreign device table, and they hand it on to theirs.     *)
(*                                                                         *)
(* The handlers do not wait for anything on the event loop, so each is one *)
(* step, but for a foreign device's broadcast that waits for the device to *)
(* be registered.  Datagrams arrive in any order, each once.  How a        *)
(* registration is kept up is the matter of ForeignDevice.                 *)
(***************************************************************************)
EXTENDS Naturals, FiniteSets, Sequences, Bags

CONSTANTS
    Normals, Foreigns, BBMDs,   \* the stations
    Subnet,         \* the IP subnet of each of them
    BDT,            \* bbmdBDT of each BBMD
    Directed,       \* BBMDs listed there with the mask of their subnet
    Bare,           \* BBMDs with no network layer on top
    BBMDOf,         \* the BBMD each foreign device registers with
    Messages,
    MaxRaises,      \* bound: messages over which a network layer raises
    None

Stations == Normals \cup Foreigns \cup BBMDs

(***************************************************************************)
(* A network that is set up as it should be: stations of one kind each, a  *)
(* BBMD on each subnet but those of foreign devices only, all of them in   *)
(* the table of each, and no foreign device where the broadcasts of its    *)
(* own BBMD come out.                                                      *)
(***************************************************************************)
ASSUME TopologyAssumption ==
    /\ DOMAIN Subnet = Stations
    /\ Normals \cap Foreigns = {} /\ Normals \cap BBMDs = {} /\ Foreigns \cap BBMDs = {}
    /\ \A s \in Normals : \E b \in BBMDs : Subnet[b] = Subnet[s]
    /\ \A b, c \in BBMDs : Subnet[b] = Subnet[c] => b = c
    /\ BDT = [b \in BBMDs |-> BBMDs]
    /\ Directed \subseteq BBMDs /\ Bare \subseteq BBMDs
    /\ BBMDOf \in [Foreigns -> BBMDs]
    /\ \A f \in Foreigns : \A b \in Directed \cup {BBMDOf[f]} : Subnet[f] # Subnet[b]
    /\ None \notin Stations
    /\ MaxRaises \in Nat

VARIABLES
    net,            \* the datagrams under way, a bag
    fdt,            \* bbmdFDT of each BBMD
    status,         \* bbmdRegistrationStatus of each foreign device
    registered,     \* its _registration_event
    bbmdAddress,    \* its BBMD, or None
    left,           \* bound: a device that has unregistered is gone for good
    sending,        \* for each message how far its indication is
    origin,         \* the station that sends it
    given,          \* the sources with which each station's network layer got it
    owed,           \* history: the stations it still has to reach
    raised          \* the messages over which a network layer raised an exception

registration == <<status, registered, bbmdAddress, left>>

broadcastVars == <<net, fdt, registration, sending, origin, given, owed, raised>>

Init ==
    /\ net = EmptyBag
    /\ fdt = [b \in BBMDs |-> {}]
    /\ status = [f \in Foreigns |-> "unregistered"]
    /\ registered = [f \in Foreigns |-> FALSE]
    /\ bbmdAddress = [f \in Foreigns |-> None]
    /\ left = {}
    /\ sending = [m \in Messages |-> "unsent"]
    /\ origin = [m \in Messages |-> None]
    /\ given = [s \in Stations |-> [m \in Messages |-> <<>>]]
    /\ owed = [m \in Messages |-> {}]
    /\ raised = {}

-----------------------------------------------------------------------------
(* Datagrams.  real is the bvlciAddress, source the station that sends.    *)

Datagrams(type, m, real, source, dests, cast) ==
    SetToBag([type : {type}, npdu : {m}, real : {real}, source : {source},
              dest : dests, cast : {cast}])

Unicast(type, m, real, source, dests) == Datagrams(type, m, real, source, dests, FALSE)

\* To everyone on these subnets, to the sender too if it is on one of them.
Broadcast(type, m, real, source, subnets) ==
    Datagrams(type, m, real, source, {s \in Stations : Subnet[s] \in subnets}, TRUE)

\* A broadcast on the sender's own subnet.
LocalBroadcast(type, m, real, source) == Broadcast(type, m, real, source, {Subnet[source]})

Control(type, source, dest) == Unicast(type, None, None, source, {dest})

(***************************************************************************)
(* To the peers, each at the address its entry gives with its mask         *)
(* (addrBroadcastTuple): the peer itself, or its subnet.                   *)
(***************************************************************************)
ToPeers(b, m, real) ==
    LET peers == BDT[b] \ {b}
    IN  Unicast("ForwardedNPDU", m, real, b, peers \ Directed)
            (+) Broadcast("ForwardedNPDU", m, real, b, {Subnet[p] : p \in peers \cap Directed})

ToForeign(b, m, real, devices) == Unicast("ForwardedNPDU", m, real, b, devices)

-----------------------------------------------------------------------------
(* Sending: indication.                                                    *)

\* Who is to get a broadcast of station s that goes out now.
Audience(s) ==
    (Normals \cup (BBMDs \ Bare)
        \cup {f \in Foreigns : registered[f] /\ f \in fdt[BBMDOf[f]]}) \ {s}

Becomes(m, s, state) ==
    /\ sending' = [sending EXCEPT ![m] = state]
    /\ origin' = [origin EXCEPT ![m] = s]
    /\ UNCHANGED <<fdt, registration, given, raised>>

GoesOut(m, s, datagrams, stations) ==
    /\ Becomes(m, s, "sent")
    /\ net' = net (+) datagrams
    /\ owed' = [owed EXCEPT ![m] = stations]

Stays(m, s, state) == Becomes(m, s, state) /\ UNCHANGED <<net, owed>>

SendUnicast(m, s, d) ==
    /\ sending[m] = "unsent"
    /\ s # d /\ {s, d} \cap Bare = {}
    /\ GoesOut(m, s, Unicast("OriginalUnicastNPDU", m, s, s, {d}), {d})

NormalBroadcast(m, s) ==
    /\ sending[m] = "unsent"
    /\ GoesOut(m, s, LocalBroadcast("OriginalBroadcastNPDU", m, s, s), Audience(s))

BBMDBroadcast(m, b) ==
    /\ sending[m] = "unsent"
    /\ b \notin Bare
    /\ GoesOut(m, b, LocalBroadcast("OriginalBroadcastNPDU", m, b, b)
                         (+) ToPeers(b, m, b) (+) ToForeign(b, m, b, fdt[b]), Audience(b))

\* To the BBMD the device has by now.  Wrong: whether it has one or not.
DistributeAnyway(m, f) ==
    GoesOut(m, f, Unicast("DistributeBroadcastToNetwork", m, f, f, {bbmdAddress[f]}),
            Audience(f))

\* When it has none, the datagram server raises ValueError.
Distribute(m, f) ==
    IF bbmdAddress[f] = None
    THEN Stays(m, f, "raised")
    ELSE GoesOut(m, f, Unicast("DistributeBroadcastToNetwork", m, f, f, {bbmdAddress[f]}),
                 Audience(f))

\* Dropped while the device is unregistered; while a registration is in process
\* it waits for that, and for REGISTRATION_TIMEOUT at most.
ForeignBroadcast(m, f) ==
    /\ sending[m] = "unsent"
    /\ \/ status[f] = "unregistered" /\ Stays(m, f, "dropped")
       \/ status[f] = "inProcess" /\ Stays(m, f, "waiting")
       \/ status[f] = "OK" /\ Distribute(m, f)

\* The event was set; whatever has happened since, the task goes on.
WaitEnds(m) == sending[m] = "woken" /\ Distribute(m, origin[m])

WaitTimesOut(m) ==
    /\ sending[m] \in {"waiting", "woken"}
    /\ Stays(m, origin[m], "dropped")

-----------------------------------------------------------------------------
(* Registration.                                                           *)

Register(f) ==
    /\ status[f] = "unregistered" /\ f \notin left
    /\ status' = [status EXCEPT ![f] = "inProcess"]
    /\ bbmdAddress' = [bbmdAddress EXCEPT ![f] = BBMDOf[f]]
    /\ net' = net (+) Control("RegisterForeignDevice", f, BBMDOf[f])
    /\ UNCHANGED <<fdt, registered, left, sending, origin, given, owed, raised>>

\* unregister, and _stop_registration.  The device is owed nothing from now on.
Unregister(f) ==
    /\ status[f] # "unregistered"
    /\ status' = [status EXCEPT ![f] = "unregistered"]
    /\ registered' = [registered EXCEPT ![f] = FALSE]
    /\ bbmdAddress' = [bbmdAddress EXCEPT ![f] = None]
    /\ left' = left \cup {f}
    /\ net' = net (+) Control("UnregisterForeignDevice", f, bbmdAddress[f])
    /\ owed' = [m \in Messages |-> owed[m] \ {f}]
    /\ UNCHANGED <<fdt, sending, origin, given, raised>>

\* BIPBBMD: register_foreign_device, delete_foreign_device_table_entry.
ReceiveRegistration(d) ==
    LET b == d.dest
    IN  /\ d.type \in {"RegisterForeignDevice", "UnregisterForeignDevice"}
        /\ fdt' = [fdt EXCEPT ![b] = IF d.type = "RegisterForeignDevice"
                                     THEN @ \cup {d.source} ELSE @ \ {d.source}]
        /\ net' = (net (-) SetToBag({d})) (+) Control("Result", b, d.source)
        /\ UNCHANGED <<registration, sending, origin, given, owed, raised>>

\* BIPForeign: set the event, which ends the waits there are.
ReceiveResult(d) ==
    LET f == d.dest
    IN  /\ d.type = "Result"
        /\ net' = net (-) SetToBag({d})
        /\ \/ /\ status[f] = "unregistered"
              /\ UNCHANGED <<status, registered, sending>>
           \/ /\ status[f] # "unregistered"
              /\ status' = [status EXCEPT ![f] = "OK"]
              /\ registered' = [registered EXCEPT ![f] = TRUE]
              /\ sending' = [m \in Messages |->
                                IF origin[m] = f /\ sending[m] = "waiting" THEN "woken"
                                ELSE sending[m]]
        /\ UNCHANGED <<fdt, bbmdAddress, left, origin, given, owed, raised>>

-----------------------------------------------------------------------------
(* Receiving: confirmation.                                                *)

\* The station that a message is said to come from.
RealSource(d) == IF d.type = "ForwardedNPDU" THEN d.real ELSE d.source

\* The datagram is gone, and the station sends these.
Answers(d, datagrams) ==
    /\ net' = (net (-) SetToBag({d})) (+) datagrams
    /\ UNCHANGED <<fdt, registration, sending, origin>>

\* Up to the network layer.
Up(d) ==
    /\ given' = [given EXCEPT ![d.dest][d.npdu] = Append(@, RealSource(d))]
    /\ owed' = [owed EXCEPT ![d.npdu] = @ \ {d.dest}]

NotUp == UNCHANGED <<given, owed>>

\* IPv4DatagramServer.confirmation drops what the station sent itself.
Reflected(d) == d.source = d.dest

ReceiveReflected(d) == Reflected(d) /\ Answers(d, EmptyBag) /\ NotUp /\ UNCHANGED raised

NormalReceives(d) ==
    /\ d.dest \in Normals /\ ~Reflected(d)
    /\ Answers(d, EmptyBag) /\ Up(d)
    /\ UNCHANGED raised

\* A foreign device takes what is forwarded by its BBMD only.  Wrong: by anyone.
FromAnyone(d) == registered[d.dest]

FromBBMD(d) == registered[d.dest] /\ d.source = bbmdAddress[d.dest]

ForeignReceives(d) ==
    LET takes == \/ d.type = "OriginalUnicastNPDU"
                 \/ d.type = "ForwardedNPDU" /\ FromBBMD(d)
    IN  /\ d.dest \in Foreigns /\ ~Reflected(d) /\ d.type # "Result"
        /\ Answers(d, EmptyBag)
        /\ IF takes THEN Up(d) ELSE NotUp
        /\ UNCHANGED raised

\* A BBMD hands the message up first, and sends on unless that raises.
HandsUpAndSends(d, datagrams) ==
    \/ /\ d.dest \in Bare
       /\ Answers(d, datagrams) /\ NotUp
       /\ UNCHANGED raised
    \/ /\ d.dest \notin Bare
       /\ Answers(d, datagrams) /\ Up(d)
       /\ UNCHANGED raised
    \/ /\ d.dest \notin Bare
       /\ d.npdu \in raised \/ Cardinality(raised) < MaxRaises
       /\ Answers(d, EmptyBag) /\ Up(d)
       /\ raised' = raised \cup {d.npdu}

AtBBMD(d, type) == d.dest \in BBMDs /\ ~Reflected(d) /\ d.type = type

BBMDReceivesUnicast(d) == AtBBMD(d, "OriginalUnicastNPDU") /\ HandsUpAndSends(d, EmptyBag)

BBMDReceivesBroadcast(d) ==
    LET b == d.dest
    IN  /\ AtBBMD(d, "OriginalBroadcastNPDU")
        /\ HandsUpAndSends(d, ToPeers(b, d.npdu, d.source)
                                  (+) ToForeign(b, d.npdu, d.source, fdt[b]))

\* The second hop, for what came to the BBMD alone.  Wrong: there is none.
NoSecondHop(d) == EmptyBag

SecondHop(d) ==
    IF d.cast \/ d.dest \notin BDT[d.dest] THEN EmptyBag
    ELSE LocalBroadcast("ForwardedNPDU", d.npdu, RealSource(d), d.dest)

BBMDReceivesForwarded(d) ==
    /\ AtBBMD(d, "ForwardedNPDU")
    /\ HandsUpAndSends(d, SecondHop(d) (+) ToForeign(d.dest, d.npdu, d.real, fdt[d.dest]))

(***************************************************************************)
(* The foreign devices that get a message a foreign device distributes.    *)
(* The code compares their addresses to that of a PDU which is made for    *)
(* the network layer: without one, UnboundLocalError ends the handler.     *)
(***************************************************************************)
OtherDevices(d) ==
    IF d.dest \in Bare THEN {} ELSE fdt[d.dest] \ {d.source}

BBMDDistributes(d) ==
    LET b == d.dest
    IN  /\ AtBBMD(d, "DistributeBroadcastToNetwork")
        /\ HandsUpAndSends(d, SecondHop(d) (+) ToPeers(b, d.npdu, d.source)
                                  (+) ToForeign(b, d.npdu, d.source, OtherDevices(d)))

-----------------------------------------------------------------------------
Send(m) ==
    \/ \E s, d \in Stations : SendUnicast(m, s, d)
    \/ \E s \in Normals : NormalBroadcast(m, s)
    \/ \E b \in BBMDs : BBMDBroadcast(m, b)
    \/ \E f \in Foreigns : ForeignBroadcast(m, f)
    \/ WaitEnds(m)
    \/ WaitTimesOut(m)

Receive(d) ==
    \/ ReceiveRegistration(d)
    \/ ReceiveResult(d)
    \/ ReceiveReflected(d)
    \/ NormalReceives(d)
    \/ ForeignReceives(d)
    \/ BBMDReceivesUnicast(d)
    \/ BBMDReceivesBroadcast(d)
    \/ BBMDReceivesForwarded(d)
    \/ BBMDDistributes(d)

Next ==
    \/ \E m \in Messages : Send(m)
    \/ \E f \in Foreigns : Register(f) \/ Unregister(f)
    \/ \E d \in BagToSet(net) : Receive(d)

BroadcastSpec == Init /\ [][Next]_broadcastVars

-----------------------------------------------------------------------------
\* The shape of the state.
BroadcastTypeOK ==
    /\ IsABag(net)
    /\ \A d \in BagToSet(net) : d.dest \in Stations /\ d.source \in Stations
    /\ fdt \in [BBMDs -> SUBSET Foreigns]
    /\ status \in [Foreigns -> {"unregistered", "inProcess", "OK"}]
    /\ registered \in [Foreigns -> BOOLEAN]
    /\ bbmdAddress \in [Foreigns -> BBMDs \cup {None}]
    /\ left \subseteq Foreigns
    /\ sending \in [Messages -> {"unsent", "waiting", "woken", "sent", "dropped", "raised"}]
    /\ origin \in [Messages -> Stations \cup {None}]
    /\ given \in [Stations -> [Messages -> Seq(Stations)]]
    /\ owed \in [Messages -> SUBSET Stations]
    /\ raised \subseteq Messages

(***************************************************************************)
(* However a message gets to a station, over its subnet, over one or two   *)
(* BBMDs or from a BBMD to a foreign device, it gets there once, with the  *)
(* station that sent it as its source, and never back to that station.     *)
(***************************************************************************)
GivenOnce ==
    \A m \in Messages, s \in Stations :
        given[s][m] \in (IF s = origin[m] THEN {<<>>} ELSE {<<>>, <<origin[m]>>})

(***************************************************************************)
(* When every datagram has arrived, a broadcast has reached every normal   *)
(* device, every BBMD's network layer and every foreign device that was    *)
(* registered all the time, unless a network layer raised an exception     *)
(* over it.                                                                *)
(***************************************************************************)
ReachesAll ==
    net = EmptyBag => \A m \in Messages \ raised : owed[m] = {}

(***************************************************************************)
(* What a foreign device distributes has reached the other foreign devices *)
(* by then, whether or not the BBMD has a network layer                    *)
(* (BIPBBMD.confirmation: "send it to the other registered foreign         *)
(* devices", after "send it upstream if there is a network layer").        *)
(***************************************************************************)
DistributesToOthers ==
    net = EmptyBag =>
        \A m \in Messages \ raised : origin[m] \in Foreigns => owed[m] \cap Foreigns = {}

=============================================================================
