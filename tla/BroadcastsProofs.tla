--------------------------- MODULE BroadcastsProofs ---------------------------
(***************************************************************************)
(* Broadcasts for any number of subnets, stations and messages: a message  *)
(* is given to a station once, and a broadcast gets to all that are to     *)
(* have it.                                                                *)
(*                                                                         *)
(* A broadcast goes down a tree: from its sender to the BBMD of that, from *)
(* there to the other BBMDs, and from each BBMD to the stations it serves. *)
(* While a station has not handled it nobody below that has been reached.  *)
(***************************************************************************)
EXTENDS Broadcasts, TLAPS

Carriers == {"OriginalUnicastNPDU", "OriginalBroadcastNPDU", "ForwardedNPDU",
             "DistributeBroadcastToNetwork"}

Controls == {"RegisterForeignDevice", "UnregisterForeignDevice", "Result"}

\* The BBMD on the subnet of a station.
BBMDNear(s) == CHOOSE b \in BBMDs : Subnet[b] = Subnet[s]

\* The BBMD that a broadcast of a station comes to first.
Home(o) ==
    IF o \in BBMDs THEN o ELSE IF o \in Foreigns THEN BBMDOf[o] ELSE BBMDNear(o)

\* The station that hands on to another what a third one broadcasts.
Parent(o, n) ==
    IF n \in Foreigns THEN BBMDOf[n]
    ELSE IF n \in BBMDs THEN IF n = Home(o) THEN o ELSE Home(o)
    ELSE IF o \notin Foreigns /\ Subnet[n] = Subnet[o] THEN o
    ELSE IF BBMDNear(n) \in Directed \ {Home(o)} THEN Home(o)
    ELSE BBMDNear(n)

\* A station gets a broadcast from another, at first or at second hand.
Under(o, n, c) ==
    /\ n \in Stations \ {o}
    /\ \/ Parent(o, n) = c
       \/ Parent(o, n) # o /\ Parent(o, Parent(o, n)) = c

\* The stations that one hands a broadcast on to: of the foreign devices those in
\* its table, and none without a network layer.
Served(o, x) ==
    {n \in Stations \ {o} :
        /\ Parent(o, n) = x
        /\ n \in Foreigns => n \in fdt[x] /\ ~(o \in Foreigns /\ x = Home(o) /\ x \in Bare)}

\* A datagram is one of a message, and its destination takes it.
Unicasts(d) == d.type = "OriginalUnicastNPDU"

Takes(d) ==
    /\ d.type \in Carriers /\ ~Reflected(d)
    /\ d.dest \in Foreigns =>
           Unicasts(d) \/ (d.type = "ForwardedNPDU" /\ d.source = BBMDOf[d.dest])

Coming(m) == {d \in DOMAIN net : d.npdu = m /\ Takes(d)}

Reached(m, n) == given[n][m] # <<>> \/ \E d \in Coming(m) : d.dest = n

\* What comes to a BBMD with a broadcast of o.
Fits(d, o) ==
    \/ Unicasts(d)
    \/ d.type = "OriginalBroadcastNPDU" /\ o \in Normals /\ d.dest = Home(o)
    \/ /\ d.type = "DistributeBroadcastToNetwork" /\ o \in Foreigns
       /\ d.dest = Home(o) /\ ~d.cast
    \/ /\ d.type = "ForwardedNPDU" /\ d.dest # Home(o) /\ d.source = Home(o)
       /\ d.cast = (d.dest \in Directed)

Carried(d, m, o) ==
    /\ d.npdu = m /\ d.type \in Carriers /\ RealSource(d) = o
    /\ Takes(d) => /\ d.dest # o
                   /\ Unicasts(d) \/ d.source = Parent(o, d.dest)
                   /\ d.dest \in BBMDs => Fits(d, o)

Sound(d) ==
    /\ d.source \in Stations /\ d.dest \in Stations
    /\ \/ /\ d.type \in Controls
          /\ d.type # "Result" => d.source \in Foreigns /\ d.dest = BBMDOf[d.source]
          /\ d.type = "UnregisterForeignDevice" => d.source \in left
          /\ d.type = "Result" => d.dest \in Foreigns
       \/ /\ d.npdu \in Messages /\ sending[d.npdu] = "sent"
          /\ Carried(d, d.npdu, origin[d.npdu])

\* The table of a BBMD holds devices that register with it.
Tables ==
    \A b \in BBMDs : fdt[b] \subseteq Foreigns /\ \A f \in fdt[b] : BBMDOf[f] = b

\* A foreign device knows its BBMD while it is registered or being so.
Registration ==
    \A f \in Foreigns :
        /\ bbmdAddress[f] = IF status[f] = "unregistered" THEN None ELSE BBMDOf[f]
        /\ registered[f] => status[f] # "unregistered"
        /\ f \in left => status[f] = "unregistered"

\* A datagram under way is the only one to its destination, which has not been
\* given the message; nobody that the destination may hand it on to, at first or
\* second hand, has been reached.
Alone(m, d) ==
    /\ net[d] = 1 /\ given[d.dest][m] = <<>>
    /\ \A e \in Coming(m) : e.dest = d.dest => e = d
    /\ IF Unicasts(d)
       THEN Coming(m) = {d} /\ \A n \in Stations : given[n][m] = <<>>
       ELSE \A n \in Stations : Under(origin[m], n, d.dest) => ~Reached(m, n)

Apart(m) ==
    /\ sending[m] # "sent" =>
           Coming(m) = {} /\ \A n \in Stations : given[n][m] = <<>>
    /\ \A n \in Stations :
           given[n][m] \in (IF n = origin[m] THEN {<<>>} ELSE {<<>>, <<origin[m]>>})
    /\ \A d \in Coming(m) : Alone(m, d)

\* A station still gets a message by a datagram under way, itself or from those
\* that hand it on.
Brings(d, m, n) ==
    \/ d.dest = n /\ (n \in Foreigns => Unicasts(d) \/ registered[n])
    \/ /\ ~Unicasts(d) /\ Under(origin[m], n, d.dest)
       /\ n \in Foreigns => registered[n] /\ n \in fdt[BBMDOf[n]]

Owing(m) ==
    m \notin raised => \A n \in owed[m] :
        n \in Stations \ Bare /\ \E d \in Coming(m) : Brings(d, m, n)

\* Whoever sends a message, or waits to, is a station that may.
Senders ==
    \A m \in Messages :
        /\ sending[m] = "sent" => origin[m] \in Stations
        /\ sending[m] \in {"waiting", "woken"} => origin[m] \in Foreigns

IInv ==
    /\ BroadcastTypeOK /\ Senders /\ Tables /\ Registration
    /\ \A d \in DOMAIN net : Sound(d)
    /\ \A m \in Messages : Apart(m)

\* Foreign devices register with BBMDs that have a network layer.
Supported == \A f \in Foreigns : BBMDOf[f] \notin Bare

OwingInv == \A m \in Messages : Owing(m)

Keeps == IInv' /\ (Supported /\ OwingInv => OwingInv')
-----------------------------------------------------------------------------
\* A station that does not move has one BBMD near it.
LEMMA NearLemma ==
    ASSUME NEW s \in Normals \cup BBMDs
    PROVE  /\ BBMDNear(s) \in BBMDs /\ Subnet[BBMDNear(s)] = Subnet[s]
           /\ \A b \in BBMDs : Subnet[b] = Subnet[s] => b = BBMDNear(s)
<1>1. \E b \in BBMDs : Subnet[b] = Subnet[s]
  BY TopologyAssumption
<1>2. BBMDNear(s) \in BBMDs /\ Subnet[BBMDNear(s)] = Subnet[s]
  BY <1>1 DEF BBMDNear
<1> QED  BY <1>2, TopologyAssumption

LEMMA HomeLemma ==
    ASSUME NEW o \in Stations
    PROVE  /\ Home(o) \in BBMDs
           /\ o \notin Foreigns => Subnet[Home(o)] = Subnet[o]
           /\ o \in BBMDs => Home(o) = o
           /\ o \in Foreigns => Home(o) = BBMDOf[o]
<1>1. CASE o \in BBMDs
  BY <1>1, TopologyAssumption DEF Home
<1>2. CASE o \in Foreigns
  BY <1>2, TopologyAssumption DEF Home
<1>3. CASE o \notin BBMDs \cup Foreigns
  <2>1. o \in Normals
    BY <1>3 DEF Stations
  <2>2. Home(o) = BBMDNear(o)
    BY <1>3 DEF Home
  <2> QED  BY <1>3, <2>1, <2>2, NearLemma
<1> QED  BY <1>1, <1>2, <1>3

\* On which subnet a BBMD hands on what it is not the first to have.
LEMMA OtherSubnet ==
    ASSUME NEW b \in BBMDs, NEW c \in BBMDs, b # c
    PROVE  Subnet[b] # Subnet[c]
BY TopologyAssumption

LEMMA ParentLemma ==
    ASSUME NEW o \in Stations, NEW n \in Stations \ {o}
    PROVE  /\ Parent(o, n) \in BBMDs \cup {o}
           /\ n \in BBMDs => Parent(o, n) \in {o, Home(o)}
<1>1. Home(o) \in BBMDs
  BY HomeLemma
<1>2. CASE n \in Foreigns
  BY <1>2, TopologyAssumption DEF Parent
<1>3. CASE n \in BBMDs
  BY <1>1, <1>3, TopologyAssumption DEF Parent
<1>4. CASE n \notin Foreigns \cup BBMDs
  <2>1. BBMDNear(n) \in BBMDs
    BY <1>4, NearLemma DEF Stations
  <2> QED  BY <1>1, <1>4, <2>1 DEF Parent
<1> QED  BY <1>2, <1>3, <1>4

\* Only the home of its sender is between a broadcast's sender and other BBMDs.
LEMMA DepthLemma ==
    ASSUME NEW o \in Stations, NEW n \in Stations \ {o}, Parent(o, n) # o
    PROVE  /\ Parent(o, n) \in BBMDs
           /\ Parent(o, Parent(o, n)) # o =>
                  /\ Parent(o, Parent(o, n)) = Home(o)
                  /\ Home(o) # o /\ Parent(o, Home(o)) = o
<1> DEFINE p == Parent(o, n)
<1>1. p \in BBMDs /\ p \in Stations \ {o}
  BY ParentLemma DEF Stations
<1> HIDE DEF p
<1>2. Parent(o, p) \in {o, Home(o)}
  BY <1>1, ParentLemma
<1>3. Home(o) \in BBMDs
  BY HomeLemma
<1>4. Parent(o, Home(o)) = o
  <2>1. Home(o) \notin Foreigns
    BY <1>3, TopologyAssumption
  <2> QED  BY <1>3, <2>1 DEF Parent
<1> QED  BY <1>1, <1>2, <1>4 DEF p

\* Nobody is at fourth hand from the sender.
LEMMA NoFurther ==
    ASSUME NEW o \in Stations, NEW x \in Stations \ {o},
           NEW c \in Stations \ {o}, Parent(o, c) = x,
           NEW n \in Stations \ {o}, Under(o, n, c)
    PROVE  Parent(o, n) = c
<1> SUFFICES ASSUME Parent(o, n) # o, Parent(o, Parent(o, n)) = c
             PROVE  FALSE
  BY DEF Under
<1>1. c = Home(o) /\ Parent(o, Home(o)) = o
  BY DepthLemma
<1> QED  BY <1>1

-----------------------------------------------------------------------------
\* A datagram of a message.
Msg(type, m, real, source, dest, cast) ==
    [type |-> type, npdu |-> m, real |-> real, source |-> source, dest |-> dest, cast |-> cast]

LEMMA OneDatagram ==
    ASSUME NEW t, NEW m, NEW r, NEW x, NEW n, NEW c
    PROVE  Datagrams(t, m, r, x, {n}, c) = SetToBag({Msg(t, m, r, x, n, c)})
<1> DEFINE S == [type : {t}, npdu : {m}, real : {r}, source : {x}, dest : {n}, cast : {c}]
           d == Msg(t, m, r, x, n, c)
<1>1. \A e \in S : e.dest = n /\ e = Msg(t, m, r, x, e.dest, c)
  BY DEF Msg
<1>2. d \in S
  BY DEF Msg
<1>3. \A e \in S : e = d
  BY <1>1
<1> HIDE DEF S, d
<1>4. S = {d}
  BY <1>2, <1>3
<1> QED  BY <1>4 DEF Datagrams, S, d

(***************************************************************************)
(* What station x sends of message m of o: datagrams that D take, one      *)
(* each.                                                                   *)
(***************************************************************************)
Sent(X, m, o, x, D) ==
    /\ \A e \in DOMAIN X :
           /\ e.source = x /\ e.dest \in Stations /\ Carried(e, m, o) /\ ~Unicasts(e)
           /\ Takes(e) => /\ e.dest \in D /\ X[e] = 1
                          /\ \A f \in DOMAIN X : Takes(f) /\ f.dest = e.dest => f = e
    /\ \A n \in D : \E e \in DOMAIN X : Takes(e) /\ e.dest = n

LEMMA NothingSent ==
    ASSUME NEW m, NEW o, NEW x
    PROVE  Sent(EmptyBag, m, o, x, {})
<1>1. DOMAIN EmptyBag = {}
  BY DEF EmptyBag, SetToBag
<1> QED  BY <1>1 DEF Sent

\* The sum of two bags, for what is in one of them only.
LEMMA SumLemma ==
    ASSUME NEW A, NEW B
    PROVE  /\ DOMAIN (A (+) B) = DOMAIN A \cup DOMAIN B
           /\ \A e \in DOMAIN A \ DOMAIN B : A[e] = 1 => (A (+) B)[e] = 1
           /\ \A e \in DOMAIN B \ DOMAIN A : B[e] = 1 => (A (+) B)[e] = 1
<1>1. DOMAIN (A (+) B) = DOMAIN A \cup DOMAIN B
  BY DEF (+)
<1>2. ASSUME NEW e \in DOMAIN A \ DOMAIN B, A[e] = 1
      PROVE  (A (+) B)[e] = 1
  <2>1. (A (+) B)[e] = 1 + 0
    BY <1>2 DEF (+)
  <2> QED  BY <2>1
<1>3. ASSUME NEW e \in DOMAIN B \ DOMAIN A, B[e] = 1
      PROVE  (A (+) B)[e] = 1
  <2>1. (A (+) B)[e] = 0 + 1
    BY <1>3 DEF (+)
  <2> QED  BY <2>1
<1> QED  BY <1>1, <1>2, <1>3

LEMMA JoinLemma ==
    ASSUME NEW m, NEW o, NEW x, NEW A, NEW C, NEW B, NEW D,
           Sent(A, m, o, x, C), Sent(B, m, o, x, D), C \cap D = {}
    PROVE  Sent(A (+) B, m, o, x, C \cup D)
<1> DEFINE X == A (+) B
<1>1. DOMAIN X = DOMAIN A \cup DOMAIN B
  BY SumLemma
<1>2. \A e \in DOMAIN A \ DOMAIN B : A[e] = 1 => X[e] = 1
  BY SumLemma
<1>3. \A e \in DOMAIN B \ DOMAIN A : B[e] = 1 => X[e] = 1
  BY SumLemma
<1> HIDE DEF X
<1>4. \A e \in DOMAIN X :
          e.source = x /\ e.dest \in Stations /\ Carried(e, m, o) /\ ~Unicasts(e)
  BY <1>1 DEF Sent
<1>5. /\ \A e \in DOMAIN A : Takes(e) =>
             /\ e.dest \in C /\ A[e] = 1
             /\ \A f \in DOMAIN A : Takes(f) /\ f.dest = e.dest => f = e
      /\ \A e \in DOMAIN B : Takes(e) =>
             /\ e.dest \in D /\ B[e] = 1
             /\ \A f \in DOMAIN B : Takes(f) /\ f.dest = e.dest => f = e
  BY DEF Sent
<1>6. ASSUME NEW e \in DOMAIN X, Takes(e)
      PROVE  /\ e.dest \in C \cup D /\ X[e] = 1
             /\ \A f \in DOMAIN X : Takes(f) /\ f.dest = e.dest => f = e
  <2>1. CASE e \in DOMAIN A
    <3>1. e.dest \in C /\ A[e] = 1 /\ e.dest \notin D
      BY <1>5, <1>6, <2>1
    <3>2. e \notin DOMAIN B
      BY <1>5, <1>6, <3>1
    <3> QED  BY <1>1, <1>2, <1>5, <1>6, <2>1, <3>1, <3>2
  <2>2. CASE e \in DOMAIN B
    <3>1. e.dest \in D /\ B[e] = 1 /\ e.dest \notin C
      BY <1>5, <1>6, <2>2
    <3>2. e \notin DOMAIN A
      BY <1>5, <1>6, <3>1
    <3> QED  BY <1>1, <1>3, <1>5, <1>6, <2>2, <3>1, <3>2
  <2> QED  BY <1>1, <1>6, <2>1, <2>2
<1>7. \A n \in C \cup D : \E e \in DOMAIN X : Takes(e) /\ e.dest = n
  BY <1>1 DEF Sent
<1>8. Sent(X, m, o, x, C \cup D)
  BY <1>4, <1>6, <1>7 DEF Sent
<1> QED  BY <1>8 DEF X

LEMMA PartLemma ==
    ASSUME NEW t, NEW m, NEW r, NEW x, NEW dests \in SUBSET Stations, NEW c, NEW o,
           NEW D \in SUBSET dests,
           \A n \in dests : /\ Carried(Msg(t, m, r, x, n, c), m, o)
                            /\ ~Unicasts(Msg(t, m, r, x, n, c))
                            /\ Takes(Msg(t, m, r, x, n, c)) <=> n \in D
    PROVE  Sent(Datagrams(t, m, r, x, dests, c), m, o, x, D)
<1> DEFINE S == [type : {t}, npdu : {m}, real : {r}, source : {x}, dest : dests, cast : {c}]
           X == Datagrams(t, m, r, x, dests, c)
<1>1. \A e \in S : e.dest \in dests /\ e = Msg(t, m, r, x, e.dest, c) /\ e.source = x
  BY DEF Msg
<1>2. \A n \in dests : Msg(t, m, r, x, n, c) \in S /\ Msg(t, m, r, x, n, c).dest = n
  BY DEF Msg
<1>3. DOMAIN X = S /\ \A e \in S : X[e] = 1
  BY DEF Datagrams, SetToBag
<1> HIDE DEF S, X
<1>4. \A e \in DOMAIN X :
          /\ e.source = x /\ e.dest \in Stations /\ Carried(e, m, o) /\ ~Unicasts(e)
          /\ Takes(e) => e.dest \in D /\ X[e] = 1
  BY <1>1, <1>3
<1>5. \A e, f \in DOMAIN X : f.dest = e.dest => f = e
  BY <1>1, <1>3
<1>6. \A n \in D : \E e \in DOMAIN X : Takes(e) /\ e.dest = n
  BY <1>2, <1>3
<1>7. Sent(X, m, o, x, D)
  BY <1>4, <1>5, <1>6 DEF Sent
<1> QED  BY <1>7 DEF X

-----------------------------------------------------------------------------
(* What each kind of station sends.                                        *)

LEMMA Kinds ==
    /\ Normals \cap Foreigns = {} /\ Normals \cap BBMDs = {} /\ Foreigns \cap BBMDs = {}
    /\ Stations = Normals \cup Foreigns \cup BBMDs
    /\ Directed \subseteq BBMDs /\ Bare \subseteq BBMDs /\ BBMDOf \in [Foreigns -> BBMDs]
    /\ None \notin Stations
BY TopologyAssumption DEF Stations

\* A forwarded message with its fields.
LEMMA ForwardedLemma ==
    ASSUME NEW m, NEW o \in Stations, NEW x \in BBMDs, NEW n \in Stations, NEW c \in BOOLEAN,
           n # x /\ (n \in Foreigns => BBMDOf[n] = x) => 
               /\ n # o /\ x = Parent(o, n)
               /\ n \in BBMDs => n # Home(o) /\ x = Home(o) /\ c = (n \in Directed)
    PROVE  /\ Carried(Msg("ForwardedNPDU", m, o, x, n, c), m, o)
           /\ ~Unicasts(Msg("ForwardedNPDU", m, o, x, n, c))
           /\ Takes(Msg("ForwardedNPDU", m, o, x, n, c)) <=>
                  n # x /\ (n \in Foreigns => BBMDOf[n] = x)
<1> DEFINE d == Msg("ForwardedNPDU", m, o, x, n, c)
<1>1. /\ d.type = "ForwardedNPDU" /\ d.npdu = m /\ d.real = o /\ d.source = x
      /\ d.dest = n /\ d.cast = c
  BY DEF Msg
<1> HIDE DEF d
<1>2. d.type \in Carriers /\ RealSource(d) = o /\ ~Unicasts(d)
  BY <1>1 DEF Carriers, RealSource, Unicasts
<1>3. Takes(d) <=> n # x /\ (n \in Foreigns => BBMDOf[n] = x)
  BY <1>1, <1>2 DEF Takes, Reflected
<1>4. Takes(d) => (d.dest \in BBMDs => Fits(d, o))
  BY <1>1, <1>3 DEF Fits
<1>5. Carried(d, m, o)
  BY <1>1, <1>2, <1>3, <1>4 DEF Carried
<1> QED  BY <1>2, <1>3, <1>5 DEF d

LEMMA ToForeignLemma ==
    ASSUME NEW m, NEW o \in Stations, NEW b \in BBMDs, NEW devices \in SUBSET Foreigns,
           o \notin devices, \A f \in devices : BBMDOf[f] = b
    PROVE  Sent(ToForeign(b, m, o, devices), m, o, b, devices)
<1>1. ASSUME NEW n \in devices
      PROVE  /\ Carried(Msg("ForwardedNPDU", m, o, b, n, FALSE), m, o)
             /\ ~Unicasts(Msg("ForwardedNPDU", m, o, b, n, FALSE))
             /\ Takes(Msg("ForwardedNPDU", m, o, b, n, FALSE)) <=> n \in devices
  <2>1. n \in Stations /\ n \in Foreigns /\ n \notin BBMDs /\ n # b /\ n # o /\ BBMDOf[n] = b
    BY Kinds
  <2>2. b = Parent(o, n)
    BY <2>1 DEF Parent
  <2> QED  BY <2>1, <2>2, ForwardedLemma
<1>2. devices \in SUBSET Stations
  BY Kinds
<1>3. Sent(Datagrams("ForwardedNPDU", m, o, b, devices, FALSE), m, o, b, devices)
  BY <1>1, <1>2, PartLemma
<1> QED  BY <1>3 DEF ToForeign, Unicast

\* A BBMD's message on its own subnet, when those there do not have it.
LEMMA LocalLemma ==
    ASSUME NEW m, NEW o \in Stations, NEW b \in BBMDs,
           IF b = Home(o) THEN o \in Foreigns ELSE b \notin Directed
    PROVE  Sent(LocalBroadcast("ForwardedNPDU", m, o, b), m, o, b,
                {n \in Normals : Subnet[n] = Subnet[b]})
<1> DEFINE dests == {n \in Stations : Subnet[n] \in {Subnet[b]}}
           D == {n \in Normals : Subnet[n] = Subnet[b]}
<1>1. D \in SUBSET dests /\ dests \in SUBSET Stations
  BY Kinds
<1>2. ASSUME NEW n \in dests
      PROVE  /\ Carried(Msg("ForwardedNPDU", m, o, b, n, TRUE), m, o)
             /\ ~Unicasts(Msg("ForwardedNPDU", m, o, b, n, TRUE))
             /\ Takes(Msg("ForwardedNPDU", m, o, b, n, TRUE)) <=> n \in D
  <2>1. n \in Stations /\ Subnet[n] = Subnet[b]
    BY <1>2
  <2>2. (n # b /\ (n \in Foreigns => BBMDOf[n] = b)) <=> n \in D
    <3>1. n \in BBMDs => n = b
      BY <2>1, OtherSubnet
    <3>2. n \in Foreigns => BBMDOf[n] # b
      BY <2>1, TopologyAssumption
    <3> QED  BY <2>1, <3>1, <3>2, Kinds
  <2>3. ASSUME n \in D
        PROVE  n # o /\ b = Parent(o, n) /\ n \notin BBMDs
    <3>1. n \in Normals /\ n \notin BBMDs /\ n \notin Foreigns
      BY <2>3, Kinds
    <3>2. BBMDNear(n) = b
      BY <2>1, <3>1, NearLemma
    <3>3. o \notin Foreigns => Subnet[n] # Subnet[o]
      BY <2>1, HomeLemma, OtherSubnet
    <3>4. n # o
      BY <3>1, <3>3
    <3>5. BBMDNear(n) \notin Directed \ {Home(o)}
      BY <3>2
    <3> QED  BY <3>1, <3>2, <3>3, <3>4, <3>5 DEF Parent
  <2> HIDE DEF D, dests
  <2>4. n # b /\ (n \in Foreigns => BBMDOf[n] = b) =>
            /\ n # o /\ b = Parent(o, n)
            /\ n \in BBMDs => n # Home(o) /\ b = Home(o) /\ TRUE = (n \in Directed)
    BY <2>2, <2>3
  <2> QED  BY <2>1, <2>2, <2>4, ForwardedLemma
<1> HIDE DEF D, dests
<1>3. Sent(Datagrams("ForwardedNPDU", m, o, b, dests, TRUE), m, o, b, D)
  BY <1>1, <1>2, PartLemma
<1> QED  BY <1>3 DEF LocalBroadcast, Broadcast, dests, D

\* To the peers of the BBMD that is the first to have a broadcast.
LEMMA ToPeersLemma ==
    ASSUME NEW m, NEW o \in Stations, NEW b \in BBMDs, b = Home(o)
    PROVE  Sent(ToPeers(b, m, o), m, o, b,
                (BBMDs \ {b}) \cup {n \in Normals : BBMDNear(n) \in Directed \ {b}})
<1> DEFINE P == (BBMDs \ {b}) \ Directed
           Q == (BBMDs \ {b}) \cap Directed
           N == {n \in Normals : BBMDNear(n) \in Directed \ {b}}
           nets == {Subnet[p] : p \in Q}
           dests == {s \in Stations : Subnet[s] \in nets}
<1>1. BDT[b] = BBMDs
  BY TopologyAssumption
<1>2. ToPeers(b, m, o) = Datagrams("ForwardedNPDU", m, o, b, P, FALSE)
                             (+) Datagrams("ForwardedNPDU", m, o, b, dests, TRUE)
  BY <1>1 DEF ToPeers, Unicast, Broadcast
<1>3. ASSUME NEW n \in BBMDs, n # b
      PROVE  /\ n \in Stations /\ n \notin Foreigns /\ n # o /\ n # Home(o)
             /\ b = Parent(o, n) /\ b = Home(o)
  <2>1. n # o
    BY <1>3, HomeLemma
  <2> QED  BY <1>3, <2>1, Kinds DEF Parent
<1>4. Sent(Datagrams("ForwardedNPDU", m, o, b, P, FALSE), m, o, b, P)
  <2>1. P \in SUBSET Stations
    BY Kinds
  <2>2. ASSUME NEW n \in P
        PROVE  /\ Carried(Msg("ForwardedNPDU", m, o, b, n, FALSE), m, o)
               /\ ~Unicasts(Msg("ForwardedNPDU", m, o, b, n, FALSE))
               /\ Takes(Msg("ForwardedNPDU", m, o, b, n, FALSE)) <=> n \in P
    <3>1. /\ n \in Stations /\ n \notin Foreigns /\ n # o /\ n # Home(o)
          /\ b = Parent(o, n) /\ b = Home(o)
      BY <1>3
    <3>2. n # b /\ n \in P /\ n \notin Directed
      OBVIOUS
    <3> HIDE DEF P
    <3>3. n # b /\ (n \in Foreigns => BBMDOf[n] = b) =>
              /\ n # o /\ b = Parent(o, n)
              /\ n \in BBMDs => n # Home(o) /\ b = Home(o) /\ FALSE = (n \in Directed)
      BY <3>1, <3>2
    <3> QED  BY <3>1, <3>2, <3>3, ForwardedLemma
  <2> HIDE DEF P
  <2> QED  BY <2>1, <2>2, PartLemma
<1>5. Sent(Datagrams("ForwardedNPDU", m, o, b, dests, TRUE), m, o, b, Q \cup N)
  <2>1. dests \in SUBSET Stations
    OBVIOUS
  <2>2. Q \cup N \in SUBSET dests
    <3>1. ASSUME NEW n \in N
          PROVE  Subnet[n] \in nets /\ n \in Stations
      BY <3>1, NearLemma, Kinds
    <3> QED  BY <3>1, Kinds
  <2>3. ASSUME NEW n \in dests
        PROVE  /\ Carried(Msg("ForwardedNPDU", m, o, b, n, TRUE), m, o)
               /\ ~Unicasts(Msg("ForwardedNPDU", m, o, b, n, TRUE))
               /\ Takes(Msg("ForwardedNPDU", m, o, b, n, TRUE)) <=> n \in Q \cup N
    <3>1. PICK p \in Q : Subnet[n] = Subnet[p]
      BY <2>3
    <3>2. p \in BBMDs /\ p # b /\ p \in Directed /\ n \in Stations
      BY <2>3, <3>1
    <3>3. n \notin Foreigns
      BY <3>1, <3>2, TopologyAssumption
    <3>4. n # b
      BY <3>1, <3>2, OtherSubnet
    <3>5. CASE n \in BBMDs
      <4>1. n = p
        BY <3>1, <3>2, <3>5, OtherSubnet
      <4>2. n \in Directed /\ n \in Q \cup N
        BY <3>1, <3>2, <4>1
      <4>3. /\ n \in Stations /\ n \notin Foreigns /\ n # o /\ n # Home(o)
            /\ b = Parent(o, n) /\ b = Home(o)
        BY <1>3, <3>4, <3>5
      <4> HIDE DEF Q, N, dests, nets
      <4> QED  BY <3>3, <3>4, <4>2, <4>3, ForwardedLemma
    <3>6. CASE n \in Normals
      <4>1. BBMDNear(n) = p
        BY <3>1, <3>2, <3>6, NearLemma
      <4>2. n \in N /\ n \notin BBMDs
        BY <3>2, <3>6, <4>1, Kinds
      <4>3. o \notin Foreigns => Subnet[n] # Subnet[o]
        BY <3>1, <3>2, HomeLemma, OtherSubnet
      <4>4. n # o
        BY <3>3, <4>3
      <4>5. b = Parent(o, n)
        BY <3>2, <3>3, <4>1, <4>2, <4>3 DEF Parent
      <4> HIDE DEF Q, N, dests, nets
      <4> QED  BY <3>2, <3>3, <3>4, <4>2, <4>4, <4>5, ForwardedLemma
    <3> QED  BY <3>2, <3>3, <3>5, <3>6, Kinds
  <2> HIDE DEF dests, Q, N
  <2> QED  BY <2>1, <2>2, <2>3, PartLemma
<1>6. P \cap (Q \cup N) = {}
  BY Kinds
<1>7. P \cup (Q \cup N) = (BBMDs \ {b}) \cup N
  OBVIOUS
<1> HIDE DEF P, Q, N, dests, nets
<1> DEFINE A == Datagrams("ForwardedNPDU", m, o, b, P, FALSE)
           B == Datagrams("ForwardedNPDU", m, o, b, dests, TRUE)
<1> HIDE DEF A, B
<1>8. Sent(A, m, o, b, P) /\ Sent(B, m, o, b, Q \cup N)
  BY <1>4, <1>5 DEF A, B
<1>9. Sent(A (+) B, m, o, b, P \cup (Q \cup N))
  BY <1>6, <1>8, JoinLemma
<1>10. ToPeers(b, m, o) = A (+) B
  BY <1>2 DEF A, B
<1> QED  BY <1>7, <1>9, <1>10 DEF N


LEMMA OriginalLemma ==
    ASSUME NEW m, NEW o \in Normals \cup BBMDs
    PROVE  Sent(LocalBroadcast("OriginalBroadcastNPDU", m, o, o), m, o, o,
                {n \in Normals \cup BBMDs : Subnet[n] = Subnet[o]} \ {o})
<1> DEFINE dests == {n \in Stations : Subnet[n] \in {Subnet[o]}}
           D == {n \in Normals \cup BBMDs : Subnet[n] = Subnet[o]} \ {o}
           d(n) == Msg("OriginalBroadcastNPDU", m, o, o, n, TRUE)
<1>1. D \in SUBSET dests /\ dests \in SUBSET Stations
  BY Kinds
<1>2. ASSUME NEW n \in dests
      PROVE  Carried(d(n), m, o) /\ ~Unicasts(d(n)) /\ (Takes(d(n)) <=> n \in D)
  <2>1. /\ d(n).type = "OriginalBroadcastNPDU" /\ d(n).npdu = m /\ d(n).source = o
        /\ d(n).dest = n
    BY DEF Msg
  <2> HIDE DEF d
  <2>2. d(n).type \in Carriers /\ RealSource(d(n)) = o /\ ~Unicasts(d(n))
    BY <2>1 DEF Carriers, RealSource, Unicasts
  <2>3. Takes(d(n)) <=> n # o /\ n \notin Foreigns
    BY <2>1, <2>2 DEF Takes, Reflected
  <2>4. (n # o /\ n \notin Foreigns) <=> n \in D
    BY Kinds
  <2>5. ASSUME n \in D
        PROVE  o = Parent(o, n) /\ (n \in BBMDs => o \in Normals /\ n = Home(o))
    <3>1. n # o /\ Subnet[n] = Subnet[o] /\ n \notin Foreigns /\ o \notin Foreigns
      BY <2>5, Kinds
    <3>2. CASE n \in BBMDs
      <4>1. o \notin BBMDs
        BY <3>1, <3>2, OtherSubnet
      <4>2. n = Home(o)
        BY <3>1, <3>2, HomeLemma, OtherSubnet, Kinds
      <4> QED  BY <3>1, <3>2, <4>1, <4>2 DEF Parent
    <3>3. CASE n \notin BBMDs
      BY <3>1, <3>3 DEF Parent
    <3> QED  BY <3>2, <3>3
  <2> HIDE DEF D, dests
  <2>6. Takes(d(n)) => (d(n).dest \in BBMDs => Fits(d(n), o))
    BY <2>1, <2>3, <2>4, <2>5 DEF Fits
  <2>7. Carried(d(n), m, o)
    BY <2>1, <2>2, <2>3, <2>4, <2>5, <2>6 DEF Carried
  <2> QED  BY <2>2, <2>3, <2>4, <2>7
<1> HIDE DEF D, dests
<1>3. Sent(Datagrams("OriginalBroadcastNPDU", m, o, o, dests, TRUE), m, o, o, D)
  BY <1>1, <1>2, PartLemma
<1> QED  BY <1>3 DEF LocalBroadcast, Broadcast, dests, D

LEMMA DistributeLemma ==
    ASSUME NEW m, NEW o \in Foreigns
    PROVE  Sent(Unicast("DistributeBroadcastToNetwork", m, o, o, {BBMDOf[o]}), m, o, o, {BBMDOf[o]})
<1> DEFINE b == BBMDOf[o]
           d == Msg("DistributeBroadcastToNetwork", m, o, o, b, FALSE)
<1>1. b \in BBMDs /\ b \in Stations /\ b \notin Foreigns /\ b # o /\ o \in Stations
  BY Kinds
<1>2. b = Home(o) /\ Parent(o, b) = o
  BY <1>1, HomeLemma DEF Parent
<1>3. /\ d.type = "DistributeBroadcastToNetwork" /\ d.npdu = m /\ d.source = o
      /\ d.dest = b /\ d.cast = FALSE
  BY DEF Msg
<1> HIDE DEF d, b
<1>4. d.type \in Carriers /\ RealSource(d) = o /\ ~Unicasts(d)
  BY <1>3 DEF Carriers, RealSource, Unicasts
<1>5. Takes(d)
  BY <1>1, <1>3, <1>4 DEF Takes, Reflected
<1>6. Fits(d, o)
  BY <1>2, <1>3 DEF Fits
<1>7. Carried(d, m, o)
  BY <1>1, <1>2, <1>3, <1>4, <1>6 DEF Carried
<1>8. Sent(Datagrams("DistributeBroadcastToNetwork", m, o, o, {b}, FALSE), m, o, o, {b})
  <2>1. {b} \in SUBSET Stations
    BY <1>1
  <2>2. ASSUME NEW n \in {b}
        PROVE  LET e == Msg("DistributeBroadcastToNetwork", m, o, o, n, FALSE)
               IN  Carried(e, m, o) /\ ~Unicasts(e) /\ (Takes(e) <=> n \in {b})
    BY <1>4, <1>5, <1>7 DEF d
  <2> QED  BY <2>1, <2>2, PartLemma
<1> QED  BY <1>8 DEF Unicast, b

-----------------------------------------------------------------------------
(* Whom a station serves.                                                  *)

LEMMA NormalServes ==
    ASSUME NEW o \in Normals
    PROVE  Served(o, o) = {n \in Normals \cup BBMDs : Subnet[n] = Subnet[o]} \ {o}
<1>1. o \in Stations /\ o \notin Foreigns /\ o \notin BBMDs
  BY Kinds
<1>2. Home(o) \in BBMDs /\ Subnet[Home(o)] = Subnet[o]
  BY <1>1, HomeLemma
<1>3. ASSUME NEW n \in Stations \ {o}
      PROVE  n \in Served(o, o) <=> n \in Normals \cup BBMDs /\ Subnet[n] = Subnet[o]
  <2>1. CASE n \in Foreigns
    BY <1>1, <2>1, Kinds DEF Served, Parent
  <2>2. CASE n \in BBMDs
    <3>1. Parent(o, n) = o <=> n = Home(o)
      BY <1>1, <1>2, <2>2, Kinds DEF Parent
    <3>2. n = Home(o) <=> Subnet[n] = Subnet[o]
      BY <1>2, <2>2, OtherSubnet
    <3> QED  BY <2>2, <3>1, <3>2, Kinds DEF Served
  <2>3. CASE n \in Normals
    <3>1. BBMDNear(n) \in BBMDs
      BY <2>3, NearLemma
    <3>2. Parent(o, n) = o <=> Subnet[n] = Subnet[o]
      BY <1>1, <1>2, <2>3, <3>1, Kinds DEF Parent
    <3> QED  BY <2>3, <3>2, Kinds DEF Served
  <2> QED  BY <2>1, <2>2, <2>3, Kinds
<1> QED  BY <1>3, Kinds DEF Served

LEMMA ForeignServes ==
    ASSUME NEW o \in Foreigns
    PROVE  Served(o, o) = {BBMDOf[o]}
<1>1. o \in Stations /\ o \notin BBMDs
  BY Kinds
<1>2. Home(o) \in BBMDs /\ Home(o) = BBMDOf[o] /\ Home(o) \in Stations \ {o}
  BY <1>1, HomeLemma, Kinds
<1>3. ASSUME NEW n \in Stations \ {o}
      PROVE  n \in Served(o, o) <=> n = BBMDOf[o]
  <2>1. CASE n \in Foreigns
    BY <1>1, <1>2, <2>1, Kinds DEF Served, Parent
  <2>2. CASE n \in BBMDs
    BY <1>1, <1>2, <2>2, Kinds DEF Served, Parent
  <2>3. CASE n \in Normals
    <3>1. BBMDNear(n) \in BBMDs
      BY <2>3, NearLemma
    <3> QED  BY <1>1, <1>2, <2>3, <3>1, Kinds DEF Served, Parent
  <2> QED  BY <2>1, <2>2, <2>3, Kinds
<1> QED  BY <1>2, <1>3 DEF Served

\* The foreign devices that a BBMD hands a broadcast of o on to.
Devices(o, b) ==
    IF o \in Foreigns /\ b = Home(o) /\ b \in Bare THEN {} ELSE fdt[b] \ {o}

\* A broadcast's first BBMD serves the others, foreign devices, and the subnets
\* that its sender did not reach.
LEMMA HomeServes ==
    ASSUME NEW o \in Stations, NEW b \in BBMDs, b = Home(o), Tables
    PROVE  Served(o, b) =
               ((BBMDs \ {b}) \cup {n \in Normals : BBMDNear(n) \in Directed \ {b}})
                   \cup Devices(o, b)
                   \cup {n \in Normals : Subnet[n] = Subnet[b] /\ o \notin Normals}
<1> DEFINE N == {n \in Normals : BBMDNear(n) \in Directed \ {b}}
           L == {n \in Normals : Subnet[n] = Subnet[b] /\ o \notin Normals}
<1>1. /\ Devices(o, b) \subseteq Foreigns \ {o}
      /\ o \notin Foreigns => Subnet[b] = Subnet[o]
      /\ b \in Stations /\ (o \in BBMDs => o = b)
  BY HomeLemma, Kinds DEF Tables, Devices
<1>2. ASSUME NEW n \in Foreigns, n # o
      PROVE  n \in Served(o, b) <=> n \in Devices(o, b)
  <2>1. Parent(o, n) = BBMDOf[n] /\ n \in Stations
    BY <1>2, Kinds DEF Parent
  <2>2. n \in fdt[b] => BBMDOf[n] = b
    BY DEF Tables
  <2> QED  BY <1>2, <2>1, <2>2 DEF Served, Devices
<1>3. ASSUME NEW n \in BBMDs, n # o
      PROVE  n \in Served(o, b) <=> n # b
  <2>1. n \in Stations /\ n \notin Foreigns
    BY Kinds
  <2>2. Parent(o, n) = IF n = b THEN o ELSE b
    BY <2>1 DEF Parent
  <2> QED  BY <1>3, <2>1, <2>2 DEF Served
<1>4. ASSUME NEW n \in Normals, n # o
      PROVE  n \in Served(o, b) <=> n \in N \cup L
  <2>1. n \in Stations /\ n \notin Foreigns /\ n \notin BBMDs
    BY Kinds
  <2>2. /\ BBMDNear(n) \in BBMDs
        /\ BBMDNear(n) = b <=> Subnet[n] = Subnet[b]
    BY NearLemma
  <2>3. CASE o \notin Foreigns /\ Subnet[n] = Subnet[o]
    <3>1. Parent(o, n) = o /\ Subnet[n] = Subnet[b] /\ BBMDNear(n) = b
      BY <1>1, <2>1, <2>2, <2>3 DEF Parent
    <3>2. o = b <=> o \notin Normals
      BY <1>1, <2>3, Kinds
    <3> QED  BY <1>4, <2>1, <3>1, <3>2 DEF Served
  <2>4. CASE ~(o \notin Foreigns /\ Subnet[n] = Subnet[o])
    <3>1. Parent(o, n) = b <=> BBMDNear(n) \in Directed \ {b} \/ BBMDNear(n) = b
      BY <2>1, <2>4 DEF Parent
    <3>2. BBMDNear(n) = b => o \notin Normals
      BY <1>1, <2>2, <2>4, Kinds
    <3> QED  BY <1>4, <2>1, <2>2, <3>1, <3>2 DEF Served
  <2> QED  BY <2>3, <2>4
<1>5. o \notin Served(o, b) /\ o \notin Devices(o, b) /\ o \notin BBMDs \ {b} /\ o \notin N \cup L
  <2>1. o \in Normals => BBMDNear(o) = b
    BY Kinds DEF Home
  <2> QED  BY <1>1, <2>1, Kinds DEF Served
<1>6. Served(o, b) \subseteq Stations
  BY DEF Served
<1>7. \A n \in Served(o, b) : n \in ((BBMDs \ {b}) \cup N) \cup Devices(o, b) \cup L
  BY <1>2, <1>3, <1>4, <1>5, <1>6, Kinds
<1>8. \A n \in ((BBMDs \ {b}) \cup N) \cup Devices(o, b) \cup L : n \in Served(o, b)
  <2> HIDE DEF N, L
  <2>1. N \cup L \subseteq Normals
    BY DEF N, L
  <2>2. \A n \in BBMDs \ {b} : n \in Served(o, b)
    BY <1>3, <1>5
  <2>3. \A n \in N \cup L : n \in Served(o, b)
    BY <1>4, <1>5, <2>1
  <2>4. \A n \in Devices(o, b) : n \in Served(o, b)
    BY <1>1, <1>2
  <2> QED  BY <2>2, <2>3, <2>4
<1> QED  BY <1>7, <1>8

\* Another BBMD serves its subnet unless the broadcast came there, and its devices.
LEMMA OtherServes ==
    ASSUME NEW o \in Stations, NEW b \in BBMDs, b # Home(o), Tables
    PROVE  Served(o, b) =
               fdt[b] \cup {n \in Normals : Subnet[n] = Subnet[b] /\ b \notin Directed}
<1> DEFINE L == {n \in Normals : Subnet[n] = Subnet[b] /\ b \notin Directed}
<1>1. /\ o # b /\ b \in Stations /\ Home(o) \in BBMDs
      /\ o \notin Foreigns => Subnet[o] = Subnet[Home(o)]
  BY HomeLemma, Kinds
<1>2. Subnet[Home(o)] # Subnet[b]
  BY <1>1, OtherSubnet
<1>3. ASSUME NEW n \in Foreigns, n # o
      PROVE  n \in Served(o, b) <=> n \in fdt[b]
  <2>1. Parent(o, n) = BBMDOf[n] /\ n \in Stations
    BY <1>3, Kinds DEF Parent
  <2>2. n \in fdt[b] => BBMDOf[n] = b
    BY DEF Tables
  <2> QED  BY <1>3, <2>1, <2>2 DEF Served
<1>4. ASSUME NEW n \in BBMDs
      PROVE  n \notin Served(o, b)
  BY <1>1, Kinds DEF Served, Parent
<1>5. ASSUME NEW n \in Normals, n # o
      PROVE  n \in Served(o, b) <=> n \in L
  <2>1. n \in Stations /\ n \notin Foreigns /\ n \notin BBMDs
    BY Kinds
  <2>2. /\ BBMDNear(n) \in BBMDs
        /\ BBMDNear(n) = b <=> Subnet[n] = Subnet[b]
    BY NearLemma
  <2>3. CASE o \notin Foreigns /\ Subnet[n] = Subnet[o]
    BY <1>1, <1>2, <2>1, <2>3 DEF Served, Parent
  <2>4. CASE ~(o \notin Foreigns /\ Subnet[n] = Subnet[o])
    <3>1. Parent(o, n) = b <=> BBMDNear(n) = b /\ b \notin Directed
      BY <1>1, <2>1, <2>4 DEF Parent
    <3> QED  BY <1>5, <2>1, <2>2, <3>1 DEF Served
  <2> QED  BY <2>3, <2>4
<1>6. o \notin fdt[b] /\ o \notin L /\ o \notin Served(o, b)
  <2>1. o \in fdt[b] => o \in Foreigns /\ BBMDOf[o] = b
    BY DEF Tables
  <2>2. o \in Foreigns => Home(o) = BBMDOf[o]
    BY HomeLemma
  <2> QED  BY <1>1, <1>2, <2>1, <2>2, Kinds DEF Served
<1>7. Served(o, b) \subseteq Stations /\ fdt[b] \subseteq Foreigns /\ L \subseteq Normals
  BY DEF Served, Tables
<1>8. \A n \in Served(o, b) : n \in fdt[b] \cup L
  BY <1>3, <1>4, <1>5, <1>6, <1>7, Kinds
<1>9. \A n \in fdt[b] \cup L : n \in Served(o, b)
  <2> HIDE DEF L
  <2> QED  BY <1>3, <1>5, <1>6, <1>7
<1> QED  BY <1>8, <1>9

-----------------------------------------------------------------------------
(* Every station sends to those it serves.                                 *)

LEMMA NormalSends ==
    ASSUME NEW m, NEW o \in Normals
    PROVE  Sent(LocalBroadcast("OriginalBroadcastNPDU", m, o, o), m, o, o, Served(o, o))
BY OriginalLemma, NormalServes

LEMMA ForeignSends ==
    ASSUME NEW m, NEW o \in Foreigns
    PROVE  Sent(Unicast("DistributeBroadcastToNetwork", m, o, o, {BBMDOf[o]}), m, o, o, Served(o, o))
BY DistributeLemma, ForeignServes

LEMMA DevicesLemma ==
    ASSUME NEW m, NEW o \in Stations, NEW b \in BBMDs, Tables
    PROVE  /\ Sent(ToForeign(b, m, o, Devices(o, b)), m, o, b, Devices(o, b))
           /\ Devices(o, b) \subseteq Foreigns
<1>1. Devices(o, b) \in SUBSET Foreigns /\ o \notin Devices(o, b)
      /\ \A f \in Devices(o, b) : BBMDOf[f] = b
  BY DEF Devices, Tables
<1> QED  BY <1>1, ToForeignLemma

LEMMA BBMDSends ==
    ASSUME NEW m, NEW o \in BBMDs, Tables
    PROVE  Sent(LocalBroadcast("OriginalBroadcastNPDU", m, o, o)
                    (+) ToPeers(o, m, o) (+) ToForeign(o, m, o, fdt[o]), m, o, o, Served(o, o))
<1> DEFINE A == LocalBroadcast("OriginalBroadcastNPDU", m, o, o)
           B == ToPeers(o, m, o)
           C == ToForeign(o, m, o, fdt[o])
           L == {n \in Normals : Subnet[n] = Subnet[o]}
           P == (BBMDs \ {o}) \cup {n \in Normals : BBMDNear(n) \in Directed \ {o}}
           D == fdt[o]
<1>1. o \in Stations /\ o = Home(o) /\ o \notin Foreigns /\ o \notin Normals
  BY HomeLemma, Kinds
<1>2. Sent(A, m, o, o, L)
  <2>1. \A n \in BBMDs : Subnet[n] = Subnet[o] => n = o
    BY OtherSubnet
  <2>2. {n \in Normals \cup BBMDs : Subnet[n] = Subnet[o]} \ {o} = L
    BY <1>1, <2>1
  <2> QED  BY <2>2, OriginalLemma
<1>3. Sent(B, m, o, o, P)
  BY <1>1, ToPeersLemma
<1>4. Sent(C, m, o, o, D) /\ D \subseteq Foreigns /\ Devices(o, o) = D
  <2>1. Devices(o, o) = D
    BY <1>1 DEF Devices, Tables
  <2> QED  BY <1>1, <2>1, DevicesLemma
<1>5. L \cap P = {} /\ (L \cup P) \cap D = {}
  <2>1. \A n \in L : BBMDNear(n) = o
    BY NearLemma
  <2> QED  BY <1>4, <2>1, Kinds
<1>6. Served(o, o) = (L \cup P) \cup D
  <2>1. Served(o, o) = P \cup Devices(o, o)
                           \cup {n \in Normals : Subnet[n] = Subnet[o] /\ o \notin Normals}
    BY <1>1, HomeServes
  <2>2. {n \in Normals : Subnet[n] = Subnet[o] /\ o \notin Normals} = L
    BY <1>1
  <2> HIDE DEF P, L, D
  <2> QED  BY <1>4, <2>1, <2>2
<1> HIDE DEF A, B, C, L, P, D
<1>7. Sent(A (+) B, m, o, o, L \cup P)
  BY <1>2, <1>3, <1>5, JoinLemma
<1>8. Sent(A (+) B (+) C, m, o, o, (L \cup P) \cup D)
  BY <1>4, <1>5, <1>7, JoinLemma
<1> QED  BY <1>6, <1>8 DEF A, B, C

LEMMA HomeSends ==
    ASSUME NEW m, NEW o \in Normals, NEW b \in BBMDs, b = Home(o), Tables
    PROVE  Sent(ToPeers(b, m, o) (+) ToForeign(b, m, o, fdt[b]), m, o, b, Served(o, b))
<1> DEFINE B == ToPeers(b, m, o)
           C == ToForeign(b, m, o, fdt[b])
           P == (BBMDs \ {b}) \cup {n \in Normals : BBMDNear(n) \in Directed \ {b}}
           D == fdt[b]
<1>1. o \in Stations /\ o \notin Foreigns /\ o \in Normals
  BY Kinds
<1>2. Sent(B, m, o, b, P)
  BY <1>1, ToPeersLemma
<1>3. Sent(C, m, o, b, D) /\ D \subseteq Foreigns /\ Devices(o, b) = D
  <2>1. Devices(o, b) = D
    BY <1>1 DEF Devices, Tables
  <2> QED  BY <1>1, <2>1, DevicesLemma
<1>4. P \cap D = {}
  BY <1>3, Kinds
<1>5. Served(o, b) = P \cup D
  <2>1. Served(o, b) = P \cup Devices(o, b)
                           \cup {n \in Normals : Subnet[n] = Subnet[b] /\ o \notin Normals}
    BY <1>1, HomeServes
  <2> HIDE DEF P, D
  <2> QED  BY <1>1, <1>3, <2>1
<1> HIDE DEF B, C, P, D
<1>6. Sent(B (+) C, m, o, b, P \cup D)
  BY <1>2, <1>3, <1>4, JoinLemma
<1> QED  BY <1>5, <1>6 DEF B, C

LEMMA HomeDistributes ==
    ASSUME NEW m, NEW o \in Foreigns, NEW b \in BBMDs, b = Home(o), Tables
    PROVE  Sent(LocalBroadcast("ForwardedNPDU", m, o, b) (+) ToPeers(b, m, o)
                    (+) ToForeign(b, m, o, IF b \in Bare THEN {} ELSE fdt[b] \ {o}),
                m, o, b, Served(o, b))
<1> DEFINE A == LocalBroadcast("ForwardedNPDU", m, o, b)
           B == ToPeers(b, m, o)
           D == IF b \in Bare THEN {} ELSE fdt[b] \ {o}
           C == ToForeign(b, m, o, D)
           L == {n \in Normals : Subnet[n] = Subnet[b]}
           P == (BBMDs \ {b}) \cup {n \in Normals : BBMDNear(n) \in Directed \ {b}}
<1>1. o \in Stations /\ o \notin Normals /\ o \in Foreigns
  BY Kinds
<1>2. Sent(A, m, o, b, L)
  BY <1>1, LocalLemma
<1>3. Sent(B, m, o, b, P)
  BY <1>1, ToPeersLemma
<1>4. Sent(C, m, o, b, D) /\ D \subseteq Foreigns /\ Devices(o, b) = D
  <2>1. Devices(o, b) = D
    BY DEF Devices
  <2> HIDE DEF D
  <2> QED  BY <1>1, <2>1, DevicesLemma
<1>5. L \cap P = {} /\ (L \cup P) \cap D = {}
  <2>1. \A n \in L : BBMDNear(n) = b
    BY NearLemma
  <2> HIDE DEF D
  <2> QED  BY <1>4, <2>1, Kinds
<1>6. Served(o, b) = (L \cup P) \cup D
  <2>1. Served(o, b) = P \cup Devices(o, b)
                           \cup {n \in Normals : Subnet[n] = Subnet[b] /\ o \notin Normals}
    BY <1>1, HomeServes
  <2>2. {n \in Normals : Subnet[n] = Subnet[b] /\ o \notin Normals} = L
    BY <1>1
  <2> HIDE DEF P, L, D
  <2> QED  BY <1>4, <2>1, <2>2
<1> HIDE DEF A, B, C, L, P, D
<1>7. Sent(A (+) B, m, o, b, L \cup P)
  BY <1>2, <1>3, <1>5, JoinLemma
<1>8. Sent(A (+) B (+) C, m, o, b, (L \cup P) \cup D)
  BY <1>4, <1>5, <1>7, JoinLemma
<1> QED  BY <1>6, <1>8 DEF A, B, C, D

LEMMA OtherSends ==
    ASSUME NEW m, NEW o \in Stations, NEW b \in BBMDs, b # Home(o), Tables
    PROVE  Sent((IF b \in Directed THEN EmptyBag ELSE LocalBroadcast("ForwardedNPDU", m, o, b))
                    (+) ToForeign(b, m, o, fdt[b]), m, o, b, Served(o, b))
<1> DEFINE A == IF b \in Directed THEN EmptyBag ELSE LocalBroadcast("ForwardedNPDU", m, o, b)
           C == ToForeign(b, m, o, fdt[b])
           L == {n \in Normals : Subnet[n] = Subnet[b] /\ b \notin Directed}
           D == fdt[b]
<1>1. Sent(A, m, o, b, L)
  <2>1. CASE b \in Directed
    <3>1. L = {} /\ A = EmptyBag
      BY <2>1
    <3> HIDE DEF A, L
    <3> QED  BY <3>1, NothingSent
  <2>2. CASE b \notin Directed
    <3>1. /\ L = {n \in Normals : Subnet[n] = Subnet[b]}
          /\ A = LocalBroadcast("ForwardedNPDU", m, o, b)
      BY <2>2
    <3> HIDE DEF A, L
    <3> QED  BY <2>2, <3>1, LocalLemma
  <2> QED  BY <2>1, <2>2
<1>2. Sent(C, m, o, b, D) /\ D \subseteq Foreigns
  <2>1. o \in fdt[b] => o \in Foreigns /\ BBMDOf[o] = b
    BY DEF Tables
  <2>2. o \in Foreigns => Home(o) = BBMDOf[o]
    BY HomeLemma
  <2>3. Devices(o, b) = D
    BY <2>1, <2>2 DEF Devices
  <2> HIDE DEF D
  <2>4. C = ToForeign(b, m, o, D)
    BY DEF D
  <2> HIDE DEF C
  <2> QED  BY <2>3, <2>4, DevicesLemma
<1>3. L \cap D = {}
  BY <1>2, Kinds
<1>4. Served(o, b) = L \cup D
  BY OtherServes
<1> HIDE DEF A, C, L, D
<1>5. Sent(A (+) C, m, o, b, L \cup D)
  BY <1>1, <1>2, <1>3, JoinLemma
<1> QED  BY <1>4, <1>5 DEF A, C

-----------------------------------------------------------------------------
(* What is under way after a step.                                         *)

\* What is left of the datagrams when those of T have gone.
Left(L, T) ==
    /\ DOMAIN L \subseteq DOMAIN net
    /\ \A e \in DOMAIN net : net[e] = 1 => /\ e \in DOMAIN L <=> e \notin T
                                           /\ e \in DOMAIN L => L[e] = 1

LEMMA NoneTaken == Left(net, {})
BY DEF Left

LEMMA SomeTaken ==
    ASSUME NEW T
    PROVE  Left(net (-) SetToBag(T), T)
<1> DEFINE L == net (-) SetToBag(T)
<1>1. \A e \in DOMAIN net \ T : net[e] = 1 => e \in DOMAIN L /\ L[e] = 1
  <2>1. DOMAIN SetToBag(T) = T
    BY DEF SetToBag
  <2>2. ASSUME NEW e \in DOMAIN net \ T, net[e] = 1
        PROVE  e \in DOMAIN L /\ L[e] = 1
    <3>1. 1 - 0 = 1 /\ 1 > 0
      OBVIOUS
    <3> QED  BY <2>1, <2>2, <3>1 DEF (-)
  <2> QED  BY <2>2
<1>2. DOMAIN L \subseteq DOMAIN net
  BY DEF (-)
<1>3. \A e \in DOMAIN net \cap T : net[e] = 1 => e \notin DOMAIN L
  <2>1. DOMAIN SetToBag(T) = T /\ \A e \in T : SetToBag(T)[e] = 1
    BY DEF SetToBag
  <2>2. ASSUME NEW e \in DOMAIN net \cap T, net[e] = 1
        PROVE  e \notin DOMAIN L
    <3>1. ~(1 - 1 > 0)
      OBVIOUS
    <3> QED  BY <2>1, <2>2, <3>1 DEF (-)
  <2> QED  BY <2>2
<1> HIDE DEF L
<1>4. Left(L, T)
  BY <1>1, <1>2, <1>3 DEF Left
<1> QED  BY <1>4 DEF L

LEMMA NetGrows ==
    ASSUME NEW L, NEW T, NEW X, Left(L, T), net' = L (+) X
    PROVE  /\ DOMAIN net' = DOMAIN L \cup DOMAIN X
           /\ DOMAIN net' \subseteq DOMAIN net \cup DOMAIN X
           /\ \A e \in DOMAIN L \ DOMAIN X : L[e] = 1 => net'[e] = 1
           /\ \A e \in DOMAIN X \ DOMAIN L : X[e] = 1 => net'[e] = 1
<1>1. /\ DOMAIN (L (+) X) = DOMAIN L \cup DOMAIN X
      /\ \A e \in DOMAIN L \ DOMAIN X : L[e] = 1 => (L (+) X)[e] = 1
      /\ \A e \in DOMAIN X \ DOMAIN L : X[e] = 1 => (L (+) X)[e] = 1
  BY SumLemma
<1> DEFINE S == L (+) X
<1> HIDE DEF S
<1>2. /\ DOMAIN S = DOMAIN L \cup DOMAIN X
      /\ \A e \in DOMAIN L \ DOMAIN X : L[e] = 1 => S[e] = 1
      /\ \A e \in DOMAIN X \ DOMAIN L : X[e] = 1 => S[e] = 1
  BY <1>1 DEF S
<1>3. net' = S
  BY DEF S
<1> QED  BY <1>2, <1>3 DEF Left

\* A message that has nothing to do with what is sent and gone.
LEMMA ComingKept ==
    ASSUME NEW L, NEW T, NEW X, Left(L, T), net' = L (+) X,
           NEW k, \A e \in Coming(k) : net[e] = 1 /\ e \notin T,
           \A e \in DOMAIN X : ~(e.npdu = k /\ Takes(e))
    PROVE  Coming(k)' = Coming(k) /\ \A e \in Coming(k)' : net'[e] = 1
<1>0. /\ DOMAIN net' = DOMAIN L \cup DOMAIN X
      /\ \A e \in DOMAIN L \ DOMAIN X : L[e] = 1 => net'[e] = 1
      /\ \A e \in DOMAIN X \ DOMAIN L : X[e] = 1 => net'[e] = 1
  BY NetGrows
<1>1. \A e \in Coming(k) : e \in DOMAIN L /\ L[e] = 1 /\ e \notin DOMAIN X
  BY DEF Left, Coming
<1>2. \A e \in Coming(k) : e \in DOMAIN net' /\ net'[e] = 1
  BY <1>0, <1>1
<1>3. \A e \in DOMAIN net' : e.npdu = k /\ Takes(e) => e \in Coming(k)
  BY <1>0 DEF Coming, Left
<1> QED  BY <1>2, <1>3 DEF Coming

\* A message that is sent on to D.
LEMMA ComingSent ==
    ASSUME NEW L, NEW T, NEW X, Left(L, T), net' = L (+) X,
           NEW m, NEW o, NEW x, NEW D, Sent(X, m, o, x, D),
           \A e \in Coming(m) : net[e] = 1 /\ e.dest \notin D
    PROVE  \E N : 
               /\ Coming(m)' = (Coming(m) \ T) \cup N
               /\ \A e \in Coming(m)' : net'[e] = 1
               /\ \A e \in N : /\ e.dest \in D /\ ~Unicasts(e)
                               /\ \A f \in N : f.dest = e.dest => f = e
               /\ \A n \in D : \E e \in N : e.dest = n
<1>0. /\ DOMAIN net' = DOMAIN L \cup DOMAIN X
      /\ \A e \in DOMAIN L \ DOMAIN X : L[e] = 1 => net'[e] = 1
      /\ \A e \in DOMAIN X \ DOMAIN L : X[e] = 1 => net'[e] = 1
  BY NetGrows
<1> DEFINE N == {e \in DOMAIN X : Takes(e)}
<1>1. \A e \in N : e.npdu = m /\ e.dest \in D /\ X[e] = 1 /\ ~Unicasts(e) /\ e \notin Coming(m)
                   /\ \A f \in N : f.dest = e.dest => f = e
  BY DEF Sent, Carried
<1>2. \A n \in D : \E e \in N : e.dest = n
  BY DEF Sent
<1>3. \A e \in Coming(m) \ T : e \in DOMAIN L /\ L[e] = 1 /\ e \notin N /\ e \notin DOMAIN X
  BY <1>1 DEF Left, Coming
<1>4. \A e \in N : e \in DOMAIN X /\ e \notin DOMAIN L
  BY <1>1 DEF Left, Coming
<1>5. \A e \in (Coming(m) \ T) \cup N : e \in DOMAIN net' /\ net'[e] = 1
  BY <1>0, <1>1, <1>3, <1>4
<1>6. \A e \in DOMAIN net' : e.npdu = m /\ Takes(e) => e \in (Coming(m) \ T) \cup N
  <2>1. \A e \in Coming(m) \cap T : e \notin DOMAIN L
    BY DEF Left, Coming
  <2>2. \A e \in DOMAIN L : e.npdu = m /\ Takes(e) => e \in Coming(m) \ T
    BY <2>1 DEF Left, Coming
  <2> QED  BY <1>0, <2>2
<1>7. \A e \in (Coming(m) \ T) \cup N : e.npdu = m /\ Takes(e)
  BY <1>1 DEF Coming
<1> HIDE DEF N
<1>8. Coming(m)' = (Coming(m) \ T) \cup N
  BY <1>5, <1>6, <1>7 DEF Coming
<1> QED  BY <1>1, <1>2, <1>5, <1>8

\* What is under way stays sound when messages that were sent stay so.
LEMMA SoundKept ==
    ASSUME NEW e, Sound(e), left \subseteq left',
           \A m \in Messages : sending[m] = "sent" =>
               sending'[m] = "sent" /\ origin'[m] = origin[m]
    PROVE  Sound(e)'
BY DEF Sound

-----------------------------------------------------------------------------
(* GivenOnce: what keeps a message apart.                                  *)

\* What a step leaves as it is.
Untouched(m) ==
    /\ Coming(m)' = Coming(m) /\ \A e \in Coming(m)' : net'[e] = 1
    /\ \A n \in Stations : given'[n][m] = given[n][m]
    /\ sending'[m] = "sent" <=> sending[m] = "sent"
    /\ sending[m] = "sent" => origin'[m] = origin[m]

LEMMA ReachedKept ==
    ASSUME NEW m, NEW n \in Stations, Untouched(m)
    PROVE  Reached(m, n)' <=> Reached(m, n)
BY DEF Untouched, Reached

LEMMA ApartKept ==
    ASSUME NEW m, Apart(m), Untouched(m), \A e \in Coming(m) : e.dest \in Stations
    PROVE  Apart(m)'
<1>1. CASE sending[m] = "sent"
  <2>1. origin'[m] = origin[m] /\ sending'[m] = "sent"
    BY <1>1 DEF Untouched
  <2>2. ASSUME NEW d \in Coming(m)
        PROVE  Alone(m, d)'
    <3>1. Alone(m, d)
      BY DEF Apart
    <3>2. \A n \in Stations : Reached(m, n)' <=> Reached(m, n)
      BY ReachedKept
    <3> QED  BY <2>1, <2>2, <3>1, <3>2 DEF Alone, Untouched
  <2> QED  BY <1>1, <2>1, <2>2 DEF Apart, Untouched
<1>2. CASE sending[m] # "sent"
  BY <1>2 DEF Apart, Untouched
<1> QED  BY <1>1, <1>2

\* What is sent to D, one datagram each.
Fresh(N, D) ==
    /\ \A e \in N : /\ e.dest \in D /\ ~Unicasts(e)
                    /\ \A f \in N : f.dest = e.dest => f = e
    /\ \A n \in D : \E e \in N : e.dest = n

LEMMA ApartStarts ==
    ASSUME NEW m, NEW o \in Stations, Apart(m), sending[m] # "sent",
           sending'[m] = "sent", origin'[m] = o,
           \A n \in Stations : given'[n][m] = given[n][m],
           NEW N, Coming(m)' = N, \A e \in N : net'[e] = 1,
           NEW D, Fresh(N, D), \A n \in D : n \in Stations \ {o} /\ Parent(o, n) = o
    PROVE  Apart(m)'
<1>1. \A n \in Stations : given'[n][m] = <<>>
  BY DEF Apart
<1>2. ASSUME NEW d \in N
      PROVE  Alone(m, d)'
  <2>1. d.dest \in D /\ d.dest \in Stations /\ d.dest # o /\ ~Unicasts(d)
    BY DEF Fresh
  <2>2. ASSUME NEW n \in Stations, Under(o, n, d.dest)
        PROVE  ~Reached(m, n)'
    <3>1. Parent(o, n) # o
      BY <2>1, <2>2 DEF Under
    <3>2. \A e \in N : e.dest # n
      BY <3>1 DEF Fresh
    <3> QED  BY <1>1, <3>2 DEF Reached
  <2> QED  BY <1>1, <2>1, <2>2 DEF Alone, Fresh
<1> QED  BY <1>1, <1>2 DEF Apart

LEMMA ApartUnicast ==
    ASSUME NEW m, NEW o \in Stations, Apart(m), sending[m] # "sent",
           sending'[m] = "sent", origin'[m] = o,
           \A n \in Stations : given'[n][m] = given[n][m],
           NEW d, Unicasts(d), d.dest \in Stations, Coming(m)' \subseteq {d}, net'[d] = 1
    PROVE  Apart(m)'
<1>1. \A n \in Stations : given'[n][m] = <<>>
  BY DEF Apart
<1>2. ASSUME d \in Coming(m)'
      PROVE  Alone(m, d)'
  BY <1>1, <1>2 DEF Alone
<1> QED  BY <1>1, <1>2 DEF Apart

\* A station handles a message and sends it on.
Handled(m, d) ==
    /\ \A n \in Stations \ {d.dest} : given'[n][m] = given[n][m]
    /\ given'[d.dest][m] \in {<<>>, <<origin[m]>>}
    /\ sending[m] = "sent" /\ sending'[m] = "sent" /\ origin'[m] = origin[m]

LEMMA ApartHandles ==
    ASSUME NEW m, NEW o \in Stations, o = origin[m], Apart(m),
           NEW d \in Coming(m), d.dest \in Stations \ {o}, Handled(m, d), ~Unicasts(d),
           \A e \in Coming(m) : e.dest \in Stations,
           NEW N, NEW D, Coming(m)' = (Coming(m) \ {d}) \cup N,
           \A e \in Coming(m)' : net'[e] = 1, Fresh(N, D),
           \A n \in D : n \in Stations \ {o} /\ Parent(o, n) = d.dest
    PROVE  Apart(m)'
<1> DEFINE x == d.dest
<1>1. \A e \in Coming(m) : Alone(m, e)
  BY DEF Apart
<1>2. Alone(m, d) /\ Reached(m, x)
  BY <1>1 DEF Reached
<1>3. \A n \in Stations : Under(o, n, x) => ~Reached(m, n)
  BY <1>2 DEF Alone
<1>4. \A n \in D : Under(o, n, x)
  BY DEF Under
<1>5. \A n \in D : n \in Stations /\ ~Reached(m, n) /\ n # x
  BY <1>2, <1>3, <1>4
<1>6. \A n \in Stations : Reached(m, n)' => Reached(m, n) \/ n \in D \/ n = x
  BY DEF Reached, Fresh, Handled
<1>7. ASSUME NEW e \in Coming(m), e # d
      PROVE  Alone(m, e)'
  <2>1. Alone(m, e) /\ ~Unicasts(e)
    BY <1>1, <1>7 DEF Alone
  <2>2. e.dest # x /\ e.dest \in Stations /\ Reached(m, e.dest)
    BY <1>2, <1>7 DEF Alone, Reached
  <2>3. given'[e.dest][m] = <<>> /\ net'[e] = 1
    BY <1>7, <2>1, <2>2 DEF Alone, Handled
  <2>4. \A f \in Coming(m)' : f.dest = e.dest => f = e
    <3>1. \A f \in N : f.dest # e.dest
      BY <1>5, <2>2 DEF Fresh
    <3> QED  BY <2>1, <3>1 DEF Alone
  <2>5. ASSUME NEW n \in Stations, Under(o, n, e.dest)
        PROVE  ~Reached(m, n)'
    <3>1. ~Reached(m, n)
      BY <2>1, <2>5 DEF Alone
    <3>2. n # x
      BY <1>2, <3>1
    <3>3. n \notin D
      <4>1. SUFFICES ASSUME n \in D
                     PROVE  FALSE
        OBVIOUS
      <4>2. Parent(o, n) = x
        BY <4>1
      <4>3. x # o /\ Parent(o, x) = e.dest
        BY <2>2, <2>5, <4>2 DEF Under
      <4>4. Under(o, x, e.dest)
        BY <4>3 DEF Under
      <4> QED  BY <1>2, <2>1, <4>4 DEF Alone
    <3> QED  BY <1>6, <3>1, <3>2, <3>3
  <2> QED  BY <2>1, <2>3, <2>4, <2>5 DEF Alone, Handled
<1>8. ASSUME NEW e \in N
      PROVE  Alone(m, e)'
  <2> DEFINE c == e.dest
  <2>1. c \in D /\ ~Unicasts(e) /\ e \in Coming(m)'
    BY DEF Fresh
  <2>2. c \in Stations \ {o} /\ Parent(o, c) = x /\ ~Reached(m, c) /\ c # x
    BY <1>5, <2>1
  <2>3. given'[c][m] = <<>> /\ net'[e] = 1
    BY <2>1, <2>2 DEF Reached, Handled
  <2>4. \A f \in Coming(m)' : f.dest = c => f = e
    BY <2>2 DEF Reached, Fresh
  <2>5. ASSUME NEW n \in Stations, Under(o, n, c)
        PROVE  ~Reached(m, n)'
    <3>1. n \in Stations \ {o}
      BY <2>5 DEF Under
    <3>2. Parent(o, n) = c
      BY <2>2, <2>5, <3>1, NoFurther
    <3>3. Under(o, n, x)
      BY <2>2, <3>1, <3>2 DEF Under
    <3>4. n \notin D /\ n # x
      BY <1>2, <1>3, <2>2, <3>2, <3>3
    <3> QED  BY <1>3, <1>6, <3>3, <3>4
  <2> HIDE DEF c
  <2>6. Alone(m, e)' <=>
            /\ net'[e] = 1 /\ given'[c][m] = <<>>
            /\ \A f \in Coming(m)' : f.dest = c => f = e
            /\ \A n \in Stations : Under(o, n, c) => ~Reached(m, n)'
    BY <2>1 DEF Alone, c, Handled
  <2> QED  BY <2>3, <2>4, <2>5, <2>6
<1>9. \A e \in Coming(m)' : Alone(m, e)'
  BY <1>7, <1>8
<1>10. \A n \in Stations :
           given'[n][m] \in (IF n = o THEN {<<>>} ELSE {<<>>, <<o>>})
  <2>1. \A n \in Stations :
            given[n][m] \in (IF n = o THEN {<<>>} ELSE {<<>>, <<o>>})
    BY DEF Apart
  <2> QED  BY <2>1 DEF Handled
<1> QED  BY <1>9, <1>10 DEF Apart, Handled

\* A unicast message has come.
LEMMA ApartArrives ==
    ASSUME NEW m, NEW o \in Stations, o = origin[m], Apart(m),
           NEW d \in Coming(m), d.dest \in Stations \ {o}, Handled(m, d), Unicasts(d),
           Coming(m)' \subseteq Coming(m) \ {d}
    PROVE  Apart(m)'
<1>1. Coming(m) = {d}
  BY DEF Apart, Alone
<1>2. Coming(m)' = {}
  BY <1>1
<1> QED  BY <1>2 DEF Apart, Handled

-----------------------------------------------------------------------------
(* ReachesAll: what is still to come.                                      *)

\* Of a message that a step does not touch.
LEMMA OwingKept ==
    ASSUME NEW m, Apart(m), Owing(m), Untouched(m), owed'[m] \subseteq owed[m],
           m \in raised => m \in raised',
           \A n \in Foreigns \cap owed'[m] : registered[n] =>
               registered'[n] /\ (n \in fdt[BBMDOf[n]] => n \in fdt'[BBMDOf[n]])
    PROVE  Owing(m)'
<1> SUFFICES ASSUME m \notin raised', NEW n \in owed'[m]
             PROVE  n \in Stations \ Bare /\ \E d \in Coming(m)' : Brings(d, m, n)'
  BY DEF Owing
<1>1. n \in Stations \ Bare /\ n \in owed[m]
  BY DEF Owing
<1>2. PICK d \in Coming(m) : Brings(d, m, n)
  BY <1>1 DEF Owing
<1>3. d \in Coming(m)' /\ origin'[m] = origin[m]
  BY <1>2 DEF Untouched, Apart
<1>4. Brings(d, m, n)'
  BY <1>2, <1>3 DEF Brings
<1> QED  BY <1>1, <1>3, <1>4

\* Those who are to get what a station hands on get it from whom it serves.
LEMMA ServedLemma ==
    ASSUME Supported, NEW o \in Stations, NEW x \in Stations, NEW n \in Stations, Under(o, n, x),
           n \in Foreigns => n \in fdt[BBMDOf[n]]
    PROVE  \/ n \in Served(o, x)
           \/ Parent(o, n) \in Served(o, x) /\ Under(o, n, Parent(o, n))
<1>1. n \in Stations \ {o}
  BY DEF Under
<1>2. CASE Parent(o, n) = x
  <2>1. n \in Foreigns => n \in fdt[x]
    BY <1>2 DEF Parent
  <2>2. ~(o \in Foreigns /\ x = Home(o) /\ x \in Bare)
    BY HomeLemma DEF Supported
  <2> QED  BY <1>1, <1>2, <2>1, <2>2 DEF Served
<1>3. CASE Parent(o, n) # o /\ Parent(o, Parent(o, n)) = x
  <2>1. Parent(o, n) \in BBMDs /\ Parent(o, n) \in Stations \ {o} /\ Parent(o, n) \notin Foreigns
    BY <1>1, <1>3, ParentLemma, Kinds
  <2> QED  BY <1>1, <1>3, <2>1 DEF Served, Under
<1> QED  BY <1>2, <1>3 DEF Under

\* When a broadcast goes out, what is sent brings it to all that are to get it.
LEMMA OwingStarts ==
    ASSUME Supported, NEW m, NEW o \in Stations, origin'[m] = o, UNCHANGED <<fdt, registered>>,
           owed'[m] = Audience(o), NEW N, Coming(m)' = N, Fresh(N, Served(o, o))
    PROVE  Owing(m)'
<1> SUFFICES ASSUME NEW n \in Audience(o)
             PROVE  n \in Stations \ Bare /\ \E d \in N : Brings(d, m, n)'
  BY DEF Owing
<1>1. /\ n \in Stations \ {o} /\ n \notin Bare
      /\ n \in Foreigns => registered[n] /\ n \in fdt[BBMDOf[n]]
  BY Kinds DEF Audience
<1>2. \A c \in Stations : Under(o, n, c) => Under(o, n, c)'
  OBVIOUS
<1>3. ASSUME NEW c \in Served(o, o), c = n \/ Under(o, n, c)
      PROVE  \E d \in N : Brings(d, m, n)'
  <2>1. PICK d \in N : d.dest = c /\ ~Unicasts(d)
    BY DEF Fresh
  <2>2. Brings(d, m, n)'
    BY <1>1, <1>3, <2>1 DEF Brings
  <2> QED  BY <2>2
<1>4. CASE Under(o, n, o)
  BY <1>1, <1>3, <1>4, ServedLemma
<1>5. CASE ~Under(o, n, o)
  <2>1. /\ Parent(o, n) # o
        /\ Parent(o, Parent(o, n)) = Home(o)
        /\ Home(o) # o /\ Parent(o, Home(o)) = o
    BY <1>1, <1>5, DepthLemma DEF Under
  <2>2. Home(o) \in Stations \ {o} /\ Home(o) \notin Foreigns
    BY <2>1, HomeLemma, Kinds
  <2>3. Home(o) \in Served(o, o)
    BY <2>1, <2>2 DEF Served
  <2>4. Under(o, n, Home(o))
    BY <1>1, <2>1 DEF Under
  <2> QED  BY <1>1, <1>3, <2>3, <2>4
<1> QED  BY <1>1, <1>4, <1>5

\* A station that a message is for is given it, or has no network layer, or is a
\* foreign device that is not registered; and it sends the message on.
LEMMA OwingHandles ==
    ASSUME Supported, NEW m, NEW o \in Stations, o = origin[m], origin'[m] = o, Owing(m),
           UNCHANGED <<fdt, registered>>, m \in raised => m \in raised',
           NEW d \in Coming(m), d.dest \in Stations \ {o},
           owed'[m] \subseteq owed[m],
           \/ d.dest \notin owed'[m]
           \/ d.dest \in Bare
           \/ d.dest \in Foreigns /\ ~Unicasts(d) /\ ~registered[d.dest],
           NEW N, NEW D, Coming(m)' = (Coming(m) \ {d}) \cup N, Fresh(N, D),
           d.dest \in BBMDs /\ ~Unicasts(d) => m \in raised' \/ D = Served(o, d.dest)
    PROVE  Owing(m)'
<1> DEFINE x == d.dest
<1> SUFFICES ASSUME m \notin raised', NEW n \in owed'[m]
             PROVE  n \in Stations \ Bare /\ \E e \in Coming(m)' : Brings(e, m, n)'
  BY DEF Owing
<1>1. n \in Stations \ Bare /\ n \in owed[m]
  BY DEF Owing
<1>2. PICK e \in Coming(m) : Brings(e, m, n)
  BY <1>1 DEF Owing
<1>3. CASE e # d
  <2>1. Brings(e, m, n)' /\ e \in Coming(m)'
    BY <1>2, <1>3 DEF Brings
  <2> QED  BY <1>1, <2>1
<1>4. CASE e = d
  <2>1. n # x
    BY <1>1, <1>2, <1>4 DEF Brings
  <2>2. /\ ~Unicasts(d) /\ Under(o, n, x)
        /\ n \in Foreigns => registered[n] /\ n \in fdt[BBMDOf[n]]
    BY <1>2, <1>4, <2>1 DEF Brings
  <2>3. x \in BBMDs
    <3>1. n \in Stations \ {o}
      BY <2>2 DEF Under
    <3>2. Parent(o, n) \in BBMDs \cup {o}
      BY <3>1, ParentLemma
    <3>3. Parent(o, n) # o => Parent(o, n) \in Stations \ {o}
      BY <3>2, Kinds
    <3>4. Parent(o, n) # o => Parent(o, Parent(o, n)) \in BBMDs \cup {o}
      BY <3>3, ParentLemma
    <3> QED  BY <2>2, <3>2, <3>4 DEF Under
  <2>4. D = Served(o, x)
    BY <2>2, <2>3
  <2>5. PICK c \in D : c = n \/ Under(o, n, c)
    BY <1>1, <2>2, <2>4, ServedLemma
  <2>6. PICK f \in N : f.dest = c /\ ~Unicasts(f)
    BY DEF Fresh
  <2>7. Brings(f, m, n)' /\ f \in Coming(m)'
    BY <2>2, <2>5, <2>6 DEF Brings
  <2> QED  BY <1>1, <2>7
<1> QED  BY <1>3, <1>4

-----------------------------------------------------------------------------
(* Bags, and messages that a step does not touch.                          *)

LEMMA BagsLemma ==
    ASSUME NEW A, NEW B, IsABag(A), IsABag(B)
    PROVE  IsABag(A (+) B) /\ IsABag(A (-) B)
<1>1. (\A e \in DOMAIN A : A[e] \in Nat /\ A[e] > 0) /\ \A e \in DOMAIN B : B[e] \in Nat /\ B[e] > 0
  BY DEF IsABag
<1>2. IsABag(A (+) B)
  <2> DEFINE v(e) == (IF e \in DOMAIN A THEN A[e] ELSE 0) + (IF e \in DOMAIN B THEN B[e] ELSE 0)
  <2>1. A (+) B = [e \in DOMAIN A \cup DOMAIN B |-> v(e)]
    BY DEF (+)
  <2>2. \A e \in DOMAIN A \cup DOMAIN B : v(e) \in Nat /\ v(e) > 0
    BY <1>1
  <2> HIDE DEF v
  <2>3. [e \in DOMAIN A \cup DOMAIN B |-> v(e)] \in [DOMAIN A \cup DOMAIN B -> {n \in Nat : n > 0}]
    BY <2>2
  <2> QED  BY <2>1, <2>3 DEF IsABag
<1>3. IsABag(A (-) B)
  <2> DEFINE v(e) == IF e \in DOMAIN B THEN A[e] - B[e] ELSE A[e]
             S == {e \in DOMAIN A : v(e) > 0}
  <2>1. A (-) B = [e \in S |-> v(e)]
    BY DEF (-)
  <2>2. \A e \in S : v(e) \in Nat /\ v(e) > 0
    BY <1>1
  <2> HIDE DEF v, S
  <2>3. [e \in S |-> v(e)] \in [S -> {n \in Nat : n > 0}]
    BY <2>2
  <2> QED  BY <2>1, <2>3 DEF IsABag
<1> QED  BY <1>2, <1>3

LEMMA SetBag ==
    ASSUME NEW S
    PROVE  IsABag(SetToBag(S)) /\ DOMAIN SetToBag(S) = S
BY DEF SetToBag, IsABag

LEMMA SendsBags ==
    /\ \A t, m, r, x, dests, c : IsABag(Datagrams(t, m, r, x, dests, c))
    /\ \A t, m, r, x : IsABag(LocalBroadcast(t, m, r, x))
    /\ \A t, m, r, x, dests : IsABag(Unicast(t, m, r, x, dests))
    /\ \A b, m, r : IsABag(ToPeers(b, m, r))
    /\ \A b, m, r, dests : IsABag(ToForeign(b, m, r, dests))
    /\ IsABag(EmptyBag)
<1>1. \A t, m, r, x, dests, c : IsABag(Datagrams(t, m, r, x, dests, c))
  BY SetBag DEF Datagrams
<1>2. \A t, m, r, x, dests : IsABag(Unicast(t, m, r, x, dests))
  BY <1>1 DEF Unicast
<1>3. \A t, m, r, x, nets : IsABag(Broadcast(t, m, r, x, nets))
  BY <1>1 DEF Broadcast
<1>4. \A t, m, r, x : IsABag(LocalBroadcast(t, m, r, x))
  BY <1>3 DEF LocalBroadcast
<1>5. \A b, m, r : IsABag(ToPeers(b, m, r))
  BY <1>2, <1>3, BagsLemma DEF ToPeers
<1>6. \A b, m, r, dests : IsABag(ToForeign(b, m, r, dests))
  BY <1>2 DEF ToForeign
<1>7. IsABag(EmptyBag)
  BY SetBag DEF EmptyBag
<1> QED  BY <1>1, <1>2, <1>4, <1>5, <1>6, <1>7

\* What is coming of a message is there once.
LEMMA ComingOnce ==
    ASSUME NEW m \in Messages, IInv
    PROVE  \A e \in Coming(m) :
               /\ net[e] = 1 /\ e.npdu = m /\ e \in DOMAIN net
               /\ e.dest \in Stations \ {origin[m]} /\ RealSource(e) = origin[m]
               /\ sending[m] = "sent" /\ origin[m] \in Stations
<1>1. SUFFICES ASSUME NEW e \in Coming(m)
               PROVE  /\ net[e] = 1 /\ e.npdu = m /\ e \in DOMAIN net
                      /\ e.dest \in Stations \ {origin[m]} /\ RealSource(e) = origin[m]
                      /\ sending[m] = "sent" /\ origin[m] \in Stations
  OBVIOUS
<1>2. e \in DOMAIN net /\ e.npdu = m /\ Takes(e) /\ Sound(e)
  BY DEF Coming, IInv
<1>3. net[e] = 1
  BY DEF IInv, Apart, Alone
<1>4. e.type \notin Controls
  BY <1>2 DEF Takes, Carriers, Controls
<1>5. e.dest \in Stations /\ sending[m] = "sent" /\ Carried(e, m, origin[m])
  BY <1>2, <1>4 DEF Sound
<1>6. e.dest # origin[m] /\ RealSource(e) = origin[m]
  BY <1>2, <1>5 DEF Carried
<1> QED  BY <1>2, <1>3, <1>5, <1>6 DEF IInv, Senders

\* Messages that a step neither takes nor sends.
LEMMA OthersKept ==
    ASSUME IInv, NEW L, NEW T, NEW X, Left(L, T), net' = L (+) X,
           NEW k \in Messages, \A e \in T : ~(e.npdu = k /\ Takes(e)),
           \A e \in DOMAIN X : ~(e.npdu = k /\ Takes(e)),
           \A n \in Stations : given'[n][k] = given[n][k],
           sending'[k] = "sent" <=> sending[k] = "sent",
           sending[k] = "sent" => origin'[k] = origin[k]
    PROVE  Untouched(k) /\ Apart(k)'
<1>1. \A e \in Coming(k) : net[e] = 1 /\ e \notin T /\ e.dest \in Stations
  BY ComingOnce DEF Coming
<1>2. Coming(k)' = Coming(k) /\ \A e \in Coming(k)' : net'[e] = 1
  BY <1>1, ComingKept
<1>3. Untouched(k)
  BY <1>2 DEF Untouched
<1>4. Apart(k)
  BY DEF IInv
<1> QED  BY <1>1, <1>3, <1>4, ApartKept

\* What was under way stays sound, and what is sent is.
LEMMA SoundsKept ==
    ASSUME IInv, NEW L, NEW T, NEW X, Left(L, T), net' = L (+) X, left \subseteq left',
           \A k \in Messages : sending[k] = "sent" =>
               sending'[k] = "sent" /\ origin'[k] = origin[k],
           \A e \in DOMAIN X : Sound(e)'
    PROVE  \A e \in DOMAIN net' : Sound(e)'
<1>1. DOMAIN net' \subseteq DOMAIN net \cup DOMAIN X
  BY NetGrows
<1>2. \A e \in DOMAIN net : Sound(e)'
  BY SoundKept DEF IInv
<1> QED  BY <1>1, <1>2

LEMMA SentSound ==
    ASSUME NEW X, NEW m \in Messages, NEW o, NEW x \in Stations, NEW D, Sent(X, m, o, x, D),
           sending'[m] = "sent", origin'[m] = o
    PROVE  \A e \in DOMAIN X : Sound(e)' /\ e.npdu = m
BY DEF Sent, Sound, Carried

\* Nothing added.
LEMMA NothingAdded ==
    ASSUME NEW L, IsABag(L)
    PROVE  L (+) EmptyBag = L
<1>1. DOMAIN EmptyBag = {}
  BY SetBag DEF EmptyBag
<1>2. L = [e \in DOMAIN L |-> L[e]] /\ \A e \in DOMAIN L : L[e] \in Nat
  BY DEF IsABag
<1>3. L (+) EmptyBag = [e \in DOMAIN L |-> L[e] + 0]
  BY <1>1 DEF (+)
<1>4. \A e \in DOMAIN L : L[e] + 0 = L[e]
  BY <1>2
<1>5. [e \in DOMAIN L |-> L[e] + 0] = [e \in DOMAIN L |-> L[e]]
  BY <1>4
<1> QED  BY <1>2, <1>3, <1>5

-----------------------------------------------------------------------------
(* What a step has to do to keep the invariant.                            *)

\* The shape of what is not a bag.
RestOK ==
    /\ fdt \in [BBMDs -> SUBSET Foreigns]
    /\ status \in [Foreigns -> {"unregistered", "inProcess", "OK"}]
    /\ registered \in [Foreigns -> BOOLEAN]
    /\ bbmdAddress \in [Foreigns -> BBMDs \cup {None}]
    /\ left \subseteq Foreigns
    /\ sending \in [Messages -> {"unsent", "waiting", "woken", "sent", "dropped", "raised"}]
    /\ origin \in [Messages -> Stations \cup {None}]
    /\ given \in [Stations -> [Messages -> Seq(Stations)]]
    /\ owed \in [Messages -> SUBSET Stations]
    /\ raised \subseteq Messages

LEMMA TypeLemma ==
    /\ BroadcastTypeOK => RestOK /\ IsABag(net)
    /\ (\A e \in DOMAIN net' : Sound(e)') /\ RestOK' /\ IsABag(net') => BroadcastTypeOK'
BY DEF BroadcastTypeOK, RestOK, Sound, BagToSet

\* A step that no message under way has to do with.
LEMMA QuietStep ==
    ASSUME IInv, NEW L, NEW T, NEW X, Left(L, T), IsABag(L), IsABag(X), net' = L (+) X,
           \A e \in T : ~Takes(e),
           \A e \in DOMAIN X : ~Takes(e) /\ Sound(e)',
           left \subseteq left', UNCHANGED given,
           \A k \in Messages : /\ sending'[k] = "sent" <=> sending[k] = "sent"
                               /\ sending[k] = "sent" => origin'[k] = origin[k],
           RestOK', Senders', Tables', Registration', UNCHANGED raised,
           \A k \in Messages : owed'[k] \subseteq owed[k],
           \A k \in Messages : \A n \in Foreigns \cap owed'[k] : registered[n] =>
               registered'[n] /\ (n \in fdt[BBMDOf[n]] => n \in fdt'[BBMDOf[n]])
    PROVE  Keeps
<1>1. \A k \in Messages : Untouched(k) /\ Apart(k)'
  <2> SUFFICES ASSUME NEW k \in Messages
               PROVE  Untouched(k) /\ Apart(k)'
    OBVIOUS
  <2>1. /\ sending'[k] = "sent" <=> sending[k] = "sent"
        /\ sending[k] = "sent" => origin'[k] = origin[k]
        /\ \A n \in Stations : given'[n][k] = given[n][k]
        /\ \A e \in T : ~(e.npdu = k /\ Takes(e))
        /\ \A e \in DOMAIN X : ~(e.npdu = k /\ Takes(e))
    OBVIOUS
  <2> QED  BY <2>1, OthersKept
<1>2. \A e \in DOMAIN net' : Sound(e)'
  <2>1. \A k \in Messages : sending[k] = "sent" => sending'[k] = "sent" /\ origin'[k] = origin[k]
    OBVIOUS
  <2>2. \A e \in DOMAIN X : Sound(e)'
    OBVIOUS
  <2> QED  BY <2>1, <2>2, SoundsKept
<1>3. IsABag(net')
  BY BagsLemma
<1>4. BroadcastTypeOK'
  BY <1>2, <1>3, TypeLemma
<1>5. IInv'
  BY <1>1, <1>2, <1>4 DEF IInv
<1>6. ASSUME OwingInv
      PROVE  OwingInv'
  <2> SUFFICES ASSUME NEW k \in Messages
               PROVE  Owing(k)'
    BY DEF OwingInv
  <2>1. Apart(k) /\ Owing(k) /\ Untouched(k) /\ (k \in raised => k \in raised')
    BY <1>1, <1>6 DEF OwingInv, IInv
  <2>2. /\ owed'[k] \subseteq owed[k]
        /\ \A n \in Foreigns \cap owed'[k] : registered[n] =>
               registered'[n] /\ (n \in fdt[BBMDOf[n]] => n \in fdt'[BBMDOf[n]])
    OBVIOUS
  <2> QED  BY <2>1, <2>2, OwingKept
<1> QED  BY <1>5, <1>6 DEF Keeps

\* A step that sends or takes datagrams of one message.
LEMMA MessageStep ==
    ASSUME IInv, NEW L, NEW T, NEW X, Left(L, T), IsABag(L), IsABag(X), net' = L (+) X,
           NEW m \in Messages, \A e \in T : e.npdu = m,
           \A e \in DOMAIN X : e.npdu = m /\ Sound(e)',
           UNCHANGED <<fdt, registered, left>>,
           \A k \in Messages \ {m} :
               /\ sending'[k] = sending[k] /\ origin'[k] = origin[k]
               /\ \A n \in Stations : given'[n][k] = given[n][k]
               /\ owed'[k] = owed[k] /\ (k \in raised => k \in raised'),
           sending[m] = "sent" => sending'[m] = "sent" /\ origin'[m] = origin[m],
           RestOK', Senders', Tables', Registration', Apart(m)',
           Supported /\ OwingInv => Owing(m)'
    PROVE  Keeps
<1>1. \A k \in Messages : (k # m => Untouched(k)) /\ Apart(k)'
  <2> SUFFICES ASSUME NEW k \in Messages, k # m
               PROVE  Untouched(k) /\ Apart(k)'
    OBVIOUS
  <2>1. /\ sending'[k] = "sent" <=> sending[k] = "sent"
        /\ sending[k] = "sent" => origin'[k] = origin[k]
        /\ \A n \in Stations : given'[n][k] = given[n][k]
        /\ \A e \in T : ~(e.npdu = k /\ Takes(e))
        /\ \A e \in DOMAIN X : ~(e.npdu = k /\ Takes(e))
    OBVIOUS
  <2> QED  BY <2>1, OthersKept
<1>2. \A e \in DOMAIN net' : Sound(e)'
  <2>1. \A k \in Messages : sending[k] = "sent" => sending'[k] = "sent" /\ origin'[k] = origin[k]
    OBVIOUS
  <2>2. (\A e \in DOMAIN X : Sound(e)') /\ left \subseteq left'
    OBVIOUS
  <2> QED  BY <2>1, <2>2, SoundsKept
<1>3. IsABag(net')
  BY BagsLemma
<1>4. BroadcastTypeOK'
  BY <1>2, <1>3, TypeLemma
<1>5. IInv'
  BY <1>1, <1>2, <1>4 DEF IInv
<1>6. ASSUME Supported, OwingInv
      PROVE  OwingInv'
  <2> SUFFICES ASSUME NEW k \in Messages, k # m
               PROVE  Owing(k)'
    BY <1>6 DEF OwingInv
  <2>1. /\ Apart(k) /\ Owing(k) /\ Untouched(k) /\ (k \in raised => k \in raised')
        /\ owed'[k] \subseteq owed[k]
    BY <1>1, <1>6 DEF OwingInv, IInv
  <2>2. \A n \in Foreigns : registered[n] /\ n \in owed'[k] =>
            registered'[n] /\ (n \in fdt[BBMDOf[n]] => n \in fdt'[BBMDOf[n]])
    OBVIOUS
  <2> QED  BY <2>1, <2>2, OwingKept
<1> QED  BY <1>5, <1>6 DEF Keeps

-----------------------------------------------------------------------------
(* Sending.                                                                *)

LEMMA BecomesLemma ==
    ASSUME IInv, NEW m \in Messages, NEW s \in Stations,
           NEW state \in {"waiting", "sent", "dropped", "raised"}, Becomes(m, s, state),
           state = "waiting" => s \in Foreigns, owed' \in [Messages -> SUBSET Stations]
    PROVE  /\ RestOK' /\ Senders' /\ Tables' /\ Registration' /\ UNCHANGED <<fdt, registered, left, given, raised>>
           /\ sending'[m] = state /\ origin'[m] = s
           /\ \A k \in Messages \ {m} :
                  /\ sending'[k] = sending[k] /\ origin'[k] = origin[k]
                  /\ \A n \in Stations : given'[n][k] = given[n][k]
<1>1. RestOK
  BY TypeLemma DEF IInv
<1>2. /\ sending' = [sending EXCEPT ![m] = state] /\ origin' = [origin EXCEPT ![m] = s]
      /\ UNCHANGED <<fdt, status, registered, bbmdAddress, left, given, raised>>
  BY DEF Becomes, registration
<1>3. /\ sending'[m] = state /\ origin'[m] = s
      /\ \A k \in Messages \ {m} : sending'[k] = sending[k] /\ origin'[k] = origin[k]
  BY <1>1, <1>2 DEF RestOK
<1>4. RestOK'
  BY <1>1, <1>2 DEF RestOK
<1>5. Senders'
  BY <1>3 DEF IInv, Senders
<1>6. Tables' /\ Registration'
  BY <1>2 DEF IInv, Tables, Registration
<1> QED  BY <1>2, <1>3, <1>4, <1>5, <1>6

\* A broadcast goes out to those its sender serves.
LEMMA BroadcastLemma ==
    ASSUME IInv, NEW m \in Messages, NEW s \in Stations, sending[m] # "sent",
           NEW X, IsABag(X), Sent(X, m, s, s, Served(s, s)), GoesOut(m, s, X, Audience(s))
    PROVE  Keeps
<1>1. Becomes(m, s, "sent") /\ net' = net (+) X /\ owed' = [owed EXCEPT ![m] = Audience(s)]
  BY DEF GoesOut
<1>2. owed' \in [Messages -> SUBSET Stations]
  <2>1. Audience(s) \subseteq Stations
    BY Kinds DEF Audience
  <2>2. owed \in [Messages -> SUBSET Stations]
    BY DEF IInv, BroadcastTypeOK
  <2> QED  BY <1>1, <2>1, <2>2
<1>3. /\ RestOK' /\ Senders' /\ Tables' /\ Registration' /\ UNCHANGED <<fdt, registered, left, given, raised>>
      /\ sending'[m] = "sent" /\ origin'[m] = s
      /\ \A k \in Messages \ {m} :
             /\ sending'[k] = sending[k] /\ origin'[k] = origin[k]
             /\ \A n \in Stations : given'[n][k] = given[n][k]
  BY <1>1, <1>2, BecomesLemma
<1>4. \A e \in DOMAIN X : Sound(e)' /\ e.npdu = m
  BY <1>3, SentSound
<1>5. Left(net, {}) /\ IsABag(net)
  BY NoneTaken DEF IInv, BroadcastTypeOK
<1>6. owed \in [Messages -> SUBSET Stations]
  BY DEF IInv, BroadcastTypeOK
<1>7. Apart(m)' /\ (Supported => Owing(m)')
  <2>1. Apart(m) /\ Coming(m) = {}
    BY DEF IInv, Apart
  <2>2. PICK N : 
            /\ Coming(m)' = (Coming(m) \ {}) \cup N
            /\ \A e \in Coming(m)' : net'[e] = 1
            /\ \A e \in N : /\ e.dest \in Served(s, s) /\ ~Unicasts(e)
                            /\ \A f \in N : f.dest = e.dest => f = e
            /\ \A n \in Served(s, s) : \E e \in N : e.dest = n
    BY <1>1, <1>5, <2>1, ComingSent
  <2>3. Coming(m)' = N /\ \A e \in N : net'[e] = 1
    BY <2>1, <2>2
  <2>4. Fresh(N, Served(s, s))
    BY <2>2 DEF Fresh
  <2>5. \A n \in Served(s, s) : n \in Stations \ {s} /\ Parent(s, n) = s
    BY DEF Served
  <2>6. \A n \in Stations : given'[n][m] = given[n][m]
    BY <1>3
  <2>7. Apart(m)'
    BY <1>3, <2>1, <2>3, <2>4, <2>5, <2>6, ApartStarts
  <2>8. owed'[m] = Audience(s)
    BY <1>1, <1>6
  <2>9. Supported => Owing(m)'
    BY <1>3, <2>3, <2>4, <2>8, OwingStarts
  <2> QED  BY <2>7, <2>9
<1>8. /\ \A e \in {} : e.npdu = m
      /\ sending[m] = "sent" => sending'[m] = "sent" /\ origin'[m] = origin[m]
      /\ UNCHANGED <<fdt, registered, left>>
      /\ \A k \in Messages \ {m} :
             /\ sending'[k] = sending[k] /\ origin'[k] = origin[k]
             /\ \A n \in Stations : given'[n][k] = given[n][k]
             /\ owed'[k] = owed[k] /\ (k \in raised => k \in raised')
  BY <1>1, <1>3, <1>6
<1> QED  BY <1>1, <1>3, <1>4, <1>5, <1>7, <1>8, MessageStep

LEMMA UnicastLemma ==
    ASSUME IInv, NEW m \in Messages, NEW s \in Stations, NEW t \in Stations, SendUnicast(m, s, t)
    PROVE  Keeps
<1> DEFINE d == Msg("OriginalUnicastNPDU", m, s, s, t, FALSE)
           X == Unicast("OriginalUnicastNPDU", m, s, s, {t})
<1>1. /\ Becomes(m, s, "sent") /\ net' = net (+) X /\ owed' = [owed EXCEPT ![m] = {t}]
      /\ sending[m] = "unsent" /\ s # t
  BY DEF GoesOut, SendUnicast
<1>2. owed' \in [Messages -> SUBSET Stations]
  <2>1. owed \in [Messages -> SUBSET Stations]
    BY DEF IInv, BroadcastTypeOK
  <2> QED  BY <1>1, <2>1
<1>3. DOMAIN X = {d} /\ X[d] = 1 /\ IsABag(X)
  <2>1. \A c : Datagrams("OriginalUnicastNPDU", m, s, s, {t}, c)
                  = SetToBag({Msg("OriginalUnicastNPDU", m, s, s, t, c)})
    BY OneDatagram
  <2>2. X = SetToBag({d})
    BY <2>1 DEF Unicast
  <2> QED  BY <2>2, SetBag DEF SetToBag
<1>4. /\ d.type = "OriginalUnicastNPDU" /\ d.npdu = m /\ d.source = s /\ d.dest = t
      /\ Unicasts(d) /\ Carried(d, m, s)
  <2>1. d.type = "OriginalUnicastNPDU" /\ d.npdu = m /\ d.source = s /\ d.dest = t
    BY DEF Msg
  <2> HIDE DEF d
  <2>2. Unicasts(d) /\ RealSource(d) = s /\ d.type \in Carriers
    BY <2>1 DEF Unicasts, RealSource, Carriers
  <2> QED  BY <1>1, <2>1, <2>2 DEF Carried, Fits
<1> HIDE DEF d, X
<1>5. /\ RestOK' /\ Senders' /\ Tables' /\ Registration' /\ UNCHANGED <<fdt, registered, left, given, raised>>
      /\ sending'[m] = "sent" /\ origin'[m] = s
      /\ \A k \in Messages \ {m} :
             /\ sending'[k] = sending[k] /\ origin'[k] = origin[k]
             /\ \A n \in Stations : given'[n][k] = given[n][k]
  BY <1>1, <1>2, BecomesLemma
<1>6. \A e \in DOMAIN X : Sound(e)' /\ e.npdu = m
  BY <1>3, <1>4, <1>5 DEF Sound
<1>7. Left(net, {}) /\ IsABag(net)
  BY NoneTaken DEF IInv, BroadcastTypeOK
<1>8. Takes(d)
  BY <1>1, <1>4 DEF Takes, Carriers, Reflected
<1>9. Apart(m)' /\ d \in Coming(m)'
  <2>1. Apart(m) /\ Coming(m) = {}
    BY <1>1 DEF IInv, Apart
  <2>2. d \notin DOMAIN net
    BY <1>4, <1>8, <2>1 DEF Coming
  <2>3. /\ DOMAIN net' = DOMAIN net \cup DOMAIN X
        /\ \A e \in DOMAIN X \ DOMAIN net : X[e] = 1 => net'[e] = 1
    BY <1>1, <1>7, NetGrows
  <2>4. Coming(m)' = {d} /\ net'[d] = 1
    BY <1>3, <1>4, <1>8, <2>1, <2>2, <2>3 DEF Coming
  <2>5. \A n \in Stations : given'[n][m] = given[n][m]
    BY <1>5
  <2> QED  BY <1>1, <1>4, <1>5, <2>1, <2>4, <2>5, ApartUnicast
<1>10. Owing(m)'
  <2>1. owed'[m] = {t} /\ t \notin Bare
    <3>1. owed \in [Messages -> SUBSET Stations]
      BY DEF IInv, BroadcastTypeOK
    <3> QED  BY <1>1, <3>1 DEF SendUnicast
  <2>2. Brings(d, m, t)'
    BY <1>4 DEF Brings
  <2> QED  BY <1>9, <2>1, <2>2 DEF Owing
<1>11. /\ \A e \in {} : e.npdu = m
       /\ sending[m] = "sent" => sending'[m] = "sent" /\ origin'[m] = origin[m]
       /\ UNCHANGED <<fdt, registered, left>>
       /\ \A k \in Messages \ {m} :
              /\ sending'[k] = sending[k] /\ origin'[k] = origin[k]
              /\ \A n \in Stations : given'[n][k] = given[n][k]
              /\ owed'[k] = owed[k] /\ (k \in raised => k \in raised')
  <2>1. owed \in [Messages -> SUBSET Stations]
    BY DEF IInv, BroadcastTypeOK
  <2> QED  BY <1>1, <1>5, <2>1
<1> QED  BY <1>1, <1>3, <1>5, <1>6, <1>7, <1>9, <1>10, <1>11, MessageStep

\* A message does not go out, or not yet.
LEMMA StaysLemma ==
    ASSUME IInv, NEW m \in Messages, NEW s \in Stations, sending[m] # "sent",
           NEW state \in {"waiting", "dropped", "raised"}, Stays(m, s, state),
           state = "waiting" => s \in Foreigns
    PROVE  Keeps
<1>1. Becomes(m, s, state) /\ net' = net /\ owed' = owed
  BY DEF Stays
<1>2. owed' \in [Messages -> SUBSET Stations]
  BY <1>1 DEF IInv, BroadcastTypeOK
<1>3. /\ RestOK' /\ Senders' /\ Tables' /\ Registration' /\ UNCHANGED <<fdt, registered, left, given, raised>>
      /\ sending'[m] = state /\ origin'[m] = s
      /\ \A k \in Messages \ {m} :
             /\ sending'[k] = sending[k] /\ origin'[k] = origin[k]
             /\ \A n \in Stations : given'[n][k] = given[n][k]
  BY <1>1, <1>2, BecomesLemma
<1>4. \A k \in Messages : /\ sending'[k] = "sent" <=> sending[k] = "sent"
                          /\ sending[k] = "sent" => origin'[k] = origin[k]
  BY <1>3
<1>5. Left(net, {}) /\ IsABag(net) /\ IsABag(EmptyBag) /\ DOMAIN EmptyBag = {}
  BY NoneTaken, SetBag DEF IInv, BroadcastTypeOK, EmptyBag
<1>6. net' = net (+) EmptyBag
  BY <1>1, <1>5, NothingAdded
<1>7. /\ \A e \in {} : ~Takes(e)
      /\ \A e \in DOMAIN EmptyBag : ~Takes(e) /\ Sound(e)'
      /\ left \subseteq left' /\ UNCHANGED given
      /\ \A k \in Messages : owed'[k] \subseteq owed[k]
      /\ \A k \in Messages : \A n \in Foreigns \cap owed'[k] : registered[n] =>
             registered'[n] /\ (n \in fdt[BBMDOf[n]] => n \in fdt'[BBMDOf[n]])
  BY <1>1, <1>3, <1>5
<1> QED  BY <1>3, <1>4, <1>5, <1>6, <1>7, QuietStep

-----------------------------------------------------------------------------
(* Registration.                                                           *)

LEMMA ControlLemma ==
    ASSUME NEW type \in Controls, NEW source, NEW dest
    PROVE  LET X == Control(type, source, dest)
           IN  IsABag(X) /\ \A e \in DOMAIN X :
                   e.type = type /\ e.source = source /\ e.dest = dest /\ ~Takes(e)
<1>1. \A c : Datagrams(type, None, None, source, {dest}, c)
                 = SetToBag({Msg(type, None, None, source, dest, c)})
  BY OneDatagram
<1> DEFINE d == Msg(type, None, None, source, dest, FALSE)
<1>2. Control(type, source, dest) = SetToBag({d})
  BY <1>1 DEF Control, Unicast
<1>3. d.type = type /\ d.source = source /\ d.dest = dest
  BY DEF Msg
<1> HIDE DEF d
<1>4. ~Takes(d)
  BY <1>3 DEF Takes, Carriers, Controls
<1> QED  BY <1>2, <1>3, <1>4, SetBag

\* What is not of a message stays out of what follows.
LEMMA ControlsGo ==
    ASSUME IInv, NEW d \in DOMAIN net, d.type \in Controls
    PROVE  /\ ~Takes(d) /\ d.source \in Stations /\ d.dest \in Stations
           /\ d.type # "Result" => d.source \in Foreigns /\ d.dest = BBMDOf[d.source]
           /\ d.type = "UnregisterForeignDevice" => d.source \in left
           /\ d.type = "Result" => d.dest \in Foreigns
<1>1. Sound(d)
  BY DEF IInv
<1>2. d.type \notin Carriers
  BY DEF Carriers, Controls
<1> QED  BY <1>1, <1>2 DEF Sound, Takes, Carried

LEMMA RegisterLemma ==
    ASSUME IInv, NEW f \in Foreigns, Register(f)
    PROVE  Keeps
<1> DEFINE X == Control("RegisterForeignDevice", f, BBMDOf[f])
<1>1. RestOK /\ Left(net, {}) /\ IsABag(net)
  BY TypeLemma, NoneTaken DEF IInv
<1>2. /\ status[f] = "unregistered" /\ f \notin left
      /\ status' = [status EXCEPT ![f] = "inProcess"]
      /\ bbmdAddress' = [bbmdAddress EXCEPT ![f] = BBMDOf[f]]
      /\ net' = net (+) X
      /\ UNCHANGED <<fdt, registered, left, sending, origin, given, owed, raised>>
  BY DEF Register
<1>3. IsABag(X) /\ \A e \in DOMAIN X : /\ e.type = "RegisterForeignDevice" /\ e.source = f
                                       /\ e.dest = BBMDOf[f] /\ ~Takes(e)
  BY ControlLemma DEF Controls
<1> HIDE DEF X
<1>4. \A e \in DOMAIN X : ~Takes(e) /\ Sound(e)'
  BY <1>3, Kinds DEF Sound, Controls
<1>5. RestOK'
  BY <1>1, <1>2, Kinds DEF RestOK
<1>6. Senders' /\ Tables'
  BY <1>2 DEF IInv, Senders, Tables
<1>7. Registration'
  BY <1>1, <1>2 DEF IInv, Registration, RestOK
<1>8. /\ \A e \in {} : ~Takes(e)
      /\ left \subseteq left' /\ UNCHANGED given
      /\ \A k \in Messages : /\ sending'[k] = "sent" <=> sending[k] = "sent"
                             /\ sending[k] = "sent" => origin'[k] = origin[k]
      /\ \A k \in Messages : owed'[k] \subseteq owed[k]
      /\ \A k \in Messages : \A n \in Foreigns \cap owed'[k] : registered[n] =>
             registered'[n] /\ (n \in fdt[BBMDOf[n]] => n \in fdt'[BBMDOf[n]])
  BY <1>2
<1> QED  BY <1>1, <1>2, <1>3, <1>4, <1>5, <1>6, <1>7, <1>8, QuietStep

LEMMA UnregisterLemma ==
    ASSUME IInv, NEW f \in Foreigns, Unregister(f)
    PROVE  Keeps
<1> DEFINE X == Control("UnregisterForeignDevice", f, bbmdAddress[f])
<1>1. RestOK /\ Left(net, {}) /\ IsABag(net)
  BY TypeLemma, NoneTaken DEF IInv
<1>2. /\ status[f] # "unregistered"
      /\ status' = [status EXCEPT ![f] = "unregistered"]
      /\ registered' = [registered EXCEPT ![f] = FALSE]
      /\ bbmdAddress' = [bbmdAddress EXCEPT ![f] = None]
      /\ left' = left \cup {f}
      /\ net' = net (+) X
      /\ owed' = [m \in Messages |-> owed[m] \ {f}]
      /\ UNCHANGED <<fdt, sending, origin, given, raised>>
  BY DEF Unregister
<1>3. IsABag(X) /\ \A e \in DOMAIN X : /\ e.type = "UnregisterForeignDevice" /\ e.source = f
                                       /\ e.dest = bbmdAddress[f] /\ ~Takes(e)
  BY ControlLemma DEF Controls
<1> HIDE DEF X
<1>4. \A e \in DOMAIN X : ~Takes(e) /\ Sound(e)'
  <2>1. bbmdAddress[f] = BBMDOf[f] /\ BBMDOf[f] \in Stations /\ f \in Stations /\ f \in left'
    BY <1>2, Kinds DEF IInv, Registration
  <2> QED  BY <1>3, <2>1 DEF Sound, Controls
<1>5. RestOK'
  <2>1. [m \in Messages |-> owed[m] \ {f}] \in [Messages -> SUBSET Stations]
    BY <1>1 DEF RestOK
  <2> QED  BY <1>1, <1>2, <2>1 DEF RestOK
<1>6. Senders' /\ Tables'
  BY <1>2 DEF IInv, Senders, Tables
<1>7. Registration'
  BY <1>1, <1>2 DEF IInv, Registration, RestOK
<1>8. /\ \A e \in {} : ~Takes(e)
      /\ left \subseteq left' /\ UNCHANGED given
      /\ \A k \in Messages : /\ sending'[k] = "sent" <=> sending[k] = "sent"
                             /\ sending[k] = "sent" => origin'[k] = origin[k]
      /\ \A k \in Messages : owed'[k] \subseteq owed[k]
      /\ \A k \in Messages : \A n \in Foreigns \cap owed'[k] : registered[n] =>
             registered'[n] /\ (n \in fdt[BBMDOf[n]] => n \in fdt'[BBMDOf[n]])
  BY <1>1, <1>2 DEF RestOK
<1> QED  BY <1>1, <1>2, <1>3, <1>4, <1>5, <1>6, <1>7, <1>8, QuietStep

\* One datagram is taken.
LEMMA OneTaken ==
    ASSUME IInv, NEW d
    PROVE  LET L == net (-) SetToBag({d})
           IN  Left(L, {d}) /\ IsABag(L) /\ L (+) EmptyBag = L
BY SomeTaken, SetBag, BagsLemma, NothingAdded DEF IInv, BroadcastTypeOK

LEMMA ReceiveRegistrationLemma ==
    ASSUME IInv, NEW d \in DOMAIN net, ReceiveRegistration(d)
    PROVE  Keeps
<1> DEFINE b == d.dest
           L == net (-) SetToBag({d})
           X == Control("Result", b, d.source)
<1>1. RestOK /\ Left(L, {d}) /\ IsABag(L)
  BY TypeLemma, OneTaken DEF IInv
<1>2. /\ d.type \in {"RegisterForeignDevice", "UnregisterForeignDevice"}
      /\ fdt' = [fdt EXCEPT ![b] = IF d.type = "RegisterForeignDevice"
                                   THEN @ \cup {d.source} ELSE @ \ {d.source}]
      /\ net' = L (+) X
      /\ UNCHANGED <<status, registered, bbmdAddress, left, sending, origin, given, owed, raised>>
  BY DEF ReceiveRegistration, registration
<1>3. ~Takes(d) /\ d.source \in Foreigns /\ b = BBMDOf[d.source] /\ b \in BBMDs
  BY <1>2, ControlsGo, Kinds DEF Controls
<1>4. IsABag(X) /\ \A e \in DOMAIN X : /\ e.type = "Result" /\ e.source = b
                                       /\ e.dest = d.source /\ ~Takes(e)
  BY ControlLemma DEF Controls
<1> HIDE DEF X, L
<1>5. \A e \in DOMAIN X : ~Takes(e) /\ Sound(e)'
  BY <1>3, <1>4, Kinds DEF Sound, Controls
<1>6. RestOK' /\ Tables'
  <2>1. \A c \in BBMDs : /\ fdt'[c] \subseteq Foreigns
                         /\ \A f \in fdt'[c] : BBMDOf[f] = c
    BY <1>1, <1>2, <1>3 DEF IInv, RestOK, Tables
  <2>2. fdt' \in [BBMDs -> SUBSET Foreigns]
    BY <1>1, <1>2, <2>1 DEF RestOK
  <2> QED  BY <1>1, <1>2, <2>1, <2>2 DEF RestOK, Tables
<1>7. Senders' /\ Registration'
  BY <1>2 DEF IInv, Senders, Registration
<1>8. /\ \A e \in {d} : ~Takes(e)
      /\ left \subseteq left' /\ UNCHANGED given
      /\ \A k \in Messages : /\ sending'[k] = "sent" <=> sending[k] = "sent"
                             /\ sending[k] = "sent" => origin'[k] = origin[k]
      /\ \A k \in Messages : owed'[k] \subseteq owed[k]
  BY <1>2, <1>3
<1>9. \A n \in Foreigns : registered[n] =>
          registered'[n] /\ (n \in fdt[BBMDOf[n]] => n \in fdt'[BBMDOf[n]])
  <2>1. d.type = "UnregisterForeignDevice" => ~registered[d.source]
    BY <1>2, <1>3, ControlsGo DEF Controls, IInv, Registration
  <2>2. \A n \in Foreigns : BBMDOf[n] \in BBMDs
    BY Kinds
  <2>3. fdt \in [BBMDs -> SUBSET Foreigns]
    BY <1>1 DEF RestOK
  <2> QED  BY <1>2, <2>1, <2>2, <2>3
<1> QED  BY <1>1, <1>2, <1>4, <1>5, <1>6, <1>7, <1>8, <1>9, QuietStep

LEMMA ReceiveResultLemma ==
    ASSUME IInv, NEW d \in DOMAIN net, ReceiveResult(d)
    PROVE  Keeps
<1> DEFINE f == d.dest
           L == net (-) SetToBag({d})
<1>1. RestOK /\ Left(L, {d}) /\ IsABag(L) /\ L (+) EmptyBag = L
  BY TypeLemma, OneTaken DEF IInv
<1>2. /\ d.type = "Result" /\ net' = L
      /\ UNCHANGED <<fdt, bbmdAddress, left, origin, given, owed, raised>>
  BY DEF ReceiveResult
<1>3. ~Takes(d) /\ f \in Foreigns
  BY <1>2, ControlsGo DEF Controls
<1>4. \/ UNCHANGED <<status, registered, sending>>
      \/ /\ status[f] # "unregistered"
         /\ status' = [status EXCEPT ![f] = "OK"]
         /\ registered' = [registered EXCEPT ![f] = TRUE]
         /\ sending' = [m \in Messages |->
                           IF origin[m] = f /\ sending[m] = "waiting" THEN "woken"
                           ELSE sending[m]]
  BY DEF ReceiveResult
<1> HIDE DEF L
<1>5. \A k \in Messages : /\ sending'[k] = "sent" <=> sending[k] = "sent"
                          /\ sending'[k] = "woken" => sending[k] \in {"waiting", "woken"}
                          /\ sending'[k] = "waiting" => sending[k] = "waiting"
  BY <1>4
<1>6. RestOK'
  <2>1. sending' \in [Messages -> {"unsent", "waiting", "woken", "sent", "dropped", "raised"}]
    BY <1>1, <1>4 DEF RestOK
  <2>2. /\ status' \in [Foreigns -> {"unregistered", "inProcess", "OK"}]
        /\ registered' \in [Foreigns -> BOOLEAN]
    BY <1>1, <1>4 DEF RestOK
  <2> QED  BY <1>1, <1>2, <2>1, <2>2 DEF RestOK
<1>7. Senders' /\ Tables'
  BY <1>2, <1>5 DEF IInv, Senders, Tables
<1>8. Registration'
  BY <1>1, <1>2, <1>3, <1>4 DEF IInv, Registration, RestOK
<1>9. /\ \A e \in {d} : ~Takes(e)
      /\ left \subseteq left' /\ UNCHANGED given
      /\ \A k \in Messages : /\ sending'[k] = "sent" <=> sending[k] = "sent"
                             /\ sending[k] = "sent" => origin'[k] = origin[k]
      /\ \A k \in Messages : owed'[k] \subseteq owed[k]
      /\ \A k \in Messages : \A n \in Foreigns \cap owed'[k] : registered[n] =>
             registered'[n] /\ (n \in fdt[BBMDOf[n]] => n \in fdt'[BBMDOf[n]])
  <2>1. \A n \in Foreigns : registered[n] => registered'[n]
    BY <1>1, <1>4 DEF RestOK
  <2> QED  BY <1>2, <1>3, <1>5, <2>1
<1>10. IsABag(EmptyBag) /\ \A e \in DOMAIN EmptyBag : ~Takes(e) /\ Sound(e)'
  BY SetBag DEF EmptyBag
<1>11. net' = L (+) EmptyBag
  BY <1>1, <1>2
<1> QED  BY <1>1, <1>2, <1>6, <1>7, <1>8, <1>9, <1>10, <1>11, QuietStep

-----------------------------------------------------------------------------
(* Receiving.                                                              *)

\* A datagram that its destination does not take.
LEMMA UntakenLemma ==
    ASSUME IInv, NEW d \in DOMAIN net, ~Takes(d), Answers(d, EmptyBag), NotUp, UNCHANGED raised
    PROVE  Keeps
<1> DEFINE L == net (-) SetToBag({d})
<1>1. RestOK /\ Left(L, {d}) /\ IsABag(L)
  BY TypeLemma, OneTaken DEF IInv
<1>2. /\ net' = L (+) EmptyBag
      /\ UNCHANGED <<fdt, status, registered, bbmdAddress, left, sending, origin, given, owed, raised>>
  BY DEF Answers, NotUp, registration
<1> HIDE DEF L
<1>3. RestOK' /\ Senders' /\ Tables' /\ Registration'
  BY <1>1, <1>2 DEF IInv, RestOK, Senders, Tables, Registration
<1>4. /\ \A e \in {d} : ~Takes(e)
      /\ left \subseteq left' /\ UNCHANGED given
      /\ \A k \in Messages : /\ sending'[k] = "sent" <=> sending[k] = "sent"
                             /\ sending[k] = "sent" => origin'[k] = origin[k]
      /\ \A k \in Messages : owed'[k] \subseteq owed[k]
      /\ \A k \in Messages : \A n \in Foreigns \cap owed'[k] : registered[n] =>
             registered'[n] /\ (n \in fdt[BBMDOf[n]] => n \in fdt'[BBMDOf[n]])
  BY <1>2
<1>5. IsABag(EmptyBag) /\ \A e \in DOMAIN EmptyBag : ~Takes(e) /\ Sound(e)'
  BY SetBag DEF EmptyBag
<1> QED  BY <1>1, <1>2, <1>3, <1>4, <1>5, QuietStep

\* A station takes a message, is given it or not, and sends it on.
LEMMA HandleLemma ==
    ASSUME IInv, NEW m \in Messages, NEW d \in Coming(m), NEW X, IsABag(X),
           NEW D, Sent(X, m, origin[m], d.dest, D),
           \A n \in D : n \in Stations \ {origin[m]} /\ Parent(origin[m], n) = d.dest,
           Unicasts(d) => D = {},
           Answers(d, X), raised \subseteq raised', raised' \subseteq Messages,
           \/ Up(d)
           \/ NotUp /\ d.dest \in Bare
           \/ NotUp /\ d.dest \in Foreigns /\ ~Unicasts(d) /\ ~registered[d.dest],
           d.dest \in BBMDs /\ ~Unicasts(d) =>
               m \in raised' \/ D = Served(origin[m], d.dest)
    PROVE  Keeps
<1> DEFINE L == net (-) SetToBag({d})
           o == origin[m]
           x == d.dest
<1>1. RestOK /\ Left(L, {d}) /\ IsABag(L)
  BY TypeLemma, OneTaken DEF IInv
<1>2. /\ net' = L (+) X
      /\ UNCHANGED <<fdt, status, registered, bbmdAddress, left, sending, origin>>
  BY DEF Answers, registration
<1>3. /\ d.npdu = m /\ d \in DOMAIN net /\ x \in Stations \ {o} /\ RealSource(d) = o
      /\ sending[m] = "sent" /\ o \in Stations
  BY ComingOnce
<1>4. Apart(m) /\ Alone(m, d) /\ given[x][m] = <<>>
  BY DEF IInv, Apart, Alone
<1>5. /\ given' \in [Stations -> [Messages -> Seq(Stations)]]
      /\ \A n \in Stations : \A k \in Messages \ {m} : given'[n][k] = given[n][k]
      /\ \A n \in Stations \ {x} : given'[n][m] = given[n][m]
      /\ given'[x][m] \in {<<>>, <<o>>}
  <2>1. CASE NotUp
    BY <1>1, <1>4, <2>1 DEF NotUp, RestOK
  <2>2. CASE Up(d)
    <3>1. given' = [given EXCEPT ![x][m] = Append(given[x][m], o)]
      BY <1>1, <1>3, <2>2 DEF Up, RestOK
    <3>2. Append(given[x][m], o) = <<o>> /\ <<o>> \in Seq(Stations)
      BY <1>3, <1>4
    <3>3. given' = [given EXCEPT ![x][m] = <<o>>]
      BY <3>1, <3>2
    <3> QED  BY <1>1, <1>3, <3>2, <3>3 DEF RestOK
  <2> QED  BY <2>1, <2>2
<1>6. /\ owed' \in [Messages -> SUBSET Stations]
      /\ \A k \in Messages \ {m} : owed'[k] = owed[k]
      /\ owed'[m] \subseteq owed[m]
      /\ Up(d) => x \notin owed'[m]
  <2>1. owed \in [Messages -> SUBSET Stations]
    BY <1>1 DEF RestOK
  <2>2. CASE NotUp
    <3>1. owed' = owed
      BY <2>2 DEF NotUp
    <3>2. ~Up(d)
      <4>1. SUFFICES ASSUME Up(d)
                     PROVE  FALSE
        OBVIOUS
      <4>2. given' = [given EXCEPT ![x][m] = Append(given[x][m], o)] /\ given' = given
        BY <1>3, <2>2, <4>1 DEF Up, NotUp
      <4>3. given'[x][m] = Append(<<>>, o)
        BY <1>1, <1>3, <1>4, <4>2 DEF RestOK
      <4>4. Append(<<>>, o) # <<>>
        OBVIOUS
      <4> QED  BY <1>4, <4>2, <4>3, <4>4
    <3> QED  BY <2>1, <3>1, <3>2
  <2>3. CASE Up(d)
    <3>1. owed' = [owed EXCEPT ![m] = owed[m] \ {x}]
      BY <1>3, <2>3 DEF Up
    <3> QED  BY <2>1, <3>1
  <2> QED  BY <2>2, <2>3
<1>7. RestOK'
  BY <1>1, <1>2, <1>5, <1>6 DEF RestOK
<1>8. Senders' /\ Tables' /\ Registration'
  BY <1>2 DEF IInv, Senders, Tables, Registration
<1>9. \A e \in DOMAIN X : e.npdu = m /\ Sound(e)'
  <2>1. sending'[m] = "sent" /\ origin'[m] = o /\ x \in Stations
    BY <1>2, <1>3
  <2> QED  BY <2>1, SentSound
<1> HIDE DEF L
<1>10. \A e \in Coming(m) : net[e] = 1 /\ e.dest \in Stations /\ e.dest \notin D
  <2>1. \A e \in Coming(m) : net[e] = 1 /\ e.dest \in Stations
    BY ComingOnce
  <2>2. CASE Unicasts(d)
    BY <2>1, <2>2
  <2>3. CASE ~Unicasts(d)
    <3>1. \A n \in D : Under(o, n, x)
      BY DEF Under
    <3>2. \A n \in D : ~Reached(m, n)
      BY <1>4, <2>3, <3>1 DEF Alone
    <3> QED  BY <2>1, <3>2 DEF Reached
  <2> QED  BY <2>2, <2>3
<1>11. PICK N : 
           /\ Coming(m)' = (Coming(m) \ {d}) \cup N
           /\ \A e \in Coming(m)' : net'[e] = 1
           /\ \A e \in N : /\ e.dest \in D /\ ~Unicasts(e)
                           /\ \A f \in N : f.dest = e.dest => f = e
           /\ \A n \in D : \E e \in N : e.dest = n
  BY <1>1, <1>2, <1>10, ComingSent
<1>12. Handled(m, d)
  BY <1>2, <1>3, <1>5 DEF Handled
<1>13. Apart(m)'
  <2>1. CASE Unicasts(d)
    <3>1. Coming(m)' \subseteq Coming(m) \ {d}
      BY <1>11, <2>1
    <3> QED  BY <1>3, <1>4, <1>12, <2>1, <3>1, ApartArrives
  <2>2. CASE ~Unicasts(d)
    <3>1. Fresh(N, D) /\ \A e \in Coming(m) : e.dest \in Stations
      BY <1>10, <1>11 DEF Fresh
    <3> QED  BY <1>3, <1>4, <1>11, <1>12, <2>2, <3>1, ApartHandles
  <2> QED  BY <2>1, <2>2
<1>14. ASSUME Supported, OwingInv
       PROVE  Owing(m)'
  <2>1. /\ o \in Stations /\ origin'[m] = o /\ Owing(m)
        /\ m \in raised => m \in raised'
        /\ UNCHANGED <<fdt, registered>>
    BY <1>2, <1>3, <1>14 DEF OwingInv
  <2>2. \/ x \notin owed'[m]
        \/ x \in Bare
        \/ x \in Foreigns /\ ~Unicasts(d) /\ ~registered[x]
    BY <1>6
  <2>3. Fresh(N, D)
    BY <1>11 DEF Fresh
  <2> QED  BY <1>3, <1>6, <1>11, <1>14, <2>1, <2>2, <2>3, OwingHandles
<1>15. /\ \A e \in {d} : e.npdu = m
       /\ UNCHANGED <<fdt, registered, left>>
       /\ \A k \in Messages \ {m} :
              /\ sending'[k] = sending[k] /\ origin'[k] = origin[k]
              /\ \A n \in Stations : given'[n][k] = given[n][k]
              /\ owed'[k] = owed[k] /\ (k \in raised => k \in raised')
       /\ sending[m] = "sent" => sending'[m] = "sent" /\ origin'[m] = origin[m]
  BY <1>2, <1>3, <1>5, <1>6
<1> QED  BY <1>1, <1>2, <1>7, <1>8, <1>9, <1>13, <1>14, <1>15, MessageStep

\* It only takes the message.
LEMMA TakeLemma ==
    ASSUME IInv, NEW m \in Messages, NEW d \in Coming(m),
           Answers(d, EmptyBag), raised \subseteq raised', raised' \subseteq Messages,
           \/ Up(d)
           \/ NotUp /\ d.dest \in Bare
           \/ NotUp /\ d.dest \in Foreigns /\ ~Unicasts(d) /\ ~registered[d.dest],
           d.dest \in BBMDs /\ ~Unicasts(d) => m \in raised'
    PROVE  Keeps
<1>1. Sent(EmptyBag, m, origin[m], d.dest, {}) /\ IsABag(EmptyBag)
  BY NothingSent, SendsBags
<1> QED  BY <1>1, HandleLemma

\* A message under way that is taken is coming to its destination.
LEMMA TakenComes ==
    ASSUME IInv, NEW d \in DOMAIN net, Takes(d)
    PROVE  /\ d.npdu \in Messages /\ d \in Coming(d.npdu)
           /\ d.dest \in BBMDs => Fits(d, origin[d.npdu])
<1>1. Sound(d) /\ d.type \notin Controls
  BY DEF IInv, Takes, Carriers, Controls
<1> QED  BY <1>1 DEF Sound, Carried, Coming

LEMMA HandsUpLemma ==
    ASSUME IInv, NEW m \in Messages, NEW d \in Coming(m), ~Unicasts(d),
           NEW X, IsABag(X), Sent(X, m, origin[m], d.dest, Served(origin[m], d.dest)),
           HandsUpAndSends(d, X)
    PROVE  Keeps
<1>1. d.npdu = m
  BY ComingOnce
<1>2. raised' \subseteq Messages
  BY <1>1 DEF HandsUpAndSends, IInv, BroadcastTypeOK
<1>3. \A n \in Served(origin[m], d.dest) :
          n \in Stations \ {origin[m]} /\ Parent(origin[m], n) = d.dest
  BY DEF Served
<1>4. raised \subseteq raised'
  BY DEF HandsUpAndSends
<1>5. CASE Answers(d, X) /\ (Up(d) \/ (NotUp /\ d.dest \in Bare))
  BY <1>2, <1>3, <1>4, <1>5, HandleLemma
<1>6. CASE Answers(d, EmptyBag) /\ Up(d) /\ m \in raised'
  BY <1>2, <1>4, <1>6, TakeLemma
<1> QED  BY <1>1, <1>5, <1>6 DEF HandsUpAndSends

\* What a BBMD does with a message that is for a broadcast's stations.
LEMMA BBMDHandles ==
    ASSUME IInv, NEW d \in DOMAIN net, Takes(d), ~Unicasts(d), d.dest \in BBMDs,
           NEW b, b = d.dest, NEW o, o = origin[d.npdu], NEW m, m = d.npdu
    PROVE  /\ m \in Messages /\ d \in Coming(m) /\ o \in Stations /\ b # o /\ RealSource(d) = o
           /\ d.type = "OriginalBroadcastNPDU" => o \in Normals /\ b = Home(o) /\ d.source = o
           /\ d.type = "DistributeBroadcastToNetwork" =>
                  o \in Foreigns /\ b = Home(o) /\ d.source = o /\ ~d.cast
           /\ d.type = "ForwardedNPDU" => b # Home(o) /\ d.real = o /\ d.cast = (b \in Directed)
<1>1. m \in Messages /\ d \in Coming(m) /\ Fits(d, o)
  BY TakenComes
<1>2. o \in Stations /\ b # o /\ RealSource(d) = o
  BY <1>1, ComingOnce
<1> QED  BY <1>1, <1>2 DEF Fits, Unicasts, RealSource

LEMMA BroadcastAtBBMD ==
    ASSUME IInv, NEW d \in DOMAIN net, BBMDReceivesBroadcast(d)
    PROVE  Keeps
<1> DEFINE b == d.dest
           m == d.npdu
           o == origin[m]
           X == ToPeers(b, m, o) (+) ToForeign(b, m, o, fdt[b])
<1>1. b \in BBMDs /\ ~Reflected(d) /\ d.type = "OriginalBroadcastNPDU"
      /\ HandsUpAndSends(d, ToPeers(b, d.npdu, d.source) (+) ToForeign(b, d.npdu, d.source, fdt[b]))
  BY DEF BBMDReceivesBroadcast, AtBBMD
<1>2. Takes(d) /\ ~Unicasts(d)
  BY <1>1, Kinds DEF Takes, Carriers, Unicasts
<1>3. m \in Messages /\ d \in Coming(m) /\ o \in Normals /\ b = Home(o) /\ d.source = o
  BY <1>1, <1>2, BBMDHandles
<1>4. HandsUpAndSends(d, X) /\ Tables
  BY <1>1, <1>3 DEF IInv
<1>5. IsABag(X) /\ Sent(X, m, o, b, Served(o, b))
  BY <1>1, <1>3, <1>4, SendsBags, BagsLemma, HomeSends
<1> HIDE DEF X
<1> QED  BY <1>2, <1>3, <1>4, <1>5, HandsUpLemma

LEMMA ForwardedAtBBMD ==
    ASSUME IInv, NEW d \in DOMAIN net, BBMDReceivesForwarded(d)
    PROVE  Keeps
<1> DEFINE b == d.dest
           m == d.npdu
           o == origin[m]
           X == (IF b \in Directed THEN EmptyBag ELSE LocalBroadcast("ForwardedNPDU", m, o, b))
                    (+) ToForeign(b, m, o, fdt[b])
<1>1. b \in BBMDs /\ ~Reflected(d) /\ d.type = "ForwardedNPDU"
      /\ HandsUpAndSends(d, SecondHop(d) (+) ToForeign(d.dest, d.npdu, d.real, fdt[d.dest]))
  BY DEF BBMDReceivesForwarded, AtBBMD
<1>2. Takes(d) /\ ~Unicasts(d)
  BY <1>1, Kinds DEF Takes, Carriers, Unicasts
<1>3. /\ m \in Messages /\ d \in Coming(m) /\ o \in Stations /\ b # Home(o)
      /\ d.real = o /\ RealSource(d) = o /\ d.cast = (b \in Directed)
  BY <1>1, <1>2, BBMDHandles
<1>4. SecondHop(d) = IF b \in Directed THEN EmptyBag ELSE LocalBroadcast("ForwardedNPDU", m, o, b)
  <2>1. b \in BDT[b]
    BY <1>1, TopologyAssumption
  <2> QED  BY <1>3, <2>1 DEF SecondHop
<1>5. HandsUpAndSends(d, X) /\ Tables
  BY <1>1, <1>3, <1>4 DEF IInv
<1>6. IsABag(X) /\ Sent(X, m, o, b, Served(o, b))
  <2>1. IsABag(IF b \in Directed THEN EmptyBag ELSE LocalBroadcast("ForwardedNPDU", m, o, b))
    BY SendsBags
  <2> QED  BY <1>1, <1>3, <1>5, <2>1, SendsBags, BagsLemma, OtherSends
<1> HIDE DEF X
<1> QED  BY <1>2, <1>3, <1>5, <1>6, HandsUpLemma

LEMMA DistributedAtBBMD ==
    ASSUME IInv, NEW d \in DOMAIN net, BBMDDistributes(d)
    PROVE  Keeps
<1> DEFINE b == d.dest
           m == d.npdu
           o == origin[m]
           D == IF b \in Bare THEN {} ELSE fdt[b] \ {o}
           X == LocalBroadcast("ForwardedNPDU", m, o, b) (+) ToPeers(b, m, o)
                    (+) ToForeign(b, m, o, D)
<1>1. b \in BBMDs /\ ~Reflected(d) /\ d.type = "DistributeBroadcastToNetwork"
      /\ HandsUpAndSends(d, SecondHop(d) (+) ToPeers(b, d.npdu, d.source)
                                  (+) ToForeign(b, d.npdu, d.source, OtherDevices(d)))
  BY DEF BBMDDistributes, AtBBMD
<1>2. Takes(d) /\ ~Unicasts(d)
  BY <1>1, Kinds DEF Takes, Carriers, Unicasts
<1>3. /\ m \in Messages /\ d \in Coming(m) /\ o \in Foreigns /\ b = Home(o)
      /\ d.source = o /\ RealSource(d) = o /\ ~d.cast
  BY <1>1, <1>2, BBMDHandles
<1>4. SecondHop(d) = LocalBroadcast("ForwardedNPDU", m, o, b) /\ OtherDevices(d) = D
  <2>1. b \in BDT[b]
    BY <1>1, TopologyAssumption
  <2> QED  BY <1>3, <2>1 DEF SecondHop, OtherDevices
<1>5. HandsUpAndSends(d, X) /\ Tables
  BY <1>1, <1>3, <1>4 DEF IInv
<1>6. IsABag(X) /\ Sent(X, m, o, b, Served(o, b))
  <2>1. IsABag(LocalBroadcast("ForwardedNPDU", m, o, b) (+) ToPeers(b, m, o))
    BY SendsBags, BagsLemma
  <2>2. IsABag(ToForeign(b, m, o, D))
    BY SendsBags
  <2>3. IsABag(X)
    BY <2>1, <2>2, BagsLemma
  <2> QED  BY <1>1, <1>3, <1>5, <2>3, HomeDistributes
<1> HIDE DEF X
<1> QED  BY <1>2, <1>3, <1>5, <1>6, HandsUpLemma

-----------------------------------------------------------------------------
(* Every step keeps the invariant.                                         *)

LEMMA DistributeKeeps ==
    ASSUME IInv, NEW m \in Messages, NEW f \in Foreigns, sending[m] # "sent", Distribute(m, f)
    PROVE  Keeps
<1>1. f \in Stations
  BY Kinds
<1>2. CASE bbmdAddress[f] = None
  <2>1. Stays(m, f, "raised")
    BY <1>2 DEF Distribute
  <2> QED  BY <1>1, <2>1, StaysLemma
<1>3. CASE bbmdAddress[f] # None
  <2> DEFINE X == Unicast("DistributeBroadcastToNetwork", m, f, f, {BBMDOf[f]})
  <2>1. bbmdAddress[f] = BBMDOf[f]
    BY <1>3 DEF IInv, Registration
  <2>2. GoesOut(m, f, X, Audience(f))
    BY <1>3, <2>1 DEF Distribute
  <2>3. IsABag(X) /\ Sent(X, m, f, f, Served(f, f))
    BY SendsBags, ForeignSends
  <2> HIDE DEF X
  <2> QED  BY <1>1, <2>2, <2>3, BroadcastLemma
<1> QED  BY <1>2, <1>3

LEMMA SendKeeps ==
    ASSUME IInv, NEW m \in Messages, Send(m)
    PROVE  Keeps
<1>1. CASE \E s, t \in Stations : SendUnicast(m, s, t)
  BY <1>1, UnicastLemma
<1>2. ASSUME NEW s \in Normals, NormalBroadcast(m, s)
      PROVE  Keeps
  <2> DEFINE X == LocalBroadcast("OriginalBroadcastNPDU", m, s, s)
  <2>1. sending[m] # "sent" /\ GoesOut(m, s, X, Audience(s)) /\ s \in Stations
    BY <1>2, Kinds DEF NormalBroadcast
  <2>2. IsABag(X) /\ Sent(X, m, s, s, Served(s, s))
    BY SendsBags, NormalSends
  <2> HIDE DEF X
  <2> QED  BY <2>1, <2>2, BroadcastLemma
<1>3. ASSUME NEW b \in BBMDs, BBMDBroadcast(m, b)
      PROVE  Keeps
  <2> DEFINE X == LocalBroadcast("OriginalBroadcastNPDU", m, b, b)
                      (+) ToPeers(b, m, b) (+) ToForeign(b, m, b, fdt[b])
  <2>1. sending[m] # "sent" /\ GoesOut(m, b, X, Audience(b)) /\ b \in Stations /\ Tables
    BY <1>3, Kinds DEF BBMDBroadcast, IInv
  <2>2. IsABag(LocalBroadcast("OriginalBroadcastNPDU", m, b, b) (+) ToPeers(b, m, b))
    BY SendsBags, BagsLemma
  <2>3. IsABag(ToForeign(b, m, b, fdt[b]))
    BY SendsBags
  <2>4. IsABag(X) /\ Sent(X, m, b, b, Served(b, b))
    BY <2>1, <2>2, <2>3, BagsLemma, BBMDSends
  <2> HIDE DEF X
  <2> QED  BY <2>1, <2>4, BroadcastLemma
<1>4. ASSUME NEW f \in Foreigns, ForeignBroadcast(m, f)
      PROVE  Keeps
  <2>1. sending[m] # "sent" /\ f \in Stations
    BY <1>4, Kinds DEF ForeignBroadcast
  <2>2. Stays(m, f, "dropped") \/ Stays(m, f, "waiting") \/ Distribute(m, f)
    BY <1>4 DEF ForeignBroadcast
  <2> QED  BY <2>1, <2>2, StaysLemma, DistributeKeeps
<1>5. CASE WaitEnds(m)
  <2>1. sending[m] # "sent" /\ origin[m] \in Foreigns /\ Distribute(m, origin[m])
    BY <1>5 DEF WaitEnds, IInv, Senders
  <2> QED  BY <2>1, DistributeKeeps
<1>6. CASE WaitTimesOut(m)
  <2>1. sending[m] # "sent" /\ origin[m] \in Stations /\ Stays(m, origin[m], "dropped")
    BY <1>6, Kinds DEF WaitTimesOut, IInv, Senders
  <2> QED  BY <2>1, StaysLemma
<1> QED  BY <1>1, <1>2, <1>3, <1>4, <1>5, <1>6 DEF Send

\* A foreign device takes no more than what its BBMD forwards.
LEMMA ForeignTakes ==
    ASSUME IInv, NEW d \in DOMAIN net, d.dest \in Foreigns, ~Reflected(d),
           d.type = "OriginalUnicastNPDU" \/ (d.type = "ForwardedNPDU" /\ FromBBMD(d))
    PROVE  Takes(d)
<1>1. d.type = "ForwardedNPDU" => d.source = BBMDOf[d.dest]
  BY DEF FromBBMD, IInv, Registration
<1> QED  BY <1>1 DEF Takes, Unicasts, Carriers

LEMMA ReceiveKeeps ==
    ASSUME IInv, NEW d \in DOMAIN net, Receive(d)
    PROVE  Keeps
<1>1. CASE ReceiveReflected(d)
  BY <1>1, UntakenLemma DEF ReceiveReflected, Takes
<1>2. CASE NormalReceives(d)
  <2>1. /\ d.dest \in Normals /\ ~Reflected(d) /\ Answers(d, EmptyBag) /\ Up(d)
        /\ UNCHANGED raised
    BY <1>2 DEF NormalReceives
  <2>2. d.type \notin Controls
    BY <2>1, ControlsGo, Kinds
  <2>3. Takes(d)
    <3>1. d.type \in Carriers
      BY <2>2 DEF IInv, Sound, Carried
    <3> QED  BY <2>1, <3>1, Kinds DEF Takes
  <2>4. d.npdu \in Messages /\ d \in Coming(d.npdu)
    BY <2>3, TakenComes
  <2>5. raised \subseteq raised' /\ raised' \subseteq Messages /\ d.dest \notin BBMDs
    BY <2>1, Kinds DEF IInv, BroadcastTypeOK
  <2> QED  BY <2>1, <2>4, <2>5, TakeLemma
<1>3. CASE ForeignReceives(d)
  <2>1. /\ d.dest \in Foreigns /\ ~Reflected(d) /\ Answers(d, EmptyBag)
        /\ UNCHANGED raised
    BY <1>3 DEF ForeignReceives
  <2>2. CASE d.type = "OriginalUnicastNPDU" \/ (d.type = "ForwardedNPDU" /\ FromBBMD(d))
    <3>1. Takes(d) /\ Up(d)
      BY <1>3, <2>1, <2>2, ForeignTakes DEF ForeignReceives
    <3>2. d.npdu \in Messages /\ d \in Coming(d.npdu)
      BY <3>1, TakenComes
    <3>3. raised \subseteq raised' /\ raised' \subseteq Messages /\ d.dest \notin BBMDs
      BY <2>1, Kinds DEF IInv, BroadcastTypeOK
    <3> QED  BY <2>1, <3>1, <3>2, <3>3, TakeLemma
  <2>3. CASE ~(d.type = "OriginalUnicastNPDU" \/ (d.type = "ForwardedNPDU" /\ FromBBMD(d)))
    <3>1. /\ NotUp /\ raised \subseteq raised' /\ raised' \subseteq Messages
          /\ d.dest \notin BBMDs
      BY <1>3, <2>1, <2>3, Kinds DEF ForeignReceives, IInv, BroadcastTypeOK
    <3>2. CASE Takes(d)
      <4>1. d.npdu \in Messages /\ d \in Coming(d.npdu)
        BY <3>2, TakenComes
      <4>2. ~Unicasts(d) /\ ~registered[d.dest]
        <5>1. ~Unicasts(d) /\ d.type = "ForwardedNPDU" /\ d.source = BBMDOf[d.dest]
          BY <2>1, <2>3, <3>2 DEF Unicasts, Takes
        <5>2. registered[d.dest] => bbmdAddress[d.dest] = BBMDOf[d.dest]
          BY <2>1 DEF IInv, Registration
        <5> QED  BY <2>3, <5>1, <5>2 DEF FromBBMD
      <4> QED  BY <2>1, <3>1, <4>1, <4>2, TakeLemma
    <3>3. CASE ~Takes(d)
      BY <2>1, <3>1, <3>3, UntakenLemma
    <3> QED  BY <3>2, <3>3
  <2> QED  BY <2>2, <2>3
<1>4. CASE BBMDReceivesUnicast(d)
  <2>1. /\ d.dest \in BBMDs /\ ~Reflected(d) /\ d.type = "OriginalUnicastNPDU"
        /\ HandsUpAndSends(d, EmptyBag)
    BY <1>4 DEF BBMDReceivesUnicast, AtBBMD
  <2>2. Takes(d)
    BY <2>1, Kinds DEF Takes, Carriers, Unicasts
  <2>3. d.npdu \in Messages /\ d \in Coming(d.npdu)
    BY <2>2, TakenComes
  <2>4. /\ Answers(d, EmptyBag) /\ (Up(d) \/ (NotUp /\ d.dest \in Bare))
        /\ raised \subseteq raised' /\ raised' \subseteq Messages /\ Unicasts(d)
    BY <2>1, <2>3 DEF HandsUpAndSends, IInv, BroadcastTypeOK, Unicasts
  <2> QED  BY <2>3, <2>4, TakeLemma
<1> QED  BY <1>1, <1>2, <1>3, <1>4, ReceiveRegistrationLemma, ReceiveResultLemma,
            BroadcastAtBBMD, ForwardedAtBBMD, DistributedAtBBMD DEF Receive

LEMMA InitHolds == Init => IInv
<1> SUFFICES ASSUME Init
             PROVE  IInv
  OBVIOUS
<1>1. DOMAIN net = {} /\ IsABag(net)
  BY SetBag DEF Init, EmptyBag
<1>2. /\ fdt = [b \in BBMDs |-> {}]
      /\ status = [f \in Foreigns |-> "unregistered"]
      /\ registered = [f \in Foreigns |-> FALSE]
      /\ bbmdAddress = [f \in Foreigns |-> None]
      /\ left = {}
      /\ sending = [m \in Messages |-> "unsent"]
      /\ origin = [m \in Messages |-> None]
      /\ given = [s \in Stations |-> [m \in Messages |-> <<>>]]
      /\ owed = [m \in Messages |-> {}]
      /\ raised = {}
  BY DEF Init
<1>3. BroadcastTypeOK
  <2>1. <<>> \in Seq(Stations)
    OBVIOUS
  <2>2. \A s \in Stations : [m \in Messages |-> <<>>] \in [Messages -> Seq(Stations)]
    BY <2>1
  <2>3. given \in [Stations -> [Messages -> Seq(Stations)]]
    BY <1>2, <2>2
  <2> QED  BY <1>1, <1>2, <2>3 DEF BroadcastTypeOK, BagToSet
<1>4. Senders /\ Tables /\ Registration
  BY <1>2 DEF Senders, Tables, Registration
<1>5. \A m \in Messages : Apart(m)
  BY <1>1, <1>2, Kinds DEF Apart, Coming
<1> QED  BY <1>1, <1>3, <1>4, <1>5 DEF IInv

LEMMA NextHolds == IInv /\ [Next]_broadcastVars => Keeps
<1> SUFFICES ASSUME IInv, [Next]_broadcastVars
             PROVE  Keeps
  OBVIOUS
<1>1. CASE UNCHANGED broadcastVars
  <2>1. UNCHANGED <<net, fdt, status, registered, bbmdAddress, left, sending, origin, given,
                    owed, raised>>
    BY <1>1 DEF broadcastVars, registration
  <2>2. BroadcastTypeOK'
    BY <2>1 DEF IInv, BroadcastTypeOK
  <2>3. Senders' /\ Tables' /\ Registration'
    BY <2>1 DEF IInv, Senders, Tables, Registration
  <2>4. \A d \in DOMAIN net' : Sound(d)'
    BY <2>1 DEF IInv, Sound
  <2>5. ASSUME NEW m \in Messages
        PROVE  Untouched(m) /\ Apart(m)'
    <3>1. Coming(m)' = Coming(m)
      BY <2>1 DEF Coming
    <3>2. /\ \A e \in Coming(m) : net[e] = 1 /\ e.dest \in Stations
          /\ Apart(m)
      BY ComingOnce DEF IInv
    <3>3. Untouched(m)
      BY <2>1, <3>1, <3>2 DEF Untouched
    <3> QED  BY <3>2, <3>3, ApartKept
  <2>6. ASSUME OwingInv, NEW m \in Messages
        PROVE  Owing(m)'
    BY <2>1, <2>5, <2>6, OwingKept DEF OwingInv, IInv
  <2> QED  BY <2>2, <2>3, <2>4, <2>5, <2>6 DEF IInv, OwingInv, Keeps
<1>2. CASE Next
  <2>1. ASSUME NEW d \in BagToSet(net), Receive(d)
        PROVE  Keeps
    BY <2>1, ReceiveKeeps DEF BagToSet
  <2> QED  BY <1>2, <2>1, SendKeeps, RegisterLemma, UnregisterLemma DEF Next
<1> QED  BY <1>1, <1>2

LEMMA Invariant == BroadcastSpec => []IInv
<1>1. IInv /\ [Next]_broadcastVars => IInv'
  BY NextHolds DEF Keeps
<1> QED  BY <1>1, InitHolds, PTL DEF BroadcastSpec

LEMMA OwingInvariant == Supported /\ BroadcastSpec => []OwingInv
<1>1. Init => OwingInv
  BY DEF Init, OwingInv, Owing
<1>2. Supported /\ IInv /\ OwingInv /\ [Next]_broadcastVars => OwingInv'
  BY NextHolds DEF Keeps
<1>3. Supported => []Supported
  <2>1. Supported => Supported'
    BY DEF Supported
  <2> QED  BY <2>1, PTL
<1> QED  BY <1>1, <1>2, <1>3, Invariant, PTL DEF BroadcastSpec

(***************************************************************************)
(* Whatever comes to it, a BBMD's table holds foreign devices, and what    *)
(* network layers are given are messages from stations.                    *)
(***************************************************************************)
THEOREM BroadcastTypeCorrect == BroadcastSpec => []BroadcastTypeOK
<1>1. IInv => BroadcastTypeOK
  BY DEF IInv
<1> QED  BY <1>1, Invariant, PTL

(***************************************************************************)
(* On any number of subnets that are set up properly, whoever registers    *)
(* and unregisters: however a message comes to a station, it is given to   *)
(* it once, as its sender's, and never to its sender.                      *)
(***************************************************************************)
THEOREM OnceToEach == BroadcastSpec => []GivenOnce
<1>1. IInv => GivenOnce
  BY DEF IInv, Apart, GivenOnce
<1> QED  BY <1>1, Invariant, PTL

(***************************************************************************)
(* If the BBMDs that foreign devices register with have a network layer:   *)
(* when every datagram has arrived, a broadcast has reached every normal   *)
(* device, every BBMD's network layer and every foreign device that was    *)
(* registered all the time, but for what a network layer raised an         *)
(* exception over.                                                         *)
(***************************************************************************)
THEOREM ToAll == Supported /\ BroadcastSpec => []ReachesAll
<1>1. OwingInv => ReachesAll
  <2> SUFFICES ASSUME OwingInv, net = EmptyBag, NEW m \in Messages \ raised
               PROVE  owed[m] = {}
    BY DEF ReachesAll
  <2>1. Coming(m) = {}
    BY SetBag DEF Coming, EmptyBag
  <2> QED  BY <2>1 DEF OwingInv, Owing
<1> QED  BY <1>1, OwingInvariant, PTL
=============================================================================
