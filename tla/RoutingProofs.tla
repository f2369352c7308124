---------------------------- MODULE RoutingProofs ----------------------------
(***************************************************************************)
(* Routing for any tree of networks, any devices and any messages: paths   *)
(* hold, the source of a message is where its sender can be reached, and   *)
(* a message gets to all it is for, once.                                  *)
(***************************************************************************)
EXTENDS Routing, FiniteSetTheorems, WellFoundedInduction, TLAPS

Origins == Nets \X Nodes

Destinations == (Nets \X (Nodes \cup {All})) \cup {Everywhere}

Apdus == [type : {"apdu"}, msg : Messages, sadr : Origins \cup {None},
          dadr : Destinations \cup {None}, hops : Nat]

WhoIses == [type : {"who"}, sadr : Origins \cup {None}, dnet : Nets \cup {None}]

IAms == [type : {"iam"}, sadr : {None}, dnets : SUBSET Nets]

Datagrams == [net : Nets, from : Nodes, to : Nodes, npdu : Apdus \cup WhoIses \cup IAms]

Phases == {"unsent", "looking", "sent", "unknown", "gone"}

\* The shape of the state.
TypeOK ==
    /\ path \in [Nodes -> [Nets -> [Nets -> Nodes \cup {None}]]]
    /\ phase \in [Messages -> Phases]
    /\ given \in [Messages -> [Nodes -> Seq(Origins)]]
    /\ restarted \subseteq Nodes
    /\ DOMAIN wire \subseteq Datagrams

\* A source is true, or the message left by another than its local network.
TrueSource(m, source) == LeavesElsewhere(m) \/ source = <<local[Sender[m]], Sender[m]>>

\* A datagram comes from a device on its network; what it claims is so; it has
\* come to the router that leads on; and its source is true.
Sound(g) ==
    /\ g.from # g.to /\ g.net \in on[g.from] /\ g.net \in on[g.to]
    /\ \A d \in Claims(g.npdu) : Leads(g.from, g.net, d)
    /\ g.npdu.type = "apdu" =>
           /\ g.npdu.dadr \notin {None, Everywhere} => Leads(g.to, g.net, g.npdu.dadr[1])
           /\ TrueSource(g.npdu.msg, Origin(g.net, g.from, g.npdu))

\* No path of a device leads to itself.
PathsLeadAway ==
    \A n \in Nodes : \A s \in on[n] : \A d \in Nets : path[n][s][d] # n

IInv ==
    /\ TypeOK
    /\ PathsHold
    /\ PathsLeadAway
    /\ \A g \in DOMAIN wire : Sound(g)
    /\ SourceIsTrue
-----------------------------------------------------------------------------
\* What is under way afterwards was under way before or has been sent.
LEMMA ExchangeLemma ==
    ASSUME NEW taken, NEW sent, Exchange(taken, sent)
    PROVE  DOMAIN wire' \subseteq DOMAIN wire \cup sent
<1> DEFINE left == wire (-) SetToBag(taken)
<1>1. DOMAIN left \subseteq DOMAIN wire
  BY DEF (-), SetToBag
<1>2. DOMAIN (left (+) SetToBag(sent)) = DOMAIN left \cup sent
  BY DEF (+), SetToBag
<1> QED  BY <1>1, <1>2 DEF Exchange

\* What a datagram is that a device puts on a network.
LEMMA TransmitLemma ==
    ASSUME NEW n \in Nodes, NEW s \in on[n], NEW x, NEW npdu,
           NEW g \in Transmit(n, s, x, npdu)
    PROVE  /\ g.to \in Nodes \ {n} /\ s \in on[g.to] /\ x \in {g.to, All}
           /\ g.net = s /\ g.from = n /\ g.npdu = npdu
           /\ npdu \in Apdus \cup WhoIses \cup IAms => g \in Datagrams
<1>1. PICK y \in Nodes \ {n} : /\ s \in on[y] /\ x \in {y, All}
                               /\ g = [net |-> s, from |-> n, to |-> y, npdu |-> npdu]
  BY DEF Transmit
<1> QED  BY <1>1, RoutingAssumption DEF Datagrams

\* A router leads to whatever another router on one of its networks leads to.
LEMMA TreeLemma ==
    ASSUME NEW n \in Nodes, NEW s \in on[n], NEW t \in on[n], s # t,
           NEW d \in Nets, Way[s][d] \notin {n, None}
    PROVE  d \notin on[n] /\ Way[t][d] = n
<1>1. d # s
  BY TreeAssumption
<1>2. d \notin on[n]
  BY <1>1, TreeAssumption
<1> QED  BY <1>2, TreeAssumption

LEMMA OwnNetworks ==
    ASSUME NEW n \in Nodes, NEW s \in on[n], NEW d \in on[n], s # d
    PROVE  Leads(n, s, d) /\ Leads(n, s, d)'
BY TreeAssumption DEF Leads

LEMMA FirstWayLemma ==
    ASSUME NEW paths, NEW n, NEW d, Ways(paths, n, d) # {}
    PROVE  FirstWay(paths, n, d) \in on[n] /\ paths[FirstWay(paths, n, d)][d] # None
BY DEF FirstWay, Ways

-----------------------------------------------------------------------------
\* What was learned is kept but for a restart.
Grows ==
    /\ restarted \subseteq restarted'
    /\ \A n \in Nodes \ restarted' : \A s, d \in Nets :
           path[n][s][d] # None => path'[n][s][d] # None

LEMMA LeadsKept ==
    ASSUME Grows, NEW r \in Nodes, NEW s \in Nets, NEW d \in Nets, Leads(r, s, d)
    PROVE  Leads(r, s, d)'
<1>1. on[r] \subseteq Nets
  BY RoutingAssumption
<1> QED  BY <1>1 DEF Grows, Leads

LEMMA SoundKept ==
    ASSUME Grows, NEW g \in Datagrams, Sound(g)
    PROVE  Sound(g)'
<1>1. g.from \in Nodes /\ g.to \in Nodes /\ g.net \in Nets
  BY DEF Datagrams
<1>2. \A d \in Claims(g.npdu) : d \in Nets
  BY DEF Datagrams, Claims, Apdus, WhoIses, IAms
<1>3. g.npdu.type = "apdu" /\ g.npdu.dadr \notin {None, Everywhere} => g.npdu.dadr[1] \in Nets
  BY DEF Datagrams, Apdus, WhoIses, IAms, Destinations
<1> QED  BY <1>1, <1>2, <1>3, LeadsKept DEF Sound

\* The wire stays sound when what is sent is.
LEMMA WireKept ==
    ASSUME TypeOK, \A g \in DOMAIN wire : Sound(g), Grows,
           NEW taken, NEW sent, Exchange(taken, sent),
           \A g \in sent : g \in Datagrams /\ Sound(g)'
    PROVE  DOMAIN wire' \subseteq Datagrams /\ \A g \in DOMAIN wire' : Sound(g)'
BY ExchangeLemma, SoundKept DEF TypeOK
-----------------------------------------------------------------------------
(***************************************************************************)
(* A device learns what a datagram claims: what it knew it still knows,    *)
(* the paths hold and lead away.                                           *)
(***************************************************************************)
LEMMA LearnedLemma ==
    ASSUME IInv, NEW g \in DOMAIN wire, NEW ds \in SUBSET Claims(g.npdu),
           path' = [path EXCEPT ![g.to] = Learned(g.to, g.net, g.from, ds)],
           restarted' = restarted
    PROVE  /\ Grows
           /\ path' \in [Nodes -> [Nets -> [Nets -> Nodes \cup {None}]]]
           /\ \A n \in Nodes : \A s \in on[n] : \A d \in Nets :
                  path'[n][s][d] # None => Leads(path[n][s][d], s, d)'
           /\ PathsLeadAway'
<1> DEFINE n == g.to  s == g.net  f == g.from
<1>1. /\ n \in Nodes /\ f \in Nodes /\ f # n /\ s \in Nets
      /\ \A d \in Claims(g.npdu) : d \in Nets /\ Leads(f, s, d)
  <2>1. g \in Datagrams /\ Sound(g)
    BY DEF IInv, TypeOK
  <2> QED  BY <2>1 DEF Sound, Datagrams, Claims, Apdus, WhoIses, IAms
<1>2. /\ path' \in [Nodes -> [Nets -> [Nets -> Nodes \cup {None}]]]
      /\ \A x \in Nodes, t, d \in Nets :
             path'[x][t][d] = IF x = n /\ t = s /\ d \in ds THEN f ELSE path[x][t][d]
  BY <1>1 DEF IInv, TypeOK, Learned
<1>3. Grows
  BY <1>1, <1>2, RoutingAssumption DEF Grows
<1>4. ASSUME NEW x \in Nodes, NEW t \in on[x], NEW d \in Nets, path'[x][t][d] # None
      PROVE  Leads(path[x][t][d], t, d)'
  <2>1. t \in Nets
    BY RoutingAssumption
  <2>2. CASE x = n /\ t = s /\ d \in ds
    BY <1>1, <1>2, <1>3, <2>2, LeadsKept
  <2>3. CASE ~(x = n /\ t = s /\ d \in ds)
    <3>1. path'[x][t][d] = path[x][t][d]
      BY <1>2, <2>1, <2>3
    <3>2. path[x][t][d] \in Nodes /\ Leads(path[x][t][d], t, d)
      BY <1>4, <2>1, <3>1 DEF IInv, TypeOK, PathsHold
    <3>3. PICK y \in Nodes : path[x][t][d] = y /\ Leads(y, t, d)
      BY <3>2
    <3>4. Leads(y, t, d)'
      BY <1>3, <2>1, <3>3, LeadsKept
    <3> QED  BY <3>1, <3>3, <3>4
  <2> QED  BY <2>2, <2>3
<1>5. PathsLeadAway'
  BY <1>1, <1>2, RoutingAssumption DEF PathsLeadAway, IInv
<1> QED  BY <1>2, <1>3, <1>4, <1>5

\* Source routing learns some of what the NPDU claims.
LEMMA SourceLearnedLemma ==
    ASSUME IInv, NEW g \in DOMAIN wire, g.npdu.type # "iam"
    PROVE  \E ds \in SUBSET Claims(g.npdu) :
               /\ SourceLearned(g.to, g.net, g.from, g.npdu) = Learned(g.to, g.net, g.from, ds)
               /\ ~Spoofs(g.to, g.npdu) => ds = Claims(g.npdu)
<1>1. /\ g.to \in Nodes /\ g.net \in Nets
      /\ g.npdu.sadr \in Origins \cup {None}
  BY DEF IInv, TypeOK, Datagrams, Apdus, WhoIses, IAms
<1>2. Learned(g.to, g.net, g.from, {}) = path[g.to]
  <2>1. path[g.to] \in [Nets -> [Nets -> Nodes \cup {None}]]
    BY <1>1 DEF IInv, TypeOK
  <2>2. path[g.to][g.net] \in [Nets -> Nodes \cup {None}]
    BY <1>1, <2>1
  <2>3. [d \in Nets |-> IF d \in {} THEN g.from ELSE path[g.to][g.net][d]] = path[g.to][g.net]
    BY <2>2
  <2> QED  BY <2>1, <2>3 DEF Learned
<1>3. CASE g.npdu.sadr = None \/ Spoofs(g.to, g.npdu)
  <2>1. g.npdu.sadr = None => Claims(g.npdu) = {}
    BY DEF Claims
  <2> QED  BY <1>2, <1>3, <2>1 DEF SourceLearned
<1>4. CASE ~(g.npdu.sadr = None \/ Spoofs(g.to, g.npdu))
  <2>1. Claims(g.npdu) = {g.npdu.sadr[1]}
    BY <1>1, <1>4 DEF Claims, Origins
  <2> QED  BY <1>4, <2>1 DEF SourceLearned
<1> QED  BY <1>3, <1>4

-----------------------------------------------------------------------------
\* A question claims nothing.
LEMMA QuestionSound ==
    ASSUME NEW n \in Nodes, NEW d \in Nets \cup {None}, NEW h \in Question(n, d)
    PROVE  h \in Datagrams /\ Sound(h)'
<1>1. PICK s \in on[n] : h \in Transmit(n, s, All, WhoIs(None, d))
  BY DEF Question, OnAll
<1>2. WhoIs(None, d) \in WhoIses
  BY DEF WhoIs, WhoIses
<1>3. Claims(h.npdu) = {} /\ h.npdu.type # "apdu"
  BY <1>1, TransmitLemma DEF Claims, WhoIs
<1> QED  BY <1>1, <1>2, <1>3, TransmitLemma DEF Sound

\* What a router says of the networks it leads to.
LEMMA IAmSound ==
    ASSUME NEW n \in Nodes, NEW s \in on[n], NEW x, NEW dnets \in SUBSET Nets,
           \A d \in dnets : Leads(n, s, d)',
           NEW h \in Transmit(n, s, x, IAm(dnets))
    PROVE  h \in Datagrams /\ Sound(h)'
<1>1. IAm(dnets) \in IAms
  BY DEF IAm, IAms
<1>2. Claims(h.npdu) = dnets /\ h.npdu.type # "apdu"
  BY TransmitLemma DEF Claims, IAm
<1>3. /\ h \in Datagrams /\ h.from = n /\ h.net = s /\ h.from # h.to
      /\ h.net \in on[h.from] /\ h.net \in on[h.to]
  BY <1>1, TransmitLemma
<1> QED  BY <1>2, <1>3 DEF Sound
\* From its other networks a router leads on to what it has a path to.
LEMMA BeyondLemma ==
    ASSUME NEW n \in Nodes, NEW s \in on[n], NEW t \in on[n], s # t, NEW d \in Nets,
           Way[s][d] \notin {n, None}, path'[n][s][d] # None
    PROVE  d \notin on[n] /\ Leads(n, t, d)'
BY TreeLemma DEF Leads

(***************************************************************************)
(* A device that has learned what a datagram claims leads, from its other  *)
(* networks, to where the datagram comes from and to what it claims.       *)
(***************************************************************************)
LEMMA ClaimsLead ==
    ASSUME IInv, NEW g \in DOMAIN wire,
           path' = [path EXCEPT ![g.to] = Learned(g.to, g.net, g.from, Claims(g.npdu))],
           NEW t \in on[g.to], t # g.net
    PROVE  /\ Leads(g.to, t, g.net)'
           /\ \A d \in Claims(g.npdu) : d \in Nets /\ Leads(g.to, t, d)'
<1> DEFINE n == g.to  s == g.net  f == g.from
<1>1. /\ n \in Nodes /\ f \in Nodes /\ f # n /\ s \in on[n] /\ s \in Nets
      /\ \A d \in Claims(g.npdu) : d \in Nets /\ Way[s][d] = f
  BY DEF IInv, TypeOK, Sound, Datagrams, Claims, Apdus, WhoIses, IAms, Leads
<1>2. Leads(n, t, s)'
  BY <1>1, OwnNetworks
<1>3. ASSUME NEW d \in Claims(g.npdu)
      PROVE  Leads(n, t, d)'
  <2>1. path'[n][s][d] = f
    BY <1>1 DEF IInv, TypeOK, Learned
  <2>2. Way[s][d] \notin {n, None} /\ path'[n][s][d] # None
    BY <1>1, <2>1, RoutingAssumption
  <2> QED  BY <1>1, <2>2, BeyondLemma
<1> QED  BY <1>1, <1>2, <1>3

LEMMA OriginLemma ==
    ASSUME IInv, NEW g \in DOMAIN wire, g.npdu.type # "iam", ~Spoofs(g.to, g.npdu),
           path' = [path EXCEPT ![g.to] = SourceLearned(g.to, g.net, g.from, g.npdu)],
           NEW t \in on[g.to], t # g.net
    PROVE  LET origin == Origin(g.net, g.from, g.npdu)
           IN  origin \in Origins /\ origin # None /\ Leads(g.to, t, origin[1])'
<1> DEFINE origin == Origin(g.net, g.from, g.npdu)
<1>1. /\ g.net \in Nets /\ g.from \in Nodes
      /\ g.npdu.sadr \in Origins \cup {None}
  BY DEF IInv, TypeOK, Datagrams, Apdus, WhoIses, IAms
<1>2. origin \in Origins /\ origin # None
  BY <1>1, RoutingAssumption DEF Origin, Origins
<1>3. path' = [path EXCEPT ![g.to] = Learned(g.to, g.net, g.from, Claims(g.npdu))]
  BY SourceLearnedLemma
<1>4. origin[1] = g.net \/ origin[1] \in Claims(g.npdu)
  BY <1>1 DEF Origin, Claims, Origins
<1> QED  BY <1>2, <1>3, <1>4, ClaimsLead

\* A message that is put on a network with a source it leads to, for a device
\* there or for everybody.
LEMMA ApduSound ==
    ASSUME NEW n \in Nodes, NEW s \in on[n], NEW x, NEW npdu \in Apdus,
           npdu.sadr # None => Leads(n, s, npdu.sadr[1])',
           TrueSource(npdu.msg, Origin(s, n, npdu)),
           npdu.dadr \notin {None, Everywhere} =>
               x \in Nodes /\ Leads(x, s, npdu.dadr[1])',
           NEW h \in Transmit(n, s, x, npdu)
    PROVE  h \in Datagrams /\ Sound(h)'
<1>1. /\ h \in Datagrams /\ h.npdu = npdu /\ h.from = n /\ h.net = s
      /\ h.to \in Nodes \ {n} /\ x \in {h.to, All} /\ s \in on[h.to]
  BY TransmitLemma
<1>2. \A d \in Claims(npdu) : npdu.sadr # None /\ d = npdu.sadr[1]
  BY DEF Claims, Apdus
<1>3. npdu.type = "apdu"
  BY DEF Apdus
<1>4. npdu.dadr \notin {None, Everywhere} => x = h.to
  BY <1>1, RoutingAssumption
<1> QED  BY <1>1, <1>2, <1>3, <1>4 DEF Sound
-----------------------------------------------------------------------------
\* From the state in which a handler has learned what the datagram claims.
Routes(g) ==
    /\ path' = [path EXCEPT ![g.to] = SourceLearned(g.to, g.net, g.from, g.npdu)]
    /\ \A n \in Nodes : \A s \in on[n] : \A d \in Nets :
           path'[n][s][d] # None => Leads(path[n][s][d], s, d)'
    /\ PathsLeadAway'

\* What a router passes on of a message is sound.
LEMMA ForwardedSound ==
    ASSUME IInv, NEW g \in DOMAIN wire, g.npdu.type = "apdu", Routes(g),
           Accepted(g.to, g.net, g.npdu),
           NEW h \in Forwarded(g.to, g.net, g.from, g.npdu,
                               SourceLearned(g.to, g.net, g.from, g.npdu))
    PROVE  h \in Datagrams /\ Sound(h)'
<1> DEFINE n == g.to  s == g.net  f == g.from  npdu == g.npdu
           paths == SourceLearned(n, s, f, npdu)
           origin == Origin(s, f, npdu)
           next == [npdu EXCEPT !.sadr = origin, !.hops = npdu.hops - 1]
           d == npdu.dadr[1]
           way == FirstWay(paths, n, d)
<1>1. n \in Nodes /\ s \in on[n] /\ npdu \in Apdus /\ ~Spoofs(n, npdu) /\ Sound(g)
  BY DEF IInv, TypeOK, Sound, Accepted, Datagrams, WhoIses, IAms
<1>2. ForwardMessage(n, npdu)
  BY DEF Forwarded
<1>3. npdu.dadr \in Destinations
  BY <1>1, <1>2 DEF ForwardMessage, Apdus
<1>4. npdu.dadr # Everywhere =>
          /\ d \in Nets /\ d # s
          /\ npdu.dadr[2] \in Nodes \cup {All}
  BY <1>2, <1>3 DEF Accepted, Strayed, Destinations, ForwardMessage
<1>5. \A t \in on[n] \ {s} :
          origin \in Origins /\ origin # None /\ Leads(n, t, origin[1])'
  BY <1>1, OriginLemma DEF Routes
<1>6. TrueSource(npdu.msg, origin)
  BY <1>1 DEF Sound
<1>7. ASSUME NEW t \in on[n] \ {s}
      PROVE  /\ next \in Apdus /\ next.sadr = origin /\ next.msg = npdu.msg
             /\ next.dadr = npdu.dadr
             /\ [next EXCEPT !.dadr = None] \in Apdus
             /\ [next EXCEPT !.dadr = None].sadr = origin
             /\ [next EXCEPT !.dadr = None].msg = npdu.msg
             /\ [next EXCEPT !.dadr = None].dadr = None
             /\ Origin(t, n, next) = origin
             /\ Origin(t, n, [next EXCEPT !.dadr = None]) = origin
  <2>1. npdu.hops - 1 \in Nat
    BY <1>1, <1>2 DEF ForwardMessage, Apdus
  <2>2. next \in Apdus /\ next.sadr = origin /\ next.msg = npdu.msg /\ next.dadr = npdu.dadr
    BY <1>1, <1>5, <2>1 DEF Apdus
  <2>3. /\ [next EXCEPT !.dadr = None] \in Apdus
        /\ [next EXCEPT !.dadr = None].sadr = origin
        /\ [next EXCEPT !.dadr = None].msg = npdu.msg
        /\ [next EXCEPT !.dadr = None].dadr = None
    BY <2>2 DEF Apdus
  <2> HIDE DEF next, origin
  <2> QED  BY <1>5, <2>2, <2>3 DEF Origin
<1> HIDE DEF next, origin
<1>8. CASE npdu.dadr = Everywhere
  <2>1. PICK t \in on[n] \ {s} : h \in Transmit(n, t, All, next)
    BY <1>2, <1>8 DEF Forwarded, OnAll, OtherAdapters, next, origin
  <2> QED  BY <1>1, <1>5, <1>6, <1>7, <1>8, <2>1, ApduSound
<1>9. CASE npdu.dadr # Everywhere /\ d \in on[n]
  <2>1. h \in Transmit(n, d, npdu.dadr[2], [next EXCEPT !.dadr = None])
    BY <1>2, <1>9 DEF Forwarded, next, origin
  <2>2. d \in on[n] \ {s}
    BY <1>4, <1>9
  <2> QED  BY <1>1, <1>5, <1>6, <1>7, <2>1, <2>2, ApduSound
<1>10. CASE npdu.dadr # Everywhere /\ d \notin on[n] /\ MustLook(n, npdu, paths)
  <2>1. h \in Question(n, d)
    BY <1>2, <1>10 DEF Forwarded
  <2> QED  BY <1>1, <1>4, <1>10, <2>1, QuestionSound
<1>11. CASE npdu.dadr # Everywhere /\ d \notin on[n] /\ ~MustLook(n, npdu, paths)
  <2>1. way # s /\ h \in Transmit(n, way, paths[way][d], next)
    BY <1>2, <1>11 DEF Forwarded, next, origin
  <2>2. PICK w \in on[n], r \in {paths[way][d]} : w = way /\ r # None
    BY <1>2, <1>11, FirstWayLemma DEF MustLook
  <2>3. path'[n][w][d] = r
    BY <1>1, <2>2 DEF Routes, IInv, TypeOK
  <2>4. Leads(r, w, d)'
    BY <1>1, <1>4, <1>11, <2>2, <2>3 DEF Routes
  <2>5. r \in Nodes
    <3>1. w \in Nets /\ d \in Nets
      BY <1>1, <1>4, <1>11, RoutingAssumption
    <3>2. r = Way[w][d]
      BY <2>4 DEF Leads
    <3>3. Way[w][d] \in Nodes \cup {None}
      BY <3>1, RoutingAssumption
    <3> QED  BY <2>2, <3>2, <3>3
  <2>6. w \in on[n] \ {s} /\ h \in Transmit(n, w, r, next)
    BY <2>1, <2>2
  <2> QED  BY <1>1, <1>5, <1>6, <1>7, <2>4, <2>5, <2>6, ApduSound
<1> QED  BY <1>8, <1>9, <1>10, <1>11

\* What a router answers to a question, or asks in turn, is sound.
LEMMA AnswersSound ==
    ASSUME IInv, NEW g \in DOMAIN wire, g.npdu.type = "who", Routes(g),
           ~Spoofs(g.to, g.npdu),
           NEW h \in Answers(g.to, g.net, g.from, g.npdu,
                             SourceLearned(g.to, g.net, g.from, g.npdu))
    PROVE  h \in Datagrams /\ Sound(h)'
<1> DEFINE n == g.to  s == g.net  f == g.from  npdu == g.npdu
           paths == SourceLearned(n, s, f, npdu)
           origin == Origin(s, f, npdu)
           d == npdu.dnet
           way == FirstWay(paths, n, d)
<1>1. n \in Nodes /\ s \in on[n] /\ on[n] \subseteq Nets /\ d \in Nets \cup {None}
  BY RoutingAssumption DEF IInv, TypeOK, Sound, Datagrams, Apdus, WhoIses, IAms
<1>2. CASE d = None
  <2>1. h \in Transmit(n, s, f, IAm(on[n] \ {s}))
    BY <1>2 DEF Answers, OtherAdapters
  <2>2. \A x \in on[n] \ {s} : Leads(n, s, x)'
    BY <1>1, OwnNetworks
  <2> QED  BY <1>1, <2>1, <2>2, IAmSound
<1>3. CASE d # None /\ LeadsFrom(n, s, d, paths)
  <2>1. h \in Transmit(n, s, f, IAm({d}))
    BY <1>3 DEF Answers
  <2>2. CASE d \in on[n]
    <3>1. Leads(n, s, d)'
      BY <1>1, <1>3, <2>2, OwnNetworks DEF LeadsFrom
    <3> QED  BY <1>1, <1>3, <2>1, <3>1, IAmSound
  <2>3. CASE d \notin on[n]
    <3>1. PICK w \in on[n], r \in {paths[way][d]} : w = way /\ r # None /\ w # s
      BY <1>3, <2>3, FirstWayLemma DEF LeadsFrom
    <3>2. path'[n][w][d] = r
      BY <1>1, <3>1 DEF Routes, IInv, TypeOK
    <3>3. Leads(r, w, d)' /\ r # n
      BY <1>1, <1>3, <3>1, <3>2 DEF Routes, PathsLeadAway
    <3>4. Way[w][d] \notin {n, None}
      BY <3>1, <3>3 DEF Leads
    <3>5. Leads(n, s, d)'
      BY <1>1, <1>3, <3>1, <3>2, <3>4, BeyondLemma
    <3> QED  BY <1>1, <1>3, <2>1, <3>5, IAmSound
  <2> QED  BY <2>2, <2>3
<1>4. CASE d # None /\ ~LeadsFrom(n, s, d, paths)
  <2>1. PICK t \in on[n] \ {s} : h \in Transmit(n, t, All, WhoIs(origin, d))
    BY <1>4 DEF Answers, OnAll, OtherAdapters
  <2>2. origin \in Origins /\ origin # None /\ Leads(n, t, origin[1])'
    BY OriginLemma DEF Routes
  <2>3. WhoIs(origin, d) \in WhoIses
    BY <1>1, <2>2 DEF WhoIs, WhoIses
  <2>4. /\ h \in Datagrams /\ h.npdu = WhoIs(origin, d) /\ h.from = n /\ h.net = t
        /\ h.to \in Nodes \ {n} /\ t \in on[h.to]
    BY <1>1, <2>1, <2>3, TransmitLemma
  <2>5. Claims(h.npdu) = {origin[1]} /\ h.npdu.type # "apdu"
    BY <2>2, <2>4 DEF Claims, WhoIs, Origins
  <2> QED  BY <2>2, <2>4, <2>5 DEF Sound
<1> QED  BY <1>2, <1>3, <1>4

-----------------------------------------------------------------------------
\* A message that its sender hands to the router on the way is sound.
LEMMA ToRouterSound ==
    ASSUME NEW m \in Messages, Target[m] # Everywhere,
           NEW s \in on[Sender[m]], NEW r \in Nodes, r # Sender[m],
           Leads(r, s, Target[m][1])',
           NEW h \in ToRouter(m, Sender[m], s, r)
    PROVE  h \in Datagrams /\ Sound(h)'
<1> DEFINE n == Sender[m]  d == Target[m][1]  npdu == Apdu(m, None, Target[m], HopCount)
<1>1. n \in Nodes /\ d \in Nets /\ Target[m] \in Destinations /\ on[n] \subseteq Nets
  BY RoutingAssumption DEF Destinations
<1>2. /\ npdu \in Apdus /\ npdu.sadr = None /\ npdu.msg = m /\ npdu.dadr = Target[m]
      /\ Origin(s, n, npdu) = <<s, n>>
  BY <1>1, RoutingAssumption DEF Apdu, Apdus, Origin
<1>3. Way[s][d] = r /\ r # None
  BY RoutingAssumption DEF Leads
<1>4. TrueSource(m, <<s, n>>)
  <2>1. CASE s = local[n]
    BY <2>1 DEF TrueSource
  <2>2. CASE s # local[n]
    <3>1. local[n] \in on[n]
      BY <1>1, RoutingAssumption
    <3>2. d \notin on[n] /\ Way[local[n]][d] = n
      BY <1>1, <1>3, <2>2, <3>1, TreeLemma
    <3> QED  BY <3>2 DEF TrueSource, LeavesElsewhere
  <2> QED  BY <2>1, <2>2
<1>5. h \in Transmit(n, s, r, npdu)
  BY DEF ToRouter
<1> QED  BY <1>1, <1>2, <1>4, <1>5, ApduSound

\* A message that its sender puts on a network of its own is sound.
LEMMA SentSound ==
    ASSUME NEW m \in Messages, NEW s \in on[Sender[m]], NEW x,
           NEW dadr \in {None, Everywhere},
           NEW h \in Transmit(Sender[m], s, x,
                              Apdu(m, SourceOn(Sender[m], s), dadr, HopCount))
    PROVE  h \in Datagrams /\ Sound(h)'
<1> DEFINE n == Sender[m]  npdu == Apdu(m, SourceOn(n, s), dadr, HopCount)
<1>1. n \in Nodes /\ local[n] \in on[n] /\ on[n] \subseteq Nets
  BY RoutingAssumption
<1>2. SourceOn(n, s) \in Origins \cup {None}
  BY <1>1 DEF SourceOn, Origins
<1>3. /\ npdu \in Apdus /\ npdu.sadr = SourceOn(n, s) /\ npdu.msg = m /\ npdu.dadr = dadr
  BY <1>2, RoutingAssumption DEF Apdu, Apdus, Destinations
<1>4. Origin(s, n, npdu) = <<local[n], n>>
  <2>1. <<local[n], n>> \in Nets \X Nodes
    BY <1>1
  <2>2. <<local[n], n>> # None
    BY <2>1, RoutingAssumption
  <2> QED  BY <1>3, <2>2 DEF Origin, SourceOn
<1>5. npdu.sadr # None => s # local[n] /\ npdu.sadr = <<local[n], n>>
  BY <1>3 DEF SourceOn
<1>6. npdu.sadr # None => Leads(n, s, npdu.sadr[1])'
  BY <1>1, <1>5, OwnNetworks
<1>7. TrueSource(npdu.msg, Origin(s, n, npdu))
  BY <1>3, <1>4 DEF TrueSource
<1> QED  BY <1>1, <1>3, <1>6, <1>7, ApduSound

\* What a router passes on of an announcement is sound.
LEMMA AnnouncedSound ==
    ASSUME IInv, NEW g \in DOMAIN wire, g.npdu.type = "iam",
           path' = [path EXCEPT ![g.to] = Learned(g.to, g.net, g.from, g.npdu.dnets)],
           NEW h \in Announced(g.to, g.net, g.npdu.dnets)
    PROVE  h \in Datagrams /\ Sound(h)'
<1>1. PICK t \in on[g.to] \ {g.net} : h \in Transmit(g.to, t, All, IAm(g.npdu.dnets))
  BY DEF Announced, OnAll, OtherAdapters
<1>2. Claims(g.npdu) = g.npdu.dnets
  BY DEF Claims
<1>3. \A d \in g.npdu.dnets : d \in Nets /\ Leads(g.to, t, d)'
  BY <1>1, <1>2, ClaimsLead
<1>4. g.to \in Nodes
  BY DEF IInv, TypeOK, Datagrams
<1>5. g.npdu.dnets \in SUBSET Nets
  BY <1>3
<1> QED  BY <1>1, <1>3, <1>4, <1>5, IAmSound

-----------------------------------------------------------------------------
\* A step that learns nothing and gives nothing keeps the invariant.
LEMMA SendingLemma ==
    ASSUME IInv, UNCHANGED <<path, given, restarted, dropped>>,
           phase' \in [Messages -> Phases],
           NEW taken, NEW sent, Exchange(taken, sent),
           \A h \in sent : h \in Datagrams /\ Sound(h)'
    PROVE  IInv'
<1>1. Grows
  BY DEF Grows
<1>2. DOMAIN wire' \subseteq Datagrams /\ \A g \in DOMAIN wire' : Sound(g)'
  BY <1>1, WireKept DEF IInv
<1>3. TypeOK'
  BY <1>2 DEF IInv, TypeOK, Phases
<1>4. PathsHold'
  BY DEF IInv, PathsHold, Leads
<1>5. PathsLeadAway' /\ SourceIsTrue'
  BY DEF IInv, PathsLeadAway, SourceIsTrue, SourceFound
<1> QED  BY <1>2, <1>3, <1>4, <1>5 DEF IInv

\* A message is sent, or its sender asks for a router.
LEMMA BecomesLemma ==
    ASSUME IInv, NEW m \in Messages, NEW p \in Phases, NEW sent, Becomes(m, p, sent),
           \A h \in sent : h \in Datagrams /\ Sound(h)'
    PROVE  IInv'
<1>1. phase' \in [Messages -> Phases]
  BY DEF Becomes, IInv, TypeOK, Phases
<1> QED  BY <1>1, SendingLemma DEF Becomes, history

LEMMA SendHolds ==
    ASSUME IInv, NEW m \in Messages,
           SendToAll(m) \/ SendDirectly(m) \/ SendToRouter(m) \/ LookForRouter(m)
    PROVE  IInv'
<1> DEFINE n == Sender[m]  d == Target[m][1]
<1>1. n \in Nodes /\ on[n] \subseteq Nets
  BY RoutingAssumption
<1>2. "sent" \in Phases /\ "looking" \in Phases
  BY DEF Phases
<1>3. CASE SendToAll(m)
  <2>1. \A h \in ToEverybody(m, n) : h \in Datagrams /\ Sound(h)'
    <3>1. SUFFICES ASSUME NEW s \in on[n],
                          NEW h \in Transmit(n, s, All,
                                             Apdu(m, SourceOn(n, s), Everywhere, HopCount))
                   PROVE  h \in Datagrams /\ Sound(h)'
      BY DEF ToEverybody
    <3> QED  BY SentSound
  <2> QED  BY <1>2, <1>3, <2>1, BecomesLemma DEF SendToAll
<1>4. CASE SendDirectly(m)
  <2>1. \A h \in ToNetwork(m, n, d) : h \in Datagrams /\ Sound(h)'
    BY <1>4, SentSound DEF SendDirectly, ToNetwork
  <2> QED  BY <1>2, <1>4, <2>1, BecomesLemma DEF SendDirectly
<1>5. CASE SendToRouter(m)
  <2>1. Target[m] # Everywhere /\ d \notin on[n] /\ Ways(path[n], n, d) # {}
    BY <1>5 DEF SendToRouter
  <2>2. PICK s \in on[n], r \in {path[n][FirstWay(path[n], n, d)][d]} : s = FirstWay(path[n], n, d) /\ r # None
    BY <2>1, FirstWayLemma
  <2>3. s \in Nets /\ d \in Nets
    BY <1>1, <2>1, RoutingAssumption
  <2>4. r \in Nodes /\ r # n /\ Leads(r, s, d)
    BY <1>1, <2>2, <2>3 DEF IInv, TypeOK, PathsHold, PathsLeadAway
  <2>5. Becomes(m, "sent", ToRouter(m, n, s, r))
    BY <1>5, <2>2 DEF SendToRouter
  <2>6. Leads(r, s, d)'
    BY <2>4, <2>5 DEF Becomes, history, Leads
  <2>7. \A h \in ToRouter(m, n, s, r) : h \in Datagrams /\ Sound(h)'
    BY <2>1, <2>4, <2>6, ToRouterSound
  <2> QED  BY <1>2, <2>5, <2>7, BecomesLemma
<1>6. CASE LookForRouter(m)
  <2>1. d \in Nets \cup {None}
    BY <1>6, RoutingAssumption DEF LookForRouter
  <2>2. \A h \in Question(n, d) : h \in Datagrams /\ Sound(h)'
    BY <1>1, <2>1, QuestionSound
  <2> QED  BY <1>2, <1>6, <2>2, BecomesLemma DEF LookForRouter
<1> QED  BY <1>3, <1>4, <1>5, <1>6

LEMMA TimeOutHolds ==
    ASSUME IInv, NEW m \in Messages, TimeOut(m)
    PROVE  IInv'
<1>1. TypeOK'
  BY DEF TimeOut, IInv, TypeOK, Phases
<1>2. PathsHold'
  BY DEF TimeOut, IInv, PathsHold, Leads
<1>3. \A g \in DOMAIN wire' : Sound(g)'
  BY DEF TimeOut, IInv, Leads, Sound
<1>4. PathsLeadAway' /\ SourceIsTrue'
  BY DEF TimeOut, IInv, PathsLeadAway, SourceIsTrue, SourceFound
<1> QED  BY <1>1, <1>2, <1>3, <1>4 DEF IInv

LEMMA CallsHold ==
    ASSUME IInv, NEW n \in Nodes, AnnounceAll(n) \/ AskForAll(n)
    PROVE  IInv'
<1>1. phase \in [Messages -> Phases] /\ on[n] \subseteq Nets
  BY RoutingAssumption DEF IInv, TypeOK, Phases
<1>2. CASE AnnounceAll(n)
  <2>1. ASSUME NEW s \in on[n], NEW h \in Transmit(n, s, All, IAm(on[n] \ {s}))
        PROVE  h \in Datagrams /\ Sound(h)'
    <3>1. \A d \in on[n] \ {s} : Leads(n, s, d)'
      BY OwnNetworks
    <3> QED  BY <1>1, <2>1, <3>1, IAmSound
  <2> DEFINE sent == UNION {Transmit(n, s, All, IAm(on[n] \ {s})) : s \in on[n]}
  <2>2. \A h \in sent : h \in Datagrams /\ Sound(h)'
    BY <2>1
  <2>3. Exchange({}, sent) /\ UNCHANGED <<path, phase, given, restarted, dropped>>
    BY <1>2 DEF AnnounceAll
  <2> HIDE DEF sent
  <2> QED  BY <1>1, <2>2, <2>3, SendingLemma
<1>3. CASE AskForAll(n)
  <2>1. \A h \in Question(n, None) : h \in Datagrams /\ Sound(h)'
    BY QuestionSound
  <2>2. Exchange({}, Question(n, None)) /\ UNCHANGED <<path, phase, given, restarted, dropped>>
    BY <1>3 DEF AskForAll
  <2> QED  BY <1>1, <2>1, <2>2, SendingLemma
<1> QED  BY <1>2, <1>3

LEMMA LoseHolds ==
    ASSUME IInv, NEW g \in DOMAIN wire, Lose(g)
    PROVE  IInv'
<1>1. phase \in [Messages -> Phases]
  BY DEF IInv, TypeOK, Phases
<1>2. Exchange({g}, {}) /\ UNCHANGED <<path, phase, given, restarted, dropped>>
  BY DEF Lose
<1>3. \A h \in {} : h \in Datagrams /\ Sound(h)'
  OBVIOUS
<1> QED  BY <1>1, <1>2, <1>3, SendingLemma

\* A device that was restarted knows nothing, and is not counted on.
LEMMA RestartHolds ==
    ASSUME IInv, NEW n \in Nodes, Restart(n)
    PROVE  IInv'
<1>1. /\ path' \in [Nodes -> [Nets -> [Nets -> Nodes \cup {None}]]]
      /\ \A x \in Nodes, s, d \in Nets :
             path'[x][s][d] = IF x = n THEN None ELSE path[x][s][d]
      /\ restarted' = restarted \cup {n}
  BY DEF Restart, NoPaths, IInv, TypeOK
<1>2. TypeOK'
  BY <1>1 DEF Restart, IInv, TypeOK, Phases
<1>3. Grows
  BY <1>1 DEF Grows
<1>4. \A g \in DOMAIN wire' : Sound(g)'
  BY <1>3, SoundKept DEF Restart, IInv, TypeOK
<1>5. PathsHold'
  <2>1. ASSUME NEW x \in Nodes, NEW s \in on[x], NEW d \in Nets, path'[x][s][d] # None
        PROVE  Leads(path[x][s][d], s, d)'
    <3>1. s \in Nets
      BY RoutingAssumption
    <3>2. path'[x][s][d] = path[x][s][d]
      BY <1>1, <2>1, <3>1
    <3>3. path[x][s][d] \in Nodes /\ Leads(path[x][s][d], s, d)
      BY <2>1, <3>1, <3>2 DEF IInv, TypeOK, PathsHold
    <3>4. path[x][s][d] = Way[s][d]
      BY <3>3 DEF Leads
    <3> QED  BY <1>3, <3>1, <3>2, <3>3, <3>4, LeadsKept DEF Leads
  <2>2. (dropped # {} => restarted # {})'
    BY <1>1
  <2> QED  BY <2>1, <2>2 DEF PathsHold
<1>6. PathsLeadAway'
  <2>1. ASSUME NEW x \in Nodes, NEW s \in on[x], NEW d \in Nets
        PROVE  path'[x][s][d] # x
    <3>1. s \in Nets /\ None # x
      BY RoutingAssumption
    <3>2. path[x][s][d] # x
      BY DEF IInv, PathsLeadAway
    <3> QED  BY <1>1, <3>1, <3>2
  <2> QED  BY <2>1 DEF PathsLeadAway
<1>7. SourceIsTrue'
  BY DEF Restart, IInv, SourceIsTrue, SourceFound
<1> QED  BY <1>2, <1>4, <1>5, <1>6, <1>7 DEF IInv

-----------------------------------------------------------------------------
\* A router has no path for a message only when a device was restarted.
LEMMA LooksAfterRestart ==
    ASSUME IInv, NEW g \in DOMAIN wire, g.npdu.type = "apdu", Routes(g), Grows,
           Accepted(g.to, g.net, g.npdu),
           MustLook(g.to, g.npdu, SourceLearned(g.to, g.net, g.from, g.npdu))
    PROVE  restarted' # {}
<1> DEFINE n == g.to  s == g.net  d == g.npdu.dadr[1]
           paths == SourceLearned(n, s, g.from, g.npdu)
<1>1. n \in Nodes /\ on[n] \subseteq Nets /\ Sound(g) /\ g.npdu \in Apdus
  BY RoutingAssumption DEF IInv, TypeOK, Datagrams, WhoIses, IAms
<1>2. /\ g.npdu.dadr \notin {None, Everywhere} /\ d \notin on[n] /\ Ways(paths, n, d) = {}
      /\ d \in Nets
  BY <1>1 DEF MustLook, ForwardMessage, Apdus, Destinations
<1>3. Leads(n, s, d)
  BY <1>1, <1>2 DEF Sound
<1>4. CASE n \in restarted'
  BY <1>4
<1>5. CASE n \notin restarted'
  <2>1. PICK t \in on[n] : path[n][t][d] # None
    BY <1>2, <1>3, <1>5 DEF Leads, Grows
  <2>2. path'[n][t][d] # None
    BY <1>1, <1>2, <1>5, <2>1 DEF Grows
  <2>3. paths[t][d] # None
    BY <1>1, <2>2 DEF Routes, IInv, TypeOK
  <2> QED  BY <1>2, <2>3 DEF Ways
<1> QED  BY <1>4, <1>5

\* A handler that learns what a datagram claims and sends what is sound.
LEMMA ReceivingLemma ==
    ASSUME IInv, NEW g \in DOMAIN wire, NEW ds \in SUBSET Claims(g.npdu),
           path' = [path EXCEPT ![g.to] = Learned(g.to, g.net, g.from, ds)],
           restarted' = restarted, phase' \in [Messages -> Phases],
           NEW sent, Exchange({g}, sent), \A h \in sent : h \in Datagrams /\ Sound(h)',
           given' \in [Messages -> [Nodes -> Seq(Origins)]], SourceIsTrue',
           dropped' # {} => restarted # {}
    PROVE  IInv'
<1>1. /\ Grows
      /\ path' \in [Nodes -> [Nets -> [Nets -> Nodes \cup {None}]]]
      /\ \A n \in Nodes : \A s \in on[n] : \A d \in Nets :
             path'[n][s][d] # None => Leads(path[n][s][d], s, d)'
      /\ PathsLeadAway'
  BY LearnedLemma
<1>2. DOMAIN wire' \subseteq Datagrams /\ \A h \in DOMAIN wire' : Sound(h)'
  BY <1>1, WireKept DEF IInv
<1>3. TypeOK'
  BY <1>1, <1>2 DEF IInv, TypeOK, Phases
<1>4. PathsHold'
  BY <1>1 DEF PathsHold
<1> QED  BY <1>1, <1>2, <1>3, <1>4 DEF IInv

LEMMA ReceiveIAmHolds ==
    ASSUME IInv, NEW g \in DOMAIN wire, ReceiveIAm(g)
    PROVE  IInv'
<1> DEFINE n == g.to  s == g.net  dnets == g.npdu.dnets
           waiting == Waiting(n, dnets)
           sent == Announced(n, s, dnets)
                       \cup UNION {ToRouter(m, n, s, g.from) : m \in waiting}
<1>1. /\ path' = [path EXCEPT ![n] = Learned(n, s, g.from, dnets)]
      /\ phase' = [m \in Messages |-> IF m \in waiting THEN "sent" ELSE phase[m]]
      /\ Exchange({g}, sent) /\ g.npdu.type = "iam"
      /\ UNCHANGED <<given, restarted, dropped>>
  BY DEF ReceiveIAm, history
<1>2. /\ Claims(g.npdu) = dnets /\ Sound(g) /\ g.from \in Nodes /\ n \in Nodes
      /\ s \in on[n] /\ g.from # n /\ dnets \subseteq Nets
  BY <1>1 DEF Claims, IInv, TypeOK, Sound, Datagrams, Apdus, WhoIses, IAms
<1>3. Grows
  BY <1>1, <1>2, LearnedLemma
<1>4. \A h \in Announced(n, s, dnets) : h \in Datagrams /\ Sound(h)'
  BY <1>1, AnnouncedSound
<1>5. ASSUME NEW m \in waiting, NEW h \in ToRouter(m, n, s, g.from)
      PROVE  h \in Datagrams /\ Sound(h)'
  <2>1. m \in Messages /\ Sender[m] = n /\ Target[m][1] \in dnets
    BY DEF Waiting
  <2>2. Target[m] # Everywhere
    BY <1>2, <2>1, RoutingAssumption DEF Everywhere
  <2>3. Leads(g.from, s, Target[m][1])'
    <3>1. Leads(g.from, s, Target[m][1])
      BY <1>2, <2>1 DEF Sound
    <3>2. s \in Nets
      BY <1>2, RoutingAssumption
    <3> QED  BY <1>2, <1>3, <2>1, <3>1, <3>2, LeadsKept
  <2> QED  BY <1>2, <2>1, <2>2, <2>3, ToRouterSound
<1>6. \A h \in sent : h \in Datagrams /\ Sound(h)'
  BY <1>4, <1>5
<1>7. phase' \in [Messages -> Phases]
  BY <1>1 DEF IInv, TypeOK, Phases
<1>8. given' \in [Messages -> [Nodes -> Seq(Origins)]] /\ SourceIsTrue'
  BY <1>1 DEF IInv, TypeOK, SourceIsTrue, SourceFound
<1>9. dropped' # {} => restarted # {}
  BY <1>1 DEF IInv, PathsHold
<1> HIDE DEF sent
<1> QED  BY <1>1, <1>2, <1>6, <1>7, <1>8, <1>9, ReceivingLemma

LEMMA ReceiveWhoIsHolds ==
    ASSUME IInv, NEW g \in DOMAIN wire, ReceiveWhoIs(g)
    PROVE  IInv'
<1> DEFINE n == g.to  s == g.net
           paths == SourceLearned(n, s, g.from, g.npdu)
           sent == IF Spoofs(n, g.npdu) THEN {} ELSE Answers(n, s, g.from, g.npdu, paths)
<1>1. /\ path' = [path EXCEPT ![n] = paths] /\ g.npdu.type = "who"
      /\ Exchange({g}, sent) /\ UNCHANGED <<phase, given, restarted, dropped>>
  BY DEF ReceiveWhoIs, history
<1>2. PICK ds \in SUBSET Claims(g.npdu) : paths = Learned(n, s, g.from, ds)
  BY <1>1, SourceLearnedLemma
<1>3. Routes(g)
  BY <1>1, <1>2, LearnedLemma DEF Routes
<1>4. \A h \in sent : h \in Datagrams /\ Sound(h)'
  BY <1>1, <1>3, AnswersSound
<1>5. phase' \in [Messages -> Phases]
  BY <1>1 DEF IInv, TypeOK, Phases
<1>6. given' \in [Messages -> [Nodes -> Seq(Origins)]] /\ SourceIsTrue'
  BY <1>1 DEF IInv, TypeOK, SourceIsTrue, SourceFound
<1>7. dropped' # {} => restarted # {}
  BY <1>1 DEF IInv, PathsHold
<1> HIDE DEF sent, paths
<1> QED  BY <1>1, <1>2, <1>4, <1>5, <1>6, <1>7, ReceivingLemma

LEMMA AppendLemma ==
    ASSUME NEW S, NEW seq \in Seq(S), NEW e \in S
    PROVE  /\ Len(Append(seq, e)) = Len(seq) + 1
           /\ Append(seq, e)[Len(seq) + 1] = e
           /\ \A i \in 1..Len(seq) : Append(seq, e)[i] = seq[i]
OBVIOUS

\* What a device is given with a message has a true source.
LEMMA GivenHolds ==
    ASSUME IInv, NEW g \in DOMAIN wire, g.npdu.type = "apdu",
           given' = [given EXCEPT ![g.npdu.msg][g.to] =
                        Append(@, Origin(g.net, g.from, g.npdu))]
    PROVE  given' \in [Messages -> [Nodes -> Seq(Origins)]] /\ SourceIsTrue'
<1> DEFINE origin == Origin(g.net, g.from, g.npdu)
<1>1. g.to \in Nodes /\ Sound(g) /\ g.npdu \in Apdus /\ g.net \in Nets /\ g.from \in Nodes
  BY DEF IInv, TypeOK, Datagrams, WhoIses, IAms
<1>2. origin \in Origins /\ TrueSource(g.npdu.msg, origin) /\ g.npdu.msg \in Messages
  BY <1>1 DEF Sound, Origin, Origins, Apdus
<1>3. given' = [given EXCEPT ![g.npdu.msg][g.to] = Append(@, origin)]
  OBVIOUS
<1> HIDE DEF origin
<1>4. given' \in [Messages -> [Nodes -> Seq(Origins)]]
  BY <1>1, <1>2, <1>3 DEF IInv, TypeOK
<1>5. ASSUME NEW m \in Messages, ~LeavesElsewhere(m), NEW n \in Nodes,
             NEW k \in 1..Len(given'[m][n])
      PROVE  given'[m][n][k] = <<local[Sender[m]], Sender[m]>>
  <2>1. given[m][n] \in Seq(Origins)
    BY DEF IInv, TypeOK
  <2>2. \A i \in 1..Len(given[m][n]) : given[m][n][i] = <<local[Sender[m]], Sender[m]>>
    BY <1>5 DEF IInv, SourceIsTrue, SourceFound
  <2>3. CASE m = g.npdu.msg /\ n = g.to
    <3>1. given'[m][n] = Append(given[m][n], origin)
      <4>1. given \in [Messages -> [Nodes -> Seq(Origins)]]
        BY DEF IInv, TypeOK
      <4>2. given' = [given EXCEPT ![m][n] = Append(@, origin)]
        BY <1>3, <2>3
      <4>3. m \in DOMAIN given /\ n \in DOMAIN given[m]
        BY <4>1
      <4> QED  BY <4>2, <4>3, Zenon
    <3>2. origin = <<local[Sender[m]], Sender[m]>>
      BY <1>2, <1>5, <2>3 DEF TrueSource
    <3>3. /\ Len(given'[m][n]) = Len(given[m][n]) + 1
          /\ given'[m][n][Len(given[m][n]) + 1] = origin
          /\ \A i \in 1..Len(given[m][n]) : given'[m][n][i] = given[m][n][i]
      <4> DEFINE seq == given[m][n]
      <4>1. seq \in Seq(Origins) /\ origin \in Origins
        BY <1>2, <2>1
      <4> HIDE DEF seq
      <4>2. /\ Len(Append(seq, origin)) = Len(seq) + 1
            /\ Append(seq, origin)[Len(seq) + 1] = origin
            /\ \A i \in 1..Len(seq) : Append(seq, origin)[i] = seq[i]
        BY <4>1, AppendLemma
      <4> QED  BY <3>1, <4>2 DEF seq
    <3>4. k = Len(given[m][n]) + 1 \/ k \in 1..Len(given[m][n])
      <4>1. Len(given[m][n]) \in Nat
        BY <2>1
      <4>2. k \in 1..(Len(given[m][n]) + 1)
        BY <3>3
      <4> QED  BY <4>1, <4>2
    <3> QED  BY <2>2, <3>2, <3>3, <3>4
  <2>4. CASE ~(m = g.npdu.msg /\ n = g.to)
    <3>1. given'[m][n] = given[m][n]
      BY <1>1, <1>2, <1>3, <2>4 DEF IInv, TypeOK
    <3> QED  BY <1>5, <2>2, <3>1
  <2> QED  BY <2>3, <2>4
<1>6. SourceIsTrue'
  BY <1>5 DEF SourceIsTrue, SourceFound
<1> QED  BY <1>4, <1>6

LEMMA ReceiveApduHolds ==
    ASSUME IInv, NEW g \in DOMAIN wire, ReceiveApdu(g)
    PROVE  IInv'
<1> DEFINE n == g.to  s == g.net  f == g.from  npdu == g.npdu
           paths == SourceLearned(n, s, f, npdu)
           accepted == Accepted(n, s, npdu)
           sent == IF accepted THEN Forwarded(n, s, f, npdu, paths) ELSE {}
<1>1. /\ path' = [path EXCEPT ![n] = paths] /\ npdu.type = "apdu"
      /\ Exchange({g}, sent) /\ UNCHANGED <<phase, restarted>>
      /\ given' = IF accepted /\ ProcessLocally(n, s, npdu)
                  THEN [given EXCEPT ![npdu.msg][n] = Append(@, Origin(s, f, npdu))]
                  ELSE given
      /\ dropped' = IF accepted /\ MustLook(n, npdu, paths)
                    THEN dropped \cup {npdu.msg} ELSE dropped
  BY DEF ReceiveApdu
<1>2. PICK ds \in SUBSET Claims(npdu) : paths = Learned(n, s, f, ds)
  BY <1>1, SourceLearnedLemma
<1>3. Routes(g) /\ Grows
  BY <1>1, <1>2, LearnedLemma DEF Routes
<1>4. \A h \in sent : h \in Datagrams /\ Sound(h)'
  BY <1>1, <1>3, ForwardedSound
<1>5. phase' \in [Messages -> Phases]
  BY <1>1 DEF IInv, TypeOK, Phases
<1>6. given' \in [Messages -> [Nodes -> Seq(Origins)]] /\ SourceIsTrue'
  <2>1. CASE accepted /\ ProcessLocally(n, s, npdu)
    BY <1>1, <2>1, GivenHolds
  <2>2. CASE ~(accepted /\ ProcessLocally(n, s, npdu))
    BY <1>1, <2>2 DEF IInv, TypeOK, SourceIsTrue, SourceFound
  <2> QED  BY <2>1, <2>2
<1>7. dropped' # {} => restarted # {}
  <2>1. CASE accepted /\ MustLook(n, npdu, paths)
    BY <1>1, <1>3, <2>1, LooksAfterRestart
  <2>2. CASE ~(accepted /\ MustLook(n, npdu, paths))
    BY <1>1, <2>2 DEF IInv, PathsHold
  <2> QED  BY <2>1, <2>2
<1> HIDE DEF sent, paths, accepted
<1> QED  BY <1>1, <1>2, <1>4, <1>5, <1>6, <1>7, ReceivingLemma

-----------------------------------------------------------------------------
LEMMA InitHolds == Init => IInv
<1> SUFFICES ASSUME Init PROVE IInv
  OBVIOUS
<1>1. DOMAIN wire = {}
  BY DEF Init, EmptyBag, SetToBag
<1>2. TypeOK
  BY <1>1 DEF Init, TypeOK, NoPaths, Phases
<1>3. ASSUME NEW n \in Nodes, NEW s \in on[n], NEW d \in Nets
      PROVE  path[n][s][d] = None /\ None # n
  BY RoutingAssumption DEF Init, NoPaths
<1>4. PathsHold /\ PathsLeadAway
  BY <1>3 DEF Init, PathsHold, PathsLeadAway
<1>5. SourceIsTrue
  BY DEF Init, SourceIsTrue, SourceFound
<1> QED  BY <1>1, <1>2, <1>4, <1>5 DEF IInv

LEMMA NextHolds == IInv /\ [Next]_vars => IInv'
<1> SUFFICES ASSUME IInv, [Next]_vars PROVE IInv'
  OBVIOUS
<1>1. CASE UNCHANGED vars
  <2>1. UNCHANGED <<path, wire, phase, given, calls, lost, restarted, dropped, late>>
    BY <1>1 DEF vars, history
  <2>2. TypeOK' /\ PathsLeadAway' /\ SourceIsTrue'
    BY <2>1 DEF IInv, TypeOK, PathsLeadAway, SourceIsTrue, SourceFound
  <2>3. PathsHold'
    BY <2>1 DEF IInv, PathsHold, Leads
  <2>4. (\A g \in DOMAIN wire : Sound(g))'
    BY <2>1 DEF IInv, Sound, Leads
  <2> QED  BY <2>2, <2>3, <2>4 DEF IInv
<1>2. CASE \E m \in Messages :
              SendToAll(m) \/ SendDirectly(m) \/ SendToRouter(m) \/ LookForRouter(m) \/ TimeOut(m)
  BY <1>2, SendHolds, TimeOutHolds
<1>3. CASE \E g \in BagToSet(wire) :
              ReceiveApdu(g) \/ ReceiveWhoIs(g) \/ ReceiveIAm(g) \/ Lose(g)
  BY <1>3, ReceiveApduHolds, ReceiveWhoIsHolds, ReceiveIAmHolds, LoseHolds DEF BagToSet
<1>4. CASE \E n \in Nodes : AnnounceAll(n) \/ AskForAll(n) \/ Restart(n)
  BY <1>4, CallsHold, RestartHolds
<1> QED  BY <1>1, <1>2, <1>3, <1>4 DEF Next

LEMMA Invariant == Spec => []IInv
BY InitHolds, NextHolds, PTL DEF Spec

(***************************************************************************)
(* In any tree of networks, every path in a cache leads to the router that *)
(* there is, which knows how to go on, and only after a restart has a      *)
(* router no path for a message that was given to it.                      *)
(***************************************************************************)
THEOREM RoutesHold == Spec => []PathsHold
<1>1. IInv => PathsHold
  BY DEF IInv
<1> QED  BY <1>1, Invariant, PTL

(***************************************************************************)
(* In any tree of networks, the source an application is shown with a      *)
(* message is its sender, unless a router's message left by another than   *)
(* its local network.                                                      *)
(***************************************************************************)
THEOREM SourcesTrue == Spec => []SourceIsTrue
<1>1. IInv => SourceIsTrue
  BY DEF IInv
<1> QED  BY <1>1, Invariant, PTL
-----------------------------------------------------------------------------
(* DeliveredOnce: how the copies of a message are apart from each other.   *)

\* A datagram is one of a message.
Carries(g, m) == g.npdu.type = "apdu" /\ g.npdu.msg = m

Carrying(m) == {g \in DOMAIN wire : Carries(g, m)}

\* The device from which a message comes to network s when it goes to all.
Before(s, m) == IF local[Sender[m]] = s THEN Sender[m] ELSE Way[s][local[Sender[m]]]

Reached(m, n) == given[m][n] # <<>> \/ \E g \in Carrying(m) : g.to = n

\* A message that was not sent has reached nobody; there is one datagram to a
\* device at most, and none to one that was given the message.
Once(m) ==
    /\ phase[m] # "sent" => \A n \in Nodes : ~Reached(m, n)
    /\ \A g \in Carrying(m) :
           /\ wire[g] = 1 /\ given[m][g.to] = <<>>
           /\ \A h \in Carrying(m) : h.to = g.to => h = g
    /\ \A n \in Nodes : given[m][n] # <<>> => Len(given[m][n]) = 1 /\ n \in Addressees(m)

\* A message for everybody goes away from its sender: the device before one that
\* it has reached has been given it.
Spreads(m) ==
    /\ \A g \in Carrying(m) :
           g.npdu.dadr = Everywhere /\ g.to # Sender[m] /\ g.from = Before(g.net, m)
    /\ \A n \in Nodes : Reached(m, n) =>
           \A s \in on[n] : Before(s, m) \notin {n, None, Sender[m]} =>
               given[m][Before(s, m)] # <<>>

\* One for a network beyond is one datagram, and given to nobody, until it gets
\* there; on its network it is for those it is meant for.
Underway(m, g) ==
    /\ g.npdu.dadr = Target[m] /\ Target[m][1] \notin on[Sender[m]]
    /\ Carrying(m) = {g}
    /\ \A n \in Nodes : given[m][n] = <<>>

Arriving(m, g) ==
    /\ g.npdu.dadr = None /\ g.net = Target[m][1] /\ Target[m][2] \in {g.to, All}
    /\ g.to # Sender[m]

Goes(m) == \A g \in Carrying(m) : Underway(m, g) \/ Arriving(m, g)

ApartFor(m) == Once(m) /\ IF Target[m] = Everywhere THEN Spreads(m) ELSE Goes(m)

LooksBeyond(m) == phase[m] = "looking" => Target[m][1] \notin on[Sender[m]]

Apart == \A m \in Messages : ApartFor(m) /\ LooksBeyond(m)

-----------------------------------------------------------------------------
\* What is left of one thing in a bag when some are taken out and some put in.
LEMMA BagLemma ==
    ASSUME NEW B, NEW taken, NEW sent, NEW e,
           e \in DOMAIN B => B[e] = 1
    PROVE  LET C == (B (-) SetToBag(taken)) (+) SetToBag(sent)
               stays == e \in DOMAIN B /\ e \notin taken
           IN  /\ e \in DOMAIN C <=> stays \/ e \in sent
               /\ e \in DOMAIN C /\ ~(stays /\ e \in sent) => C[e] = 1
<1> DEFINE D == B (-) SetToBag(taken)
           stays == e \in DOMAIN B /\ e \notin taken
<1>1. e \in DOMAIN D <=> stays
  BY DEF (-), SetToBag
<1>2. stays => D[e] = 1
  BY <1>1 DEF (-), SetToBag
<1> HIDE DEF D
<1>3. e \in DOMAIN (D (+) SetToBag(sent)) <=> e \in DOMAIN D \/ e \in sent
  BY DEF (+), SetToBag
<1>4. e \in DOMAIN D /\ e \notin sent => (D (+) SetToBag(sent))[e] = D[e] + 0
  BY DEF (+), SetToBag
<1>5. e \notin DOMAIN D /\ e \in sent => (D (+) SetToBag(sent))[e] = 0 + 1
  BY DEF (+), SetToBag
<1>6. e \in DOMAIN D /\ e \notin sent => (D (+) SetToBag(sent))[e] = 1
  BY <1>1, <1>2, <1>4
<1>7. e \notin DOMAIN D /\ e \in sent => (D (+) SetToBag(sent))[e] = 1
  BY <1>5
<1> QED  BY <1>1, <1>3, <1>6, <1>7 DEF D

\* The datagrams of a message after an exchange.
LEMMA CarryingLemma ==
    ASSUME NEW m, \A g \in Carrying(m) : wire[g] = 1,
           NEW taken, NEW sent, Exchange(taken, sent)
    PROVE  /\ Carrying(m)' = (Carrying(m) \ taken) \cup {h \in sent : Carries(h, m)}
           /\ \A h \in Carrying(m)' :
                  h \notin sent \/ h \notin Carrying(m) \ taken => wire'[h] = 1
<1> SUFFICES ASSUME NEW h, Carries(h, m)
             PROVE  /\ h \in DOMAIN wire' <=> h \in Carrying(m) \ taken \/ h \in sent
                    /\ h \in DOMAIN wire' /\ (h \notin sent \/ h \notin Carrying(m) \ taken)
                           => wire'[h] = 1
  BY DEF Carrying, Carries
<1>1. h \in DOMAIN wire => wire[h] = 1
  BY DEF Carrying
<1>2. wire' = (wire (-) SetToBag(taken)) (+) SetToBag(sent)
  BY DEF Exchange
<1> QED  BY <1>1, <1>2, BagLemma DEF Carrying

\* A message goes on away from where it came to a device from.
LEMMA BeforeLemma ==
    ASSUME NEW m \in Messages, NEW n \in Nodes, NEW s \in on[n], NEW t \in on[n], s # t,
           Before(s, m) \notin {n, None}
    PROVE  Before(t, m) = n
<1> DEFINE p == Sender[m]  d == local[p]
<1>1. p \in Nodes /\ d \in Nets /\ s \in Nets /\ t \in Nets
  BY RoutingAssumption
<1>2. CASE d = s
  <2>1. Way[t][s] = n
    BY TreeAssumption
  <2> QED  BY <1>2, <2>1 DEF Before
<1>3. CASE d = t
  <2>1. Way[s][t] = n
    BY TreeAssumption
  <2> QED  BY <1>3, <2>1 DEF Before
<1>4. CASE d \notin {s, t}
  <2>1. Way[s][d] \notin {n, None}
    BY <1>4 DEF Before
  <2>2. Way[t][d] = n
    BY <1>1, <2>1, TreeLemma
  <2> QED  BY <1>4, <2>2 DEF Before
<1> QED  BY <1>2, <1>3, <1>4

LEMMA BeforeFirst ==
    ASSUME NEW m \in Messages, NEW s \in on[Sender[m]]
    PROVE  Before(s, m) = Sender[m]
<1>1. Sender[m] \in Nodes /\ local[Sender[m]] \in on[Sender[m]]
  BY RoutingAssumption
<1>2. s # local[Sender[m]] => Way[s][local[Sender[m]]] = Sender[m]
  BY <1>1, TreeAssumption
<1> QED  BY <1>2 DEF Before

\* Two devices have one network in common.
LEMMA OneNetwork ==
    ASSUME NEW n \in Nodes, NEW y \in Nodes \ {n},
           NEW s \in on[n], NEW t \in on[n], s \in on[y], t \in on[y]
    PROVE  s = t
BY TreeAssumption

-----------------------------------------------------------------------------
\* What is under way of a message is lost or not, and nothing else of it changes.
LEMMA ApartKept ==
    ASSUME NEW m \in Messages, ApartFor(m),
           Carrying(m)' \subseteq Carrying(m),
           \A g \in Carrying(m)' : wire'[g] = 1,
           given'[m] = given[m],
           phase'[m] # "sent" => phase[m] # "sent"
    PROVE  ApartFor(m)'
<1>1. \A n \in Nodes : Reached(m, n)' => Reached(m, n)
  BY DEF Reached
<1>2. Once(m)'
  <2>1. phase'[m] # "sent" => \A n \in Nodes : ~Reached(m, n)'
    BY <1>1 DEF ApartFor, Once
  <2>2. \A g \in Carrying(m)' :
           /\ wire'[g] = 1 /\ given'[m][g.to] = <<>>
           /\ \A h \in Carrying(m)' : h.to = g.to => h = g
    BY DEF ApartFor, Once
  <2>3. \A n \in Nodes : given'[m][n] # <<>> => Len(given'[m][n]) = 1 /\ n \in Addressees(m)
    BY DEF ApartFor, Once
  <2> QED  BY <2>1, <2>2, <2>3 DEF Once, Addressees
<1>3. CASE Target[m] = Everywhere
  <2>1. Spreads(m)
    BY <1>3 DEF ApartFor
  <2>2. Spreads(m)'
    BY <1>1, <2>1 DEF Spreads, Before
  <2> QED  BY <1>2, <1>3, <2>2 DEF ApartFor
<1>4. CASE Target[m] # Everywhere
  <2>1. Goes(m)
    BY <1>4 DEF ApartFor
  <2>2. ASSUME NEW g \in Carrying(m)', Underway(m, g)
        PROVE  Underway(m, g)'
    <3>1. Carrying(m)' = {g}
      BY <2>2 DEF Underway
    <3> QED  BY <2>2, <3>1 DEF Underway
  <2>3. ASSUME NEW g \in Carrying(m)', Arriving(m, g)
        PROVE  Arriving(m, g)'
    BY <2>3 DEF Arriving
  <2>4. Goes(m)'
    BY <2>1, <2>2, <2>3 DEF Goes
  <2> QED  BY <1>2, <1>4, <2>4 DEF ApartFor
<1> QED  BY <1>3, <1>4

\* An exchange of other datagrams than those of a message.
LEMMA OthersKeep ==
    ASSUME NEW m \in Messages, ApartFor(m),
           NEW taken, NEW sent, Exchange(taken, sent),
           \A h \in sent : ~Carries(h, m),
           given'[m] = given[m],
           phase'[m] # "sent" => phase[m] # "sent"
    PROVE  ApartFor(m)'
<1>1. \A g \in Carrying(m) : wire[g] = 1
  BY DEF ApartFor, Once
<1>2. /\ Carrying(m)' = (Carrying(m) \ taken) \cup {h \in sent : Carries(h, m)}
      /\ \A h \in Carrying(m)' :
             h \notin sent \/ h \notin Carrying(m) \ taken => wire'[h] = 1
  BY <1>1, CarryingLemma
<1>3. {h \in sent : Carries(h, m)} = {}
  OBVIOUS
<1>4. \A h \in Carrying(m) : h \notin sent
  BY DEF Carrying
<1>5. /\ Carrying(m)' \subseteq Carrying(m)
      /\ \A g \in Carrying(m)' : wire'[g] = 1
  BY <1>2, <1>3, <1>4
<1> QED  BY <1>5, ApartKept
-----------------------------------------------------------------------------
\* A message of which nothing was under way is sent, at most once to a device.
LEMMA FirstSent ==
    ASSUME TypeOK, NEW m \in Messages, Once(m), phase[m] # "sent",
           NEW taken, NEW sent, Exchange(taken, sent),
           \A h \in sent : Carries(h, m) => h.to \in Nodes,
           \A h, k \in sent : Carries(h, m) /\ Carries(k, m) /\ h.to = k.to => h = k,
           given'[m] = given[m], phase'[m] = "sent"
    PROVE  /\ Once(m)'
           /\ Carrying(m)' = {h \in sent : Carries(h, m)}
           /\ \A n \in Nodes : given'[m][n] = <<>>
<1>1. \A n \in Nodes : given[m][n] = <<>>
  BY DEF Once, Reached
<1>2. Carrying(m) = {}
  <2>1. \A g \in Carrying(m) : g.to \in Nodes
    BY DEF TypeOK, Carrying, Datagrams
  <2> QED  BY <2>1 DEF Once, Reached
<1>3. /\ Carrying(m)' = {h \in sent : Carries(h, m)}
      /\ \A h \in Carrying(m)' : wire'[h] = 1
  <2>1. \A g \in Carrying(m) : wire[g] = 1
    BY <1>2
  <2>2. /\ Carrying(m)' = (Carrying(m) \ taken) \cup {h \in sent : Carries(h, m)}
        /\ \A h \in Carrying(m)' :
               h \notin sent \/ h \notin Carrying(m) \ taken => wire'[h] = 1
    BY <2>1, CarryingLemma
  <2> QED  BY <1>2, <2>2
<1>4. \A h \in Carrying(m)' : given'[m][h.to] = <<>>
  BY <1>1, <1>3
<1>5. \A h, k \in Carrying(m)' : h.to = k.to => h = k
  BY <1>3
<1>6. Once(m)'
  BY <1>1, <1>3, <1>4, <1>5 DEF Once
<1> QED  BY <1>1, <1>3, <1>6

\* It is sent to everybody.
LEMMA ToEverybodyApart ==
    ASSUME TypeOK, NEW m \in Messages, ApartFor(m), SendToAll(m)
    PROVE  ApartFor(m)'
<1> DEFINE p == Sender[m]  sent == ToEverybody(m, p)
<1>1. /\ p \in Nodes /\ p # None
      /\ Target[m] = Everywhere /\ phase[m] # "sent" /\ Once(m)
      /\ Exchange({}, sent) /\ given' = given /\ phase'[m] = "sent"
  BY RoutingAssumption DEF SendToAll, Becomes, TypeOK, ApartFor
<1>2. ASSUME NEW h \in sent
      PROVE  /\ h.to \in Nodes \ {p} /\ h.from = p /\ h.npdu.dadr = Everywhere
             /\ h.net \in on[p] /\ h.net \in on[h.to]
             /\ Before(h.net, m) = p
             /\ h = [net |-> h.net, from |-> p, to |-> h.to,
                     npdu |-> Apdu(m, SourceOn(p, h.net), Everywhere, HopCount)]
  <2>1. PICK s \in on[p] : h \in Transmit(p, s, All, Apdu(m, SourceOn(p, s), Everywhere, HopCount))
    BY DEF ToEverybody
  <2>2. PICK y \in Nodes \ {p} :
            /\ s \in on[y]
            /\ h = [net |-> s, from |-> p, to |-> y,
                    npdu |-> Apdu(m, SourceOn(p, s), Everywhere, HopCount)]
    BY <2>1 DEF Transmit
  <2>3. Before(s, m) = p
    BY BeforeFirst
  <2> QED  BY <2>2, <2>3 DEF Apdu
<1>3. \A h, k \in sent : h.to = k.to => h = k
  <2> SUFFICES ASSUME NEW h \in sent, NEW k \in sent, h.to = k.to
               PROVE  h = k
    OBVIOUS
  <2>1. h.net = k.net
    BY <1>1, <1>2, OneNetwork
  <2> HIDE DEF sent
  <2> QED  BY <1>2, <2>1
<1> HIDE DEF sent
<1>4. /\ Once(m)'
      /\ Carrying(m)' = {h \in sent : Carries(h, m)}
      /\ \A n \in Nodes : given'[m][n] = <<>>
  BY <1>1, <1>2, <1>3, FirstSent
<1>5. \A g \in Carrying(m)' :
          g.npdu.dadr = Everywhere /\ g.to # p /\ g.from = Before(g.net, m)
  BY <1>2, <1>4
<1>6. ASSUME NEW n \in Nodes, Reached(m, n)', NEW t \in on[n], Before(t, m) \notin {n, None, p}
      PROVE  FALSE
  <2>1. PICK h \in sent : h.to = n
    BY <1>4, <1>6 DEF Reached
  <2>2. h.net \in on[n] /\ Before(h.net, m) = p /\ n # p
    BY <1>2, <2>1
  <2> QED  BY <1>1, <1>6, <2>2, BeforeLemma
<1>7. Spreads(m)'
  BY <1>5, <1>6 DEF Spreads, Before
<1> QED  BY <1>1, <1>4, <1>7 DEF ApartFor

\* It is sent to the router that leads to its network.
LEMMA ToRouterApart ==
    ASSUME TypeOK, NEW m \in Messages, ApartFor(m), phase[m] # "sent",
           Target[m] # Everywhere, Target[m][1] \notin on[Sender[m]],
           NEW s, NEW r \in Nodes, NEW taken, NEW sent, Exchange(taken, sent),
           \A h \in sent : Carries(h, m) => h \in ToRouter(m, Sender[m], s, r),
           given'[m] = given[m], phase'[m] = "sent"
    PROVE  ApartFor(m)'
<1> DEFINE npdu == Apdu(m, None, Target[m], HopCount)
<1>1. \A h \in ToRouter(m, Sender[m], s, r) :
          h = [net |-> s, from |-> Sender[m], to |-> r, npdu |-> npdu]
  BY RoutingAssumption DEF ToRouter, Transmit
<1>2. /\ \A h \in sent : Carries(h, m) => h.to \in Nodes /\ h.npdu.dadr = Target[m]
      /\ \A h, k \in sent : Carries(h, m) /\ Carries(k, m) => h = k
  BY <1>1 DEF Apdu
<1>3. /\ Once(m)'
      /\ Carrying(m)' = {h \in sent : Carries(h, m)}
      /\ \A n \in Nodes : given'[m][n] = <<>>
  BY <1>2, FirstSent DEF ApartFor
<1>4. ASSUME NEW g \in Carrying(m)'
      PROVE  Underway(m, g)'
  <2>1. Carrying(m)' = {g} /\ g.npdu.dadr = Target[m]
    BY <1>2, <1>3
  <2> QED  BY <1>3, <2>1 DEF Underway
<1>5. Goes(m)'
  BY <1>4 DEF Goes
<1> QED  BY <1>3, <1>5 DEF ApartFor

\* It is put on its network.
LEMMA DirectlyApart ==
    ASSUME TypeOK, NEW m \in Messages, ApartFor(m), SendDirectly(m)
    PROVE  ApartFor(m)'
<1> DEFINE p == Sender[m]  d == Target[m][1]  sent == ToNetwork(m, p, d)
<1>1. /\ p \in Nodes /\ Target[m] # Everywhere /\ phase[m] # "sent" /\ Once(m)
      /\ Exchange({}, sent) /\ given' = given /\ phase'[m] = "sent"
  <2>1. p \in Nodes /\ d \in on[p] /\ d \in Nets
    BY RoutingAssumption DEF SendDirectly
  <2>2. Target[m] # Everywhere
    BY <2>1, RoutingAssumption DEF Everywhere
  <2> QED  BY <2>1, <2>2 DEF SendDirectly, Becomes, TypeOK, ApartFor
<1>2. \A h \in sent :
          /\ h.to \in Nodes \ {p} /\ Target[m][2] \in {h.to, All}
          /\ h.net = d /\ h.npdu.dadr = None
          /\ h = [net |-> d, from |-> p, to |-> h.to,
                  npdu |-> Apdu(m, SourceOn(p, d), None, HopCount)]
  BY DEF ToNetwork, Transmit, Apdu
<1>3. \A h, k \in sent : h.to = k.to => h = k
  BY <1>2
<1> HIDE DEF sent
<1>4. Once(m)' /\ Carrying(m)' = {h \in sent : Carries(h, m)}
  BY <1>1, <1>2, <1>3, FirstSent
<1>5. Goes(m)'
  BY <1>2, <1>4 DEF Goes, Arriving
<1> QED  BY <1>1, <1>4, <1>5 DEF ApartFor
-----------------------------------------------------------------------------
\* The datagrams that are sent for one message carry no other.
LEMMA OneCarried ==
    ASSUME NEW m, NEW k, m # k, NEW n, NEW s, NEW x, NEW sadr, NEW dadr, NEW hops,
           NEW h \in Transmit(n, s, x, Apdu(m, sadr, dadr, hops))
    PROVE  ~Carries(h, k)
BY DEF Transmit, Apdu, Carries

LEMMA NotCarried ==
    ASSUME NEW m, NEW n, NEW s, NEW x, NEW npdu, npdu.type # "apdu",
           NEW h \in Transmit(n, s, x, npdu)
    PROVE  ~Carries(h, m)
BY DEF Transmit, Carries

LEMMA QuestionCarries ==
    ASSUME NEW m, NEW n, NEW d, NEW h \in Question(n, d)
    PROVE  ~Carries(h, m)
<1>1. PICK s \in on[n] : h \in Transmit(n, s, All, WhoIs(None, d))
  BY DEF Question, OnAll
<1>2. WhoIs(None, d).type # "apdu"
  BY DEF WhoIs
<1> QED  BY <1>1, <1>2, NotCarried

\* While one message is sent the others are as they were.
LEMMA BecomesOthers ==
    ASSUME TypeOK, NEW m \in Messages, NEW p, NEW sent, Becomes(m, p, sent),
           NEW k \in Messages, k # m, ApartFor(k) /\ LooksBeyond(k),
           \A h \in sent : ~Carries(h, k)
    PROVE  ApartFor(k)' /\ LooksBeyond(k)'
<1>1. Exchange({}, sent) /\ given' = given /\ phase'[k] = phase[k]
  BY DEF Becomes, TypeOK
<1>2. ApartFor(k)'
  BY <1>1, OthersKeep
<1> QED  BY <1>1, <1>2 DEF LooksBeyond

LEMMA SendApart ==
    ASSUME IInv, Apart, NEW m \in Messages,
           SendToAll(m) \/ SendDirectly(m) \/ SendToRouter(m) \/ LookForRouter(m)
    PROVE  Apart'
<1> DEFINE p == Sender[m]  d == Target[m][1]
<1>1. TypeOK /\ ApartFor(m)
  BY DEF IInv, Apart
<1>2. \A k \in Messages : ApartFor(k) /\ LooksBeyond(k)
  BY DEF Apart
<1>3. CASE SendToAll(m)
  <2>1. Becomes(m, "sent", ToEverybody(m, p))
    BY <1>3 DEF SendToAll
  <2>2. \A k \in Messages \ {m} : \A h \in ToEverybody(m, p) : ~Carries(h, k)
    BY OneCarried DEF ToEverybody
  <2>3. ApartFor(m)' /\ phase'[m] = "sent"
    BY <1>1, <1>3, <2>1, ToEverybodyApart DEF Becomes, TypeOK
  <2> QED  BY <1>1, <1>2, <2>1, <2>2, <2>3, BecomesOthers DEF Apart, LooksBeyond
<1>4. CASE SendDirectly(m)
  <2>1. Becomes(m, "sent", ToNetwork(m, p, d))
    BY <1>4 DEF SendDirectly
  <2>2. \A k \in Messages \ {m} : \A h \in ToNetwork(m, p, d) : ~Carries(h, k)
    BY OneCarried DEF ToNetwork
  <2>3. ApartFor(m)' /\ phase'[m] = "sent"
    BY <1>1, <1>4, <2>1, DirectlyApart DEF Becomes, TypeOK
  <2> QED  BY <1>1, <1>2, <2>1, <2>2, <2>3, BecomesOthers DEF Apart, LooksBeyond
<1>5. CASE SendToRouter(m)
  <2> DEFINE s == FirstWay(path[p], p, d)  r == path[p][s][d]
  <2>1. /\ Target[m] # Everywhere /\ d \notin on[p] /\ s \in on[p] /\ r # None
        /\ Becomes(m, "sent", ToRouter(m, p, s, r))
    BY <1>5, FirstWayLemma DEF SendToRouter
  <2>2. r \in Nodes
    <3>1. p \in Nodes /\ s \in Nets /\ d \in Nets
      BY <2>1, RoutingAssumption
    <3> HIDE DEF s
    <3> QED  BY <1>1, <2>1, <3>1 DEF TypeOK
  <2> HIDE DEF s, r
  <2>3. \A k \in Messages \ {m} : \A h \in ToRouter(m, p, s, r) : ~Carries(h, k)
    BY OneCarried DEF ToRouter
  <2>4. /\ phase[m] # "sent" /\ Exchange({}, ToRouter(m, p, s, r))
        /\ given'[m] = given[m] /\ phase'[m] = "sent"
    BY <1>1, <2>1 DEF Becomes, TypeOK
  <2>5. ApartFor(m)'
    BY <1>1, <2>1, <2>2, <2>4, ToRouterApart
  <2> QED  BY <1>1, <1>2, <2>1, <2>3, <2>4, <2>5, BecomesOthers DEF Apart, LooksBeyond
<1>6. CASE LookForRouter(m)
  <2>1. d \notin on[p] /\ Becomes(m, "looking", Question(p, d))
    BY <1>6 DEF LookForRouter
  <2>2. \A k \in Messages, h \in Question(p, d) : ~Carries(h, k)
    BY QuestionCarries
  <2>3. /\ phase[m] # "sent" /\ Exchange({}, Question(p, d)) /\ given'[m] = given[m]
    BY <2>1 DEF Becomes
  <2>4. ApartFor(m)'
    BY <1>1, <2>2, <2>3, OthersKeep
  <2> QED  BY <1>1, <1>2, <2>1, <2>2, <2>4, BecomesOthers DEF Apart, LooksBeyond
<1> QED  BY <1>3, <1>4, <1>5, <1>6

\* Nobody is given anything and no message is put on the wire.
LEMMA ElseApart ==
    ASSUME Apart, NEW taken, NEW sent, Exchange(taken, sent),
           \A m \in Messages, h \in sent : ~Carries(h, m),
           given' = given,
           \A m \in Messages : /\ phase'[m] # "sent" => phase[m] # "sent"
                               /\ phase'[m] = "looking" => phase[m] = "looking"
    PROVE  Apart'
<1> SUFFICES ASSUME NEW m \in Messages
             PROVE  ApartFor(m)' /\ LooksBeyond(m)'
  BY DEF Apart
<1>1. ApartFor(m) /\ LooksBeyond(m)
  BY DEF Apart
<1>2. ApartFor(m)'
  BY <1>1, OthersKeep
<1> QED  BY <1>1, <1>2 DEF LooksBeyond

LEMMA TimeOutApart ==
    ASSUME TypeOK, Apart, NEW m \in Messages, TimeOut(m)
    PROVE  Apart'
<1>1. /\ wire' = wire /\ given' = given
      /\ \A k \in Messages : phase'[k] = IF k = m THEN "unknown" ELSE phase[k]
      /\ phase[m] = "looking"
  BY DEF TimeOut, TypeOK
<1> SUFFICES ASSUME NEW k \in Messages
             PROVE  ApartFor(k)' /\ LooksBeyond(k)'
  BY DEF Apart
<1>2. ApartFor(k) /\ LooksBeyond(k)
  BY DEF Apart
<1>3. Carrying(k)' = Carrying(k) /\ \A g \in Carrying(k) : wire'[g] = 1
  BY <1>1, <1>2 DEF Carrying, ApartFor, Once
<1>4. ApartFor(k)'
  BY <1>1, <1>2, <1>3, ApartKept
<1> QED  BY <1>1, <1>2, <1>4 DEF LooksBeyond

LEMMA RestartApart ==
    ASSUME TypeOK, Apart, NEW n \in Nodes, Restart(n)
    PROVE  Apart'
<1>1. /\ wire' = wire /\ given' = given
      /\ \A k \in Messages : phase'[k] = IF Sender[k] = n /\ phase[k] = "looking" THEN "gone" ELSE phase[k]
  BY DEF Restart
<1> SUFFICES ASSUME NEW k \in Messages
             PROVE  ApartFor(k)' /\ LooksBeyond(k)'
  BY DEF Apart
<1>2. ApartFor(k) /\ LooksBeyond(k)
  BY DEF Apart
<1>3. Carrying(k)' = Carrying(k) /\ \A g \in Carrying(k) : wire'[g] = 1
  BY <1>1, <1>2 DEF Carrying, ApartFor, Once
<1>4. /\ phase'[k] # "sent" => phase[k] # "sent"
      /\ phase'[k] = "looking" => phase[k] = "looking"
  BY <1>1
<1>5. ApartFor(k)'
  BY <1>1, <1>2, <1>3, <1>4, ApartKept
<1> QED  BY <1>2, <1>4, <1>5 DEF LooksBeyond

LEMMA CallsApart ==
    ASSUME Apart, NEW n \in Nodes, AnnounceAll(n) \/ AskForAll(n)
    PROVE  Apart'
<1>1. CASE AnnounceAll(n)
  <2> DEFINE sent == UNION {Transmit(n, s, All, IAm(on[n] \ {s})) : s \in on[n]}
  <2>1. \A m \in Messages, h \in sent : ~Carries(h, m)
    <3>1. SUFFICES ASSUME NEW m \in Messages, NEW s \in on[n],
                          NEW h \in Transmit(n, s, All, IAm(on[n] \ {s}))
                   PROVE  ~Carries(h, m)
      OBVIOUS
    <3>2. IAm(on[n] \ {s}).type # "apdu"
      BY DEF IAm
    <3> QED  BY <3>2, NotCarried
  <2>2. Exchange({}, sent) /\ given' = given /\ phase' = phase
    BY <1>1 DEF AnnounceAll
  <2> HIDE DEF sent
  <2> QED  BY <2>1, <2>2, ElseApart
<1>2. CASE AskForAll(n)
  <2>1. \A m \in Messages, h \in Question(n, None) : ~Carries(h, m)
    BY QuestionCarries
  <2>2. Exchange({}, Question(n, None)) /\ given' = given /\ phase' = phase
    BY <1>2 DEF AskForAll
  <2> QED  BY <2>1, <2>2, ElseApart
<1> QED  BY <1>1, <1>2

LEMMA LoseApart ==
    ASSUME Apart, NEW g, Lose(g)
    PROVE  Apart'
<1>1. Exchange({g}, {}) /\ given' = given /\ phase' = phase
  BY DEF Lose
<1> QED  BY <1>1, ElseApart

LEMMA ReceiveWhoIsApart ==
    ASSUME Apart, NEW g, ReceiveWhoIs(g)
    PROVE  Apart'
<1> DEFINE n == g.to  s == g.net
           paths == SourceLearned(n, s, g.from, g.npdu)
           sent == IF Spoofs(n, g.npdu) THEN {} ELSE Answers(n, s, g.from, g.npdu, paths)
<1>1. Exchange({g}, sent) /\ given' = given /\ phase' = phase
  BY DEF ReceiveWhoIs, history
<1>2. \A m \in Messages, h \in sent : ~Carries(h, m)
  <2> SUFFICES ASSUME NEW m \in Messages, NEW h \in Answers(n, s, g.from, g.npdu, paths)
               PROVE  ~Carries(h, m)
    OBVIOUS
  <2>1. PICK t, x, npdu : h \in Transmit(n, t, x, npdu) /\ npdu.type # "apdu"
    BY DEF Answers, OnAll, IAm, WhoIs
  <2> QED  BY <2>1, NotCarried
<1> HIDE DEF sent
<1> QED  BY <1>1, <1>2, ElseApart

LEMMA ReceiveIAmApart ==
    ASSUME IInv, Apart, NEW g \in DOMAIN wire, ReceiveIAm(g)
    PROVE  Apart'
<1> DEFINE n == g.to  s == g.net  dnets == g.npdu.dnets
           waiting == Waiting(n, dnets)
           announced == Announced(n, s, dnets)
           sent == announced \cup UNION {ToRouter(m, n, s, g.from) : m \in waiting}
<1>1. /\ phase' = [m \in Messages |-> IF m \in waiting THEN "sent" ELSE phase[m]]
      /\ Exchange({g}, sent) /\ given' = given
  BY DEF ReceiveIAm, history
<1>2. g.from \in Nodes /\ dnets \subseteq Nets /\ TypeOK
  BY DEF ReceiveIAm, IInv, TypeOK, Datagrams, Apdus, WhoIses, IAms
<1>3. \A m \in Messages, h \in announced : ~Carries(h, m)
  <2> SUFFICES ASSUME NEW m \in Messages, NEW h \in announced
               PROVE  ~Carries(h, m)
    OBVIOUS
  <2>1. PICK t : h \in Transmit(n, t, All, IAm(dnets))
    BY DEF Announced, OnAll
  <2>2. IAm(dnets).type # "apdu"
    BY DEF IAm
  <2> QED  BY <2>1, <2>2, NotCarried
<1>4. \A m, k \in Messages : \A h \in ToRouter(k, n, s, g.from) : Carries(h, m) => k = m
  BY OneCarried DEF ToRouter
<1>5. waiting \subseteq Messages
  BY DEF Waiting
<1>6. \A m \in Messages, h \in sent :
          Carries(h, m) => m \in waiting /\ h \in ToRouter(m, n, s, g.from)
  BY <1>3, <1>4, <1>5
<1> HIDE DEF sent, announced
<1> SUFFICES ASSUME NEW m \in Messages
             PROVE  ApartFor(m)' /\ LooksBeyond(m)'
  BY DEF Apart
<1>7. ApartFor(m) /\ LooksBeyond(m)
  BY DEF Apart
<1>8. CASE m \in waiting
  <2>1. phase[m] = "looking" /\ Sender[m] = n /\ Target[m][1] \in Nets
    BY <1>2, <1>8 DEF Waiting
  <2>2. Target[m] # Everywhere /\ Target[m][1] \notin on[Sender[m]]
    BY <1>7, <2>1, RoutingAssumption DEF Everywhere, LooksBeyond
  <2>3. phase'[m] = "sent" /\ given'[m] = given[m]
    BY <1>1, <1>8
  <2>4. \A h \in sent : Carries(h, m) => h \in ToRouter(m, Sender[m], s, g.from)
    BY <1>6, <2>1
  <2>5. ApartFor(m)'
    BY <1>1, <1>2, <1>7, <2>1, <2>2, <2>3, <2>4, ToRouterApart
  <2> QED  BY <2>3, <2>5 DEF LooksBeyond
<1>9. CASE m \notin waiting
  <2>1. phase'[m] = phase[m] /\ given'[m] = given[m]
    BY <1>1, <1>9
  <2>2. \A h \in sent : ~Carries(h, m)
    BY <1>6, <1>9
  <2>3. ApartFor(m)'
    BY <1>1, <1>7, <2>1, <2>2, OthersKeep
  <2> QED  BY <1>7, <2>1, <2>3 DEF LooksBeyond
<1> QED  BY <1>8, <1>9
-----------------------------------------------------------------------------
\* What a device does with a datagram of a message.
Handles(g, m, sent) ==
    /\ g \in Carrying(m)
    /\ Exchange({g}, sent) /\ phase' = phase
    /\ Accepted(g.to, g.net, g.npdu)
    /\ given' = IF ProcessLocally(g.to, g.net, g.npdu)
                THEN [given EXCEPT ![m][g.to] = Append(@, Origin(g.net, g.from, g.npdu))]
                ELSE given

LEMMA HandlesLemma ==
    ASSUME IInv, NEW m \in Messages, ApartFor(m), NEW g, NEW sent, Handles(g, m, sent)
    PROVE  LET n == g.to
           IN  /\ n \in Nodes /\ g.net \in on[n] /\ g.from \in Nodes \ {n}
               /\ given[m][n] = <<>>
               /\ phase[m] = "sent"
               /\ \A x \in Nodes \ {n} : given'[m][x] = given[m][x]
               /\ given'[m][n] # <<>> <=> ProcessLocally(n, g.net, g.npdu)
               /\ given'[m][n] # <<>> => Len(given'[m][n]) = 1
               /\ Carrying(m)' = (Carrying(m) \ {g}) \cup {h \in sent : Carries(h, m)}
               /\ \A h \in Carrying(m)' :
                      h \notin sent \/ h \notin Carrying(m) \ {g} => wire'[h] = 1
<1> DEFINE n == g.to  origin == Origin(g.net, g.from, g.npdu)
<1>1. g \in Datagrams /\ Sound(g) /\ g \in Carrying(m)
  BY DEF Handles, IInv, TypeOK, Carrying
<1>2. n \in Nodes /\ g.net \in on[n] /\ g.from \in Nodes \ {n}
  BY <1>1 DEF Sound, Datagrams
<1>3. given[m][n] = <<>> /\ phase[m] = "sent" /\ \A h \in Carrying(m) : wire[h] = 1
  BY <1>1, <1>2 DEF ApartFor, Once, Reached
<1>4. given \in [Messages -> [Nodes -> Seq(Origins)]]
  BY DEF IInv, TypeOK
<1>5. \A x \in Nodes \ {n} : given'[m][x] = given[m][x]
  <2> HIDE DEF origin
  <2> QED  BY <1>2, <1>4 DEF Handles, origin
<1>6. /\ given'[m][n] # <<>> <=> ProcessLocally(n, g.net, g.npdu)
      /\ given'[m][n] # <<>> => Len(given'[m][n]) = 1
  <2>1. CASE ProcessLocally(n, g.net, g.npdu)
    <3>1. given' = [given EXCEPT ![m][n] = Append(@, origin)]
      BY <2>1 DEF Handles
    <3> HIDE DEF origin
    <3>2. given'[m][n] = Append(<<>>, origin)
      BY <1>2, <1>3, <1>4, <3>1
    <3>3. Append(<<>>, origin) = <<origin>>
      OBVIOUS
    <3>4. Len(<<origin>>) = 1 /\ <<origin>> # <<>>
      OBVIOUS
    <3> QED  BY <2>1, <3>2, <3>3, <3>4
  <2>2. CASE ~ProcessLocally(n, g.net, g.npdu)
    BY <1>3, <2>2 DEF Handles
  <2> QED  BY <2>1, <2>2
<1>7. /\ Carrying(m)' = (Carrying(m) \ {g}) \cup {h \in sent : Carries(h, m)}
      /\ \A h \in Carrying(m)' :
             h \notin sent \/ h \notin Carrying(m) \ {g} => wire'[h] = 1
  BY <1>3, CarryingLemma DEF Handles
<1> QED  BY <1>2, <1>3, <1>5, <1>6, <1>7

\* A message for everybody goes on to the other networks of a router.
LEMMA SpreadsOn ==
    ASSUME IInv, NEW m \in Messages, ApartFor(m), Target[m] = Everywhere,
           NEW g, NEW sent, Handles(g, m, sent),
           NEW npdu, npdu.dadr = Everywhere,
           \A h \in sent : Carries(h, m) =>
               \E t \in on[g.to] \ {g.net} : h \in Transmit(g.to, t, All, npdu)
    PROVE  ApartFor(m)'
<1> DEFINE n == g.to  s == g.net  p == Sender[m]
           new == {h \in sent : Carries(h, m)}
<1>1. /\ n \in Nodes /\ s \in on[n] /\ g.from \in Nodes \ {n}
      /\ given[m][n] = <<>> /\ phase[m] = "sent"
      /\ \A x \in Nodes \ {n} : given'[m][x] = given[m][x]
      /\ given'[m][n] # <<>> => Len(given'[m][n]) = 1
      /\ Carrying(m)' = (Carrying(m) \ {g}) \cup new
      /\ \A h \in Carrying(m)' : h \notin new \/ h \notin Carrying(m) \ {g} => wire'[h] = 1
  <2> HIDE DEF n, s
  <2> QED  BY HandlesLemma DEF Carrying, n, s
<1>2. given'[m][n] # <<>>
  <2>1. g.npdu.dadr = Everywhere
    BY DEF Handles, ApartFor, Spreads
  <2> QED  BY <2>1, HandlesLemma DEF ProcessLocally
<1>3. /\ g \in Carrying(m) /\ n # p /\ Before(s, m) = g.from
      /\ phase' = phase /\ Once(m) /\ Spreads(m)
  BY DEF Handles, ApartFor, Spreads
<1>4. p \in Nodes /\ None \notin Nodes /\ n \in Addressees(m)
  BY <1>1, <1>3, RoutingAssumption DEF Addressees
<1>5. ASSUME NEW h \in new
      PROVE  /\ h.to \in Nodes \ {n} /\ h.net \in on[n] \ {s} /\ h.net \in on[h.to]
             /\ h = [net |-> h.net, from |-> n, to |-> h.to, npdu |-> npdu]
             /\ h.from = n /\ h.npdu.dadr = Everywhere
             /\ Before(h.net, m) = n
  <2>1. PICK t \in on[n] \ {s} : h \in Transmit(n, t, All, npdu)
    OBVIOUS
  <2>2. PICK y \in Nodes \ {n} :
            t \in on[y] /\ h = [net |-> t, from |-> n, to |-> y, npdu |-> npdu]
    BY <2>1 DEF Transmit
  <2>3. Before(t, m) = n
    BY <1>1, <1>3, <1>4, BeforeLemma
  <2> QED  BY <2>2, <2>3
<1>6. \A h \in new : ~Reached(m, h.to) /\ h.to # p
  <2> SUFFICES ASSUME NEW h \in new
               PROVE  ~Reached(m, h.to) /\ h.to # p
    OBVIOUS
  <2>1. h.to \in Nodes \ {n} /\ h.net \in on[h.to] /\ Before(h.net, m) = n
    BY <1>5
  <2>2. h.to # p
    BY <1>3, <2>1, BeforeFirst
  <2>3. ~Reached(m, h.to)
    BY <1>1, <1>3, <1>4, <2>1 DEF Spreads
  <2> QED  BY <2>2, <2>3
<1>7. \A h, k \in new : h.to = k.to => h = k
  <2> SUFFICES ASSUME NEW h \in new, NEW k \in new, h.to = k.to
               PROVE  h = k
    OBVIOUS
  <2>1. h.net = k.net
    BY <1>1, <1>5, OneNetwork
  <2> HIDE DEF new
  <2> QED  BY <1>5, <2>1
<1> HIDE DEF new, n, s, p
<1>8. \A h \in new, k \in Carrying(m) : h.to # k.to
  BY <1>6 DEF Reached
<1>9. Once(m)'
  <2>1. \A h \in Carrying(m)' : wire'[h] = 1
    BY <1>1, <1>8
  <2>2. \A h \in Carrying(m)' : given'[m][h.to] = <<>>
    <3>1. ASSUME NEW h \in new PROVE given'[m][h.to] = <<>>
      BY <1>1, <1>5, <1>6 DEF Reached
    <3>2. ASSUME NEW h \in Carrying(m) \ {g} PROVE given'[m][h.to] = <<>>
      <4>1. h.to # n /\ given[m][h.to] = <<>>
        BY <1>3 DEF Once, n
      <4>2. h.to \in Nodes
        BY DEF IInv, TypeOK, Carrying, Datagrams
      <4> QED  BY <1>1, <4>1, <4>2
    <3> QED  BY <1>1, <3>1, <3>2
  <2>3. \A h, k \in Carrying(m)' : h.to = k.to => h = k
    BY <1>1, <1>3, <1>7, <1>8 DEF Once
  <2>4. \A x \in Nodes :
            given'[m][x] # <<>> => Len(given'[m][x]) = 1 /\ x \in Addressees(m)
    BY <1>1, <1>3, <1>4 DEF Once
  <2>5. phase'[m] = "sent"
    BY <1>1, <1>3
  <2> QED  BY <2>1, <2>2, <2>3, <2>4, <2>5 DEF Once, Addressees
<1>10. \A h \in Carrying(m)' :
           h.npdu.dadr = Everywhere /\ h.to # p /\ h.from = Before(h.net, m)
  BY <1>1, <1>3, <1>5, <1>6 DEF Spreads, p
<1>11. ASSUME NEW x \in Nodes, Reached(m, x)', NEW t \in on[x],
              Before(t, m) \notin {x, None, p}
       PROVE  given'[m][Before(t, m)] # <<>>
  <2>1. CASE Reached(m, x)
    <3>1. given[m][Before(t, m)] # <<>>
      BY <1>3, <1>11, <2>1 DEF Spreads, p
    <3>2. Before(t, m) \in Nodes
      <4>1. t \in Nets /\ local[p] \in Nets
        BY <1>4, RoutingAssumption
      <4>2. Way[t][local[p]] \in Nodes \cup {None}
        BY <4>1, RoutingAssumption
      <4> QED  BY <1>11, <4>2 DEF Before, p
    <3> QED  BY <1>1, <1>2, <3>1, <3>2
  <2>2. CASE ~Reached(m, x)
    <3>1. PICK h \in new : h.to = x
      BY <1>1, <1>3, <1>11, <2>2 DEF Reached, n
    <3>2. h.net \in on[x] /\ Before(h.net, m) = n /\ n \notin {x, None}
      BY <1>1, <1>4, <1>5, <3>1
    <3>3. t = h.net
      BY <1>11, <3>2, BeforeLemma
    <3> QED  BY <1>2, <3>2, <3>3
  <2> QED  BY <2>1, <2>2
<1>12. Spreads(m)'
  BY <1>10, <1>11 DEF Spreads, Before, p
<1> QED  BY <1>9, <1>12 DEF ApartFor

\* On its network a message goes no further.
LEMMA Arrives ==
    ASSUME IInv, NEW m \in Messages, ApartFor(m), Target[m] # Everywhere,
           NEW g, NEW sent, Handles(g, m, sent), Arriving(m, g),
           \A h \in sent : ~Carries(h, m)
    PROVE  ApartFor(m)'
<1> DEFINE n == g.to
<1>1. /\ n \in Nodes /\ g.net \in on[n] /\ given[m][n] = <<>> /\ phase[m] = "sent"
      /\ \A x \in Nodes \ {n} : given'[m][x] = given[m][x]
      /\ given'[m][n] # <<>> <=> ProcessLocally(n, g.net, g.npdu)
      /\ given'[m][n] # <<>> => Len(given'[m][n]) = 1
      /\ Carrying(m)' = Carrying(m) \ {g}
      /\ \A h \in Carrying(m)' : wire'[h] = 1
  <2>1. {h \in sent : Carries(h, m)} = {} /\ \A h \in Carrying(m) : h \notin sent
    BY DEF Carrying
  <2> HIDE DEF n
  <2> QED  BY <2>1, HandlesLemma DEF n
<1>2. g \in Carrying(m) /\ phase' = phase /\ Once(m) /\ Goes(m)
  BY DEF Handles, ApartFor
<1>3. ProcessLocally(n, g.net, g.npdu) => n \in Addressees(m)
  <2> SUFFICES ASSUME ProcessLocally(n, g.net, g.npdu)
               PROVE  n \in Addressees(m)
    OBVIOUS
  <2>1. g.net = local[n]
    BY <1>1, RoutingAssumption DEF Arriving, ProcessLocally, Everywhere
  <2>2. Target[m] \in Nets \X (Nodes \cup {All})
    BY RoutingAssumption
  <2>3. Target[m] = <<Target[m][1], Target[m][2]>>
    BY <2>2
  <2>4. Target[m][1] = local[n] /\ Target[m][2] \in {n, All}
    BY <2>1 DEF Arriving
  <2>5. Target[m] = <<local[n], All>> \/ Target[m] = <<local[n], n>>
    BY <2>3, <2>4
  <2> QED  BY <1>1, <2>5 DEF Arriving, Addressees
<1>4. \A h \in Carrying(m)' : h.to \in Nodes \ {n} /\ given'[m][h.to] = <<>>
  BY <1>1, <1>2 DEF IInv, TypeOK, Carrying, Datagrams, Once
<1>5. Once(m)'
  <2>1. \A h, k \in Carrying(m)' : h.to = k.to => h = k
    BY <1>1, <1>2 DEF Once
  <2>2. \A x \in Nodes :
            given'[m][x] # <<>> => Len(given'[m][x]) = 1 /\ x \in Addressees(m)
    BY <1>1, <1>2, <1>3 DEF Once
  <2> QED  BY <1>1, <1>2, <1>4, <2>1, <2>2 DEF Once, Addressees
<1>6. \A h \in Carrying(m)' : Arriving(m, h)
  BY <1>1, <1>2 DEF Goes, Underway, Arriving
<1>7. Goes(m)'
  BY <1>6 DEF Goes, Arriving
<1> QED  BY <1>5, <1>7 DEF ApartFor

\* A message under way is put on its network, or goes on to one router.
LEMMA GoesOn ==
    ASSUME IInv, NEW m \in Messages, ApartFor(m), Target[m] # Everywhere,
           NEW g, NEW sent, Handles(g, m, sent), Underway(m, g),
           NEW t, NEW x \in Nodes \cup {All}, NEW npdu,
           \/ t = Target[m][1] /\ x = Target[m][2] /\ npdu.dadr = None
           \/ Target[m][1] \notin on[g.to] /\ x \in Nodes /\ npdu.dadr = Target[m],
           \A h \in sent : Carries(h, m) => h \in Transmit(g.to, t, x, npdu)
    PROVE  ApartFor(m)'
<1> DEFINE n == g.to  d == Target[m][1]
           new == {h \in sent : Carries(h, m)}
<1>1. /\ n \in Nodes /\ phase[m] = "sent" /\ given[m][n] = <<>>
      /\ \A y \in Nodes \ {n} : given'[m][y] = <<>>
      /\ given'[m][n] # <<>> <=> ProcessLocally(n, g.net, g.npdu)
      /\ given'[m][n] # <<>> => Len(given'[m][n]) = 1
      /\ Carrying(m)' = new /\ \A h \in new : wire'[h] = 1
  <2>1. Carrying(m) \ {g} = {} /\ \A y \in Nodes : given[m][y] = <<>>
    BY DEF Underway
  <2> HIDE DEF n
  <2> QED  BY <2>1, HandlesLemma DEF n
<1>2. g.npdu.dadr = Target[m] /\ d \notin on[Sender[m]] /\ phase' = phase
  BY DEF Handles, Underway
<1>3. ProcessLocally(n, g.net, g.npdu) => n \in Addressees(m) /\ d \in on[n]
  <2> SUFFICES ASSUME ProcessLocally(n, g.net, g.npdu)
               PROVE  n \in Addressees(m) /\ d \in on[n]
    OBVIOUS
  <2>1. Target[m] \in {<<local[n], All>>, <<local[n], n>>}
    <3>1. Target[m] # None
      BY RoutingAssumption
    <3> QED  BY <1>2, <3>1 DEF ProcessLocally
  <2>2. d = local[n] /\ local[n] \in on[n]
    BY <1>1, <2>1, RoutingAssumption
  <2> QED  BY <1>1, <1>2, <2>1, <2>2 DEF Addressees
<1>4. \A h \in new : /\ h.to \in Nodes \ {n} /\ x \in {h.to, All}
                     /\ h = [net |-> t, from |-> n, to |-> h.to, npdu |-> npdu]
  BY DEF Transmit
<1> HIDE DEF new
<1>5. Once(m)'
  <2>1. \A h \in Carrying(m)' : wire'[h] = 1 /\ given'[m][h.to] = <<>>
    BY <1>1, <1>4
  <2>2. \A h, k \in Carrying(m)' : h.to = k.to => h = k
    BY <1>1, <1>4
  <2>3. \A y \in Nodes :
            given'[m][y] # <<>> => Len(given'[m][y]) = 1 /\ y \in Addressees(m)
    BY <1>1, <1>3
  <2> QED  BY <1>1, <1>2, <2>1, <2>2, <2>3 DEF Once, Addressees
<1>6. CASE t = d /\ x = Target[m][2] /\ npdu.dadr = None
  <2>1. ASSUME NEW h \in Carrying(m)'
        PROVE  Arriving(m, h)
    <3>1. /\ h.to \in Nodes \ {n} /\ x \in {h.to, All}
          /\ h.net = d /\ h.npdu.dadr = None
      BY <1>1, <1>4, <1>6
    <3>2. d \in on[h.to]
      BY <1>1, <1>6, <2>1 DEF new, Transmit
    <3> QED  BY <1>2, <1>6, <3>1, <3>2 DEF Arriving
  <2>2. Goes(m)'
    BY <2>1 DEF Goes, Arriving
  <2> QED  BY <1>5, <2>2 DEF ApartFor
<1>7. CASE d \notin on[n] /\ x \in Nodes /\ npdu.dadr = Target[m]
  <2>1. \A y \in Nodes : given'[m][y] = <<>>
    BY <1>1, <1>3, <1>7
  <2>2. All \notin Nodes
    BY RoutingAssumption
  <2>3. ASSUME NEW h \in Carrying(m)'
        PROVE  Underway(m, h)'
    <3>1. \A k \in new : k = [net |-> t, from |-> n, to |-> x, npdu |-> npdu]
      BY <1>4, <1>7, <2>2
    <3>2. Carrying(m)' = {h} /\ h.npdu.dadr = Target[m]
      BY <1>1, <1>7, <3>1
    <3> QED  BY <1>2, <2>1, <3>2 DEF Underway
  <2>4. Goes(m)'
    BY <2>3 DEF Goes
  <2> QED  BY <1>5, <2>4 DEF ApartFor
<1> QED  BY <1>6, <1>7

-----------------------------------------------------------------------------
\* What a device sends on of a datagram, having learned where it comes from.
SendsOn(g, sent) ==
    /\ path' = [path EXCEPT ![g.to] = SourceLearned(g.to, g.net, g.from, g.npdu)]
    /\ \A n \in Nodes : \A s \in on[n] : \A d \in Nets : path'[n][s][d] \in Nodes \cup {None}
    /\ sent = Forwarded(g.to, g.net, g.from, g.npdu,
                        SourceLearned(g.to, g.net, g.from, g.npdu))

\* To all on the other networks; to those it is for or one router.
ToOthers(g, sent) ==
    \E npdu : /\ npdu.dadr = Everywhere
              /\ \A h \in sent : \E t \in on[g.to] \ {g.net} : h \in Transmit(g.to, t, All, npdu)

OneWay(m, g, sent) ==
    \E t, npdu : \E x \in Nodes \cup {All} :
        /\ \/ t = Target[m][1] /\ x = Target[m][2] /\ npdu.dadr = None
           \/ Target[m][1] \notin on[g.to] /\ x \in Nodes /\ npdu.dadr = Target[m]
        /\ \A h \in sent : Carries(h, m) => h \in Transmit(g.to, t, x, npdu)

LEMMA ForwardedLemma ==
    ASSUME IInv, NEW m \in Messages, ApartFor(m), NEW g \in Carrying(m),
           NEW sent, SendsOn(g, sent)
    PROVE  /\ g.npdu.dadr = None => sent = {}
           /\ Target[m] = Everywhere => ToOthers(g, sent)
           /\ Target[m] # Everywhere /\ Underway(m, g) => OneWay(m, g, sent)
<1> DEFINE n == g.to  s == g.net  f == g.from  npdu == g.npdu
           paths == SourceLearned(n, s, f, npdu)
           next == [npdu EXCEPT !.sadr = Origin(s, f, npdu), !.hops = npdu.hops - 1]
           d == Target[m][1]
           way == FirstWay(paths, n, d)
<1>1. npdu \in Apdus /\ n \in Nodes
  BY DEF IInv, TypeOK, Carrying, Carries, Datagrams, WhoIses, IAms
<1>2. next.dadr = npdu.dadr /\ [next EXCEPT !.dadr = None].dadr = None
  BY <1>1 DEF Apdus
<1> HIDE DEF next
<1>3. npdu.dadr = None => sent = {}
  BY DEF SendsOn, Forwarded, ForwardMessage
<1>4. ASSUME Target[m] = Everywhere
      PROVE  ToOthers(g, sent)
  <2>1. npdu.dadr = Everywhere
    BY <1>4 DEF ApartFor, Spreads
  <2>2. sent \subseteq OnAll(n, on[n] \ {s}, next)
    BY <2>1 DEF SendsOn, Forwarded, OtherAdapters, next
  <2>3. \A h \in sent : \E t \in on[n] \ {s} : h \in Transmit(n, t, All, next)
    BY <2>2 DEF OnAll
  <2> QED  BY <1>2, <2>1, <2>3 DEF ToOthers
<1>5. ASSUME Target[m] # Everywhere, Underway(m, g)
      PROVE  OneWay(m, g, sent)
  <2>1. /\ npdu.dadr = Target[m] /\ Target[m] # None /\ d \in Nets
        /\ Target[m][2] \in Nodes \cup {All}
    BY <1>5, RoutingAssumption DEF Underway
  <2>2. CASE ~ForwardMessage(n, npdu) \/ (d \notin on[n] /\ MustLook(n, npdu, paths))
    <3>1. sent = {} \/ sent = Question(n, d)
      BY <1>5, <2>1, <2>2 DEF SendsOn, Forwarded
    <3>2. \A h \in sent : ~Carries(h, m)
      BY <3>1, QuestionCarries
    <3> QED  BY <1>2, <2>1, <3>2 DEF OneWay
  <2>3. CASE ForwardMessage(n, npdu) /\ d \in on[n]
    <3>1. sent = Transmit(n, d, Target[m][2], [next EXCEPT !.dadr = None])
      BY <1>5, <2>1, <2>3 DEF SendsOn, Forwarded, next
    <3> QED  BY <1>2, <2>1, <3>1 DEF OneWay
  <2>4. CASE ForwardMessage(n, npdu) /\ d \notin on[n] /\ ~MustLook(n, npdu, paths)
    <3>1. sent \subseteq Transmit(n, way, paths[way][d], next)
      BY <1>5, <2>1, <2>4 DEF SendsOn, Forwarded, next
    <3>2. PICK w \in on[n], r \in {paths[way][d]} : w = way /\ r # None
      BY <1>5, <2>1, <2>4, FirstWayLemma DEF MustLook
    <3>3. r \in Nodes
      <4>1. path'[n] = paths
        BY <1>1 DEF SendsOn, IInv, TypeOK
      <4> QED  BY <1>1, <2>1, <3>2, <4>1 DEF SendsOn
    <3>4. sent \subseteq Transmit(n, w, r, next)
      BY <3>1, <3>2
    <3> HIDE DEF way, paths
    <3> QED  BY <1>2, <2>1, <2>4, <3>3, <3>4 DEF OneWay
  <2> QED  BY <2>2, <2>3, <2>4
<1> QED  BY <1>3, <1>4, <1>5

LEMMA ForwardedCarries ==
    ASSUME IInv, NEW g \in DOMAIN wire, g.npdu.type = "apdu", NEW paths,
           NEW h \in Forwarded(g.to, g.net, g.from, g.npdu, paths),
           NEW m, m # g.npdu.msg
    PROVE  ~Carries(h, m)
<1> DEFINE n == g.to  npdu == g.npdu
           next == [npdu EXCEPT !.sadr = Origin(g.net, g.from, npdu), !.hops = npdu.hops - 1]
<1>1. npdu \in Apdus
  BY DEF IInv, TypeOK, Datagrams, WhoIses, IAms
<1>2. next.msg = npdu.msg /\ [next EXCEPT !.dadr = None].msg = npdu.msg
  BY <1>1 DEF Apdus
<1>3. CASE h \in Question(n, npdu.dadr[1])
  BY <1>3, QuestionCarries
<1>4. CASE \E t, x : h \in Transmit(n, t, x, next) \/ h \in Transmit(n, t, x, [next EXCEPT !.dadr = None])
  <2>1. h.npdu = next \/ h.npdu = [next EXCEPT !.dadr = None]
    BY <1>4 DEF Transmit
  <2> HIDE DEF next
  <2> QED  BY <1>2, <2>1 DEF Carries
<1> QED  BY <1>3, <1>4 DEF Forwarded, OnAll

LEMMA ReceiveApduApart ==
    ASSUME IInv, IInv', Apart, NEW g \in DOMAIN wire, ReceiveApdu(g)
    PROVE  Apart'
<1> DEFINE n == g.to  s == g.net  npdu == g.npdu
           paths == SourceLearned(n, s, g.from, npdu)
           forwarded == Forwarded(n, s, g.from, npdu, paths)
           accepted == Accepted(n, s, npdu)
           sent == IF accepted THEN forwarded ELSE {}
<1>1. /\ path' = [path EXCEPT ![n] = paths] /\ npdu.type = "apdu"
      /\ Exchange({g}, sent) /\ phase' = phase
      /\ given' = IF accepted /\ ProcessLocally(n, s, npdu)
                  THEN [given EXCEPT ![npdu.msg][n] = Append(@, Origin(s, g.from, npdu))]
                  ELSE given
  BY DEF ReceiveApdu
<1> SUFFICES ASSUME NEW m \in Messages
             PROVE  ApartFor(m)' /\ LooksBeyond(m)'
  BY DEF Apart
<1>2. ApartFor(m) /\ LooksBeyond(m)
  BY DEF Apart
<1>3. LooksBeyond(m)'
  BY <1>1, <1>2 DEF LooksBeyond
<1>4. n \in Nodes /\ npdu.msg \in Messages
  BY <1>1 DEF IInv, TypeOK, Datagrams, Apdus, WhoIses, IAms
<1>5. CASE ~accepted
  BY <1>1, <1>2, <1>3, <1>5, OthersKeep
<1>6. CASE accepted /\ npdu.msg # m
  <2>1. given'[m] = given[m]
    BY <1>1, <1>6
  <2>2. \A h \in forwarded : ~Carries(h, m)
    <3> SUFFICES ASSUME NEW h \in forwarded
                 PROVE  ~Carries(h, m)
      OBVIOUS
    <3> QED  BY <1>1, <1>6, ForwardedCarries
  <2>3. Exchange({g}, forwarded)
    BY <1>1, <1>6
  <2> HIDE DEF forwarded, sent
  <2> QED  BY <1>1, <1>2, <1>3, <2>1, <2>2, <2>3, OthersKeep
<1>7. CASE accepted /\ npdu.msg = m
  <2>1. g \in Carrying(m)
    BY <1>1, <1>7 DEF Carrying, Carries
  <2>2. Handles(g, m, forwarded)
    BY <1>1, <1>7, <2>1 DEF Handles
  <2>3. \A x \in Nodes : \A t \in on[x] : \A d \in Nets : path'[x][t][d] \in Nodes \cup {None}
    BY RoutingAssumption DEF IInv, TypeOK
  <2>4. SendsOn(g, forwarded)
    BY <1>1, <2>3 DEF SendsOn
  <2> HIDE DEF forwarded, sent, paths
  <2>5. CASE Target[m] = Everywhere
    <3>1. PICK e : /\ e.dadr = Everywhere
                   /\ \A h \in forwarded : \E t \in on[n] \ {s} : h \in Transmit(n, t, All, e)
      BY <1>2, <2>1, <2>4, <2>5, ForwardedLemma DEF ToOthers
    <3>2. ApartFor(m)'
      BY <1>2, <2>2, <2>5, <3>1, SpreadsOn
    <3> QED  BY <1>3, <3>2
  <2>6. CASE Target[m] # Everywhere /\ Underway(m, g)
    <3>1. PICK t, e : \E x \in Nodes \cup {All} :
              /\ \/ t = Target[m][1] /\ x = Target[m][2] /\ e.dadr = None
                 \/ Target[m][1] \notin on[n] /\ x \in Nodes /\ e.dadr = Target[m]
              /\ \A h \in forwarded : Carries(h, m) => h \in Transmit(n, t, x, e)
      BY <1>2, <2>1, <2>4, <2>6, ForwardedLemma DEF OneWay
    <3>2. ApartFor(m)'
      BY <1>2, <2>2, <2>6, <3>1, GoesOn
    <3> QED  BY <1>3, <3>2
  <2>7. CASE Target[m] # Everywhere /\ ~Underway(m, g)
    <3>1. Arriving(m, g)
      BY <1>2, <2>1, <2>7 DEF ApartFor, Goes
    <3>2. \A h \in forwarded : ~Carries(h, m)
      BY <1>2, <2>1, <2>4, <3>1, ForwardedLemma DEF Arriving
    <3>3. ApartFor(m)'
      BY <1>2, <2>2, <2>7, <3>1, <3>2, Arrives
    <3> QED  BY <1>3, <3>3
  <2> QED  BY <2>5, <2>6, <2>7
<1> QED  BY <1>5, <1>6, <1>7

-----------------------------------------------------------------------------
LEMMA InitApart == Init => Apart
<1> SUFFICES ASSUME Init, NEW m \in Messages
             PROVE  ApartFor(m) /\ LooksBeyond(m)
  BY DEF Apart
<1>1. Carrying(m) = {}
  BY DEF Init, EmptyBag, SetToBag, Carrying
<1>2. \A n \in Nodes : given[m][n] = <<>>
  BY DEF Init
<1>3. Once(m) /\ Spreads(m) /\ Goes(m)
  BY <1>1, <1>2 DEF Once, Spreads, Goes, Reached
<1>4. LooksBeyond(m)
  BY DEF Init, LooksBeyond
<1> QED  BY <1>3, <1>4 DEF ApartFor

LEMMA NextApart == IInv /\ IInv' /\ Apart /\ [Next]_vars => Apart'
<1> SUFFICES ASSUME IInv, IInv', Apart, [Next]_vars PROVE Apart'
  OBVIOUS
<1>1. CASE UNCHANGED vars
  <2>1. wire' = wire /\ given' = given /\ phase' = phase
    BY <1>1 DEF vars
  <2> SUFFICES ASSUME NEW m \in Messages
               PROVE  ApartFor(m)' /\ LooksBeyond(m)'
    BY DEF Apart
  <2>2. ApartFor(m) /\ LooksBeyond(m)
    BY DEF Apart
  <2>3. Carrying(m)' = Carrying(m) /\ \A g \in Carrying(m) : wire'[g] = 1
    BY <2>1, <2>2 DEF Carrying, ApartFor, Once
  <2>4. ApartFor(m)'
    BY <2>1, <2>2, <2>3, ApartKept
  <2> QED  BY <2>1, <2>2, <2>4 DEF LooksBeyond
<1>2. CASE \E m \in Messages :
              SendToAll(m) \/ SendDirectly(m) \/ SendToRouter(m) \/ LookForRouter(m) \/ TimeOut(m)
  BY <1>2, SendApart, TimeOutApart DEF IInv
<1>3. CASE \E g \in BagToSet(wire) :
              ReceiveApdu(g) \/ ReceiveWhoIs(g) \/ ReceiveIAm(g) \/ Lose(g)
  BY <1>3, ReceiveApduApart, ReceiveWhoIsApart, ReceiveIAmApart, LoseApart DEF BagToSet
<1>4. CASE \E n \in Nodes : AnnounceAll(n) \/ AskForAll(n) \/ Restart(n)
  BY <1>4, CallsApart, RestartApart DEF IInv
<1> QED  BY <1>1, <1>2, <1>3, <1>4 DEF Next

LEMMA ApartInvariant == Spec => []Apart
BY InitApart, NextApart, Invariant, PTL DEF Spec

(***************************************************************************)
(* In any tree of networks, over however many routers a message comes, it  *)
(* is given to each device that it is for at most once and to no other.    *)
(***************************************************************************)
THEOREM GivenAtMostOnce == Spec => []DeliveredOnce
<1>1. IInv /\ Apart => DeliveredOnce
  <2> SUFFICES ASSUME IInv, Apart, NEW m \in Messages, NEW n \in Nodes
               PROVE  Len(given[m][n]) <= (IF n \in Addressees(m) THEN 1 ELSE 0)
    BY DEF DeliveredOnce
  <2>1. given[m][n] # <<>> => Len(given[m][n]) = 1 /\ n \in Addressees(m)
    BY DEF Apart, ApartFor, Once
  <2>2. CASE given[m][n] = <<>>
    <3>1. Len(given[m][n]) = 0
      BY <2>2
    <3> QED  BY <3>1
  <2>3. CASE given[m][n] # <<>>
    <3>1. Len(given[m][n]) = 1 /\ n \in Addressees(m)
      BY <2>1, <2>3
    <3> QED  BY <3>1
  <2> QED  BY <2>2, <2>3
<1> QED  BY <1>1, Invariant, ApartInvariant, PTL

-----------------------------------------------------------------------------
(* GetsThrough: what is still to come of a message that is not lost.       *)

\* A message may still pass as many routers as there are before it.
Hops(m) ==
    \A g \in Carrying(m) :
        IF Target[m] = Everywhere
        THEN g.npdu.hops + Distance[g.net][local[Sender[m]]] >= HopCount
        ELSE g.npdu.dadr # None => g.npdu.hops >= Distance[g.net][Target[m][1]]

\* What the device before another one has been given is there or on its way.
Covers(m) ==
    Target[m] = Everywhere /\ phase[m] = "sent" /\ lost = 0 =>
        \A n \in Nodes \ {Sender[m]} : \A s \in on[n] :
            LET f == Before(s, m)
            IN  f \notin {n, None} /\ (f = Sender[m] \/ given[m][f] # <<>>) => Reached(m, n)

\* A message for a network is under way to it, or all it is for have it or will.
Heads(m) ==
    Target[m] # Everywhere /\ phase[m] = "sent" /\ lost = 0 /\ m \notin dropped =>
        \/ \E g \in Carrying(m) : Underway(m, g)
        \/ \A n \in Addressees(m) : Reached(m, n)

\* A question has come to the router that leads on, from the side of the device
\* that asks; or the answer has come from there.
Seeks(m, g) ==
    LET s == g.net
        d == Target[m][1]
    IN  /\ Way[s][d] \notin {None, Before(s, m)}
        /\ \/ /\ g.npdu.type = "who" /\ g.npdu.dnet = d
              /\ g.to = Way[s][d] /\ g.from = Before(s, m)
           \/ /\ g.npdu.type = "iam" /\ d \in g.npdu.dnets
              /\ g.from = Way[s][d] /\ g.to = Before(s, m)

Sought(m) ==
    phase[m] = "looking" /\ lost = 0 /\ HasWay(m) => \E g \in DOMAIN wire : Seeks(m, g)

GivenUp(m) == phase[m] = "unknown" /\ lost = 0 => m \in late \/ ~HasWay(m)

ThroughFor(m) == Hops(m) /\ Covers(m) /\ Heads(m) /\ Sought(m) /\ GivenUp(m)

Through == IsABag(wire) /\ lost \in Nat /\ \A m \in Messages : ThroughFor(m)

-----------------------------------------------------------------------------
\* A router that leads to a network is one device nearer.
LEMMA WayLemma ==
    ASSUME NEW s \in Nets, NEW d \in Nets, Way[s][d] # None
    PROVE  /\ Way[s][d] \in Nodes /\ s \in on[Way[s][d]] /\ s # d
           /\ \E t \in on[Way[s][d]] \ {s} :
                  /\ Distance[t][d] < Distance[s][d]
                  /\ t = d \/ Way[t][d] \notin {None, Way[s][d]}
           /\ Distance[s][d] \in 1..HopCount
<1>1. Way[s][d] \in Nodes /\ on[Way[s][d]] \subseteq Nets /\ s # d
  BY RoutingAssumption, TreeAssumption
<1>2. s \in on[Way[s][d]]
  BY ReachAssumption
<1>3. PICK t \in on[Way[s][d]] :
          /\ Distance[t][d] < Distance[s][d]
          /\ t = d \/ Way[t][d] \notin {None, Way[s][d]}
  BY ReachAssumption
<1>4. Distance[s][d] \in 0..HopCount /\ Distance[t][d] \in 0..HopCount
  BY <1>1, <1>3, ReachAssumption
<1>5. t # s /\ Distance[s][d] \in 1..HopCount
  BY <1>3, <1>4, RoutingAssumption
<1> QED  BY <1>1, <1>2, <1>3, <1>5

\* Beyond its own networks it leads over one of them.
LEMMA OnwardLemma ==
    ASSUME NEW n \in Nodes, NEW s \in on[n], NEW d \in Nets, d \notin on[n], Way[s][d] = n
    PROVE  \E t \in on[n] \ {s} :
               /\ Distance[t][d] < Distance[s][d] /\ Way[t][d] \in Nodes \ {n}
               /\ t \in on[Way[t][d]]
               /\ \A u \in on[n] : Way[u][d] \notin {None, n} => u = t
<1>1. s \in Nets /\ on[n] \subseteq Nets /\ n # None
  BY RoutingAssumption
<1>2. PICK t \in on[n] \ {s} :
          Distance[t][d] < Distance[s][d] /\ Way[t][d] \notin {None, n}
  BY <1>1, WayLemma
<1>3. Way[t][d] \in Nodes \ {n} /\ t \in on[Way[t][d]]
  BY <1>1, <1>2, WayLemma
<1>4. \A u \in on[n] : Way[u][d] \notin {None, n} => u = t
  BY <1>2, TreeLemma
<1> QED  BY <1>2, <1>3, <1>4

LEMMA RouterLemma ==
    ASSUME NEW n \in Nodes, NEW s \in on[n], NEW t \in on[n], s # t
    PROVE  IsRouter(n)
<1>1. IsFiniteSet(on[n])
  <2>1. on[n] \subseteq Nets
    BY RoutingAssumption
  <2> QED  BY <2>1, ReachAssumption, FS_Subset
<1>2. Cardinality(on[n]) \in Nat
  BY <1>1, FS_CardinalityType
<1>3. Cardinality(on[n]) # 0
  BY <1>1, FS_EmptySet
<1>4. Cardinality(on[n]) # 1
  BY <1>1, FS_Singleton
<1> QED  BY <1>2, <1>3, <1>4 DEF IsRouter

\* No NPDU comes to a device from one of its own networks.
LEMMA NoSpoof ==
    ASSUME IInv, NEW g \in DOMAIN wire, g.npdu.type # "iam"
    PROVE  ~Spoofs(g.to, g.npdu)
<1> SUFFICES ASSUME Spoofs(g.to, g.npdu) PROVE FALSE
  OBVIOUS
<1> DEFINE d == g.npdu.sadr[1]
<1>1. /\ g.npdu.sadr # None /\ d \in on[g.to] /\ g.to \in Nodes
      /\ g.from \in Nodes /\ g.from # g.to /\ g.net \in on[g.to]
  BY DEF Spoofs, IInv, TypeOK, Sound, Datagrams
<1>2. d \in Nets
  BY <1>1, RoutingAssumption
<1>3. Leads(g.from, g.net, d)
  BY <1>1, <1>2 DEF IInv, Sound, Claims
<1>4. Way[g.net][d] = g.from
  BY <1>3 DEF Leads
<1>5. Way[d][d] = None /\ g.from # None
  BY <1>1, <1>2, RoutingAssumption, TreeAssumption
<1> HIDE DEF d
<1>6. g.net # d
  BY <1>4, <1>5
<1>7. Way[g.net][d] = g.to
  BY <1>1, <1>6, TreeAssumption
<1> QED  BY <1>1, <1>4, <1>7

\* A device that leads to a network has no path to it from there.
LEMMA NoPathBack ==
    ASSUME IInv, NEW n \in Nodes, NEW s \in on[n], NEW d \in Nets, Way[s][d] = n
    PROVE  path[n][s][d] = None
BY DEF IInv, PathsHold, PathsLeadAway, Leads

LEMMA NoPathBackNext ==
    ASSUME IInv', NEW n \in Nodes, NEW s \in on[n], NEW d \in Nets, Way[s][d] = n
    PROVE  path'[n][s][d] = None
BY DEF IInv, PathsHold, PathsLeadAway, Leads

\* The device a message comes from is before another on its way to the next.
LEMMA BeforeWay ==
    ASSUME NEW m \in Messages, NEW s \in Nets, Before(s, m) # None
    PROVE  Before(s, m) \in Nodes /\ s \in on[Before(s, m)]
<1>1. Sender[m] \in Nodes /\ local[Sender[m]] \in on[Sender[m]] /\ local[Sender[m]] \in Nets
  BY RoutingAssumption
<1> QED  BY <1>1, WayLemma DEF Before

\* A device that is not the sender has another before it on one of its networks.
LEMMA BeforeOnward ==
    ASSUME NEW m \in Messages, NEW s \in Nets, NEW n \in Nodes \ {Sender[m]},
           Before(s, m) = n
    PROVE  LET d == local[Sender[m]]
           IN  \E t \in on[n] \ {s} :
                   /\ Before(t, m) \in Nodes \ {n} /\ t \in on[Before(t, m)]
                   /\ Distance[t][d] < Distance[s][d]
<1> DEFINE d == local[Sender[m]]
<1>1. d \in Nets /\ n # None /\ Sender[m] \in Nodes /\ on[n] \subseteq Nets
  BY RoutingAssumption
<1>2. s # d /\ Way[s][d] = n
  BY DEF Before
<1>3. PICK t \in on[n] \ {s} :
          /\ Distance[t][d] < Distance[s][d]
          /\ t = d \/ Way[t][d] \notin {None, n}
  BY <1>1, <1>2, WayLemma
<1>4. Before(t, m) \notin {None, n}
  BY <1>1, <1>3, RoutingAssumption DEF Before
<1> QED  BY <1>1, <1>3, <1>4, BeforeWay

-----------------------------------------------------------------------------
LEMMA ExchangeBag ==
    ASSUME NEW taken, NEW sent, IsABag(wire), Exchange(taken, sent)
    PROVE  /\ IsABag(wire')
           /\ DOMAIN wire \ taken \subseteq DOMAIN wire'
           /\ sent \subseteq DOMAIN wire'
<1> DEFINE P == {k \in Nat : k > 0}
           D == wire (-) SetToBag(taken)
<1>1. wire \in [DOMAIN wire -> P]
  BY DEF IsABag
<1>2. DOMAIN D \subseteq DOMAIN wire /\ DOMAIN wire \ taken \subseteq DOMAIN D
  BY <1>1 DEF (-), SetToBag
<1>3. \A e \in DOMAIN D : D[e] \in P
  BY <1>1 DEF (-), SetToBag
<1>4. wire' = D (+) SetToBag(sent)
  BY DEF Exchange
<1> HIDE DEF D
<1>5. DOMAIN wire' = DOMAIN D \cup sent
  BY <1>4 DEF (+), SetToBag
<1>6. wire' = [e \in DOMAIN D \cup sent |->
                   (IF e \in DOMAIN D THEN D[e] ELSE 0) + (IF e \in sent THEN 1 ELSE 0)]
  BY <1>4 DEF (+), SetToBag
<1>7. \A e \in DOMAIN wire' : wire'[e] \in P
  BY <1>3, <1>5, <1>6
<1>8. IsABag(wire')
  BY <1>6, <1>7 DEF IsABag
<1> QED  BY <1>2, <1>5, <1>8

\* Nothing happens to a message but that it may be lost.
LEMMA MessageKept ==
    ASSUME NEW m \in Messages, Hops(m), Covers(m), Heads(m),
           Carrying(m)' \subseteq Carrying(m),
           lost' = 0 => lost = 0 /\ Carrying(m)' = Carrying(m),
           given'[m] = given[m], dropped \subseteq dropped',
           phase'[m] = "sent" => phase[m] = "sent"
    PROVE  Hops(m)' /\ Covers(m)' /\ Heads(m)'
<1>1. Hops(m)'
  BY DEF Hops
<1>2. lost' = 0 => \A n \in Nodes : Reached(m, n) => Reached(m, n)'
  BY DEF Reached
<1>3. Covers(m)'
  BY <1>2 DEF Covers, Before
<1>4. lost' = 0 => \A g \in Carrying(m) : Underway(m, g) => Underway(m, g)'
  BY DEF Underway
<1>5. Heads(m)'
  BY <1>2, <1>4 DEF Heads, Addressees
<1> QED  BY <1>1, <1>3, <1>5

LEMMA MessageUntouched ==
    ASSUME NEW m \in Messages, ApartFor(m), Hops(m), Covers(m), Heads(m),
           NEW taken, NEW sent, Exchange(taken, sent),
           \A h \in sent : ~Carries(h, m),
           lost' = 0 => lost = 0 /\ \A h \in taken : ~Carries(h, m),
           given'[m] = given[m], dropped \subseteq dropped',
           phase'[m] = "sent" => phase[m] = "sent"
    PROVE  Hops(m)' /\ Covers(m)' /\ Heads(m)'
<1>1. \A g \in Carrying(m) : wire[g] = 1
  BY DEF ApartFor, Once
<1>2. Carrying(m)' = (Carrying(m) \ taken) \cup {h \in sent : Carries(h, m)}
  BY <1>1, CarryingLemma
<1>3. {h \in sent : Carries(h, m)} = {} /\ \A h \in Carrying(m) : Carries(h, m)
  BY DEF Carrying
<1>4. Carrying(m)' \subseteq Carrying(m) /\ (lost' = 0 => Carrying(m)' = Carrying(m))
  BY <1>2, <1>3
<1> QED  BY <1>4, MessageKept

\* The search for a router goes on, or has been given up before.
LEMMA SearchKept ==
    ASSUME NEW m \in Messages, Sought(m), GivenUp(m),
           phase'[m] = "looking" => phase[m] = "looking",
           phase'[m] = "unknown" => phase[m] = "unknown",
           lost' = 0 => lost = 0, late \subseteq late',
           phase'[m] = "looking" /\ lost' = 0 =>
               \A g \in DOMAIN wire : Seeks(m, g) => \E h \in DOMAIN wire' : Seeks(m, h)
    PROVE  Sought(m)' /\ GivenUp(m)'
<1>1. Sought(m)'
  BY DEF Sought, HasWay, Seeks, Before
<1>2. GivenUp(m)'
  BY DEF GivenUp, HasWay
<1> QED  BY <1>1, <1>2

\* Messages are no questions and no answers.
LEMMA SeeksNoMessage ==
    ASSUME NEW m, NEW g, NEW k, Seeks(m, g)
    PROVE  ~Carries(g, k)
BY DEF Seeks, Carries

LEMMA SearchUntouched ==
    ASSUME NEW m \in Messages, Sought(m), GivenUp(m), IsABag(wire),
           NEW taken, NEW sent, Exchange(taken, sent),
           phase'[m] = "looking" => phase[m] = "looking",
           phase'[m] = "unknown" => phase[m] = "unknown",
           lost' = 0 => lost = 0 /\ \A g \in taken : ~Seeks(m, g),
           late \subseteq late'
    PROVE  Sought(m)' /\ GivenUp(m)'
<1>1. DOMAIN wire \ taken \subseteq DOMAIN wire'
  BY ExchangeBag
<1> QED  BY <1>1, SearchKept

-----------------------------------------------------------------------------
\* A message for everybody is on its way to all next to its sender.
LEMMA ToEverybodyThrough ==
    ASSUME IInv, IsABag(wire), NEW m \in Messages, ApartFor(m), SendToAll(m)
    PROVE  Hops(m)' /\ Covers(m)' /\ Heads(m)'
<1> DEFINE p == Sender[m]  sent == ToEverybody(m, p)
<1>1. p \in Nodes /\ Target[m] = Everywhere /\ Exchange({}, sent) /\ given' = given
  BY RoutingAssumption DEF SendToAll, Becomes
<1>2. \A h \in sent : h.npdu.hops = HopCount /\ h.net \in Nets
  <2> SUFFICES ASSUME NEW s \in on[p],
                      NEW h \in Transmit(p, s, All, Apdu(m, SourceOn(p, s), Everywhere, HopCount))
               PROVE  h.npdu.hops = HopCount /\ h.net \in Nets
    BY DEF ToEverybody
  <2>1. h.npdu = Apdu(m, SourceOn(p, s), Everywhere, HopCount) /\ h.net = s
    BY DEF Transmit
  <2> QED  BY <1>1, <2>1, RoutingAssumption DEF Apdu
<1>3. Carrying(m) = {}
  <2>1. phase[m] # "sent"
    BY DEF SendToAll, Becomes
  <2>2. \A g \in Carrying(m) : g.to \in Nodes
    BY DEF IInv, TypeOK, Carrying, Datagrams
  <2> QED  BY <2>1, <2>2 DEF ApartFor, Once, Reached
<1>4. Carrying(m)' = {h \in sent : Carries(h, m)} /\ \A x \in Nodes : given[m][x] = <<>>
  <2>1. Carrying(m)' = (Carrying(m) \ {}) \cup {h \in sent : Carries(h, m)}
    BY <1>1, <1>3, CarryingLemma
  <2>2. phase[m] # "sent"
    BY DEF SendToAll, Becomes
  <2> QED  BY <1>3, <2>1, <2>2 DEF ApartFor, Once, Reached
<1>5. Hops(m)'
  <2> SUFFICES ASSUME NEW h \in sent
               PROVE  h.npdu.hops + Distance[h.net][local[p]] >= HopCount
    BY <1>1, <1>4 DEF Hops
  <2>1. Distance[h.net][local[p]] \in Nat /\ HopCount \in Nat
    BY <1>1, <1>2, RoutingAssumption, ReachAssumption
  <2> QED  BY <1>2, <2>1
<1>6. ASSUME NEW n \in Nodes \ {p}, NEW s \in on[n], Before(s, m) \notin {n, None},
             Before(s, m) = p \/ given'[m][Before(s, m)] # <<>>
      PROVE  Reached(m, n)'
  <2>1. s \in Nets
    BY RoutingAssumption
  <2>2. Before(s, m) = p /\ s \in on[p]
    BY <1>1, <1>4, <1>6, <2>1, BeforeWay
  <2> DEFINE npdu == Apdu(m, SourceOn(p, s), Everywhere, HopCount)
             h == [net |-> s, from |-> p, to |-> n, npdu |-> npdu]
  <2>3. h \in Transmit(p, s, All, npdu)
    BY <1>6 DEF Transmit
  <2>4. h \in sent
    BY <2>2, <2>3 DEF ToEverybody
  <2>5. Carries(h, m)
    BY DEF Carries, Apdu
  <2> QED  BY <1>4, <2>4, <2>5 DEF Reached
<1>7. Covers(m)'
  BY <1>6 DEF Covers, Before
<1> QED  BY <1>1, <1>5, <1>7 DEF Heads

\* A message on its network is on its way to all it is for.
LEMMA DirectlyThrough ==
    ASSUME IInv, IsABag(wire), NEW m \in Messages, ApartFor(m), SendDirectly(m)
    PROVE  Hops(m)' /\ Covers(m)' /\ Heads(m)'
<1> DEFINE p == Sender[m]  d == Target[m][1]  sent == ToNetwork(m, p, d)
           npdu == Apdu(m, SourceOn(p, d), None, HopCount)
<1>1. /\ d \in Nets /\ Target[m] # Everywhere /\ phase[m] # "sent"
      /\ Exchange({}, sent) /\ sent \subseteq DOMAIN wire'
  <2>1. d \in on[p] /\ d \in Nets
    BY RoutingAssumption DEF SendDirectly
  <2>2. Target[m] # Everywhere
    BY <2>1, RoutingAssumption DEF Everywhere
  <2> QED  BY <2>1, <2>2, ExchangeBag DEF SendDirectly, Becomes
<1>2. \A h \in sent : h.npdu.dadr = None /\ Carries(h, m)
  BY DEF ToNetwork, Transmit, Apdu, Carries
<1>3. Carrying(m)' = sent
  <2>1. \A g \in Carrying(m) : g.to \in Nodes
    BY DEF IInv, TypeOK, Carrying, Datagrams
  <2>2. Carrying(m) = {}
    BY <1>1, <2>1 DEF ApartFor, Once, Reached
  <2>3. Carrying(m)' = (Carrying(m) \ {}) \cup {h \in sent : Carries(h, m)}
    BY <1>1, <2>2, CarryingLemma
  <2> QED  BY <1>2, <2>2, <2>3
<1>4. Hops(m)'
  BY <1>1, <1>2, <1>3 DEF Hops
<1>5. ASSUME NEW n \in Addressees(m)
      PROVE  Reached(m, n)'
  <2> DEFINE h == [net |-> d, from |-> p, to |-> n, npdu |-> npdu]
  <2>1. n \in Nodes \ {p} /\ d \in on[n] /\ Target[m][2] \in {n, All}
    BY <1>1, RoutingAssumption DEF Addressees
  <2>2. h \in sent
    BY <2>1 DEF ToNetwork, Transmit
  <2> QED  BY <1>3, <2>2 DEF Reached
<1> QED  BY <1>1, <1>4, <1>5 DEF Covers, Heads, Addressees

\* A message that is handed to the router on the way is under way.
LEMMA ToRouterThrough ==
    ASSUME IInv, IsABag(wire), NEW m \in Messages, ApartFor(m), ApartFor(m)',
           phase[m] # "sent", phase'[m] = "sent",
           Target[m] # Everywhere, NEW s \in on[Sender[m]],
           NEW r \in Nodes \ {Sender[m]}, Way[s][Target[m][1]] = r,
           NEW taken, NEW sent, Exchange(taken, sent),
           ToRouter(m, Sender[m], s, r) \subseteq sent,
           \A h \in sent : Carries(h, m) => h \in ToRouter(m, Sender[m], s, r)
    PROVE  Hops(m)' /\ Covers(m)' /\ Heads(m)'
<1> DEFINE p == Sender[m]  d == Target[m][1]
           npdu == Apdu(m, None, Target[m], HopCount)
           h == [net |-> s, from |-> p, to |-> r, npdu |-> npdu]
<1>1. d \in Nets /\ s \in Nets /\ r # None /\ Target[m] # None
  BY RoutingAssumption
<1>2. s \in on[r] /\ Distance[s][d] \in 1..HopCount
  BY <1>1, WayLemma
<1>3. h \in sent
  BY <1>2 DEF ToRouter, Transmit
<1>4. Carrying(m)' = {k \in sent : Carries(k, m)}
  <2>1. \A g \in Carrying(m) : g.to \in Nodes
    BY DEF IInv, TypeOK, Carrying, Datagrams
  <2>2. Carrying(m) = {}
    BY <2>1 DEF ApartFor, Once, Reached
  <2>3. Carrying(m)' = (Carrying(m) \ taken) \cup {k \in sent : Carries(k, m)}
    BY <2>2, CarryingLemma
  <2> QED  BY <2>2, <2>3
<1>5. h \in Carrying(m)'
  BY <1>3, <1>4 DEF Carries, Apdu
<1>6. \A k \in Carrying(m)' : k.npdu.dadr = Target[m] /\ k.npdu.hops = HopCount /\ k.net = s
  BY <1>4 DEF ToRouter, Transmit, Apdu
<1>7. Hops(m)'
  BY <1>2, <1>6, RoutingAssumption DEF Hops
<1>8. Underway(m, h)'
  BY <1>1, <1>5, <1>6 DEF ApartFor, Goes, Arriving
<1>9. Heads(m)'
  BY <1>5, <1>8 DEF Heads
<1> QED  BY <1>7, <1>9 DEF Covers

-----------------------------------------------------------------------------
\* What a device does with a message, and what it sends on.
HandsOn(g, m, sent) ==
    /\ Handles(g, m, sent) /\ SendsOn(g, sent)
    /\ lost' = lost /\ dropped \subseteq dropped'

\* A message for everybody leaves a device on all its other networks.
LEMMA ForwardsToAll ==
    ASSUME IInv, NEW m \in Messages, ApartFor(m), Hops(m), Target[m] = Everywhere,
           NEW g, NEW sent, HandsOn(g, m, sent)
    PROVE  \E e : /\ sent = OnAll(g.to, on[g.to] \ {g.net}, e)
                  /\ e.type = "apdu" /\ e.msg = m /\ e.dadr = Everywhere
                  /\ on[g.to] # {g.net} => e.hops = g.npdu.hops - 1 /\ g.npdu.hops \in Nat \ {0}
<1> DEFINE n == g.to  s == g.net  npdu == g.npdu
           e == [npdu EXCEPT !.sadr = Origin(s, g.from, npdu), !.hops = npdu.hops - 1]
<1>1. /\ g \in Carrying(m) /\ npdu \in Apdus /\ n \in Nodes \ {Sender[m]} /\ s \in on[n] /\ s \in Nets
      /\ npdu.dadr = Everywhere /\ npdu.msg = m /\ npdu.type = "apdu"
      /\ Before(s, m) = g.from /\ g.from \in Nodes \ {n}
  BY RoutingAssumption DEF HandsOn, Handles, IInv, TypeOK, Sound, Carrying, Carries, Datagrams, WhoIses, IAms,
     ApartFor, Spreads
<1>2. e.type = "apdu" /\ e.msg = m /\ e.dadr = Everywhere /\ e.hops = npdu.hops - 1
  BY <1>1 DEF Apdus
<1>3. CASE on[n] = {s}
  <2>1. \A x : OnAll(n, on[n] \ {s}, x) = {}
    BY <1>3 DEF OnAll
  <2>2. sent = {}
    BY <1>1, <1>3, <2>1 DEF HandsOn, SendsOn, Forwarded, OtherAdapters
  <2> QED  BY <1>2, <1>3, <2>1, <2>2
<1>4. CASE on[n] # {s}
  <2>1. PICK t \in on[n] : t # s
    BY <1>1, <1>4
  <2>2. IsRouter(n)
    BY <1>1, <2>1, RouterLemma
  <2>3. npdu.hops \in Nat \ {0}
    <3> DEFINE d == local[Sender[m]]
    <3>1. t \in Nets /\ d \in Nets
      BY <1>1, RoutingAssumption
    <3>2. Before(t, m) = n
      BY <1>1, <2>1, BeforeLemma, RoutingAssumption
    <3>3. PICK u \in on[n] \ {t} : Before(u, m) \in Nodes \ {n} /\ Distance[u][d] < Distance[t][d]
      BY <1>1, <3>1, <3>2, BeforeOnward
    <3>4. u = s
      <4>1. ASSUME u # s PROVE Before(u, m) = n
        BY <1>1, <4>1, BeforeLemma, RoutingAssumption
      <4> QED  BY <3>3, <4>1
    <3>5. Distance[s][d] < HopCount /\ Distance[s][d] \in Nat /\ HopCount \in Nat
      <4>1. Distance[t][d] \in 0..HopCount /\ Distance[s][d] \in 0..HopCount
        BY <1>1, <3>1, ReachAssumption
      <4> QED  BY <3>3, <3>4, <4>1, RoutingAssumption
    <3>6. npdu.hops + Distance[s][d] >= HopCount /\ npdu.hops \in Nat
      BY <1>1 DEF Hops, Apdus
    <3> QED  BY <3>5, <3>6
  <2>4. npdu.dadr \notin {None, <<local[n], n>>}
    <3>1. n # All
      BY <1>1, RoutingAssumption
    <3> QED  BY <1>1, <3>1, RoutingAssumption DEF Everywhere
  <2>5. ForwardMessage(n, npdu)
    BY <2>2, <2>3, <2>4 DEF ForwardMessage
  <2>6. sent = OnAll(n, on[n] \ {s}, e)
    BY <1>1, <2>5 DEF HandsOn, SendsOn, Forwarded, OtherAdapters
  <2> QED  BY <1>2, <2>3, <2>6
<1> QED  BY <1>3, <1>4

LEMMA SpreadsThrough ==
    ASSUME IInv, NEW m \in Messages, ApartFor(m), Hops(m), Covers(m), Target[m] = Everywhere,
           NEW g, NEW sent, HandsOn(g, m, sent)
    PROVE  Hops(m)' /\ Covers(m)' /\ Heads(m)'
<1> DEFINE n == g.to  s == g.net  p == Sender[m]  d == local[p]
<1>1. PICK e : /\ sent = OnAll(n, on[n] \ {s}, e)
               /\ e.type = "apdu" /\ e.msg = m /\ e.dadr = Everywhere
               /\ on[n] # {s} => e.hops = g.npdu.hops - 1 /\ g.npdu.hops \in Nat \ {0}
  BY ForwardsToAll
<1>2. /\ g \in Carrying(m) /\ n \in Nodes \ {p} /\ s \in on[n] /\ s \in Nets
      /\ g.npdu.dadr = Everywhere /\ Before(s, m) = g.from /\ g.from \in Nodes \ {n}
      /\ p \in Nodes /\ d \in Nets /\ None \notin Nodes
  BY RoutingAssumption DEF HandsOn, Handles, IInv, TypeOK, Sound, Carrying, Datagrams,
     ApartFor, Spreads
<1>3. /\ \A x \in Nodes \ {n} : given'[m][x] = given[m][x]
      /\ given'[m][n] # <<>> /\ phase[m] = "sent"
      /\ Carrying(m)' = (Carrying(m) \ {g}) \cup {h \in sent : Carries(h, m)}
  BY <1>2, HandlesLemma DEF HandsOn, ProcessLocally
<1>4. \A h \in sent : Carries(h, m)
  BY <1>1 DEF OnAll, Transmit, Carries
<1>5. Carrying(m)' = (Carrying(m) \ {g}) \cup sent
  BY <1>3, <1>4
<1>6. \A x \in Nodes : Reached(m, x) => Reached(m, x)'
  BY <1>3, <1>5 DEF Reached
<1>7. Hops(m)'
  <2> SUFFICES ASSUME NEW h \in sent
               PROVE  h.npdu.hops + Distance[h.net][d] >= HopCount
    BY <1>5 DEF Hops
  <2>1. PICK t \in on[n] \ {s} : h.net = t /\ h.npdu = e
    BY <1>1 DEF OnAll, Transmit
  <2>2. Before(t, m) = n /\ t \in Nets
    BY <1>2, <2>1, BeforeLemma, RoutingAssumption
  <2>3. PICK u \in on[n] \ {t} : Before(u, m) \in Nodes \ {n} /\ Distance[u][d] < Distance[t][d]
    BY <1>2, <2>2, BeforeOnward
  <2>4. u = s
    <3>1. ASSUME u # s PROVE Before(u, m) = n
      BY <1>2, <3>1, BeforeLemma
    <3> QED  BY <2>3, <3>1
  <2>5. Distance[t][d] \in Nat /\ Distance[s][d] \in Nat /\ HopCount \in Nat
    BY <1>2, <2>2, ReachAssumption, RoutingAssumption
  <2>6. g.npdu.hops + Distance[s][d] >= HopCount
    BY <1>2 DEF Hops
  <2>7. e.hops = g.npdu.hops - 1 /\ g.npdu.hops \in Nat
    BY <1>1, <2>1
  <2> QED  BY <2>1, <2>3, <2>4, <2>5, <2>6, <2>7
<1>8. ASSUME lost' = 0, NEW x \in Nodes \ {p}, NEW t \in on[x], Before(t, m) \notin {x, None},
             Before(t, m) = p \/ given'[m][Before(t, m)] # <<>>
      PROVE  Reached(m, x)'
  <2>1. t \in Nets /\ Before(t, m) \in Nodes /\ t \in on[Before(t, m)]
    BY <1>8, RoutingAssumption, BeforeWay
  <2>2. lost = 0
    BY <1>8 DEF HandsOn
  <2>3. CASE Before(t, m) # n
    <3>1. Reached(m, x)
      BY <1>3, <1>8, <2>1, <2>2, <2>3 DEF Covers
    <3> QED  BY <1>6, <3>1
  <2>4. CASE Before(t, m) = n
    <3>1. t \in on[n] \ {s}
      BY <1>2, <2>1, <2>4
    <3> DEFINE h == [net |-> t, from |-> n, to |-> x, npdu |-> e]
    <3>2. h \in Transmit(n, t, All, e)
      BY <1>8, <2>4 DEF Transmit
    <3>3. h \in sent
      BY <1>1, <3>1, <3>2 DEF OnAll
    <3> QED  BY <1>5, <3>3 DEF Reached
  <2> QED  BY <2>3, <2>4
<1>9. Covers(m)'
  BY <1>8 DEF Covers, Before
<1> QED  BY <1>7, <1>9 DEF Heads

-----------------------------------------------------------------------------
\* Its network has a message for good: those it is for have it or will.
LEMMA ArrivesThrough ==
    ASSUME IInv, NEW m \in Messages, ApartFor(m), Hops(m), Heads(m),
           Target[m] # Everywhere, NEW g, NEW sent, HandsOn(g, m, sent),
           g.npdu.dadr = None
    PROVE  Hops(m)' /\ Covers(m)' /\ Heads(m)'
<1> DEFINE n == g.to
<1>1. g \in Carrying(m) /\ phase' = phase /\ sent = {} /\ lost' = lost /\ dropped \subseteq dropped'
  BY ForwardedLemma DEF HandsOn, Handles
<1>2. /\ \A x \in Nodes \ {n} : given'[m][x] = given[m][x]
      /\ given'[m][n] # <<>> <=> ProcessLocally(n, g.net, g.npdu)
      /\ Carrying(m)' = Carrying(m) \ {g}
  BY <1>1, HandlesLemma DEF HandsOn
<1>3. Hops(m)'
  BY <1>2 DEF Hops
<1>4. Target[m] # None
  BY RoutingAssumption
<1>5. \A h \in Carrying(m) : ~Underway(m, h)
  BY <1>1, <1>4 DEF Underway
<1>6. g.net = Target[m][1]
  BY <1>1, <1>4 DEF ApartFor, Goes, Underway, Arriving
<1>7. \A x \in Addressees(m) : Reached(m, x) => Reached(m, x)'
  <2> SUFFICES ASSUME NEW x \in Addressees(m), Reached(m, x)
               PROVE  Reached(m, x)'
    OBVIOUS
  <2>1. CASE x = n
    <3>1. g.net = local[n]
      BY <1>6, <2>1 DEF Addressees
    <3> QED  BY <1>2, <2>1, <3>1 DEF ProcessLocally, Reached
  <2>2. CASE x # n
    BY <1>2, <2>2 DEF Addressees, Reached
  <2> QED  BY <2>1, <2>2
<1>8. Heads(m)'
  BY <1>1, <1>5, <1>7 DEF Heads, Addressees
<1> QED  BY <1>3, <1>8 DEF Covers

\* A message under way has come to the router that leads on, and may pass it.
LEMMA UnderwayLemma ==
    ASSUME IInv, NEW m \in Messages, Target[m] # Everywhere,
           NEW g \in Carrying(m), Underway(m, g)
    PROVE  LET n == g.to  s == g.net  npdu == g.npdu  d == Target[m][1]
           IN  /\ npdu \in Apdus /\ n \in Nodes /\ s \in on[n] /\ s \in Nets /\ d \in Nets
               /\ npdu.dadr = Target[m] /\ Target[m] # None /\ npdu.msg = m /\ npdu.type = "apdu"
               /\ Carrying(m) = {g} /\ Way[s][d] = n
<1>1. g \in DOMAIN wire /\ g.npdu.type = "apdu" /\ g.npdu.msg = m
  BY DEF Carrying, Carries
<1>2. g \in Datagrams /\ Sound(g) /\ g.npdu \in Apdus
  BY <1>1 DEF IInv, TypeOK, Datagrams, WhoIses, IAms
<1>3. g.to \in Nodes /\ g.net \in on[g.to] /\ g.net \in Nets
  BY <1>2 DEF Sound, Datagrams
<1>4. g.npdu.dadr = Target[m] /\ Carrying(m) = {g}
  BY DEF Underway
<1>5. Target[m] # None /\ Target[m][1] \in Nets
  BY RoutingAssumption
<1>6. Leads(g.to, g.net, Target[m][1])
  BY <1>1, <1>2, <1>4, <1>5 DEF Sound
<1>7. Way[g.net][Target[m][1]] = g.to
  BY <1>6 DEF Leads
<1> QED  BY <1>1, <1>2, <1>3, <1>4, <1>5, <1>7

LEMMA HopsLemma ==
    ASSUME IInv, NEW m \in Messages, Hops(m), Target[m] # Everywhere,
           NEW g \in Carrying(m), Underway(m, g)
    PROVE  /\ g.npdu.hops \in Nat \ {0}
           /\ g.npdu.hops >= Distance[g.net][Target[m][1]]
<1> DEFINE d == Target[m][1]
<1>1. /\ g.to \in Nodes /\ g.net \in Nets /\ d \in Nets /\ Way[g.net][d] = g.to
      /\ g.npdu.hops \in Nat /\ g.npdu.dadr # None
  BY UnderwayLemma DEF Apdus
<1>2. Way[g.net][d] # None
  BY <1>1, RoutingAssumption
<1>3. Distance[g.net][d] \in 1..HopCount
  BY <1>1, <1>2, WayLemma
<1>4. g.npdu.hops >= Distance[g.net][d]
  BY <1>1 DEF Hops
<1> QED  BY <1>1, <1>3, <1>4, RoutingAssumption

\* A router on its network puts a message there, for all the others it is for.
LEMMA ArrivingThrough ==
    ASSUME IInv, NEW m \in Messages, ApartFor(m), Hops(m), Target[m] # Everywhere,
           NEW g, NEW sent, HandsOn(g, m, sent),
           Underway(m, g), Target[m][1] \in on[g.to]
    PROVE  Hops(m)' /\ Covers(m)' /\ Heads(m)'
<1> DEFINE n == g.to  s == g.net  npdu == g.npdu  d == Target[m][1]
           e == [[npdu EXCEPT !.sadr = Origin(s, g.from, npdu), !.hops = npdu.hops - 1]
                     EXCEPT !.dadr = None]
<1>1. /\ g \in Carrying(m) /\ npdu \in Apdus /\ n \in Nodes /\ s \in on[n] /\ s \in Nets /\ d \in Nets
      /\ npdu.dadr = Target[m] /\ Target[m] # None /\ npdu.msg = m /\ npdu.type = "apdu"
      /\ Carrying(m) = {g} /\ Way[s][d] = n
  BY UnderwayLemma DEF HandsOn, Handles
<1>2. e.type = "apdu" /\ e.msg = m /\ e.dadr = None
  BY <1>1 DEF Apdus
<1>3. /\ given'[m][n] # <<>> <=> ProcessLocally(n, s, npdu)
      /\ Carrying(m)' = {h \in sent : Carries(h, m)}
  BY <1>1, HandlesLemma DEF HandsOn
<1>4. n \in Addressees(m) => given'[m][n] # <<>>
  BY <1>1, <1>3 DEF ProcessLocally, Addressees
<1>5. CASE npdu.dadr = <<local[n], n>>
  <2>1. sent = {}
    BY <1>1, <1>5 DEF HandsOn, SendsOn, Forwarded, ForwardMessage
  <2>2. \A x \in Addressees(m) : x = n
    <3>1. n # All
      BY <1>1, RoutingAssumption
    <3> QED  BY <1>1, <1>5, <3>1 DEF Addressees, Everywhere
  <2>3. Hops(m)'
    BY <1>3, <2>1 DEF Hops
  <2>4. \A x \in Addressees(m) : Reached(m, x)'
    BY <1>4, <2>2 DEF Reached
  <2> QED  BY <2>3, <2>4 DEF Heads, Covers, Addressees
<1>6. CASE npdu.dadr # <<local[n], n>>
  <2>1. s # d
    <3>1. Way[d][d] = None /\ n # None
      BY <1>1, RoutingAssumption, TreeAssumption
    <3> HIDE DEF s, d
    <3> QED  BY <1>1, <3>1
  <2>2. IsRouter(n)
    BY <1>1, <2>1, RouterLemma
  <2>3. npdu.hops # 0
    BY <1>1, HopsLemma
  <2>4. ForwardMessage(n, npdu)
    BY <1>1, <1>6, <2>2, <2>3 DEF ForwardMessage
  <2>5. sent = Transmit(n, d, Target[m][2], e)
    BY <1>1, <2>4 DEF HandsOn, SendsOn, Forwarded
  <2> HIDE DEF e
  <2>6. \A h \in sent : Carries(h, m) /\ h.npdu = e
    BY <1>2, <2>5 DEF Transmit, Carries
  <2>7. Hops(m)'
    BY <1>2, <1>3, <2>6 DEF Hops
  <2>8. ASSUME NEW x \in Addressees(m), x # n
        PROVE  Reached(m, x)'
    <3>1. x \in Nodes \ {n} /\ d \in on[x] /\ Target[m][2] \in {x, All}
      BY <2>8, RoutingAssumption DEF Addressees
    <3> DEFINE h == [net |-> d, from |-> n, to |-> x, npdu |-> e]
    <3>2. h \in sent
      BY <2>5, <3>1 DEF Transmit
    <3> QED  BY <1>3, <2>6, <3>2 DEF Reached
  <2>9. \A x \in Addressees(m) : Reached(m, x)'
    BY <1>4, <2>8 DEF Reached
  <2> QED  BY <2>7, <2>9 DEF Heads, Covers, Addressees
<1> QED  BY <1>5, <1>6

\* A router on the way that has a path to a network has it from where it lies.
LEMMA PathOnward ==
    ASSUME IInv', NEW n \in Nodes, NEW s \in on[n], NEW d \in Nets, d \notin on[n],
           Way[s][d] = n, Ways(path'[n], n, d) # {}
    PROVE  \E w \in on[n] \ {s} :
               /\ FirstWay(path'[n], n, d) = w /\ path'[n][w][d] = Way[w][d]
               /\ Way[w][d] \in Nodes \ {n} /\ w \in on[Way[w][d]]
               /\ Distance[w][d] < Distance[s][d]
<1>1. PICK t \in on[n] \ {s} :
          /\ Distance[t][d] < Distance[s][d] /\ Way[t][d] \in Nodes \ {n}
          /\ t \in on[Way[t][d]]
          /\ \A u \in on[n] : Way[u][d] \notin {None, n} => u = t
  BY OnwardLemma
<1>2. PICK w \in on[n] : w = FirstWay(path'[n], n, d) /\ path'[n][w][d] # None
  BY FirstWayLemma
<1>3. path'[n][w][d] = Way[w][d]
  BY <1>2 DEF IInv, PathsHold, Leads
<1>4. path'[n][w][d] # n
  BY DEF IInv, PathsLeadAway
<1>5. w = t
  BY <1>1, <1>2, <1>3, <1>4
<1> QED  BY <1>1, <1>2, <1>3, <1>5

\* A router that is not on its network hands a message on to the next, unless it
\* has to look for one.
LEMMA GoesOnThrough ==
    ASSUME IInv, IInv', NEW m \in Messages, ApartFor(m), ApartFor(m)', Hops(m),
           Target[m] # Everywhere, NEW g, NEW sent, HandsOn(g, m, sent),
           MustLook(g.to, g.npdu, path'[g.to]) => m \in dropped',
           Underway(m, g), Target[m][1] \notin on[g.to]
    PROVE  Hops(m)' /\ Covers(m)' /\ Heads(m)'
<1> DEFINE n == g.to  s == g.net  npdu == g.npdu  d == Target[m][1]
           e == [npdu EXCEPT !.sadr = Origin(s, g.from, npdu), !.hops = npdu.hops - 1]
<1>1. /\ g \in Carrying(m) /\ npdu \in Apdus /\ n \in Nodes /\ s \in on[n] /\ s \in Nets /\ d \in Nets
      /\ npdu.dadr = Target[m] /\ Target[m] # None /\ npdu.msg = m /\ npdu.type = "apdu"
      /\ Carrying(m) = {g} /\ Way[s][d] = n
  BY UnderwayLemma DEF HandsOn, Handles
<1>2. npdu.hops \in Nat \ {0} /\ npdu.hops >= Distance[s][d]
  BY <1>1, HopsLemma
<1>3. Carrying(m)' = {h \in sent : Carries(h, m)}
  BY <1>1, HandlesLemma DEF HandsOn
<1>4. IsRouter(n)
  BY <1>1, OnwardLemma, RouterLemma
<1>5. npdu.dadr # <<local[n], n>>
  BY <1>1, RoutingAssumption
<1>6. ForwardMessage(n, npdu)
  BY <1>1, <1>2, <1>4, <1>5 DEF ForwardMessage
<1>7. SourceLearned(n, s, g.from, npdu) = path'[n]
  BY <1>1 DEF HandsOn, SendsOn, IInv, TypeOK
<1>8. sent = Forwarded(n, s, g.from, npdu, path'[n])
  BY <1>7 DEF HandsOn, SendsOn
<1>9. CASE Ways(path'[n], n, d) = {}
  <2>1. MustLook(n, npdu, path'[n])
    BY <1>1, <1>6, <1>9 DEF MustLook
  <2>2. sent = Question(n, d)
    BY <1>1, <1>6, <1>8, <2>1 DEF Forwarded
  <2>3. Carrying(m)' = {}
    BY <1>3, <2>2, QuestionCarries
  <2> QED  BY <2>1, <2>3 DEF Hops, Covers, Heads
<1>10. CASE Ways(path'[n], n, d) # {}
  <2>1. PICK w \in on[n] \ {s} :
            /\ FirstWay(path'[n], n, d) = w /\ path'[n][w][d] = Way[w][d]
            /\ Way[w][d] \in Nodes \ {n} /\ w \in on[Way[w][d]]
            /\ Distance[w][d] < Distance[s][d]
    BY <1>1, <1>10, PathOnward
  <2> DEFINE r == Way[w][d]
             h == [net |-> w, from |-> n, to |-> r, npdu |-> e]
  <2>2. ~MustLook(n, npdu, path'[n])
    BY <1>1, <1>10 DEF MustLook
  <2>3. sent = Transmit(n, w, r, e)
    BY <1>1, <1>6, <1>8, <2>1, <2>2 DEF Forwarded
  <2>4. e.type = "apdu" /\ e.msg = m /\ e.dadr = Target[m] /\ e.hops = npdu.hops - 1
    BY <1>1 DEF Apdus
  <2> HIDE DEF e
  <2>5. sent = {h}
    <3>1. r \in Nodes \ {n} /\ r # All /\ w \in on[r]
      BY <2>1, RoutingAssumption
    <3> HIDE DEF r
    <3> QED  BY <2>3, <3>1 DEF Transmit
  <2>6. Carrying(m)' = {h}
    BY <1>3, <2>4, <2>5 DEF Carries
  <2>7. e.hops >= Distance[w][d]
    <3>1. Distance[w][d] \in Nat /\ Distance[s][d] \in Nat
      <4>1. w \in Nets
        BY <1>1, <2>1, RoutingAssumption
      <4> QED  BY <1>1, <4>1, ReachAssumption
    <3> QED  BY <1>2, <2>1, <2>4, <3>1
  <2>8. Hops(m)'
    BY <2>4, <2>6, <2>7 DEF Hops
  <2>9. Underway(m, h)'
    <3>1. Underway(m, h)' \/ Arriving(m, h)'
      BY <2>6 DEF ApartFor, Goes
    <3> QED  BY <1>1, <2>4, <3>1 DEF Arriving
  <2>10. Heads(m)'
    BY <2>6, <2>9 DEF Heads
  <2> QED  BY <2>8, <2>10 DEF Covers
<1> QED  BY <1>9, <1>10

-----------------------------------------------------------------------------
\* No message has strayed.
LEMMA NoStray ==
    ASSUME IInv, NEW m \in Messages, ApartFor(m), NEW g \in Carrying(m)
    PROVE  Accepted(g.to, g.net, g.npdu)
<1>1. g \in DOMAIN wire /\ g.npdu.type = "apdu"
  BY DEF Carrying, Carries
<1>2. ~Spoofs(g.to, g.npdu)
  BY <1>1, NoSpoof
<1>3. CASE g.npdu.dadr \in {None, Everywhere}
  BY <1>2, <1>3 DEF Accepted, Strayed
<1>4. CASE g.npdu.dadr \notin {None, Everywhere}
  <2>1. Target[m] # Everywhere /\ Underway(m, g)
    BY <1>4 DEF ApartFor, Spreads, Goes, Arriving
  <2> DEFINE s == g.net  d == Target[m][1]
  <2>2. /\ g.npdu.dadr = Target[m] /\ s \in Nets /\ d \in Nets /\ Way[s][d] = g.to
        /\ g.to \in Nodes
    BY <2>1, UnderwayLemma
  <2>3. s # d
    <3>1. Way[d][d] = None /\ g.to # None
      BY <2>2, RoutingAssumption, TreeAssumption
    <3> HIDE DEF s, d
    <3> QED  BY <2>2, <3>1
  <2> QED  BY <1>2, <2>2, <2>3 DEF Accepted, Strayed
<1> QED  BY <1>3, <1>4

LEMMA ReceiveApduThrough ==
    ASSUME IInv, IInv', Apart, Apart', Through, NEW g \in DOMAIN wire, ReceiveApdu(g)
    PROVE  Through'
<1> DEFINE n == g.to  s == g.net  npdu == g.npdu
           paths == SourceLearned(n, s, g.from, npdu)
           forwarded == Forwarded(n, s, g.from, npdu, paths)
           accepted == Accepted(n, s, npdu)
           sent == IF accepted THEN forwarded ELSE {}
<1>1. /\ path' = [path EXCEPT ![n] = paths] /\ npdu.type = "apdu"
      /\ Exchange({g}, sent) /\ phase' = phase /\ lost' = lost /\ late' = late
      /\ given' = IF accepted /\ ProcessLocally(n, s, npdu)
                  THEN [given EXCEPT ![npdu.msg][n] = Append(@, Origin(s, g.from, npdu))]
                  ELSE given
      /\ dropped' = IF accepted /\ MustLook(n, npdu, paths)
                    THEN dropped \cup {npdu.msg} ELSE dropped
  BY DEF ReceiveApdu
<1>2. g.npdu.msg \in Messages /\ n \in Nodes
  BY <1>1 DEF IInv, TypeOK, Datagrams, Apdus, WhoIses, IAms
<1>3. g \in Carrying(npdu.msg)
  BY <1>1 DEF Carrying, Carries
<1>4. accepted
  BY <1>2, <1>3, NoStray DEF Apart
<1>5. paths = path'[n]
  BY <1>1, <1>2 DEF IInv, TypeOK
<1>6. /\ Exchange({g}, forwarded) /\ dropped \subseteq dropped'
      /\ given' = IF ProcessLocally(n, s, npdu)
                  THEN [given EXCEPT ![npdu.msg][n] = Append(@, Origin(s, g.from, npdu))]
                  ELSE given
      /\ MustLook(n, npdu, path'[n]) => npdu.msg \in dropped'
  BY <1>1, <1>4, <1>5
<1>7. \A h \in forwarded : \A m \in Messages \ {npdu.msg} : ~Carries(h, m)
  <2> SUFFICES ASSUME NEW h \in forwarded, NEW m \in Messages \ {npdu.msg}
               PROVE  ~Carries(h, m)
    OBVIOUS
  <2> QED  BY <1>1, ForwardedCarries
<1>8. SendsOn(g, forwarded)
  <2>1. \A x \in Nodes : \A t \in on[x] : \A d \in Nets : path'[x][t][d] \in Nodes \cup {None}
    BY RoutingAssumption DEF IInv, TypeOK
  <2> QED  BY <1>1, <2>1 DEF SendsOn
<1> HIDE DEF forwarded, sent, paths, accepted
<1>9. ASSUME NEW m \in Messages
      PROVE  Sought(m)' /\ GivenUp(m)'
  <2>1. ~Seeks(m, g)
    BY <1>1 DEF Seeks
  <2> QED  BY <1>1, <1>6, <2>1, SearchUntouched DEF Through, ThroughFor
<1>10. ASSUME NEW m \in Messages, m # npdu.msg
       PROVE  Hops(m)' /\ Covers(m)' /\ Heads(m)'
  <2>1. ~Carries(g, m) /\ given'[m] = given[m]
    BY <1>2, <1>6, <1>10 DEF Carries, IInv, TypeOK
  <2>2. ApartFor(m) /\ Hops(m) /\ Covers(m) /\ Heads(m)
    BY DEF Apart, Through, ThroughFor
  <2> QED  BY <1>1, <1>6, <1>7, <1>10, <2>1, <2>2, MessageUntouched
<1>11. ASSUME NEW m \in Messages, m = npdu.msg
       PROVE  Hops(m)' /\ Covers(m)' /\ Heads(m)'
  <2>1. HandsOn(g, m, forwarded)
    BY <1>1, <1>3, <1>4, <1>6, <1>8, <1>11 DEF HandsOn, Handles, accepted
  <2>2. ApartFor(m) /\ ApartFor(m)' /\ Hops(m) /\ Covers(m) /\ Heads(m)
    BY DEF Apart, Through, ThroughFor
  <2>3. CASE Target[m] = Everywhere
    BY <2>1, <2>2, <2>3, SpreadsThrough
  <2>4. CASE Target[m] # Everywhere /\ ~Underway(m, g)
    <3>1. g.npdu.dadr = None
      BY <1>3, <1>11, <2>2, <2>4 DEF ApartFor, Goes, Arriving
    <3> QED  BY <2>1, <2>2, <2>4, <3>1, ArrivesThrough
  <2>5. CASE Target[m] # Everywhere /\ Underway(m, g) /\ Target[m][1] \in on[n]
    BY <2>1, <2>2, <2>5, ArrivingThrough
  <2>6. CASE Target[m] # Everywhere /\ Underway(m, g) /\ Target[m][1] \notin on[n]
    BY <1>6, <1>11, <2>1, <2>2, <2>6, GoesOnThrough
  <2> QED  BY <2>3, <2>4, <2>5, <2>6
<1>12. IsABag(wire') /\ lost' \in Nat
  BY <1>1, <1>6, ExchangeBag DEF Through
<1> QED  BY <1>9, <1>10, <1>11, <1>12 DEF Through, ThroughFor

-----------------------------------------------------------------------------
\* One message is sent or looks for its router, and the others stay as they are.
LEMMA BecomesThrough ==
    ASSUME IInv, Apart, Through, NEW m \in Messages, NEW p, NEW sent, Becomes(m, p, sent),
           \A k \in Messages \ {m} : \A h \in sent : ~Carries(h, k),
           Hops(m)' /\ Covers(m)' /\ Heads(m)', Sought(m)' /\ GivenUp(m)'
    PROVE  Through'
<1>1. /\ Exchange({}, sent) /\ given' = given /\ lost' = lost /\ late' = late /\ dropped' = dropped
      /\ \A k \in Messages \ {m} : phase'[k] = phase[k]
  BY DEF Becomes, IInv, TypeOK, history
<1>2. ASSUME NEW k \in Messages \ {m}
      PROVE  ThroughFor(k)'
  <2>1. ApartFor(k) /\ ThroughFor(k)
    BY DEF Apart, Through
  <2>2. \A h \in sent : ~Carries(h, k)
    OBVIOUS
  <2>3. Hops(k)' /\ Covers(k)' /\ Heads(k)'
    BY <1>1, <2>1, <2>2, MessageUntouched DEF ThroughFor
  <2>4. Sought(k)' /\ GivenUp(k)'
    BY <1>1, <2>1, SearchUntouched DEF ThroughFor, Through
  <2> QED  BY <2>3, <2>4 DEF ThroughFor
<1>3. IsABag(wire') /\ lost' \in Nat
  BY <1>1, ExchangeBag DEF Through
<1> QED  BY <1>2, <1>3 DEF Through, ThroughFor

LEMMA SendThrough ==
    ASSUME IInv, IInv', Apart, Apart', Through, NEW m \in Messages,
           SendToAll(m) \/ SendDirectly(m) \/ SendToRouter(m)
    PROVE  Through'
<1> DEFINE p == Sender[m]  d == Target[m][1]
<1>1. /\ IsABag(wire) /\ ApartFor(m) /\ ApartFor(m)' /\ p \in Nodes
      /\ phase \in [Messages -> Phases]
  BY RoutingAssumption DEF IInv, TypeOK, Apart, Through
<1>2. CASE SendToAll(m)
  <2>1. Becomes(m, "sent", ToEverybody(m, p))
    BY <1>2 DEF SendToAll
  <2>2. \A k \in Messages \ {m} : \A h \in ToEverybody(m, p) : ~Carries(h, k)
    BY OneCarried DEF ToEverybody
  <2>3. Hops(m)' /\ Covers(m)' /\ Heads(m)'
    BY <1>1, <1>2, ToEverybodyThrough
  <2>4. Sought(m)' /\ GivenUp(m)'
    BY <1>1, <2>1 DEF Becomes, Sought, GivenUp
  <2> QED  BY <2>1, <2>2, <2>3, <2>4, BecomesThrough
<1>3. CASE SendDirectly(m)
  <2>1. Becomes(m, "sent", ToNetwork(m, p, d))
    BY <1>3 DEF SendDirectly
  <2>2. \A k \in Messages \ {m} : \A h \in ToNetwork(m, p, d) : ~Carries(h, k)
    BY OneCarried DEF ToNetwork
  <2>3. Hops(m)' /\ Covers(m)' /\ Heads(m)'
    BY <1>1, <1>3, DirectlyThrough
  <2>4. Sought(m)' /\ GivenUp(m)'
    BY <1>1, <2>1 DEF Becomes, Sought, GivenUp
  <2> QED  BY <2>1, <2>2, <2>3, <2>4, BecomesThrough
<1>4. CASE SendToRouter(m)
  <2> DEFINE s == FirstWay(path[p], p, d)  r == path[p][s][d]
  <2>1. /\ Target[m] # Everywhere /\ d \notin on[p] /\ s \in on[p] /\ r # None
        /\ Becomes(m, "sent", ToRouter(m, p, s, r))
    BY <1>4, FirstWayLemma DEF SendToRouter
  <2>2. r \in Nodes \ {p} /\ Way[s][d] = r
    <3>1. s \in Nets /\ d \in Nets
      BY <1>1, <2>1, RoutingAssumption
    <3> HIDE DEF s
    <3>2. r \in Nodes
      BY <1>1, <2>1, <3>1 DEF IInv, TypeOK
    <3>3. r # p
      BY <1>1, <2>1, <3>1 DEF IInv, PathsLeadAway
    <3>4. Leads(r, s, d)
      BY <1>1, <2>1, <3>1 DEF IInv, PathsHold
    <3> QED  BY <3>2, <3>3, <3>4 DEF Leads
  <2> HIDE DEF s, r
  <2>3. \A k \in Messages \ {m} : \A h \in ToRouter(m, p, s, r) : ~Carries(h, k)
    BY OneCarried DEF ToRouter
  <2>4. /\ phase[m] # "sent" /\ Exchange({}, ToRouter(m, p, s, r)) /\ phase'[m] = "sent"
    BY <1>1, <2>1 DEF Becomes
  <2>5. Hops(m)' /\ Covers(m)' /\ Heads(m)'
    BY <1>1, <2>1, <2>2, <2>4, ToRouterThrough
  <2>6. Sought(m)' /\ GivenUp(m)'
    BY <2>4 DEF Sought, GivenUp
  <2> QED  BY <2>1, <2>3, <2>5, <2>6, BecomesThrough
<1> QED  BY <1>2, <1>3, <1>4

\* The question goes to the router that leads on, if there is one.
LEMMA LookForRouterThrough ==
    ASSUME IInv, Apart, Through, NEW m \in Messages, LookForRouter(m)
    PROVE  Through'
<1> DEFINE p == Sender[m]  d == Target[m][1]  sent == Question(p, d)
<1>1. /\ d \notin on[p] /\ d \in Nets /\ p \in Nodes /\ on[p] \subseteq Nets
      /\ Becomes(m, "looking", sent)
  BY RoutingAssumption DEF LookForRouter
<1>2. /\ Exchange({}, sent) /\ phase'[m] = "looking" /\ given' = given
      /\ lost' = lost /\ dropped' = dropped
  BY <1>1 DEF Becomes, IInv, TypeOK, history
<1>3. \A k \in Messages, h \in sent : ~Carries(h, k)
  BY QuestionCarries
<1>4. Hops(m)' /\ Covers(m)' /\ Heads(m)'
  BY <1>2, <1>3, MessageUntouched DEF Apart, Through, ThroughFor
<1>5. HasWay(m) => \E h \in DOMAIN wire' : Seeks(m, h)
  <2> SUFFICES ASSUME NEW s \in on[p], Way[s][d] # None
               PROVE  \E h \in DOMAIN wire' : Seeks(m, h)
    BY DEF HasWay
  <2>1. PICK t \in on[p] : Way[t][d] \in Nodes \ {p} /\ t \in on[Way[t][d]]
    <3>1. CASE Way[s][d] = p
      BY <1>1, <3>1, OnwardLemma
    <3>2. CASE Way[s][d] # p
      BY <1>1, <3>2, WayLemma
    <3> QED  BY <3>1, <3>2
  <2> DEFINE r == Way[t][d]
             h == [net |-> t, from |-> p, to |-> r, npdu |-> WhoIs(None, d)]
  <2>2. h \in Transmit(p, t, All, WhoIs(None, d))
    BY <2>1 DEF Transmit
  <2>3. h \in sent
    BY <2>1, <2>2 DEF Question, OnAll
  <2>4. h \in DOMAIN wire'
    BY <1>2, <2>3, ExchangeBag DEF Through
  <2>5. Before(t, m) = p /\ r \notin {None, p}
    BY <2>1, BeforeFirst, RoutingAssumption
  <2>6. Seeks(m, h)
    BY <2>5 DEF Seeks, WhoIs
  <2> QED  BY <2>4, <2>6
<1>6. Sought(m)' /\ GivenUp(m)'
  BY <1>2, <1>5 DEF Sought, GivenUp, HasWay, Seeks, Before
<1> QED  BY <1>1, <1>3, <1>4, <1>6, BecomesThrough

-----------------------------------------------------------------------------
\* Nothing is put on the wire or taken from it.
LEMMA WireUntouched ==
    ASSUME Apart, Through, wire' = wire, given' = given, dropped' = dropped, lost' = lost,
           late \subseteq late', NEW m \in Messages,
           phase'[m] # phase[m] => phase'[m] = "gone"
    PROVE  ThroughFor(m)'
<1>1. ThroughFor(m)
  BY DEF Through
<1>2. Carrying(m)' = Carrying(m)
  BY DEF Carrying
<1>3. Hops(m)' /\ Covers(m)' /\ Heads(m)'
  BY <1>1, <1>2, MessageKept DEF ThroughFor
<1>4. Sought(m)' /\ GivenUp(m)'
  BY <1>1, SearchKept DEF ThroughFor
<1> QED  BY <1>3, <1>4 DEF ThroughFor

\* A message is given up when the answer is late or there is no way.
LEMMA TimeOutThrough ==
    ASSUME TypeOK, Apart, Through, NEW m \in Messages, TimeOut(m)
    PROVE  Through'
<1>1. /\ wire' = wire /\ given' = given /\ lost' = lost /\ dropped' = dropped
      /\ \A k \in Messages : phase'[k] = IF k = m THEN "unknown" ELSE phase[k]
      /\ phase[m] = "looking" /\ late \subseteq late'
      /\ wire # EmptyBag => m \in late'
  BY DEF TimeOut, TypeOK
<1>2. ASSUME NEW k \in Messages \ {m}
      PROVE  ThroughFor(k)'
  BY <1>1, WireUntouched
<1>3. ThroughFor(m)'
  <2>1. ThroughFor(m) /\ Carrying(m)' = Carrying(m)
    BY <1>1 DEF Through, Carrying
  <2>2. Hops(m)' /\ Covers(m)' /\ Heads(m)'
    BY <1>1, <2>1, MessageKept DEF ThroughFor
  <2>3. lost = 0 /\ wire = EmptyBag => ~HasWay(m)
    <3>1. DOMAIN EmptyBag = {}
      BY DEF EmptyBag, SetToBag
    <3> QED  BY <1>1, <2>1, <3>1 DEF ThroughFor, Sought
  <2>4. Sought(m)' /\ GivenUp(m)'
    BY <1>1, <2>3 DEF Sought, GivenUp, HasWay
  <2> QED  BY <2>2, <2>4 DEF ThroughFor
<1> QED  BY <1>1, <1>2, <1>3 DEF Through

LEMMA RestartThrough ==
    ASSUME Apart, Through, NEW n \in Nodes, Restart(n)
    PROVE  Through'
<1>1. /\ wire' = wire /\ given' = given /\ lost' = lost /\ dropped' = dropped /\ late' = late
      /\ \A k \in Messages : phase'[k] # phase[k] => phase'[k] = "gone"
  BY DEF Restart
<1>2. \A k \in Messages : ThroughFor(k)'
  BY <1>1, WireUntouched
<1> QED  BY <1>1, <1>2 DEF Through

\* Datagrams are lost, or sent that carry no message.
LEMMA ElseThrough ==
    ASSUME Apart, Through, NEW taken, NEW sent, Exchange(taken, sent),
           \A m \in Messages, h \in sent : ~Carries(h, m),
           given' = given, phase' = phase, dropped' = dropped, late' = late, lost' \in Nat,
           lost' = 0 => lost = 0 /\ taken = {}
    PROVE  Through'
<1>1. ASSUME NEW m \in Messages
      PROVE  ThroughFor(m)'
  <2>1. ApartFor(m) /\ ThroughFor(m)
    BY DEF Apart, Through
  <2>2. \A h \in sent : ~Carries(h, m)
    OBVIOUS
  <2>3. Hops(m)' /\ Covers(m)' /\ Heads(m)'
    BY <2>1, <2>2, MessageUntouched DEF ThroughFor
  <2>4. Sought(m)' /\ GivenUp(m)'
    BY <2>1, SearchUntouched DEF ThroughFor, Through
  <2> QED  BY <2>3, <2>4 DEF ThroughFor
<1>2. IsABag(wire')
  BY ExchangeBag DEF Through
<1> QED  BY <1>1, <1>2 DEF Through

LEMMA CallsThrough ==
    ASSUME Apart, Through, NEW n \in Nodes, AnnounceAll(n) \/ AskForAll(n)
    PROVE  Through'
<1>1. CASE AnnounceAll(n)
  <2> DEFINE sent == UNION {Transmit(n, s, All, IAm(on[n] \ {s})) : s \in on[n]}
  <2>1. \A m \in Messages, h \in sent : ~Carries(h, m)
    <3>1. SUFFICES ASSUME NEW m \in Messages, NEW s \in on[n],
                          NEW h \in Transmit(n, s, All, IAm(on[n] \ {s}))
                   PROVE  ~Carries(h, m)
      OBVIOUS
    <3>2. IAm(on[n] \ {s}).type # "apdu"
      BY DEF IAm
    <3> QED  BY <3>2, NotCarried
  <2>2. Exchange({}, sent) /\ UNCHANGED <<given, phase, dropped, late, lost>>
    BY <1>1 DEF AnnounceAll
  <2> HIDE DEF sent
  <2> QED  BY <2>1, <2>2, ElseThrough DEF Through
<1>2. CASE AskForAll(n)
  <2>1. \A m \in Messages, h \in Question(n, None) : ~Carries(h, m)
    BY QuestionCarries
  <2>2. Exchange({}, Question(n, None)) /\ UNCHANGED <<given, phase, dropped, late, lost>>
    BY <1>2 DEF AskForAll
  <2> QED  BY <2>1, <2>2, ElseThrough DEF Through
<1> QED  BY <1>1, <1>2

LEMMA LoseThrough ==
    ASSUME Apart, Through, NEW g, Lose(g)
    PROVE  Through'
<1>1. Exchange({g}, {}) /\ UNCHANGED <<given, phase, dropped, late>> /\ lost' = lost + 1
  BY DEF Lose
<1>2. lost' \in Nat /\ lost' # 0
  BY <1>1 DEF Through
<1> QED  BY <1>1, <1>2, ElseThrough

-----------------------------------------------------------------------------
\* A question that has come to the router on the way is answered or goes on.
LEMMA QuestionThrough ==
    ASSUME IInv, IInv', NEW m \in Messages, NEW g \in DOMAIN wire, g.npdu.type = "who",
           Seeks(m, g)
    PROVE  \E h \in Answers(g.to, g.net, g.from, g.npdu, path'[g.to]) : Seeks(m, h)
<1> DEFINE n == g.to  s == g.net  f == g.from  d == Target[m][1]
           sent == Answers(n, s, f, g.npdu, path'[n])
<1>1. /\ n \in Nodes /\ f \in Nodes /\ f # n /\ s \in on[n] /\ s \in on[f] /\ s \in Nets
      /\ g.npdu \in WhoIses
  BY DEF IInv, TypeOK, Sound, Datagrams, Apdus, IAms
<1>2. Way[s][d] = n /\ Before(s, m) = f /\ g.npdu.dnet = d /\ n # None
  BY <1>1, RoutingAssumption DEF Seeks
<1>3. d \in Nets /\ d # None
  <2>1. d \in Nets \cup {None}
    BY <1>1, <1>2 DEF WhoIses
  <2>2. d # None
    BY RoutingAssumption DEF Everywhere
  <2> QED  BY <2>1, <2>2
<1>4. IsRouter(n)
  BY <1>1, <1>2, <1>3, WayLemma, RouterLemma
<1>5. s # d
  BY <1>1, <1>2, <1>3, WayLemma
<1>6. CASE LeadsFrom(n, s, d, path'[n])
  <2> DEFINE h == [net |-> s, from |-> n, to |-> f, npdu |-> IAm({d})]
  <2>1. sent = Transmit(n, s, f, IAm({d}))
    BY <1>2, <1>3, <1>4, <1>6 DEF Answers
  <2>2. h \in sent
    BY <1>1, <2>1 DEF Transmit
  <2>3. Seeks(m, h)
    BY <1>1, <1>2 DEF Seeks, IAm
  <2> QED  BY <2>2, <2>3
<1>7. CASE ~LeadsFrom(n, s, d, path'[n])
  <2>1. d \notin on[n]
    BY <1>5, <1>7 DEF LeadsFrom
  <2>2. Ways(path'[n], n, d) = {}
    <3>1. ASSUME Ways(path'[n], n, d) # {}
          PROVE  FirstWay(path'[n], n, d) # s
      <4>1. n \in Nodes /\ s \in on[n] /\ d \in Nets /\ Way[s][d] = n
        BY <1>1, <1>2, <1>3
      <4>2. PICK w \in on[n] \ {s} :
                /\ FirstWay(path'[n], n, d) = w /\ path'[n][w][d] = Way[w][d]
                /\ Way[w][d] \in Nodes \ {n} /\ w \in on[Way[w][d]]
                /\ Distance[w][d] < Distance[s][d]
        BY <2>1, <3>1, <4>1, PathOnward
      <4> QED  BY <4>2
    <3> QED  BY <1>7, <2>1, <3>1 DEF LeadsFrom
  <2> DEFINE e == WhoIs(Origin(s, f, g.npdu), d)
  <2>3. sent = OnAll(n, on[n] \ {s}, e)
    BY <1>2, <1>3, <1>4, <1>7, <2>1, <2>2 DEF Answers, OtherAdapters
  <2>4. PICK t \in on[n] \ {s} : Way[t][d] \in Nodes \ {n} /\ t \in on[Way[t][d]]
    BY <1>1, <1>2, <1>3, <2>1, OnwardLemma
  <2> DEFINE r == Way[t][d]
             h == [net |-> t, from |-> n, to |-> r, npdu |-> e]
  <2>5. h \in Transmit(n, t, All, e)
    BY <2>4 DEF Transmit
  <2>6. h \in sent
    BY <2>3, <2>4, <2>5 DEF OnAll
  <2>7. Before(t, m) = n
    BY <1>1, <1>2, <2>4, BeforeLemma, RoutingAssumption
  <2>8. Seeks(m, h)
    BY <1>2, <2>4, <2>7, RoutingAssumption DEF Seeks, WhoIs
  <2> QED  BY <2>6, <2>8
<1> QED  BY <1>6, <1>7

LEMMA ReceiveWhoIsThrough ==
    ASSUME IInv, IInv', Apart, Through, NEW g \in DOMAIN wire, ReceiveWhoIs(g)
    PROVE  Through'
<1> DEFINE n == g.to  s == g.net
           paths == SourceLearned(n, s, g.from, g.npdu)
           sent == IF Spoofs(n, g.npdu) THEN {} ELSE Answers(n, s, g.from, g.npdu, paths)
<1>1. /\ Exchange({g}, sent) /\ g.npdu.type = "who" /\ path' = [path EXCEPT ![n] = paths]
      /\ UNCHANGED <<given, phase, lost, dropped, late>>
  BY DEF ReceiveWhoIs, history
<1>2. n \in Nodes /\ ~Spoofs(n, g.npdu)
  BY <1>1, NoSpoof DEF IInv, TypeOK, Datagrams
<1>3. paths = path'[n]
  BY <1>1, <1>2 DEF IInv, TypeOK
<1>4. sent = Answers(n, s, g.from, g.npdu, path'[n])
  BY <1>2, <1>3
<1>5. \A m \in Messages, h \in sent : ~Carries(h, m)
  <2> SUFFICES ASSUME NEW m \in Messages, NEW h \in Answers(n, s, g.from, g.npdu, paths)
               PROVE  ~Carries(h, m)
    OBVIOUS
  <2>1. PICK t, x, npdu : h \in Transmit(n, t, x, npdu) /\ npdu.type # "apdu"
    BY DEF Answers, OnAll, IAm, WhoIs
  <2> QED  BY <2>1, NotCarried
<1> HIDE DEF sent, paths
<1>6. /\ IsABag(wire') /\ DOMAIN wire \ {g} \subseteq DOMAIN wire' /\ sent \subseteq DOMAIN wire'
  BY <1>1, ExchangeBag DEF Through
<1>7. ASSUME NEW m \in Messages
      PROVE  ThroughFor(m)'
  <2>1. ApartFor(m) /\ ThroughFor(m) /\ ~Carries(g, m)
    BY <1>1 DEF Apart, Through, Carries
  <2>2. \A h \in sent : ~Carries(h, m)
    BY <1>5
  <2>3. Hops(m)' /\ Covers(m)' /\ Heads(m)'
    BY <1>1, <2>1, <2>2, MessageUntouched DEF ThroughFor
  <2>4. ASSUME NEW f \in DOMAIN wire, Seeks(m, f)
        PROVE  \E h \in DOMAIN wire' : Seeks(m, h)
    <3>1. CASE f = g
      BY <1>1, <1>4, <1>6, <2>4, <3>1, QuestionThrough
    <3>2. CASE f # g
      BY <1>6, <2>4, <3>2
    <3> QED  BY <3>1, <3>2
  <2>5. Sought(m)' /\ GivenUp(m)'
    BY <1>1, <2>1, <2>4, SearchKept DEF ThroughFor
  <2> QED  BY <2>3, <2>5 DEF ThroughFor
<1> QED  BY <1>1, <1>6, <1>7 DEF Through

\* An answer that has not come to the device that asked goes on towards it.
LEMMA AnswerThrough ==
    ASSUME IInv, NEW m \in Messages, NEW g \in DOMAIN wire, g.npdu.type = "iam",
           Seeks(m, g), g.to # Sender[m]
    PROVE  \E h \in Announced(g.to, g.net, g.npdu.dnets) : Seeks(m, h)
<1> DEFINE n == g.to  s == g.net  f == g.from  d == Target[m][1]  dnets == g.npdu.dnets
<1>1. /\ n \in Nodes \ {Sender[m]} /\ f \in Nodes /\ f # n /\ s \in on[n] /\ s \in Nets
      /\ dnets \subseteq Nets
  BY DEF IInv, TypeOK, Sound, Datagrams, Apdus, WhoIses, IAms
<1>2. d \in dnets /\ Way[s][d] = f /\ Before(s, m) = n
  BY DEF Seeks
<1>3. PICK t \in on[n] \ {s} : Before(t, m) \in Nodes \ {n} /\ t \in on[Before(t, m)]
  BY <1>1, <1>2, BeforeOnward
<1>4. IsRouter(n)
  BY <1>1, <1>3, RouterLemma
<1>5. Way[t][d] = n
  <2>1. d \in Nets /\ Way[s][d] \notin {n, None}
    BY <1>1, <1>2, RoutingAssumption
  <2> QED  BY <1>1, <1>3, <2>1, TreeLemma
<1> DEFINE b == Before(t, m)
           h == [net |-> t, from |-> n, to |-> b, npdu |-> IAm(dnets)]
<1>6. h \in Transmit(n, t, All, IAm(dnets))
  BY <1>3 DEF Transmit
<1>7. h \in Announced(n, s, dnets)
  BY <1>3, <1>4, <1>6 DEF Announced, OnAll, OtherAdapters
<1>8. Seeks(m, h)
  BY <1>1, <1>2, <1>3, <1>5, RoutingAssumption DEF Seeks, IAm
<1> QED  BY <1>7, <1>8

LEMMA ReceiveIAmThrough ==
    ASSUME IInv, Apart, Apart', Through, NEW g \in DOMAIN wire, ReceiveIAm(g)
    PROVE  Through'
<1> DEFINE n == g.to  s == g.net  dnets == g.npdu.dnets
           waiting == Waiting(n, dnets)
           announced == Announced(n, s, dnets)
           sent == announced \cup UNION {ToRouter(m, n, s, g.from) : m \in waiting}
<1>1. /\ phase' = [m \in Messages |-> IF m \in waiting THEN "sent" ELSE phase[m]]
      /\ Exchange({g}, sent) /\ given' = given /\ g.npdu.type = "iam"
      /\ UNCHANGED <<lost, dropped, late>>
  BY DEF ReceiveIAm, history
<1>2. /\ g.from \in Nodes /\ n \in Nodes /\ g.from # n /\ dnets \subseteq Nets /\ s \in on[n]
      /\ \A d \in dnets : Way[s][d] = g.from
  BY <1>1 DEF IInv, TypeOK, Datagrams, Apdus, WhoIses, IAms, Sound, Claims, Leads
<1>3. \A m \in Messages, h \in announced : ~Carries(h, m)
  <2> SUFFICES ASSUME NEW m \in Messages, NEW h \in announced
               PROVE  ~Carries(h, m)
    OBVIOUS
  <2>1. PICK t : h \in Transmit(n, t, All, IAm(dnets))
    BY DEF Announced, OnAll
  <2>2. IAm(dnets).type # "apdu"
    BY DEF IAm
  <2> QED  BY <2>1, <2>2, NotCarried
<1>4. \A m, k \in Messages : \A h \in ToRouter(k, n, s, g.from) : Carries(h, m) => k = m
  BY OneCarried DEF ToRouter
<1>5. waiting \subseteq Messages
  BY DEF Waiting
<1>6. \A m \in Messages, h \in sent :
          Carries(h, m) => m \in waiting /\ h \in ToRouter(m, n, s, g.from)
  BY <1>3, <1>4, <1>5
<1>7. announced \subseteq sent /\ \A m \in waiting : ToRouter(m, n, s, g.from) \subseteq sent
  OBVIOUS
<1> HIDE DEF sent, announced
<1>8. /\ IsABag(wire') /\ DOMAIN wire \ {g} \subseteq DOMAIN wire' /\ sent \subseteq DOMAIN wire'
      /\ IsABag(wire)
  BY <1>1, ExchangeBag DEF Through
<1>9. ASSUME NEW m \in waiting
      PROVE  ThroughFor(m)'
  <2>1. /\ m \in Messages /\ phase[m] = "looking" /\ Sender[m] = n /\ Target[m][1] \in dnets
        /\ phase'[m] = "sent"
    BY <1>1, <1>5 DEF Waiting
  <2>2. Target[m] # Everywhere
    BY <1>2, <2>1, RoutingAssumption DEF Everywhere
  <2>3. ApartFor(m) /\ ApartFor(m)'
    BY <2>1 DEF Apart
  <2>4. Way[s][Target[m][1]] = g.from
    BY <1>2, <2>1
  <2>5. \A h \in sent : Carries(h, m) => h \in ToRouter(m, Sender[m], s, g.from)
    BY <1>6, <2>1
  <2>6. ToRouter(m, Sender[m], s, g.from) \subseteq sent
    BY <1>7, <2>1
  <2>7. Hops(m)' /\ Covers(m)' /\ Heads(m)'
    BY <1>1, <1>2, <1>8, <2>1, <2>2, <2>3, <2>4, <2>5, <2>6, ToRouterThrough
  <2>8. Sought(m)' /\ GivenUp(m)'
    BY <2>1 DEF Sought, GivenUp
  <2> QED  BY <2>7, <2>8 DEF ThroughFor
<1>10. ASSUME NEW m \in Messages \ waiting
       PROVE  ThroughFor(m)'
  <2>1. ApartFor(m) /\ ThroughFor(m) /\ ~Carries(g, m) /\ phase'[m] = phase[m]
    BY <1>1 DEF Apart, Through, Carries
  <2>2. \A h \in sent : ~Carries(h, m)
    BY <1>6
  <2>3. Hops(m)' /\ Covers(m)' /\ Heads(m)'
    BY <1>1, <2>1, <2>2, MessageUntouched DEF ThroughFor
  <2>4. ASSUME NEW f \in DOMAIN wire, Seeks(m, f), phase'[m] = "looking"
        PROVE  \E h \in DOMAIN wire' : Seeks(m, h)
    <3>1. CASE f = g
      <4>1. Target[m][1] \in dnets
        BY <1>1, <2>4, <3>1 DEF Seeks
      <4>2. n # Sender[m]
        BY <1>10, <2>1, <2>4, <4>1 DEF Waiting
      <4>3. \E h \in announced : Seeks(m, h)
        BY <1>1, <2>4, <3>1, <4>2, AnswerThrough DEF announced
      <4> QED  BY <1>7, <1>8, <4>3
    <3>2. CASE f # g
      BY <1>8, <2>4, <3>2
    <3> QED  BY <3>1, <3>2
  <2>5. Sought(m)' /\ GivenUp(m)'
    BY <1>1, <2>1, <2>4, SearchKept DEF ThroughFor
  <2> QED  BY <2>3, <2>5 DEF ThroughFor
<1> QED  BY <1>1, <1>8, <1>9, <1>10 DEF Through

-----------------------------------------------------------------------------
LEMMA InitThrough == Init => Through
<1> SUFFICES ASSUME Init PROVE Through
  OBVIOUS
<1>1. wire = EmptyBag /\ lost = 0 /\ \A m \in Messages : phase[m] = "unsent"
  BY DEF Init
<1>2. IsABag(wire) /\ DOMAIN wire = {}
  BY <1>1 DEF IsABag, EmptyBag, SetToBag
<1>3. ASSUME NEW m \in Messages
      PROVE  ThroughFor(m)
  <2>1. Carrying(m) = {}
    BY <1>2 DEF Carrying
  <2>2. Hops(m) /\ Covers(m) /\ Heads(m) /\ Sought(m) /\ GivenUp(m)
    BY <1>1, <2>1 DEF Hops, Covers, Heads, Sought, GivenUp
  <2> QED  BY <2>2 DEF ThroughFor
<1> QED  BY <1>1, <1>2, <1>3 DEF Through

LEMMA NextThrough == IInv /\ IInv' /\ Apart /\ Apart' /\ Through /\ [Next]_vars => Through'
<1> SUFFICES ASSUME IInv, IInv', Apart, Apart', Through, [Next]_vars PROVE Through'
  OBVIOUS
<1>1. CASE UNCHANGED vars
  <2>1. UNCHANGED <<wire, given, phase, lost, dropped, late>>
    BY <1>1 DEF vars, history
  <2>2. \A m \in Messages : ThroughFor(m)'
    BY <2>1, WireUntouched
  <2> QED  BY <2>1, <2>2 DEF Through
<1>2. CASE \E m \in Messages :
              SendToAll(m) \/ SendDirectly(m) \/ SendToRouter(m) \/ LookForRouter(m) \/ TimeOut(m)
  <2>1. PICK m \in Messages :
            SendToAll(m) \/ SendDirectly(m) \/ SendToRouter(m) \/ LookForRouter(m) \/ TimeOut(m)
    BY <1>2
  <2>2. CASE SendToAll(m) \/ SendDirectly(m) \/ SendToRouter(m)
    BY <2>2, SendThrough
  <2>3. CASE LookForRouter(m)
    BY <2>3, LookForRouterThrough
  <2>4. CASE TimeOut(m)
    BY <2>4, TimeOutThrough DEF IInv
  <2> QED  BY <2>1, <2>2, <2>3, <2>4
<1>3. CASE \E g \in BagToSet(wire) :
              ReceiveApdu(g) \/ ReceiveWhoIs(g) \/ ReceiveIAm(g) \/ Lose(g)
  BY <1>3, ReceiveApduThrough, ReceiveWhoIsThrough, ReceiveIAmThrough, LoseThrough DEF BagToSet
<1>4. CASE \E n \in Nodes : AnnounceAll(n) \/ AskForAll(n) \/ Restart(n)
  BY <1>4, CallsThrough, RestartThrough
<1> QED  BY <1>1, <1>2, <1>3, <1>4 DEF Next

LEMMA ThroughInvariant == Spec => []Through
BY InitThrough, NextThrough, Invariant, ApartInvariant, PTL DEF Spec

\* With nothing under way a message for everybody has reached every device: of
\* those it has not, take the one the fewest routers from its sender.
LEMMA EverybodyReached ==
    ASSUME Through, NEW m \in Messages, Target[m] = Everywhere, phase[m] = "sent", lost = 0,
           Carrying(m) = {}
    PROVE  \A n \in Nodes \ {Sender[m]} : given[m][n] # <<>>
<1> DEFINE p == Sender[m]  d == local[p]
           far(k) == \E n \in Nodes \ {p} : \E s \in on[n] :
                         Before(s, m) = n /\ given[m][n] = <<>> /\ Distance[s][d] = k
           K == {k \in Nat : far(k)}
<1>1. /\ p \in Nodes /\ d \in Nets /\ \A n \in Nodes : on[n] \subseteq Nets
      /\ \A n \in Nodes : local[n] \in on[n]
  BY RoutingAssumption
<1>2. ASSUME NEW n \in Nodes \ {p}, NEW s \in on[n], Before(s, m) \notin {n, None},
             Before(s, m) = p \/ given[m][Before(s, m)] # <<>>
      PROVE  given[m][n] # <<>>
  BY <1>2 DEF Through, ThroughFor, Covers, Reached
<1>3. K = {}
  <2> SUFFICES ASSUME K # {} PROVE FALSE
    OBVIOUS
  <2>1. IsWellFoundedOn(OpToRel(<, Nat), Nat)
    BY NatLessThanWellFounded
  <2>2. PICK k \in K : \A j \in K : ~(<<j, k>> \in OpToRel(<, Nat))
    <3>1. K \subseteq Nat
      OBVIOUS
    <3> HIDE DEF K
    <3> QED  BY <2>1, <3>1, WFMin
  <2>3. PICK n \in Nodes \ {p} : \E s \in on[n] :
            Before(s, m) = n /\ given[m][n] = <<>> /\ Distance[s][d] = k
    BY <2>2
  <2>4. PICK s \in on[n] : Before(s, m) = n /\ given[m][n] = <<>> /\ Distance[s][d] = k
    BY <2>3
  <2>5. PICK t \in on[n] \ {s} :
            /\ Before(t, m) \in Nodes \ {n} /\ t \in on[Before(t, m)]
            /\ Distance[t][d] < Distance[s][d]
    BY <1>1, <2>4, BeforeOnward
  <2> DEFINE b == Before(t, m)
  <2>6. Before(t, m) \notin {n, None}
    BY <2>5, RoutingAssumption
  <2>7. b # p /\ given[m][b] = <<>>
    BY <1>2, <2>4, <2>5, <2>6
  <2>8. Distance[t][d] \in Nat
    BY <1>1, <2>5, ReachAssumption
  <2>9. Distance[t][d] \in K
    BY <2>5, <2>7, <2>8
  <2>10. <<Distance[t][d], k>> \in OpToRel(<, Nat)
    BY <2>2, <2>4, <2>5, <2>8 DEF OpToRel
  <2> QED  BY <2>2, <2>9, <2>10
<1>4. ASSUME NEW n \in Nodes \ {p}
      PROVE  given[m][n] # <<>>
  <2> DEFINE s == local[n]
  <2>1. s \in on[n] /\ s \in Nets
    BY <1>1
  <2>2. Before(s, m) # None
    BY <1>1, ReachAssumption, RoutingAssumption DEF Before
  <2>3. CASE Before(s, m) = n
    <3>1. Distance[s][d] \in Nat
      BY <1>1, <2>1, ReachAssumption
    <3> QED  BY <1>3, <2>1, <2>3, <3>1
  <2>4. CASE Before(s, m) # n
    <3> DEFINE b == Before(s, m)
    <3>1. b \in Nodes /\ s \in on[b]
      BY <2>1, <2>2, BeforeWay
    <3>2. b = p \/ given[m][b] # <<>>
      <4>1. Distance[s][d] \in Nat
        BY <1>1, <2>1, ReachAssumption
      <4> QED  BY <1>3, <3>1, <4>1
    <3> QED  BY <1>2, <2>1, <2>2, <2>4, <3>2
  <2> QED  BY <2>3, <2>4
<1> QED  BY <1>4

(***************************************************************************)
(* In any tree of networks that all devices can reach each other in, and   *)
(* with fewer routers on any way than a message may pass: once nothing is  *)
(* under way and nothing was lost, a message that was sent has reached all *)
(* it is for unless a restarted router had to look for a path for it, and  *)
(* none was given up but for want of a route or for a late answer.         *)
(***************************************************************************)
THEOREM MessagesGetThrough == Spec => []GetsThrough
<1>1. Through => GetsThrough
  <2> SUFFICES ASSUME Through, wire = EmptyBag, lost = 0, NEW m \in Messages
               PROVE  /\ phase[m] = "sent" /\ m \notin dropped =>
                             \A n \in Addressees(m) : given[m][n] # <<>>
                      /\ phase[m] = "unknown" => m \in late \/ ~HasWay(m)
    BY DEF GetsThrough
  <2>1. Carrying(m) = {}
    <3>1. DOMAIN wire = {}
      BY DEF EmptyBag, SetToBag
    <3> QED  BY <3>1 DEF Carrying
  <2>2. ThroughFor(m)
    BY DEF Through
  <2>3. ASSUME phase[m] = "sent", Target[m] = Everywhere
        PROVE  \A n \in Addressees(m) : given[m][n] # <<>>
    BY <2>1, <2>3, EverybodyReached DEF Addressees
  <2>4. ASSUME phase[m] = "sent", Target[m] # Everywhere, m \notin dropped
        PROVE  \A n \in Addressees(m) : given[m][n] # <<>>
    BY <2>1, <2>2, <2>4 DEF ThroughFor, Heads, Reached
  <2>5. phase[m] = "unknown" => m \in late \/ ~HasWay(m)
    BY <2>2 DEF ThroughFor, GivenUp
  <2> QED  BY <2>3, <2>4, <2>5
<1> QED  BY <1>1, ThroughInvariant, PTL

=============================================================================
