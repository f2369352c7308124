------------------------- MODULE NetworkLayerProofs -------------------------
(***************************************************************************)
(* The routing cache stays consistent, for any networks, routers and       *)
(* statuses: as the class keeps it, and as the handlers of a station with  *)
(* one socket use it.                                                      *)
(*                                                                         *)
(* For the second part what is ready in the event loop matters: the task   *)
(* that renumbers the cache is there before the next datagram's, and       *)
(* everything known is known under the number it will rename; a future     *)
(* that is done is off the list before the next datagram's task runs.      *)
(***************************************************************************)
EXTENDS NetworkLayer, FiniteSetTheorems, SequenceTheorems, TLAPS

-----------------------------------------------------------------------------
(* The routing cache.                                                      *)

\* The shape of the dictionaries and their agreement hold when both are empty.
LEMMA CacheInitLemma == CacheInit => CacheTypeOK /\ Consistent
  BY DEF CacheInit, CacheTypeOK, Consistent, DnetsOf, HasRouter, HasPath

(***************************************************************************)
(* update_path_info: what it takes from the other routers is what it gives *)
(* to this one.                                                            *)
(***************************************************************************)
LEMMA UpdatePathInfoLemma ==
    ASSUME CacheTypeOK, Consistent,
           NEW s \in Snets, NEW a \in Routers, NEW ds \in SUBSET Dnets,
           UpdatePathInfo(s, a, ds)
    PROVE  CacheTypeOK' /\ Consistent'
<1> DEFINE new == ds \ DnetsOf(s, a)
           gone == {<<s, b>> : b \in Emptied(s, new)}
<1>1. CASE HasRouter(s, a) /\ new = {}
  BY <1>1 DEF UpdatePathInfo, cacheVars, CacheTypeOK, Consistent, DnetsOf,
              HasRouter, HasPath, RouterOf
<1>2. CASE ~(HasRouter(s, a) /\ new = {})
  <2>1. /\ router_dnets' =
             [k \in (DOMAIN router_dnets \ gone) \cup {<<s, a>>} |->
                 IF k = <<s, a>> THEN DnetsOf(s, a) \cup new
                 ELSE IF k[1] = s THEN router_dnets[k] \ Via(s, k[2], new)
                 ELSE router_dnets[k]]
        /\ path_info' =
             [k \in DOMAIN path_info \cup ({s} \X new) |->
                 IF k \in {s} \X new THEN <<a, Available>> ELSE path_info[k]]
    BY <1>2 DEF UpdatePathInfo
  <2>2. DnetsOf(s, a) \in SUBSET Dnets
    BY DEF CacheTypeOK, DnetsOf, HasRouter
  <2>3. CacheTypeOK'
    <3> HIDE DEF new, gone
    <3>1. new \in SUBSET Dnets
      BY <2>2 DEF new
    <3>2. (DOMAIN path_info \subseteq Snets \X Dnets)'
      BY <2>1, <3>1 DEF CacheTypeOK
    <3>3. (\A k \in DOMAIN path_info : path_info[k] \in Routers \X Statuses)'
      BY <2>1, <3>1, CacheAssumption DEF CacheTypeOK
    <3>4. (DOMAIN router_dnets \subseteq Snets \X Routers)'
      BY <2>1 DEF CacheTypeOK
    <3>5. (\A k \in DOMAIN router_dnets : router_dnets[k] \in SUBSET Dnets)'
      BY <2>1, <2>2, <3>1 DEF CacheTypeOK
    <3> QED BY <3>2, <3>3, <3>4, <3>5 DEF CacheTypeOK
  <2>4. ASSUME NEW t \in Snets, NEW b \in Routers, NEW d \in Dnets
        PROVE  (d \in DnetsOf(t, b) <=> (HasPath(t, d) /\ RouterOf(t, d) = b))'
    <3>1. d \in DnetsOf(t, b) <=> (HasPath(t, d) /\ RouterOf(t, d) = b)
      BY DEF Consistent
    <3>2. CASE t # s
      BY <3>1, <3>2, <2>1 DEF DnetsOf, HasRouter, HasPath, RouterOf
    <3>3. CASE t = s /\ b = a
      BY <3>1, <3>3, <2>1 DEF DnetsOf, HasRouter, HasPath, RouterOf
    <3>4. CASE t = s /\ b # a
      <4>1. DnetsOf(s, b)' = DnetsOf(s, b) \ Via(s, b, new)
        <5>1. CASE HasRouter(s, b) /\ b \notin Emptied(s, new)
          BY <5>1, <3>4, <2>1 DEF DnetsOf, HasRouter
        <5>2. CASE b \in Emptied(s, new)
          BY <5>2, <3>4, <2>1 DEF DnetsOf, HasRouter, Emptied
        <5>3. CASE ~HasRouter(s, b)
          BY <5>3, <3>4, <2>1 DEF DnetsOf, HasRouter
        <5> QED BY <5>1, <5>2, <5>3
      <4>2. CASE d \in new
        BY <4>1, <4>2, <3>1, <3>4, <2>1 DEF Via, HasPath, RouterOf
      <4>3. CASE d \notin new
        BY <4>1, <4>3, <3>1, <3>4, <2>1 DEF Via, HasPath, RouterOf
      <4> QED BY <4>2, <4>3
    <3> QED BY <3>2, <3>3, <3>4
  <2> QED BY <2>3, <2>4 DEF Consistent
<1> QED BY <1>1, <1>2

\* remove_path_info with a router's address: the router and its paths go together.
LEMMA RemoveRouterLemma ==
    ASSUME CacheTypeOK, Consistent,
           NEW s \in Snets, NEW a \in Routers, RemoveRouter(s, a)
    PROVE  CacheTypeOK' /\ Consistent'
<1>1. CacheTypeOK'
  BY DEF RemoveRouter, CacheTypeOK
<1>2. ASSUME NEW t \in Snets, NEW b \in Routers, NEW d \in Dnets
      PROVE  (d \in DnetsOf(t, b) <=> (HasPath(t, d) /\ RouterOf(t, d) = b))'
  <2>1. /\ d \in DnetsOf(t, b) <=> (HasPath(t, d) /\ RouterOf(t, d) = b)
        /\ d \in DnetsOf(t, a) <=> (HasPath(t, d) /\ RouterOf(t, d) = a)
    BY DEF Consistent
  <2>2. DnetsOf(t, b)' = IF t = s /\ b = a THEN {} ELSE DnetsOf(t, b)
    BY DEF RemoveRouter, DnetsOf, HasRouter
  <2>3. HasPath(t, d)' <=> (HasPath(t, d) /\ ~(t = s /\ d \in DnetsOf(s, a)))
    BY DEF RemoveRouter, HasPath
  <2>4. HasPath(t, d)' => RouterOf(t, d)' = RouterOf(t, d)
    BY DEF RemoveRouter, HasPath, RouterOf
  <2> QED BY <2>1, <2>2, <2>3, <2>4
<1> QED BY <1>1, <1>2 DEF Consistent

\* remove_path_info with networks: each is taken from the router it leads to.
LEMMA RemoveDnetsLemma ==
    ASSUME CacheTypeOK, Consistent,
           NEW s \in Snets, NEW ds \in SUBSET Dnets, RemoveDnets(s, ds)
    PROVE  CacheTypeOK' /\ Consistent'
<1>1. CacheTypeOK'
  BY DEF RemoveDnets, CacheTypeOK
<1>2. ASSUME NEW t \in Snets, NEW b \in Routers, NEW d \in Dnets
      PROVE  (d \in DnetsOf(t, b) <=> (HasPath(t, d) /\ RouterOf(t, d) = b))'
  BY DEF RemoveDnets, Consistent, DnetsOf, HasRouter, HasPath, RouterOf, Via
<1> QED BY <1>1, <1>2 DEF Consistent

\* update_router_status: no path changes its router, and none is new.
LEMMA UpdateRouterStatusLemma ==
    ASSUME CacheTypeOK, Consistent,
           NEW s \in Snets, NEW a \in Routers, NEW st \in Statuses,
           UpdateRouterStatus(s, a, st)
    PROVE  CacheTypeOK' /\ Consistent'
<1>1. CacheTypeOK'
  BY DEF UpdateRouterStatus, CacheTypeOK, DnetsOf, HasRouter
<1>2. ASSUME NEW t \in Snets, NEW b \in Routers, NEW d \in Dnets
      PROVE  (d \in DnetsOf(t, b) <=> (HasPath(t, d) /\ RouterOf(t, d) = b))'
  BY DEF UpdateRouterStatus, Consistent, DnetsOf, HasRouter, HasPath, RouterOf
<1> QED BY <1>1, <1>2 DEF Consistent

\* update_source_network to a number nothing is known under: both dictionaries
\* are renamed alike.
LEMMA UpdateSourceNetworkLemma ==
    ASSUME CacheTypeOK, Consistent,
           NEW old \in Snets, NEW new \in Snets,
           Unused(new), UpdateSourceNetwork(old, new)
    PROVE  CacheTypeOK' /\ Consistent'
<1> DEFINE routers == {a \in Routers : HasRouter(old, a)}
           moved == UNION {DnetsOf(old, a) : a \in routers}
<1>1. /\ old # new
      /\ router_dnets' =
           [k \in (DOMAIN router_dnets \ ({old} \X routers)) \cup ({new} \X routers) |->
               IF k \in {new} \X routers THEN router_dnets[<<old, k[2]>>]
               ELSE router_dnets[k]]
      /\ path_info' =
           [k \in (DOMAIN path_info \ ({old} \X moved)) \cup ({new} \X moved) |->
               IF k \in {new} \X moved THEN path_info[<<old, k[2]>>]
               ELSE path_info[k]]
  BY DEF UpdateSourceNetwork, MoveSource, RoutersOf
<1>2. CacheTypeOK'
  <2>1. routers \subseteq Routers /\ \A a \in routers : <<old, a>> \in DOMAIN router_dnets
    BY DEF HasRouter
  <2>2. moved \subseteq Dnets
    BY DEF CacheTypeOK, DnetsOf, HasRouter
  <2>3. \A d \in moved : <<old, d>> \in DOMAIN path_info
    BY DEF UpdateSourceNetwork, Movable, RoutersOf, HasPath
  <2> HIDE DEF routers, moved
  <2>4. (DOMAIN path_info \subseteq Snets \X Dnets)'
    BY <1>1, <2>2 DEF CacheTypeOK
  <2>5. (\A k \in DOMAIN path_info : path_info[k] \in Routers \X Statuses)'
    BY <1>1, <2>3 DEF CacheTypeOK
  <2>6. (DOMAIN router_dnets \subseteq Snets \X Routers)'
    BY <1>1, <2>1 DEF CacheTypeOK
  <2>7. (\A k \in DOMAIN router_dnets : router_dnets[k] \in SUBSET Dnets)'
    BY <1>1, <2>1 DEF CacheTypeOK
  <2> QED BY <2>4, <2>5, <2>6, <2>7 DEF CacheTypeOK
<1>3. ASSUME NEW t \in Snets, NEW b \in Routers, NEW d \in Dnets
      PROVE  (d \in DnetsOf(t, b) <=> (HasPath(t, d) /\ RouterOf(t, d) = b))'
  <2>1. \A u \in Snets, a \in Routers :
            d \in DnetsOf(u, a) <=> (HasPath(u, d) /\ RouterOf(u, d) = a)
    BY DEF Consistent
  <2>2. d \in moved <=> \E a \in Routers : d \in DnetsOf(old, a)
    BY DEF DnetsOf
  <2>3. d \in moved <=> (HasPath(old, d) /\ RouterOf(old, d) \in Routers)
    BY <2>1, <2>2
  <2>4. HasPath(old, d) => RouterOf(old, d) \in Routers
    BY DEF CacheTypeOK, HasPath, RouterOf
  <2>5. ~HasPath(new, d)
    <3>1. HasPath(new, d) => RouterOf(new, d) \in Routers
      BY DEF CacheTypeOK, HasPath, RouterOf
    <3>2. \A a \in Routers : DnetsOf(new, a) = {}
      BY DEF Unused, DnetsOf
    <3> QED BY <2>1, <3>1, <3>2
  <2> HIDE DEF moved
  <2>6. DnetsOf(t, b)' = IF t = new THEN DnetsOf(old, b)
                         ELSE IF t = old THEN {} ELSE DnetsOf(t, b)
    BY <1>1 DEF DnetsOf, HasRouter, Unused
  <2>7. /\ HasPath(t, d)' <=> IF t = new THEN d \in moved
                             ELSE IF t = old THEN FALSE ELSE HasPath(t, d)
        /\ HasPath(t, d)' => RouterOf(t, d)' = IF t = new THEN RouterOf(old, d)
                                               ELSE RouterOf(t, d)
    BY <1>1, <2>3, <2>4, <2>5 DEF HasPath, RouterOf
  <2> QED BY <1>1, <2>1, <2>3, <2>4, <2>6, <2>7
<1> QED BY <1>2, <1>3 DEF Consistent

(***************************************************************************)
(* Every operation of the class keeps the shape and the agreement of the   *)
(* two dictionaries, so none of the RuntimeErrors of the class is raised   *)
(* and a router the cache answers with is one that announced the network.  *)
(***************************************************************************)
THEOREM CacheConsistent == CacheSpec => [](CacheTypeOK /\ Consistent)
<1>1. CacheTypeOK /\ Consistent /\ [CacheNext]_cacheVars => (CacheTypeOK /\ Consistent)'
  <2> SUFFICES ASSUME CacheTypeOK, Consistent, [CacheNext]_cacheVars
               PROVE  (CacheTypeOK /\ Consistent)'
    OBVIOUS
  <2>1. CASE UNCHANGED cacheVars
    BY <2>1 DEF cacheVars, CacheTypeOK, Consistent, DnetsOf, HasRouter, HasPath, RouterOf
  <2>2. CASE CacheNext
    BY <2>2, UpdatePathInfoLemma, RemoveRouterLemma, RemoveDnetsLemma,
       UpdateRouterStatusLemma, UpdateSourceNetworkLemma DEF CacheNext
  <2> QED BY <2>1, <2>2
<1> QED BY <1>1, CacheInitLemma, PTL DEF CacheSpec

-----------------------------------------------------------------------------
(* The invariant of the network layer.                                     *)

Callbacks ==
    [run : {"datagram"}, socket : {"local", "broadcast"}, npdu : Npdus]
    \cup [run : {"renumber"}, old : Snets, new : Snets]
    \cup [run : {"resolved"}, ask : Nat]
    \cup [run : {"done", "wakeup"}, send : Sends]

IsRun(k, run) == ready[k].run = run

IsFor(k, run, m) == ready[k].run = run /\ ready[k].send = m

Shape ==
    /\ adapterNet \in Snets
    /\ sockets \subseteq {"local", "broadcast"}
    /\ ready \in Seq(Callbacks)
    /\ sends \in [Sends -> [state : {"unsent", "waiting", "sent", "UnknownRoute"},
                            list : Seq(Routers), done : BOOLEAN, timer : BOOLEAN]]
    /\ futures \in Seq(Sends) /\ IsInjective(futures)
    /\ asks \in Nat /\ resolution \in Nat

\* What the event loop holds of a message: nothing; what ends its future before what
\* goes on with it; what ends its future; and that before any datagram.
Silent(m) == \A k \in 1..Len(ready) : ~IsFor(k, "done", m) /\ ~IsFor(k, "wakeup", m)

WakesAfterDone(m) ==
    \A k \in 1..Len(ready) : IsFor(k, "wakeup", m) => \E j \in 1..(k - 1) : IsFor(j, "done", m)

WillBeDone(m) == \E j \in 1..Len(ready) : IsFor(j, "done", m)

DoneFirst(m) ==
    \E j \in 1..Len(ready) :
        IsFor(j, "done", m) /\ \A i \in 1..Len(ready) : IsRun(i, "datagram") => j < i

Waiting ==
    \A m \in Sends :
        /\ sends[m].state = "unsent" => m \notin ToSet(futures) /\ ~sends[m].timer /\ Silent(m)
        /\ sends[m].list # <<>> => sends[m].done
        /\ sends[m].state = "UnknownRoute" => m \notin ToSet(futures)
        /\ m \in ToSet(futures) => WakesAfterDone(m)

\* One socket: the order of what is ready.
OneAtATime ==
    /\ \A i \in 1..Len(ready) : IsRun(i, "datagram") => ready[i].socket = "local"
    /\ \A i, j \in 1..Len(ready) : IsRun(i, "datagram") /\ IsRun(j, "datagram") => i = j
    /\ \A i, j \in 1..Len(ready) : IsRun(i, "renumber") /\ IsRun(j, "renumber") => i = j
    /\ \A i, j \in 1..Len(ready) : IsRun(i, "renumber") /\ IsRun(j, "datagram") => i < j

\* What is known is known under one number, the adapter's or the one it had
\* until it learned another.
KnownUnder(s) == \A t \in Snets \ {s} : Unused(t)

KnownUnderOne ==
    /\ (\A k \in 1..Len(ready) : ~IsRun(k, "renumber")) => KnownUnder(adapterNet)
    /\ \A k \in 1..Len(ready) : IsRun(k, "renumber") =>
           ready[k].new = adapterNet /\ ready[k].old # adapterNet /\ KnownUnder(ready[k].old)

\* A future that is done is taken off the list before it can be given another router.
ListedUntilDone ==
    /\ \A m \in ToSet(futures) :
           sends[m].done => WillBeDone(m) /\ (sends[m].list # <<>> => DoneFirst(m))
    /\ \A m \in Sends : Len(sends[m].list) <= 1

LayerInv ==
    /\ Shape
    /\ Waiting
    /\ OneSocket => /\ CacheTypeOK /\ Consistent
                    /\ OneAtATime /\ KnownUnderOne /\ ListedUntilDone
                    /\ HeardRouterIsUsed

-----------------------------------------------------------------------------
\* One element taken out.
LEMMA WithoutLemma ==
    ASSUME NEW S, NEW s \in Seq(S), NEW x, IsInjective(s)
    PROVE  /\ Without(s, x) \in Seq(S)
           /\ ToSet(Without(s, x)) = ToSet(s) \ {x}
           /\ IsInjective(Without(s, x))
<1>1. CASE x \notin ToSet(s)
  BY <1>1 DEF Without
<1>2. CASE x \in ToSet(s)
  <2> DEFINE p == CHOOSE i \in 1..Len(s) : s[i] = x
             w == Without(s, x)
  <2>1. Len(s) \in Nat /\ DOMAIN s = 1..Len(s)
    OBVIOUS
  <2>2. p \in 1..Len(s) /\ s[p] = x
    BY <1>2, <2>1 DEF ToSet
  <2>3. w = SubSeq(s, 1, p - 1) \o SubSeq(s, p + 1, Len(s))
    BY <1>2 DEF Without, RemoveAt
  <2> HIDE DEF p, w
  <2>4. /\ w \in Seq(S)
        /\ Len(w) = Len(s) - 1
        /\ DOMAIN w = 1..(Len(s) - 1)
        /\ \A i \in 1..(Len(s) - 1) : w[i] = s[IF i < p THEN i ELSE i + 1]
    <3> DEFINE a == SubSeq(s, 1, p - 1)
               b == SubSeq(s, p + 1, Len(s))
    <3>1. /\ a \in Seq(S)
          /\ Len(a) = p - 1
          /\ \A i \in 1..(p - 1) : a[i] = s[i]
      <4>1. \A i \in 1..(p - 1) : s[i] \in S
        BY <2>1, <2>2
      <4> QED BY <4>1, <2>2, SubSeqProperties
    <3>2. /\ b \in Seq(S)
          /\ Len(b) = Len(s) - p
          /\ \A i \in 1..(Len(s) - p) : b[i] = s[p + i]
      <4>1. \A i \in (p + 1)..Len(s) : s[i] \in S
        BY <2>1, <2>2
      <4>2. p + 1 \in Int /\ Len(s) \in Int
        BY <2>1, <2>2
      <4>3. /\ b \in Seq(S)
            /\ Len(b) = IF p + 1 <= Len(s) THEN Len(s) - (p + 1) + 1 ELSE 0
            /\ \A i \in 1..(Len(s) - (p + 1) + 1) : b[i] = s[(p + 1) + i - 1]
        BY <4>1, <4>2, SubSeqProperties
      <4> HIDE DEF b
      <4>4. (IF p + 1 <= Len(s) THEN Len(s) - (p + 1) + 1 ELSE 0) = Len(s) - p
        <5>1. p \in Int /\ Len(s) \in Int /\ p <= Len(s)
          BY <2>1, <2>2
        <5>2. CASE p < Len(s)
          BY <5>1, <5>2
        <5>3. CASE p = Len(s)
          BY <5>1, <5>3
        <5> QED BY <5>1, <5>2, <5>3
      <4>5. ASSUME NEW i \in 1..(Len(s) - p) PROVE b[i] = s[p + i]
        <5>1. i \in 1..(Len(s) - (p + 1) + 1) /\ (p + 1) + i - 1 = p + i
          BY <2>1, <2>2
        <5> QED BY <4>3, <5>1
      <4> QED BY <4>3, <4>4, <4>5
    <3>3. w = a \o b
      BY <2>3
    <3> HIDE DEF a, b
    <3>4. /\ w \in Seq(S)
          /\ Len(w) = Len(a) + Len(b)
          /\ \A i \in 1..(Len(a) + Len(b)) :
                 w[i] = IF i <= Len(a) THEN a[i] ELSE b[i - Len(a)]
      BY <3>1, <3>2, <3>3, ConcatProperties
    <3>5. Len(w) = Len(s) - 1
      BY <3>1, <3>2, <3>4, <2>1, <2>2
    <3>6. ASSUME NEW i \in 1..(Len(s) - 1)
          PROVE  w[i] = s[IF i < p THEN i ELSE i + 1]
      <4>1. w[i] = IF i <= p - 1 THEN a[i] ELSE b[i - (p - 1)]
        BY <3>1, <3>2, <3>4, <2>1, <2>2
      <4>2. CASE i < p
        BY <4>1, <4>2, <2>1, <2>2, <3>1
      <4>3. CASE ~(i < p)
        <5>1. i - (p - 1) \in 1..(Len(s) - p) /\ p + (i - (p - 1)) = i + 1
          BY <4>3, <2>1, <2>2
        <5>2. b[i - (p - 1)] = s[i + 1]
          BY <5>1, <3>2
        <5>3. ~(i <= p - 1)
          BY <4>3, <2>1, <2>2
        <5> QED BY <5>2, <5>3, <4>1, <4>3
      <4> QED BY <4>2, <4>3
    <3> QED BY <3>4, <3>5, <3>6
  <2> DEFINE at(i) == IF i < p THEN i ELSE i + 1
  <2>a. ASSUME NEW i \in 1..(Len(s) - 1)
        PROVE  at(i) \in 1..Len(s) /\ at(i) # p
    BY <2>1, <2>2
  <2>b. ASSUME NEW i \in 1..(Len(s) - 1), NEW j \in 1..(Len(s) - 1), i < j
        PROVE  at(i) < at(j)
    BY <2>b, <2>1, <2>2
  <2>c. ASSUME NEW k \in 1..Len(s), k # p
        PROVE  \E i \in 1..(Len(s) - 1) : at(i) = k
    <3>1. CASE k < p
      BY <3>1, <2>1, <2>2
    <3>2. CASE k > p
      <4>1. k - 1 \in 1..(Len(s) - 1) /\ at(k - 1) = k
        BY <3>2, <2>1, <2>2
      <4> QED BY <4>1
    <3> QED BY <2>c, <3>1, <3>2, <2>2
  <2>d. \A i \in 1..(Len(s) - 1) : w[i] = s[at(i)]
    BY <2>4
  <2> HIDE DEF at
  <2>5. ToSet(w) = ToSet(s) \ {x}
    <3>1. ASSUME NEW i \in 1..(Len(s) - 1) PROVE w[i] \in ToSet(s) \ {x}
      <4>1. w[i] = s[at(i)] /\ at(i) \in 1..Len(s) /\ at(i) # p
        BY <2>a, <2>d
      <4>2. s[at(i)] # s[p]
        BY <4>1, <2>1, <2>2 DEF IsInjective
      <4>3. w[i] # x
        BY <4>1, <4>2, <2>2
      <4>4. ToSet(s) = {s[k] : k \in 1..Len(s)}
        BY <2>1 DEF ToSet
      <4>5. s[at(i)] \in ToSet(s)
        BY <4>1, <4>4
      <4> QED BY <4>1, <4>3, <4>5
    <3>2. ASSUME NEW k \in 1..Len(s), s[k] # x
          PROVE  \E i \in 1..(Len(s) - 1) : w[i] = s[k]
      <4>1. k # p
        BY <3>2, <2>2
      <4>2. PICK i \in 1..(Len(s) - 1) : at(i) = k
        BY <4>1, <2>c
      <4>3. w[i] = s[k]
        BY <4>2, <2>d
      <4> QED BY <4>3
    <3>3. ToSet(w) = {w[i] : i \in 1..(Len(s) - 1)} /\ ToSet(s) = {s[k] : k \in 1..Len(s)}
      <4>1. DOMAIN w = 1..(Len(s) - 1) /\ DOMAIN s = 1..Len(s)
        BY <2>1, <2>4
      <4> HIDE DEF w
      <4> QED BY <4>1 DEF ToSet
    <3>4. ASSUME NEW y \in ToSet(w) PROVE y \in ToSet(s) \ {x}
      BY <3>1, <3>3
    <3>5. ASSUME NEW y \in ToSet(s) \ {x} PROVE y \in ToSet(w)
      <4>1. PICK k \in 1..Len(s) : y = s[k]
        BY <3>3
      <4>2. PICK i \in 1..(Len(s) - 1) : w[i] = s[k]
        BY <4>1, <3>2
      <4> QED BY <4>1, <4>2, <3>3
    <3> QED BY <3>4, <3>5
  <2>6. IsInjective(w)
    <3>1. ASSUME NEW i \in 1..(Len(s) - 1), NEW j \in 1..(Len(s) - 1), w[i] = w[j]
          PROVE  i = j
      <4>1. at(i) = at(j)
        BY <3>1, <2>1, <2>a, <2>d DEF IsInjective
      <4>2. ~(i < j) /\ ~(j < i)
        <5>1. at(i) \in Int /\ at(j) \in Int
          BY <2>a
        <5> QED BY <4>1, <5>1, <2>b
      <4> QED BY <4>2
    <3> QED BY <3>1, <2>4 DEF IsInjective
  <2> QED BY <2>4, <2>5, <2>6 DEF w
<1> QED BY <1>1, <1>2

\* What the queue is once its head has run.
LEMMA ScheduledLemma ==
    ASSUME Shape, ready # <<>>, NEW callbacks \in Seq(Callbacks), Schedules(callbacks)
    PROVE  /\ ready' \in Seq(Callbacks)
           /\ Len(ready) \in Nat \ {0} /\ Len(callbacks) \in Nat
           /\ Len(ready') = Len(ready) - 1 + Len(callbacks)
           /\ \A i \in 1..(Len(ready) - 1) : ready'[i] = ready[i + 1]
           /\ \A i \in 1..Len(callbacks) : ready'[Len(ready) - 1 + i] = callbacks[i]
           /\ Head(ready) = ready[1] /\ ready[1] \in Callbacks
<1>1. ready \in Seq(Callbacks) /\ ready' = Tail(ready) \o callbacks
  BY DEF Shape, Schedules
<1>2. /\ Tail(ready) \in Seq(Callbacks)
      /\ Len(ready) \in Nat \ {0} /\ Len(callbacks) \in Nat
      /\ Len(Tail(ready)) = Len(ready) - 1
      /\ \A i \in 1..(Len(ready) - 1) : Tail(ready)[i] = ready[i + 1]
      /\ Head(ready) = ready[1] /\ ready[1] \in Callbacks
  BY <1>1
<1>3. /\ ready' \in Seq(Callbacks)
      /\ Len(ready') = Len(Tail(ready)) + Len(callbacks)
      /\ \A i \in 1..(Len(Tail(ready)) + Len(callbacks)) :
             ready'[i] = IF i <= Len(Tail(ready)) THEN Tail(ready)[i]
                         ELSE callbacks[i - Len(Tail(ready))]
  BY <1>1, <1>2, ConcatProperties
<1>4. ASSUME NEW i \in 1..(Len(ready) - 1) PROVE ready'[i] = ready[i + 1]
  BY <1>2, <1>3
<1>5. ASSUME NEW i \in 1..Len(callbacks) PROVE ready'[Len(ready) - 1 + i] = callbacks[i]
  <2>1. /\ Len(ready) - 1 + i \in 1..(Len(ready) - 1 + Len(callbacks))
        /\ ~(Len(ready) - 1 + i <= Len(ready) - 1)
        /\ Len(ready) - 1 + i - (Len(ready) - 1) = i
    BY <1>2
  <2> QED BY <1>2, <1>3, <2>1
<1> QED BY <1>2, <1>3, <1>4, <1>5

\* And when something is put at its end while nothing of it runs.
LEMMA AddedLemma ==
    ASSUME Shape, NEW callbacks \in Seq(Callbacks), ready' = ready \o callbacks
    PROVE  /\ ready' \in Seq(Callbacks)
           /\ Len(ready) \in Nat /\ Len(callbacks) \in Nat
           /\ Len(ready') = Len(ready) + Len(callbacks)
           /\ \A i \in 1..Len(ready) : ready'[i] = ready[i]
           /\ \A i \in 1..Len(callbacks) : ready'[Len(ready) + i] = callbacks[i]
<1>1. ready \in Seq(Callbacks)
  BY DEF Shape
<1>2. /\ ready' \in Seq(Callbacks)
      /\ Len(ready') = Len(ready) + Len(callbacks)
      /\ \A i \in 1..(Len(ready) + Len(callbacks)) :
             ready'[i] = IF i <= Len(ready) THEN ready[i] ELSE callbacks[i - Len(ready)]
  BY <1>1, ConcatProperties
<1>3. Len(ready) \in Nat /\ Len(callbacks) \in Nat
  BY <1>1
<1>4. ASSUME NEW i \in 1..Len(callbacks) PROVE ready'[Len(ready) + i] = callbacks[i]
  <2>1. /\ Len(ready) + i \in 1..(Len(ready) + Len(callbacks))
        /\ ~(Len(ready) + i <= Len(ready))
        /\ Len(ready) + i - Len(ready) = i
    BY <1>3
  <2> QED BY <1>2, <2>1
<1> QED BY <1>2, <1>3, <1>4

\* The kinds of callback are told apart by what runs.
LEMMA KindLemma ==
    ASSUME NEW c \in Callbacks
    PROVE  /\ c.run \in {"datagram", "renumber", "resolved", "done", "wakeup"}
           /\ c.run = "datagram" => c.npdu \in Npdus
           /\ c.run = "renumber" => c.old \in Snets /\ c.new \in Snets
           /\ c.run \in {"done", "wakeup"} => c.send \in Sends
  BY DEF Callbacks

(***************************************************************************)
(* What becomes of the callbacks of one message when the first dropped     *)
(* callbacks of the queue are gone and others are put at its end.          *)
(***************************************************************************)
Moved(dropped, callbacks) ==
    /\ Len(ready) - dropped \in Nat
    /\ Len(ready') = Len(ready) - dropped + Len(callbacks)
    /\ \A i \in 1..(Len(ready) - dropped) : ready'[i] = ready[i + dropped]
    /\ \A i \in 1..Len(callbacks) : ready'[Len(ready) - dropped + i] = callbacks[i]

LEMMA MovedLemma ==
    ASSUME Shape, NEW callbacks \in Seq(Callbacks), NEW dropped \in {0, 1},
           Moved(dropped, callbacks), NEW m \in Sends,
           dropped = 1 => ~IsFor(1, "done", m),
           \A i \in 1..Len(callbacks) : callbacks[i].run # "datagram"
    PROVE  /\ Silent(m) /\ (\A i \in 1..Len(callbacks) :
                                callbacks[i].run \in {"done", "wakeup"} => callbacks[i].send # m)
                  => Silent(m)'
           /\ WakesAfterDone(m) /\ (\A i \in 1..Len(callbacks) :
                  callbacks[i].run = "wakeup" /\ callbacks[i].send = m =>
                      \E j \in 1..(i - 1) : callbacks[j].run = "done" /\ callbacks[j].send = m)
                  => WakesAfterDone(m)'
           /\ WillBeDone(m) => WillBeDone(m)'
           /\ DoneFirst(m) => DoneFirst(m)'
<1> DEFINE n == Len(ready) - dropped
<1>1. /\ Len(ready) \in Nat /\ Len(callbacks) \in Nat /\ n \in Nat
      /\ Len(ready) = n + dropped /\ dropped \in Nat
      /\ Len(ready') = n + Len(callbacks)
      /\ \A i \in 1..n : ready'[i] = ready[i + dropped] /\ i + dropped \in 1..Len(ready)
      /\ \A i \in 1..Len(callbacks) : ready'[n + i] = callbacks[i]
  <2>1. Len(ready) \in Nat /\ Len(callbacks) \in Nat /\ n \in Nat /\ dropped \in Nat
    BY DEF Moved, Shape
  <2>2. /\ Len(ready') = n + Len(callbacks)
        /\ \A i \in 1..n : ready'[i] = ready[i + dropped]
        /\ \A i \in 1..Len(callbacks) : ready'[n + i] = callbacks[i]
    BY DEF Moved
  <2>3. Len(ready) = n + dropped
    BY <2>1
  <2> HIDE DEF n
  <2>4. \A i \in 1..n : i + dropped \in 1..Len(ready)
    BY <2>1, <2>3
  <2> QED BY <2>1, <2>2, <2>3, <2>4
<1> HIDE DEF n
\* Every callback is one there was, or a new one.
<1>2. ASSUME NEW k \in 1..Len(ready')
      PROVE  \/ k \in 1..n
             \/ k - n \in 1..Len(callbacks) /\ ready'[k] = callbacks[k - n]
  <2>1. CASE k <= n
    BY <1>1, <2>1
  <2>2. CASE k > n
    <3>1. k - n \in 1..Len(callbacks) /\ n + (k - n) = k
      BY <1>1, <2>2
    <3> QED BY <1>1, <3>1
  <2> QED BY <1>1, <2>1, <2>2
\* What ends the future of the message is not the one that is gone.
<1>3. ASSUME NEW j \in 1..Len(ready), IsFor(j, "done", m)
      PROVE  j - dropped \in 1..n /\ IsFor(j - dropped, "done", m)'
  <2>1. j > dropped
    BY <1>1, <1>3
  <2>2. j - dropped \in 1..n /\ (j - dropped) + dropped = j
    BY <1>1, <2>1
  <2> QED BY <1>1, <1>3, <2>2 DEF IsFor
<1>4. ASSUME Silent(m),
             \A i \in 1..Len(callbacks) :
                 callbacks[i].run \in {"done", "wakeup"} => callbacks[i].send # m
      PROVE  Silent(m)'
  <2> SUFFICES ASSUME NEW k \in 1..Len(ready'), IsFor(k, "done", m)' \/ IsFor(k, "wakeup", m)'
               PROVE  FALSE
    BY DEF Silent
  <2>1. CASE k \in 1..n
    BY <1>1, <1>4, <2>1 DEF Silent, IsFor
  <2>2. CASE k - n \in 1..Len(callbacks) /\ ready'[k] = callbacks[k - n]
    BY <1>4, <2>2 DEF IsFor
  <2> QED BY <1>2, <2>1, <2>2
<1>5. ASSUME WakesAfterDone(m),
             \A i \in 1..Len(callbacks) :
                 callbacks[i].run = "wakeup" /\ callbacks[i].send = m =>
                     \E j \in 1..(i - 1) : callbacks[j].run = "done" /\ callbacks[j].send = m
      PROVE  WakesAfterDone(m)'
  <2> SUFFICES ASSUME NEW k \in 1..Len(ready'), IsFor(k, "wakeup", m)'
               PROVE  \E j \in 1..(k - 1) : IsFor(j, "done", m)'
    BY DEF WakesAfterDone
  <2>1. CASE k \in 1..n
    <3>1. k + dropped \in 1..Len(ready) /\ IsFor(k + dropped, "wakeup", m)
      BY <1>1, <2>1 DEF IsFor
    <3>2. PICK j \in 1..((k + dropped) - 1) : IsFor(j, "done", m)
      BY <1>5, <3>1 DEF WakesAfterDone
    <3>3. j \in 1..Len(ready)
      BY <1>1, <3>1, <3>2
    <3>4. j - dropped \in 1..(k - 1) /\ IsFor(j - dropped, "done", m)'
      <4>1. j - dropped \in 1..n /\ IsFor(j - dropped, "done", m)'
        BY <1>3, <3>2, <3>3
      <4> QED BY <1>1, <2>1, <3>2, <4>1
    <3> QED BY <3>4
  <2>2. CASE k - n \in 1..Len(callbacks) /\ ready'[k] = callbacks[k - n]
    <3>1. PICK j \in 1..(k - n - 1) : callbacks[j].run = "done" /\ callbacks[j].send = m
      BY <1>5, <2>2 DEF IsFor
    <3>2. j \in 1..Len(callbacks) /\ n + j \in 1..(k - 1)
      BY <1>1, <2>2, <3>1
    <3>3. PICK i \in 1..(k - 1) : i = n + j
      BY <3>2
    <3>4. IsFor(i, "done", m)'
      BY <1>1, <3>1, <3>2, <3>3 DEF IsFor
    <3> QED BY <3>4
  <2> QED BY <1>2, <2>1, <2>2
<1>6. WillBeDone(m) => WillBeDone(m)'
  <2>1. 1..n \subseteq 1..Len(ready')
    BY <1>1
  <2> QED BY <1>3, <2>1 DEF WillBeDone
<1>7. ASSUME DoneFirst(m) PROVE DoneFirst(m)'
  <2>1. PICK j \in 1..Len(ready) :
            IsFor(j, "done", m) /\ \A i \in 1..Len(ready) : IsRun(i, "datagram") => j < i
    BY <1>7 DEF DoneFirst
  <2>2. j - dropped \in 1..n /\ IsFor(j - dropped, "done", m)'
    BY <1>3, <2>1
  <2>3. ASSUME NEW i \in 1..Len(ready'), IsRun(i, "datagram")' PROVE j - dropped < i
    <3>1. CASE i \in 1..n
      <4>1. IsRun(i + dropped, "datagram") /\ i + dropped \in 1..Len(ready)
        BY <1>1, <2>3, <3>1 DEF IsRun
      <4>2. j < i + dropped
        BY <2>1, <4>1
      <4> QED BY <1>1, <2>1, <3>1, <4>2
    <3>2. CASE i - n \in 1..Len(callbacks) /\ ready'[i] = callbacks[i - n]
      BY <2>3, <3>2 DEF IsRun
    <3> QED BY <1>2, <3>1, <3>2
  <2>4. j - dropped \in 1..Len(ready')
    BY <1>1, <2>2
  <2> QED BY <2>2, <2>3, <2>4 DEF DoneFirst
<1> QED BY <1>4, <1>5, <1>6, <1>7

LEMMA RunMoves ==
    ASSUME Shape, ready # <<>>, NEW callbacks \in Seq(Callbacks), Schedules(callbacks)
    PROVE  Moved(1, callbacks)
BY ScheduledLemma DEF Moved

\* A step that runs the head of the queue and does nothing to the messages.
LEMMA QuietLemma ==
    ASSUME Shape, Waiting, ready # <<>>, NEW callbacks \in Seq(Callbacks),
           Schedules(callbacks), UNCHANGED sendVars, adapterNet' \in Snets,
           asks' \in Nat, resolution' \in Nat,
           Head(ready).run # "done",
           \A i \in 1..Len(callbacks) : callbacks[i].run \notin {"done", "wakeup", "datagram"}
    PROVE  /\ Shape' /\ Waiting'
           /\ ListedUntilDone => ListedUntilDone'
           /\ HeardRouterIsUsed => HeardRouterIsUsed'
<1>1. /\ sends' = sends /\ futures' = futures /\ sockets' = sockets
      /\ ready' \in Seq(Callbacks) /\ Moved(1, callbacks) /\ ready[1].run # "done"
  BY ScheduledLemma, RunMoves DEF sendVars, Schedules
<1>2. ASSUME NEW m \in Sends
      PROVE  /\ Silent(m) => Silent(m)'
             /\ WakesAfterDone(m) => WakesAfterDone(m)'
             /\ WillBeDone(m) => WillBeDone(m)'
             /\ DoneFirst(m) => DoneFirst(m)'
  <2>1. ~IsFor(1, "done", m)
    BY <1>1 DEF IsFor
  <2> QED BY <1>1, <2>1, MovedLemma
<1>3. Shape'
  BY <1>1 DEF Shape
<1>4. Waiting'
  BY <1>1, <1>2 DEF Waiting
<1>5. \A m \in ToSet(futures) : m \in Sends
  BY DEF Shape, ToSet
<1>6. ListedUntilDone => ListedUntilDone'
  BY <1>1, <1>2, <1>5 DEF ListedUntilDone
<1>7. HeardRouterIsUsed => HeardRouterIsUsed'
  BY <1>1 DEF HeardRouterIsUsed, OneSocket
<1> QED BY <1>3, <1>4, <1>6, <1>7

-----------------------------------------------------------------------------
(* One socket: what runs next is the only datagram, or there is at most one *)
(* behind it.                                                              *)

LEMMA DatagramLemma ==
    ASSUME Shape, OneAtATime, ready # <<>>, Head(ready).run = "datagram"
    PROVE  \A k \in 1..Len(ready) :
               ~IsRun(k, "renumber") /\ (IsRun(k, "datagram") => k = 1)
<1>1. Len(ready) \in Nat \ {0} /\ IsRun(1, "datagram") /\ 1 \in 1..Len(ready)
  BY DEF Shape, IsRun
<1> QED BY <1>1 DEF OneAtATime

LEMMA OrderLemma ==
    ASSUME Shape, OneAtATime, ready # <<>>, NEW callbacks \in Seq(Callbacks),
           Schedules(callbacks),
           \A i \in 1..Len(callbacks) : callbacks[i].run # "datagram",
           \/ \A i \in 1..Len(callbacks) : callbacks[i].run # "renumber"
           \/ /\ Head(ready).run = "datagram"
              /\ \A i, j \in 1..Len(callbacks) :
                     callbacks[i].run = "renumber" /\ callbacks[j].run = "renumber" => i = j
    PROVE  OneAtATime'
<1> DEFINE n == Len(ready) - 1
<1>1. /\ n \in Nat /\ Len(ready) = n + 1 /\ Len(callbacks) \in Nat
      /\ Len(ready') = n + Len(callbacks)
      /\ \A i \in 1..n : ready'[i] = ready[i + 1] /\ i + 1 \in 1..Len(ready)
      /\ \A i \in 1..Len(callbacks) : ready'[n + i] = callbacks[i]
  BY ScheduledLemma
<1> HIDE DEF n
<1>2. ASSUME NEW i \in 1..Len(ready'), IsRun(i, "datagram")'
      PROVE  /\ i \in 1..n /\ i + 1 \in 1..Len(ready) /\ IsRun(i + 1, "datagram")
             /\ ready'[i] = ready[i + 1]
  <2>1. CASE i <= n
    BY <1>1, <1>2, <2>1 DEF IsRun
  <2>2. CASE i > n
    <3>1. i - n \in 1..Len(callbacks) /\ n + (i - n) = i
      BY <1>1, <2>2
    <3> QED BY <1>1, <1>2, <3>1 DEF IsRun
  <2> QED BY <1>1, <2>1, <2>2
<1>3. CASE \A i \in 1..Len(callbacks) : callbacks[i].run # "renumber"
  <2>1. ASSUME NEW i \in 1..Len(ready'), IsRun(i, "renumber")'
        PROVE  i \in 1..n /\ i + 1 \in 1..Len(ready) /\ IsRun(i + 1, "renumber")
    <3>1. CASE i <= n
      BY <1>1, <2>1, <3>1 DEF IsRun
    <3>2. CASE i > n
      <4>1. i - n \in 1..Len(callbacks) /\ n + (i - n) = i
        BY <1>1, <3>2
      <4> QED BY <1>1, <1>3, <2>1, <4>1 DEF IsRun
    <3> QED BY <1>1, <3>1, <3>2
  <2>2. ASSUME NEW i \in 1..Len(ready'), NEW j \in 1..Len(ready')
        PROVE  /\ IsRun(i, "datagram")' => ready'[i].socket = "local"
               /\ IsRun(i, "datagram")' /\ IsRun(j, "datagram")' => i = j
               /\ IsRun(i, "renumber")' /\ IsRun(j, "renumber")' => i = j
               /\ IsRun(i, "renumber")' /\ IsRun(j, "datagram")' => i < j
    BY <1>1, <1>2, <2>1 DEF OneAtATime
  <2> QED BY <2>2 DEF OneAtATime, IsRun
<1>4. CASE /\ Head(ready).run = "datagram"
           /\ \A i, j \in 1..Len(callbacks) :
                  callbacks[i].run = "renumber" /\ callbacks[j].run = "renumber" => i = j
  <2>1. \A k \in 1..Len(ready) : ~IsRun(k, "renumber") /\ (IsRun(k, "datagram") => k = 1)
    BY <1>4, DatagramLemma
  <2>2. ASSUME NEW i \in 1..Len(ready'), IsRun(i, "datagram")' PROVE FALSE
    BY <1>1, <1>2, <2>1, <2>2
  <2>3. ASSUME NEW i \in 1..Len(ready'), IsRun(i, "renumber")'
        PROVE  i - n \in 1..Len(callbacks) /\ callbacks[i - n].run = "renumber"
    <3>1. CASE i <= n
      BY <1>1, <2>1, <2>3, <3>1 DEF IsRun
    <3>2. CASE i > n
      <4>1. i - n \in 1..Len(callbacks) /\ n + (i - n) = i
        BY <1>1, <3>2
      <4> QED BY <1>1, <2>3, <4>1 DEF IsRun
    <3> QED BY <1>1, <3>1, <3>2
  <2>4. ASSUME NEW i \in 1..Len(ready'), NEW j \in 1..Len(ready'),
               IsRun(i, "renumber")', IsRun(j, "renumber")'
        PROVE  i = j
    <3>1. i - n = j - n
      BY <1>4, <2>3, <2>4
    <3> QED BY <1>1, <3>1
  <2> QED BY <2>2, <2>4 DEF OneAtATime, IsRun
<1> QED BY <1>3, <1>4

\* Nothing about the cache changes, and nothing is to be renumbered that was not.
LEMMA KnownLemma ==
    ASSUME Shape, KnownUnderOne, ready # <<>>, NEW callbacks \in Seq(Callbacks),
           Schedules(callbacks), UNCHANGED <<cacheVars, adapterNet>>,
           Head(ready).run # "renumber",
           \A i \in 1..Len(callbacks) : callbacks[i].run # "renumber"
    PROVE  KnownUnderOne'
<1> DEFINE n == Len(ready) - 1
<1>1. /\ n \in Nat /\ Len(ready) = n + 1 /\ Len(callbacks) \in Nat
      /\ Len(ready') = n + Len(callbacks)
      /\ \A i \in 1..n : ready'[i] = ready[i + 1] /\ i + 1 \in 1..Len(ready)
      /\ \A i \in 1..Len(callbacks) : ready'[n + i] = callbacks[i]
      /\ ready[1].run # "renumber"
  BY ScheduledLemma
<1> HIDE DEF n
<1>3. ASSUME NEW i \in 1..Len(ready'), IsRun(i, "renumber")'
      PROVE  i + 1 \in 1..Len(ready) /\ ready'[i] = ready[i + 1] /\ IsRun(i + 1, "renumber")
  <2>1. CASE i <= n
    BY <1>1, <1>3, <2>1 DEF IsRun
  <2>2. CASE i > n
    <3>1. i - n \in 1..Len(callbacks) /\ n + (i - n) = i
      BY <1>1, <2>2
    <3> QED BY <1>1, <1>3, <3>1 DEF IsRun
  <2> QED BY <1>1, <2>1, <2>2
<1>4. ASSUME NEW k \in 1..Len(ready), IsRun(k, "renumber")
      PROVE  k - 1 \in 1..Len(ready') /\ IsRun(k - 1, "renumber")'
  BY <1>1, <1>4 DEF IsRun
<1>5. adapterNet' = adapterNet
  OBVIOUS
<1>6. ASSUME NEW k \in 1..Len(ready'), IsRun(k, "renumber")'
      PROVE  (ready[k].new = adapterNet /\ ready[k].old # adapterNet /\ KnownUnder(ready[k].old))'
  <2>1. /\ ready[k + 1].new = adapterNet /\ ready[k + 1].old # adapterNet
        /\ KnownUnder(ready[k + 1].old)
    BY <1>3, <1>6 DEF KnownUnderOne
  <2>2. ready'[k] = ready[k + 1]
    BY <1>3, <1>6
  <2>3. \A t \in Snets \ {ready'[k].old} : Unused(t)'
    BY <2>1, <2>2 DEF cacheVars, KnownUnder, Unused, HasRouter
  <2>4. KnownUnder(ready[k].old)'
    BY <2>3 DEF KnownUnder
  <2> QED BY <1>5, <2>1, <2>2, <2>4
<1>7. ASSUME \A k \in 1..Len(ready') : ~IsRun(k, "renumber")' PROVE KnownUnder(adapterNet)'
  <2>1. KnownUnder(adapterNet)
    BY <1>4, <1>7 DEF KnownUnderOne
  <2> QED BY <1>5, <2>1 DEF KnownUnder, Unused, HasRouter, cacheVars
<1> QED BY <1>6, <1>7 DEF KnownUnderOne

\* A consistent cache never raises.
LEMMA NoConflict ==
    ASSUME CacheTypeOK, Consistent, NEW s \in Snets, NEW ds \in SUBSET Dnets
    PROVE  Conflicts(s, ds) = {}
<1>1. ASSUME NEW d \in Conflicts(s, ds) PROVE FALSE
  <2>1. d \in Dnets /\ HasPath(s, d) /\ d \notin DnetsOf(s, RouterOf(s, d))
    BY <1>1 DEF Conflicts
  <2>2. RouterOf(s, d) \in Routers
    BY <2>1 DEF CacheTypeOK, HasPath, RouterOf
  <2> QED BY <2>1, <2>2 DEF Consistent
<1> QED BY <1>1

\* What is learned under the number everything is known under.
LEMMA LearnedLemma ==
    ASSUME CacheTypeOK, Consistent, NEW s \in Snets, NEW a \in Routers, NEW ds \in SUBSET Dnets,
           KnownUnder(s), UpdatePathInfo(s, a, ds)
    PROVE  CacheTypeOK' /\ Consistent' /\ KnownUnder(s)'
<1>1. CacheTypeOK' /\ Consistent'
  BY UpdatePathInfoLemma
<1>2. ASSUME NEW t \in Snets \ {s}, NEW b \in Routers PROVE ~HasRouter(t, b)'
  BY <1>2 DEF UpdatePathInfo, KnownUnder, Unused, HasRouter, cacheVars
<1>3. KnownUnder(s)'
  BY <1>2 DEF KnownUnder, Unused
<1> QED BY <1>1, <1>3

\* Renumbering a consistent cache: everything is moved, to the number that was not used.
LEMMA RenumberedLemma ==
    ASSUME CacheTypeOK, Consistent, NEW old \in Snets, NEW new \in Snets, old # new,
           KnownUnder(old),
           UpdateSourceNetwork(old, new) \/ UpdateSourceNetworkRaises(old, new)
    PROVE  CacheTypeOK' /\ Consistent' /\ KnownUnder(new)'
<1>1. ~UpdateSourceNetworkRaises(old, new)
  <2> SUFFICES ASSUME UpdateSourceNetworkRaises(old, new) PROVE FALSE
    OBVIOUS
  <2>1. PICK done \in SUBSET RoutersOf(old) : \E a \in RoutersOf(old) \ done :
            {d \in DnetsOf(old, a) :
                ~HasPath(old, d) \/ d \in UNION {DnetsOf(old, b) : b \in done}} # {}
    BY DEF UpdateSourceNetworkRaises
  <2>b. PICK a \in RoutersOf(old) \ done :
            {d \in DnetsOf(old, a) :
                ~HasPath(old, d) \/ d \in UNION {DnetsOf(old, b) : b \in done}} # {}
    BY <2>1
  <2>2. PICK d \in DnetsOf(old, a) :
            ~HasPath(old, d) \/ d \in UNION {DnetsOf(old, b) : b \in done}
    BY <2>b
  <2>3. a \in Routers /\ d \in Dnets
    BY <2>2 DEF RoutersOf, CacheTypeOK, DnetsOf, HasRouter
  <2>4. HasPath(old, d) /\ RouterOf(old, d) = a
    BY <2>2, <2>3 DEF Consistent
  <2>5. PICK b \in done : d \in DnetsOf(old, b)
    BY <2>2, <2>4
  <2>6. b \in Routers /\ b # a
    BY <2>b, <2>5 DEF RoutersOf
  <2> QED BY <2>3, <2>4, <2>5, <2>6 DEF Consistent
<1>2. UpdateSourceNetwork(old, new) /\ Unused(new)
  BY <1>1 DEF KnownUnder
<1>3. CacheTypeOK' /\ Consistent'
  BY <1>2, UpdateSourceNetworkLemma
<1>4. ASSUME NEW t \in Snets \ {new}, NEW b \in Routers PROVE ~HasRouter(t, b)'
  BY <1>2, <1>4 DEF UpdateSourceNetwork, MoveSource, RoutersOf, KnownUnder, Unused, HasRouter
<1> QED BY <1>3, <1>4 DEF KnownUnder, Unused

-----------------------------------------------------------------------------
(* The actions.                                                            *)

LEMMA EmptyLemma ==
    /\ <<>> \in Seq(Callbacks) /\ Len(<<>>) = 0
    /\ \A i \in 1..Len(<<>>) : FALSE
  OBVIOUS

LEMMA NpduLemma ==
    ASSUME Shape, ready # <<>>, Head(ready).run = "datagram"
    PROVE  LET npdu == Head(ready).npdu
           IN  /\ npdu.type = "NetworkNumberIs" => npdu.net \in Snets
               /\ npdu.type = "IAmRouterToNetwork" =>
                      npdu.source \in Routers /\ npdu.dnets \in SUBSET Dnets
               /\ npdu.type = "Routed" => npdu.source \in Routers /\ npdu.snet \in Dnets
<1>1. Head(ready) \in Callbacks
  BY DEF Shape
<1>2. Head(ready).npdu \in Npdus
  BY <1>1, KindLemma
<1> QED BY <1>2 DEF Npdus, Numbers

LEMMA NetworkNumberIsKeeps == ASSUME LayerInv, NetworkNumberIs PROVE LayerInv'
<1> DEFINE n == Head(ready).npdu.net
           callback == IF Asked THEN <<[run |-> "resolved", ask |-> resolution]>> ELSE <<>>
           renumber == <<[run |-> "renumber", old |-> adapterNet, new |-> n]>>
<1>1. /\ Shape /\ Waiting /\ adapterNet \in Snets
      /\ ready # <<>> /\ Head(ready).run = "datagram"
      /\ n \in Snets
      /\ UNCHANGED <<cacheVars, sendVars>> /\ asks' \in Nat /\ resolution' \in Nat
  BY NpduLemma DEF LayerInv, NetworkNumberIs, RunsNpdu, Runs, Shape
<1>2. /\ callback \in Seq(Callbacks)
      /\ \A i \in 1..Len(callback) : callback[i].run = "resolved"
      /\ Len(callback) \in Nat
  <2>1. resolution \in Nat
    BY DEF LayerInv, Shape
  <2>2. /\ <<[run |-> "resolved", ask |-> resolution]>> \in Seq(Callbacks)
        /\ Len(<<[run |-> "resolved", ask |-> resolution]>>) = 1
        /\ <<[run |-> "resolved", ask |-> resolution]>>[1].run = "resolved"
    BY <2>1 DEF Callbacks
  <2> QED BY <2>2, EmptyLemma
<1>3. /\ renumber \in Seq(Callbacks) /\ callback \o renumber \in Seq(Callbacks)
      /\ Len(callback \o renumber) = Len(callback) + 1
      /\ \A i \in 1..Len(callback) : (callback \o renumber)[i].run = "resolved"
      /\ (callback \o renumber)[Len(callback) + 1] = renumber[1]
  <2>1. /\ renumber \in Seq(Callbacks) /\ Len(renumber) = 1
        /\ renumber[1] = [run |-> "renumber", old |-> adapterNet, new |-> n]
    BY <1>1 DEF Callbacks
  <2> HIDE DEF callback, renumber
  <2>2. /\ callback \o renumber \in Seq(Callbacks)
        /\ Len(callback \o renumber) = Len(callback) + Len(renumber)
    BY <1>2, <2>1, ConcatProperties
  <2>3. \A i \in 1..Len(callback) : (callback \o renumber)[i] = callback[i]
    BY <1>2, <2>1, ConcatProperties
  <2>4. (callback \o renumber)[Len(callback) + 1] = renumber[1]
    BY <1>2, <2>1, ConcatProperties
  <2> QED BY <1>2, <2>1, <2>2, <2>3, <2>4
<1>4. CASE /\ Schedules(IF resolution \in answered THEN <<>> ELSE callback)
           /\ UNCHANGED adapterNet
  <2> DEFINE callbacks == IF resolution \in answered THEN <<>> ELSE callback
  <2>1. /\ callbacks \in Seq(Callbacks)
        /\ \A i \in 1..Len(callbacks) : callbacks[i].run = "resolved"
    BY <1>2, EmptyLemma
  <2>2. Schedules(callbacks) /\ UNCHANGED adapterNet
    BY <1>4
  <2> HIDE DEF callbacks, callback, n
  <2>3. /\ Shape' /\ Waiting'
        /\ ListedUntilDone => ListedUntilDone'
        /\ HeardRouterIsUsed => HeardRouterIsUsed'
    BY <1>1, <2>1, <2>2, QuietLemma
  <2>4. OneAtATime => OneAtATime'
    BY <1>1, <2>1, <2>2, OrderLemma
  <2>5. KnownUnderOne => KnownUnderOne'
    BY <1>1, <2>1, <2>2, KnownLemma
  <2>6. /\ CacheTypeOK => CacheTypeOK'
        /\ Consistent => Consistent'
        /\ OneSocket' = OneSocket
    BY <1>1, <2>2 DEF cacheVars, CacheTypeOK, Consistent, DnetsOf, HasRouter, HasPath, RouterOf,
       OneSocket, Schedules
  <2> QED BY <2>3, <2>4, <2>5, <2>6 DEF LayerInv
<1>5. CASE /\ adapterNet' = n /\ adapterNet # n
           /\ Schedules(callback \o renumber)
  <2> DEFINE callbacks == callback \o renumber
             last == Len(callback) + 1
  <2>1. /\ callbacks \in Seq(Callbacks) /\ Len(callbacks) = last /\ last \in Nat \ {0}
        /\ \A i \in 1..Len(callbacks) : i # last => callbacks[i].run = "resolved"
        /\ callbacks[last] = [run |-> "renumber", old |-> adapterNet, new |-> n]
    BY <1>2, <1>3
  <2>2. Schedules(callbacks) /\ adapterNet' = n /\ adapterNet # n
    BY <1>5
  <2> HIDE DEF callbacks, last, callback, renumber, n
  <2>3. /\ \A i \in 1..Len(callbacks) :
               callbacks[i].run \notin {"done", "wakeup", "datagram"}
        /\ \A i, j \in 1..Len(callbacks) :
               callbacks[i].run = "renumber" /\ callbacks[j].run = "renumber" => i = j
    BY <2>1
  <2>4. /\ Shape' /\ Waiting'
        /\ ListedUntilDone => ListedUntilDone'
        /\ HeardRouterIsUsed => HeardRouterIsUsed'
    BY <1>1, <2>1, <2>2, <2>3, QuietLemma
  <2>5. OneAtATime => OneAtATime'
    BY <1>1, <2>1, <2>2, <2>3, OrderLemma
  <2>6. ASSUME OneAtATime, KnownUnderOne PROVE KnownUnderOne'
    <3>1. KnownUnder(adapterNet) /\ \A k \in 1..Len(ready) : ~IsRun(k, "renumber")
      BY <1>1, <2>6, DatagramLemma DEF KnownUnderOne
    <3>2. /\ Len(ready) \in Nat \ {0}
          /\ Len(ready') = Len(ready) - 1 + last
          /\ \A i \in 1..(Len(ready) - 1) : ready'[i] = ready[i + 1]
          /\ \A i \in 1..last : ready'[Len(ready) - 1 + i] = callbacks[i]
      BY <1>1, <2>1, <2>2, ScheduledLemma
    <3>3. ASSUME NEW k \in 1..Len(ready'), IsRun(k, "renumber")'
          PROVE  ready'[k] = [run |-> "renumber", old |-> adapterNet, new |-> n]
      <4>1. CASE k <= Len(ready) - 1
        <5>1. k + 1 \in 1..Len(ready) /\ IsRun(k + 1, "renumber")
          BY <3>2, <3>3, <4>1 DEF IsRun
        <5> QED BY <3>1, <5>1
      <4>2. CASE k > Len(ready) - 1
        <5>1. /\ k - (Len(ready) - 1) \in 1..last
              /\ Len(ready) - 1 + (k - (Len(ready) - 1)) = k
          BY <2>1, <3>2, <4>2
        <5>2. ready'[k] = callbacks[k - (Len(ready) - 1)]
          BY <3>2, <5>1
        <5> QED BY <2>1, <3>3, <5>1, <5>2 DEF IsRun
      <4> QED BY <3>2, <4>1, <4>2
    <3>4. ASSUME \A k \in 1..Len(ready') : ~IsRun(k, "renumber")' PROVE FALSE
      <4>1. /\ Len(ready) - 1 + last \in 1..Len(ready')
            /\ ready'[Len(ready) - 1 + last] = callbacks[last]
        BY <2>1, <3>2
      <4> QED BY <2>1, <3>4, <4>1 DEF IsRun
    <3>5. \A t \in Snets \ {adapterNet} : Unused(t)'
      BY <1>1, <3>1 DEF KnownUnder, Unused, HasRouter, cacheVars
    <3>6. ASSUME NEW k \in 1..Len(ready'), IsRun(k, "renumber")'
          PROVE  /\ ready'[k].new = adapterNet' /\ ready'[k].old # adapterNet'
                 /\ KnownUnder(ready[k].old)'
      <4>1. ready'[k].old = adapterNet /\ ready'[k].new = n
        BY <3>3, <3>6
      <4>2. \A t \in Snets \ {ready'[k].old} : Unused(t)'
        BY <3>5, <4>1
      <4> QED BY <2>2, <4>1, <4>2 DEF KnownUnder
    <3> QED BY <3>4, <3>6 DEF KnownUnderOne
  <2>7. /\ CacheTypeOK => CacheTypeOK'
        /\ Consistent => Consistent'
        /\ OneSocket' = OneSocket
    BY <1>1, <2>2 DEF cacheVars, CacheTypeOK, Consistent, DnetsOf, HasRouter, HasPath, RouterOf,
       OneSocket, Schedules
  <2> QED BY <2>4, <2>5, <2>6, <2>7 DEF LayerInv
<1> QED BY <1>4, <1>5 DEF NetworkNumberIs

\* A callback that leaves nothing to others, and the messages alone.
LEMMA QuietlyRun ==
    ASSUME LayerInv, ready # <<>>, Head(ready).run # "done", Schedules(<<>>),
           UNCHANGED <<adapterNet, sendVars, asks>>, resolution' \in Nat
    PROVE  /\ Shape' /\ Waiting' /\ OneSocket' = OneSocket
           /\ OneSocket => OneAtATime' /\ ListedUntilDone' /\ HeardRouterIsUsed'
           /\ OneSocket /\ UNCHANGED cacheVars /\ Head(ready).run # "renumber" =>
                  CacheTypeOK' /\ Consistent' /\ KnownUnderOne'
<1>1. Shape /\ Waiting /\ adapterNet' \in Snets /\ UNCHANGED sendVars /\ asks' \in Nat
  BY DEF LayerInv, Shape
<1>2. /\ Shape' /\ Waiting'
      /\ ListedUntilDone => ListedUntilDone'
      /\ HeardRouterIsUsed => HeardRouterIsUsed'
  BY <1>1, EmptyLemma, QuietLemma
<1>3. OneAtATime => OneAtATime'
  BY <1>1, EmptyLemma, OrderLemma
<1>4. ASSUME KnownUnderOne, UNCHANGED cacheVars, Head(ready).run # "renumber"
      PROVE  KnownUnderOne'
  BY <1>1, <1>4, EmptyLemma, KnownLemma
<1>5. OneSocket' = OneSocket
  BY DEF OneSocket, Schedules
<1>6. UNCHANGED cacheVars => (CacheTypeOK => CacheTypeOK') /\ (Consistent => Consistent')
  BY DEF cacheVars, CacheTypeOK, Consistent, DnetsOf, HasRouter, HasPath, RouterOf
<1> QED BY <1>2, <1>3, <1>4, <1>5, <1>6 DEF LayerInv

LEMMA RenumberCacheKeeps == ASSUME LayerInv, RenumberCache PROVE LayerInv'
<1>1. /\ ready # <<>> /\ Head(ready).run = "renumber" /\ Schedules(<<>>)
      /\ UNCHANGED <<adapterNet, sendVars, asks>> /\ resolution' \in Nat
      /\ \/ UpdateSourceNetwork(Head(ready).old, Head(ready).new)
         \/ UpdateSourceNetworkRaises(Head(ready).old, Head(ready).new)
  BY DEF RenumberCache, Runs, askVars, LayerInv, Shape
<1>2. /\ Shape' /\ Waiting' /\ OneSocket' = OneSocket
      /\ OneSocket => OneAtATime' /\ ListedUntilDone' /\ HeardRouterIsUsed'
  BY <1>1, QuietlyRun
<1>3. ASSUME OneSocket PROVE CacheTypeOK' /\ Consistent' /\ KnownUnderOne'
  <2>1. /\ Shape /\ CacheTypeOK /\ Consistent /\ OneAtATime /\ KnownUnderOne
    BY <1>3 DEF LayerInv
  <2>2. /\ Len(ready) \in Nat \ {0} /\ Head(ready) = ready[1] /\ 1 \in 1..Len(ready)
        /\ ready[1] \in Callbacks
        /\ Len(ready') = Len(ready) - 1
        /\ \A i \in 1..(Len(ready) - 1) : ready'[i] = ready[i + 1]
    <3>1. /\ Len(ready) \in Nat \ {0} /\ Head(ready) = ready[1] /\ ready[1] \in Callbacks
          /\ Len(ready') = Len(ready) - 1 + Len(<<>>)
          /\ \A i \in 1..(Len(ready) - 1) : ready'[i] = ready[i + 1]
      BY <1>1, <2>1, EmptyLemma, ScheduledLemma
    <3> QED BY <3>1, EmptyLemma
  <2>3. IsRun(1, "renumber")
    BY <1>1, <2>2 DEF IsRun
  <2>4. /\ ready[1].old \in Snets /\ ready[1].new \in Snets
        /\ ready[1].new = adapterNet /\ ready[1].old # adapterNet /\ KnownUnder(ready[1].old)
    BY <2>1, <2>2, <2>3, KindLemma DEF KnownUnderOne, IsRun
  <2>5. PICK old \in Snets : old = ready[1].old
    BY <2>4
  <2>7. PICK new \in Snets : new = ready[1].new
    BY <2>4
  <2>8. CacheTypeOK' /\ Consistent' /\ KnownUnder(new)'
    BY <1>1, <2>1, <2>2, <2>4, <2>5, <2>7, RenumberedLemma
  <2>9. KnownUnder(adapterNet)'
    BY <1>1, <2>4, <2>7, <2>8 DEF KnownUnder
  <2>6. ASSUME NEW k \in 1..Len(ready'), IsRun(k, "renumber")' PROVE FALSE
    <3>1. k + 1 \in 1..Len(ready) /\ IsRun(k + 1, "renumber") /\ k + 1 # 1
      BY <2>2, <2>6 DEF IsRun
    <3> QED BY <2>1, <2>2, <2>3, <3>1 DEF OneAtATime
  <2> QED BY <2>6, <2>8, <2>9 DEF KnownUnderOne
<1> QED BY <1>2, <1>3 DEF LayerInv

LEMMA NetworkNumberResolvedKeeps == ASSUME LayerInv, NetworkNumberResolved PROVE LayerInv'
<1>1. /\ ready # <<>> /\ Head(ready).run = "resolved" /\ Schedules(<<>>)
      /\ UNCHANGED <<adapterNet, sendVars, asks, cacheVars>> /\ resolution' \in Nat
  BY DEF NetworkNumberResolved, Runs, LayerInv, Shape
<1> QED BY <1>1, QuietlyRun DEF LayerInv

\* The cache is told of a router by the handler of a datagram.
LEMMA ToldLemma ==
    ASSUME LayerInv, OneSocket, ready # <<>>, Head(ready).run = "datagram",
           \A k \in 1..Len(ready') : ~IsRun(k, "renumber")',
           adapterNet' = adapterNet,
           NEW a \in Routers, NEW ds \in SUBSET Dnets,
           UpdatePathInfo(adapterNet, a, ds)
    PROVE  CacheTypeOK' /\ Consistent' /\ KnownUnderOne'
<1>1. PICK s \in Snets : s = adapterNet
  BY DEF LayerInv, Shape
<1>2. KnownUnder(s) /\ CacheTypeOK /\ Consistent /\ UpdatePathInfo(s, a, ds)
  BY <1>1, DatagramLemma DEF LayerInv, KnownUnderOne
<1>3. CacheTypeOK' /\ Consistent' /\ KnownUnder(s)'
  BY <1>2, LearnedLemma
<1>4. KnownUnder(adapterNet)'
  BY <1>1, <1>3 DEF KnownUnder
<1> QED BY <1>3, <1>4 DEF KnownUnderOne

\* With one datagram ready nothing is to be renumbered.
LEMMA NoneLeft ==
    ASSUME Shape, OneAtATime, ready # <<>>, Head(ready).run = "datagram",
           NEW callbacks \in Seq(Callbacks), Schedules(callbacks),
           \A i \in 1..Len(callbacks) : callbacks[i].run \notin {"renumber", "datagram"}
    PROVE  \A k \in 1..Len(ready') :
               /\ ~IsRun(k, "renumber")' /\ ~IsRun(k, "datagram")'
               /\ k < Len(ready) => ready'[k] = ready[k + 1]
               /\ k >= Len(ready) => /\ k - (Len(ready) - 1) \in 1..Len(callbacks)
                                     /\ ready'[k] = callbacks[k - (Len(ready) - 1)]
<1>1. /\ Len(ready) \in Nat \ {0} /\ Len(callbacks) \in Nat
      /\ Len(ready') = Len(ready) - 1 + Len(callbacks)
      /\ \A i \in 1..(Len(ready) - 1) : ready'[i] = ready[i + 1]
      /\ \A i \in 1..Len(callbacks) : ready'[Len(ready) - 1 + i] = callbacks[i]
  BY ScheduledLemma
<1>2. \A k \in 1..Len(ready) : ~IsRun(k, "renumber") /\ (IsRun(k, "datagram") => k = 1)
  BY DatagramLemma
<1> SUFFICES ASSUME NEW k \in 1..Len(ready')
             PROVE  /\ ~IsRun(k, "renumber")' /\ ~IsRun(k, "datagram")'
                    /\ k < Len(ready) => ready'[k] = ready[k + 1]
                    /\ k >= Len(ready) => /\ k - (Len(ready) - 1) \in 1..Len(callbacks)
                                          /\ ready'[k] = callbacks[k - (Len(ready) - 1)]
  OBVIOUS
<1>3. CASE k < Len(ready)
  <2>1. k \in 1..(Len(ready) - 1) /\ k + 1 \in 1..Len(ready) /\ k + 1 # 1
    BY <1>1, <1>3
  <2> QED BY <1>1, <1>2, <1>3, <2>1 DEF IsRun
<1>4. CASE k >= Len(ready)
  <2>1. /\ k - (Len(ready) - 1) \in 1..Len(callbacks)
        /\ Len(ready) - 1 + (k - (Len(ready) - 1)) = k
        /\ ~(k < Len(ready))
    BY <1>1, <1>4
  <2>2. ready'[k] = callbacks[k - (Len(ready) - 1)]
    BY <1>1, <2>1
  <2> QED BY <2>1, <2>2 DEF IsRun
<1> QED BY <1>1, <1>3, <1>4

LEMMA SourceRoutingKeeps == ASSUME LayerInv, SourceRouting PROVE LayerInv'
<1>1. /\ ready # <<>> /\ Head(ready).run = "datagram" /\ Schedules(<<>>)
      /\ UNCHANGED <<adapterNet, sendVars, asks>> /\ resolution' \in Nat
      /\ Head(ready).npdu.source \in Routers /\ Head(ready).npdu.snet \in Dnets
      /\ adapterNet \in Snets
  BY NpduLemma DEF SourceRouting, RunsNpdu, Runs, LayerInv, Shape, askVars
<1>2. /\ Shape' /\ Waiting' /\ OneSocket' = OneSocket
      /\ OneSocket => OneAtATime' /\ ListedUntilDone' /\ HeardRouterIsUsed'
  BY <1>1, QuietlyRun
<1>3. ASSUME OneSocket PROVE CacheTypeOK' /\ Consistent' /\ KnownUnderOne'
  <2>1. CASE UNCHANGED cacheVars
    BY <1>1, <1>3, <2>1, QuietlyRun
  <2>2. CASE UpdatePathInfo(adapterNet, Head(ready).npdu.source, {Head(ready).npdu.snet})
    <3>1. \A k \in 1..Len(ready') : ~IsRun(k, "renumber")'
      BY <1>1, <1>3, EmptyLemma, NoneLeft DEF LayerInv
    <3>2. PICK a \in Routers : a = Head(ready).npdu.source
      BY <1>1
    <3>3. PICK ds \in SUBSET Dnets : ds = {Head(ready).npdu.snet}
      BY <1>1
    <3> QED BY <1>1, <1>3, <2>2, <3>1, <3>2, <3>3, ToldLemma
  <2>3. ~UpdatePathInfoRaises(adapterNet, Head(ready).npdu.source, {Head(ready).npdu.snet})
    BY <1>1, <1>3, NoConflict DEF LayerInv, UpdatePathInfoRaises
  <2> QED BY <2>1, <2>2, <2>3 DEF SourceRouting
<1> QED BY <1>2, <1>3 DEF LayerInv

\* The messages keep what is said of them, the queue has only something added to it
\* that is not about any of them.
LEMMA ReceiveKeeps ==
    ASSUME LayerInv, NEW s \in sockets, NEW npdu \in Npdus, Receive(s, npdu)
    PROVE  LayerInv'
<1> DEFINE callback == [run |-> "datagram", socket |-> s, npdu |-> npdu]
<1>1. /\ Shape /\ Waiting /\ callback \in Callbacks
      /\ ready \in Seq(Callbacks)
      /\ ready' = Append(ready, callback)
      /\ \A k \in 1..Len(ready) : ready[k].run = "datagram" => ready[k].socket # s
      /\ UNCHANGED <<cacheVars, adapterNet, sockets, sendVars, askVars>>
  BY DEF LayerInv, Receive, Callbacks, Shape
<1>2. /\ ready' \in Seq(Callbacks) /\ Len(ready) \in Nat /\ Len(ready') = Len(ready) + 1
      /\ \A k \in 1..Len(ready) : ready'[k] = ready[k]
      /\ ready'[Len(ready) + 1] = callback
      /\ callback.run = "datagram"
  BY <1>1
<1> HIDE DEF callback
<1>3. Shape'
  BY <1>1, <1>2 DEF Shape, sendVars, askVars
<1>4. Waiting'
  BY <1>1, <1>2 DEF LayerInv, Waiting, Silent, WakesAfterDone, IsFor, sendVars
<1>5. ASSUME OneSocket
      PROVE  /\ CacheTypeOK' /\ Consistent'
             /\ OneAtATime' /\ KnownUnderOne' /\ ListedUntilDone'
             /\ HeardRouterIsUsed'
  <2>1. /\ CacheTypeOK /\ Consistent /\ OneAtATime /\ KnownUnderOne /\ ListedUntilDone
        /\ HeardRouterIsUsed
    BY <1>5 DEF LayerInv
  <2>2. CacheTypeOK' /\ Consistent' /\ HeardRouterIsUsed'
    BY <1>1, <2>1 DEF cacheVars, CacheTypeOK, Consistent, DnetsOf, HasRouter, HasPath, RouterOf,
       OneSocket, HeardRouterIsUsed, sendVars
  <2>3. \A k \in 1..Len(ready) : ~IsRun(k, "datagram")
    <3> SUFFICES ASSUME NEW k \in 1..Len(ready), IsRun(k, "datagram") PROVE FALSE
      OBVIOUS
    <3>1. ready[k].run = "datagram" /\ ready[k].socket = "local"
      BY <2>1 DEF IsRun, OneAtATime
    <3>2. s = "local"
      BY <1>5 DEF OneSocket
    <3> QED BY <1>1, <3>1, <3>2
  <2>4. OneAtATime'
    <3>1. callback.socket = "local"
      BY <1>5 DEF OneSocket, callback
    <3> QED BY <1>2, <2>1, <2>3, <3>1 DEF OneAtATime, IsRun
  <2>5. KnownUnderOne'
    <3>1. \A t : KnownUnder(t)' = KnownUnder(t)
      BY <1>1 DEF KnownUnder, Unused, HasRouter, cacheVars
    <3>2. ASSUME NEW k \in 1..Len(ready'), IsRun(k, "renumber")'
          PROVE  k \in 1..Len(ready) /\ ready'[k] = ready[k]
      BY <1>2, <3>2 DEF IsRun
    <3>3. \A k \in 1..Len(ready) : k \in 1..Len(ready') /\ ready'[k] = ready[k]
      BY <1>2
    <3> QED BY <1>1, <2>1, <3>1, <3>2, <3>3 DEF KnownUnderOne, IsRun
  <2>6. ListedUntilDone'
    BY <1>1, <1>2, <2>1 DEF ListedUntilDone, WillBeDone, DoneFirst, IsRun, IsFor, sendVars
  <2> QED BY <2>1, <2>2, <2>4, <2>5, <2>6
<1>6. OneSocket' = OneSocket
  BY <1>1 DEF OneSocket
<1> QED BY <1>3, <1>4, <1>5, <1>6 DEF LayerInv

LEMMA AskNetworkNumberKeeps == ASSUME LayerInv, AskNetworkNumber PROVE LayerInv'
<1>1. /\ UNCHANGED <<cacheVars, adapterNet, sockets, ready, sendVars>>
      /\ asks' \in Nat /\ resolution' \in Nat
  BY DEF AskNetworkNumber, LayerInv, Shape
<1>2. Shape' /\ Waiting' /\ OneSocket' = OneSocket
  <2>1. Shape'
    BY <1>1 DEF LayerInv, Shape, sendVars
  <2>2. Waiting'
    BY <1>1 DEF LayerInv, Waiting, Silent, WakesAfterDone, IsFor, sendVars
  <2> QED BY <1>1, <2>1, <2>2 DEF OneSocket
<1>3. ASSUME OneSocket PROVE CacheTypeOK' /\ Consistent' /\ HeardRouterIsUsed'
  BY <1>1, <1>3 DEF LayerInv, cacheVars, CacheTypeOK, Consistent, DnetsOf, HasRouter, HasPath,
     RouterOf, HeardRouterIsUsed, OneSocket, sendVars
<1>4. ASSUME OneSocket PROVE OneAtATime' /\ KnownUnderOne' /\ ListedUntilDone'
  BY <1>1, <1>4 DEF LayerInv, OneAtATime, KnownUnderOne, KnownUnder, Unused, HasRouter, cacheVars,
     ListedUntilDone, WillBeDone, DoneFirst, IsRun, IsFor, sendVars
<1> QED BY <1>2, <1>3, <1>4 DEF LayerInv

\* The cache and what is to be renumbered stay as they are.
LEMMA SameCache ==
    ASSUME UNCHANGED <<cacheVars, adapterNet>>,
           \A k \in 1..Len(ready') : IsRun(k, "renumber")' => k \in 1..Len(ready) /\ ready'[k] = ready[k],
           \A k \in 1..Len(ready) : k \in 1..Len(ready') /\ ready'[k] = ready[k]
    PROVE  /\ CacheTypeOK => CacheTypeOK'
           /\ Consistent => Consistent'
           /\ KnownUnderOne => KnownUnderOne'
<1>1. (CacheTypeOK => CacheTypeOK') /\ (Consistent => Consistent')
  BY DEF cacheVars, CacheTypeOK, Consistent, DnetsOf, HasRouter, HasPath, RouterOf
<1>2. KnownUnderOne => KnownUnderOne'
  BY DEF KnownUnderOne, IsRun, KnownUnder, Unused, HasRouter, cacheVars
<1> QED BY <1>1, <1>2

LEMMA FuturesLemma ==
    ASSUME Shape, NEW m \in Sends
    PROVE  /\ m \notin ToSet(futures) =>
                  /\ Append(futures, m) \in Seq(Sends) /\ IsInjective(Append(futures, m))
                  /\ ToSet(Append(futures, m)) = ToSet(futures) \cup {m}
           /\ Without(futures, m) \in Seq(Sends) /\ IsInjective(Without(futures, m))
           /\ ToSet(Without(futures, m)) = ToSet(futures) \ {m}
           /\ \A k \in 1..Len(futures) : futures[k] \in Sends /\ futures[k] \in ToSet(futures)
           /\ Len(futures) \in Nat
           /\ ToSet(futures) \in SUBSET Sends
<1>1. futures \in Seq(Sends) /\ IsInjective(futures)
  BY DEF Shape
<1>2. ASSUME m \notin ToSet(futures)
      PROVE  /\ Append(futures, m) \in Seq(Sends) /\ IsInjective(Append(futures, m))
             /\ ToSet(Append(futures, m)) = ToSet(futures) \cup {m}
  <2> DEFINE a == Append(futures, m)
  <2>1. /\ a \in Seq(Sends) /\ Len(futures) \in Nat
        /\ DOMAIN futures = 1..Len(futures) /\ DOMAIN a = 1..(Len(futures) + 1)
        /\ \A k \in 1..Len(futures) : a[k] = futures[k]
        /\ a[Len(futures) + 1] = m
    BY <1>1
  <2> HIDE DEF a
  <2>2. ToSet(a) = ToSet(futures) \cup {m}
    BY <2>1 DEF ToSet
  <2>3. IsInjective(a)
    BY <1>1, <1>2, <2>1 DEF IsInjective, ToSet
  <2> QED BY <2>1, <2>2, <2>3 DEF a
<1>3. \A k \in 1..Len(futures) : futures[k] \in Sends /\ futures[k] \in ToSet(futures)
  BY <1>1 DEF ToSet
<1>4. Len(futures) \in Nat /\ ToSet(futures) \in SUBSET Sends
  BY <1>1 DEF ToSet
<1> QED BY <1>1, <1>2, <1>3, <1>4, WithoutLemma

LEMMA SendToNetworkKeeps ==
    ASSUME LayerInv, NEW m \in Sends, SendToNetwork(m)
    PROVE  LayerInv'
<1>1. /\ Shape /\ Waiting
      /\ sends[m].state = "unsent" /\ m \notin ToSet(futures) /\ Silent(m)
      /\ UNCHANGED <<cacheVars, adapterNet, sockets, ready, askVars>>
  BY DEF LayerInv, SendToNetwork, Waiting
<1>2. /\ sends' \in [Sends -> [state : {"unsent", "waiting", "sent", "UnknownRoute"},
                               list : Seq(Routers), done : BOOLEAN, timer : BOOLEAN]]
      /\ \A f \in Sends \ {m} : sends'[f] = sends[f]
      /\ sends'[m].state \in {"waiting", "sent"} /\ sends'[m].list = <<>> /\ ~sends'[m].done
      /\ futures' \in Seq(Sends) /\ IsInjective(futures')
      /\ ToSet(futures') \subseteq ToSet(futures) \cup {m}
  <2>1. /\ futures' \in Seq(Sends) /\ IsInjective(futures')
        /\ ToSet(futures') \subseteq ToSet(futures) \cup {m}
    <3>1. futures' = futures \/ futures' = Append(futures, m)
      BY DEF SendToNetwork
    <3>2. futures \in Seq(Sends) /\ IsInjective(futures)
      BY <1>1 DEF Shape
    <3>3. /\ Append(futures, m) \in Seq(Sends) /\ IsInjective(Append(futures, m))
          /\ ToSet(Append(futures, m)) = ToSet(futures) \cup {m}
      BY <1>1, FuturesLemma
    <3> QED BY <3>1, <3>2, <3>3
  <2>2. \E r \in {Looking, [NoSend EXCEPT !.state = "sent"]} : sends' = [sends EXCEPT ![m] = r]
    BY DEF SendToNetwork
  <2>3. PICK r \in {Looking, [NoSend EXCEPT !.state = "sent"]} : sends' = [sends EXCEPT ![m] = r]
    BY <2>2
  <2>4. /\ r \in [state : {"unsent", "waiting", "sent", "UnknownRoute"},
                  list : Seq(Routers), done : BOOLEAN, timer : BOOLEAN]
        /\ r.state \in {"waiting", "sent"} /\ r.list = <<>> /\ ~r.done
    <3>1. <<>> \in Seq(Routers)
      OBVIOUS
    <3> QED BY <3>1 DEF Looking, NoSend
  <2> HIDE DEF Looking
  <2> QED BY <1>1, <2>1, <2>3, <2>4 DEF Shape
<1>3. Shape'
  BY <1>1, <1>2 DEF Shape, askVars
<1>4. \A f \in Sends : /\ Silent(f)' = Silent(f) /\ WakesAfterDone(f)' = WakesAfterDone(f)
                       /\ WillBeDone(f)' = WillBeDone(f) /\ DoneFirst(f)' = DoneFirst(f)
  BY <1>1 DEF Silent, WakesAfterDone, WillBeDone, DoneFirst, IsFor, IsRun
<1>5. WakesAfterDone(m)
  BY <1>1 DEF Silent, WakesAfterDone
<1>6. Waiting'
  BY <1>1, <1>2, <1>4, <1>5 DEF Waiting
<1>7. OneSocket' = OneSocket
  BY <1>1 DEF OneSocket
<1>8. ASSUME OneSocket
      PROVE  /\ CacheTypeOK' /\ Consistent'
             /\ OneAtATime' /\ KnownUnderOne' /\ ListedUntilDone'
             /\ HeardRouterIsUsed'
  <2>1. CacheTypeOK' /\ Consistent' /\ KnownUnderOne'
    BY <1>1, <1>8, SameCache DEF LayerInv
  <2>2. OneAtATime'
    BY <1>1, <1>8 DEF LayerInv, OneAtATime, IsRun
  <2>3. ListedUntilDone'
    <3>1. Len(sends'[m].list) = 0
      BY <1>2
    <3>2. ToSet(futures) \in SUBSET Sends /\ ToSet(futures') \in SUBSET Sends
      BY <1>1, <1>2, FuturesLemma
    <3>3. ASSUME NEW f \in ToSet(futures'), sends'[f].done
          PROVE  WillBeDone(f)' /\ (sends'[f].list # <<>> => DoneFirst(f)')
      <4>1. f # m /\ f \in ToSet(futures) /\ f \in Sends
        BY <1>2, <3>2, <3>3
      <4> QED BY <1>2, <1>4, <1>8, <3>3, <4>1 DEF LayerInv, ListedUntilDone
    <3>4. \A f \in Sends : Len(sends'[f].list) <= 1
      BY <1>2, <1>8, <3>1 DEF LayerInv, ListedUntilDone
    <3> QED BY <3>3, <3>4 DEF ListedUntilDone
  <2>4. HeardRouterIsUsed'
    BY <1>2, <1>7, <1>8 DEF LayerInv, HeardRouterIsUsed
  <2> QED BY <2>1, <2>2, <2>3, <2>4
<1> QED BY <1>3, <1>6, <1>7, <1>8 DEF LayerInv

LEMMA RouterTimeoutKeeps ==
    ASSUME LayerInv, NEW m \in Sends, RouterTimeout(m)
    PROVE  LayerInv'
<1> DEFINE callbacks == IF sends[m].done THEN <<>>
                        ELSE <<[run |-> "done", send |-> m], [run |-> "wakeup", send |-> m]>>
<1>1. /\ Shape /\ Waiting
      /\ sends[m].state # "unsent"
      /\ UNCHANGED <<cacheVars, adapterNet, sockets, futures, askVars>>
  BY DEF LayerInv, RouterTimeout, Waiting
<1>2. /\ callbacks \in Seq(Callbacks)
      /\ Len(callbacks) \in Nat
      /\ sends[m].done => Len(callbacks) = 0
      /\ ~sends[m].done => /\ Len(callbacks) = 2
                           /\ callbacks[1] = [run |-> "done", send |-> m]
                           /\ callbacks[2] = [run |-> "wakeup", send |-> m]
  <2>1. /\ [run |-> "done", send |-> m] \in Callbacks
        /\ [run |-> "wakeup", send |-> m] \in Callbacks
    BY DEF Callbacks
  <2> QED BY <2>1
<1>3. ready' = ready \o callbacks
  BY <1>1 DEF RouterTimeout, Shape
<1> HIDE DEF callbacks
<1>4. /\ ready' \in Seq(Callbacks) /\ Len(ready) \in Nat
      /\ Len(ready') = Len(ready) + Len(callbacks)
      /\ \A i \in 1..Len(ready) : ready'[i] = ready[i]
      /\ \A i \in 1..Len(callbacks) : ready'[Len(ready) + i] = callbacks[i]
  BY <1>1, <1>2, <1>3, AddedLemma
<1>5. /\ \A i \in 1..Len(callbacks) : callbacks[i].run \in {"done", "wakeup"} /\ callbacks[i].send = m
      /\ \A i \in 1..Len(callbacks) : callbacks[i].run = "wakeup" =>
             \E j \in 1..(i - 1) : callbacks[j].run = "done" /\ callbacks[j].send = m
  <2>1. CASE sends[m].done
    BY <1>2, <2>1
  <2>2. CASE ~sends[m].done
    <3>1. \A i \in 1..2 : i = 1 \/ i = 2
      OBVIOUS
    <3>2. \A i \in 1..Len(callbacks) : i = 1 \/ i = 2
      BY <1>2, <2>2, <3>1
    <3>3. 1 \in 1..(2 - 1)
      OBVIOUS
    <3> QED BY <1>2, <2>2, <3>2, <3>3
  <2> QED BY <2>1, <2>2
<1>6. Moved(0, callbacks)
  BY <1>2, <1>4 DEF Moved
<1>7. ASSUME NEW f \in Sends
      PROVE  /\ Silent(f) /\ f # m => Silent(f)'
             /\ WakesAfterDone(f) => WakesAfterDone(f)'
             /\ WillBeDone(f) => WillBeDone(f)'
             /\ DoneFirst(f) => DoneFirst(f)'
  <2>1. /\ \A i \in 1..Len(callbacks) : callbacks[i].run # "datagram"
        /\ \A i \in 1..Len(callbacks) :
               callbacks[i].run = "wakeup" /\ callbacks[i].send = f =>
                   \E j \in 1..(i - 1) : callbacks[j].run = "done" /\ callbacks[j].send = f
        /\ f # m => \A i \in 1..Len(callbacks) :
                        callbacks[i].run \in {"done", "wakeup"} => callbacks[i].send # f
    BY <1>5
  <2> QED BY <1>1, <1>2, <1>6, <2>1, MovedLemma
<1>8. /\ sends' \in [Sends -> [state : {"unsent", "waiting", "sent", "UnknownRoute"},
                               list : Seq(Routers), done : BOOLEAN, timer : BOOLEAN]]
      /\ \A f \in Sends \ {m} : sends'[f] = sends[f]
      /\ sends'[m].state = sends[m].state /\ sends'[m].list = sends[m].list /\ sends'[m].done
  BY <1>1 DEF RouterTimeout, Shape
<1>9. Shape'
  BY <1>1, <1>4, <1>8 DEF Shape, askVars
<1>10. Waiting'
  BY <1>1, <1>7, <1>8 DEF Waiting
<1>11. OneSocket' = OneSocket
  BY <1>1 DEF OneSocket
<1>12. ASSUME OneSocket
       PROVE  /\ CacheTypeOK' /\ Consistent'
              /\ OneAtATime' /\ KnownUnderOne' /\ ListedUntilDone'
              /\ HeardRouterIsUsed'
  <2>1. ASSUME NEW k \in 1..Len(ready'), IsRun(k, "renumber")' \/ IsRun(k, "datagram")'
        PROVE  k \in 1..Len(ready) /\ ready'[k] = ready[k]
    <3>1. CASE k <= Len(ready)
      BY <1>4, <3>1
    <3>2. CASE k > Len(ready)
      <4>1. k - Len(ready) \in 1..Len(callbacks) /\ Len(ready) + (k - Len(ready)) = k
        BY <1>2, <1>4, <3>2
      <4>2. ready'[k] = callbacks[k - Len(ready)]
        BY <1>4, <4>1
      <4> QED BY <1>5, <2>1, <4>1, <4>2 DEF IsRun
    <3> QED BY <1>4, <3>1, <3>2
  <2>2. \A k \in 1..Len(ready) : k \in 1..Len(ready') /\ ready'[k] = ready[k]
    BY <1>2, <1>4
  <2>3. CacheTypeOK' /\ Consistent' /\ KnownUnderOne'
    BY <1>1, <1>12, <2>1, <2>2, SameCache DEF LayerInv
  <2>4. OneAtATime'
    BY <1>12, <2>1 DEF LayerInv, OneAtATime, IsRun
  <2>5. ListedUntilDone'
    <3>1. ASSUME ~sends[m].done PROVE WillBeDone(m)' /\ sends[m].list = <<>>
      <4>1. PICK j \in 1..Len(ready') : j = Len(ready) + 1
        BY <1>2, <1>4, <3>1
      <4>2. IsFor(j, "done", m)'
        BY <1>2, <1>4, <3>1, <4>1 DEF IsFor
      <4> QED BY <1>1, <3>1, <4>1, <4>2 DEF WillBeDone, Waiting
    <3>2. ToSet(futures) \in SUBSET Sends /\ futures' = futures
      BY <1>1, FuturesLemma
    <3>3. ASSUME NEW f \in ToSet(futures), sends'[f].done
          PROVE  WillBeDone(f)' /\ (sends'[f].list # <<>> => DoneFirst(f)')
      BY <1>7, <1>8, <1>12, <3>1, <3>2, <3>3 DEF LayerInv, ListedUntilDone
    <3>4. \A f \in Sends : Len(sends'[f].list) <= 1
      BY <1>8, <1>12 DEF LayerInv, ListedUntilDone
    <3> QED BY <3>2, <3>3, <3>4 DEF ListedUntilDone
  <2>6. HeardRouterIsUsed'
    BY <1>8, <1>11, <1>12 DEF LayerInv, HeardRouterIsUsed
  <2> QED BY <2>3, <2>4, <2>5, <2>6
<1> QED BY <1>9, <1>10, <1>11, <1>12 DEF LayerInv

\* A callback of a message leaves the cache alone.
LEMMA MessageRun ==
    ASSUME LayerInv, OneSocket, ready # <<>>, Head(ready).run \in {"done", "wakeup"},
           Schedules(<<>>), UNCHANGED <<cacheVars, adapterNet>>
    PROVE  CacheTypeOK' /\ Consistent' /\ OneAtATime' /\ KnownUnderOne'
<1>1. Shape /\ CacheTypeOK /\ Consistent /\ OneAtATime /\ KnownUnderOne
  BY DEF LayerInv
<1>2. OneAtATime'
  BY <1>1, EmptyLemma, OrderLemma
<1>3. KnownUnderOne'
  BY <1>1, EmptyLemma, KnownLemma
<1>4. CacheTypeOK' /\ Consistent'
  BY <1>1 DEF cacheVars, CacheTypeOK, Consistent, DnetsOf, HasRouter, HasPath, RouterOf
<1> QED BY <1>2, <1>3, <1>4

LEMMA RouterFutureDoneKeeps == ASSUME LayerInv, RouterFutureDone PROVE LayerInv'
<1>1. /\ Shape /\ Waiting /\ ready # <<>> /\ Head(ready).run = "done" /\ Schedules(<<>>)
      /\ UNCHANGED <<cacheVars, adapterNet, askVars>>
  BY DEF LayerInv, RouterFutureDone, Runs
<1>2. /\ ready' \in Seq(Callbacks) /\ Moved(1, <<>>)
      /\ Head(ready) = ready[1] /\ ready[1] \in Callbacks /\ 1 \in 1..Len(ready)
  <2>1. Moved(1, <<>>)
    BY <1>1, EmptyLemma, RunMoves
  <2>2. /\ ready' \in Seq(Callbacks) /\ Len(ready) \in Nat \ {0}
        /\ Head(ready) = ready[1] /\ ready[1] \in Callbacks
    BY <1>1, EmptyLemma, ScheduledLemma
  <2> QED BY <2>1, <2>2
<1>3. PICK m \in Sends : m = Head(ready).send
  BY <1>1, <1>2, KindLemma
<1>4. /\ IsFor(1, "done", m)
      /\ futures' = Without(futures, m)
      /\ sends' = [sends EXCEPT ![m].timer = FALSE]
  BY <1>1, <1>2, <1>3 DEF RouterFutureDone, IsFor
<1>5. /\ futures' \in Seq(Sends) /\ IsInjective(futures')
      /\ ToSet(futures') = ToSet(futures) \ {m}
      /\ ToSet(futures) \in SUBSET Sends
  BY <1>1, <1>4, FuturesLemma
<1>6. /\ sends' \in [Sends -> [state : {"unsent", "waiting", "sent", "UnknownRoute"},
                               list : Seq(Routers), done : BOOLEAN, timer : BOOLEAN]]
      /\ \A f \in Sends \ {m} : sends'[f] = sends[f]
      /\ sends'[m].state = sends[m].state /\ sends'[m].list = sends[m].list
      /\ sends'[m].done = sends[m].done
  BY <1>1, <1>4 DEF Shape
<1>7. Shape'
  BY <1>1, <1>2, <1>5, <1>6 DEF Shape, Schedules, askVars
<1>8. ASSUME NEW f \in Sends \ {m}
      PROVE  /\ Silent(f) => Silent(f)'
             /\ WakesAfterDone(f) => WakesAfterDone(f)'
             /\ WillBeDone(f) => WillBeDone(f)'
             /\ DoneFirst(f) => DoneFirst(f)'
  <2>1. ~IsFor(1, "done", f)
    BY <1>4 DEF IsFor
  <2> QED BY <1>1, <1>2, <2>1, EmptyLemma, MovedLemma
<1>9. sends[m].state # "unsent"
  BY <1>1, <1>2, <1>4 DEF Waiting, Silent
<1>10. Waiting'
  BY <1>1, <1>5, <1>6, <1>8, <1>9 DEF Waiting
<1>11. OneSocket' = OneSocket
  BY <1>1 DEF OneSocket, Schedules
<1>12. ASSUME OneSocket PROVE ListedUntilDone' /\ HeardRouterIsUsed'
  <2>1. ListedUntilDone'
    BY <1>5, <1>6, <1>8, <1>12 DEF LayerInv, ListedUntilDone
  <2>2. HeardRouterIsUsed'
    BY <1>6, <1>11, <1>12 DEF LayerInv, HeardRouterIsUsed
  <2> QED BY <2>1, <2>2
<1> QED BY <1>1, <1>7, <1>10, <1>11, <1>12, MessageRun DEF LayerInv

LEMMA SendGoesOnKeeps == ASSUME LayerInv, SendGoesOn PROVE LayerInv'
<1>1. /\ Shape /\ Waiting /\ ready # <<>> /\ Head(ready).run = "wakeup" /\ Schedules(<<>>)
      /\ UNCHANGED <<cacheVars, adapterNet, futures, askVars>>
  BY DEF LayerInv, SendGoesOn, Runs
<1>2. /\ ready' \in Seq(Callbacks) /\ Moved(1, <<>>)
      /\ Head(ready) = ready[1] /\ ready[1] \in Callbacks /\ 1 \in 1..Len(ready)
  <2>1. Moved(1, <<>>)
    BY <1>1, EmptyLemma, RunMoves
  <2>2. /\ ready' \in Seq(Callbacks) /\ Len(ready) \in Nat \ {0}
        /\ Head(ready) = ready[1] /\ ready[1] \in Callbacks
    BY <1>1, EmptyLemma, ScheduledLemma
  <2> QED BY <2>1, <2>2
<1>3. PICK m \in Sends : m = Head(ready).send
  BY <1>1, <1>2, KindLemma
<1>4. /\ IsFor(1, "wakeup", m)
      /\ sends' = [sends EXCEPT ![m].state =
                      IF ExactlyOne(sends[m].list) THEN "sent" ELSE "UnknownRoute"]
  BY <1>1, <1>2, <1>3 DEF SendGoesOn, IsFor
<1>5. /\ sends' \in [Sends -> [state : {"unsent", "waiting", "sent", "UnknownRoute"},
                               list : Seq(Routers), done : BOOLEAN, timer : BOOLEAN]]
      /\ \A f \in Sends \ {m} : sends'[f] = sends[f]
      /\ sends'[m].list = sends[m].list /\ sends'[m].done = sends[m].done
      /\ sends'[m].state \in {"sent", "UnknownRoute"}
      /\ sends'[m].state = "UnknownRoute" => Len(sends[m].list) # 1
  BY <1>1, <1>4 DEF Shape, ExactlyOne
<1>6. m \notin ToSet(futures)
  BY <1>1, <1>2, <1>4 DEF Waiting, WakesAfterDone
<1>7. Shape'
  BY <1>1, <1>2, <1>5 DEF Shape, Schedules, askVars
<1>8. ASSUME NEW f \in Sends
      PROVE  /\ Silent(f) => Silent(f)'
             /\ WakesAfterDone(f) => WakesAfterDone(f)'
             /\ WillBeDone(f) => WillBeDone(f)'
             /\ DoneFirst(f) => DoneFirst(f)'
  <2>1. ~IsFor(1, "done", f)
    BY <1>4 DEF IsFor
  <2> QED BY <1>1, <1>2, <2>1, EmptyLemma, MovedLemma
<1>9. Waiting'
  BY <1>1, <1>5, <1>6, <1>8 DEF Waiting
<1>10. OneSocket' = OneSocket
  BY <1>1 DEF OneSocket, Schedules
<1>11. ASSUME OneSocket PROVE ListedUntilDone' /\ HeardRouterIsUsed'
  <2>1. ToSet(futures) \in SUBSET Sends
    BY <1>1, FuturesLemma
  <2>2. ListedUntilDone'
    BY <1>1, <1>5, <1>6, <1>8, <1>11, <2>1 DEF LayerInv, ListedUntilDone
  <2>3. sends'[m].state = "UnknownRoute" => sends[m].list = <<>>
    <3>1. sends[m].list \in Seq(Routers) /\ Len(sends[m].list) <= 1
      BY <1>1, <1>11 DEF Shape, LayerInv, ListedUntilDone
    <3>2. Len(sends[m].list) \in Nat
      BY <3>1
    <3>3. Len(sends[m].list) = 0 => sends[m].list = <<>>
      BY <3>1
    <3>5. \A n \in Nat : n <= 1 /\ n # 1 => n = 0
      OBVIOUS
    <3>4. Len(sends[m].list) # 1 => Len(sends[m].list) = 0
      BY <3>1, <3>2, <3>5
    <3> QED BY <1>5, <3>3, <3>4
  <2>4. HeardRouterIsUsed'
    BY <1>5, <1>10, <1>11, <2>3 DEF LayerInv, HeardRouterIsUsed
  <2> QED BY <2>2, <2>4
<1> QED BY <1>1, <1>7, <1>9, <1>10, <1>11, MessageRun DEF LayerInv

LEMMA FunctionIsSeq ==
    ASSUME NEW S, NEW n \in Nat, NEW f \in [1..n -> S]
    PROVE  f \in Seq(S) /\ Len(f) = n
OBVIOUS

(***************************************************************************)
(* The futures that get a router as their result are scheduled each once,  *)
(* the callback that ends it before the one that goes on.                  *)
(***************************************************************************)
InOrder(resolved, n, nth, callbacks) ==
    /\ n = Cardinality(resolved)
    /\ nth \in [1..n -> resolved]
    /\ \A i, j \in 1..n : i < j => nth[i] < nth[j]
    /\ callbacks = [k \in 1..(2 * n) |->
                       [run |-> IF k % 2 = 1 THEN "done" ELSE "wakeup",
                        send |-> futures[nth[(k + 1) \div 2]]]]

OnceEach(resolved, callbacks) ==
    /\ callbacks \in Seq(Callbacks)
    /\ Len(callbacks) \in Nat
    /\ \A i \in 1..Len(callbacks) :
           /\ callbacks[i].run \in {"done", "wakeup"}
           /\ \E k \in resolved : callbacks[i].send = futures[k]
           /\ callbacks[i].run = "wakeup" =>
                  \E j \in 1..(i - 1) : /\ callbacks[j].run = "done"
                                        /\ callbacks[j].send = callbacks[i].send
    /\ \A k \in resolved : \E i \in 1..Len(callbacks) :
           callbacks[i].run = "done" /\ callbacks[i].send = futures[k]

LEMMA InOrderLemma ==
    ASSUME Shape, NEW resolved \in SUBSET (1..Len(futures)), NEW n, NEW nth, NEW callbacks,
           InOrder(resolved, n, nth, callbacks)
    PROVE  OnceEach(resolved, callbacks)
<1> /\ n = Cardinality(resolved)
    /\ nth \in [1..n -> resolved]
    /\ \A i, j \in 1..n : i < j => nth[i] < nth[j]
    /\ callbacks = [k \in 1..(2 * n) |->
                       [run |-> IF k % 2 = 1 THEN "done" ELSE "wakeup",
                        send |-> futures[nth[(k + 1) \div 2]]]]
  BY DEF InOrder
<1>1. Len(futures) \in Nat /\ \A k \in 1..Len(futures) : futures[k] \in Sends
  BY DEF Shape
<1>2. n \in Nat /\ IsFiniteSet(resolved)
  <2>1. IsFiniteSet(1..Len(futures))
    BY <1>1, FS_Interval
  <2>2. IsFiniteSet(resolved)
    BY <2>1, FS_Subset
  <2> QED BY <2>2, FS_CardinalityType
<1>3. ASSUME NEW k \in 1..(2 * n)
      PROVE  /\ (k + 1) \div 2 \in 1..n
             /\ k % 2 \in {0, 1}
             /\ k % 2 = 0 => k - 1 \in 1..(2 * n) /\ (k - 1) % 2 = 1
                             /\ ((k - 1) + 1) \div 2 = (k + 1) \div 2
  BY <1>2
<1>4. ASSUME NEW k \in 1..(2 * n)
      PROVE  /\ callbacks[k] = [run |-> IF k % 2 = 1 THEN "done" ELSE "wakeup",
                                send |-> futures[nth[(k + 1) \div 2]]]
             /\ k % 2 = 1 => callbacks[k].run = "done"
             /\ k % 2 = 0 => callbacks[k].run = "wakeup"
             /\ callbacks[k].send = futures[nth[(k + 1) \div 2]]
             /\ nth[(k + 1) \div 2] \in resolved
             /\ futures[nth[(k + 1) \div 2]] \in Sends
  <2>1. callbacks[k] = [run |-> IF k % 2 = 1 THEN "done" ELSE "wakeup",
                        send |-> futures[nth[(k + 1) \div 2]]]
    OBVIOUS
  <2>2. (k + 1) \div 2 \in 1..n
    BY <1>3
  <2>3. nth[(k + 1) \div 2] \in resolved
    BY <2>2
  <2>4. k % 2 = 0 => ~(k % 2 = 1)
    OBVIOUS
  <2>5. /\ callbacks[k].run = IF k % 2 = 1 THEN "done" ELSE "wakeup"
        /\ callbacks[k].send = futures[nth[(k + 1) \div 2]]
    BY <2>1
  <2>6. futures[nth[(k + 1) \div 2]] \in Sends
    BY <1>1, <2>3
  <2> QED BY <2>1, <2>3, <2>4, <2>5, <2>6
<1>5. callbacks \in Seq(Callbacks) /\ Len(callbacks) = 2 * n
  <2>1. \A k \in 1..(2 * n) : callbacks[k] \in Callbacks
    BY <1>4 DEF Callbacks
  <2>2. 2 * n \in Nat
    BY <1>2
  <2>3. callbacks = [k \in 1..(2 * n) |-> callbacks[k]]
    OBVIOUS
  <2>4. callbacks \in [1..(2 * n) -> Callbacks]
    BY <2>1, <2>3
  <2>5. PICK len \in Nat : len = 2 * n
    BY <2>2
  <2>6. callbacks \in [1..len -> Callbacks]
    BY <2>4, <2>5
  <2>7. callbacks \in Seq(Callbacks) /\ Len(callbacks) = len
    BY <2>6, FunctionIsSeq
  <2> QED BY <2>5, <2>7
<1>6. ASSUME NEW i \in 1..(2 * n)
      PROVE  /\ callbacks[i].run \in {"done", "wakeup"}
             /\ \E k \in resolved : callbacks[i].send = futures[k]
             /\ callbacks[i].run = "wakeup" =>
                    \E j \in 1..(i - 1) : /\ callbacks[j].run = "done"
                                          /\ callbacks[j].send = callbacks[i].send
  <2>1. callbacks[i].run = "wakeup" => i % 2 = 0
    BY <1>3, <1>4
  <2>2. ASSUME i % 2 = 0
        PROVE  /\ i - 1 \in 1..(i - 1) /\ callbacks[i - 1].run = "done"
               /\ callbacks[i - 1].send = callbacks[i].send
    <3>1. i - 1 \in 1..(2 * n) /\ (i - 1) % 2 = 1 /\ ((i - 1) + 1) \div 2 = (i + 1) \div 2
      BY <1>3, <2>2
    <3>2. i - 1 \in 1..(i - 1)
      BY <3>1
    <3>3. /\ callbacks[i - 1].run = "done"
          /\ callbacks[i - 1].send = futures[nth[((i - 1) + 1) \div 2]]
      BY <1>4, <3>1
    <3>4. callbacks[i].send = futures[nth[(i + 1) \div 2]]
      BY <1>4
    <3> QED BY <3>1, <3>2, <3>3, <3>4
  <2>3. callbacks[i].run \in {"done", "wakeup"}
    BY <1>3, <1>4
  <2>4. \E k \in resolved : callbacks[i].send = futures[k]
    BY <1>4
  <2> QED BY <2>1, <2>2, <2>3, <2>4
<1>7. ASSUME NEW k \in resolved
      PROVE  \E i \in 1..(2 * n) : callbacks[i].run = "done" /\ callbacks[i].send = futures[k]
  <2>1. nth \in Injection(1..n, resolved)
    <3>1. ASSUME NEW i \in 1..n, NEW j \in 1..n, nth[i] = nth[j] PROVE i = j
      <4>1. nth[i] \in resolved /\ nth[j] \in resolved
        OBVIOUS
      <4>4. \A p \in resolved : p \in Int
        BY <1>1
      <4>3. nth[i] \in Int /\ nth[j] \in Int
        BY <4>1, <4>4
      <4>2. i < j \/ j < i \/ i = j
        BY <1>2
      <4> QED BY <3>1, <4>3, <4>2
    <3> QED BY <3>1 DEF Injection, IsInjective
  <2>2. Cardinality(1..n) = n
    BY <1>2, FS_Interval
  <2>3. nth \in Surjection(1..n, resolved)
    BY <1>2, <2>1, <2>2, FS_Injection
  <2>4. PICK i \in 1..n : nth[i] = k
    BY <2>3 DEF Surjection
  <2>5. i \in Nat /\ 1 <= i /\ i <= n
    BY <1>2
  <2>6. 2 * i - 1 \in 1..(2 * n)
    BY <1>2, <2>5
  <2>7. (2 * i - 1) % 2 = 1 /\ ((2 * i - 1) + 1) \div 2 = i
    BY <2>5
  <2> QED BY <1>4, <2>4, <2>6, <2>7
<1>8. Len(callbacks) \in Nat /\ 1..Len(callbacks) = 1..(2 * n)
  BY <1>2, <1>5
<1>9. \A i \in 1..Len(callbacks) :
          /\ callbacks[i].run \in {"done", "wakeup"}
          /\ \E k \in resolved : callbacks[i].send = futures[k]
          /\ callbacks[i].run = "wakeup" =>
                 \E j \in 1..(i - 1) : /\ callbacks[j].run = "done"
                                       /\ callbacks[j].send = callbacks[i].send
  BY <1>6, <1>8
<1>10. \A k \in resolved : \E i \in 1..Len(callbacks) :
           callbacks[i].run = "done" /\ callbacks[i].send = futures[k]
  BY <1>7, <1>8
<1> QED BY <1>5, <1>8, <1>9, <1>10 DEF OnceEach

LEMMA MatchKeeps ==
    ASSUME LayerInv, ready # <<>>, Head(ready).run = "datagram",
           NEW a \in Routers, NEW ds \in SUBSET Dnets, Match(a, ds),
           UpdatePathInfo(adapterNet, a, ds),
           UNCHANGED <<adapterNet, futures, askVars>>
    PROVE  LayerInv'
<1> DEFINE given == {futures[k] : k \in GivenRouter(ds)}
           resolved == {k \in GivenRouter(ds) : ~sends[futures[k]].done}
           n == Cardinality(resolved)
<1>1. /\ Shape /\ Waiting
      /\ Len(futures) \in Nat /\ ToSet(futures) \in SUBSET Sends
      /\ \A k \in 1..Len(futures) : futures[k] \in ToSet(futures)
  <2>1. Shape /\ Waiting
    BY DEF LayerInv
  <2>2. /\ Len(futures) \in Nat /\ ToSet(futures) \in SUBSET Sends
        /\ \A k \in 1..Len(futures) : futures[k] \in ToSet(futures)
    BY <2>1 DEF Shape, ToSet
  <2> QED BY <2>1, <2>2
<1>2. /\ given \subseteq ToSet(futures)
      /\ resolved \in SUBSET (1..Len(futures))
      /\ \A k \in resolved : futures[k] \in given /\ ~sends[futures[k]].done
      /\ \A f \in given : ~sends[f].done => \E k \in resolved : futures[k] = f
  BY <1>1 DEF GivenRouter, Matching
<1>3. PICK nth \in [1..n -> resolved] :
          /\ \A i, j \in 1..n : i < j => nth[i] < nth[j]
          /\ Schedules([k \in 1..(2 * n) |->
                [run |-> IF k % 2 = 1 THEN "done" ELSE "wakeup",
                 send |-> futures[nth[(k + 1) \div 2]]]])
  BY DEF Match
<1>4. sends' = [m \in Sends |->
                   IF m \in given
                   THEN [sends[m] EXCEPT !.list = Append(@, a), !.done = TRUE]
                   ELSE sends[m]]
  BY DEF Match
<1> DEFINE callbacks == [k \in 1..(2 * n) |->
                            [run |-> IF k % 2 = 1 THEN "done" ELSE "wakeup",
                             send |-> futures[nth[(k + 1) \div 2]]]]
<1>5. OnceEach(resolved, callbacks)
  <2>1. /\ n = Cardinality(resolved)
        /\ callbacks = [k \in 1..(2 * n) |->
                           [run |-> IF k % 2 = 1 THEN "done" ELSE "wakeup",
                            send |-> futures[nth[(k + 1) \div 2]]]]
        /\ nth \in [1..n -> resolved]
        /\ \A i, j \in 1..n : i < j => nth[i] < nth[j]
    BY <1>3
  <2>2. InOrder(resolved, n, nth, callbacks)
    BY <2>1 DEF InOrder
  <2>3. Shape /\ resolved \in SUBSET (1..Len(futures))
    BY <1>1, <1>2
  <2> HIDE DEF resolved, callbacks, n, given
  <2> QED BY <2>2, <2>3, InOrderLemma
<1>11. /\ callbacks \in Seq(Callbacks)
       /\ Len(callbacks) \in Nat
       /\ \A i \in 1..Len(callbacks) :
              /\ callbacks[i].run \in {"done", "wakeup"}
              /\ \E k \in resolved : callbacks[i].send = futures[k]
              /\ callbacks[i].run = "wakeup" =>
                     \E j \in 1..(i - 1) : /\ callbacks[j].run = "done"
                                           /\ callbacks[j].send = callbacks[i].send
       /\ \A k \in resolved : \E i \in 1..Len(callbacks) :
              callbacks[i].run = "done" /\ callbacks[i].send = futures[k]
  <2> HIDE DEF resolved, callbacks
  <2> QED BY <1>5 DEF OnceEach
<1>6. Schedules(callbacks)
  BY <1>3
<1> HIDE DEF callbacks, n, resolved, given
<1>7. /\ \A i \in 1..Len(callbacks) :
             /\ callbacks[i].run \in {"done", "wakeup"}
             /\ callbacks[i].send \in given /\ ~sends[callbacks[i].send].done
      /\ \A f \in given : ~sends[f].done =>
             \E i \in 1..Len(callbacks) : callbacks[i].run = "done" /\ callbacks[i].send = f
  <2>1. ASSUME NEW i \in 1..Len(callbacks)
        PROVE  /\ callbacks[i].run \in {"done", "wakeup"}
               /\ callbacks[i].send \in given /\ ~sends[callbacks[i].send].done
    <3>1. PICK k \in resolved : callbacks[i].send = futures[k]
      BY <1>11
    <3> QED BY <1>2, <1>11, <3>1
  <2>2. ASSUME NEW f \in given, ~sends[f].done
        PROVE  \E i \in 1..Len(callbacks) : callbacks[i].run = "done" /\ callbacks[i].send = f
    <3>1. PICK k \in resolved : futures[k] = f
      BY <1>2, <2>2
    <3> QED BY <1>11, <3>1
  <2> QED BY <2>1, <2>2
<1>8. /\ ready' \in Seq(Callbacks) /\ Len(ready) \in Nat \ {0}
      /\ Len(ready') = Len(ready) - 1 + Len(callbacks)
      /\ \A i \in 1..Len(callbacks) : ready'[Len(ready) - 1 + i] = callbacks[i]
      /\ Head(ready) = ready[1]
      /\ Moved(1, callbacks)
  BY <1>1, <1>11, <1>6, ScheduledLemma, RunMoves
<1>9. ASSUME NEW f \in Sends
      PROVE  /\ Silent(f) /\ f \notin given => Silent(f)'
             /\ WakesAfterDone(f) => WakesAfterDone(f)'
             /\ WillBeDone(f) => WillBeDone(f)'
  <2>1. ~IsFor(1, "done", f)
    BY <1>8 DEF IsFor
  <2>2. \A i \in 1..Len(callbacks) : callbacks[i].run # "datagram"
    BY <1>7
  <2>3. f \notin given => \A i \in 1..Len(callbacks) :
            callbacks[i].run \in {"done", "wakeup"} => callbacks[i].send # f
    BY <1>7
  <2>4. ASSUME NEW i \in 1..Len(callbacks), callbacks[i].run = "wakeup", callbacks[i].send = f
        PROVE  \E j \in 1..(i - 1) : callbacks[j].run = "done" /\ callbacks[j].send = f
    <3>1. PICK j \in 1..(i - 1) : /\ callbacks[j].run = "done"
                                  /\ callbacks[j].send = callbacks[i].send
      BY <1>11, <2>4
    <3> QED BY <2>4, <3>1
  <2> QED BY <1>1, <1>11, <1>8, <2>1, <2>2, <2>3, <2>4, MovedLemma
<1>10. /\ sends' \in [Sends -> [state : {"unsent", "waiting", "sent", "UnknownRoute"},
                                list : Seq(Routers), done : BOOLEAN, timer : BOOLEAN]]
       /\ \A f \in Sends : /\ sends'[f].state = sends[f].state
                           /\ sends'[f].timer = sends[f].timer
                           /\ f \notin given => sends'[f] = sends[f]
                           /\ f \in given => /\ sends'[f].done
                                             /\ sends'[f].list = Append(sends[f].list, a)
  <2>1. ASSUME NEW f \in Sends
        PROVE  /\ sends'[f] \in [state : {"unsent", "waiting", "sent", "UnknownRoute"},
                                 list : Seq(Routers), done : BOOLEAN, timer : BOOLEAN]
               /\ sends'[f].state = sends[f].state
               /\ sends'[f].timer = sends[f].timer
               /\ f \notin given => sends'[f] = sends[f]
               /\ f \in given => /\ sends'[f].done
                                 /\ sends'[f].list = Append(sends[f].list, a)
    <3>1. /\ sends[f] \in [state : {"unsent", "waiting", "sent", "UnknownRoute"},
                           list : Seq(Routers), done : BOOLEAN, timer : BOOLEAN]
      BY <1>1 DEF Shape
    <3>2. Append(sends[f].list, a) \in Seq(Routers)
      BY <3>1
    <3> QED BY <1>4, <3>1, <3>2
  <2>2. sends' = [f \in Sends |-> sends'[f]]
    BY <1>4
  <2> QED BY <2>1, <2>2
<1>16. futures' = futures
  OBVIOUS
<1>12. Shape'
  <2>1. /\ adapterNet' = adapterNet /\ asks' = asks /\ resolution' = resolution
        /\ sockets' = sockets
    BY <1>6 DEF Schedules, askVars
  <2> QED BY <1>1, <1>8, <1>10, <1>16, <2>1 DEF Shape
<1>13. Waiting'
  <2>1. \A f \in Sends : sends[f].state \in {"unsent", "UnknownRoute"} => f \notin given
    BY <1>1, <1>2 DEF Waiting
  <2> QED BY <1>1, <1>2, <1>9, <1>10, <1>16, <2>1 DEF Waiting
<1>14. OneSocket' = OneSocket
  BY <1>6 DEF OneSocket, Schedules
<1>15. ASSUME OneSocket
       PROVE  /\ CacheTypeOK' /\ Consistent'
              /\ OneAtATime' /\ KnownUnderOne' /\ ListedUntilDone'
              /\ HeardRouterIsUsed'
  <2>1. OneAtATime /\ ListedUntilDone /\ HeardRouterIsUsed
    BY <1>15 DEF LayerInv
  <2>2. /\ \A i \in 1..Len(callbacks) : callbacks[i].run \notin {"renumber", "datagram"}
        /\ \A i \in 1..Len(callbacks) : callbacks[i].run # "datagram"
        /\ \A i \in 1..Len(callbacks) : callbacks[i].run # "renumber"
    BY <1>7
  <2>3. \A k \in 1..Len(ready') : ~IsRun(k, "renumber")' /\ ~IsRun(k, "datagram")'
    BY <1>1, <1>11, <1>6, <2>1, <2>2, NoneLeft
  <2>4. OneAtATime'
    BY <1>1, <1>11, <1>6, <2>1, <2>2, OrderLemma
  <2>5. CacheTypeOK' /\ Consistent' /\ KnownUnderOne'
    BY <1>15, <2>3, ToldLemma
  <2>6. ASSUME NEW f \in ToSet(futures), sends'[f].done
        PROVE  WillBeDone(f)'
    <3>1. f \in Sends
      BY <1>1
    <3>2. CASE sends[f].done
      BY <1>9, <2>1, <3>1, <3>2 DEF ListedUntilDone
    <3>3. CASE ~sends[f].done
      <4>1. f \in given
        BY <1>10, <2>6, <3>1, <3>3
      <4>2. PICK i \in 1..Len(callbacks) : callbacks[i].run = "done" /\ callbacks[i].send = f
        BY <1>7, <3>3, <4>1
      <4>5. Len(ready) - 1 + i \in 1..Len(ready')
        <5>1. i \in Nat /\ 1 <= i /\ i <= Len(callbacks)
          BY <1>11
        <5> QED BY <1>11, <1>8, <5>1
      <4>3. PICK j \in 1..Len(ready') : j = Len(ready) - 1 + i
        BY <4>5
      <4>4. IsFor(j, "done", f)'
        BY <1>8, <4>2, <4>3 DEF IsFor
      <4> QED BY <4>4 DEF WillBeDone
    <3> QED BY <3>2, <3>3
  <2>7. ASSUME NEW f \in Sends, WillBeDone(f)' PROVE DoneFirst(f)'
    BY <2>3, <2>7 DEF WillBeDone, DoneFirst
  <2>8. ASSUME NEW f \in given PROVE sends[f].list = <<>>
    <3>1. f \in ToSet(futures) /\ f \in Sends
      BY <1>1, <1>2
    <3>2. ~DoneFirst(f)
      <4>1. 1 \in 1..Len(ready) /\ IsRun(1, "datagram")
        BY <1>8 DEF IsRun
      <4> QED BY <4>1 DEF DoneFirst
    <3> QED BY <1>1, <2>1, <3>1, <3>2 DEF Waiting, ListedUntilDone
  <2>9. ASSUME NEW f \in Sends PROVE Len(sends'[f].list) <= 1
    <3>1. CASE f \in given
      <4>1. sends'[f].list = Append(<<>>, a)
        BY <1>10, <2>8, <3>1
      <4>2. Len(Append(<<>>, a)) = 1
        OBVIOUS
      <4> QED BY <4>1, <4>2
    <3>2. CASE f \notin given
      BY <1>10, <2>1, <3>2 DEF ListedUntilDone
    <3> QED BY <3>1, <3>2
  <2>10. ListedUntilDone'
    BY <1>1, <1>16, <2>6, <2>7, <2>9 DEF ListedUntilDone
  <2>11. HeardRouterIsUsed'
    <3>1. \A f \in Sends : sends[f].state = "UnknownRoute" => f \notin given
      BY <1>1, <1>2 DEF Waiting
    <3> QED BY <1>10, <1>14, <1>15, <2>1, <3>1 DEF HeardRouterIsUsed
  <2> QED BY <2>4, <2>5, <2>10, <2>11
<1> QED BY <1>12, <1>13, <1>14, <1>15 DEF LayerInv

LEMMA IAmRouterToNetworkKeeps == ASSUME LayerInv, IAmRouterToNetwork PROVE LayerInv'
<1>1. /\ ready # <<>> /\ Head(ready).run = "datagram"
      /\ Head(ready).npdu.source \in Routers /\ Head(ready).npdu.dnets \in SUBSET Dnets
      /\ UNCHANGED <<adapterNet, futures, askVars>>
      /\ adapterNet \in Snets
  BY NpduLemma DEF IAmRouterToNetwork, RunsNpdu, Runs, LayerInv, Shape
<1>2. PICK a \in Routers : a = Head(ready).npdu.source
  BY <1>1
<1>3. PICK ds \in SUBSET Dnets : ds = Head(ready).npdu.dnets
  BY <1>1
<1>4. CASE UpdatePathInfo(adapterNet, a, ds) /\ Match(a, ds)
  BY <1>1, <1>4, MatchKeeps
<1>5. CASE UpdatePathInfoRaises(adapterNet, a, ds) /\ Schedules(<<>>) /\ UNCHANGED sends
  <2>1. ~OneSocket
    BY <1>1, <1>5, NoConflict DEF LayerInv, UpdatePathInfoRaises
  <2>2. UNCHANGED <<adapterNet, sendVars, asks>> /\ resolution' \in Nat
    BY <1>1, <1>5 DEF sendVars, askVars, LayerInv, Shape
  <2>3. Shape' /\ Waiting' /\ OneSocket' = OneSocket
    BY <1>1, <1>5, <2>2, QuietlyRun
  <2> QED BY <2>1, <2>3 DEF LayerInv
<1> QED BY <1>2, <1>3, <1>4, <1>5 DEF IAmRouterToNetwork

-----------------------------------------------------------------------------

LEMMA LayerInitLemma == LayerInit => LayerInv
<1> SUFFICES ASSUME LayerInit PROVE LayerInv
  OBVIOUS
<1>1. /\ ready = <<>> /\ futures = <<>> /\ asks = 0 /\ resolution = 0
      /\ sends = [m \in Sends |-> NoSend] /\ adapterNet \in Snets
      /\ sockets \in {{"local"}, {"local", "broadcast"}} /\ CacheInit
  BY DEF LayerInit
<1>2. /\ <<>> \in Seq(Callbacks) /\ <<>> \in Seq(Sends) /\ <<>> \in Seq(Routers)
      /\ Len(<<>>) = 0 /\ ToSet(<<>>) = {} /\ IsInjective(<<>>)
      /\ \A k \in 1..Len(<<>>) : FALSE
  BY DEF ToSet, IsInjective
<1>3. sends \in [Sends -> [state : {"unsent", "waiting", "sent", "UnknownRoute"},
                           list : Seq(Routers), done : BOOLEAN, timer : BOOLEAN]]
  BY <1>1, <1>2 DEF NoSend
<1>4. \A m \in Sends : sends[m].state = "unsent" /\ sends[m].list = <<>> /\ ~sends[m].timer
  BY <1>1 DEF NoSend
<1>5. Shape
  BY <1>1, <1>2, <1>3 DEF Shape
<1>6. Waiting
  BY <1>1, <1>2, <1>4 DEF Waiting, Silent
<1>7. CacheTypeOK /\ Consistent /\ \A s \in Snets : Unused(s)
  <2>1. \A s \in Snets : Unused(s)
    BY <1>1 DEF CacheInit, Unused, HasRouter
  <2> QED BY <1>1, <2>1, CacheInitLemma
<1>8. OneAtATime /\ KnownUnderOne
  BY <1>1, <1>2, <1>7 DEF OneAtATime, KnownUnderOne, KnownUnder
<1>9. ListedUntilDone /\ HeardRouterIsUsed
  BY <1>1, <1>2, <1>4 DEF ListedUntilDone, HeardRouterIsUsed
<1> QED BY <1>5, <1>6, <1>7, <1>8, <1>9 DEF LayerInv

LEMMA LayerStepLemma == LayerInv /\ [LayerNext]_layerVars => LayerInv'
<1> SUFFICES ASSUME LayerInv, [LayerNext]_layerVars PROVE LayerInv'
  OBVIOUS
<1>1. CASE UNCHANGED layerVars
  <2>1. UNCHANGED <<cacheVars, adapterNet, sockets, ready, sends, futures, asks, resolution>>
    BY <1>1 DEF layerVars, sendVars, askVars
  <2>2. Shape' /\ Waiting' /\ OneSocket' = OneSocket
    BY <2>1 DEF LayerInv, Shape, Waiting, Silent, WakesAfterDone, IsFor, OneSocket
  <2>3. ASSUME OneSocket PROVE CacheTypeOK' /\ Consistent' /\ HeardRouterIsUsed'
    BY <2>1, <2>3 DEF LayerInv, cacheVars, CacheTypeOK, Consistent, DnetsOf, HasRouter, HasPath,
       RouterOf, HeardRouterIsUsed, OneSocket
  <2>4. ASSUME OneSocket PROVE OneAtATime' /\ KnownUnderOne' /\ ListedUntilDone'
    BY <2>1, <2>4 DEF LayerInv, OneAtATime, KnownUnderOne, KnownUnder, Unused, HasRouter,
       cacheVars, ListedUntilDone, WillBeDone, DoneFirst, IsRun, IsFor
  <2> QED BY <2>2, <2>3, <2>4 DEF LayerInv
<1>2. ASSUME NEW s \in sockets, NEW npdu \in Npdus, Receive(s, npdu) PROVE LayerInv'
  BY <1>2, ReceiveKeeps
<1>3. ASSUME NEW m \in Sends, SendToNetwork(m) \/ RouterTimeout(m) PROVE LayerInv'
  BY <1>3, SendToNetworkKeeps, RouterTimeoutKeeps
<1>4. CASE RunReady
  BY <1>4, NetworkNumberIsKeeps, RenumberCacheKeeps, NetworkNumberResolvedKeeps,
     SourceRoutingKeeps, IAmRouterToNetworkKeeps, RouterFutureDoneKeeps, SendGoesOnKeeps
     DEF RunReady
<1> QED BY <1>1, <1>2, <1>3, <1>4, AskNetworkNumberKeeps DEF LayerNext

LEMMA LayerInvariance == LayerSpec => []LayerInv
BY LayerInitLemma, LayerStepLemma, PTL DEF LayerSpec

\* With one socket no handler ever meets a routing cache that disagrees with itself:
\* update_path_info and update_source_network raise nothing.
THEOREM HandlersConsistent == LayerSpec => []HandlersKeepConsistent
<1>1. LayerInv => HandlersKeepConsistent
  BY DEF LayerInv, HandlersKeepConsistent
<1> QED BY <1>1, LayerInvariance, PTL

\* And once what is to be renumbered is, everything known is known under the number
\* the adapter has.
THEOREM NothingStaysBehind == LayerSpec => []NothingLeftBehind
<1>1. LayerInv => NothingLeftBehind
  <2> SUFFICES ASSUME LayerInv, OneSocket, \A k \in 1..Len(ready) : ready[k].run # "renumber",
                      NEW s \in Snets \ {adapterNet}
               PROVE  Unused(s) /\ \A d \in Dnets : ~HasPath(s, d)
    BY DEF NothingLeftBehind
  <2>1. Unused(s)
    BY DEF LayerInv, KnownUnderOne, KnownUnder, IsRun
  <2>2. ASSUME NEW d \in Dnets, HasPath(s, d) PROVE FALSE
    <3>1. RouterOf(s, d) \in Routers
      BY <2>2 DEF LayerInv, CacheTypeOK, HasPath, RouterOf
    <3>2. d \in DnetsOf(s, RouterOf(s, d))
      BY <2>2, <3>1 DEF LayerInv, Consistent
    <3> QED BY <2>1, <3>1, <3>2 DEF Unused, DnetsOf
  <2> QED BY <2>1, <2>2
<1> QED BY <1>1, LayerInvariance, PTL

\* A message that waits for a router is given one router or none: what is heard before
\* its future is off the list is heard once, and it goes on with that.
THEOREM HeardIsUsed == LayerSpec => []HeardRouterIsUsed
<1>1. LayerInv => HeardRouterIsUsed
  BY DEF LayerInv, HeardRouterIsUsed
<1> QED BY <1>1, LayerInvariance, PTL
=============================================================================
