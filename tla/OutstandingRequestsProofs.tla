---------------------- MODULE OutstandingRequestsProofs ----------------------
(***************************************************************************)
(* The invoke IDs of outstanding requests, what is listed, and who may     *)
(* share an ID, for any requests, devices and number of invoke IDs.        *)
(*                                                                         *)
(* Whom an answer is for hangs on the order of things: a request is listed *)
(* when it is made, and its transaction begins when its task has come to   *)
(* the head of the event loop's queue.  So the invariant follows a request *)
(* through the queue to the list of transactions.                          *)
(***************************************************************************)
EXTENDS OutstandingRequests, FiniteSetTheorems, SequenceTheorems, TLAPS

-----------------------------------------------------------------------------
(* Sequences without repetitions.                                          *)

\* x comes before y in s.
Before(s, x, y) == \E i, j \in 1..Len(s) : i < j /\ s[i] = x /\ s[j] = y

\* Something new at the end of a sequence.
LEMMA AppendLemma ==
    ASSUME NEW S, NEW s \in Seq(S), NEW x \in S
    PROVE  /\ Append(s, x) \in Seq(S)
           /\ ToSet(Append(s, x)) = ToSet(s) \cup {x}
           /\ IsInjective(s) /\ x \notin ToSet(s) => IsInjective(Append(s, x))
           /\ \A y, z : Before(Append(s, x), y, z) =>
                            Before(s, y, z) \/ (z = x /\ y \in ToSet(s))
<1>1. /\ Append(s, x) \in Seq(S)
      /\ Len(Append(s, x)) = Len(s) + 1
      /\ Len(s) \in Nat
      /\ DOMAIN s = 1..Len(s)
      /\ DOMAIN Append(s, x) = 1..(Len(s) + 1)
      /\ \A i \in 1..Len(s) : Append(s, x)[i] = s[i]
      /\ Append(s, x)[Len(s) + 1] = x
  OBVIOUS
<1>2. ToSet(Append(s, x)) = ToSet(s) \cup {x}
  BY <1>1 DEF ToSet
<1>3. IsInjective(s) /\ x \notin ToSet(s) => IsInjective(Append(s, x))
  BY <1>1 DEF IsInjective, ToSet
<1>4. \A y, z : Before(Append(s, x), y, z) =>
                    Before(s, y, z) \/ (z = x /\ y \in ToSet(s))
  BY <1>1 DEF Before, ToSet
<1> QED BY <1>1, <1>2, <1>3, <1>4

\* What is left when the head has been taken.
LEMMA TailLemma ==
    ASSUME NEW S, NEW s \in Seq(S), s # <<>>, IsInjective(s)
    PROVE  /\ Tail(s) \in Seq(S)
           /\ Head(s) \in ToSet(s)
           /\ ToSet(Tail(s)) = ToSet(s) \ {Head(s)}
           /\ IsInjective(Tail(s))
           /\ \A y, z : Before(Tail(s), y, z) => Before(s, y, z)
           /\ \A y \in ToSet(Tail(s)) : Before(s, Head(s), y)
<1>1. /\ Tail(s) \in Seq(S)
      /\ Len(Tail(s)) = Len(s) - 1
      /\ Len(s) \in Nat \ {0}
      /\ DOMAIN s = 1..Len(s)
      /\ DOMAIN Tail(s) = 1..(Len(s) - 1)
      /\ \A i \in 1..(Len(s) - 1) : Tail(s)[i] = s[i + 1]
      /\ Head(s) = s[1]
  OBVIOUS
<1>2. ToSet(Tail(s)) = ToSet(s) \ {Head(s)}
  <2>1. ASSUME NEW y \in ToSet(Tail(s)) PROVE y \in ToSet(s) \ {Head(s)}
    BY <1>1 DEF ToSet, IsInjective
  <2>2. ASSUME NEW y \in ToSet(s) \ {Head(s)} PROVE y \in ToSet(Tail(s))
    <3>1. PICK i \in 1..Len(s) : s[i] = y
      BY <1>1 DEF ToSet
    <3>2. i - 1 \in 1..(Len(s) - 1) /\ Tail(s)[i - 1] = y
      BY <1>1, <3>1
    <3> QED BY <1>1, <3>2 DEF ToSet
  <2> QED BY <2>1, <2>2
<1>3. IsInjective(Tail(s))
  BY <1>1 DEF IsInjective
<1>4. \A y, z : Before(Tail(s), y, z) => Before(s, y, z)
  <2>1. ASSUME NEW i \in 1..(Len(s) - 1), NEW j \in 1..(Len(s) - 1), i < j
        PROVE  /\ i + 1 \in 1..Len(s) /\ j + 1 \in 1..Len(s) /\ i + 1 < j + 1
    BY <1>1, <2>1
  <2> QED BY <1>1, <2>1 DEF Before
<1>5. \A y \in ToSet(Tail(s)) : Before(s, Head(s), y)
  <2>1. ASSUME NEW i \in 1..(Len(s) - 1)
        PROVE  1 \in 1..Len(s) /\ i + 1 \in 1..Len(s) /\ 1 < i + 1
    BY <1>1
  <2> QED BY <1>1, <2>1 DEF Before, ToSet
<1>6. Head(s) \in ToSet(s)
  BY <1>1 DEF ToSet
<1> QED BY <1>1, <1>2, <1>3, <1>4, <1>5, <1>6

\* One element taken out.
LEMMA WithoutLemma ==
    ASSUME NEW S, NEW s \in Seq(S), NEW x, IsInjective(s)
    PROVE  /\ Without(s, x) \in Seq(S)
           /\ ToSet(Without(s, x)) = ToSet(s) \ {x}
           /\ IsInjective(Without(s, x))
           /\ \A y, z : Before(Without(s, x), y, z) => Before(s, y, z)
<1>1. CASE x \notin ToSet(s)
  BY <1>1 DEF Without
<1>2. CASE x \in ToSet(s)
  <2> DEFINE p == CHOOSE i \in 1..Len(s) : s[i] = x
             w == Without(s, x)
  <2>1. Len(s) \in Nat /\ DOMAIN s = 1..Len(s)
    OBVIOUS
  <2>2. p \in 1..Len(s) /\ s[p] = x
    BY <1>2, <2>1 DEF ToSet
  <2>3. w = SubSeq(s, 1, p - 1) \o SubSeq(s, p + 1, Len(s))
    BY <1>2 DEF Without, RemoveAt
  <2> HIDE DEF p, w
  <2>4. /\ w \in Seq(S)
        /\ Len(w) = Len(s) - 1
        /\ DOMAIN w = 1..(Len(s) - 1)
        /\ \A i \in 1..(Len(s) - 1) : w[i] = s[IF i < p THEN i ELSE i + 1]
    <3> DEFINE a == SubSeq(s, 1, p - 1)
               b == SubSeq(s, p + 1, Len(s))
    <3>1. /\ a \in Seq(S)
          /\ Len(a) = p - 1
          /\ \A i \in 1..(p - 1) : a[i] = s[i]
      <4>1. \A i \in 1..(p - 1) : s[i] \in S
        BY <2>1, <2>2
      <4> QED BY <4>1, <2>2, SubSeqProperties
    <3>2. /\ b \in Seq(S)
          /\ Len(b) = Len(s) - p
          /\ \A i \in 1..(Len(s) - p) : b[i] = s[p + i]
      <4>1. \A i \in (p + 1)..Len(s) : s[i] \in S
        BY <2>1, <2>2
      <4>2. p + 1 \in Int /\ Len(s) \in Int
        BY <2>1, <2>2
      <4>3. /\ b \in Seq(S)
            /\ Len(b) = IF p + 1 <= Len(s) THEN Len(s) - (p + 1) + 1 ELSE 0
            /\ \A i \in 1..(Len(s) - (p + 1) + 1) : b[i] = s[(p + 1) + i - 1]
        BY <4>1, <4>2, SubSeqProperties
      <4> HIDE DEF b
      <4>4. (IF p + 1 <= Len(s) THEN Len(s) - (p + 1) + 1 ELSE 0) = Len(s) - p
        <5>1. p \in Int /\ Len(s) \in Int /\ p <= Len(s)
          BY <2>1, <2>2
        <5>2. CASE p < Len(s)
          BY <5>1, <5>2
        <5>3. CASE p = Len(s)
          BY <5>1, <5>3
        <5> QED BY <5>1, <5>2, <5>3
      <4>5. ASSUME NEW i \in 1..(Len(s) - p) PROVE b[i] = s[p + i]
        <5>1. i \in 1..(Len(s) - (p + 1) + 1) /\ (p + 1) + i - 1 = p + i
          BY <2>1, <2>2
        <5> QED BY <4>3, <5>1
      <4> QED BY <4>3, <4>4, <4>5
    <3>3. w = a \o b
      BY <2>3
    <3> HIDE DEF a, b
    <3>4. /\ w \in Seq(S)
          /\ Len(w) = Len(a) + Len(b)
          /\ \A i \in 1..(Len(a) + Len(b)) :
                 w[i] = IF i <= Len(a) THEN a[i] ELSE b[i - Len(a)]
      BY <3>1, <3>2, <3>3, ConcatProperties
    <3>5. Len(w) = Len(s) - 1
      BY <3>1, <3>2, <3>4, <2>1, <2>2
    <3>6. ASSUME NEW i \in 1..(Len(s) - 1)
          PROVE  w[i] = s[IF i < p THEN i ELSE i + 1]
      <4>1. w[i] = IF i <= p - 1 THEN a[i] ELSE b[i - (p - 1)]
        BY <3>1, <3>2, <3>4, <2>1, <2>2
      <4>2. CASE i < p
        BY <4>1, <4>2, <2>1, <2>2, <3>1
      <4>3. CASE ~(i < p)
        <5>1. i - (p - 1) \in 1..(Len(s) - p) /\ p + (i - (p - 1)) = i + 1
          BY <4>3, <2>1, <2>2
        <5>2. b[i - (p - 1)] = s[i + 1]
          BY <5>1, <3>2
        <5>3. ~(i <= p - 1)
          BY <4>3, <2>1, <2>2
        <5> QED BY <5>2, <5>3, <4>1, <4>3
      <4> QED BY <4>2, <4>3
    <3> QED BY <3>4, <3>5, <3>6
  <2> DEFINE at(i) == IF i < p THEN i ELSE i + 1
  <2>a. ASSUME NEW i \in 1..(Len(s) - 1)
        PROVE  at(i) \in 1..Len(s) /\ at(i) # p
    BY <2>1, <2>2
  <2>b. ASSUME NEW i \in 1..(Len(s) - 1), NEW j \in 1..(Len(s) - 1), i < j
        PROVE  at(i) < at(j)
    BY <2>b, <2>1, <2>2
  <2>c. ASSUME NEW k \in 1..Len(s), k # p
        PROVE  \E i \in 1..(Len(s) - 1) : at(i) = k
    <3>1. CASE k < p
      BY <3>1, <2>1, <2>2
    <3>2. CASE k > p
      <4>1. k - 1 \in 1..(Len(s) - 1) /\ at(k - 1) = k
        BY <3>2, <2>1, <2>2
      <4> QED BY <4>1
    <3> QED BY <2>c, <3>1, <3>2, <2>2
  <2>d. \A i \in 1..(Len(s) - 1) : w[i] = s[at(i)]
    BY <2>4
  <2> HIDE DEF at
  <2>5. ToSet(w) = ToSet(s) \ {x}
    <3>1. ASSUME NEW i \in 1..(Len(s) - 1) PROVE w[i] \in ToSet(s) \ {x}
      <4>1. w[i] = s[at(i)] /\ at(i) \in 1..Len(s) /\ at(i) # p
        BY <2>a, <2>d
      <4>2. s[at(i)] # s[p]
        BY <4>1, <2>1, <2>2 DEF IsInjective
      <4>3. w[i] # x
        BY <4>1, <4>2, <2>2
      <4>4. ToSet(s) = {s[k] : k \in 1..Len(s)}
        BY <2>1 DEF ToSet
      <4>5. s[at(i)] \in ToSet(s)
        BY <4>1, <4>4
      <4> QED BY <4>1, <4>3, <4>5
    <3>2. ASSUME NEW k \in 1..Len(s), s[k] # x
          PROVE  \E i \in 1..(Len(s) - 1) : w[i] = s[k]
      <4>1. k # p
        BY <3>2, <2>2
      <4>2. PICK i \in 1..(Len(s) - 1) : at(i) = k
        BY <4>1, <2>c
      <4>3. w[i] = s[k]
        BY <4>2, <2>d
      <4> QED BY <4>3
    <3>3. ToSet(w) = {w[i] : i \in 1..(Len(s) - 1)} /\ ToSet(s) = {s[k] : k \in 1..Len(s)}
      <4>1. DOMAIN w = 1..(Len(s) - 1) /\ DOMAIN s = 1..Len(s)
        BY <2>1, <2>4
      <4> HIDE DEF w
      <4> QED BY <4>1 DEF ToSet
    <3>4. ASSUME NEW y \in ToSet(w) PROVE y \in ToSet(s) \ {x}
      BY <3>1, <3>3
    <3>5. ASSUME NEW y \in ToSet(s) \ {x} PROVE y \in ToSet(w)
      <4>1. PICK k \in 1..Len(s) : y = s[k]
        BY <3>3
      <4>2. PICK i \in 1..(Len(s) - 1) : w[i] = s[k]
        BY <4>1, <3>2
      <4> QED BY <4>1, <4>2, <3>3
    <3> QED BY <3>4, <3>5
  <2>6. IsInjective(w)
    <3>1. ASSUME NEW i \in 1..(Len(s) - 1), NEW j \in 1..(Len(s) - 1), w[i] = w[j]
          PROVE  i = j
      <4>1. at(i) = at(j)
        BY <3>1, <2>1, <2>a, <2>d DEF IsInjective
      <4>2. ~(i < j) /\ ~(j < i)
        <5>1. at(i) \in Int /\ at(j) \in Int
          BY <2>a
        <5> QED BY <4>1, <5>1, <2>b
      <4> QED BY <4>2
    <3> QED BY <3>1, <2>4 DEF IsInjective
  <2>7. \A y, z : Before(w, y, z) => Before(s, y, z)
    BY <2>1, <2>4, <2>a, <2>b, <2>d DEF Before
  <2> QED BY <2>4, <2>5, <2>6, <2>7 DEF w
<1> QED BY <1>1, <1>2

-----------------------------------------------------------------------------
(* The invariant.                                                          *)

\* Two requests that an answer cannot tell apart.
Shares(t, u) == destination[t] = destination[u] /\ invoke_id[t] = invoke_id[u]

\* What waits for an answer, or for the callback that takes it off the list.
Outstanding(r) == future[r] = "pending" \/ Done(r) \in ToSet(ready)

Listed ==
    \A d \in Destinations :
        /\ IsInjective(requests[d])
        /\ \A r \in Requests :
               r \in ToSet(requests[d]) <=> destination[r] = d /\ Outstanding(r)

DistinctIDs ==
    \A t, u \in Requests :
        Outstanding(t) /\ Outstanding(u) /\ t # u => ~Shares(t, u)

Queued ==
    /\ IsInjective(ready)
    /\ \A r \in Requests :
           /\ Sending(r) \in ToSet(ready) => future[r] # "none"
           /\ Done(r) \in ToSet(ready) => future[r] \in {"done", "cancelled"}

InTransaction ==
    /\ IsInjective(transactions)
    /\ \A t \in ToSet(transactions) :
           future[t] # "none" /\ Sending(t) \notin ToSet(ready)

\* t is on its way before u, in the queue or on the list of transactions.
Earlier(t, u) ==
    \/ Before(ready, Sending(t), Sending(u))
    \/ t \in ToSet(transactions) /\ Sending(u) \in ToSet(ready)
    \/ Before(transactions, t, u)

Ordered ==
    \A t, u \in Requests : Earlier(t, u) /\ Shares(t, u) => future[t] # "pending"

IInv == TypeOK /\ Listed /\ DistinctIDs /\ Queued /\ InTransaction /\ Ordered

LEMMA InitLemma == Init => IInv
<1> SUFFICES ASSUME Init PROVE IInv
  OBVIOUS
<1>1. ToSet(<<>>) = {} /\ IsInjective(<<>>) /\ \A x, y : ~Before(<<>>, x, y)
  BY DEF ToSet, IsInjective, Before
<1>2. TypeOK
  <2>1. 0 \in InvokeIDs
    BY OutstandingAssumption DEF InvokeIDs
  <2>2. requests \in [Destinations -> Seq(Requests)] /\ transactions \in Seq(Requests)
    BY DEF Init
  <2>3. ready \in Seq([run : {"send", "done"}, request : Requests])
    BY DEF Init
  <2>4. /\ invoke_id \in [Requests -> InvokeIDs \cup {NoID}]
        /\ future \in [Requests -> {"none", "pending", "done", "cancelled"}]
    BY DEF Init
  <2> QED BY <2>1, <2>2, <2>3, <2>4 DEF Init, TypeOK
<1>3. Listed /\ DistinctIDs
  BY <1>1, <1>2 DEF Init, TypeOK, Listed, DistinctIDs, Outstanding
<1>4. Queued /\ InTransaction
  BY <1>1 DEF Init, Queued, InTransaction
<1>5. Ordered
  BY <1>1 DEF Init, Ordered, Earlier
<1> QED BY <1>2, <1>3, <1>4, <1>5 DEF IInv

\* What runs is taken from the head of the queue.
LEMMA RunsLemma ==
    ASSUME TypeOK, Queued, NEW callback, Runs(callback)
    PROVE  /\ ready' \in Seq([run : {"send", "done"}, request : Requests])
           /\ callback \in ToSet(ready)
           /\ ToSet(ready') = ToSet(ready) \ {callback}
           /\ IsInjective(ready')
           /\ \A x, y : Before(ready', x, y) => Before(ready, x, y)
           /\ \A y \in ToSet(ready') : Before(ready, callback, y)
<1> DEFINE S == [run : {"send", "done"}, request : Requests]
<1>1. ready \in Seq(S) /\ ready # <<>> /\ IsInjective(ready)
  BY DEF TypeOK, Queued, Runs
<1>2. callback = Head(ready) /\ ready' = Tail(ready)
  BY DEF Runs
<1> HIDE DEF S
<1>3. /\ Tail(ready) \in Seq(S)
      /\ Head(ready) \in ToSet(ready)
      /\ ToSet(Tail(ready)) = ToSet(ready) \ {Head(ready)}
      /\ IsInjective(Tail(ready))
      /\ \A x, y : Before(Tail(ready), x, y) => Before(ready, x, y)
      /\ \A y \in ToSet(Tail(ready)) : Before(ready, Head(ready), y)
  BY <1>1, TailLemma
<1> QED BY <1>2, <1>3 DEF S

\* What is put at the end of the queue, if it is not there.
LEMMA AppendReadyLemma ==
    ASSUME TypeOK, Queued, NEW r \in Requests, NEW callback \in {Sending(r), Done(r)},
           callback \notin ToSet(ready), ready' = Append(ready, callback)
    PROVE  /\ ready' \in Seq([run : {"send", "done"}, request : Requests])
           /\ ToSet(ready') = ToSet(ready) \cup {callback}
           /\ IsInjective(ready')
           /\ \A x, y : Before(ready', x, y) =>
                            Before(ready, x, y) \/ (y = callback /\ x \in ToSet(ready))
<1> DEFINE S == [run : {"send", "done"}, request : Requests]
<1>1. ready \in Seq(S) /\ IsInjective(ready) /\ callback \in S
  BY DEF TypeOK, Queued, Sending, Done
<1> HIDE DEF S
<1>2. /\ Append(ready, callback) \in Seq(S)
      /\ ToSet(Append(ready, callback)) = ToSet(ready) \cup {callback}
      /\ IsInjective(Append(ready, callback))
      /\ \A x, y : Before(Append(ready, callback), x, y) =>
                       Before(ready, x, y) \/ (y = callback /\ x \in ToSet(ready))
  BY <1>1, AppendLemma
<1> QED BY <1>2 DEF S

LEMMA CallbacksDiffer ==
    /\ \A r, t : Sending(r) # Done(t)
    /\ \A r, t : Sending(r) = Sending(t) => r = t
    /\ \A r, t : Done(r) = Done(t) => r = t
  BY DEF Sending, Done

-----------------------------------------------------------------------------
(* One lemma for each action that changes more than communication control. *)

\* request: the ID is one that no outstanding request to the device has.
LEMMA RequestLemma ==
    ASSUME IInv, NEW r \in Requests, NEW given \in GivenIDs \cup {NoID},
           Request(r, given)
    PROVE  IInv'
<1> DEFINE d == destination[r]
<1> USE DEF IInv
<1>1. d \in Destinations /\ future[r] = "none" /\ ~Outstanding(r)
  BY DEF TypeOK, Request, Queued, Outstanding
<1>2. Sending(r) \notin ToSet(ready) /\ r \notin ToSet(transactions)
  BY <1>1 DEF Queued, InTransaction
<1>3. /\ ready' \in Seq([run : {"send", "done"}, request : Requests])
      /\ ToSet(ready') = ToSet(ready) \cup {Sending(r)}
      /\ IsInjective(ready')
      /\ \A x, y : Before(ready', x, y) =>
                       Before(ready, x, y) \/ (y = Sending(r) /\ x \in ToSet(ready))
  <2>1. ready' = Append(ready, Sending(r))
    BY DEF Request
  <2> QED BY <1>2, <2>1, AppendReadyLemma
<1>4. \E id \in InvokeIDs \ UsedIDs(d) :
          /\ invoke_id' = [invoke_id EXCEPT ![r] = id]
          /\ next_invoke_id' \in InvokeIDs
  <2>1. CASE given \in GivenIDs \ UsedIDs(d)
    BY <2>1, OutstandingAssumption DEF Request, TypeOK, InvokeIDs
  <2>2. CASE given \notin GivenIDs \ UsedIDs(d)
    <3>1. PICK n \in 0..(IdMod - 1) :
              /\ Skipped(d, n)
              /\ invoke_id' = [invoke_id EXCEPT ![r] = (next_invoke_id + n) % IdMod]
              /\ next_invoke_id' = AfterID((next_invoke_id + n) % IdMod)
      BY <2>2 DEF Request
    <3>2. (next_invoke_id + n) % IdMod \in InvokeIDs
      BY OutstandingAssumption DEF TypeOK, InvokeIDs
    <3>3. AfterID((next_invoke_id + n) % IdMod) \in InvokeIDs
      BY <3>2, OutstandingAssumption DEF AfterID, InvokeIDs
    <3> QED BY <3>1, <3>2, <3>3 DEF Skipped
  <2> QED BY <2>1, <2>2
<1>5. PICK id \in InvokeIDs \ UsedIDs(d) :
          invoke_id' = [invoke_id EXCEPT ![r] = id] /\ next_invoke_id' \in InvokeIDs
  BY <1>4
<1>6. /\ future' = [future EXCEPT ![r] = "pending"]
      /\ destination' = destination
      /\ transactions' = transactions
      /\ requests' = [requests EXCEPT ![d] = Append(@, r)]
  BY DEF Request, transactionVars
<1>7. \A t \in Requests : Outstanding(t)' <=> Outstanding(t) \/ t = r
  BY <1>3, <1>6, CallbacksDiffer DEF Outstanding, TypeOK
<1>8. \A t \in Requests \ {r} : Outstanding(t) /\ destination[t] = d => invoke_id[t] # id
  BY <1>1, <1>5 DEF Listed, UsedIDs, ToSet
<1>9. TypeOK'
  <2>1. requests[d] \in Seq(Requests)
    BY <1>1 DEF TypeOK
  <2>2. requests' \in [Destinations -> Seq(Requests)]
    BY <1>1, <1>6, <2>1 DEF TypeOK
  <2> QED BY <1>3, <1>5, <1>6, <2>2 DEF Request, TypeOK, transactionVars, dccVars
<1>10. Listed'
  <2>1. requests[d] \in Seq(Requests) /\ IsInjective(requests[d]) /\ r \notin ToSet(requests[d])
    BY <1>1 DEF TypeOK, Listed
  <2>2. /\ ToSet(Append(requests[d], r)) = ToSet(requests[d]) \cup {r}
        /\ IsInjective(Append(requests[d], r))
    BY <2>1, AppendLemma
  <2>3. requests'[d] = Append(requests[d], r)
        /\ \A e \in Destinations \ {d} : requests'[e] = requests[e]
    BY <1>1, <1>6 DEF TypeOK
  <2> QED BY <1>1, <1>6, <1>7, <2>2, <2>3 DEF Listed
<1>11. \A t, u \in Requests : Shares(t, u)' =>
           \/ t # r /\ u # r /\ Shares(t, u)
           \/ t = r \/ u = r
  BY <1>5, <1>6 DEF Shares, TypeOK
<1>12. \A t \in Requests \ {r} : Outstanding(t) => ~Shares(t, r)' /\ ~Shares(r, t)'
  BY <1>5, <1>6, <1>8 DEF Shares, TypeOK
<1>13. DistinctIDs'
  BY <1>7, <1>11, <1>12 DEF DistinctIDs
<1>14. Queued'
  BY <1>1, <1>3, <1>6, CallbacksDiffer DEF Queued, TypeOK
<1>15. InTransaction'
  <2>1. ToSet(transactions) \subseteq Requests
    BY DEF TypeOK, ToSet
  <2> QED BY <1>2, <1>3, <1>6, <2>1, CallbacksDiffer DEF InTransaction, TypeOK
<1>16. Ordered'
  <2> SUFFICES ASSUME NEW t \in Requests, NEW u \in Requests,
                      Earlier(t, u)', Shares(t, u)', future'[t] = "pending"
               PROVE  FALSE
    BY DEF Ordered
  <2>1. Earlier(t, u) \/ (u = r /\ t # r)
    BY <1>2, <1>3, <1>6, CallbacksDiffer DEF Earlier
  <2>2. CASE t = r
    BY <1>2, <2>1, <2>2 DEF Earlier, Before, ToSet
  <2>3. CASE t # r
    <3>1. Outstanding(t)
      BY <1>6, <2>3 DEF Outstanding, TypeOK
    <3>2. u # r
      BY <1>12, <2>3, <3>1
    <3>3. Shares(t, u) /\ future[t] = "pending"
      BY <1>6, <1>11, <2>3, <3>2 DEF TypeOK
    <3> QED BY <2>1, <3>2, <3>3 DEF Ordered
  <2> QED BY <2>2, <2>3
<1> QED BY <1>9, <1>10, <1>13, <1>14, <1>15, <1>16

\* The sending task: what was at the head of the queue is the last transaction.
LEMMA SendRequestLemma ==
    ASSUME IInv, NEW r \in Requests, SendRequest(r)
    PROVE  IInv'
<1> USE DEF IInv
<1>1. /\ ready' \in Seq([run : {"send", "done"}, request : Requests])
      /\ Sending(r) \in ToSet(ready)
      /\ ToSet(ready') = ToSet(ready) \ {Sending(r)}
      /\ IsInjective(ready')
      /\ \A x, y : Before(ready', x, y) => Before(ready, x, y)
      /\ \A y \in ToSet(ready') : Before(ready, Sending(r), y)
  BY RunsLemma DEF SendRequest
<1>2. /\ future' = future /\ requests' = requests
      /\ invoke_id' = invoke_id /\ destination' = destination
  BY DEF SendRequest, requestVars
<1>3. \A t, u \in Requests : Shares(t, u)' <=> Shares(t, u)
  BY <1>2 DEF Shares
<1>4. \A t \in Requests : Outstanding(t)' <=> Outstanding(t)
  BY <1>1, <1>2, CallbacksDiffer DEF Outstanding
<1>5. r \notin ToSet(transactions) /\ future[r] # "none"
  BY <1>1 DEF InTransaction, Queued
<1>6. /\ transactions' \in Seq(Requests)
      /\ ToSet(transactions') \subseteq ToSet(transactions) \cup {r}
      /\ IsInjective(transactions')
      /\ \A y, z : Before(transactions', y, z) =>
             Before(transactions, y, z) \/ (z = r /\ y \in ToSet(transactions))
  <2>1. transactions \in Seq(Requests) /\ IsInjective(transactions)
    BY DEF TypeOK, InTransaction
  <2>2. CASE dcc = "enable"
    <3>1. transactions' = Append(transactions, r)
      BY <2>2 DEF SendRequest
    <3> QED BY <2>1, <3>1, <1>5, AppendLemma
  <2>3. CASE dcc # "enable"
    BY <2>1, <2>3 DEF SendRequest, transactionVars
  <2> QED BY <2>2, <2>3
<1>7. TypeOK'
  <2>1. sent' \subseteq Requests
    BY DEF TypeOK, SendRequest, transactionVars
  <2> QED BY <1>1, <1>6, <2>1 DEF TypeOK, SendRequest, requestVars, dccVars
<1>8. Listed' /\ DistinctIDs'
  BY <1>2, <1>3, <1>4 DEF Listed, DistinctIDs
<1>9. Queued'
  BY <1>1, <1>2, CallbacksDiffer DEF Queued
<1>10. InTransaction'
  BY <1>1, <1>2, <1>5, <1>6, CallbacksDiffer DEF InTransaction
<1>11. \A t, u \in Requests : Earlier(t, u)' => Earlier(t, u)
  <2> SUFFICES ASSUME NEW t \in Requests, NEW u \in Requests, Earlier(t, u)'
               PROVE  Earlier(t, u)
    OBVIOUS
  <2>1. CASE Before(ready, Sending(t), Sending(u))'
    BY <2>1, <1>1 DEF Earlier
  <2>2. CASE (t \in ToSet(transactions) /\ Sending(u) \in ToSet(ready))'
    BY <2>2, <1>1, <1>6 DEF Earlier
  <2>3. CASE Before(transactions, t, u)'
    BY <2>3, <1>1, <1>6 DEF Earlier
  <2> QED BY <2>1, <2>2, <2>3 DEF Earlier
<1>12. Ordered'
  BY <1>2, <1>3, <1>11 DEF Ordered
<1> QED BY <1>7, <1>8, <1>9, <1>10, <1>12

\* A future gets its result, or is canceled; its callback is scheduled, and one
\* transaction may end.
LEMMA SettledLemma ==
    ASSUME IInv, NEW f \in Requests, NEW how \in {"done", "cancelled"},
           future[f] = "pending",
           future' = [future EXCEPT ![f] = how],
           ready' = Append(ready, Done(f)),
           UNCHANGED requestVars,
           ToSet(transactions') \subseteq ToSet(transactions),
           IsInjective(transactions'),
           \A y, z : Before(transactions', y, z) => Before(transactions, y, z)
    PROVE  /\ future' \in [Requests -> {"none", "pending", "done", "cancelled"}]
           /\ ready' \in Seq([run : {"send", "done"}, request : Requests])
           /\ Listed' /\ DistinctIDs' /\ Queued' /\ InTransaction' /\ Ordered'
<1> USE DEF IInv
<1>1. Done(f) \notin ToSet(ready)
  BY DEF Queued
<1>2. /\ ready' \in Seq([run : {"send", "done"}, request : Requests])
      /\ ToSet(ready') = ToSet(ready) \cup {Done(f)}
      /\ IsInjective(ready')
      /\ \A x, y : Before(ready', x, y) =>
                       Before(ready, x, y) \/ (y = Done(f) /\ x \in ToSet(ready))
  BY <1>1, AppendReadyLemma
<1>3. \A t, u \in Requests : Shares(t, u)' <=> Shares(t, u)
  BY DEF Shares, requestVars
<1>4. /\ future' \in [Requests -> {"none", "pending", "done", "cancelled"}]
      /\ future'[f] = how
      /\ \A t \in Requests \ {f} : future'[t] = future[t]
  BY DEF TypeOK
<1>5. \A t \in Requests : Outstanding(t)' <=> Outstanding(t)
  BY <1>2, <1>4, CallbacksDiffer DEF Outstanding
<1>6. Listed' /\ DistinctIDs'
  BY <1>3, <1>5 DEF Listed, DistinctIDs, requestVars
<1>7. Queued'
  BY <1>2, <1>4, CallbacksDiffer DEF Queued
<1>8. InTransaction'
  <2>1. ToSet(transactions) \subseteq Requests
    BY DEF TypeOK, ToSet
  <2> QED BY <1>2, <1>4, <2>1, CallbacksDiffer DEF InTransaction
<1>9. \A t, u \in Requests : Earlier(t, u)' => Earlier(t, u)
  BY <1>2, CallbacksDiffer DEF Earlier
<1>10. Ordered'
  BY <1>3, <1>4, <1>9 DEF Ordered
<1> QED BY <1>2, <1>4, <1>6, <1>7, <1>8, <1>10

\* The program gives a request up; its transaction goes on.
LEMMA CancelLemma ==
    ASSUME IInv, NEW r \in Requests, Cancel(r)
    PROVE  IInv'
<1>1. /\ future[r] = "pending"
      /\ future' = [future EXCEPT ![r] = "cancelled"]
      /\ ready' = Append(ready, Done(r))
      /\ UNCHANGED <<requestVars, transactions>>
  BY DEF Cancel, transactionVars
<1>2. /\ future' \in [Requests -> {"none", "pending", "done", "cancelled"}]
      /\ ready' \in Seq([run : {"send", "done"}, request : Requests])
      /\ Listed' /\ DistinctIDs' /\ Queued' /\ InTransaction' /\ Ordered'
  BY <1>1, SettledLemma DEF IInv, InTransaction
<1>3. TypeOK'
  BY <1>2 DEF IInv, TypeOK, Cancel, requestVars, transactionVars, dccVars
<1> QED BY <1>2, <1>3 DEF IInv

\* A transaction ends, and the first listed request with its ID gets the result.
LEMMA ResolveLemma ==
    ASSUME IInv, NEW t \in Requests,
           transactions' = Without(transactions, t), Resolve(t),
           UNCHANGED <<requestVars, sent, dccVars, spinning>>
    PROVE  IInv'
<1> USE DEF IInv
<1>1. /\ transactions' \in Seq(Requests)
      /\ ToSet(transactions') \subseteq ToSet(transactions)
      /\ IsInjective(transactions')
      /\ \A y, z : Before(transactions', y, z) => Before(transactions, y, z)
  BY WithoutLemma DEF TypeOK, InTransaction
<1>2. CASE UNCHANGED <<future, ready>>
  <2>1. /\ \A r \in Requests : Outstanding(r)' <=> Outstanding(r)
        /\ \A r, u \in Requests : Shares(r, u)' <=> Shares(r, u)
    BY <1>2 DEF Outstanding, Shares, requestVars
  <2>2. \A r, u \in Requests : Earlier(r, u)' => Earlier(r, u)
    BY <1>1, <1>2 DEF Earlier
  <2>3. TypeOK'
    BY <1>1, <1>2 DEF TypeOK, requestVars, dccVars
  <2>4. Listed' /\ DistinctIDs'
    BY <2>1 DEF Listed, DistinctIDs, requestVars
  <2>5. Queued' /\ InTransaction'
    BY <1>1, <1>2 DEF Queued, InTransaction
  <2>6. Ordered'
    BY <1>2, <2>1, <2>2 DEF Ordered
  <2> QED BY <2>3, <2>4, <2>5, <2>6
<1>3. ASSUME NEW f \in Requests, future[f] = "pending",
             future' = [future EXCEPT ![f] = "done"],
             ready' = Append(ready, Done(f))
      PROVE  IInv'
  <2>1. /\ future' \in [Requests -> {"none", "pending", "done", "cancelled"}]
        /\ ready' \in Seq([run : {"send", "done"}, request : Requests])
        /\ Listed' /\ DistinctIDs' /\ Queued' /\ InTransaction' /\ Ordered'
    BY <1>1, <1>3, SettledLemma
  <2>2. TypeOK'
    BY <1>1, <2>1 DEF TypeOK, requestVars, dccVars
  <2> QED BY <2>1, <2>2
<1>4. FirstOf(requests[destination[t]], t) \subseteq Requests
  <2>1. requests[destination[t]] \in Seq(Requests)
    BY DEF TypeOK
  <2> QED BY <2>1 DEF FirstOf, Matching
<1> QED BY <1>2, <1>3, <1>4 DEF Resolve

\* The done callback: the request is taken off the list.
LEMMA RequestDoneLemma ==
    ASSUME IInv, NEW r \in Requests, RequestDone(r)
    PROVE  IInv'
<1> DEFINE d == destination[r]
<1> USE DEF IInv
<1>1. /\ ready' \in Seq([run : {"send", "done"}, request : Requests])
      /\ Done(r) \in ToSet(ready)
      /\ ToSet(ready') = ToSet(ready) \ {Done(r)}
      /\ IsInjective(ready')
      /\ \A x, y : Before(ready', x, y) => Before(ready, x, y)
  BY RunsLemma DEF RequestDone
<1>2. /\ future' = future /\ transactions' = transactions
      /\ invoke_id' = invoke_id /\ destination' = destination
      /\ requests' = [requests EXCEPT ![d] = Without(@, r)]
  BY DEF RequestDone, transactionVars
<1>3. \A t \in Requests : Outstanding(t)' <=> Outstanding(t) /\ t # r
  BY <1>1, <1>2, CallbacksDiffer DEF Outstanding, Queued
<1>4. d \in Destinations /\ requests[d] \in Seq(Requests) /\ IsInjective(requests[d])
  BY DEF TypeOK, Listed
<1>5. /\ requests'[d] \in Seq(Requests)
      /\ ToSet(requests'[d]) = ToSet(requests[d]) \ {r}
      /\ IsInjective(requests'[d])
      /\ requests' \in [Destinations -> Seq(Requests)]
      /\ \A e \in Destinations \ {d} : requests'[e] = requests[e]
  <2>1. /\ Without(requests[d], r) \in Seq(Requests)
        /\ ToSet(Without(requests[d], r)) = ToSet(requests[d]) \ {r}
        /\ IsInjective(Without(requests[d], r))
    BY <1>4, WithoutLemma
  <2> QED BY <1>2, <1>4, <2>1 DEF TypeOK
<1>6. TypeOK'
  BY <1>1, <1>2, <1>5 DEF TypeOK, RequestDone, transactionVars, dccVars
<1>7. Listed'
  BY <1>2, <1>3, <1>4, <1>5 DEF Listed
<1>8. DistinctIDs'
  BY <1>2, <1>3 DEF DistinctIDs, Shares
<1>9. Queued' /\ InTransaction'
  BY <1>1, <1>2 DEF Queued, InTransaction
<1>10. Ordered'
  BY <1>1, <1>2 DEF Ordered, Earlier, Shares
<1> QED BY <1>6, <1>7, <1>8, <1>9, <1>10

-----------------------------------------------------------------------------
\* Every step of the specification keeps the invariant.
LEMMA StepLemma == IInv /\ [Next]_vars => IInv'
<1> SUFFICES ASSUME IInv, [Next]_vars PROVE IInv'
  OBVIOUS
<1>1. ASSUME NEW r \in Requests, NEW given \in GivenIDs \cup {NoID}, Request(r, given)
      PROVE  IInv'
  BY <1>1, RequestLemma
<1>2. ASSUME NEW r \in Requests, SendRequest(r) PROVE IInv'
  BY <1>2, SendRequestLemma
<1>3. ASSUME NEW r \in Requests, Cancel(r) PROVE IInv'
  BY <1>3, CancelLemma
<1>4. ASSUME NEW r \in Requests, RequestDone(r) PROVE IInv'
  BY <1>4, RequestDoneLemma
<1>5. ToSet(transactions) \subseteq Requests /\ \A r : FirstOf(transactions, r) \subseteq Requests
  BY DEF IInv, TypeOK, ToSet, FirstOf, Matching
<1>6. ASSUME NEW r \in Requests, Confirmation(r) PROVE IInv'
  <2>1. PICK t \in FirstOf(transactions, r) :
            transactions' = Without(transactions, t) /\ Resolve(t)
    BY <1>6 DEF Confirmation
  <2> QED BY <1>5, <1>6, <2>1, ResolveLemma DEF Confirmation
<1>7. ASSUME NEW t \in Requests, TransactionTimeout(t) PROVE IInv'
  BY <1>7, ResolveLemma DEF TransactionTimeout
<1>8. ASSUME UNCHANGED <<requestVars, future, ready, transactionVars>>, TypeOK'
      PROVE  IInv'
  BY <1>8 DEF IInv, Listed, DistinctIDs, Queued, InTransaction, Ordered, Earlier,
              Outstanding, Shares, requestVars, transactionVars
<1>9. ASSUME NEW r \in Requests, RequestSpins(r) PROVE IInv'
  <2>1. TypeOK'
    BY <1>9 DEF RequestSpins, IInv, TypeOK, requestVars, transactionVars, dccVars
  <2> QED BY <1>8, <1>9, <2>1 DEF RequestSpins
<1>10. ASSUME NEW kind \in DccKinds, NEW timed \in BOOLEAN, CommunicationControl(kind, timed)
       PROVE  IInv'
  <2>1. dcc' \in {"enable", "disable", "disableInitiation"} /\ dccTimer' \in BOOLEAN
    BY <1>10, OutstandingAssumption DEF CommunicationControl
  <2>2. TypeOK'
    BY <1>10, <2>1 DEF CommunicationControl, IInv, TypeOK, requestVars, transactionVars
  <2> QED BY <1>8, <1>10, <2>2 DEF CommunicationControl
<1>11. ASSUME CommunicationTimer PROVE IInv'
  <2>1. TypeOK'
    BY <1>11 DEF CommunicationTimer, IInv, TypeOK, requestVars, transactionVars
  <2> QED BY <1>8, <1>11, <2>1 DEF CommunicationTimer
<1>12. CASE UNCHANGED vars
  <2>1. TypeOK'
    BY <1>12 DEF vars, IInv, TypeOK, requestVars, transactionVars, dccVars
  <2> QED BY <1>8, <1>12, <2>1 DEF vars
<1> QED BY <1>1, <1>2, <1>3, <1>4, <1>6, <1>7, <1>9, <1>10, <1>11, <1>12 DEF Next

LEMMA Invariance == Spec => []IInv
  BY InitLemma, StepLemma, PTL DEF Spec

\* The state of the bookkeeping keeps its shape.
THEOREM TypeCorrect == Spec => []TypeOK
<1>1. IInv => TypeOK
  BY DEF IInv
<1> QED BY <1>1, Invariance, PTL

(***************************************************************************)
(* Two outstanding requests to one device never have the same invoke ID,   *)
(* however many requests and IDs there are (request, _request_done).       *)
(***************************************************************************)
THEOREM InvokeIDsUnique == Spec => []UniqueInvokeIDs
<1>1. IInv => UniqueInvokeIDs
  <2> SUFFICES ASSUME IInv, NEW d \in Destinations,
                      NEW i \in 1..Len(requests[d]), NEW j \in 1..Len(requests[d]), i # j
               PROVE  invoke_id[requests[d][i]] # invoke_id[requests[d][j]]
    BY DEF UniqueInvokeIDs
  <2>1. requests[d] \in Seq(Requests) /\ IsInjective(requests[d])
    BY DEF IInv, TypeOK, Listed
  <2> DEFINE t == requests[d][i]
             u == requests[d][j]
  <2>2. t \in Requests /\ u \in Requests /\ t # u
        /\ t \in ToSet(requests[d]) /\ u \in ToSet(requests[d])
    BY <2>1 DEF IsInjective, ToSet
  <2> HIDE DEF t, u
  <2>3. invoke_id[t] # invoke_id[u]
    BY <2>2 DEF IInv, Listed, DistinctIDs, Shares
  <2> QED BY <2>3 DEF t, u
<1> QED BY <1>1, Invariance, PTL

(***************************************************************************)
(* A request is listed, once, exactly while its future waits or its        *)
(* callback has not run (request, _request_done, confirmation).            *)
(***************************************************************************)
THEOREM ListedExactly == Spec => []ListedWhilePending
<1>1. IInv => ListedWhilePending
  <2> SUFFICES ASSUME IInv, NEW r \in Requests
               PROVE  LET s == requests[destination[r]]
                      IN  Cardinality({i \in 1..Len(s) : s[i] = r}) =
                              IF Outstanding(r) THEN 1 ELSE 0
    BY DEF ListedWhilePending, Outstanding
  <2> DEFINE s == requests[destination[r]]
             at == {i \in 1..Len(s) : s[i] = r}
  <2>1. destination[r] \in Destinations /\ s \in Seq(Requests) /\ IsInjective(s)
        /\ (r \in ToSet(s) <=> Outstanding(r))
    BY DEF IInv, TypeOK, Listed
  <2> HIDE DEF s
  <2>2. CASE Outstanding(r)
    <3>1. PICK i \in 1..Len(s) : s[i] = r
      BY <2>1, <2>2 DEF ToSet
    <3>2. at = {i}
      BY <2>1, <3>1 DEF IsInjective
    <3> QED BY <2>2, <3>2, FS_Singleton DEF s
  <2>3. CASE ~Outstanding(r)
    <3>1. at = {}
      BY <2>1, <2>3 DEF ToSet
    <3> QED BY <2>3, <3>1, FS_EmptySet DEF s
  <2> QED BY <2>2, <2>3
<1> QED BY <1>1, Invariance, PTL

(***************************************************************************)
(* Two transactions to one device share an invoke ID only when the request *)
(* of the older one does not wait for an answer any more.                  *)
(***************************************************************************)
THEOREM SharedAfterwards == Spec => []SharedOnlyAfterwards
<1>1. IInv => SharedOnlyAfterwards
  <2> SUFFICES ASSUME IInv,
                      NEW i \in 1..Len(transactions), NEW j \in 1..Len(transactions),
                      i < j, Shares(transactions[i], transactions[j])
               PROVE  future[transactions[i]] # "pending"
    BY DEF SharedOnlyAfterwards, Shares
  <2>1. transactions[i] \in Requests /\ transactions[j] \in Requests
    BY DEF IInv, TypeOK
  <2>2. Earlier(transactions[i], transactions[j])
    BY DEF Earlier, Before
  <2> QED BY <2>1, <2>2 DEF IInv, Ordered
<1> QED BY <1>1, Invariance, PTL

=============================================================================
