------------------------- MODULE ForeignDeviceProofs -------------------------
(***************************************************************************)
(* Proofs about ForeignDevice: undisturbed, a foreign device has one       *)
(* renewal to come; while it takes itself for registered the BBMD has an   *)
(* entry for it; and it goes on registering until it is told to stop.      *)
(***************************************************************************)
EXTENDS ForeignDevice, SequenceTheorems, TLAPS

(***************************************************************************)
(* What the handles of the device go by: a device that has a handle or is  *)
(* registered knows its BBMD, and a handle that is forgotten is not due.   *)
(***************************************************************************)
Handles ==
    /\ handle.set => known
    /\ registered => known
    /\ ~handle.set => handle.due = Never

(***************************************************************************)
(* A handle that will be called at d starts a registration then; the BBMD  *)
(* has counted the entry down for this second already or will.             *)
(***************************************************************************)
Coming(d) ==
    \/ handle.due = d
    \/ retry = d
    \/ \E k \in 1..Len(loose) : loose[k] = d

EntryLeft == IF clocked THEN remain + 1 ELSE remain

Request(m) == m.type = "RegisterForeignDevice" /\ m.ttl = TTL

Success(m) == m.type = "Result" /\ m.source = "bbmd" /\ m.code = "OK"

\* Nothing under way belongs to a registration that was stopped, and what a
\* success has said of the entry is still so, but for the time it has taken.
NothingOld ==
    known => \A k \in 1..Len(net) : OfRegistration(net[k]) =>
        \/ Request(net[k])
        \/ /\ Success(net[k])
           /\ EntryLeft >= TTL + BBMDGrace - MaxDelay + net[k].left

\* The entry lasts until a handle is called and what it sends has arrived.
OutlivedByHandle == \E d \in 0..TTL : Coming(d) /\ EntryLeft >= d + MaxDelay + 2

OutlivedByRequest ==
    /\ \E d \in 0..TTL : Coming(d)
    /\ \E k \in 1..Len(net) : Request(net[k]) /\ EntryLeft >= net[k].left + 2

InTime == registered => OutlivedByHandle \/ OutlivedByRequest

Listed == lost = 0 /\ refused = 0 /\ ~hasty => NothingOld /\ InTime

(***************************************************************************)
(* Undisturbed, there is one handle that goes on with the registration, at *)
(* most one datagram under way, which is answered before the next attempt, *)
(* and the registration expires no sooner than what is lost allows.        *)
(***************************************************************************)
Ours == strays = 0 => \A k \in 1..Len(net) : OfRegistration(net[k])

Awaited(m, attempt) ==
    \/ Request(m) /\ attempt >= m.left + NextAttempt - MaxDelay
    \/ Success(m) /\ attempt >= m.left + NextAttempt - 2 * MaxDelay

Renewal ==
    /\ ~handle.set => retry = Never /\ expiry = Never
    /\ handle.due # Never => net = <<>> /\ retry = Never
    /\ handle.set /\ handle.due = Never => retry # Never /\ status # "unregistered"
    /\ handle.set /\ net # <<>> => Len(net) = 1 /\ Awaited(net[1], retry)

Postponed ==
    expiry # Never =>
        /\ handle.due # Never => expiry + lost * NextAttempt >= Grace + handle.due
        /\ handle.due = Never /\ net = <<>> =>
               expiry + lost * NextAttempt >= Grace + retry
        /\ net # <<>> => expiry + lost * NextAttempt + NextAttempt >= Grace + retry

Single ==
    /\ Undisturbed => loose = <<>> /\ Renewal /\ Postponed
    /\ Bearable /\ wanted => handle.set

ForeignInv == ForeignTypeOK /\ Handles /\ Listed /\ Ours /\ Single
-----------------------------------------------------------------------------
(* Lemmas about the constants and the operators of the model.              *)

LEMMA Constants ==
    /\ TTL \in Nat /\ TTL > 0 /\ Grace \in Nat /\ BBMDGrace \in Nat
    /\ MaxDelay \in Nat /\ MaxLoose \in Nat /\ MaxLoose > 0
    /\ MaxLost \in Nat /\ MaxRefused \in Nat /\ MaxStrays \in Nat /\ MaxCalls \in Nat
    /\ NextAttempt \in Nat /\ 0 < NextAttempt /\ NextAttempt =< TTL
    /\ 2 * MaxDelay < NextAttempt /\ 2 * MaxDelay + 2 =< BBMDGrace
BY ForeignAssumption, TimingAssumption DEF NextAttempt

LEMMA Product ==
    ASSUME NEW n \in Nat
    PROVE  /\ n * NextAttempt \in Nat
           /\ (n + 1) * NextAttempt = n * NextAttempt + NextAttempt
BY Constants, SMT

LEMMA FunctionIsSeq ==
    ASSUME NEW S, NEW n \in Nat, NEW f \in [1..n -> S]
    PROVE  f \in Seq(S) /\ Len(f) = n
OBVIOUS

LEMMA SeqElement ==
    ASSUME NEW S, NEW s \in Seq(S)
    PROVE  Len(s) \in Nat /\ \A k \in 1..Len(s) : s[k] \in S
OBVIOUS

\* What Without leaves, where it was or one place before.
LEMMA WithoutLemma ==
    ASSUME NEW S, NEW s \in Seq(S), NEW k \in 1..Len(s)
    PROVE  /\ Without(s, k) \in Seq(S)
           /\ Len(Without(s, k)) = Len(s) - 1
           /\ \A i \in 1..Len(Without(s, k)) :
                  \E j \in 1..Len(s) : j # k /\ Without(s, k)[i] = s[j]
           /\ \A j \in 1..Len(s) : j # k =>
                  \E i \in 1..Len(Without(s, k)) : Without(s, k)[i] = s[j]
<1> DEFINE a == SubSeq(s, 1, k - 1)
           b == SubSeq(s, k + 1, Len(s))
           w == Without(s, k)
<1>1. Len(s) \in Nat /\ \A i \in 1..Len(s) : s[i] \in S
  OBVIOUS
<1>2. /\ a \in Seq(S) /\ Len(a) = k - 1
      /\ \A i \in 1..(k - 1) : a[i] = s[i]
  <2>1. \A i \in 1..(k - 1) : s[i] \in S
    BY <1>1
  <2> QED BY <2>1, <1>1, SubSeqProperties
<1>3. /\ b \in Seq(S) /\ Len(b) = Len(s) - k
      /\ \A i \in 1..(Len(s) - k) : b[i] = s[k + i]
  <2>1. \A i \in (k + 1)..Len(s) : s[i] \in S
    BY <1>1
  <2>2. k + 1 \in Int /\ Len(s) \in Int
    BY <1>1
  <2>3. /\ b \in Seq(S)
        /\ Len(b) = IF k + 1 <= Len(s) THEN Len(s) - (k + 1) + 1 ELSE 0
        /\ \A i \in 1..(Len(s) - (k + 1) + 1) : b[i] = s[(k + 1) + i - 1]
    BY <2>1, <2>2, SubSeqProperties
  <2> HIDE DEF b
  <2>4. Len(b) = Len(s) - k
    BY <2>3, <1>1
  <2>5. ASSUME NEW i \in 1..(Len(s) - k) PROVE b[i] = s[k + i]
    <3>1. i \in 1..(Len(s) - (k + 1) + 1) /\ (k + 1) + i - 1 = k + i
      BY <1>1
    <3> QED BY <3>1, <2>3
  <2> QED BY <2>3, <2>4, <2>5
<1>4. w = a \o b
  BY DEF Without
<1> HIDE DEF a, b
<1>5. /\ w \in Seq(S) /\ Len(w) = Len(s) - 1
      /\ \A i \in 1..(Len(s) - 1) : w[i] = s[IF i < k THEN i ELSE i + 1]
  <2>1. a \o b \in Seq(S) /\ Len(a \o b) = Len(a) + Len(b)
    BY <1>2, <1>3, ConcatProperties
  <2>2. \A i \in 1..(Len(a) + Len(b)) :
            (a \o b)[i] = IF i <= Len(a) THEN a[i] ELSE b[i - Len(a)]
    BY <1>2, <1>3, ConcatProperties
  <2>3. Len(a) + Len(b) = Len(s) - 1
    BY <1>1, <1>2, <1>3
  <2>4. ASSUME NEW i \in 1..(Len(s) - 1)
        PROVE  (a \o b)[i] = s[IF i < k THEN i ELSE i + 1]
    <3>1. CASE i < k
      <4>1. i \in 1..(k - 1) /\ i <= Len(a)
        BY <3>1, <1>1, <1>2
      <4> QED BY <4>1, <3>1, <2>2, <2>3, <1>2
    <3>2. CASE ~(i < k)
      <4>1. i - (k - 1) \in 1..(Len(s) - k) /\ ~(i <= Len(a))
        BY <3>2, <1>1, <1>2
      <4>2. (a \o b)[i] = b[i - (k - 1)]
        BY <4>1, <2>2, <2>3, <1>2
      <4>3. k + (i - (k - 1)) = i + 1
        BY <1>1
      <4> QED BY <4>1, <4>2, <4>3, <3>2, <1>3
    <3> QED BY <3>1, <3>2
  <2> QED BY <2>1, <2>3, <2>4, <1>4
<1> HIDE DEF w
<1>6. ASSUME NEW i \in 1..Len(w) PROVE \E j \in 1..Len(s) : j # k /\ w[i] = s[j]
  <2>1. (IF i < k THEN i ELSE i + 1) \in 1..Len(s) \ {k}
    BY <1>1, <1>5
  <2> QED BY <2>1, <1>1, <1>5
<1>7. ASSUME NEW j \in 1..Len(s), j # k
      PROVE  \E i \in 1..Len(w) : w[i] = s[j]
  <2> DEFINE i == IF j < k THEN j ELSE j - 1
  <2>1. i \in 1..(Len(s) - 1) /\ (IF i < k THEN i ELSE i + 1) = j
    BY <1>1, <1>7
  <2> QED BY <2>1, <1>1, <1>5
<1> QED BY <1>5, <1>6, <1>7 DEF w

\* The same of the datagrams under way and of the handles nothing refers to.
LEMMA NetWithout ==
    ASSUME net \in Seq(Datagram), NEW k \in 1..Len(net)
    PROVE  /\ Without(net, k) \in Seq(Datagram)
           /\ \A i \in 1..Len(Without(net, k)) :
                  \E j \in 1..Len(net) : j # k /\ Without(net, k)[i] = net[j]
           /\ \A j \in 1..Len(net) : j # k =>
                  \E i \in 1..Len(Without(net, k)) : Without(net, k)[i] = net[j]
  BY WithoutLemma

LEMMA LooseWithout ==
    ASSUME loose \in Seq(0..TTL), NEW k \in 1..Len(loose)
    PROVE  /\ Without(loose, k) \in Seq(0..TTL)
           /\ \A i \in 1..Len(Without(loose, k)) :
                  \E j \in 1..Len(loose) : j # k /\ Without(loose, k)[i] = loose[j]
           /\ \A j \in 1..Len(loose) : j # k =>
                  \E i \in 1..Len(Without(loose, k)) : Without(loose, k)[i] = loose[j]
<1> DEFINE S == 0..TTL
<1>1. loose \in Seq(S)
  OBVIOUS
<1> HIDE DEF S
<1>2. /\ Without(loose, k) \in Seq(S)
      /\ \A i \in 1..Len(Without(loose, k)) :
             \E j \in 1..Len(loose) : j # k /\ Without(loose, k)[i] = loose[j]
      /\ \A j \in 1..Len(loose) : j # k =>
             \E i \in 1..Len(Without(loose, k)) : Without(loose, k)[i] = loose[j]
  BY <1>1, WithoutLemma
<1> QED BY <1>2 DEF S

\* What is sent is the last, and what was under way is still.
LEMMA SendLemma ==
    ASSUME NEW S, NEW s \in Seq(S), NEW m \in S
    PROVE  /\ Append(s, m) \in Seq(S)
           /\ Len(Append(s, m)) = Len(s) + 1
           /\ \A i \in 1..Len(Append(s, m)) :
                  \/ Append(s, m)[i] = m
                  \/ \E j \in 1..Len(s) : Append(s, m)[i] = s[j]
           /\ \A j \in 1..Len(s) :
                  \E i \in 1..Len(Append(s, m)) : Append(s, m)[i] = s[j]
           /\ \E i \in 1..Len(Append(s, m)) : Append(s, m)[i] = m
<1> DEFINE t == Append(s, m)
<1>1. /\ t \in Seq(S) /\ Len(s) \in Nat /\ Len(t) = Len(s) + 1
      /\ \A i \in 1..Len(s) : t[i] = s[i]
      /\ t[Len(s) + 1] = m
  OBVIOUS
<1> HIDE DEF t
<1>2. \A i \in 1..Len(t) : i \in 1..Len(s) \/ i = Len(s) + 1
  BY <1>1
<1>3. 1..Len(s) \subseteq 1..Len(t) /\ Len(s) + 1 \in 1..Len(t)
  BY <1>1
<1> QED BY <1>1, <1>2, <1>3 DEF t

\* A handle that is lost track of is kept, beside those that were.
LEMMA ForgottenLemma ==
    ASSUME NEW s \in Seq(0..TTL), NEW due \in Never..TTL
    PROVE  /\ s \o Forgotten(due) \in Seq(0..TTL)
           /\ due = Never => s \o Forgotten(due) = s
           /\ due # Never => \E i \in 1..Len(s \o Forgotten(due)) :
                                 (s \o Forgotten(due))[i] = due
           /\ \A j \in 1..Len(s) : \E i \in 1..Len(s \o Forgotten(due)) :
                                       (s \o Forgotten(due))[i] = s[j]
<1>1. CASE due = Never
  <2>1. s \o Forgotten(due) = s
    <3>1. s \o << >> = s
      BY ConcatEmptySeq
    <3> QED BY <1>1, <3>1 DEF Forgotten
  <2> QED BY <2>1, <1>1
<1>2. CASE due # Never
  <2>1. due \in 0..TTL
    BY <1>2, Constants DEF Never
  <2>2. Forgotten(due) = <<due>>
    BY <1>2 DEF Forgotten
  <2>3. s \o <<due>> = Append(s, due)
    BY <2>1, AppendIsConcat
  <2>4. s \o Forgotten(due) = Append(s, due)
    BY <2>2, <2>3
  <2>5. /\ Append(s, due) \in Seq(0..TTL)
        /\ \E i \in 1..Len(Append(s, due)) : Append(s, due)[i] = due
        /\ \A j \in 1..Len(s) : \E i \in 1..Len(Append(s, due)) :
                                   Append(s, due)[i] = s[j]
    BY <2>1, SendLemma
  <2> QED BY <1>2, <2>4, <2>5
<1> QED BY <1>1, <1>2

\* The clock takes every handle and every datagram a second further.
LEMMA SoonerLemma ==
    ASSUME NEW due \in Never..TTL, due # 0
    PROVE  /\ Sooner(due) \in Never..TTL
           /\ due = Never => Sooner(due) = Never
           /\ due # Never => Sooner(due) = due - 1 /\ Sooner(due) \in 0..TTL
BY Constants DEF Sooner, Never

LEMMA SentTypes ==
    /\ Registration(TTL) \in Datagram
    /\ Registration(0) \in Datagram
    /\ \A source \in {"bbmd", "another"}, code \in {"OK", "refused"} :
           ResultFrom(source, code) \in Datagram
BY Constants DEF Registration, ResultFrom, Datagram

LEMMA DatagramShape ==
    ASSUME NEW m \in Datagram
    PROVE  /\ m.left \in 0..MaxDelay
           /\ m.type \in {"RegisterForeignDevice", "Result"}
           /\ m.type = "RegisterForeignDevice" => m.ttl \in {0, TTL}
           /\ m.type = "Result" => /\ m.source \in {"bbmd", "another"}
                                   /\ m.code \in {"OK", "refused"}
           /\ m.left > 0 => /\ [m EXCEPT !.left = @ - 1] \in Datagram
                            /\ [m EXCEPT !.left = @ - 1].left = m.left - 1
                            /\ [m EXCEPT !.left = @ - 1].type = m.type
                            /\ m.type = "RegisterForeignDevice" =>
                                   [m EXCEPT !.left = @ - 1].ttl = m.ttl
                            /\ m.type = "Result" =>
                                   /\ [m EXCEPT !.left = @ - 1].source = m.source
                                   /\ [m EXCEPT !.left = @ - 1].code = m.code
<1>1. CASE m \in [type : {"RegisterForeignDevice"}, ttl : {0, TTL}, left : 0..MaxDelay]
  BY <1>1, Constants DEF Datagram
<1>2. CASE m \in [type : {"Result"}, source : {"bbmd", "another"},
                  code : {"OK", "refused"}, left : 0..MaxDelay]
  BY <1>2, Constants DEF Datagram
<1> QED BY <1>1, <1>2 DEF Datagram

-----------------------------------------------------------------------------
(* The shape of the state.                                                 *)

\* What a step of the clock does to what is under way and to the loose handles.
LEMMA TickLemma ==
    ASSUME ForeignTypeOK, Tick
    PROVE  /\ net' \in Seq(Datagram) /\ Len(net') = Len(net)
           /\ \A k \in 1..Len(net) : /\ net[k].left > 0
                                     /\ net'[k].left = net[k].left - 1
                                     /\ OfRegistration(net'[k]) => OfRegistration(net[k])
                                     /\ OfRegistration(net[k]) => OfRegistration(net'[k])
                                     /\ Request(net[k]) => Request(net'[k])
                                     /\ Success(net[k]) => Success(net'[k])
           /\ loose' \in Seq(0..TTL) /\ Len(loose') = Len(loose)
           /\ \A k \in 1..Len(loose) : loose[k] # 0 /\ loose'[k] = loose[k] - 1
           /\ loose = << >> => loose' = << >>
           /\ net = << >> => net' = << >>
<1>1. /\ Len(net) \in Nat /\ Len(loose) \in Nat
      /\ \A k \in 1..Len(net) : net[k] \in Datagram
      /\ \A k \in 1..Len(loose) : loose[k] \in 0..TTL
  <2>1. net \in Seq(Datagram) /\ loose \in Seq(0..TTL)
    BY DEF ForeignTypeOK
  <2>2. Len(net) \in Nat /\ \A k \in 1..Len(net) : net[k] \in Datagram
    BY <2>1
  <2>3. Len(loose) \in Nat /\ \A k \in 1..Len(loose) : loose[k] \in 0..TTL
    BY <2>1, SeqElement
  <2> QED BY <2>2, <2>3
<1>2. ASSUME NEW k \in 1..Len(net)
      PROVE  /\ [net[k] EXCEPT !.left = @ - 1] \in Datagram
             /\ net[k].left > 0
             /\ [net[k] EXCEPT !.left = @ - 1].left = net[k].left - 1
             /\ OfRegistration([net[k] EXCEPT !.left = @ - 1]) <=> OfRegistration(net[k])
             /\ Request(net[k]) => Request([net[k] EXCEPT !.left = @ - 1])
             /\ Success(net[k]) => Success([net[k] EXCEPT !.left = @ - 1])
  <2>1. net[k] \in Datagram
    BY <1>1
  <2>2. net[k].left > 0
    BY DEF Tick
  <2> QED BY <2>1, <2>2, DatagramShape DEF OfRegistration, Request, Success
<1>3. net' \in [1..Len(net) -> Datagram]
      /\ \A k \in 1..Len(net) : net'[k] = [net[k] EXCEPT !.left = @ - 1]
  BY <1>2 DEF Tick
<1>4. net' \in Seq(Datagram) /\ Len(net') = Len(net)
  BY <1>1, <1>3, FunctionIsSeq
<1>5. ASSUME NEW k \in 1..Len(loose)
      PROVE  loose[k] # 0 /\ Sooner(loose[k]) = loose[k] - 1 /\ Sooner(loose[k]) \in 0..TTL
  <2>1. loose[k] # 0
    BY DEF Tick
  <2>2. loose[k] \in Never..TTL /\ loose[k] # Never
    BY <1>1, Constants DEF Never
  <2> QED BY <2>1, <2>2, SoonerLemma
<1>6. loose' \in [1..Len(loose) -> 0..TTL]
      /\ \A k \in 1..Len(loose) : loose'[k] = Sooner(loose[k])
  BY <1>5 DEF Tick
<1>7. loose' \in Seq(0..TTL) /\ Len(loose') = Len(loose)
  BY <1>1, <1>6, FunctionIsSeq
<1>8. loose = << >> => loose' = << >>
  BY <1>7, EmptySeq
<1>9. net = << >> => net' = << >>
  BY <1>4, EmptySeq
<1> QED BY <1>2, <1>3, <1>4, <1>5, <1>6, <1>7, <1>8, <1>9

LEMMA TypeInitially == ForeignInit => ForeignTypeOK
<1> SUFFICES ASSUME ForeignInit PROVE ForeignTypeOK
  OBVIOUS
<1>1. << >> \in Seq(Datagram) /\ << >> \in Seq(0..TTL)
  OBVIOUS
<1>2. handle \in [set : BOOLEAN, due : Never..TTL]
  BY Constants DEF ForeignInit, NoHandle, Never
<1>3. retry \in Never..TTL /\ expiry \in Never..(TTL + Grace)
      /\ remain \in 0..(TTL + BBMDGrace)
  BY Constants DEF ForeignInit, Never
<1>4. /\ lost \in 0..MaxLost /\ refused \in 0..MaxRefused
      /\ strays \in 0..MaxStrays /\ calls \in 0..MaxCalls
  BY Constants DEF ForeignInit
<1> QED BY <1>1, <1>2, <1>3, <1>4 DEF ForeignInit, ForeignTypeOK

\* What _start_registration does to the handles and to what is under way.
LEMMA StartTypes ==
    ASSUME ForeignTypeOK, NEW others \in Seq(0..TTL), NEW pending \in Never..TTL,
           StartRegistration(others, pending)
    PROVE  /\ status' \in {"unregistered", "inProcess", "OK", "error"}
           /\ retry' \in Never..TTL
           /\ loose' \in Seq(0..TTL)
           /\ net' \in Seq(Datagram)
<1>1. net' \in Seq(Datagram)
  <2>1. net \in Seq(Datagram)
    BY DEF ForeignTypeOK
  <2>2. Append(net, Registration(TTL)) \in Seq(Datagram)
    BY <2>1, SentTypes, SendLemma
  <2> QED BY <2>1, <2>2 DEF StartRegistration
<1>2. retry' \in Never..TTL
  BY Constants DEF StartRegistration, Never
<1>3. loose' \in Seq(0..TTL)
  BY ForgottenLemma DEF StartRegistration
<1> QED BY <1>1, <1>2, <1>3 DEF StartRegistration, ForeignTypeOK

LEMMA TypeStep ==
    ASSUME ForeignTypeOK, [ForeignNext]_foreignVars
    PROVE  ForeignTypeOK'
<1> USE DEF ForeignTypeOK
<1>0. NoHandle \in [set : BOOLEAN, due : Never..TTL] /\ Never \in Never..TTL
      /\ Never \in Never..(TTL + Grace) /\ TTL \in Never..TTL
      /\ TTL + Grace \in Never..(TTL + Grace) /\ 0 \in Never..TTL
  BY Constants DEF NoHandle, Never
<1>1. CASE Register
  <2>1. handle' \in [set : BOOLEAN, due : Never..TTL]
    BY <1>1, <1>0 DEF Register
  <2>2. hasty' \in BOOLEAN /\ known' \in BOOLEAN
    BY <1>1 DEF Register
  <2>3. calls' \in 0..MaxCalls
    BY <1>1, Constants DEF Register
  <2> QED BY <1>1, <2>1, <2>2, <2>3 DEF Register, bbmdVars
<1>2. CASE Unregister
  <2>1. net' \in Seq(Datagram)
    <3>1. Append(net, Registration(0)) \in Seq(Datagram)
      BY SentTypes, SendLemma
    <3> QED BY <1>2, <3>1 DEF Unregister
  <2>2. calls' \in 0..MaxCalls
    BY <1>2, Constants DEF Unregister
  <2>3. /\ status' \in {"unregistered", "inProcess", "OK", "error"}
        /\ registered' \in BOOLEAN /\ known' \in BOOLEAN
        /\ handle' \in [set : BOOLEAN, due : Never..TTL]
        /\ retry' \in Never..TTL /\ expiry' \in Never..(TTL + Grace)
        /\ loose' \in Seq(0..TTL)
    BY <1>2, <1>0 DEF Unregister, deviceVars, Stopped
  <2> QED BY <1>2, <2>1, <2>2, <2>3 DEF Unregister, bbmdVars
<1>3. CASE RegistrationDue
  <2>1. /\ status' \in {"unregistered", "inProcess", "OK", "error"}
        /\ retry' \in Never..TTL /\ loose' \in Seq(0..TTL) /\ net' \in Seq(Datagram)
    BY <1>3, StartTypes DEF RegistrationDue
  <2> QED BY <1>3, <2>1, <1>0 DEF RegistrationDue, StartRegistration, bbmdVars, counters
<1>4. CASE RetryDue
  <2>1. /\ status' \in {"unregistered", "inProcess", "OK", "error"}
        /\ retry' \in Never..TTL /\ loose' \in Seq(0..TTL) /\ net' \in Seq(Datagram)
    BY <1>4, <1>0, StartTypes DEF RetryDue
  <2> QED BY <1>4, <2>1 DEF RetryDue, StartRegistration, bbmdVars, counters
<1>5. CASE LooseDue
  <2>1. PICK k \in 1..Len(loose) : StartRegistration(Without(loose, k), retry)
    BY <1>5 DEF LooseDue
  <2>2. Without(loose, k) \in Seq(0..TTL)
    BY LooseWithout
  <2>3. /\ status' \in {"unregistered", "inProcess", "OK", "error"}
        /\ retry' \in Never..TTL /\ loose' \in Seq(0..TTL) /\ net' \in Seq(Datagram)
    BY <2>1, <2>2, StartTypes
  <2> QED BY <1>5, <2>1, <2>3 DEF LooseDue, StartRegistration, bbmdVars, counters
<1>6. CASE RegistrationExpired
  BY <1>6, <1>0 DEF RegistrationExpired, Stopped, bbmdVars, counters
<1>7. ASSUME NEW k \in 1..Len(net), ReceiveResult(k) PROVE ForeignTypeOK'
  <2>1. net' \in Seq(Datagram)
    BY <1>7, NetWithout DEF ReceiveResult
  <2>2. loose' \in Seq(0..TTL)
    <3>1. loose \o Forgotten(handle.due) \in Seq(0..TTL)
      BY ForgottenLemma
    <3> QED BY <1>7, <3>1 DEF ReceiveResult, deviceVars
  <2>3. /\ status' \in {"unregistered", "inProcess", "OK", "error"}
        /\ registered' \in BOOLEAN /\ known' \in BOOLEAN
        /\ handle' \in [set : BOOLEAN, due : Never..TTL]
        /\ retry' \in Never..TTL /\ expiry' \in Never..(TTL + Grace)
    <3>1. CASE UNCHANGED deviceVars
      BY <3>1 DEF deviceVars
    <3>2. CASE ~UNCHANGED deviceVars
      <4>1. /\ known' = known
            /\ status' \in {status, "error", "OK"}
            /\ registered' \in {registered, TRUE}
            /\ handle' \in {NoHandle, [set |-> TRUE, due |-> TTL]}
            /\ retry' \in {retry, Never} /\ expiry' \in {expiry, TTL + Grace}
        BY <1>7, <3>2 DEF ReceiveResult, Stopped
      <4>2. registered' \in BOOLEAN /\ known' \in BOOLEAN
        BY <4>1
      <4>3. handle' \in [set : BOOLEAN, due : Never..TTL]
        <5>1. [set |-> TRUE, due |-> TTL] \in [set : BOOLEAN, due : Never..TTL]
          BY <1>0, Zenon
        <5> QED BY <4>1, <5>1, <1>0, Zenon
      <4> QED BY <4>1, <4>2, <4>3, <1>0
    <3> QED BY <3>1, <3>2
  <2> QED BY <1>7, <2>1, <2>2, <2>3 DEF ReceiveResult, bbmdVars, counters
<1>8. ASSUME NEW k \in 1..Len(net), ReceiveRegistration(k) PROVE ForeignTypeOK'
  <2>1. net' \in Seq(Datagram)
    <3>1. Without(net, k) \in Seq(Datagram)
      BY NetWithout
    <3>2. \A code \in {"OK", "refused"} :
              Append(Without(net, k), ResultFrom("bbmd", code)) \in Seq(Datagram)
      BY <3>1, SentTypes, SendLemma
    <3> QED BY <1>8, <3>2 DEF ReceiveRegistration
  <2>2. remain' \in 0..(TTL + BBMDGrace) /\ refused' \in 0..MaxRefused
    <3>1. net[k] \in Datagram
      BY <1>8
    <3>2. net[k].type = "RegisterForeignDevice" => net[k].ttl \in {0, TTL}
      BY <3>1, DatagramShape
    <3>3. \/ remain' = 0 /\ refused' = refused
          \/ remain' = Remaining(TTL) /\ refused' = refused
          \/ remain' = remain /\ refused < MaxRefused /\ refused' = refused + 1
      BY <1>8, <3>2 DEF ReceiveRegistration
    <3>4. Remaining(TTL) \in 0..(TTL + BBMDGrace)
      BY Constants DEF Remaining
    <3>5. remain \in 0..(TTL + BBMDGrace) /\ refused \in 0..MaxRefused
      BY <1>0
    <3> QED BY <3>3, <3>4, <3>5, Constants
  <2> QED BY <1>8, <2>1, <2>2 DEF ReceiveRegistration, deviceVars
<1>9. CASE FDTClock
  BY <1>9, Constants DEF FDTClock, CountedDown, deviceVars, counters
<1>10. ASSUME NEW k \in 1..Len(net), Lose(k) PROVE ForeignTypeOK'
  <2>1. net' \in Seq(Datagram)
    BY <1>10, NetWithout DEF Lose
  <2>2. lost' \in 0..MaxLost
    <3>1. lost' = lost \/ (lost < MaxLost /\ lost' = lost + 1)
      BY <1>10 DEF Lose
    <3>2. lost \in 0..MaxLost
      OBVIOUS
    <3> QED BY <3>1, <3>2, Constants
  <2> QED BY <1>10, <2>1, <2>2 DEF Lose, deviceVars, bbmdVars
<1>11. CASE StrayResult
  <2>1. net' \in Seq(Datagram)
    BY <1>11, SentTypes, SendLemma DEF StrayResult
  <2>2. strays' \in 0..MaxStrays
    BY <1>11, Constants DEF StrayResult
  <2> QED BY <1>11, <2>1, <2>2 DEF StrayResult, deviceVars, bbmdVars
<1>12. CASE Tick
  <2>1. net' \in Seq(Datagram) /\ loose' \in Seq(0..TTL)
    BY <1>12, TickLemma
  <2>2. handle' \in [set : BOOLEAN, due : Never..TTL] /\ retry' \in Never..TTL
    <3>1. handle.due \in Never..TTL /\ handle.due # 0 /\ retry # 0
      BY <1>12 DEF Tick
    <3>2. Sooner(handle.due) \in Never..TTL /\ Sooner(retry) \in Never..TTL
      BY <3>1, SoonerLemma
    <3> QED BY <1>12, <3>2 DEF Tick
  <2>3. expiry' \in Never..(TTL + Grace)
    <3>1. expiry # 0 /\ expiry' = IF expiry = Never THEN Never ELSE expiry - 1
      BY <1>12 DEF Tick, Sooner
    <3> QED BY <3>1, Constants DEF Never
  <2> QED BY <1>12, <2>1, <2>2, <2>3 DEF Tick, counters
<1>13. CASE UNCHANGED foreignVars
  BY <1>13 DEF foreignVars, deviceVars, bbmdVars, counters
<1> QED BY <1>1, <1>2, <1>3, <1>4, <1>5, <1>6, <1>7, <1>8, <1>9, <1>10, <1>11,
           <1>12, <1>13 DEF ForeignNext, DeviceStep, BBMDStep

-----------------------------------------------------------------------------
(* A device that takes itself for registered is listed.                    *)

LEMMA HandlesStep ==
    ASSUME ForeignTypeOK, Handles, [ForeignNext]_foreignVars
    PROVE  Handles'
<1> USE DEF Handles
<1>0. handle \in [set : BOOLEAN, due : Never..TTL] /\ ~NoHandle.set /\ NoHandle.due = Never
  BY DEF ForeignTypeOK, NoHandle
<1>1. CASE Register
  BY <1>1, <1>0 DEF Register
<1>2. CASE Unregister
  BY <1>2, <1>0 DEF Unregister, deviceVars
<1>3. CASE RegistrationDue
  <2>1. handle.due # Never
    BY <1>3 DEF RegistrationDue, Never
  <2> QED BY <1>3, <2>1, <1>0 DEF RegistrationDue, StartRegistration
<1>4. CASE RetryDue \/ LooseDue
  BY <1>4 DEF RetryDue, LooseDue, StartRegistration
<1>5. CASE RegistrationExpired
  BY <1>5, <1>0 DEF RegistrationExpired
<1>6. ASSUME NEW k \in 1..Len(net), ReceiveResult(k) PROVE Handles'
  BY <1>6, <1>0 DEF ReceiveResult, deviceVars
<1>7. ASSUME NEW k \in 1..Len(net), ReceiveRegistration(k) PROVE Handles'
  BY <1>7 DEF ReceiveRegistration, deviceVars
<1>8. ASSUME NEW k \in 1..Len(net), Lose(k) PROVE Handles'
  BY <1>8 DEF Lose, deviceVars
<1>9. CASE FDTClock \/ StrayResult \/ UNCHANGED foreignVars
  BY <1>9 DEF FDTClock, StrayResult, foreignVars, deviceVars
<1>10. CASE Tick
  BY <1>10, <1>0 DEF Tick, Sooner
<1> QED BY <1>1, <1>2, <1>3, <1>4, <1>5, <1>6, <1>7, <1>8, <1>9, <1>10
        DEF ForeignNext, DeviceStep, BBMDStep

\* What has been lost, refused or disturbed stays so.
LEMMA Monotone ==
    ASSUME ForeignTypeOK, [ForeignNext]_foreignVars
    PROVE  /\ lost' = lost \/ lost' = lost + 1
           /\ lost' = 0 => lost = 0
           /\ refused' = 0 => refused = 0
           /\ strays' = 0 => strays = 0
           /\ ~hasty' => ~hasty
<1>0. lost \in Nat /\ refused \in Nat /\ strays \in Nat
  BY Constants DEF ForeignTypeOK
<1>1. CASE Register \/ Unregister \/ StrayResult \/ FDTClock \/ Tick
  <2>1. UNCHANGED <<lost, refused>>
    BY <1>1 DEF Register, Unregister, StrayResult, FDTClock, Tick, counters
  <2>2. strays' = strays \/ strays' = strays + 1
    BY <1>1 DEF Register, Unregister, StrayResult, FDTClock, Tick, counters
  <2>3. ~hasty' => ~hasty
    BY <1>1 DEF Register, Unregister, StrayResult, FDTClock, Tick, counters
  <2> QED BY <1>0, <2>1, <2>2, <2>3
<1>2. CASE DeviceStep \/ UNCHANGED foreignVars
  BY <1>2 DEF DeviceStep, RegistrationDue, RetryDue, LooseDue, RegistrationExpired,
              ReceiveResult, StartRegistration, foreignVars, counters
<1>3. ASSUME NEW k \in 1..Len(net), ReceiveRegistration(k) \/ Lose(k)
      PROVE  /\ lost' = lost \/ lost' = lost + 1
             /\ refused' = refused \/ refused' = refused + 1
             /\ UNCHANGED <<strays, hasty>>
  BY <1>3 DEF ReceiveRegistration, Lose
<1> QED BY <1>0, <1>1, <1>2, <1>3 DEF ForeignNext, BBMDStep

LEMMA EntryLeftType ==
    ASSUME ForeignTypeOK
    PROVE  EntryLeft \in Nat
BY Constants DEF ForeignTypeOK, EntryLeft

LEMMA EntryLeftTypeNext ==
    ASSUME ForeignTypeOK'
    PROVE  EntryLeft' \in Nat
<1>1. PICK n \in Nat : remain' = n
  BY Constants DEF ForeignTypeOK
<1>2. EntryLeft' = IF clocked' THEN n + 1 ELSE n
  BY <1>1 DEF EntryLeft
<1> QED BY <1>2

\* What is sent is under way, and what was under way is still.
LEMMA SendDatagram ==
    ASSUME ForeignTypeOK, NEW m \in Datagram, net' = Append(net, m)
    PROVE  /\ \A i \in 1..Len(net') : net'[i] = m \/ \E k \in 1..Len(net) : net'[i] = net[k]
           /\ \A k \in 1..Len(net) : \E i \in 1..Len(net') : net'[i] = net[k]
           /\ \E i \in 1..Len(net') : net'[i] = m
<1>1. net \in Seq(Datagram)
  BY DEF ForeignTypeOK
<1> DEFINE t == Append(net, m)
<1>2. /\ \A i \in 1..Len(t) : t[i] = m \/ \E k \in 1..Len(net) : t[i] = net[k]
      /\ \A k \in 1..Len(net) : \E i \in 1..Len(t) : t[i] = net[k]
      /\ \E i \in 1..Len(t) : t[i] = m
  BY <1>1, SendLemma
<1>3. net' = t
  OBVIOUS
<1> HIDE DEF t
<1> QED BY <1>2, <1>3

LEMMA UnderWay ==
    ASSUME ForeignTypeOK
    PROVE  /\ Len(net) \in Nat /\ Len(loose) \in Nat
           /\ \A k \in 1..Len(net) : net[k] \in Datagram /\ net[k].left \in 0..MaxDelay
           /\ \A k \in 1..Len(loose) : loose[k] \in 0..TTL
<1>1. net \in Seq(Datagram) /\ loose \in Seq(0..TTL)
  BY DEF ForeignTypeOK
<1>2. Len(net) \in Nat /\ \A k \in 1..Len(net) : net[k] \in Datagram
  BY <1>1, SeqElement
<1>3. Len(loose) \in Nat /\ \A k \in 1..Len(loose) : loose[k] \in 0..TTL
  BY <1>1, SeqElement
<1> QED BY <1>2, <1>3, DatagramShape

\* Nothing old comes up when what is new under way are registrations.
NothingOldComes ==
    \A i \in 1..Len(net') : OfRegistration(net'[i]) =>
        Request(net'[i]) \/ \E k \in 1..Len(net) : net'[i] = net[k]

RequestsStay ==
    \A k \in 1..Len(net) : Request(net[k]) => \E i \in 1..Len(net') : net'[i] = net[k]

LEMMA NothingOldStable ==
    ASSUME ForeignTypeOK, NothingOld, ForeignTypeOK',
           EntryLeft >= 2 => EntryLeft' >= EntryLeft,
           known' => known,
           NothingOldComes
    PROVE  NothingOld'
<1> SUFFICES ASSUME known', NEW i \in 1..Len(net'), OfRegistration(net'[i]), ~Request(net'[i])
             PROVE  Success(net'[i]) /\ EntryLeft' >= TTL + BBMDGrace - MaxDelay + net'[i].left
  BY DEF NothingOld, Request, Success
<1>1. PICK k \in 1..Len(net) : net'[i] = net[k]
  BY DEF NothingOldComes
<1>2. Success(net[k]) /\ EntryLeft >= TTL + BBMDGrace - MaxDelay + net[k].left
  BY <1>1 DEF NothingOld
<1>3. net[k].left \in 0..MaxDelay
  BY UnderWay
<1>4. EntryLeft \in Nat /\ EntryLeft' \in Nat
  BY EntryLeftType, EntryLeftTypeNext
<1>5. EntryLeft >= 2
  BY <1>2, <1>3, <1>4, Constants
<1> QED BY <1>1, <1>2, <1>3, <1>4, <1>5, Constants

\* The entry lasts as long when no handle is lost but one that sends its
\* registration now.
LEMMA InTimeStable ==
    ASSUME ForeignTypeOK, InTime, ForeignTypeOK',
           EntryLeft >= 2 => EntryLeft' >= EntryLeft,
           registered' => registered,
           RequestsStay,
           \/ \A d \in 0..TTL : Coming(d) => Coming(d)'
           \/ /\ \A d \in 0..TTL : Coming(d) => d = 0 \/ Coming(d)'
              /\ \E d \in 0..TTL : Coming(d)'
              /\ \E i \in 1..Len(net') : Request(net'[i]) /\ net'[i].left = MaxDelay
    PROVE  InTime'
<1> SUFFICES ASSUME registered' PROVE OutlivedByHandle' \/ OutlivedByRequest'
  BY DEF InTime
<1>0. EntryLeft \in Nat /\ EntryLeft' \in Nat
  BY EntryLeftType, EntryLeftTypeNext
<1>1. CASE OutlivedByHandle
  <2>1. PICK d \in 0..TTL : Coming(d) /\ EntryLeft >= d + MaxDelay + 2
    BY <1>1 DEF OutlivedByHandle
  <2>2. EntryLeft' >= d + MaxDelay + 2
    BY <2>1, <1>0, Constants
  <2>3. CASE Coming(d)'
    BY <2>2, <2>3 DEF OutlivedByHandle
  <2>4. CASE ~Coming(d)'
    <3>1. /\ \E e \in 0..TTL : Coming(e)'
          /\ \E i \in 1..Len(net') : Request(net'[i]) /\ net'[i].left = MaxDelay
      BY <2>1, <2>4
    <3>2. EntryLeft' >= MaxDelay + 2
      BY <2>2, <1>0, Constants
    <3> QED BY <3>1, <3>2 DEF OutlivedByRequest, Request
  <2> QED BY <2>3, <2>4
<1>2. CASE OutlivedByRequest
  <2>1. PICK k \in 1..Len(net) : Request(net[k]) /\ EntryLeft >= net[k].left + 2
    BY <1>2 DEF OutlivedByRequest
  <2>2. net[k].left \in 0..MaxDelay
    BY UnderWay
  <2>3. EntryLeft' >= net[k].left + 2
    BY <2>1, <2>2, <1>0, Constants
  <2>4. PICK i \in 1..Len(net') : net'[i] = net[k]
    BY <2>1 DEF RequestsStay
  <2>5. \E d \in 0..TTL : Coming(d)'
    BY <1>2 DEF OutlivedByRequest
  <2> QED BY <2>1, <2>3, <2>4, <2>5 DEF OutlivedByRequest, Request
<1> QED BY <1>1, <1>2 DEF InTime

\* A handle that is called sends a registration, and another handle is set.
LEMMA StartListed ==
    ASSUME ForeignTypeOK, ForeignTypeOK', Handles, NothingOld, InTime,
           NEW others \in Seq(0..TTL), NEW pending \in Never..TTL,
           StartRegistration(others, pending),
           \A d \in 0..TTL : Coming(d) =>
               \/ d = 0
               \/ handle'.due = d
               \/ pending = d
               \/ \E j \in 1..Len(others) : others[j] = d
    PROVE  NothingOld' /\ InTime'
<1>0. EntryLeft' = EntryLeft
  BY DEF StartRegistration, EntryLeft, bbmdVars
<1>1. CASE ~known
  BY <1>1 DEF StartRegistration, NothingOld, InTime, Handles
<1>2. CASE known
  <2>1. /\ net' = Append(net, Registration(TTL)) /\ retry' = NextAttempt
        /\ loose' = others \o Forgotten(pending)
        /\ UNCHANGED <<known, registered>>
    BY <1>2 DEF StartRegistration
  <2>2. /\ Request(Registration(TTL)) /\ Registration(TTL).left = MaxDelay
        /\ Registration(TTL) \in Datagram
    BY SentTypes DEF Request, Registration
  <2>4. /\ \A i \in 1..Len(net') : net'[i] = Registration(TTL)
                                     \/ \E k \in 1..Len(net) : net'[i] = net[k]
        /\ \A k \in 1..Len(net) : \E i \in 1..Len(net') : net'[i] = net[k]
        /\ \E i \in 1..Len(net') : net'[i] = Registration(TTL)
    BY <2>1, <2>2, SendDatagram
  <2>5. NothingOldComes /\ RequestsStay
    BY <2>2, <2>4 DEF NothingOldComes, RequestsStay
  <2>6. \E i \in 1..Len(net') : Request(net'[i]) /\ net'[i].left = MaxDelay
    BY <2>2, <2>4
  <2>7. \E d \in 0..TTL : Coming(d)'
    <3>1. NextAttempt \in 0..TTL
      BY Constants
    <3> QED BY <2>1, <3>1 DEF Coming
  <2>8. ASSUME NEW d \in 0..TTL, Coming(d) PROVE d = 0 \/ Coming(d)'
    <3>1. CASE handle'.due = d
      BY <3>1 DEF Coming
    <3>2. CASE pending = d
      <4>1. pending # Never
        BY <3>2 DEF Never
      <4>2. \E i \in 1..Len(loose') : loose'[i] = d
        BY <2>1, <3>2, <4>1, ForgottenLemma
      <4> QED BY <4>2 DEF Coming
    <3>3. ASSUME NEW j \in 1..Len(others), others[j] = d PROVE Coming(d)'
      <4>1. \E i \in 1..Len(loose') : loose'[i] = d
        BY <2>1, <3>3, ForgottenLemma
      <4> QED BY <4>1 DEF Coming
    <3> QED BY <2>8, <3>1, <3>2, <3>3
  <2>9. EntryLeft >= 2 => EntryLeft' >= EntryLeft
    BY <1>0, EntryLeftType
  <2>10. NothingOld'
    BY <2>1, <2>5, <2>9, NothingOldStable
  <2>11. InTime'
    BY <2>1, <2>5, <2>6, <2>7, <2>8, <2>9, InTimeStable
  <2> QED BY <2>10, <2>11
<1> QED BY <1>1, <1>2

LEMMA ReceiveResultListed ==
    ASSUME ForeignTypeOK, ForeignTypeOK', Handles, NothingOld, InTime,
           NEW k \in 1..Len(net), ReceiveResult(k)
    PROVE  NothingOld' /\ InTime'
<1>0. net \in Seq(Datagram) /\ loose \in Seq(0..TTL) /\ handle.due \in Never..TTL
  BY DEF ForeignTypeOK
<1>1. EntryLeft' = EntryLeft /\ EntryLeft \in Nat
  BY EntryLeftType DEF ReceiveResult, EntryLeft, bbmdVars
<1>2. net' = Without(net, k) /\ net[k].type = "Result" /\ UNCHANGED known
  BY DEF ReceiveResult, deviceVars
<1>3. NothingOldComes /\ RequestsStay
  <2>1. /\ \A i \in 1..Len(net') : \E j \in 1..Len(net) : net'[i] = net[j]
        /\ \A j \in 1..Len(net) : j # k => \E i \in 1..Len(net') : net'[i] = net[j]
    BY <1>0, <1>2, NetWithout
  <2>2. ~Request(net[k])
    BY <1>2 DEF Request
  <2> QED BY <2>1, <2>2 DEF NothingOldComes, RequestsStay
<1>4. NothingOld'
  BY <1>1, <1>2, <1>3, NothingOldStable
<1>5. CASE UNCHANGED deviceVars
  <2>1. \A d \in 0..TTL : Coming(d) => Coming(d)'
    BY <1>5 DEF deviceVars, Coming
  <2>2. UNCHANGED registered
    BY <1>5 DEF deviceVars
  <2> QED BY <1>1, <1>3, <1>4, <2>1, <2>2, InTimeStable
<1>6. CASE handle' = NoHandle /\ loose' = loose \o Forgotten(handle.due)
           /\ UNCHANGED <<registered, retry>>
  <2>1. ASSUME NEW d \in 0..TTL, Coming(d) PROVE Coming(d)'
    <3>1. CASE handle.due = d
      <4>1. handle.due # Never
        BY <3>1 DEF Never
      <4>2. \E i \in 1..Len(loose') : loose'[i] = d
        BY <1>0, <1>6, <3>1, <4>1, ForgottenLemma
      <4> QED BY <4>2 DEF Coming
    <3>2. CASE retry = d
      BY <1>6, <3>2 DEF Coming
    <3>3. ASSUME NEW j \in 1..Len(loose), loose[j] = d PROVE Coming(d)'
      <4>1. \E i \in 1..Len(loose') : loose'[i] = d
        BY <1>0, <1>6, <3>3, ForgottenLemma
      <4> QED BY <4>1 DEF Coming
    <3> QED BY <2>1, <3>1, <3>2, <3>3 DEF Coming
  <2> QED BY <1>1, <1>3, <1>4, <1>6, <2>1, InTimeStable
<1>7. CASE Success(net[k]) /\ known /\ handle' = [set |-> TRUE, due |-> TTL]
  <2>1. OfRegistration(net[k]) /\ ~Request(net[k])
    BY <1>7 DEF Success, Request, OfRegistration
  <2>2. EntryLeft >= TTL + BBMDGrace - MaxDelay + net[k].left
    BY <1>7, <2>1 DEF NothingOld
  <2>3. net[k].left \in 0..MaxDelay
    BY UnderWay
  <2>4. EntryLeft' >= TTL + MaxDelay + 2 /\ TTL \in 0..TTL
    BY <1>1, <2>2, <2>3, Constants
  <2>5. Coming(TTL)'
    BY <1>7 DEF Coming
  <2> QED BY <1>4, <2>4, <2>5 DEF InTime, OutlivedByHandle
<1>8. \/ UNCHANGED deviceVars
      \/ handle' = NoHandle /\ loose' = loose \o Forgotten(handle.due)
         /\ UNCHANGED <<registered, retry>>
      \/ Success(net[k]) /\ known /\ handle' = [set |-> TRUE, due |-> TTL]
  BY DEF ReceiveResult, Success
<1> QED BY <1>4, <1>5, <1>6, <1>7, <1>8

LEMMA ReceiveRegistrationListed ==
    ASSUME ForeignTypeOK, ForeignTypeOK', Handles, NothingOld, InTime,
           NEW k \in 1..Len(net), ReceiveRegistration(k), refused' = 0
    PROVE  NothingOld' /\ InTime'
<1>0. /\ UNCHANGED <<deviceVars, clocked>> /\ net[k].type = "RegisterForeignDevice"
      /\ remain \in 0..(TTL + BBMDGrace) /\ refused \in Nat
      /\ net \in Seq(Datagram)
  BY Constants DEF ReceiveRegistration, ForeignTypeOK
<1>1. UNCHANGED <<known, registered, handle, retry, loose>>
  BY <1>0 DEF deviceVars
<1>2. CASE ~known
  BY <1>1, <1>2 DEF Handles, NothingOld, InTime
<1>3. CASE known
  <2>1. Request(net[k])
    BY <1>0, <1>3 DEF NothingOld, OfRegistration, Success
  <2>2. /\ remain' = TTL + BBMDGrace
        /\ net' = Append(Without(net, k), ResultFrom("bbmd", "OK"))
    BY <1>0, <2>1, Constants DEF ReceiveRegistration, Request, Remaining
  <2>3. EntryLeft' >= EntryLeft /\ EntryLeft' >= TTL + BBMDGrace /\ EntryLeft' \in Nat
    BY <1>0, <2>2, Constants DEF EntryLeft
  <2> DEFINE r == ResultFrom("bbmd", "OK")
             w == Without(net, k)
  <2>4. Success(r) /\ r.left = MaxDelay /\ r \in Datagram
    BY SentTypes DEF Success, ResultFrom
  <2>5. /\ w \in Seq(Datagram)
        /\ \A i \in 1..Len(w) : \E j \in 1..Len(net) : w[i] = net[j]
    BY <1>0, NetWithout
  <2> HIDE DEF r, w
  <2>6. \A i \in 1..Len(net') : net'[i] = r \/ \E j \in 1..Len(w) : net'[i] = w[j]
    BY <2>2, <2>4, <2>5, SendLemma DEF r, w
  <2>7. NothingOld'
    <3> SUFFICES ASSUME NEW i \in 1..Len(net'), OfRegistration(net'[i]), ~Request(net'[i])
                 PROVE  Success(net'[i]) /\ EntryLeft' >= TTL + BBMDGrace - MaxDelay + net'[i].left
      BY DEF NothingOld, Request, Success
    <3>1. CASE net'[i] = r
      <4>1. Success(net'[i]) /\ net'[i].left = MaxDelay
        BY <2>4, <3>1
      <4>2. TTL + BBMDGrace - MaxDelay + net'[i].left = TTL + BBMDGrace
        BY <4>1, Constants
      <4> QED BY <2>3, <4>1, <4>2
    <3>2. CASE net'[i] # r
      <4>1. PICK j \in 1..Len(net) : net'[i] = net[j]
        BY <2>5, <2>6, <3>2
      <4>2. Success(net[j]) /\ EntryLeft >= TTL + BBMDGrace - MaxDelay + net[j].left
        BY <1>3, <4>1 DEF NothingOld
      <4>3. net[j].left \in 0..MaxDelay
        BY UnderWay
      <4>4. EntryLeft \in Nat
        BY EntryLeftType
      <4>5. EntryLeft' >= EntryLeft /\ EntryLeft' \in Nat
        BY <2>3
      <4>6. EntryLeft' >= TTL + BBMDGrace - MaxDelay + net[j].left
        BY <4>2, <4>3, <4>4, <4>5, Constants
      <4> QED BY <4>1, <4>2, <4>6
    <3> QED BY <3>1, <3>2
  <2>8. InTime'
    <3> SUFFICES ASSUME registered' PROVE OutlivedByHandle'
      BY DEF InTime
    <3>1. PICK d \in 0..TTL : Coming(d)
      BY <1>1 DEF InTime, OutlivedByHandle, OutlivedByRequest
    <3>2. Coming(d)'
      BY <1>1, <3>1 DEF Coming
    <3>3. EntryLeft' >= d + MaxDelay + 2
      BY <2>3, Constants
    <3> QED BY <3>2, <3>3 DEF OutlivedByHandle
  <2> QED BY <2>7, <2>8
<1> QED BY <1>2, <1>3

LEMMA TickListed ==
    ASSUME ForeignTypeOK, ForeignTypeOK', NothingOld, InTime, Tick
    PROVE  NothingOld' /\ InTime'
<1>1. /\ UNCHANGED <<known, registered>>
      /\ EntryLeft' = EntryLeft - 1 /\ EntryLeft \in Nat
      /\ clocked /\ EntryLeft' \in Nat
  <2>1. clocked /\ ~clocked' /\ remain' = remain /\ UNCHANGED <<known, registered>>
    BY DEF Tick
  <2>2. remain \in Nat
    BY Constants DEF ForeignTypeOK
  <2> QED BY <2>1, <2>2 DEF EntryLeft
<1>2. /\ Len(net') = Len(net)
      /\ \A k \in 1..Len(net) : /\ net'[k].left = net[k].left - 1 /\ net[k].left > 0
                                /\ net[k].left \in 0..MaxDelay
                                /\ OfRegistration(net'[k]) => OfRegistration(net[k])
                                /\ Request(net[k]) => Request(net'[k])
                                /\ Success(net[k]) => Success(net'[k])
  BY TickLemma, UnderWay
<1>3. NothingOld'
  <2> SUFFICES ASSUME known', NEW i \in 1..Len(net'), OfRegistration(net'[i]), ~Request(net'[i])
               PROVE  Success(net'[i]) /\ EntryLeft' >= TTL + BBMDGrace - MaxDelay + net'[i].left
    BY DEF NothingOld, Request, Success
  <2>1. i \in 1..Len(net) /\ OfRegistration(net[i]) /\ ~Request(net[i])
    BY <1>2
  <2>2. Success(net[i]) /\ EntryLeft >= TTL + BBMDGrace - MaxDelay + net[i].left
    BY <1>1, <2>1 DEF NothingOld
  <2> QED BY <1>1, <1>2, <2>1, <2>2, Constants
<1>4. ASSUME NEW d \in 0..TTL, Coming(d)
      PROVE  d - 1 \in 0..TTL /\ Coming(d - 1)'
  <2>1. CASE handle.due = d
    <3>1. d # 0 /\ handle.due # Never /\ handle'.due = Sooner(handle.due)
      BY <2>1 DEF Tick, Never, ForeignTypeOK
    <3>2. handle'.due = d - 1 /\ d - 1 \in 0..TTL
      BY <2>1, <3>1, Constants DEF Sooner
    <3> QED BY <3>2 DEF Coming
  <2>2. CASE retry = d
    <3>1. d # 0 /\ retry # Never /\ retry' = Sooner(retry)
      BY <2>2 DEF Tick, Never
    <3>2. retry' = d - 1 /\ d - 1 \in 0..TTL
      BY <2>2, <3>1, Constants DEF Sooner
    <3> QED BY <3>2 DEF Coming
  <2>3. ASSUME NEW k \in 1..Len(loose), loose[k] = d PROVE d - 1 \in 0..TTL /\ Coming(d - 1)'
    <3>1. loose[k] # 0 /\ loose'[k] = d - 1 /\ k \in 1..Len(loose')
      BY <2>3, TickLemma
    <3>2. d - 1 \in 0..TTL
      BY <2>3, <3>1, Constants
    <3> QED BY <3>1, <3>2 DEF Coming
  <2> QED BY <1>4, <2>1, <2>2, <2>3 DEF Coming
<1>5. InTime'
  <2> SUFFICES ASSUME registered' PROVE OutlivedByHandle' \/ OutlivedByRequest'
    BY DEF InTime
  <2>1. CASE OutlivedByHandle
    <3>1. PICK d \in 0..TTL : Coming(d) /\ EntryLeft >= d + MaxDelay + 2
      BY <2>1 DEF OutlivedByHandle
    <3>2. d - 1 \in 0..TTL /\ Coming(d - 1)' /\ EntryLeft' >= (d - 1) + MaxDelay + 2
      BY <1>1, <1>4, <3>1, Constants
    <3> QED BY <3>2 DEF OutlivedByHandle
  <2>2. CASE OutlivedByRequest
    <3>1. PICK d \in 0..TTL : Coming(d)
      BY <2>2 DEF OutlivedByRequest
    <3>2. PICK k \in 1..Len(net) : Request(net[k]) /\ EntryLeft >= net[k].left + 2
      BY <2>2 DEF OutlivedByRequest
    <3>3. Request(net'[k]) /\ EntryLeft' >= net'[k].left + 2 /\ k \in 1..Len(net')
      BY <1>1, <1>2, <3>2, Constants
    <3> QED BY <1>4, <3>1, <3>3 DEF OutlivedByRequest
  <2> QED BY <1>1, <2>1, <2>2 DEF InTime
<1> QED BY <1>3, <1>5

LEMMA ListedStep ==
    ASSUME ForeignTypeOK, ForeignTypeOK', Handles, Listed, [ForeignNext]_foreignVars
    PROVE  Listed'
<1> SUFFICES ASSUME lost' = 0, refused' = 0, ~hasty' PROVE NothingOld' /\ InTime'
  BY DEF Listed
<1>1. lost = 0 /\ refused = 0 /\ ~hasty
  BY Monotone
<1>2. NothingOld /\ InTime
  BY <1>1 DEF Listed
<1>3. /\ net \in Seq(Datagram) /\ loose \in Seq(0..TTL)
      /\ handle.due \in Never..TTL /\ retry \in Never..TTL
  BY DEF ForeignTypeOK
<1>4. EntryLeft \in Nat
  BY EntryLeftType
<1>5. CASE Register
  <2>1. UNCHANGED <<net, retry, loose, registered, bbmdVars>>
    BY <1>5 DEF Register
  <2>2. EntryLeft' = EntryLeft
    BY <2>1 DEF EntryLeft, bbmdVars
  <2>3. ASSUME NEW d \in 0..TTL, Coming(d) PROVE Coming(d)'
    <3>1. handle.due = d => handle'.due = d
      BY <1>5 DEF Register, Handles, Never
    <3> QED BY <2>1, <2>3, <3>1 DEF Coming
  <2>4. RequestsStay
    BY <2>1 DEF RequestsStay
  <2>5. InTime'
    BY <1>2, <1>4, <2>1, <2>2, <2>3, <2>4, InTimeStable
  <2>6. NothingOld'
    <3>1. CASE handle.set
      BY <1>2, <1>5, <2>1, <2>2, <3>1 DEF Register, NothingOld, Handles
    <3>2. CASE ~handle.set
      BY <1>5, <2>1, <3>2 DEF Register, NothingOld
    <3> QED BY <3>1, <3>2
  <2> QED BY <2>5, <2>6
<1>6. CASE Unregister
  <2>1. EntryLeft' = EntryLeft
    BY <1>6 DEF Unregister, EntryLeft, bbmdVars
  <2>2. CASE UNCHANGED <<deviceVars, net>>
    BY <1>2, <2>1, <2>2 DEF NothingOld, InTime, OutlivedByHandle, OutlivedByRequest,
                            Coming, deviceVars
  <2>3. CASE ~known' /\ ~registered'
    BY <2>3 DEF NothingOld, InTime
  <2> QED BY <1>6, <2>2, <2>3 DEF Unregister
<1>7. CASE RegistrationDue
  <2>1. StartRegistration(loose, retry) /\ handle.due = 0
    BY <1>7 DEF RegistrationDue
  <2> QED BY <1>2, <1>3, <2>1, StartListed DEF Coming
<1>8. CASE RetryDue
  <2>1. StartRegistration(loose, Never) /\ retry = 0 /\ handle' = handle
    BY <1>8 DEF RetryDue
  <2>2. Never \in Never..TTL
    BY Constants DEF Never
  <2> QED BY <1>2, <1>3, <2>1, <2>2, StartListed DEF Coming
<1>9. CASE LooseDue
  <2>1. PICK k \in 1..Len(loose) : /\ loose[k] = 0
                                   /\ StartRegistration(Without(loose, k), retry)
                                   /\ handle' = handle
    BY <1>9 DEF LooseDue
  <2>2. /\ Without(loose, k) \in Seq(0..TTL)
        /\ \A j \in 1..Len(loose) : j # k =>
               \E i \in 1..Len(Without(loose, k)) : Without(loose, k)[i] = loose[j]
    BY <1>3, LooseWithout
  <2>3. ASSUME NEW d \in 0..TTL, Coming(d)
        PROVE  \/ d = 0
               \/ handle'.due = d
               \/ retry = d
               \/ \E i \in 1..Len(Without(loose, k)) : Without(loose, k)[i] = d
    BY <2>1, <2>2, <2>3 DEF Coming
  <2> QED BY <1>2, <1>3, <2>1, <2>2, <2>3, StartListed
<1>10. CASE RegistrationExpired
  <2>1. ~registered' /\ UNCHANGED <<known, net, bbmdVars>>
    BY <1>10 DEF RegistrationExpired
  <2>2. EntryLeft' = EntryLeft
    BY <2>1 DEF EntryLeft, bbmdVars
  <2> QED BY <1>2, <2>1, <2>2 DEF NothingOld, InTime
<1>11. ASSUME NEW k \in 1..Len(net), ReceiveResult(k) PROVE NothingOld' /\ InTime'
  BY <1>2, <1>11, ReceiveResultListed
<1>12. ASSUME NEW k \in 1..Len(net), ReceiveRegistration(k) PROVE NothingOld' /\ InTime'
  BY <1>2, <1>12, ReceiveRegistrationListed
<1>13. CASE FDTClock
  <2>1. UNCHANGED <<deviceVars, net>> /\ ~clocked /\ clocked' /\ remain' = CountedDown(remain)
    BY <1>13 DEF FDTClock
  <2>2. remain \in Nat
    BY Constants DEF ForeignTypeOK
  <2>3. EntryLeft >= 2 => EntryLeft' >= EntryLeft
    BY <2>1, <2>2 DEF EntryLeft, CountedDown
  <2>4. UNCHANGED <<known, registered, handle, retry, loose>>
    BY <2>1 DEF deviceVars
  <2>5. NothingOldComes /\ RequestsStay /\ \A d \in 0..TTL : Coming(d) => Coming(d)'
    BY <2>1, <2>4 DEF NothingOldComes, RequestsStay, Coming
  <2> QED BY <1>2, <2>3, <2>4, <2>5, NothingOldStable, InTimeStable
<1>14. ASSUME NEW k \in 1..Len(net), Lose(k) PROVE NothingOld' /\ InTime'
  <2>1. net[k].type = "Result" /\ net' = Without(net, k) /\ UNCHANGED <<deviceVars, bbmdVars>>
    BY <1>1, <1>14 DEF Lose
  <2>2. /\ \A i \in 1..Len(net') : \E j \in 1..Len(net) : net'[i] = net[j]
        /\ \A j \in 1..Len(net) : j # k => \E i \in 1..Len(net') : net'[i] = net[j]
    BY <1>3, <2>1, NetWithout
  <2>3. ~Request(net[k])
    BY <2>1 DEF Request
  <2>4. UNCHANGED <<known, registered, handle, retry, loose, remain, clocked>>
    BY <2>1 DEF deviceVars, bbmdVars
  <2>5. NothingOldComes /\ RequestsStay /\ \A d \in 0..TTL : Coming(d) => Coming(d)'
    BY <2>2, <2>3, <2>4 DEF NothingOldComes, RequestsStay, Coming
  <2>6. EntryLeft' = EntryLeft
    BY <2>4 DEF EntryLeft
  <2> QED BY <1>2, <1>4, <2>4, <2>5, <2>6, NothingOldStable, InTimeStable
<1>15. CASE StrayResult
  <2>1. /\ net' = Append(net, ResultFrom("another", "refused"))
        /\ UNCHANGED <<deviceVars, bbmdVars>>
    BY <1>15 DEF StrayResult
  <2>2. /\ ResultFrom("another", "refused") \in Datagram
        /\ ~OfRegistration(ResultFrom("another", "refused"))
    BY SentTypes DEF ResultFrom, OfRegistration
  <2>3. /\ \A i \in 1..Len(net') : \/ net'[i] = ResultFrom("another", "refused")
                                   \/ \E j \in 1..Len(net) : net'[i] = net[j]
        /\ \A j \in 1..Len(net) : \E i \in 1..Len(net') : net'[i] = net[j]
    BY <2>1, <2>2, SendDatagram
  <2>5. UNCHANGED <<known, registered, handle, retry, loose, remain, clocked>>
    BY <2>1 DEF deviceVars, bbmdVars
  <2>6. NothingOldComes /\ RequestsStay /\ \A d \in 0..TTL : Coming(d) => Coming(d)'
    BY <2>2, <2>3, <2>5 DEF NothingOldComes, RequestsStay, Coming
  <2>7. EntryLeft' = EntryLeft
    BY <2>5 DEF EntryLeft
  <2> QED BY <1>2, <1>4, <2>5, <2>6, <2>7, NothingOldStable, InTimeStable
<1>16. CASE Tick
  BY <1>2, <1>16, TickListed
<1>17. CASE UNCHANGED foreignVars
  BY <1>2, <1>17 DEF NothingOld, InTime, OutlivedByHandle, OutlivedByRequest, Coming,
                     EntryLeft, foreignVars, deviceVars, bbmdVars
<1> QED BY <1>5, <1>6, <1>7, <1>8, <1>9, <1>10, <1>11, <1>12, <1>13, <1>14, <1>15,
           <1>16, <1>17 DEF ForeignNext, DeviceStep, BBMDStep

-----------------------------------------------------------------------------
(* There is one renewal to come, and it goes on.                           *)

LEMMA OursStep ==
    ASSUME ForeignTypeOK, Ours, [ForeignNext]_foreignVars
    PROVE  Ours'
<1> SUFFICES ASSUME strays' = 0, NEW i \in 1..Len(net') PROVE OfRegistration(net'[i])
  BY DEF Ours
<1>1. \A k \in 1..Len(net) : OfRegistration(net[k])
  BY Monotone DEF Ours
<1>2. net \in Seq(Datagram) /\ strays \in Nat
  BY Constants DEF ForeignTypeOK
<1>3. /\ OfRegistration(Registration(TTL)) /\ OfRegistration(Registration(0))
      /\ \A code \in {"OK", "refused"} : OfRegistration(ResultFrom("bbmd", code))
  BY DEF OfRegistration, Registration, ResultFrom
<1>4. ASSUME UNCHANGED net PROVE OfRegistration(net'[i])
  BY <1>1, <1>4
<1>5. ASSUME NEW m \in Datagram, OfRegistration(m), net' = Append(net, m)
      PROVE  OfRegistration(net'[i])
  BY <1>1, <1>5, SendDatagram
<1>6. ASSUME NEW k \in 1..Len(net), net' = Without(net, k)
      PROVE  OfRegistration(net'[i])
  <2>1. \E j \in 1..Len(net) : net'[i] = net[j]
    BY <1>2, <1>6, NetWithout
  <2> QED BY <1>1, <2>1
<1>7. CASE Unregister
  <2>1. UNCHANGED net \/ net' = Append(net, Registration(0))
    BY <1>7 DEF Unregister
  <2> QED BY <1>3, <1>4, <1>5, <2>1, SentTypes
<1>8. CASE RegistrationDue \/ RetryDue \/ LooseDue
  <2>1. UNCHANGED net \/ net' = Append(net, Registration(TTL))
    BY <1>8 DEF RegistrationDue, RetryDue, LooseDue, StartRegistration
  <2> QED BY <1>3, <1>4, <1>5, <2>1, SentTypes
<1>9. CASE Register \/ RegistrationExpired \/ FDTClock \/ UNCHANGED foreignVars
  BY <1>4, <1>9 DEF Register, RegistrationExpired, FDTClock, foreignVars
<1>10. ASSUME NEW k \in 1..Len(net), ReceiveResult(k) \/ Lose(k)
       PROVE  OfRegistration(net'[i])
  BY <1>6, <1>10 DEF ReceiveResult, Lose
<1>11. ASSUME NEW k \in 1..Len(net), ReceiveRegistration(k)
       PROVE  OfRegistration(net'[i])
  <2>1. /\ Without(net, k) \in Seq(Datagram)
        /\ \A n \in 1..Len(Without(net, k)) :
               \E j \in 1..Len(net) : Without(net, k)[n] = net[j]
    BY <1>2, NetWithout
  <2>2. PICK code \in {"OK", "refused"} :
            net' = Append(Without(net, k), ResultFrom("bbmd", code))
    BY <1>11 DEF ReceiveRegistration
  <2> DEFINE r == ResultFrom("bbmd", code)
             w == Without(net, k)
  <2>3. r \in Datagram /\ OfRegistration(r)
    BY <1>3, SentTypes
  <2>4. /\ w \in Seq(Datagram)
        /\ \A n \in 1..Len(w) : \E j \in 1..Len(net) : w[n] = net[j]
    BY <2>1
  <2> HIDE DEF r, w
  <2>5. net'[i] = r \/ \E j \in 1..Len(w) : net'[i] = w[j]
    BY <2>2, <2>3, <2>4, SendLemma DEF r, w
  <2> QED BY <1>1, <2>3, <2>4, <2>5
<1>12. CASE StrayResult
  BY <1>2, <1>12 DEF StrayResult
<1>13. CASE Tick
  <2>1. /\ Len(net') = Len(net)
        /\ \A k \in 1..Len(net) : OfRegistration(net[k]) => OfRegistration(net'[k])
    BY <1>13, TickLemma
  <2> QED BY <1>1, <2>1
<1> QED BY <1>7, <1>8, <1>9, <1>10, <1>11, <1>12, <1>13
        DEF ForeignNext, DeviceStep, BBMDStep

\* While a registration is tracked what is under way is awaited, alone.
LEMMA OneUnderWay ==
    ASSUME ForeignTypeOK, Handles, Renewal, handle.set, NEW k \in 1..Len(net)
    PROVE  /\ Len(net) = 1 /\ k = 1 /\ Awaited(net[k], retry)
           /\ handle.due = Never /\ retry # Never /\ status # "unregistered"
           /\ Without(net, k) = << >>
<1>1. net \in Seq(Datagram) /\ net # << >>
  BY DEF ForeignTypeOK
<1>2. Len(net) = 1 /\ Awaited(net[1], retry)
  BY <1>1 DEF Renewal
<1>3. Without(net, k) \in Seq(Datagram) /\ Len(Without(net, k)) = 0
  BY <1>1, <1>2, WithoutLemma
<1>4. Without(net, k) = << >>
  BY <1>3, EmptySeq
<1> QED BY <1>1, <1>2, <1>4 DEF Renewal

LEMMA AwaitedRetry ==
    ASSUME ForeignTypeOK, NEW m \in Datagram, Awaited(m, retry)
    PROVE  retry \in Nat /\ retry > m.left /\ retry > 0
<1>1. m.left \in 0..MaxDelay /\ retry \in Int
  <2>1. retry \in Never..TTL
    BY DEF ForeignTypeOK
  <2>2. retry \in Int
    BY <2>1, Constants DEF Never
  <2> QED BY <2>2, DatagramShape
<1> QED BY <1>1, Constants DEF Awaited

\* A device without a handle has nothing to come.
LEMMA SingleStopped ==
    ASSUME loose' = << >>, handle' = NoHandle, retry' = Never, expiry' = Never
    PROVE  loose' = << >> /\ Renewal' /\ Postponed'
BY DEF Renewal, Postponed, NoHandle, Never

LEMMA SingleIdle ==
    ASSUME UNCHANGED deviceVars, loose = << >>, Handles, Renewal, ~handle.set
    PROVE  loose' = << >> /\ Renewal' /\ Postponed'
BY DEF Renewal, Postponed, Handles, deviceVars

LEMMA BearableBefore ==
    ASSUME ForeignTypeOK, [ForeignNext]_foreignVars
    PROVE  /\ Undisturbed' => Undisturbed
           /\ Bearable' => Bearable
<1>1. Undisturbed' => Undisturbed
  BY Monotone DEF Undisturbed
<1>2. (lost' + 1) * NextAttempt =< Grace => (lost + 1) * NextAttempt =< Grace
  <2>1. lost \in Nat /\ lost + 1 \in Nat
    BY Constants DEF ForeignTypeOK
  <2>2. lost' = lost \/ lost' = lost + 1
    BY Monotone
  <2>3. (lost + 1 + 1) * NextAttempt = (lost + 1) * NextAttempt + NextAttempt
        /\ (lost + 1) * NextAttempt \in Nat
    BY <2>1, Product
  <2>4. CASE lost' = lost
    BY <2>4
  <2>5. CASE lost' = lost + 1
    BY <2>3, <2>5, Constants
  <2> QED BY <2>2, <2>4, <2>5
<1> QED BY <1>1, <1>2 DEF Bearable

\* The attempt that is made now is alone, and the next is set.
LEMMA StartSingle ==
    ASSUME ForeignTypeOK, Handles, loose = << >>, Postponed, net = << >>, handle.set,
           StartRegistration(loose, Never),
           handle'.set, handle'.due = Never,
           expiry # Never => expiry + lost * NextAttempt >= Grace
    PROVE  loose' = << >> /\ Renewal' /\ Postponed'
<1>1. /\ net' = Append(net, Registration(TTL)) /\ retry' = NextAttempt
      /\ loose' = loose \o Forgotten(Never) /\ UNCHANGED <<expiry, lost>>
      /\ status' # "unregistered"
  BY DEF StartRegistration, Handles, counters
<1>2. loose' = << >>
  <2>1. loose \in Seq(0..TTL) /\ Never \in Never..TTL
    BY Constants DEF ForeignTypeOK, Never
  <2> QED BY <1>1, <2>1, ForgottenLemma
<1>3. Len(net') = 1 /\ net'[1] = Registration(TTL) /\ net' # << >>
  BY <1>1
<1>4. Awaited(Registration(TTL), retry')
  <2>1. Request(Registration(TTL)) /\ Registration(TTL).left = MaxDelay
    BY DEF Request, Registration
  <2> QED BY <1>1, <2>1, Constants DEF Awaited
<1>5. Renewal'
  <2>1. retry' # Never
    BY <1>1, Constants DEF Never
  <2> QED BY <1>1, <1>3, <1>4, <2>1 DEF Renewal, Awaited
<1>6. Postponed'
  <2>1. lost \in Nat /\ expiry \in Int
    BY Constants DEF ForeignTypeOK, Never
  <2>2. lost * NextAttempt \in Nat
    BY <2>1, Product
  <2>3. expiry # Never => expiry + lost * NextAttempt + NextAttempt >= Grace + NextAttempt
    BY <2>1, <2>2, Constants
  <2> QED BY <1>1, <1>3, <2>3 DEF Postponed
<1> QED BY <1>2, <1>5, <1>6

LEMMA TickSingle ==
    ASSUME ForeignTypeOK, Handles, loose = << >>, Renewal, Postponed, Tick
    PROVE  loose' = << >> /\ Renewal' /\ Postponed'
<1>0. /\ handle \in [set : BOOLEAN, due : Never..TTL] /\ handle.due # 0
      /\ retry \in Never..TTL /\ retry # 0
      /\ expiry \in Never..(TTL + Grace) /\ expiry # 0
      /\ lost \in Nat /\ net \in Seq(Datagram)
  BY Constants DEF Tick, ForeignTypeOK
<1>1. /\ handle' = [handle EXCEPT !.due = Sooner(@)] /\ retry' = Sooner(retry)
      /\ expiry' = Sooner(expiry) /\ UNCHANGED <<status, lost>>
  BY DEF Tick, counters
<1>2. /\ handle'.set = handle.set
      /\ handle.due = Never => handle'.due = Never
      /\ handle.due # Never => handle'.due = handle.due - 1 /\ handle.due > 0
  <2>1. handle'.set = handle.set /\ handle'.due = Sooner(handle.due)
    BY <1>0, <1>1
  <2>2. handle.due \in Never..TTL
    BY <1>0
  <2> QED BY <1>0, <2>1, <2>2, SoonerLemma, Constants DEF Never
<1>3. /\ retry = Never => retry' = Never
      /\ retry # Never => retry' = retry - 1 /\ retry > 0
      /\ expiry = Never => expiry' = Never
      /\ expiry # Never => expiry' = expiry - 1 /\ expiry > 0
  <2>1. /\ retry = Never => retry' = Never
        /\ retry # Never => retry' = retry - 1 /\ retry > 0
    <3>1. retry \in Never..TTL /\ retry # 0
      BY <1>0
    <3>2. /\ retry = Never => Sooner(retry) = Never
          /\ retry # Never => Sooner(retry) = retry - 1 /\ Sooner(retry) \in 0..TTL
      BY <3>1, SoonerLemma
    <3> QED BY <1>1, <3>1, <3>2, Constants DEF Never
  <2>2. /\ expiry = Never => expiry' = Never
        /\ expiry # Never => expiry' = expiry - 1
    BY <1>1 DEF Sooner
  <2>3. expiry # Never => expiry > 0
    BY <1>0, Constants DEF Never
  <2> QED BY <2>1, <2>2, <2>3
<1>4. /\ loose' = << >>
      /\ net = << >> => net' = << >>
      /\ Len(net') = Len(net) /\ net' \in Seq(Datagram)
  BY TickLemma
<1>5. net' = << >> => net = << >>
  BY <1>0, <1>4, EmptySeq
<1>6. lost * NextAttempt \in Nat
  BY <1>0, Product
<1>7. Renewal'
  <2>1. ~handle'.set => retry' = Never /\ expiry' = Never
    BY <1>2, <1>3 DEF Renewal
  <2>2. handle'.due # Never => net' = << >> /\ retry' = Never
    BY <1>2, <1>3, <1>4 DEF Renewal
  <2>3. handle'.set /\ handle'.due = Never => retry' # Never /\ status' # "unregistered"
    <3>1. handle.due # Never => handle'.due # Never
      BY <1>0, <1>2, Constants DEF Never
    <3>2. retry # Never => retry' # Never
      BY <1>0, <1>3, Constants DEF Never
    <3> QED BY <1>1, <1>2, <3>1, <3>2 DEF Renewal
  <2>4. ASSUME handle'.set, net' # << >> PROVE Len(net') = 1 /\ Awaited(net'[1], retry')
    <3>1. handle.set /\ 1 \in 1..Len(net)
      BY <1>0, <1>2, <1>4, <2>4, EmptySeq
    <3>2. Len(net) = 1 /\ Awaited(net[1], retry) /\ retry # Never
      BY <3>1, OneUnderWay
    <3>3. net'[1].left = net[1].left - 1 /\ net[1].left \in 0..MaxDelay
          /\ (Request(net[1]) => Request(net'[1])) /\ (Success(net[1]) => Success(net'[1]))
      BY <3>1, TickLemma, UnderWay
    <3> DEFINE m == net[1]
               n == net'[1]
    <3>4. \/ Request(n) /\ retry - 1 >= n.left + NextAttempt - MaxDelay
          \/ Success(n) /\ retry - 1 >= n.left + NextAttempt - 2 * MaxDelay
      <4>1. retry \in Nat /\ NextAttempt \in Nat /\ MaxDelay \in Nat
        BY <1>0, <3>2, Constants DEF Never
      <4>2. CASE Request(m) /\ retry >= m.left + NextAttempt - MaxDelay
        BY <3>3, <4>1, <4>2
      <4>3. CASE Success(m) /\ retry >= m.left + NextAttempt - 2 * MaxDelay
        BY <3>3, <4>1, <4>3
      <4> QED BY <3>2, <4>2, <4>3 DEF Awaited
    <3> QED BY <1>3, <1>4, <3>2, <3>4 DEF Awaited
  <2> QED BY <2>1, <2>2, <2>3, <2>4 DEF Renewal, Awaited, Request, Success
<1>8. Postponed'
  <2> DEFINE L == lost * NextAttempt
  <2>1. L \in Nat /\ lost' * NextAttempt = L
    BY <1>1, <1>6
  <2> HIDE DEF L
  <2> SUFFICES ASSUME expiry' # Never
               PROVE  /\ handle'.due # Never => expiry' + L >= Grace + handle'.due
                      /\ handle'.due = Never /\ net' = << >> => expiry' + L >= Grace + retry'
                      /\ net' # << >> => expiry' + L + NextAttempt >= Grace + retry'
    BY <2>1 DEF Postponed
  <2>2. expiry # Never /\ expiry' = expiry - 1 /\ handle.set
    BY <1>3 DEF Renewal
  <2>3. /\ handle.due # Never => expiry + L >= Grace + handle.due
        /\ handle.due = Never /\ net = << >> => expiry + L >= Grace + retry
        /\ net # << >> => expiry + L + NextAttempt >= Grace + retry
    BY <2>2 DEF Postponed, L
  <2>4. ASSUME handle'.due # Never PROVE expiry' + L >= Grace + handle'.due
    <3>1. handle.due # Never /\ handle'.due = handle.due - 1
      BY <1>2, <2>4
    <3> QED BY <1>0, <2>1, <2>2, <2>3, <3>1, Constants DEF Never
  <2>5. ASSUME handle'.due = Never, net' = << >> PROVE expiry' + L >= Grace + retry'
    <3>1. handle.due = Never
      BY <1>0, <1>2, <2>5, Constants DEF Never
    <3>2. net = << >> /\ retry' = retry - 1
      BY <1>3, <1>5, <2>2, <2>5, <3>1 DEF Renewal
    <3> QED BY <1>0, <2>1, <2>2, <2>3, <3>1, <3>2, Constants DEF Never
  <2>6. ASSUME net' # << >> PROVE expiry' + L + NextAttempt >= Grace + retry'
    <3>1. net # << >> /\ handle.due = Never
      BY <1>4, <2>6 DEF Renewal
    <3>2. retry' = retry - 1
      BY <1>3, <2>2, <3>1 DEF Renewal
    <3> QED BY <1>0, <2>1, <2>2, <2>3, <3>1, <3>2, Constants DEF Never
  <2> QED BY <2>4, <2>5, <2>6
<1> QED BY <1>4, <1>7, <1>8

LEMMA ReceiveSingle ==
    ASSUME ForeignTypeOK, Handles, Undisturbed', loose = << >>, Renewal, Postponed,
           NEW k \in 1..Len(net), ReceiveResult(k) \/ ReceiveRegistration(k)
    PROVE  loose' = << >> /\ Renewal' /\ Postponed'
<1>0. /\ net \in Seq(Datagram) /\ net[k] \in Datagram
      /\ expiry \in Never..(TTL + Grace) /\ lost \in Nat /\ refused \in Nat
      /\ loose \in Seq(0..TTL)
  BY UnderWay, Constants DEF ForeignTypeOK
<1>1. CASE ~handle.set
  <2>1. UNCHANGED deviceVars
    BY <1>1 DEF ReceiveResult, ReceiveRegistration
  <2> QED BY <1>1, <2>1, SingleIdle
<1>2. CASE handle.set
  <2>1. /\ Len(net) = 1 /\ k = 1 /\ Awaited(net[k], retry)
        /\ handle.due = Never /\ retry # Never /\ status # "unregistered"
        /\ Without(net, k) = << >>
    BY <1>2, OneUnderWay
  <2>2. retry \in Nat /\ retry > net[k].left /\ net[k].left \in 0..MaxDelay
    BY <1>0, <2>1, AwaitedRetry, UnderWay
  <2>3. CASE ReceiveResult(k)
    <3>1. net' = << >> /\ net[k].type = "Result" /\ Len(loose) < MaxLoose
          /\ loose' = loose \o Forgotten(handle.due) /\ UNCHANGED lost
      BY <1>2, <2>1, <2>3 DEF ReceiveResult, counters
    <3>2. net[k].source = "bbmd" /\ net[k].code = "OK"
      BY <2>1, <3>1 DEF Awaited, Request, Success
    <3>3. /\ handle' = [set |-> TRUE, due |-> TTL] /\ retry' = Never
          /\ expiry' = TTL + Grace
      BY <1>2, <2>1, <2>3, <3>2 DEF ReceiveResult, Handles, Stopped
    <3>4. loose' = << >>
      <4>1. Never \in Never..TTL
        BY Constants DEF Never
      <4> QED BY <1>0, <2>1, <3>1, <4>1, ForgottenLemma
    <3>5. Renewal'
      BY <3>1, <3>3, Constants DEF Renewal, Never
    <3>6. Postponed'
      <4>1. lost * NextAttempt \in Nat
        BY <1>0, Product
      <4>2. (TTL + Grace) + lost * NextAttempt >= Grace + TTL
        BY <4>1, Constants
      <4>3. handle'.due = TTL /\ TTL # Never
        BY <3>3, Constants DEF Never
      <4> QED BY <3>1, <3>3, <4>2, <4>3 DEF Postponed
    <3> QED BY <3>4, <3>5, <3>6
  <2>4. CASE ReceiveRegistration(k)
    <3>1. UNCHANGED <<status, handle, retry, expiry, loose, lost>>
      BY <2>4 DEF ReceiveRegistration, deviceVars
    <3>2. Request(net[k]) /\ retry >= net[k].left + NextAttempt - MaxDelay
      BY <2>1, <2>4 DEF ReceiveRegistration, Awaited, Success
    <3>3. net' = Append(<< >>, ResultFrom("bbmd", "OK"))
      BY <1>0, <2>1, <2>4, <3>2, Constants DEF ReceiveRegistration, Undisturbed, Request
    <3>4. /\ Len(net') = 1 /\ net' # << >> /\ net'[1] = ResultFrom("bbmd", "OK")
      BY <3>3
    <3>5. Awaited(ResultFrom("bbmd", "OK"), retry)
      <4>1. Success(ResultFrom("bbmd", "OK")) /\ ResultFrom("bbmd", "OK").left = MaxDelay
        BY DEF Success, ResultFrom
      <4> QED BY <2>2, <3>2, <4>1, Constants DEF Awaited
    <3>6. net # << >>
      BY <1>0
    <3>7. Renewal'
      BY <1>2, <2>1, <3>1, <3>4, <3>5 DEF Renewal, Awaited, Request, Success
    <3>8. Postponed'
      BY <2>1, <3>1, <3>4, <3>6 DEF Postponed
    <3> QED BY <3>1, <3>7, <3>8
  <2> QED BY <2>3, <2>4
<1> QED BY <1>1, <1>2

LEMMA LoseSingle ==
    ASSUME ForeignTypeOK, Handles, loose = << >>, Renewal, Postponed,
           NEW k \in 1..Len(net), Lose(k)
    PROVE  loose' = << >> /\ Renewal' /\ Postponed'
<1>0. UNCHANGED deviceVars /\ net' = Without(net, k) /\ lost' = lost + 1
  <2>1. ~(Len(loose) >= MaxLoose)
    BY Constants
  <2> QED BY <2>1 DEF Lose
<1>1. CASE ~handle.set
  BY <1>0, <1>1, SingleIdle
<1>2. CASE handle.set
  <2>1. /\ handle.due = Never /\ retry # Never /\ status # "unregistered"
        /\ net' = << >> /\ net # << >>
    <3>1. net \in Seq(Datagram)
      BY DEF ForeignTypeOK
    <3> QED BY <1>0, <1>2, <3>1, OneUnderWay
  <2>2. UNCHANGED <<status, handle, retry, expiry, loose>>
    BY <1>0 DEF deviceVars
  <2>3. Renewal'
    BY <1>2, <2>1, <2>2 DEF Renewal
  <2>4. Postponed'
    <3>1. lost \in Nat /\ expiry \in Int
      <4>1. expiry \in Never..(TTL + Grace) /\ lost \in 0..MaxLost
        BY DEF ForeignTypeOK
      <4> QED BY <4>1, Constants DEF Never
    <3>2. (lost + 1) * NextAttempt = lost * NextAttempt + NextAttempt
          /\ lost * NextAttempt \in Nat
      BY <3>1, Product
    <3>3. expiry # Never => expiry + (lost * NextAttempt + NextAttempt) >= Grace + retry
      BY <2>1, <3>1, <3>2, Constants DEF Postponed
    <3> QED BY <1>0, <2>1, <2>2, <3>2, <3>3 DEF Postponed
  <2> QED BY <2>2, <2>3, <2>4
<1> QED BY <1>1, <1>2

\* A registration does not expire that nothing but bearable loss has met.
LEMMA NotExpired ==
    ASSUME ForeignTypeOK, Handles, Bearable, Renewal, Postponed, handle.set
    PROVE  expiry # 0
<1> SUFFICES ASSUME expiry = 0 PROVE FALSE
  OBVIOUS
<1> DEFINE L == lost * NextAttempt
<1>1. lost \in Nat /\ retry \in Never..TTL /\ handle.due \in Never..TTL
      /\ net \in Seq(Datagram)
  BY Constants DEF ForeignTypeOK
<1>2. L \in Nat /\ L + NextAttempt =< Grace
  BY <1>1, Product DEF Bearable
<1>3. /\ handle.due # Never => L >= Grace + handle.due
      /\ handle.due = Never /\ net = << >> => L >= Grace + retry
      /\ net # << >> => L + NextAttempt >= Grace + retry
  BY <1>2 DEF Postponed, Never
<1> HIDE DEF L
<1>4. CASE handle.due # Never
  BY <1>1, <1>2, <1>3, <1>4, Constants DEF Never
<1>5. CASE handle.due = Never /\ net = << >>
  <2>1. retry # Never
    BY <1>5 DEF Renewal
  <2> QED BY <1>1, <1>2, <1>3, <1>5, <2>1, Constants DEF Never
<1>6. CASE net # << >>
  <2>1. 1 \in 1..Len(net)
    BY <1>1, <1>6, EmptySeq
  <2>2. Awaited(net[1], retry) /\ net[1] \in Datagram
    BY <2>1, OneUnderWay, UnderWay
  <2>3. retry \in Nat /\ retry > 0
    BY <2>2, AwaitedRetry
  <2> QED BY <1>2, <1>3, <1>6, <2>3, Constants
<1> QED BY <1>4, <1>5, <1>6

LEMMA SingleStep ==
    ASSUME ForeignTypeOK, ForeignTypeOK', Handles, Ours, Single, [ForeignNext]_foreignVars
    PROVE  Undisturbed' => loose' = << >> /\ Renewal' /\ Postponed'
<1> SUFFICES ASSUME Undisturbed' PROVE loose' = << >> /\ Renewal' /\ Postponed'
  OBVIOUS
<1>1. Undisturbed /\ loose = << >> /\ Renewal /\ Postponed
  BY BearableBefore DEF Single
<1>2. /\ net \in Seq(Datagram) /\ retry \in Never..TTL /\ expiry \in Never..(TTL + Grace)
      /\ lost \in Nat /\ strays \in Nat
  BY Constants DEF ForeignTypeOK
<1>3. CASE Register
  <2>1. UNCHANGED <<status, retry, expiry, loose, net, lost>>
    BY <1>3 DEF Register
  <2>2. CASE handle.set
    <3>1. UNCHANGED handle
      BY <1>3, <2>2 DEF Register
    <3> QED BY <1>1, <2>1, <3>1 DEF Renewal, Postponed, Awaited, Request, Success
  <2>3. CASE ~handle.set
    <3>1. net = << >>
      <4>1. \A k \in 1..Len(net) : OfRegistration(net[k])
        BY <1>1 DEF Ours, Undisturbed
      <4>2. ~\E k \in 1..Len(net) : OfRegistration(net[k])
        BY <1>3, <2>3 DEF Register, Undisturbed
      <4>3. Len(net) = 0
        <5>1. Len(net) \in Nat /\ ~(1 \in 1..Len(net))
          BY <1>2, <4>1, <4>2
        <5> QED BY <5>1
      <4> QED BY <1>2, <4>3, EmptySeq
    <3>2. handle' = [set |-> TRUE, due |-> 0] /\ retry = Never /\ expiry = Never
      BY <1>1, <1>3, <2>3 DEF Register, Renewal
    <3> QED BY <1>1, <2>1, <3>1, <3>2 DEF Renewal, Postponed, Never
  <2> QED BY <2>2, <2>3
<1>4. CASE Unregister
  <2>1. CASE UNCHANGED <<deviceVars, net>>
    <3>1. UNCHANGED lost
      BY <1>4 DEF Unregister
    <3> QED BY <1>1, <2>1, <3>1 DEF deviceVars, Renewal, Postponed, Awaited, Request, Success
  <2>2. CASE handle' = NoHandle /\ retry' = Never /\ expiry' = Never /\ UNCHANGED loose
    BY <1>1, <2>2, SingleStopped
  <2> QED BY <1>4, <2>1, <2>2 DEF Unregister, Stopped
<1>5. CASE RegistrationDue
  <2>1. /\ handle.due = 0 /\ handle' = [handle EXCEPT !.due = Never]
        /\ StartRegistration(loose, retry)
    BY <1>5 DEF RegistrationDue
  <2>2. handle.due # Never /\ handle.set
    BY <2>1 DEF Handles, Never
  <2>3. net = << >> /\ retry = Never
    BY <1>1, <2>2 DEF Renewal
  <2>4. handle'.set /\ handle'.due = Never
    BY <2>1, <2>2 DEF ForeignTypeOK
  <2>5. expiry # Never => expiry + lost * NextAttempt >= Grace
    BY <1>1, <2>1, <2>2, Constants DEF Postponed
  <2> QED BY <1>1, <2>1, <2>2, <2>3, <2>4, <2>5, StartSingle
<1>6. CASE RetryDue
  <2>1. retry = 0 /\ StartRegistration(loose, Never) /\ UNCHANGED handle
    BY <1>6 DEF RetryDue
  <2>2. handle.set /\ handle.due = Never
    BY <1>1, <2>1 DEF Renewal, Never
  <2>3. net = << >>
    <3> SUFFICES ASSUME net # << >> PROVE FALSE
      OBVIOUS
    <3>1. 1 \in 1..Len(net)
      BY <1>2, EmptySeq
    <3>2. Awaited(net[1], retry) /\ net[1] \in Datagram
      BY <1>1, <2>2, <3>1, OneUnderWay, UnderWay
    <3> QED BY <2>1, <3>2, AwaitedRetry
  <2>4. expiry # Never => expiry + lost * NextAttempt >= Grace
    <3>1. lost * NextAttempt \in Nat
      BY <1>2, Product
    <3> QED BY <1>1, <2>1, <2>2, <2>3, <3>1, Constants DEF Postponed
  <2> QED BY <1>1, <2>1, <2>2, <2>3, <2>4, StartSingle
<1>7. CASE LooseDue
  BY <1>1, <1>7 DEF LooseDue
<1>8. CASE RegistrationExpired
  BY <1>1, <1>8, SingleStopped DEF RegistrationExpired, Stopped
<1>9. ASSUME NEW k \in 1..Len(net), ReceiveResult(k) \/ ReceiveRegistration(k)
      PROVE  loose' = << >> /\ Renewal' /\ Postponed'
  BY <1>1, <1>9, ReceiveSingle
<1>10. ASSUME NEW k \in 1..Len(net), Lose(k)
       PROVE  loose' = << >> /\ Renewal' /\ Postponed'
  BY <1>1, <1>10, LoseSingle
<1>11. CASE StrayResult
  BY <1>2, <1>11 DEF StrayResult, Undisturbed
<1>12. CASE Tick
  BY <1>1, <1>12, TickSingle
<1>13. CASE FDTClock \/ UNCHANGED foreignVars
  <2>1. UNCHANGED <<status, handle, retry, expiry, loose, net, lost>>
    BY <1>13 DEF FDTClock, foreignVars, deviceVars, counters
  <2> QED BY <1>1, <2>1 DEF Renewal, Postponed, Awaited, Request, Success
<1> QED BY <1>3, <1>4, <1>5, <1>6, <1>7, <1>8, <1>9, <1>10, <1>11, <1>12, <1>13
        DEF ForeignNext, DeviceStep, BBMDStep

LEMMA WantedStep ==
    ASSUME ForeignTypeOK, Handles, Single, [ForeignNext]_foreignVars,
           Bearable', wanted'
    PROVE  handle'.set
<1>1. Bearable /\ Renewal /\ Postponed
  BY BearableBefore DEF Single, Bearable
<1>2. CASE Register
  BY <1>2 DEF Register
<1>3. CASE Unregister
  BY <1>3 DEF Unregister
<1>4. ASSUME UNCHANGED wanted PROVE handle.set
  BY <1>1, <1>4 DEF Single
<1>5. handle \in [set : BOOLEAN, due : Never..TTL]
  BY DEF ForeignTypeOK
<1>6. CASE RegistrationDue \/ RetryDue \/ LooseDue
  <2>1. UNCHANGED wanted
    BY <1>6 DEF RegistrationDue, RetryDue, LooseDue, StartRegistration, counters
  <2> QED BY <1>4, <1>5, <1>6, <2>1 DEF RegistrationDue, RetryDue, LooseDue
<1>7. CASE RegistrationExpired
  <2>1. UNCHANGED wanted /\ expiry = 0
    BY <1>7 DEF RegistrationExpired, counters
  <2> QED BY <1>1, <1>4, <2>1, NotExpired
<1>8. ASSUME NEW k \in 1..Len(net), ReceiveResult(k) PROVE handle'.set
  <2>1. UNCHANGED wanted /\ net[k].type = "Result"
    BY <1>8 DEF ReceiveResult, counters
  <2>2. handle.set /\ known
    BY <1>4, <2>1 DEF Handles
  <2>3. Success(net[k])
    BY <1>1, <2>1, <2>2, OneUnderWay DEF Awaited, Request
  <2>4. handle' = handle \/ handle' = [set |-> TRUE, due |-> TTL]
    BY <1>8, <2>2, <2>3 DEF ReceiveResult, Success, deviceVars
  <2> QED BY <2>2, <2>4
<1>9. ASSUME NEW k \in 1..Len(net), ReceiveRegistration(k) \/ Lose(k) PROVE handle'.set
  <2>1. UNCHANGED <<wanted, handle>>
    BY <1>9 DEF ReceiveRegistration, Lose, deviceVars
  <2> QED BY <1>4, <2>1
<1>10. CASE FDTClock \/ StrayResult \/ UNCHANGED foreignVars
  <2>1. UNCHANGED <<wanted, handle>>
    BY <1>10 DEF FDTClock, StrayResult, foreignVars, deviceVars, counters
  <2> QED BY <1>4, <2>1
<1>11. CASE Tick
  BY <1>4, <1>5, <1>11 DEF Tick, counters
<1> QED BY <1>2, <1>3, <1>6, <1>7, <1>8, <1>9, <1>10, <1>11
        DEF ForeignNext, DeviceStep, BBMDStep

-----------------------------------------------------------------------------
(* The theorems.                                                           *)

LEMMA ForeignInitially == ForeignInit => ForeignInv
<1> SUFFICES ASSUME ForeignInit PROVE ForeignInv
  OBVIOUS
<1>1. ForeignTypeOK
  BY TypeInitially
<1>2. net = << >> /\ Len(net) = 0 /\ loose = << >> /\ handle = NoHandle /\ ~known
      /\ ~registered /\ retry = Never /\ expiry = Never /\ ~wanted
  BY DEF ForeignInit
<1>3. Handles /\ Ours
  BY <1>2 DEF Handles, NoHandle, Ours
<1>4. Listed
  BY <1>2 DEF Listed, NothingOld, InTime
<1>5. Single
  BY <1>2 DEF Single, Renewal, Postponed, NoHandle
<1> QED BY <1>1, <1>3, <1>4, <1>5 DEF ForeignInv

LEMMA ForeignInvariance == ForeignSpec => []ForeignInv
<1>1. ForeignInv /\ [ForeignNext]_foreignVars => ForeignInv'
  <2> SUFFICES ASSUME ForeignInv, [ForeignNext]_foreignVars PROVE ForeignInv'
    OBVIOUS
  <2>1. ForeignTypeOK /\ Handles /\ Listed /\ Ours /\ Single
    BY DEF ForeignInv
  <2>2. ForeignTypeOK'
    BY <2>1, TypeStep
  <2>3. Handles' /\ Ours'
    BY <2>1, HandlesStep, OursStep
  <2>4. Listed'
    BY <2>1, <2>2, ListedStep
  <2>5. Single'
    <3>1. Undisturbed' => loose' = << >> /\ Renewal' /\ Postponed'
      BY <2>1, <2>2, SingleStep
    <3>2. Bearable' /\ wanted' => handle'.set
      BY <2>1, WantedStep
    <3> QED BY <3>1, <3>2 DEF Single
  <2> QED BY <2>2, <2>3, <2>4, <2>5 DEF ForeignInv
<1> QED BY <1>1, ForeignInitially, PTL DEF ForeignSpec

(***************************************************************************)
(* Undisturbed, no handle of the device goes on that it has lost track of: *)
(* there is one renewal to come.                                           *)
(***************************************************************************)
THEOREM RenewsOnce == ForeignSpec => []OneRenewal
<1>1. ForeignInv => OneRenewal
  BY DEF ForeignInv, Single, OneRenewal
<1> QED BY <1>1, ForeignInvariance, PTL

(***************************************************************************)
(* A device that takes itself for registered is in the table of the BBMD,  *)
(* while nothing is lost or refused and it was not registered in haste.    *)
(***************************************************************************)
THEOREM ListedWhileRegistered == ForeignSpec => []RegisteredIsListed
<1>1. ForeignInv => RegisteredIsListed
  <2> SUFFICES ASSUME ForeignInv, registered, lost = 0, refused = 0, ~hasty
               PROVE  remain > 0
    BY DEF RegisteredIsListed
  <2>1. ForeignTypeOK /\ InTime
    BY DEF ForeignInv, Listed
  <2>2. EntryLeft \in Nat /\ remain \in Nat
    BY <2>1, EntryLeftType, Constants DEF ForeignTypeOK
  <2>3. EntryLeft >= 2
    <3>1. CASE OutlivedByHandle
      BY <2>2, <3>1, Constants DEF OutlivedByHandle
    <3>2. CASE OutlivedByRequest
      <4>1. PICK k \in 1..Len(net) : EntryLeft >= net[k].left + 2
        BY <3>2 DEF OutlivedByRequest
      <4>2. net[k].left \in 0..MaxDelay
        BY <2>1, UnderWay
      <4> QED BY <2>2, <4>1, <4>2, Constants
    <3> QED BY <2>1, <3>1, <3>2 DEF InTime
  <2> QED BY <2>2, <2>3 DEF EntryLeft
<1> QED BY <1>1, ForeignInvariance, PTL

(***************************************************************************)
(* The device goes on registering until it is told to stop, whatever is    *)
(* lost that the attempts of Grace seconds make up for.                    *)
(***************************************************************************)
THEOREM GoesOn == ForeignSpec => []RenewalsGoOn
<1>1. ForeignInv => RenewalsGoOn
  BY DEF ForeignInv, Single, Renewal, Bearable, RenewalsGoOn
<1> QED BY <1>1, ForeignInvariance, PTL

=============================================================================
