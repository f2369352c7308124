-------------------------- MODULE LocalObjectsProofs --------------------------
(***************************************************************************)
(* The objects of a device (bacpypes3/local): ChangeOfValue, which extends *)
(* Commandable, and EventReporting.                                        *)
(*                                                                         *)
(* A commandable object does what its priority array says, for any number  *)
(* of priorities and any values; and what subscribers know of its value,   *)
(* for any clients, increments and lifetimes and any number of writes.     *)
(* Whenever the detection is not scheduled, the value it has reported is   *)
(* close to the present one, and what a subscriber that was not passed     *)
(* over was told is that value.                                            *)
(*                                                                         *)
(* The second part, on events and faults, is for any values, limits,       *)
(* delays and reliabilities, and any number of writes: what was not        *)
(* recorded is not lost.                                                   *)
(***************************************************************************)
EXTENDS ChangeOfValue, EventReporting, WellFoundedInduction, TLAPS

-----------------------------------------------------------------------------
\* Among the commanded slots there is a first one, and it is the one chosen.
LEMMA HighestLemma ==
    ASSUME NEW array, Commanded(array) # {}
    PROVE  /\ Highest(array) \in Commanded(array)
           /\ \A q \in Commanded(array) : Highest(array) <= q
<1>1. Commanded(array) \subseteq Nat
  BY CommandableAssumption DEF Commanded, Priorities
<1> DEFINE R == OpToRel(<, Nat)
<1>2. IsWellFoundedOn(R, Nat)
  BY NatLessThanWellFounded
<1>3. \E p \in Commanded(array) : \A q \in Commanded(array) : ~ (<<q, p>> \in R)
  <2> HIDE DEF R
  <2> QED BY <1>1, <1>2, WFMin
<1>4. PICK p \in Commanded(array) : \A q \in Commanded(array) : ~ (<<q, p>> \in R)
  BY <1>3
<1>5. ASSUME NEW q \in Commanded(array)
      PROVE  p <= q
  <2>1. p \in Nat /\ q \in Nat
    BY <1>1
  <2>2. ~ (q < p)
    BY <1>4, <2>1 DEF OpToRel
  <2> QED BY <2>1, <2>2
<1> QED BY <1>4, <1>5 DEF Highest

\* What recalculating makes of an array.
LEMMA RecalculatingLemma ==
    ASSUME NEW array \in [Priorities -> Values \cup {Null}], NEW default \in Values
    PROVE  /\ CommandPriority(array) \in Priorities \cup {Null}
           /\ CommandedValue(array, default) \in Values
           /\ \A p \in Priorities : CommandPriority(array) = p =>
                /\ CommandedValue(array, default) = array[p]
                /\ \A q \in Priorities : q < p => array[q] = Null
           /\ CommandPriority(array) = Null =>
                /\ \A p \in Priorities : array[p] = Null
                /\ CommandedValue(array, default) = default
<1>1. Null \notin Priorities
  BY CommandableAssumption DEF Priorities
<1>2. CASE Commanded(array) = {}
  BY <1>1, <1>2 DEF Commanded, CommandPriority, CommandedValue
<1>3. CASE Commanded(array) # {}
  <2>1. /\ Highest(array) \in Priorities
        /\ array[Highest(array)] # Null
        /\ \A q \in Commanded(array) : Highest(array) <= q
    BY <1>3, HighestLemma DEF Commanded
  <2>2. ASSUME NEW q \in Priorities, q < Highest(array)
        PROVE  array[q] = Null
    BY <2>1, <2>2 DEF Commanded, Priorities
  <2> QED BY <1>1, <1>3, <2>1, <2>2 DEF CommandPriority, CommandedValue
<1> QED BY <1>2, <1>3

LEMMA SetSlotLemma ==
    ASSUME CommandableTypeOK, NEW p \in Priorities, NEW v \in Values \cup {Null},
           SetSlot(p, v)
    PROVE  CommandableTypeOK' /\ Governed'
<1> DEFINE array == [priorityArray EXCEPT ![p] = v]
<1>1. array \in [Priorities -> Values \cup {Null}]
  BY DEF CommandableTypeOK
<1>2. /\ priorityArray' = array
      /\ currentCommandPriority' = CommandPriority(array)
      /\ presentValue' = CommandedValue(array, relinquishDefault)
      /\ effective' = relinquishDefault /\ settled' = TRUE
      /\ relinquishDefault' = relinquishDefault
      /\ relinquishDefault \in Values
  BY DEF SetSlot, CommandableTypeOK
<1> HIDE DEF array
<1>3. CommandableTypeOK'
  BY <1>1, <1>2, RecalculatingLemma DEF CommandableTypeOK
<1>4. Governed'
  BY <1>1, <1>2, RecalculatingLemma DEF Governed
<1> QED BY <1>3, <1>4

\* An array that is given is an array of values and Nulls.
LEMMA GivenLemma ==
    ASSUME NEW array \in [Priorities -> GivenSlots]
    PROVE  array \in [Priorities -> Values \cup {Null}]
BY CommandableAssumption

\* What was given as a whole is not settled, unless it is of Nulls only.
LEMMA MadeLemma == InitCommandable => CommandableTypeOK /\ Governed
<1> SUFFICES ASSUME InitCommandable PROVE CommandableTypeOK /\ Governed
  OBVIOUS
<1>1. CommandableTypeOK
  BY GivenLemma DEF InitCommandable, CommandableTypeOK
<1>2. Null \notin Priorities
  BY CommandableAssumption DEF Priorities
<1>3. Governed
  BY <1>2 DEF InitCommandable, Governed, Commanded
<1> QED BY <1>1, <1>3

\* However the object is made and whatever is written, from the first command on
\* the present value and the priority in command are those of the array, or those
\* of the default there was at the last command.
THEOREM GovernedTheorem == SpecCommandable => [](CommandableTypeOK /\ Governed)
<1>1. InitCommandable => CommandableTypeOK /\ Governed
  BY MadeLemma
<1>2. ASSUME CommandableTypeOK, Governed, [NextCommandable]_commandableVars
      PROVE  CommandableTypeOK' /\ Governed'
  <2>1. N \in Priorities
    BY CommandableAssumption DEF Priorities
  <2>2. ASSUME NEW p \in Priorities, NEW v \in Values \cup {Null},
               WritePresentValue(p, v)
        PROVE  CommandableTypeOK' /\ Governed'
    BY <1>2, <2>2, SetSlotLemma DEF WritePresentValue
  <2>3. ASSUME NEW v \in Values, SetPresentValue(v)
        PROVE  CommandableTypeOK' /\ Governed'
    BY <1>2, <2>1, <2>3, SetSlotLemma DEF SetPresentValue
  <2>4. ASSUME NEW v \in Values, WriteRelinquishDefault(v)
        PROVE  CommandableTypeOK' /\ Governed'
    BY <1>2, <2>4 DEF WriteRelinquishDefault, CommandableTypeOK, Governed
  <2>5. ASSUME NEW array \in [Priorities -> GivenSlots], SetPriorityArray(array)
        PROVE  CommandableTypeOK' /\ Governed'
    BY <1>2, <2>5, GivenLemma DEF SetPriorityArray, CommandableTypeOK, Governed
  <2>6. CASE UNCHANGED commandableVars
    BY <1>2, <2>6 DEF commandableVars, CommandableTypeOK, Governed
  <2> QED BY <1>2, <2>2, <2>3, <2>4, <2>5, <2>6 DEF NextCommandable
<1> QED BY <1>1, <1>2, PTL DEF SpecCommandable

-----------------------------------------------------------------------------

Scheduled ==
    "execute" \notin ToSet(ready) /\ previously # Null => Close(previously, presentValue)

ToldIsReported ==
    /\ \A c \in Clients \ Subscribed : told[c] = Null
    /\ \A c \in Subscribed \ aside : told[c] # Null => told[c] = previously

CovInv ==
    /\ CommandableTypeOK /\ Governed
    /\ CovTypeOK
    /\ SubscribedIsBound
    /\ FirstNotification
    /\ Scheduled
    /\ ToldIsReported

covAll == <<commandableVars, covVars>>

-----------------------------------------------------------------------------

LEMMA QueueLemma ==
    ASSUME NEW S, NEW s \in Seq(S)
    PROVE  /\ \A x \in S : /\ Append(s, x) \in Seq(S)
                           /\ ToSet(Append(s, x)) = ToSet(s) \cup {x}
           /\ ToSet(<<>>) = {}
           /\ s # <<>> => /\ Tail(s) \in Seq(S)
                          /\ \A y \in ToSet(s) \ {Head(s)} : y \in ToSet(Tail(s))
<1>1. ASSUME NEW x \in S
      PROVE  /\ Append(s, x) \in Seq(S)
             /\ ToSet(Append(s, x)) = ToSet(s) \cup {x}
  <2>1. /\ Append(s, x) \in Seq(S)
        /\ Len(s) \in Nat
        /\ DOMAIN s = 1..Len(s)
        /\ DOMAIN Append(s, x) = 1..(Len(s) + 1)
        /\ \A i \in 1..Len(s) : Append(s, x)[i] = s[i]
        /\ Append(s, x)[Len(s) + 1] = x
    OBVIOUS
  <2> QED BY <2>1 DEF ToSet
<1>2. ToSet(<<>>) = {}
  BY DEF ToSet
<1>3. ASSUME s # <<>>
      PROVE  /\ Tail(s) \in Seq(S)
             /\ \A y \in ToSet(s) \ {Head(s)} : y \in ToSet(Tail(s))
  <2>1. /\ Tail(s) \in Seq(S)
        /\ Len(s) \in Nat \ {0}
        /\ DOMAIN s = 1..Len(s)
        /\ DOMAIN Tail(s) = 1..(Len(s) - 1)
        /\ \A i \in 1..(Len(s) - 1) : Tail(s)[i] = s[i + 1]
        /\ Head(s) = s[1]
    BY <1>3
  <2>2. ASSUME NEW y \in ToSet(s) \ {Head(s)} PROVE y \in ToSet(Tail(s))
    <3>1. PICK i \in 1..Len(s) : s[i] = y
      BY <2>1 DEF ToSet
    <3>2. i - 1 \in 1..(Len(s) - 1) /\ Tail(s)[i - 1] = y
      BY <2>1, <3>1
    <3> QED BY <2>1, <3>2 DEF ToSet
  <2> QED BY <2>1, <2>2
<1> QED BY <1>1, <1>2, <1>3

\* The invariant says of the queue what the other lemmas need.
LEMMA ReadyLemma ==
    ASSUME CovTypeOK
    PROVE  /\ ready \in Seq(Clients \cup {"execute"})
           /\ \A x \in Clients \cup {"execute"} :
                /\ Append(ready, x) \in Seq(Clients \cup {"execute"})
                /\ ToSet(Append(ready, x)) = ToSet(ready) \cup {x}
           /\ ToSet(<<>>) = {}
           /\ ready # <<>> => /\ Tail(ready) \in Seq(Clients \cup {"execute"})
                              /\ \A y \in ToSet(ready) \ {Head(ready)} : y \in ToSet(Tail(ready))
<1>1. ready \in Seq(Clients \cup {"execute"})
  BY DEF CovTypeOK
<1> QED BY <1>1, QueueLemma

LEMMA WriteObjectLemma ==
    ASSUME CovInv, WriteObject, CommandableTypeOK', Governed'
    PROVE  CovInv'
<1>1. /\ CovTypeOK /\ CommandableTypeOK
      /\ writes' = writes + 1 /\ writes < MaxWrites
      /\ PropertyChange
      /\ UNCHANGED <<covIncrement, bound, subs, answering, told, aside>>
  BY DEF CovInv, WriteObject
<1>2. CASE presentValue' = presentValue \/ ~bound \/ "execute" \in ToSet(ready)
  <2>1. UNCHANGED <<previously, ready>>
    BY <1>1, <1>2 DEF PropertyChange
  <2>2. CovTypeOK'
    BY <1>1, <2>1, CovAssumption DEF CovTypeOK
  <2>3. SubscribedIsBound' /\ FirstNotification' /\ ToldIsReported'
    BY <1>1, <2>1 DEF CovInv, SubscribedIsBound, FirstNotification, ToldIsReported, Subscribed
  <2>4. Scheduled'
    BY <1>1, <1>2, <2>1 DEF CovInv, SubscribedIsBound, Scheduled, Close
  <2> QED BY <2>2, <2>3, <2>4 DEF CovInv
<1>3. CASE presentValue' # presentValue /\ bound /\ "execute" \notin ToSet(ready)
  <2>1. /\ previously' = IF previously = Null THEN presentValue ELSE previously
        /\ \/ Close(previously', presentValue') /\ ready' = ready
           \/ ready' = Append(ready, "execute")
    BY <1>1, <1>3 DEF PropertyChange
  <2>2. previously' \in Values /\ previously' # Null
    BY <1>1, <2>1, CommandableAssumption DEF CovTypeOK, CommandableTypeOK
  <2>3. /\ ready' \in Seq(Clients \cup {"execute"})
        /\ ToSet(ready) \subseteq ToSet(ready')
        /\ "execute" \notin ToSet(ready') => Close(previously', presentValue')
    BY <1>1, <2>1, ReadyLemma
  <2>4. CovTypeOK'
    BY <1>1, <2>2, <2>3, CovAssumption DEF CovTypeOK
  <2>5. SubscribedIsBound' /\ FirstNotification'
    BY <1>1, <1>3, <2>3 DEF CovInv, SubscribedIsBound, FirstNotification, Subscribed
  <2>6. Scheduled'
    BY <1>1, <2>3 DEF Scheduled, Close
  <2>7. ToldIsReported'
    BY <1>1, <2>1 DEF CovInv, ToldIsReported, Subscribed
  <2> QED BY <2>4, <2>5, <2>6, <2>7 DEF CovInv
<1> QED BY <1>2, <1>3

LEMMA WriteIncrementLemma ==
    ASSUME CovInv, NEW increment \in Increments, WriteIncrement(increment)
    PROVE  CovInv'
<1>1. /\ CovTypeOK /\ CommandableTypeOK /\ Governed
      /\ writes' = writes + 1 /\ writes < MaxWrites
      /\ covIncrement' = increment
      /\ UNCHANGED <<commandableVars, bound, previously, subs, answering, told, aside>>
  BY DEF CovInv, WriteIncrement
<1>2. /\ ready' \in Seq(Clients \cup {"execute"})
      /\ ToSet(ready) \subseteq ToSet(ready')
      /\ ~bound => ready' = ready
      /\ bound => "execute" \in ToSet(ready')
  BY <1>1, ReadyLemma DEF WriteIncrement
<1>3. CovTypeOK'
  BY <1>1, <1>2, CovAssumption DEF CovTypeOK
<1>4. SubscribedIsBound' /\ FirstNotification' /\ ToldIsReported'
  BY <1>1, <1>2 DEF CovInv, SubscribedIsBound, FirstNotification, ToldIsReported, Subscribed
<1>5. Scheduled'
  BY <1>1, <1>2 DEF CovInv, SubscribedIsBound, Scheduled
<1>6. CommandableTypeOK' /\ Governed'
  BY <1>1 DEF commandableVars, CommandableTypeOK, Governed
<1> QED BY <1>3, <1>4, <1>5, <1>6 DEF CovInv

\* The values are reported to all the subscribers, or to one.
LEMMA ReportLemma ==
    ASSUME CovInv, NEW audience \in SUBSET Subscribed, Report(audience), bound,
           ready # <<>>, ready' = Tail(ready), Head(ready) \notin Subscribed \ audience,
           UNCHANGED <<commandableVars, covIncrement, writes, bound, subs, answering>>
    PROVE  CovInv'
<1>1. /\ CovTypeOK /\ CommandableTypeOK /\ Governed
      /\ previously' = presentValue
      /\ told' = [c \in Clients |-> IF c \in audience THEN presentValue ELSE told[c]]
      /\ aside' = {c \in Subscribed \ audience : c \in aside \/ told[c] # presentValue}
      /\ presentValue' = presentValue /\ subs' = subs
      /\ presentValue \in Values /\ presentValue # Null
  BY CommandableAssumption DEF CovInv, Report, commandableVars, CommandableTypeOK
<1>2. /\ ready' \in Seq(Clients \cup {"execute"})
      /\ \A y \in ToSet(ready) \ {Head(ready)} : y \in ToSet(ready')
  BY <1>1, ReadyLemma
<1>3. CovTypeOK'
  BY <1>1, <1>2 DEF CovTypeOK, Subscribed
<1>4. SubscribedIsBound' /\ ToldIsReported' /\ Scheduled'
  <2>1. Subscribed' = Subscribed
    BY <1>1 DEF Subscribed
  <2>2. SubscribedIsBound'
    BY DEF SubscribedIsBound
  <2>3. ToldIsReported'
    BY <1>1, <2>1 DEF CovInv, ToldIsReported, Subscribed
  <2>4. Scheduled'
    BY <1>1 DEF Scheduled, Close
  <2> QED BY <2>2, <2>3, <2>4
<1>5. FirstNotification'
  <2>1. ASSUME NEW c \in Subscribed, told'[c] = Null
        PROVE  c \in answering \cup ToSet(ready')
    <3>1. c \in Clients /\ c \notin audience /\ told[c] = Null
      BY <1>1, <2>1 DEF Subscribed
    <3> QED BY <1>2, <2>1, <3>1 DEF CovInv, FirstNotification
  <2> QED BY <1>1, <2>1 DEF FirstNotification, Subscribed
<1>6. CommandableTypeOK' /\ Governed'
  BY <1>1 DEF commandableVars, CommandableTypeOK, Governed
<1> QED BY <1>3, <1>4, <1>5, <1>6 DEF CovInv

LEMMA LoopLemma ==
    ASSUME CovInv, Execute \/ TellOne
    PROVE  CovInv'
<1>1. ready # <<>> /\ bound
  BY DEF CovInv, SubscribedIsBound, Execute, TellOne
<1>2. CASE Execute
  <2>1. Head(ready) \notin Subscribed \ Subscribed
    OBVIOUS
  <2> QED BY <1>1, <1>2, <2>1, ReportLemma DEF Execute
<1>3. CASE TellOne
  <2>1. /\ {Head(ready)} \cap Subscribed \in SUBSET Subscribed
        /\ Head(ready) \notin Subscribed \ ({Head(ready)} \cap Subscribed)
    OBVIOUS
  <2> QED BY <1>1, <1>3, <2>1, ReportLemma DEF TellOne
<1> QED BY <1>2, <1>3

LEMMA SubscribeLemma ==
    ASSUME CovInv, NEW c \in Clients, NEW lifetime \in Lifetimes \cup {Null},
           Subscribe(c, lifetime)
    PROVE  CovInv'
<1>1. /\ CovTypeOK /\ CommandableTypeOK /\ Governed
      /\ bound' = TRUE
      /\ UNCHANGED <<commandableVars, covIncrement, writes, previously, ready, told, aside>>
      /\ answering \subseteq answering' /\ answering' \subseteq answering \cup {c}
      /\ lifetime # Null => c \in answering'
  BY DEF CovInv, Subscribe, Detect
<1>2. /\ subs' \in [Clients -> {"none", "timed", "permanent"}]
      /\ \A d \in Clients \ {c} : subs'[d] = subs[d]
      /\ lifetime = Null => (subs'[c] = "none" <=> subs[c] = "none")
      /\ subs[c] # "none" => subs'[c] # "none"
  BY <1>1 DEF Subscribe, CovTypeOK
<1>3. CovTypeOK'
  BY <1>1, <1>2 DEF CovTypeOK
<1>4. SubscribedIsBound' /\ Scheduled'
  BY <1>1 DEF CovInv, SubscribedIsBound, Scheduled, Close, commandableVars
<1>5. FirstNotification'
  BY <1>1, <1>2 DEF CovInv, FirstNotification, Subscribed
<1>6. ToldIsReported'
  BY <1>1, <1>2 DEF CovInv, ToldIsReported, Subscribed
<1>7. CommandableTypeOK' /\ Governed'
  BY <1>1 DEF commandableVars, CommandableTypeOK, Governed
<1> QED BY <1>3, <1>4, <1>5, <1>6, <1>7 DEF CovInv

LEMMA UnsubscribeLemma ==
    ASSUME CovInv, NEW c \in Subscribed, Unsubscribe(c),
           UNCHANGED <<commandableVars, covIncrement, writes>>
    PROVE  CovInv'
<1>1. /\ CovTypeOK /\ CommandableTypeOK /\ Governed
      /\ c \in Clients
      /\ subs' = [subs EXCEPT ![c] = "none"]
      /\ told' = [told EXCEPT ![c] = Null]
      /\ aside' = aside \ {c}
  BY DEF CovInv, Unsubscribe, Subscribed
<1>2. Subscribed' = Subscribed \ {c}
  BY <1>1 DEF CovTypeOK, Subscribed
<1>3. CommandableTypeOK' /\ Governed'
  BY <1>1 DEF commandableVars, CommandableTypeOK, Governed
<1>4. CASE UNCHANGED <<bound, previously, ready, answering>>
  <2>1. CovTypeOK'
    BY <1>1, <1>4 DEF CovTypeOK
  <2>2. SubscribedIsBound' /\ FirstNotification'
    BY <1>1, <1>2, <1>4 DEF CovInv, CovTypeOK, SubscribedIsBound, FirstNotification, Subscribed
  <2>3. ToldIsReported' /\ Scheduled'
    BY <1>1, <1>2, <1>4 DEF CovInv, CovTypeOK, ToldIsReported, Scheduled, Subscribed, Close,
       commandableVars
  <2> QED BY <1>3, <2>1, <2>2, <2>3 DEF CovInv
<1>5. CASE /\ Subscribed = {c}
           /\ bound' = FALSE /\ previously' = Null /\ ready' = <<>> /\ answering' = {}
  <2>1. CovTypeOK'
    <3>1. <<>> \in Seq(Clients \cup {"execute"})
      OBVIOUS
    <3> QED BY <1>1, <1>5, <3>1 DEF CovTypeOK
  <2>2. Subscribed' = {}
    BY <1>2, <1>5
  <2>3. SubscribedIsBound' /\ FirstNotification' /\ Scheduled'
    BY <1>5, <2>2 DEF SubscribedIsBound, FirstNotification, Scheduled
  <2>4. ToldIsReported'
    BY <1>1, <1>5, <2>2 DEF CovInv, CovTypeOK, ToldIsReported
  <2> QED BY <1>3, <2>1, <2>3, <2>4 DEF CovInv
<1> QED BY <1>4, <1>5 DEF Unsubscribe

LEMMA RespondedLemma ==
    ASSUME CovInv, NEW c \in Clients, Responded(c)
    PROVE  CovInv'
<1>1. /\ CovTypeOK /\ CommandableTypeOK /\ Governed
      /\ c \in answering /\ answering' = answering \ {c}
      /\ UNCHANGED <<commandableVars, covIncrement, writes, bound, previously, subs, told, aside>>
  BY DEF CovInv, Responded
<1>2. /\ ready' \in Seq(Clients \cup {"execute"})
      /\ ToSet(ready') = ToSet(ready) \cup {c}
  BY <1>1, ReadyLemma DEF Responded
<1>3. bound
  BY <1>1 DEF CovInv, SubscribedIsBound
<1>4. CovTypeOK'
  BY <1>1, <1>2 DEF CovTypeOK
<1>5. SubscribedIsBound' /\ FirstNotification' /\ ToldIsReported'
  BY <1>1, <1>2, <1>3 DEF CovInv, SubscribedIsBound, FirstNotification, ToldIsReported, Subscribed
<1>6. Scheduled'
  BY <1>1, <1>2 DEF CovInv, Scheduled, Close, commandableVars
<1>7. CommandableTypeOK' /\ Governed'
  BY <1>1 DEF commandableVars, CommandableTypeOK, Governed
<1> QED BY <1>4, <1>5, <1>6, <1>7 DEF CovInv

\* Cancelling a subscription there is none of leaves a detection behind.
LEMMA CancelLemma ==
    ASSUME CovInv, NEW c \in Clients, Cancel(c)
    PROVE  CovInv'
<1>1. CASE subs[c] # "none" /\ Unsubscribe(c)
  BY <1>1, UnsubscribeLemma DEF Cancel, Subscribed
<1>2. CASE /\ Detect
           /\ UNCHANGED <<subs, answering, ready, told, aside>>
  <2>1. /\ bound' = TRUE
        /\ UNCHANGED <<commandableVars, covIncrement, writes, previously, subs, answering,
                       ready, told, aside>>
    BY <1>2 DEF Cancel, Detect
  <2>2. CovTypeOK' /\ SubscribedIsBound' /\ FirstNotification'
    BY <2>1 DEF CovInv, CovTypeOK, SubscribedIsBound, FirstNotification, Subscribed
  <2>3. ToldIsReported' /\ Scheduled'
    BY <2>1 DEF CovInv, ToldIsReported, Scheduled, Subscribed, Close, commandableVars
  <2>4. CommandableTypeOK' /\ Governed'
    BY <2>1 DEF CovInv, commandableVars, CommandableTypeOK, Governed
  <2> QED BY <2>2, <2>3, <2>4 DEF CovInv
<1> QED BY <1>1, <1>2 DEF Cancel

-----------------------------------------------------------------------------

\* The object with its subscribers is a commandable object: what is done for them
\* leaves it alone.
THEOREM ImplementsCommandable == SpecCov => SpecCommandable
<1>1. InitCov => InitCommandable
  BY DEF InitCov
<1>2. [NextCov]_covAll => [NextCommandable]_commandableVars
  BY DEF NextCov, Device, RequestOf, covAll, WriteObject, WriteIncrement, Responded, Expire,
         Execute, TellOne, Cancel, Subscribe
<1> QED BY <1>1, <1>2, PTL DEF SpecCov, SpecCommandable, covAll

LEMMA CovInvariance == SpecCov => []CovInv
<1>1. InitCov => CovInv
  <2> SUFFICES ASSUME InitCov PROVE CovInv
    OBVIOUS
  <2>1. CommandableTypeOK /\ Governed
    BY MadeLemma DEF InitCov
  <2>2. Subscribed = {} /\ <<>> \in Seq(Clients \cup {"execute"})
    BY DEF InitCov, Subscribed
  <2>3. CovTypeOK
    <3>1. writes \in 0..MaxWrites
      BY CovAssumption DEF InitCov
    <3>2. /\ subs \in [Clients -> {"none", "timed", "permanent"}]
          /\ told \in [Clients -> Values \cup {Null}]
      BY DEF InitCov
    <3> QED BY <2>2, <3>1, <3>2 DEF InitCov, CovTypeOK
  <2>4. SubscribedIsBound /\ FirstNotification /\ Scheduled /\ ToldIsReported
    BY <2>2 DEF InitCov, SubscribedIsBound, FirstNotification, Scheduled, ToldIsReported
  <2> QED BY <2>1, <2>3, <2>4 DEF CovInv
<1>2. ASSUME CovInv, [NextCov]_covAll, CommandableTypeOK', Governed'
      PROVE  CovInv'
  <2>1. CASE WriteObject
    BY <1>2, <2>1, WriteObjectLemma
  <2>2. ASSUME NEW increment \in Increments, WriteIncrement(increment) PROVE CovInv'
    BY <1>2, <2>2, WriteIncrementLemma
  <2>3. CASE Execute \/ TellOne
    BY <1>2, <2>3, LoopLemma
  <2>4. ASSUME NEW c \in Clients, Responded(c) PROVE CovInv'
    BY <1>2, <2>4, RespondedLemma
  <2>5. ASSUME NEW c \in Clients, Expire(c) PROVE CovInv'
    <3>1. c \in Subscribed
      BY <2>5 DEF Expire, Subscribed
    <3> QED BY <1>2, <2>5, <3>1, UnsubscribeLemma DEF Expire
  <2>6. ASSUME NEW c \in Clients, RequestOf(c) PROVE CovInv'
    BY <1>2, <2>6, CancelLemma, SubscribeLemma DEF RequestOf
  <2>7. CASE UNCHANGED covAll
    BY <1>2, <2>7 DEF covAll, commandableVars, covVars, CovInv, CommandableTypeOK, Governed,
       CovTypeOK, SubscribedIsBound, FirstNotification, Scheduled, ToldIsReported, Subscribed,
       Close
  <2> QED BY <1>2, <2>1, <2>2, <2>3, <2>4, <2>5, <2>6, <2>7 DEF NextCov, Device
<1> QED
  BY <1>1, <1>2, ImplementsCommandable, GovernedTheorem, PTL DEF SpecCov, covAll

\* A subscriber that has been told nothing yet is about to be: its answer is being
\* made, or the value it is to be told waits to be sent.
THEOREM FirstsAreSent == SpecCov => []FirstNotification
<1>1. CovInv => FirstNotification
  BY DEF CovInv
<1> QED BY <1>1, CovInvariance, PTL

\* With nothing left to run the present value is within the increment of the one that
\* was reported last, whatever has been written and whatever the increment became.
THEOREM ReportedIsClose == SpecCov => []ReportedValueIsClose
<1>1. CovInv => ReportedValueIsClose
  <2> SUFFICES ASSUME CovInv PROVE ReportedValueIsClose
    OBVIOUS
  <2>1. ready = <<>> => "execute" \notin ToSet(ready)
    BY ReadyLemma DEF CovInv
  <2> QED BY <2>1 DEF CovInv, Scheduled, ReportedValueIsClose
<1> QED BY <1>1, CovInvariance, PTL

\* And that is what every subscriber knows that was not passed over: the present value
\* to within the increment.
THEOREM SubscribersAreTold == SpecCov => []SubscriberIsTold
<1>1. CovInv /\ ReportedValueIsClose => SubscriberIsTold
  BY DEF CovInv, ToldIsReported, SubscriberIsTold, ReportedValueIsClose
<1> QED BY <1>1, CovInvariance, ReportedIsClose, PTL

-----------------------------------------------------------------------------
\* The event algorithm is to run once more.
Looks == "event" \in ToSet(waiting) \/ "again" \in ToSet(waiting)

\* While the fault algorithm need not run, a fault of range is that of the value.
RangeHolds ==
    ("fault" \notin ToSet(waiting) /\ ~reliabilityEvaluationInhibit) =>
        /\ reliability = "underRange" => pMonitoredValue < faultLowLimit
        /\ reliability = "overRange" => pMonitoredValue > faultHighLimit

\* A value that was looked at, with nothing changed since, fits the state or is
\* about to bring another.
Settled ==
    (looked /\ ~Looks) =>
        IF transition_state # Unset
        THEN /\ current_state = eventState
             /\ transition_state = Requested(eventState, pMonitoredValue)
        ELSE \/ Fits(eventState, pMonitoredValue)
             \/ eventState = "normal" /\ limitEnable # Limits

EventInv == EventTypeOK /\ RangeHolds /\ Settled

Algorithms == {"fault", "event", "again"}
-----------------------------------------------------------------------------
\* What Append and Tail do to the elements of a queue.
LEMMA AppendLemma ==
    ASSUME NEW queue \in Seq(Algorithms), NEW x \in Algorithms
    PROVE  /\ Append(queue, x) \in Seq(Algorithms)
           /\ ToSet(Append(queue, x)) = ToSet(queue) \cup {x}
<1>1. /\ Append(queue, x) \in Seq(Algorithms)
      /\ DOMAIN Append(queue, x) = 1..(Len(queue) + 1)
      /\ Append(queue, x)[Len(queue) + 1] = x
      /\ \A i \in 1..Len(queue) : Append(queue, x)[i] = queue[i]
      /\ DOMAIN queue = 1..Len(queue) /\ Len(queue) \in Nat
  OBVIOUS
<1>2. 1..(Len(queue) + 1) = (1..Len(queue)) \cup {Len(queue) + 1}
  BY <1>1
<1> QED  BY <1>1, <1>2 DEF ToSet

LEMMA TailLemma ==
    ASSUME NEW queue \in Seq(Algorithms), queue # <<>>
    PROVE  /\ Tail(queue) \in Seq(Algorithms)
           /\ ToSet(Tail(queue)) \subseteq ToSet(queue)
           /\ ToSet(queue) \subseteq ToSet(Tail(queue)) \cup {Head(queue)}
<1>1. /\ Tail(queue) \in Seq(Algorithms) /\ Head(queue) = queue[1]
      /\ DOMAIN Tail(queue) = 1..(Len(queue) - 1)
      /\ \A i \in 1..(Len(queue) - 1) : Tail(queue)[i] = queue[i + 1]
      /\ DOMAIN queue = 1..Len(queue) /\ Len(queue) \in Nat
  OBVIOUS
<1>2. ToSet(Tail(queue)) \subseteq ToSet(queue)
  BY <1>1 DEF ToSet
<1>3. ASSUME NEW y \in ToSet(queue), y # Head(queue)
      PROVE  y \in ToSet(Tail(queue))
  <2>1. PICK i \in 1..Len(queue) : y = queue[i]
    BY <1>1 DEF ToSet
  <2>2. i - 1 \in 1..(Len(queue) - 1) /\ Tail(queue)[i - 1] = y
    BY <1>1, <1>3, <2>1
  <2> QED  BY <1>1, <2>2 DEF ToSet
<1> QED  BY <1>1, <1>2, <1>3

LEMMA EmptyLemma == ToSet(<<>>) = {}
BY DEF ToSet

-----------------------------------------------------------------------------
\* The state that is asked for fits the value; if none is, the one there is does.
LEMMA RequestedFits ==
    ASSUME NEW s \in EventStates, NEW v \in Monitored
    PROVE  /\ Requested(s, v) \in EventStates \cup {Unset}
           /\ Requested(s, v) # s
           /\ Requested(s, v) = Unset => Fits(s, v)
           /\ Requested(s, v) # Unset => \/ Fits(Requested(s, v), v)
                                         \/ Requested(s, v) = "normal" /\ limitEnable # Limits
<1>1. v \in Int /\ lowLimit \in Int /\ highLimit \in Int /\ deadband \in Int
  BY EventAssumption
<1>2. Unset \notin EventStates
  BY EventAssumption DEF EventStates
<1>3. CASE s = "normal"
  BY <1>1, <1>2, <1>3, LimitAssumption DEF Requested, Fits, Above, Below, EventStates
<1>4. CASE s = "highLimit"
  BY <1>1, <1>2, <1>4, LimitAssumption DEF Requested, Fits, Above, Below, EventStates, Limits
<1>5. CASE s = "lowLimit"
  BY <1>1, <1>2, <1>5, LimitAssumption DEF Requested, Fits, Above, Below, EventStates, Limits
<1>6. CASE s = "fault"
  BY <1>2, <1>6 DEF Requested, Fits, EventStates
<1> QED  BY <1>3, <1>4, <1>5, <1>6 DEF EventStates

\* The fault algorithm puts what is out of range under its name.
LEMMA EvaluatedLemma ==
    ASSUME NEW v \in Monitored, NEW r \in Reliabilities
    PROVE  /\ Evaluated(v, r) \in Reliabilities
           /\ Evaluated(v, r) = "underRange" => v < faultLowLimit
           /\ Evaluated(v, r) = "overRange" => v > faultHighLimit
BY LimitAssumption DEF Evaluated, Reliabilities, NoFault

\* A change puts the algorithm in the queue, unless it is there.
LEMMA EventScheduledLemma ==
    ASSUME EventTypeOK, NEW queue \in Seq(Algorithms),
           scheduled => "event" \in ToSet(queue),
           NEW param \in SUBSET {"reliability", "inhibit", "released"},
           EventScheduled(queue, param)
    PROVE  /\ waiting' \in Seq(Algorithms) /\ "event" \in ToSet(waiting')
           /\ ToSet(waiting') \cup {"event"} = ToSet(queue) \cup {"event"}
           /\ scheduled' \in BOOLEAN
           /\ what_changed' \subseteq {"reliability", "inhibit", "released"}
<1>1. "event" \in Algorithms
  BY DEF Algorithms
<1>2. CASE scheduled
  BY <1>2 DEF EventScheduled, EventTypeOK
<1>3. CASE ~scheduled
  <2>1. /\ waiting' = Append(queue, "event") /\ scheduled' = TRUE
        /\ what_changed' \subseteq what_changed \cup param
    BY <1>3 DEF EventScheduled
  <2>2. /\ waiting' \in Seq(Algorithms)
        /\ ToSet(waiting') = ToSet(queue) \cup {"event"}
    BY <1>1, <2>1, AppendLemma
  <2>3. what_changed \subseteq {"reliability", "inhibit", "released"}
    BY DEF EventTypeOK
  <2> QED  BY <2>1, <2>2, <2>3
<1> QED  BY <1>2, <1>3

LEMMA FaultScheduledLemma ==
    ASSUME NEW queue \in Seq(Algorithms)
    PROVE  /\ FaultScheduled(queue) \in Seq(Algorithms)
           /\ ToSet(FaultScheduled(queue)) = ToSet(queue) \cup {"fault"}
<1>1. "fault" \in Algorithms
  BY DEF Algorithms
<1> QED  BY <1>1, AppendLemma DEF FaultScheduled

-----------------------------------------------------------------------------
\* A write: the event algorithm is put in the queue, with nothing of what it found
\* to be relied on, and the fault algorithm if the value is another.
LEMMA WrittenLemma ==
    ASSUME EventInv, NEW queue \in Seq(Algorithms), ToSet(waiting) \subseteq ToSet(queue),
           NEW param \in SUBSET {"reliability", "inhibit", "released"},
           EventScheduled(queue, param), Write,
           pMonitoredValue' \in Monitored, reliability' \in Reliabilities,
           limitEnable' \subseteq Limits,
           {eventDetectionEnable', eventAlgorithmInhibit',
            reliabilityEvaluationInhibit'} \subseteq BOOLEAN
    PROVE  /\ EventTypeOK' /\ Settled'
           /\ ToSet(waiting') \cup {"event"} = ToSet(queue) \cup {"event"}
<1>1. EventTypeOK /\ (scheduled => "event" \in ToSet(queue))
  BY DEF EventInv, EventTypeOK
<1>2. /\ waiting' \in Seq(Algorithms) /\ "event" \in ToSet(waiting')
      /\ ToSet(waiting') \cup {"event"} = ToSet(queue) \cup {"event"}
      /\ scheduled' \in BOOLEAN
      /\ what_changed' \subseteq {"reliability", "inhibit", "released"}
  BY <1>1, EventScheduledLemma
<1>3. EventTypeOK'
  BY <1>1, <1>2 DEF EventTypeOK, Write, Algorithms
<1>4. Settled'
  BY <1>2 DEF Settled, Looks
<1> QED  BY <1>2, <1>3, <1>4

LEMMA WritesKeep ==
    ASSUME EventInv, Writes
    PROVE  EventInv'
<1>1. EventTypeOK /\ RangeHolds /\ waiting \in Seq(Algorithms)
  BY DEF EventInv, EventTypeOK, Algorithms
<1>2. ASSUME NEW v \in Monitored, WriteValue(v)
      PROVE  EventInv'
  <2>1. /\ FaultScheduled(waiting) \in Seq(Algorithms)
        /\ ToSet(FaultScheduled(waiting)) = ToSet(waiting) \cup {"fault"}
    BY <1>1, FaultScheduledLemma
  <2>2. /\ EventTypeOK' /\ Settled'
        /\ ToSet(waiting') \cup {"event"} = ToSet(FaultScheduled(waiting)) \cup {"event"}
    <3>1. /\ pMonitoredValue' \in Monitored /\ reliability' \in Reliabilities
          /\ limitEnable' \subseteq Limits
          /\ {eventDetectionEnable', eventAlgorithmInhibit',
               reliabilityEvaluationInhibit'} \subseteq BOOLEAN
      BY <1>1, <1>2 DEF WriteValue, EventTypeOK, switches
    <3>2. EventScheduled(FaultScheduled(waiting), {}) /\ Write
      BY <1>2 DEF WriteValue
    <3> QED  BY <2>1, <3>1, <3>2, WrittenLemma
  <2>3. "fault" \in ToSet(waiting')
    BY <2>1, <2>2
  <2> QED  BY <2>2, <2>3 DEF EventInv, RangeHolds
<1>3. ASSUME NEW r \in Given \cup {NoFault}, WriteReliability(r)
      PROVE  EventInv'
  <2>1. EventTypeOK' /\ Settled'
    <3>1. /\ pMonitoredValue' \in Monitored /\ reliability' \in Reliabilities
          /\ limitEnable' \subseteq Limits
          /\ {eventDetectionEnable', eventAlgorithmInhibit',
               reliabilityEvaluationInhibit'} \subseteq BOOLEAN
      BY <1>1, <1>3 DEF WriteReliability, EventTypeOK, switches, Reliabilities
    <3>2. EventScheduled(waiting, {"reliability"}) /\ Write
      BY <1>3 DEF WriteReliability, Set
    <3> QED  BY <1>1, <3>1, <3>2, WrittenLemma
  <2>2. RangeHolds'
    BY <1>3, LimitAssumption DEF WriteReliability, RangeHolds, NoFault
  <2> QED  BY <2>1, <2>2 DEF EventInv
<1>4. ASSUME NEW enabled \in SUBSET Limits,
             \/ WriteLimitEnable(enabled) \/ WriteDetectionEnable \/ WriteAlgorithmInhibit
      PROVE  EventInv'
  <2>1. PICK param \in SUBSET {"reliability", "inhibit", "released"} :
            EventScheduled(waiting, param)
    BY <1>4 DEF WriteLimitEnable, WriteDetectionEnable, WriteAlgorithmInhibit
  <2>2. /\ Write
        /\ UNCHANGED <<pMonitoredValue, reliability, reliabilityEvaluationInhibit>>
        /\ limitEnable' \subseteq Limits
        /\ {eventDetectionEnable', eventAlgorithmInhibit'} \subseteq BOOLEAN
    BY <1>1, <1>4 DEF WriteLimitEnable, WriteDetectionEnable, WriteAlgorithmInhibit,
                      Set, EventTypeOK
  <2>3. /\ EventTypeOK' /\ Settled'
        /\ ToSet(waiting') \cup {"event"} = ToSet(waiting) \cup {"event"}
    <3>1. /\ pMonitoredValue' \in Monitored /\ reliability' \in Reliabilities
          /\ {eventDetectionEnable', eventAlgorithmInhibit',
               reliabilityEvaluationInhibit'} \subseteq BOOLEAN
      BY <1>1, <2>2 DEF EventTypeOK
    <3> QED  BY <1>1, <2>1, <2>2, <3>1, WrittenLemma
  <2>4. RangeHolds'
    <3>1. "fault" \in ToSet(waiting') <=> "fault" \in ToSet(waiting)
      BY <2>3
    <3> QED  BY <1>1, <2>2, <3>1 DEF RangeHolds
  <2> QED  BY <2>3, <2>4 DEF EventInv
<1>5. ASSUME WriteEvaluationInhibit
      PROVE  EventInv'
  <2>1. /\ waiting' \in Seq(Algorithms)
        /\ ToSet(waiting') = ToSet(waiting) \cup {"fault"}
    BY <1>1, <1>5, FaultScheduledLemma DEF WriteEvaluationInhibit
  <2>2. EventTypeOK'
    BY <1>1, <1>5, <2>1 DEF WriteEvaluationInhibit, Set, Write, EventTypeOK, Algorithms
  <2>3. Settled'
    BY <1>5, <2>1 DEF EventInv, Settled, Looks, WriteEvaluationInhibit, Set, Write,
                      Requested, Fits, Above, Below
  <2> QED  BY <2>1, <2>2, <2>3 DEF EventInv, RangeHolds
<1> QED  BY <1>2, <1>3, <1>4, <1>5 DEF Writes

LEMMA ExecuteFaultKeeps ==
    ASSUME EventInv, ExecuteFault
    PROVE  EventInv'
<1> DEFINE queue == Tail(waiting)
           evaluated == IF reliabilityEvaluationInhibit THEN reliability
                        ELSE Evaluated(pMonitoredValue, reliability)
<1>1. EventTypeOK /\ RangeHolds /\ waiting \in Seq(Algorithms)
  BY DEF EventInv, EventTypeOK, Algorithms
<1>2. waiting # <<>> /\ Head(waiting) = "fault"
  BY DEF ExecuteFault
<1>3. /\ queue \in Seq(Algorithms) /\ ToSet(queue) \subseteq ToSet(waiting)
      /\ ToSet(waiting) \subseteq ToSet(queue) \cup {"fault"}
  BY <1>1, <1>2, TailLemma
<1>4. /\ reliability' = evaluated /\ Write
      /\ UNCHANGED <<pMonitoredValue, switches>>
  BY DEF ExecuteFault
<1>5. /\ evaluated \in Reliabilities
      /\ ~reliabilityEvaluationInhibit =>
            /\ evaluated = "underRange" => pMonitoredValue < faultLowLimit
            /\ evaluated = "overRange" => pMonitoredValue > faultHighLimit
  BY <1>1, EvaluatedLemma DEF EventTypeOK
<1>6. RangeHolds'
  BY <1>4, <1>5 DEF RangeHolds, switches
<1>7. CASE evaluated = reliability /\ waiting' = queue /\ UNCHANGED <<scheduled, what_changed>>
  <2>1. EventTypeOK'
    BY <1>1, <1>3, <1>4, <1>5, <1>7 DEF EventTypeOK, Write, switches, Algorithms
  <2>2. Settled'
    <3>1. Looks' <=> Looks
      BY <1>3, <1>7 DEF Looks
    <3> QED  BY <1>4, <3>1 DEF EventInv, Settled, Write, switches, Requested, Fits, Above, Below
  <2> QED  BY <1>6, <2>1, <2>2 DEF EventInv
<1>8. CASE EventScheduled(queue, {"reliability"})
  <2>1. scheduled => "event" \in ToSet(queue)
    BY <1>1, <1>3 DEF EventTypeOK
  <2>2. /\ waiting' \in Seq(Algorithms) /\ "event" \in ToSet(waiting')
        /\ scheduled' \in BOOLEAN
        /\ what_changed' \subseteq {"reliability", "inhibit", "released"}
    BY <1>1, <1>3, <1>8, <2>1, EventScheduledLemma
  <2>3. EventTypeOK'
    BY <1>1, <1>4, <1>5, <2>2 DEF EventTypeOK, Write, switches, Algorithms
  <2> QED  BY <1>6, <2>2, <2>3 DEF EventInv, Settled, Looks
<1> QED  BY <1>7, <1>8 DEF ExecuteFault

-----------------------------------------------------------------------------
\* The state the object is in, the one a timer brings, and the queue, after the
\* transition the algorithm asks for.
LEMMA StateTransitionLemma ==
    ASSUME EventTypeOK, NEW queue \in Seq(Algorithms),
           NEW new \in EventStates \cup {Unset},
           StateTransition(eventState, new, transition_state, queue)
    PROVE  /\ eventState' \in EventStates
           /\ transition_state' \in EventStates \cup {Unset}
           /\ waiting' \in Seq(Algorithms) /\ ToSet(queue) \subseteq ToSet(waiting')
<1>1. eventState \in EventStates /\ transition_state \in EventStates \cup {Unset}
  BY DEF EventTypeOK
<1>2. CASE Stay(queue)
  BY <1>1, <1>2 DEF StateTransition, Stay, Transit
<1>3. CASE Transit(eventState, new, queue) /\ new # Unset
  <2>1. waiting' = Append(queue, "again") \/ waiting' = queue
    BY <1>3 DEF Transit
  <2>2. /\ Append(queue, "again") \in Seq(Algorithms)
        /\ ToSet(Append(queue, "again")) = ToSet(queue) \cup {"again"}
    BY AppendLemma DEF Algorithms
  <2>3. eventState' \in EventStates
    BY <1>3 DEF Transit
  <2>4. transition_state' \in EventStates \cup {Unset}
    <3>1. transition_state' \in {transition_state, Unset, new}
      BY DEF StateTransition
    <3> QED  BY <1>1, <3>1
  <2> QED  BY <2>1, <2>2, <2>3, <2>4
<1> QED  BY <1>2, <1>3 DEF StateTransition

LEMMA ExecuteEventKeeps ==
    ASSUME EventInv, ExecuteEvent
    PROVE  EventInv'
<1> DEFINE queue == Tail(waiting)
           new == Requested(eventState, pMonitoredValue)
<1>1. /\ EventTypeOK /\ RangeHolds /\ waiting \in Seq(Algorithms)
      /\ eventState \in EventStates /\ pMonitoredValue \in Monitored
      /\ what_changed \subseteq {"reliability", "inhibit", "released"}
  BY DEF EventInv, EventTypeOK, Algorithms
<1>2. /\ waiting # <<>> /\ Head(waiting) \in {"event", "again"}
      /\ current_state' = eventState
      /\ UNCHANGED <<pMonitoredValue, reliability, configuration, switches>>
  BY DEF ExecuteEvent
<1>3. /\ queue \in Seq(Algorithms) /\ ToSet(queue) \subseteq ToSet(waiting)
      /\ "fault" \in ToSet(waiting) => "fault" \in ToSet(queue)
  BY <1>1, <1>2, TailLemma
<1>4. "normal" \in EventStates /\ "fault" \in EventStates
  BY DEF EventStates
\* It is enough that the queue and the states are, and that what was looked at fits.
<1>5. ASSUME /\ eventState' \in EventStates
             /\ transition_state' \in EventStates \cup {Unset}
             /\ what_changed' \subseteq {"reliability", "inhibit", "released"}
             /\ scheduled' \in BOOLEAN
             /\ scheduled' => "event" \in ToSet(waiting'),
             waiting' \in Seq(Algorithms),
             "fault" \in ToSet(queue) => "fault" \in ToSet(waiting'),
             Settled'
      PROVE  EventInv'
  <2>1. EventTypeOK'
    BY <1>1, <1>2, <1>5 DEF EventTypeOK, switches, Algorithms
  <2>2. RangeHolds'
    BY <1>1, <1>2, <1>3, <1>5 DEF RangeHolds, switches
  <2> QED  BY <1>5, <2>1, <2>2 DEF EventInv
<1>6. CASE Disabled(queue)
  <2>1. /\ eventState' \in EventStates
        /\ transition_state' \in EventStates \cup {Unset}
        /\ what_changed' = {} /\ ~looked'
    BY <1>1, <1>4, <1>6 DEF Disabled, EventTypeOK
  <2>2. \/ waiting' = queue /\ scheduled' = FALSE
        \/ waiting' = Append(queue, "event") /\ scheduled' = TRUE
    BY <1>6 DEF Disabled
  <2>3. /\ Append(queue, "event") \in Seq(Algorithms)
        /\ ToSet(Append(queue, "event")) = ToSet(queue) \cup {"event"}
    BY <1>3, AppendLemma DEF Algorithms
  <2> QED  BY <1>3, <1>5, <2>1, <2>2, <2>3 DEF Settled
<1>7. ASSUME scheduled' = FALSE, ReliabilityChanged(queue)
      PROVE  EventInv'
  <2>1. /\ eventState' \in EventStates
        /\ transition_state' \in EventStates \cup {Unset}
        /\ waiting' \in Seq(Algorithms) /\ ToSet(queue) \subseteq ToSet(waiting')
    <3>1. CASE Stay(queue) /\ UNCHANGED transition_state
      BY <1>1, <1>3, <3>1 DEF Stay, EventTypeOK
    <3>2. ASSUME NEW state \in {"normal", "fault"},
                 StateTransition(eventState, state, transition_state, queue)
          PROVE  /\ eventState' \in EventStates
                 /\ transition_state' \in EventStates \cup {Unset}
                 /\ waiting' \in Seq(Algorithms) /\ ToSet(queue) \subseteq ToSet(waiting')
      BY <1>1, <1>3, <1>4, <3>2, StateTransitionLemma
    <3> QED  BY <1>7, <3>1, <3>2 DEF ReliabilityChanged
  <2>2. what_changed' \subseteq {"reliability", "inhibit", "released"} /\ ~looked'
    BY <1>1, <1>7 DEF ReliabilityChanged
  <2> QED  BY <1>5, <1>7, <2>1, <2>2 DEF Settled
<1>8. ASSUME scheduled' = FALSE, Inhibited(queue)
      PROVE  EventInv'
  <2>1. /\ eventState' \in EventStates /\ transition_state' = Unset
        /\ what_changed' = {} /\ ~looked'
        /\ waiting' = Append(queue, "again") \/ waiting' = queue
    BY <1>1, <1>4, <1>8 DEF Inhibited, Transit, Stay
  <2>2. /\ Append(queue, "again") \in Seq(Algorithms)
        /\ ToSet(Append(queue, "again")) = ToSet(queue) \cup {"again"}
    BY <1>3, AppendLemma DEF Algorithms
  <2> QED  BY <1>3, <1>5, <1>8, <2>1, <2>2 DEF Settled
<1>9. ASSUME scheduled' = FALSE, Detects(queue)
      PROVE  EventInv'
  <2>1. what_changed' = {}
    BY <1>9 DEF Detects
  <2>2. CASE Stay(queue) /\ UNCHANGED transition_state /\ ~looked'
    <3>1. /\ eventState' \in EventStates /\ waiting' = queue
          /\ transition_state' \in EventStates \cup {Unset}
      BY <1>1, <2>2 DEF Stay, EventTypeOK
    <3> QED  BY <1>3, <1>5, <1>9, <2>1, <2>2, <3>1 DEF Settled
  <2>3. CASE StateTransition(eventState, new, transition_state, queue)
    <3> HIDE DEF new
    <3>1. /\ new \in EventStates \cup {Unset} /\ new # eventState
          /\ new = Unset => Fits(eventState, pMonitoredValue)
          /\ new # Unset => \/ Fits(new, pMonitoredValue)
                            \/ new = "normal" /\ limitEnable # Limits
      BY <1>1, RequestedFits DEF new
    <3>2. /\ eventState' \in EventStates
          /\ transition_state' \in EventStates \cup {Unset}
          /\ waiting' \in Seq(Algorithms) /\ ToSet(queue) \subseteq ToSet(waiting')
      BY <1>1, <1>3, <2>3, <3>1, StateTransitionLemma
    <3>3. \/ /\ transition_state' = Unset
             /\ \/ Fits(eventState', pMonitoredValue)
                \/ eventState' = "normal" /\ limitEnable # Limits
          \/ /\ transition_state' # Unset /\ transition_state' = new
             /\ eventState' = eventState
      BY <2>3, <3>1 DEF StateTransition, Stay, Transit
    <3>4. Settled'
      BY <1>2, <3>3 DEF new, Settled, switches, Requested, Fits, Above, Below
    <3> QED  BY <1>5, <1>9, <2>1, <3>2, <3>4
  <2> QED  BY <1>9, <2>2, <2>3 DEF Detects
<1> QED  BY <1>6, <1>7, <1>8, <1>9 DEF ExecuteEvent

\* The timer brings the state it was set for, which is then the one that fits.
LEMMA TransitionDelayedKeeps ==
    ASSUME EventInv, TransitionDelayed
    PROVE  EventInv'
<1>1. /\ EventTypeOK /\ RangeHolds /\ waiting \in Seq(Algorithms)
      /\ eventState \in EventStates /\ pMonitoredValue \in Monitored
      /\ transition_state \in EventStates
  BY DEF EventInv, EventTypeOK, Algorithms, TransitionDelayed
<1>2. /\ eventState' = transition_state /\ transition_state' = Unset
      /\ waiting' = Append(waiting, "again") \/ waiting' = waiting
      /\ UNCHANGED <<pMonitoredValue, reliability, switches, current_state, what_changed,
                     scheduled, looked>>
  BY DEF TransitionDelayed, Transit
<1>3. /\ Append(waiting, "again") \in Seq(Algorithms)
      /\ ToSet(Append(waiting, "again")) = ToSet(waiting) \cup {"again"}
  BY <1>1, AppendLemma DEF Algorithms
<1>4. waiting' \in Seq(Algorithms) /\ ToSet(waiting) \subseteq ToSet(waiting')
  BY <1>1, <1>2, <1>3
<1>5. EventTypeOK'
  BY <1>1, <1>2, <1>4 DEF EventTypeOK, switches, Algorithms
<1>6. RangeHolds'
  BY <1>1, <1>2, <1>4 DEF RangeHolds, switches
<1>7. Settled'
  <2>1. SUFFICES ASSUME looked, ~Looks
                 PROVE  Settled'
    BY <1>2, <1>4 DEF Settled, Looks
  <2>2. transition_state = Requested(eventState, pMonitoredValue) /\ transition_state # Unset
    BY <1>1, <2>1 DEF EventInv, Settled, TransitionDelayed
  <2>3. \/ Fits(transition_state, pMonitoredValue)
        \/ transition_state = "normal" /\ limitEnable # Limits
    BY <1>1, <2>2, RequestedFits
  <2> QED  BY <1>2, <2>3 DEF Settled, switches, Fits, Above, Below
<1> QED  BY <1>5, <1>6, <1>7 DEF EventInv

-----------------------------------------------------------------------------
LEMMA Invariance == Spec => []EventInv
<1>1. Init => EventInv
  <2> SUFFICES ASSUME Init PROVE EventInv
    OBVIOUS
  <2>1. EventTypeOK
    <3>1. /\ reliability \in Reliabilities /\ eventState \in EventStates
          /\ waiting \in Seq({"fault", "event", "again"})
      BY DEF Init, Reliabilities, EventStates
    <3>2. {scheduled, eventDetectionEnable, eventAlgorithmInhibit,
           reliabilityEvaluationInhibit} \subseteq BOOLEAN
      BY DEF Init
    <3> QED  BY <3>1, <3>2 DEF Init, EventTypeOK
  <2>2. RangeHolds /\ Settled
    BY DEF Init, RangeHolds, Settled, NoFault
  <2> QED  BY <2>1, <2>2 DEF EventInv
<1>2. EventInv /\ [Next]_vars => EventInv'
  <2> SUFFICES ASSUME EventInv, [Next]_vars PROVE EventInv'
    OBVIOUS
  <2>1. CASE Writes
    BY <2>1, WritesKeep
  <2>2. CASE ExecuteFault
    BY <2>2, ExecuteFaultKeeps
  <2>3. CASE ExecuteEvent
    BY <2>3, ExecuteEventKeeps
  <2>4. CASE TransitionDelayed
    BY <2>4, TransitionDelayedKeeps
  <2>5. CASE UNCHANGED vars
    BY <2>5 DEF EventInv, EventTypeOK, RangeHolds, Settled, Looks, Requested, Fits, Above,
                Below, vars, configuration, switches, algorithm
  <2> QED  BY <2>1, <2>2, <2>3, <2>4, <2>5 DEF Next, Loop
<1> QED  BY <1>1, <1>2, PTL DEF Spec

\* Whatever the limits, the deadband and the delays, and however the writes fall
\* between the runs of the two algorithms (local/event.py:256, local/object.py): at
\* rest, the state fits the value, if the last run looked at it.
THEOREM StatesFit == Spec => []StateFitsValue
<1>1. EventInv => StateFitsValue
  BY EmptyLemma DEF EventInv, Settled, Looks, StateFitsValue, AtRest
<1> QED  BY <1>1, Invariance, PTL

\* A transition left to its timer (state_transition, local/event.py:460) is the one
\* the value asks for, from the state the object is in, when nothing is left to run.
THEOREM PendingDue == Spec => []PendingIsDue
<1>1. EventInv => PendingIsDue
  BY EmptyLemma DEF EventInv, Settled, Looks, PendingIsDue
<1> QED  BY <1>1, Invariance, PTL

\* A fault of range that the fault algorithm (local/fault.py) has no more to look at is
\* that of the value, whatever else the program writes.
THEOREM FaultsFit == Spec => []FaultOfValue
<1>1. EventInv => FaultOfValue
  BY EmptyLemma DEF EventInv, RangeHolds, FaultOfValue
<1> QED  BY <1>1, Invariance, PTL
=============================================================================
