---------------------------- MODULE ChangeOfValue ----------------------------
(***************************************************************************)
(* Change of value reporting of a commandable analog object: the criteria  *)
(* with an increment (local/cov.py) and the subscriptions of its clients   *)
(* (service/cov.py).  A client is an address with a process identifier.    *)
(*                                                                         *)
(* The first subscription makes a detection, which listens to the object;  *)
(* a change worth reporting puts its execution in the queue of the event   *)
(* loop.  A client that has subscribed is told alone, after the answer to  *)
(* its request.                                                            *)
(***************************************************************************)
EXTENDS Commandable, SequencesExt

CONSTANTS
    Clients,
    Increments,     \* values of covIncrement
    Lifetimes,      \* what the clients ask for, in seconds; 0 is without end
    MaxWrites       \* bound: writes of the object

ASSUME CovAssumption ==
    /\ Values \subseteq Int
    /\ Increments \subseteq Nat /\ Lifetimes \subseteq Nat
    /\ MaxWrites \in Nat
    /\ "execute" \notin Clients

VARIABLES
    covIncrement,
    writes,         \* counter of the writes
    bound,          \* the object has a detection, in _cov_detections
    previously,     \* its previously_reported_value
    subs,           \* cov_subscriptions: "none", "timed" or "permanent"
    answering,      \* the clients whose subscription is being answered
    ready,          \* what the loop is about to run: "execute", or telling a client
    told,           \* history: the value last sent to a subscriber
    aside           \* history: subscribers passed over since, another was told alone

covVars == <<covIncrement, writes, bound, previously, subs, answering, ready, told, aside>>

Subscribed == {c \in Clients : subs[c] # "none"}

\* What is reported of a value, and what a change is.
Close(reported, value) ==
    reported = value \/ value - reported \in (1 - covIncrement)..(covIncrement - 1)

(***************************************************************************)
(* The detection                                                           *)
(***************************************************************************)

\* Wrong: a change is one from the value before.
PropertyChangeStep ==
    \/ /\ presentValue' = presentValue \/ ~bound \/ "execute" \in ToSet(ready)
       /\ UNCHANGED <<previously, ready>>
    \/ /\ presentValue' # presentValue /\ bound /\ "execute" \notin ToSet(ready)
       /\ UNCHANGED previously
       /\ ready' = IF covIncrement > 0 /\ Close(presentValue, presentValue')
                   THEN ready ELSE Append(ready, "execute")

\* DetectionMonitor.property_change with the filter of the present value: while
\* the detection is scheduled the filter is not asked.
PropertyChange ==
    \/ /\ presentValue' = presentValue \/ ~bound \/ "execute" \in ToSet(ready)
       /\ UNCHANGED <<previously, ready>>
    \/ /\ presentValue' # presentValue /\ bound /\ "execute" \notin ToSet(ready)
       /\ previously' = IF previously = Null THEN presentValue ELSE previously
       /\ ready' = IF covIncrement > 0 /\ Close(previously', presentValue')
                   THEN ready ELSE Append(ready, "execute")

\* The object is written.
WriteObject ==
    /\ writes < MaxWrites
    /\ writes' = writes + 1
    /\ NextCommandable
    /\ PropertyChange
    /\ UNCHANGED <<covIncrement, bound, subs, answering, told, aside>>

\* The increment is a parameter without a filter: any change of it is reported.
WriteIncrement(increment) ==
    /\ writes < MaxWrites
    /\ writes' = writes + 1
    /\ increment # covIncrement
    /\ covIncrement' = increment
    /\ ready' = IF bound /\ "execute" \notin ToSet(ready)
                THEN Append(ready, "execute") ELSE ready
    /\ UNCHANGED <<commandableVars, bound, previously, subs, answering, told, aside>>

\* Wrong: only if there is a subscription.
ReportIfAny(audience) ==
    /\ previously' = IF Subscribed = {} THEN previously ELSE presentValue
    /\ told' = [c \in Clients |-> IF c \in audience THEN presentValue ELSE told[c]]
    /\ aside' = {c \in Subscribed \ audience : c \in aside \/ told[c] # presentValue}

\* send_cov_notifications keeps the value as the one reported.
Report(audience) ==
    /\ previously' = presentValue
    /\ told' = [c \in Clients |-> IF c \in audience THEN presentValue ELSE told[c]]
    /\ aside' = {c \in Subscribed \ audience : c \in aside \/ told[c] # presentValue}

\* The detection executes: all the subscribers of the moment.
Execute ==
    /\ ready # <<>> /\ Head(ready) = "execute"
    /\ ready' = Tail(ready)
    /\ Report(Subscribed)
    /\ UNCHANGED <<commandableVars, covIncrement, writes, bound, subs, answering>>

\* The notification of one new or renewed subscription; one cancelled meanwhile
\* is sent too, when the object has other subscribers.
TellOne ==
    /\ ready # <<>> /\ Head(ready) \in Clients
    /\ ready' = Tail(ready)
    /\ Report({Head(ready)} \cap Subscribed)
    /\ UNCHANGED <<commandableVars, covIncrement, writes, bound, subs, answering>>

(***************************************************************************)
(* The subscriptions                                                       *)
(***************************************************************************)

\* A new detection starts without a value reported; what is there stays.
Detect ==
    /\ bound' = TRUE
    /\ UNCHANGED previously

\* do_SubscribeCOVRequest with a lifetime, Null when the request has none: then
\* comparing it fails, after a new detection was made and an old timer cancelled,
\* and there is no notification.  Bound: a client's next subscription comes when it
\* has been told after the one before.
Subscribe(c, lifetime) ==
    /\ c \notin answering \cup ToSet(ready)
    /\ Detect
    /\ subs' = [subs EXCEPT ![c] = IF lifetime = Null
                                   THEN IF @ = "none" THEN "none" ELSE "permanent"
                                   ELSE IF lifetime > 0 THEN "timed" ELSE "permanent"]
    /\ answering' = IF lifetime = Null THEN answering ELSE answering \cup {c}
    /\ UNCHANGED <<commandableVars, covIncrement, writes, ready, told, aside>>

\* Wrong: only if nothing else is ready.
RespondedIdle(c) ==
    /\ c \in answering
    /\ answering' = answering \ {c}
    /\ ready' = IF ready = <<>> THEN <<c>> ELSE ready
    /\ UNCHANGED <<commandableVars, covIncrement, writes, bound, previously, subs, told, aside>>

\* The answer has been sent: tell the client as soon as the loop can.
Responded(c) ==
    /\ c \in answering
    /\ answering' = answering \ {c}
    /\ ready' = Append(ready, c)
    /\ UNCHANGED <<commandableVars, covIncrement, writes, bound, previously, subs, told, aside>>

\* cancel_subscription; with the last one the detection is unbound, and what is
\* still to run of it finds no subscription.
Unsubscribe(c) ==
    /\ subs' = [subs EXCEPT ![c] = "none"]
    /\ told' = [told EXCEPT ![c] = Null]
    /\ aside' = aside \ {c}
    /\ \/ Subscribed # {c} /\ UNCHANGED <<bound, previously, ready, answering>>
       \/ Subscribed = {c} /\ bound' = FALSE /\ previously' = Null
                           /\ ready' = <<>> /\ answering' = {}

\* A request without lifetime and confirmation cancels.  The detection made to
\* look for a subscription in stays, without one.
Cancel(c) ==
    /\ \/ subs[c] # "none" /\ Unsubscribe(c)
       \/ subs[c] = "none" /\ Detect /\ UNCHANGED <<subs, answering, ready, told, aside>>
    /\ UNCHANGED <<commandableVars, covIncrement, writes>>

\* The lifetime of a subscription ends.
Expire(c) ==
    /\ subs[c] = "timed"
    /\ Unsubscribe(c)
    /\ UNCHANGED <<commandableVars, covIncrement, writes>>

(***************************************************************************)
(* The object and its subscriptions                                        *)
(***************************************************************************)

InitCov ==
    /\ InitCommandable
    /\ covIncrement \in Increments
    /\ writes = 0
    /\ bound = FALSE
    /\ previously = Null
    /\ subs = [c \in Clients |-> "none"]
    /\ answering = {}
    /\ ready = <<>>
    /\ told = [c \in Clients |-> Null]
    /\ aside = {}

Device ==
    \/ WriteObject
    \/ \E increment \in Increments : WriteIncrement(increment)
    \/ \E c \in Clients : Responded(c) \/ Expire(c)
    \/ Execute \/ TellOne

RequestOf(c) ==
    \/ Cancel(c)
    \/ \E lifetime \in Lifetimes \cup {Null} : Subscribe(c, lifetime)

NextCov == Device \/ \E c \in Clients : RequestOf(c)

SpecCov == InitCov /\ [][NextCov]_<<commandableVars, covVars>>

(***************************************************************************)
(* Properties                                                              *)
(***************************************************************************)

CovTypeOK ==
    /\ covIncrement \in Increments
    /\ writes \in 0..MaxWrites
    /\ bound \in BOOLEAN
    /\ previously \in Values \cup {Null}
    /\ subs \in [Clients -> {"none", "timed", "permanent"}]
    /\ answering \subseteq Clients
    /\ ready \in Seq(Clients \cup {"execute"})
    /\ told \in [Clients -> Values \cup {Null}]
    /\ aside \subseteq Clients

\* Every subscriber is in the list of the detection the object is bound to, so
\* that cancelling finds it; what is left to run belongs to that detection.
SubscribedIsBound ==
    /\ Subscribed # {} => bound
    /\ ~bound => ready = <<>> /\ answering = {} /\ previously = Null

\* With nothing left to run, the value a detection has reported is within the
\* increment of the present one, whether it reported it to anyone or not.
ReportedValueIsClose ==
    (ready = <<>> /\ previously # Null) => Close(previously, presentValue)

\* A subscriber that was not told a value yet is about to be.
FirstNotification ==
    \A c \in Subscribed : told[c] = Null => c \in answering \cup ToSet(ready)

\* With nothing left to run, a subscriber knows the present value to within the
\* increment, unless another was told alone since and this one was passed over:
\* then the detection compares with a value this one has not seen.
SubscriberIsTold ==
    ready = <<>> =>
        \A c \in Subscribed \ aside : told[c] # Null => Close(told[c], presentValue)

=============================================================================
