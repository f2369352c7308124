---------------------------- MODULE EventReporting ----------------------------
(***************************************************************************)
(* Intrinsic reporting and fault detection of an analog object: the fault  *)
(* algorithm (local/fault.py) and the event algorithm (local/event.py) of  *)
(* type out-of-range, and the parameters through which the properties of   *)
(* the object start them (local/object.py).                                *)
(*                                                                         *)
(* A changed property does not run an algorithm: it puts the algorithm in  *)
(* the queue of the event loop, once.  What changes until it runs is not   *)
(* recorded.  A transition may be delayed by a timer.                      *)
(***************************************************************************)
EXTENDS Integers, SequencesExt

CONSTANTS
    Monitored,          \* values of the property, presentValue, that is monitored
    lowLimit, highLimit, deadband,
    faultLowLimit, faultHighLimit,
    Given,              \* the reliabilities the program itself sets
    Delays,             \* values of timeDelay: 0, or a number of seconds
    MaxSettings,        \* bound: writes of something else than the value
    MaxReady,           \* bound: a write when so many algorithms wait already
    Unset               \* no timeDelayNormal, and no state

ASSUME EventAssumption ==
    /\ Monitored \subseteq Int
    /\ {lowLimit, highLimit, deadband, faultLowLimit, faultHighLimit} \subseteq Int
    /\ Delays \subseteq Nat
    /\ Unset \notin Delays /\ Unset \notin {"normal", "fault", "lowLimit", "highLimit"}

\* Limits that make sense; nothing in the code checks them.  The reliabilities that
\* the fault algorithm gives are its own.
ASSUME LimitAssumption ==
    /\ lowLimit <= highLimit /\ deadband >= 0
    /\ Given \cap {"underRange", "overRange"} = {}

VARIABLES
    pMonitoredValue,    \* the object's presentValue
    reliability,
    eventState,
    timeDelay,
    timeDelayNormal,
    limitEnable,                    \* the limits that are enabled
    eventDetectionEnable,
    eventAlgorithmInhibit,
    reliabilityEvaluationInhibit,
    current_state,      \* _current_state: eventState when the algorithm last ran
    what_changed,       \* _what_changed, what of it the algorithm looks at
    scheduled,          \* _execute_handle of the event algorithm is set
    transition_state,   \* the state a timer will bring, Unset when there is none
    waiting,            \* the algorithms the loop is about to run, in order
    settings,           \* counter of those writes
    looked              \* history: the last run looked at the value

configuration == <<timeDelay, timeDelayNormal>>
switches == <<limitEnable, eventDetectionEnable, eventAlgorithmInhibit,
              reliabilityEvaluationInhibit>>
algorithm == <<current_state, what_changed, scheduled, transition_state>>
vars == <<pMonitoredValue, reliability, eventState, configuration, switches,
          algorithm, waiting, settings, looked>>

Limits == {"low", "high"}
EventStates == {"normal", "fault", "lowLimit", "highLimit"}
NoFault == "noFaultDetected"
Reliabilities == {NoFault, "underRange", "overRange"} \cup Given

(***************************************************************************)
(* Parameters                                                              *)
(***************************************************************************)

\* Parameter.property_change of the fault algorithm.
FaultScheduled(queue) ==
    IF "fault" \in ToSet(queue) THEN queue ELSE Append(queue, "fault")

\* Parameter.property_change of the event algorithm: while it is scheduled, a
\* change is not recorded.  The parameters that matter are the reliability, and
\* the inhibit with its new value.
Told(param) == IF param \subseteq {"inhibit", "released"} THEN {"inhibit", "released"} ELSE param

\* Wrong: the handle of the last run is not given up.
EventScheduledOnce(queue, param) ==
    /\ waiting' = IF current_state # Unset THEN queue ELSE Append(queue, "event")
    /\ scheduled' = ("event" \in ToSet(waiting'))
    /\ what_changed' = what_changed \cup param

EventScheduled(queue, param) ==
    \/ /\ scheduled
       /\ waiting' = queue
       /\ UNCHANGED <<scheduled, what_changed>>
    \/ /\ ~scheduled
       /\ waiting' = Append(queue, "event")
       /\ scheduled' = TRUE
       /\ what_changed' = (what_changed \ Told(param)) \cup param

(***************************************************************************)
(* What the program and the network write                                  *)
(***************************************************************************)

Write == UNCHANGED <<eventState, configuration, current_state, transition_state, looked>>

Set ==
    /\ settings < MaxSettings
    /\ settings' = settings + 1
    /\ Write

\* The value is a parameter of both algorithms, the fault algorithm's first.
WriteValue(v) ==
    /\ v # pMonitoredValue
    /\ pMonitoredValue' = v
    /\ EventScheduled(FaultScheduled(waiting), {})
    /\ Write
    /\ UNCHANGED <<reliability, switches, settings>>

\* The program sets the reliability, as it does out of service.
WriteReliability(r) ==
    /\ r # reliability
    /\ reliability' = r
    /\ EventScheduled(waiting, {"reliability"})
    /\ Set
    /\ UNCHANGED <<pMonitoredValue, switches>>

WriteLimitEnable(enabled) ==
    /\ enabled # limitEnable
    /\ limitEnable' = enabled
    /\ EventScheduled(waiting, {})
    /\ Set
    /\ UNCHANGED <<pMonitoredValue, reliability, eventDetectionEnable,
                   eventAlgorithmInhibit, reliabilityEvaluationInhibit>>

WriteDetectionEnable ==
    /\ eventDetectionEnable' = ~eventDetectionEnable
    /\ EventScheduled(waiting, {})
    /\ Set
    /\ UNCHANGED <<pMonitoredValue, reliability, limitEnable,
                   eventAlgorithmInhibit, reliabilityEvaluationInhibit>>

WriteAlgorithmInhibit ==
    /\ eventAlgorithmInhibit' = ~eventAlgorithmInhibit
    /\ EventScheduled(waiting, {IF eventAlgorithmInhibit THEN "released" ELSE "inhibit"})
    /\ Set
    /\ UNCHANGED <<pMonitoredValue, reliability, limitEnable, eventDetectionEnable,
                   reliabilityEvaluationInhibit>>

\* Only the fault algorithm listens to this one.
WriteEvaluationInhibit ==
    /\ reliabilityEvaluationInhibit' = ~reliabilityEvaluationInhibit
    /\ waiting' = FaultScheduled(waiting)
    /\ Set
    /\ UNCHANGED <<pMonitoredValue, reliability, limitEnable, eventDetectionEnable,
                   eventAlgorithmInhibit, scheduled, what_changed>>

(***************************************************************************)
(* The fault algorithm                                                     *)
(***************************************************************************)

\* OutOfRangeFaultAlgorithm.execute: a value beyond a limit, looked at first
\* from the side the fault is not on; a reliability of another kind stays.
\* Wrong: a value that changes sides keeps the fault it had.
EvaluatedOnce(value, now) ==
    IF now \notin {NoFault, "underRange", "overRange"} THEN now
    ELSE IF value \in faultLowLimit..faultHighLimit THEN NoFault
    ELSE IF now # NoFault THEN now
    ELSE IF value < faultLowLimit THEN "underRange" ELSE "overRange"

Evaluated(value, now) ==
    LET under == value < faultLowLimit
        over  == value > faultHighLimit
    IN  IF now \notin {NoFault, "underRange", "overRange"} THEN now
        ELSE CASE now = "underRange" /\ over -> "overRange"
               [] now # "underRange" /\ under -> "underRange"
               [] now = NoFault /\ over /\ ~under -> "overRange"
               [] ~under /\ ~over -> NoFault
               [] OTHER -> now

\* FaultAlgorithm._execute: the evaluated reliability becomes the object's, and
\* a change of it is one of a parameter of the event algorithm.
ExecuteFault ==
    /\ waiting # <<>> /\ Head(waiting) = "fault"
    /\ LET evaluated == IF reliabilityEvaluationInhibit THEN reliability
                        ELSE Evaluated(pMonitoredValue, reliability)
       IN
       /\ reliability' = evaluated
       /\ \/ /\ evaluated = reliability
             /\ waiting' = Tail(waiting)
             /\ UNCHANGED <<scheduled, what_changed>>
          \/ /\ evaluated # reliability
             /\ EventScheduled(Tail(waiting), {"reliability"})
    /\ Write
    /\ UNCHANGED <<pMonitoredValue, switches, settings>>

(***************************************************************************)
(* The event algorithm                                                     *)
(***************************************************************************)

\* OutOfRangeEventAlgorithm.execute: the state it asks for in state s, Unset
\* when s is fine.
Above(v) == "high" \in limitEnable /\ v > highLimit
Below(v) == "low" \in limitEnable /\ v < lowLimit

Requested(s, v) ==
    CASE s = "normal" ->
             IF Above(v) THEN "highLimit" ELSE IF Below(v) THEN "lowLimit" ELSE Unset
      [] s = "highLimit" ->
             IF "high" \notin limitEnable THEN "normal" ELSE IF Below(v) THEN "lowLimit"
             ELSE IF v < highLimit - deadband THEN "normal" ELSE Unset
      [] s = "lowLimit" ->
             IF "low" \notin limitEnable THEN "normal" ELSE IF Above(v) THEN "highLimit"
             ELSE IF v > lowLimit + deadband THEN "normal" ELSE Unset
      [] OTHER -> Unset

Delay(new) ==
    IF new = "normal" /\ timeDelayNormal # Unset THEN timeDelayNormal ELSE timeDelay

\* The transition itself, from the state the algorithm knows, and the call of
\* the notification, which asserts that the two states differ.  Changes of the
\* event state do not start the algorithm here, but leaving fault does.
Transit(from, new, queue) ==
    /\ eventState' = new
    /\ waiting' = IF from = "fault" /\ new = "normal" THEN Append(queue, "again") ELSE queue

Stay(queue) ==
    /\ waiting' = queue
    /\ UNCHANGED eventState

\* state_transition, with pending the transition the timer is set for.
\* Wrong: a pending transition is left to its timer.
StateTransitionKept(from, new, pending, queue) ==
    \/ /\ new # Unset /\ pending = Unset /\ Delay(new) = 0
       /\ Transit(from, new, queue)
       /\ transition_state' = Unset
    \/ /\ ~ (new # Unset /\ pending = Unset /\ Delay(new) = 0)
       /\ Stay(queue)
       /\ transition_state' = IF pending = Unset THEN new ELSE pending

StateTransition(from, new, pending, queue) ==
    \/ /\ new = Unset \/ new = pending \/ (pending # Unset /\ new = from)
       /\ Stay(queue)
       /\ transition_state' = IF new = pending THEN pending ELSE Unset
    \/ /\ new # Unset /\ new # pending /\ ~ (pending # Unset /\ new = from)
       /\ \/ /\ Delay(new) = 0
             /\ Transit(from, new, queue)
             /\ transition_state' = Unset
          \/ /\ Delay(new) # 0
             /\ Stay(queue)
             /\ transition_state' = new

\* Wrong: the handle is only given up at the end.
DisabledScheduled(queue) ==
    /\ ~eventDetectionEnable
    /\ eventState' = "normal"
    /\ waiting' = queue
    /\ what_changed' = {}
    /\ looked' = FALSE
    /\ UNCHANGED <<scheduled, transition_state>>

\* Detection is disabled: the event state is set without a word.  That is a
\* change of a property of the object as any other.
Disabled(queue) ==
    /\ ~eventDetectionEnable
    /\ eventState' = "normal"
    /\ \/ eventState = "normal" /\ waiting' = queue /\ scheduled' = FALSE
       \/ eventState # "normal" /\ waiting' = Append(queue, "event") /\ scheduled' = TRUE
    /\ what_changed' = {}
    /\ looked' = FALSE
    /\ UNCHANGED transition_state

\* The reliability has changed: to or from fault.  What else changed stays.
ReliabilityChanged(queue) ==
    /\ "reliability" \in what_changed
    /\ reliability # NoFault \/ eventState # "normal"
    /\ LET new == IF reliability = NoFault THEN "normal" ELSE "fault" IN
       \/ /\ eventState # new
          /\ StateTransition(eventState, new, transition_state, queue)
       \/ /\ eventState = new
          /\ Stay(queue)
          /\ UNCHANGED transition_state
    /\ what_changed' = what_changed \ {"reliability"}
    /\ looked' = FALSE

\* The algorithm has just been inhibited: to normal at once.
Inhibited(queue) ==
    /\ "inhibit" \in what_changed
    /\ transition_state' = Unset
    /\ \/ eventState # "normal" /\ Transit(eventState, "normal", queue)
       \/ eventState = "normal" /\ Stay(queue)
    /\ what_changed' = {}
    /\ looked' = FALSE

\* Nothing of this: the algorithm runs, unless it is inhibited.
Detects(queue) ==
    /\ "inhibit" \notin what_changed
    /\ \/ /\ eventAlgorithmInhibit /\ "released" \notin what_changed
          /\ Stay(queue)
          /\ UNCHANGED transition_state
       \/ /\ ~eventAlgorithmInhibit \/ "released" \in what_changed
          /\ StateTransition(eventState, Requested(eventState, pMonitoredValue),
                             transition_state, queue)
    /\ looked' = (~eventAlgorithmInhibit \/ "released" \in what_changed)
    /\ what_changed' = {}

\* EventAlgorithm._execute, called by a parameter or to look again.
ExecuteEvent ==
    /\ waiting # <<>> /\ Head(waiting) \in {"event", "again"}
    /\ current_state' = eventState
    /\ \/ Disabled(Tail(waiting))
       \/ /\ eventDetectionEnable
          /\ scheduled' = FALSE
          /\ \/ ReliabilityChanged(Tail(waiting))
             \/ /\ ~ ("reliability" \in what_changed
                        /\ (reliability # NoFault \/ eventState # "normal"))
                /\ Inhibited(Tail(waiting)) \/ Detects(Tail(waiting))
    /\ UNCHANGED <<pMonitoredValue, reliability, configuration, switches, settings>>

\* state_transition_delayed.
TransitionDelayed ==
    /\ transition_state # Unset
    /\ Transit(current_state, transition_state, waiting)
    /\ transition_state' = Unset
    /\ UNCHANGED <<pMonitoredValue, reliability, configuration, switches, settings,
                   current_state, what_changed, scheduled, looked>>

(***************************************************************************)
(* The object                                                              *)
(***************************************************************************)

Init ==
    /\ pMonitoredValue \in Monitored
    /\ reliability = NoFault
    /\ eventState = "normal"
    /\ timeDelay \in Delays
    /\ timeDelayNormal \in Delays \cup {Unset}
    /\ limitEnable = Limits
    /\ eventDetectionEnable = TRUE
    /\ eventAlgorithmInhibit = FALSE
    /\ reliabilityEvaluationInhibit = FALSE
    /\ current_state = Unset
    /\ what_changed = {}
    /\ scheduled = FALSE
    /\ transition_state = Unset
    /\ waiting = <<>>
    /\ settings = 0
    /\ looked = FALSE

Writes ==
    /\ Len(waiting) < MaxReady
    /\ \/ \E v \in Monitored : WriteValue(v)
       \/ \E r \in Given \cup {NoFault} : WriteReliability(r)
       \/ \E enabled \in SUBSET Limits : WriteLimitEnable(enabled)
       \/ WriteDetectionEnable
       \/ WriteAlgorithmInhibit
       \/ WriteEvaluationInhibit

Loop == ExecuteFault \/ ExecuteEvent

Next == Writes \/ Loop \/ TransitionDelayed

Spec == Init /\ [][Next]_vars

\* The loop runs what is ready, and a timer expires.
FairSpec == Spec /\ WF_vars(Loop) /\ WF_vars(TransitionDelayed)

(***************************************************************************)
(* Properties                                                              *)
(***************************************************************************)

EventTypeOK ==
    /\ pMonitoredValue \in Monitored /\ reliability \in Reliabilities
    /\ eventState \in EventStates
    /\ current_state \in EventStates \cup {Unset}
    /\ transition_state \in EventStates \cup {Unset}
    /\ what_changed \subseteq {"reliability", "inhibit", "released"}
    /\ limitEnable \subseteq Limits
    /\ {scheduled, eventDetectionEnable, eventAlgorithmInhibit,
        reliabilityEvaluationInhibit} \subseteq BOOLEAN
    /\ waiting \in Seq({"fault", "event", "again"})
    /\ scheduled => "event" \in ToSet(waiting)

\* Nothing is left to run and no timer is set.
AtRest == waiting = <<>> /\ transition_state = Unset

\* What the algorithm is to find: a value in the state of a limit is not further
\* from it than the deadband, and normal is not beyond an enabled limit.
Fits(s, v) ==
    CASE s = "normal" -> ~Above(v) /\ ~Below(v)
      [] s = "highLimit" -> "high" \in limitEnable /\ v >= highLimit - deadband /\ ~Below(v)
      [] s = "lowLimit" -> "low" \in limitEnable /\ v <= lowLimit + deadband /\ ~Above(v)
      [] OTHER -> TRUE

\* At rest, and if the last run looked at the value at all, the event state fits
\* the value: none of the changes the algorithm is not told of while it is
\* scheduled, or delayed, is lost.  Only the run that leaves the state of a limit
\* just disabled does not see the other limit.
StateFitsValue ==
    (AtRest /\ looked) => \/ Fits(eventState, pMonitoredValue)
                          \/ eventState = "normal" /\ limitEnable # Limits

\* A transition that waits for its timer is still the one to make, if the last run
\* looked at the value and nothing has changed since: the value asks for it, and it
\* leaves the state the object is in, so that its notification finds its values.
PendingIsDue ==
    (transition_state # Unset /\ looked /\ waiting = <<>>) =>
        /\ current_state = eventState
        /\ transition_state = Requested(eventState, pMonitoredValue)

\* A fault of range that nothing is left to look at is that of the value, though
\* the program writes the reliability too and evaluation may be inhibited for a while.
FaultOfValue ==
    (waiting = <<>> /\ ~reliabilityEvaluationInhibit) =>
        /\ reliability = "underRange" => pMonitoredValue < faultLowLimit
        /\ reliability = "overRange" => pMonitoredValue > faultHighLimit

\* "Fault detection takes precedence over the detection of normal and offnormal
\* states" (local/event.py:330): with the reliability of a fault, the state is FAULT.
FaultTakesPrecedence ==
    (AtRest /\ eventDetectionEnable /\ reliability # NoFault) => eventState = "fault"

\* A value that stays above the limit is reported in the end, whatever changes in
\* the meantime, if detection is on, there is no fault and the value is looked at.
HighLimitReported ==
    <>[](/\ pMonitoredValue > highLimit /\ limitEnable = Limits /\ looked
         /\ reliability = NoFault /\ eventState # "fault"
         /\ eventDetectionEnable /\ ~eventAlgorithmInhibit)
        => <>[](eventState = "highLimit")
=============================================================================
