----------------------------- MODULE Commandable -----------------------------
(***************************************************************************)
(* A commandable object of bacpypes3/local/cmd.py: its present value is    *)
(* commanded through the priority array; without a command it is the       *)
(* relinquish default.  A local object tells its monitors of a change      *)
(* (local/object.py); what they do is in the modules that extend this one. *)
(***************************************************************************)
EXTENDS Integers, FiniteSets

CONSTANTS
    N,          \* the number of priorities, 16 in the code
    Values,     \* the values of the object
    Null,       \* no value: the slot is not commanded
    GivenSlots  \* bound: what is in the slots of an array that is given or set as a whole

ASSUME CommandableAssumption ==
    /\ N \in Nat \ {0} /\ Null \notin Values \cup (1..N)
    /\ GivenSlots \subseteq Values \cup {Null}

VARIABLES
    priorityArray,
    relinquishDefault,
    presentValue,
    currentCommandPriority,
    effective,      \* history: the value to have without a command, as last known
    settled         \* history: what was given or set as it is has been recalculated

commandableVars ==
    <<priorityArray, relinquishDefault, presentValue, currentCommandPriority,
      effective, settled>>

Priorities == 1..N

\* The slots of the array that hold a value.
Commanded(array) == {p \in Priorities : array[p] # Null}

\* Wrong: the last of them.
HighestLast(array) ==
    CHOOSE p \in Commanded(array) : \A q \in Commanded(array) : q <= p

\* The first of them is the one that counts.
Highest(array) ==
    CHOOSE p \in Commanded(array) : \A q \in Commanded(array) : p <= q

\* Commandable.recalculating: the priority in command, and its value.
CommandPriority(array) ==
    IF Commanded(array) = {} THEN Null ELSE Highest(array)

CommandedValue(array, default) ==
    IF Commanded(array) = {} THEN default ELSE array[Highest(array)]

\* An object is made with a present value.  Everything else may be given too, and
\* is kept as it is: nothing is recalculated, and nothing has to be if there is no
\* command.
InitCommandable ==
    /\ presentValue \in Values
    /\ relinquishDefault \in Values
    /\ priorityArray \in [Priorities -> GivenSlots]
    /\ currentCommandPriority \in Priorities \cup {Null}
    /\ effective = presentValue
    /\ settled = (Commanded(priorityArray) = {} /\ currentCommandPriority = Null)

\* Writing a slot is followed by recalculating.
SetSlot(p, v) ==
    LET array == [priorityArray EXCEPT ![p] = v] IN
    /\ priorityArray' = array
    /\ currentCommandPriority' = CommandPriority(array)
    /\ presentValue' = CommandedValue(array, relinquishDefault)
    /\ effective' = relinquishDefault
    /\ settled' = TRUE
    /\ UNCHANGED relinquishDefault

\* write_property of presentValue goes to the slot of the priority, the last
\* one when there is none; Null relinquishes, which takes a priority.
WritePresentValue(p, v) == SetSlot(p, v)

\* The program sets the attribute presentValue: the last slot.
SetPresentValue(v) == SetSlot(N, v)

\* write_property of relinquishDefault is that of any property: nothing is
\* recalculated.
WriteRelinquishDefault(v) ==
    /\ v # relinquishDefault
    /\ relinquishDefault' = v
    /\ UNCHANGED <<priorityArray, presentValue, currentCommandPriority, effective, settled>>

\* The program sets the attribute priorityArray: a whole array, as it is.
SetPriorityArray(array) ==
    /\ priorityArray' = array
    /\ settled' = FALSE
    /\ UNCHANGED <<relinquishDefault, presentValue, currentCommandPriority, effective>>

NextCommandable ==
    \/ \E p \in Priorities, v \in Values \cup {Null} : WritePresentValue(p, v)
    \/ \E v \in Values : SetPresentValue(v)
    \/ \E v \in Values : WriteRelinquishDefault(v)
    \/ \E array \in [Priorities -> GivenSlots] : SetPriorityArray(array)

SpecCommandable == InitCommandable /\ [][NextCommandable]_commandableVars

(***************************************************************************)
(* Properties                                                              *)
(***************************************************************************)

\* The types of the properties of the object.
CommandableTypeOK ==
    /\ priorityArray \in [Priorities -> Values \cup {Null}]
    /\ relinquishDefault \in Values
    /\ presentValue \in Values
    /\ currentCommandPriority \in Priorities \cup {Null}
    /\ effective \in Values
    /\ settled \in BOOLEAN

\* The object does what its array says, from the first command on that follows what
\* was given or set as a whole: no slot before the one in command holds a value, the
\* present value is the one in that slot, and with no command at all it is the
\* default there was when this was last worked out.
Governed ==
    settled =>
        /\ \A p \in Priorities :
             currentCommandPriority = p =>
                 /\ presentValue = priorityArray[p]
                 /\ \A q \in Priorities : q < p => priorityArray[q] = Null
        /\ currentCommandPriority = Null =>
               /\ \A p \in Priorities : priorityArray[p] = Null
               /\ presentValue = effective

\* What the class says of itself: the present value is governed by the contents of
\* the array and of the default, always.  It does not hold, see CmdProperties.cfg.
GovernedByProperties ==
    presentValue = CommandedValue(priorityArray, relinquishDefault)

=============================================================================
