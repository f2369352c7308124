---------------------------- MODULE ForeignDevice ----------------------------
(***************************************************************************)
(* A foreign device and its BBMD (bacpypes3/ipv4/service.py, classes       *)
(* BIPForeign and BIPBBMD): the device registers, registers again before   *)
(* its time to live is over, tries more often when there is no answer, and *)
(* takes itself for unregistered when it must have expired; the BBMD       *)
(* counts the entry of the device down.                                    *)
(*                                                                         *)
(* Time goes by in seconds.  A call of the event loop that is due runs     *)
(* before time goes on, in any order with what else happens then; what a   *)
(* timer handle stands for is the number of seconds until it is due.       *)
(***************************************************************************)
EXTENDS Integers, FiniteSets, Sequences

CONSTANTS
    TTL,            \* bbmdTimeToLive
    RetryAfter,     \* another attempt after this time, 5 in the code
    Grace,          \* the device has expired this long after its TTL, 30
    BBMDGrace,      \* the BBMD keeps the entry this long after the TTL, 5
    MaxDelay,       \* a datagram arrives within this time, if it does
    MaxLost,        \* bound: datagrams lost
    MaxRefused,     \* bound: registrations the BBMD refuses
    MaxStrays,      \* bound: results from other stations
    MaxCalls,       \* bound: calls of register and unregister
    MaxLoose        \* bound: handles the device has lost track of

ASSUME ForeignAssumption ==
    /\ TTL \in Nat \ {0} /\ RetryAfter \in Nat \ {0}
    /\ Grace \in Nat /\ BBMDGrace \in Nat \ {0} /\ MaxDelay \in Nat
    /\ MaxLost \in Nat /\ MaxRefused \in Nat /\ MaxStrays \in Nat
    /\ MaxCalls \in Nat /\ MaxLoose \in Nat \ {0}

\* When another attempt is due.
NextAttempt == IF RetryAfter < TTL THEN RetryAfter ELSE TTL

\* An answer comes before the next attempt, and a renewal before the BBMD
\* deletes the entry.
ASSUME TimingAssumption ==
    /\ 2 * MaxDelay < NextAttempt
    /\ 2 * MaxDelay + 2 =< BBMDGrace

VARIABLES
    status,         \* bbmdRegistrationStatus
    registered,     \* _registration_event
    known,          \* bbmdAddress and bbmdTimeToLive are set
    handle,         \* _registration_handle: [set, due], set when it is not None
    retry,          \* when _reregistration_timeout_handle is due
    expiry,         \* when _registration_timeout_handle is due
    loose,          \* when the handles are due that no attribute refers to
    remain,         \* fdRemain of the device's entry, 0 when there is none
    clocked,        \* fdt_clock has run in this second
    net,            \* datagrams under way, in no order
    lost, refused, strays, calls,
    wanted,         \* register has been called, and not unregister since
    hasty           \* it was called while there were datagrams under way of
                    \* a registration before

deviceVars == <<status, registered, known, handle, retry, expiry, loose>>

bbmdVars == <<remain, clocked>>

counters == <<lost, refused, strays, calls, wanted, hasty>>

foreignVars == <<deviceVars, bbmdVars, net, counters>>

Never == -1

NoHandle == [set |-> FALSE, due |-> Never]

ForeignInit ==
    /\ status = "unregistered"
    /\ registered = FALSE
    /\ known = FALSE
    /\ handle = NoHandle
    /\ retry = Never
    /\ expiry = Never
    /\ loose = <<>>
    /\ remain = 0
    /\ clocked = FALSE
    /\ net = <<>>
    /\ lost = 0 /\ refused = 0 /\ strays = 0 /\ calls = 0
    /\ wanted = FALSE /\ hasty = FALSE

-----------------------------------------------------------------------------
(* Datagrams.                                                              *)

Registration(ttl) == [type |-> "RegisterForeignDevice", ttl |-> ttl, left |-> MaxDelay]

ResultFrom(source, code) ==
    [type |-> "Result", source |-> source, code |-> code, left |-> MaxDelay]

\* A registration, or what the BBMD answers to one.
OfRegistration(m) == m.type = "RegisterForeignDevice" \/ m.source = "bbmd"

Without(s, k) == SubSeq(s, 1, k - 1) \o SubSeq(s, k + 1, Len(s))

\* The bound on loose handles is kept by losing the results beyond it.
Lose(k) ==
    /\ \/ lost < MaxLost /\ lost' = lost + 1
       \/ Len(loose) >= MaxLoose /\ net[k].type = "Result" /\ lost' = lost
    /\ net' = Without(net, k)
    /\ UNCHANGED <<deviceVars, bbmdVars, refused, strays, calls, wanted, hasty>>

\* The answer of another station to something else the device asked it, which
\* is no business of the registration.
StrayResult ==
    /\ strays < MaxStrays
    /\ strays' = strays + 1
    /\ net' = Append(net, ResultFrom("another", "refused"))
    /\ UNCHANGED <<deviceVars, bbmdVars, lost, refused, calls, wanted, hasty>>

-----------------------------------------------------------------------------
(* BIPForeign.                                                             *)

\* A handle that is overwritten or forgotten before it is due is still called.
Forgotten(due) == IF due = Never THEN <<>> ELSE <<due>>

(***************************************************************************)
(* register: does nothing while there is a registration handle, due or     *)
(* not; otherwise the registration starts with the next turn of the loop.  *)
(***************************************************************************)
Register ==
    /\ calls < MaxCalls
    /\ calls' = calls + 1
    /\ wanted' = TRUE
    /\ known' = (known \/ ~handle.set)
    /\ handle' = IF handle.set THEN handle ELSE [set |-> TRUE, due |-> 0]
    /\ hasty' = \/ hasty
                \/ ~handle.set /\ \E k \in 1..Len(net) : OfRegistration(net[k])
    /\ UNCHANGED <<status, registered, retry, expiry, loose, bbmdVars, net,
                   lost, refused, strays>>

\* _stop_tracking_registration cancels a handle.  Wrong: it does not.
NotStopped(due) == due

Stopped(due) == Never

\* unregister, which does nothing when the status is unregistered.
Unregister ==
    /\ calls < MaxCalls
    /\ calls' = calls + 1
    /\ wanted' = FALSE
    /\ \/ /\ status = "unregistered"
          /\ UNCHANGED <<deviceVars, net>>
       \/ /\ status # "unregistered"
          /\ status' = "unregistered"
          /\ registered' = FALSE
          /\ known' = FALSE
          /\ handle' = NoHandle /\ retry' = Stopped(retry) /\ expiry' = Stopped(expiry)
          /\ net' = IF known THEN Append(net, Registration(0)) ELSE net
          /\ UNCHANGED loose
    /\ UNCHANGED <<bbmdVars, lost, refused, strays, hasty>>

\* Wrong: no other attempt is scheduled.
AttemptOnce(others, pending) ==
    /\ status' = IF status = "unregistered" THEN "inProcess" ELSE status
    /\ net' = IF known THEN Append(net, Registration(TTL)) ELSE net
    /\ retry' = pending /\ loose' = others
    /\ UNCHANGED <<registered, known, expiry, bbmdVars, counters>>

(***************************************************************************)
(* _start_registration, with others the handles that are left when the one *)
(* that calls it is gone and pending the retry handle, which is            *)
(* overwritten.  Without a time to live it raises TypeError.               *)
(***************************************************************************)
StartRegistration(others, pending) ==
    /\ status' = IF status = "unregistered" THEN "inProcess" ELSE status
    /\ \/ /\ known
          /\ net' = Append(net, Registration(TTL))
          /\ retry' = NextAttempt
          /\ loose' = others \o Forgotten(pending)
       \/ /\ ~known
          /\ retry' = pending
          /\ loose' = others
          /\ UNCHANGED net
    /\ UNCHANGED <<registered, known, expiry, bbmdVars, counters>>

RegistrationDue ==
    /\ handle.due = 0
    /\ handle' = [handle EXCEPT !.due = Never]
    /\ StartRegistration(loose, retry)

RetryDue ==
    /\ retry = 0
    /\ StartRegistration(loose, Never)
    /\ UNCHANGED handle

LooseDue ==
    \E k \in 1..Len(loose) :
        /\ loose[k] = 0
        /\ StartRegistration(Without(loose, k), retry)
        /\ UNCHANGED handle

(***************************************************************************)
(* confirmation of a Result: the registration handle is forgotten before   *)
(* it is looked at who sent it, and not canceled; a success starts to      *)
(* track the registration (_start_tracking_registration), which cancels    *)
(* the handles there are and sets new ones.                                *)
(***************************************************************************)
ReceiveResult(k) ==
    LET m == net[k] IN
    /\ m.type = "Result"
    /\ net' = Without(net, k)
    /\ \/ /\ status = "unregistered" \/ ~handle.set
          /\ UNCHANGED deviceVars
       \/ /\ status # "unregistered" /\ handle.set
          /\ Len(loose) < MaxLoose
          /\ loose' = loose \o Forgotten(handle.due)
          /\ \/ /\ m.source # "bbmd" \/ ~known
                /\ handle' = NoHandle
                /\ UNCHANGED <<status, registered, known, retry, expiry>>
             \/ /\ m.source = "bbmd" /\ known
                /\ m.code # "OK"
                /\ status' = "error"
                /\ handle' = NoHandle
                /\ UNCHANGED <<registered, known, retry, expiry>>
             \/ /\ m.source = "bbmd" /\ known
                /\ m.code = "OK"
                /\ status' = "OK"
                /\ registered' = TRUE
                /\ handle' = [set |-> TRUE, due |-> TTL]
                /\ retry' = Stopped(retry)
                /\ expiry' = TTL + Grace
                /\ UNCHANGED known
    /\ UNCHANGED <<bbmdVars, counters>>

\* _registration_expired.
RegistrationExpired ==
    /\ expiry = 0
    /\ status' = "unregistered"
    /\ registered' = FALSE
    /\ handle' = NoHandle /\ retry' = Stopped(retry) /\ expiry' = Stopped(expiry)
    /\ UNCHANGED <<known, loose, bbmdVars, net, counters>>

-----------------------------------------------------------------------------
(* BIPBBMD.                                                                *)

\* fdRemain.  Wrong: the entry is not kept any longer than its time to live.
RemainingTTL(ttl) == ttl

Remaining(ttl) == ttl + BBMDGrace

\* register_foreign_device and delete_foreign_device_table_entry, and the answer.
ReceiveRegistration(k) ==
    LET m == net[k]
        Answers(code) == net' = Append(Without(net, k), ResultFrom("bbmd", code))
    IN  /\ m.type = "RegisterForeignDevice"
        /\ \/ /\ m.ttl = 0
              /\ remain' = 0
              /\ Answers(IF remain = 0 THEN "refused" ELSE "OK")
              /\ UNCHANGED refused
           \/ /\ m.ttl # 0
              /\ remain' = Remaining(m.ttl)
              /\ Answers("OK")
              /\ UNCHANGED refused
           \/ /\ m.ttl # 0                      \* a BBMD whose table is full
              /\ refused < MaxRefused
              /\ refused' = refused + 1
              /\ Answers("refused")
              /\ UNCHANGED remain
        /\ UNCHANGED <<deviceVars, clocked, lost, strays, calls, wanted, hasty>>

\* Wrong: an entry that is gone is counted on.
CountedOn(n) == n - 1

CountedDown(n) == IF n = 0 THEN 0 ELSE n - 1

\* fdt_clock: once a second, the entry is deleted when nothing remains.
FDTClock ==
    /\ ~clocked
    /\ clocked' = TRUE
    /\ remain' = CountedDown(remain)
    /\ UNCHANGED <<deviceVars, net, counters>>

-----------------------------------------------------------------------------
Sooner(due) == IF due = Never THEN Never ELSE due - 1

Tick ==
    /\ clocked
    /\ clocked' = FALSE
    /\ \A k \in 1..Len(net) : net[k].left > 0
    /\ handle.due # 0 /\ retry # 0 /\ expiry # 0
    /\ \A k \in 1..Len(loose) : loose[k] # 0
    /\ net' = [k \in 1..Len(net) |-> [net[k] EXCEPT !.left = @ - 1]]
    /\ handle' = [handle EXCEPT !.due = Sooner(@)]
    /\ retry' = Sooner(retry)
    /\ expiry' = Sooner(expiry)
    /\ loose' = [k \in 1..Len(loose) |-> Sooner(loose[k])]
    /\ UNCHANGED <<status, registered, known, remain, counters>>

DeviceStep ==
    \/ RegistrationDue
    \/ RetryDue
    \/ LooseDue
    \/ RegistrationExpired
    \/ \E k \in 1..Len(net) : ReceiveResult(k)

BBMDStep == FDTClock \/ \E k \in 1..Len(net) : ReceiveRegistration(k)

ForeignNext ==
    \/ Register
    \/ Unregister
    \/ DeviceStep
    \/ BBMDStep
    \/ \E k \in 1..Len(net) : Lose(k)
    \/ StrayResult
    \/ Tick

ForeignSpec == ForeignInit /\ [][ForeignNext]_foreignVars

\* Time goes on, what is due is called, and a datagram that is not lost arrives.
FairForeignSpec ==
    ForeignSpec /\ WF_foreignVars(DeviceStep) /\ WF_foreignVars(BBMDStep)
                /\ WF_foreignVars(Tick)

-----------------------------------------------------------------------------
Datagram ==
    [type : {"RegisterForeignDevice"}, ttl : {0, TTL}, left : 0..MaxDelay]
    \cup [type : {"Result"}, source : {"bbmd", "another"},
          code : {"OK", "refused"}, left : 0..MaxDelay]

\* The shape of the state.
ForeignTypeOK ==
    /\ status \in {"unregistered", "inProcess", "OK", "error"}
    /\ registered \in BOOLEAN /\ known \in BOOLEAN
    /\ wanted \in BOOLEAN /\ hasty \in BOOLEAN
    /\ handle \in [set : BOOLEAN, due : Never..TTL]
    /\ retry \in Never..TTL /\ expiry \in Never..(TTL + Grace)
    /\ loose \in Seq(0..TTL)
    /\ remain \in 0..(TTL + BBMDGrace)
    /\ clocked \in BOOLEAN
    /\ net \in Seq(Datagram)
    /\ lost \in 0..MaxLost /\ refused \in 0..MaxRefused
    /\ strays \in 0..MaxStrays /\ calls \in 0..MaxCalls

(***************************************************************************)
(* Nothing was taken for the answer to a registration that was not a       *)
(* success of this registration: a Result says nothing of the request it   *)
(* answers.                                                                *)
(***************************************************************************)
Undisturbed == refused = 0 /\ strays = 0 /\ ~hasty

\* What is lost is not so much that the attempts of Grace seconds would not do.
Bearable == Undisturbed /\ (lost + 1) * NextAttempt =< Grace

(***************************************************************************)
(* There is one renewal to come: when a registration is tracked, nothing   *)
(* that was scheduled before goes on beside it                             *)
(* (_start_tracking_registration: "stop any current tracking").            *)
(***************************************************************************)
OneRenewal == Undisturbed => loose = <<>>

(***************************************************************************)
(* While every datagram has arrived and every registration was accepted, a *)
(* device that takes itself for registered has an entry in the table of    *)
(* the BBMD: renewals are in time for what the entry has left.             *)
(***************************************************************************)
RegisteredIsListed ==
    registered /\ lost = 0 /\ refused = 0 /\ ~hasty => remain > 0

(***************************************************************************)
(* While it is not disturbed, and not so much is lost that the             *)
(* registration expires, the device goes on registering until it is told   *)
(* to stop (register: "until explicitly stopped by a call to               *)
(* `unregister`").                                                         *)
(***************************************************************************)
RenewalsGoOn == Bearable /\ wanted => handle.due # Never \/ retry # Never

(***************************************************************************)
(* A device that is wanted and not registered becomes registered if        *)
(* nothing disturbs it, though attempts and answers are lost.              *)
(***************************************************************************)
RegistersAgain ==
    wanted /\ ~registered ~> registered \/ ~wanted \/ ~Bearable

(***************************************************************************)
(* A device that takes itself for registered is listed though it           *)
(* registered again at once (unregister: "Immediately drops active foreign *)
(* device registration"; confirmation: "we received this ack but we        *)
(* haven't requested one").                                                *)
(***************************************************************************)
ListedAtOnce == registered /\ lost = 0 /\ refused = 0 => remain > 0

(***************************************************************************)
(* It becomes registered whatever disturbs it (register: "Registration     *)
(* will be renewed periodically according to the ttl value until           *)
(* explicitly stopped").                                                   *)
(***************************************************************************)
RegistersWhatever == wanted /\ ~registered ~> registered \/ ~wanted

=============================================================================
