--------------------------------- MODULE SSM ---------------------------------
(***************************************************************************)
(* What the two segmentation state machines of bacpypes3/appservice.py     *)
(* have in common (class SSM): cutting a message into segments, the        *)
(* window, the timer, and the datagrams that travel between a client and a *)
(* server on one BACnet/IP network.                                        *)
(*                                                                         *)
(* A datagram is an APDU with the fields the state machines look at.  The  *)
(* payload of a segment is a pair <<message, index>>: the request's number *)
(* or the number of the execution that made the response, and which        *)
(* segment of it this is.                                                  *)
(***************************************************************************)
EXTENDS Integers, Sequences, FiniteSets

CONSTANTS
    NReq,           \* number of confirmed requests the client makes
    IdMod,          \* invoke IDs are modulo this, 256 in the code
    SeqMod,         \* sequence numbers are modulo this, 256 in the code
    ReqSegs,        \* number of segments each request takes (segmentCount)
    RespSegs,       \* number of segments a ComplexAck takes (segmentCount)
    ClientWindow,   \* proposedWindowSize of the client
    ServerWindow,   \* proposedWindowSize of the server
    Retries,        \* numberOfApduRetries
    AckKinds,       \* what the server's application may answer
    Devices,        \* device objects and what one knows of the other, see below
    MaxExecs,       \* bound: requests delivered to the server's application
    MaxDups         \* bound: datagrams delivered twice

Requests == 1..NReq

InvokeIDs == 0..(IdMod - 1)

Segmentations ==
    {"noSegmentation", "segmentedTransmit", "segmentedReceive", "segmentedBoth"}

\* client, server: segmentationSupported; known: the client has a DeviceInfo of
\* the server; serverMax, clientMax: maxSegmentsAccepted, 0 when unspecified.
DeviceRecords ==
    [client : Segmentations, server : Segmentations, known : BOOLEAN,
     serverMax : Nat, clientMax : Nat]

Kinds == {"SimpleAck", "ComplexAck", "Error", "Reject", "Abort"}

ASSUME SSMAssumption ==
    /\ NReq \in Nat
    /\ IdMod \in Nat \ {0}
    /\ SeqMod \in Nat \ {0}
    /\ ReqSegs \in [Requests -> Nat \ {0}]
    /\ RespSegs \in Nat \ {0}
    /\ ClientWindow \in 1..(SeqMod - 1)
    /\ ServerWindow \in 1..(SeqMod - 1)
    /\ Retries \in Nat
    /\ AckKinds \subseteq Kinds
    /\ \A d \in Devices :
           /\ d.client \in Segmentations
           /\ d.server \in Segmentations
           /\ d.known \in BOOLEAN
           /\ d.serverMax \in Nat
           /\ d.clientMax \in Nat \ {1}
    /\ MaxExecs \in Nat
    /\ MaxDups \in Nat

VARIABLES
    device,     \* the device objects, constant through a behaviour
    net,        \* datagrams sent and not delivered yet
    dups        \* how many were delivered twice

netVars == <<device, net, dups>>

CanTransmit(segmentation) == segmentation \in {"segmentedTransmit", "segmentedBoth"}

CanReceive(segmentation) == segmentation \in {"segmentedReceive", "segmentedBoth"}

(***************************************************************************)
(* The maximum number of segments accepted as the receiver of a request    *)
(* decodes it: the largest of 2, 4, .. 64 that is not larger, and 0 for    *)
(* unspecified and for more than 64.                                       *)
(***************************************************************************)
DecodedMaxSegments(n) ==
    IF n = 0 \/ n > 64 THEN 0
    ELSE CHOOSE k \in {2, 4, 8, 16, 32, 64} :
             /\ k <= n
             /\ \A j \in {2, 4, 8, 16, 32, 64} : j <= n => j <= k

-----------------------------------------------------------------------------
(* Datagrams.  srv tells which side sent a SegmentAck or an Abort.         *)

Segment(type, id, msg, indx, count, win) ==
    [type |-> type, id |-> id, seg |-> count # 1, mor |-> indx < count - 1,
     seq |-> indx % SeqMod, win |-> win, data |-> <<msg, indx>>]

SegmentAck(srv, id, nak, seq, win) ==
    [type |-> "SegmentAck", srv |-> srv, id |-> id, nak |-> nak,
     seq |-> seq, win |-> win]

Abort(srv, id) == [type |-> "Abort", srv |-> srv, id |-> id]

\* A SimpleAck, Error or Reject of an execution.
Answer(kind, id, msg) == [type |-> kind, id |-> id, data |-> <<msg, 0>>]

(***************************************************************************)
(* UDP delivers a datagram late, out of order, twice, or never: one that   *)
(* is lost is one that stays in net.  Receive(m, sent) is the effect on    *)
(* the network of a handler that is given m and sends sent.                *)
(***************************************************************************)
Receive(m, sent) ==
    /\ m \in net
    /\ UNCHANGED device
    /\ \/ net' = (net \ {m}) \cup sent /\ dups' = dups
       \/ dups < MaxDups /\ net' = net \cup sent /\ dups' = dups + 1

Send(sent) == net' = net \cup sent /\ UNCHANGED <<device, dups>>

-----------------------------------------------------------------------------
(***************************************************************************)
(* The timer of a transaction t: t.timer, a call of timer_expired is       *)
(* scheduled; t.late, it has been called and the task it created has not   *)
(* run yet.  stop_timer cancels both, start_timer and restart_timer only   *)
(* the scheduled call.                                                     *)
(***************************************************************************)
Restarted(t) == [t EXCEPT !.timer = TRUE]

\* set_state(state, msecs).  Wrong: it does not start the timer.
InStateUntimed(t, state) == [t EXCEPT !.state = state, !.timer = FALSE, !.late = FALSE]

InState(t, state) == [t EXCEPT !.state = state, !.timer = TRUE, !.late = FALSE]

Expired(t) == [t EXCEPT !.timer = FALSE, !.late = TRUE]

\* Another attempt is made while the count is below numberOfApduRetries.  Wrong:
\* one attempt too many.
MayRetryOnceMore(count) == count <= Retries

MayRetry(count) == count < Retries

\* A segment is the next one.  Wrong: it is any but the last one received.
IsAnother(t, seq) == seq # t.last

IsNext(t, seq) == seq = (t.last + 1) % SeqMod

\* actualWindowSize is None until the peer has told it.
NoWindow == 0

InWindow(t, seqA, seqB) == (seqA - seqB + SeqMod) % SeqMod < t.win

(***************************************************************************)
(* fill_window(seqNum): the segments with these indexes are sent.  The     *)
(* sequence number is used as the index of a segment.                      *)
(***************************************************************************)
WindowFrom(t, seqNum, count) == {i \in seqNum..(seqNum + t.win - 1) : i < count}

Filled(t, seqNum, count) ==
    [t EXCEPT !.sentAll = @ \/ (count - 1) \in WindowFrom(t, seqNum, count)]

=============================================================================
