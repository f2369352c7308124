------------------------------ MODULE ClientSSM ------------------------------
(***************************************************************************)
(* The client side of confirmed services, class ClientSSM: sends the       *)
(* request, whole or in segments, retries, and collects the answer.        *)
(* client[id] is the transaction in clientTransactions with this invoke    *)
(* ID; one that is completed or aborted is taken off that list.            *)
(***************************************************************************)
EXTENDS SSM

VARIABLES
    client,     \* the transactions, by invoke ID
    asked,      \* how many requests the application has made
    next_id,    \* next_invoke_id of the application
    results     \* what the application was given for each of them

clientVars == <<client, asked, next_id, results>>

ClientStates ==
    {"NONE", "SEGMENTED_REQUEST", "AWAIT_CONFIRMATION", "SEGMENTED_CONFIRMATION"}

NoClient ==
    [state |-> "NONE", req |-> 0, sentAll |-> FALSE, retry |-> 0, segRetry |-> 0,
     initial |-> 0, last |-> 0, win |-> NoWindow, timer |-> FALSE, late |-> FALSE,
     buf |-> <<>>]

ClientInit ==
    /\ client = [id \in InvokeIDs |-> NoClient]
    /\ asked = 0
    /\ next_id = 0
    /\ results = [r \in Requests |-> <<>>]

\* get_segment of a request.
RequestSegment(t, id, indx) ==
    Segment("ConfirmedRequest", id, t.req, indx, ReqSegs[t.req],
            IF indx = 0 THEN ClientWindow ELSE t.win)

-----------------------------------------------------------------------------
(* The ends of a transaction: off the list, and a result for the           *)
(* application.                                                            *)

\* Wrong: the transaction stays on the list.
FinishKeeping(id, kind, body) ==
    /\ results' = [results EXCEPT ![client[id].req] =
                       Append(@, [kind |-> kind, body |-> body])]
    /\ UNCHANGED <<client, asked, next_id>>

\* Wrong: the application is not told.
FinishSilently(id, kind, body) ==
    /\ client' = [client EXCEPT ![id] = NoClient]
    /\ UNCHANGED <<results, asked, next_id>>

Finish(id, kind, body) ==
    /\ client' = [client EXCEPT ![id] = NoClient]
    /\ results' = [results EXCEPT ![client[id].req] =
                       Append(@, [kind |-> kind, body |-> body])]
    /\ UNCHANGED <<asked, next_id>>

\* abort(invalidApduInThisState), sent to the device and to the application.
AbortBoth(m) ==
    /\ Finish(m.id, "Abort", <<>>)
    /\ Receive(m, {Abort(FALSE, m.id)})

Become(id, t) ==
    /\ client' = [client EXCEPT ![id] = t]
    /\ UNCHANGED <<asked, next_id, results>>

-----------------------------------------------------------------------------
(***************************************************************************)
(* indication: the request does not go out when it takes segments that     *)
(* this device cannot send or the server, as far as it is known, cannot    *)
(* receive.                                                                *)
(***************************************************************************)
\* Wrong: as many segments as it takes.
MaySendAny(r) ==
    \/ ReqSegs[r] = 1
    \/ CanTransmit(device.client) /\ (device.known => CanReceive(device.server))

MaySend(r) ==
    \/ ReqSegs[r] = 1
    \/ /\ CanTransmit(device.client)
       /\ device.known => /\ CanReceive(device.server)
                          /\ device.serverMax # 0 => ReqSegs[r] <= device.serverMax

\* The transaction as indication leaves it; retry counts from zero.
Started(r) ==
    IF ReqSegs[r] = 1
    THEN [InState(NoClient, "AWAIT_CONFIRMATION") EXCEPT !.req = r, !.sentAll = TRUE]
    ELSE [InState(NoClient, "SEGMENTED_REQUEST") EXCEPT !.req = r]

\* Application.request takes the next invoke ID that no outstanding request has.
IsNextFree(id) ==
    /\ client[id].state = "NONE"
    /\ \E n \in InvokeIDs :
           /\ id = (next_id + n) % IdMod
           /\ \A k \in 0..(n - 1) : client[(next_id + k) % IdMod].state # "NONE"

(***************************************************************************)
(* The application makes its next request.  It is aborted at once, it      *)
(* fails with a CommuncationError because there is no route, or its first  *)
(* segment is on its way.                                                  *)
(***************************************************************************)
ClientRequest(id) ==
    LET r == asked + 1
        Fails(kind) == /\ results' = [results EXCEPT ![r] =
                                          <<[kind |-> kind, body |-> <<>>]>>]
                       /\ UNCHANGED <<client, netVars>>
    IN  /\ r \in Requests
        /\ IsNextFree(id)
        /\ asked' = r
        /\ next_id' = (id + 1) % IdMod
        /\ \/ ~MaySend(r) /\ Fails("Abort")
           \/ MaySend(r) /\ Fails("Error")
           \/ /\ MaySend(r)
              /\ client' = [client EXCEPT ![id] = Started(r)]
              /\ Send({RequestSegment(Started(r), id, 0)})
              /\ UNCHANGED results

-----------------------------------------------------------------------------
(* segmented_request: the client is sending a segmented request.           *)

SegmentedRequestAck(m) ==
    LET t == [client[m.id] EXCEPT !.win = m.win]
        next == (m.seq + 1) % SeqMod
        w == WindowFrom(t, next, ReqSegs[t.req])
        filled == Filled([t EXCEPT !.initial = next, !.segRetry = 0], next, ReqSegs[t.req])
    IN  /\ m.type = "SegmentAck" /\ m.srv
        /\ client[m.id].state = "SEGMENTED_REQUEST"
        /\ \/ /\ ~InWindow(t, m.seq, t.initial)         \* duplicate ack
              /\ Become(m.id, Restarted(t))
              /\ Receive(m, {})
           \/ /\ InWindow(t, m.seq, t.initial)          \* final ack
              /\ t.sentAll
              /\ Become(m.id, InState(t, "AWAIT_CONFIRMATION"))
              /\ Receive(m, {})
           \/ /\ InWindow(t, m.seq, t.initial)          \* more to send
              /\ ~t.sentAll
              /\ Become(m.id, IF w = {} THEN filled ELSE Restarted(filled))
              /\ Receive(m, {RequestSegment(filled, m.id, i) : i \in w})

\* An answer before the last segment has been sent.
SegmentedRequestEarlyAck(m) ==
    /\ m.type \in {"SimpleAck", "ComplexAck"}
    /\ client[m.id].state = "SEGMENTED_REQUEST"
    /\ ~client[m.id].sentAll
    /\ AbortBoth(m)

\* The first segment of a segmented answer; it is not acknowledged, and it is
\* taken for the first whatever its number.
SegmentedRequestComplexAck(m) ==
    LET t == client[m.id]
        least == IF m.win < ClientWindow THEN m.win ELSE ClientWindow
    IN  /\ m.type = "ComplexAck" /\ m.seg
        /\ t.state = "SEGMENTED_REQUEST"
        /\ t.sentAll
        /\ Become(m.id, [InState(t, "SEGMENTED_CONFIRMATION") EXCEPT
                             !.win = least, !.last = 0, !.initial = 0,
                             !.buf = <<m.data>>])
        /\ Receive(m, {})

-----------------------------------------------------------------------------
(* await_confirmation: the request is out, the answer is not here.         *)

AwaitConfirmationComplexAck(m) ==
    LET t == client[m.id]
    IN  /\ m.type = "ComplexAck" /\ m.seg
        /\ t.state = "AWAIT_CONFIRMATION"
        /\ \/ /\ ~CanReceive(device.client)
              /\ Finish(m.id, "Abort", <<>>)
              /\ Receive(m, {})
           \/ /\ CanReceive(device.client)
              /\ m.seq = 0
              /\ Become(m.id, [InState(t, "SEGMENTED_CONFIRMATION") EXCEPT
                                   !.win = m.win, !.last = 0, !.initial = 0,
                                   !.buf = <<m.data>>])
              /\ Receive(m, {SegmentAck(FALSE, m.id, FALSE, 0, m.win)})
           \/ /\ CanReceive(device.client)
              /\ m.seq # 0
              /\ AbortBoth(m)

AwaitConfirmationSegmentAck(m) ==
    /\ m.type = "SegmentAck" /\ m.srv
    /\ client[m.id].state = "AWAIT_CONFIRMATION"
    /\ Become(m.id, Restarted(client[m.id]))
    /\ Receive(m, {})

\* An answer in one piece, in either of these states; an Error, Reject or Abort
\* does not have to wait for the last segment of the request.
ClientAnswer(m) ==
    LET t == client[m.id]
    IN  /\ \/ m.type \in {"SimpleAck", "Error", "Reject"}
           \/ m.type = "ComplexAck" /\ ~m.seg
           \/ m.type = "Abort" /\ m.srv
        /\ \/ t.state = "AWAIT_CONFIRMATION"
           \/ /\ t.state = "SEGMENTED_REQUEST"
              /\ t.sentAll \/ m.type \in {"Error", "Reject", "Abort"}
        /\ Finish(m.id, m.type, IF m.type = "Abort" THEN <<>> ELSE <<m.data>>)
        /\ Receive(m, {})

-----------------------------------------------------------------------------
(* segmented_confirmation: the answer is coming in segments.               *)

SegmentedConfirmationSegment(m) ==
    LET t == client[m.id]
        added == [t EXCEPT !.buf = Append(@, m.data), !.last = m.seq]
    IN  /\ m.type = "ComplexAck" /\ m.seg
        /\ t.state = "SEGMENTED_CONFIRMATION"
        /\ \/ /\ ~IsNext(t, m.seq)          \* out of order
              /\ Become(m.id, Restarted(t))
              /\ Receive(m, {SegmentAck(FALSE, m.id, TRUE, t.last, t.win)})
           \/ /\ IsNext(t, m.seq)          \* the last one
              /\ ~m.mor
              /\ Finish(m.id, "ComplexAck", added.buf)
              /\ Receive(m, {SegmentAck(FALSE, m.id, FALSE, m.seq, t.win)})
           \/ /\ IsNext(t, m.seq)          \* the end of a window
              /\ m.mor
              /\ m.seq = (t.initial + t.win) % SeqMod
              /\ Become(m.id, Restarted([added EXCEPT !.initial = m.seq]))
              /\ Receive(m, {SegmentAck(FALSE, m.id, FALSE, m.seq, t.win)})
           \/ /\ IsNext(t, m.seq)          \* within a window
              /\ m.mor
              /\ m.seq # (t.initial + t.win) % SeqMod
              /\ Become(m.id, Restarted(added))
              /\ Receive(m, {})

\* Anything but a segment of a ComplexAck ends it.
SegmentedConfirmationOther(m) ==
    /\ \/ m.type \in {"SimpleAck", "Error", "Reject"}
       \/ m.type \in {"Abort", "SegmentAck"} /\ m.srv
       \/ m.type = "ComplexAck" /\ ~m.seg
    /\ client[m.id].state = "SEGMENTED_CONFIRMATION"
    /\ AbortBoth(m)

-----------------------------------------------------------------------------
(***************************************************************************)
(* The timer.  timer_expired runs when the timer goes off and creates a    *)
(* task for the handler of that state, which runs one turn of the event    *)
(* loop later; that is long before the timer could go off again.           *)
(***************************************************************************)
ClientTimerExpired(id) ==
    /\ client[id].timer
    /\ ~client[id].late
    /\ Become(id, Expired(client[id]))
    /\ UNCHANGED netVars

SegmentedRequestTimeout(id) ==
    LET t == [client[id] EXCEPT !.late = FALSE]
        again == Restarted([t EXCEPT !.segRetry = @ + 1])
        w == WindowFrom(t, t.initial, ReqSegs[t.req])
    IN  /\ client[id].late
        /\ t.state = "SEGMENTED_REQUEST"
        /\ \/ /\ MayRetry(t.segRetry)
              /\ t.initial = 0
              /\ Become(id, again)
              /\ Send({RequestSegment(t, id, 0)})
           \/ /\ MayRetry(t.segRetry)
              /\ t.initial # 0
              /\ Become(id, Filled(again, t.initial, ReqSegs[t.req]))
              /\ Send({RequestSegment(t, id, i) : i \in w})
           \/ /\ ~MayRetry(t.segRetry)
              /\ Finish(id, "Abort", <<>>)
              /\ UNCHANGED netVars

\* The whole request is sent again, the count of retries survives; or there is no
\* route any more, which ends it with an Error as at the first attempt.
AwaitConfirmationTimeout(id) ==
    LET t == client[id]
        again == [Started(t.req) EXCEPT !.retry = t.retry + 1]
    IN  /\ t.late
        /\ t.state = "AWAIT_CONFIRMATION"
        /\ \/ /\ MayRetry(t.retry)
              /\ Become(id, again)
              /\ Send({RequestSegment(again, id, 0)})
           \/ /\ MayRetry(t.retry)
              /\ Finish(id, "Error", <<>>)
              /\ UNCHANGED netVars
           \/ /\ ~MayRetry(t.retry)
              /\ Finish(id, "Abort", <<>>)
              /\ UNCHANGED netVars

SegmentedConfirmationTimeout(id) ==
    /\ client[id].late
    /\ client[id].state = "SEGMENTED_CONFIRMATION"
    /\ Finish(id, "Abort", <<>>)
    /\ UNCHANGED netVars

ClientTimeout(id) ==
    \/ SegmentedRequestTimeout(id)
    \/ AwaitConfirmationTimeout(id)
    \/ SegmentedConfirmationTimeout(id)

-----------------------------------------------------------------------------
\* ApplicationServiceAccessPoint.confirmation finds the transaction; a datagram
\* for which there is none is dropped.
ClientUnmatched(m) ==
    /\ \/ m.type \in {"SimpleAck", "ComplexAck", "Error", "Reject"}
       \/ m.type \in {"Abort", "SegmentAck"} /\ m.srv
    /\ client[m.id].state = "NONE"
    /\ Receive(m, {})
    /\ UNCHANGED clientVars

ClientReceive(m) ==
    \/ ClientUnmatched(m)
    \/ SegmentedRequestAck(m)
    \/ SegmentedRequestEarlyAck(m)
    \/ SegmentedRequestComplexAck(m)
    \/ AwaitConfirmationComplexAck(m)
    \/ AwaitConfirmationSegmentAck(m)
    \/ ClientAnswer(m)
    \/ SegmentedConfirmationSegment(m)
    \/ SegmentedConfirmationOther(m)

ClientStep ==
    \/ \E id \in InvokeIDs : \/ ClientRequest(id)
                             \/ ClientTimerExpired(id)
                             \/ ClientTimeout(id)
    \/ \E m \in net : ClientReceive(m)

=============================================================================
