------------------------------ MODULE ServerSSM ------------------------------
(***************************************************************************)
(* The server side of confirmed services, class ServerSSM, and the         *)
(* application behind it: collects a request, hands it to the application, *)
(* and sends the answer.  server[id] is the transaction in                 *)
(* serverTransactions for this client and invoke ID.                       *)
(***************************************************************************)
EXTENDS SSM

VARIABLES
    server,     \* the transactions, by invoke ID
    execs,      \* what was handed to the application, in order
    pending     \* the executions that have not answered yet

serverVars == <<server, execs, pending>>

ServerStates == {"NONE", "SEGMENTED_REQUEST", "AWAIT_RESPONSE", "SEGMENTED_RESPONSE"}

NoServer ==
    [state |-> "NONE", resp |-> 0, sentAll |-> FALSE, segRetry |-> 0,
     initial |-> 0, last |-> 0, win |-> NoWindow, timer |-> FALSE, late |-> FALSE,
     buf |-> <<>>]

ServerInit ==
    /\ server = [id \in InvokeIDs |-> NoServer]
    /\ execs = <<>>
    /\ pending = {}

\* get_segment of a ComplexAck.
ResponseSegment(t, id, indx) ==
    Segment("ComplexAck", id, t.resp, indx, RespSegs,
            IF indx = 0 THEN ServerWindow ELSE t.win)

\* The segments of request r, in order.
Whole(r) == [i \in 1..ReqSegs[r] |-> <<r, i - 1>>]

\* A request in which nothing is missing, doubled or out of place.
IsWhole(body) == body # <<>> /\ body = Whole(body[1][1])

-----------------------------------------------------------------------------
ServerBecome(id, t) ==
    /\ server' = [server EXCEPT ![id] = t]
    /\ UNCHANGED <<execs, pending>>

\* completed or aborted: off the list.
ServerRelease(id) ==
    /\ server' = [server EXCEPT ![id] = NoServer]
    /\ UNCHANGED <<execs, pending>>

(***************************************************************************)
(* set_state(AWAIT_RESPONSE, applicationTimeout) and request(apdu): the    *)
(* request is decoded and handed to the application.  One that is not what *)
(* the client sent may fail to decode; then the application is given an    *)
(* abort, which it ignores, and the transaction waits for its timeout.     *)
(***************************************************************************)
Deliver(id, t, body) ==
    /\ Len(execs) < MaxExecs
    /\ server' = [server EXCEPT ![id] = [InState(t, "AWAIT_RESPONSE") EXCEPT !.buf = <<>>]]
    /\ execs' = Append(execs, [id |-> id, body |-> body])
    /\ \/ pending' = pending \cup {Len(execs) + 1}
       \/ ~IsWhole(body) /\ pending' = pending

-----------------------------------------------------------------------------
(***************************************************************************)
(* idle: a ConfirmedRequest for which there is no transaction.  Of a       *)
(* segmented one the first segment to arrive is taken for the first.       *)
(***************************************************************************)
Idle(m) ==
    LET win == IF m.win < ServerWindow THEN m.win ELSE ServerWindow
    IN  /\ m.type = "ConfirmedRequest"
        /\ server[m.id].state = "NONE"
        /\ \/ /\ ~m.seg
              /\ Deliver(m.id, NoServer, <<m.data>>)
              /\ Receive(m, {})
           \/ /\ m.seg
              /\ ~CanReceive(device.server)
              /\ Receive(m, {Abort(TRUE, m.id)})
              /\ UNCHANGED serverVars
           \/ /\ m.seg
              /\ CanReceive(device.server)
              /\ ServerBecome(m.id, [InState(NoServer, "SEGMENTED_REQUEST") EXCEPT
                                         !.win = win, !.buf = <<m.data>>])
              /\ Receive(m, {SegmentAck(TRUE, m.id, FALSE, 0, win)})

(***************************************************************************)
(* segmented_request: the next segment of a request.                       *)
(***************************************************************************)
SegmentedRequestSegment(m) ==
    LET t == server[m.id]
        added == [t EXCEPT !.buf = Append(@, m.data), !.last = m.seq]
    IN  /\ m.type = "ConfirmedRequest" /\ m.seg
        /\ t.state = "SEGMENTED_REQUEST"
        /\ \/ /\ ~IsNext(t, m.seq)          \* out of order
              /\ ServerBecome(m.id, Restarted(t))
              /\ Receive(m, {SegmentAck(TRUE, m.id, TRUE, t.initial, t.win)})
           \/ /\ IsNext(t, m.seq)          \* the last one
              /\ ~m.mor
              /\ Deliver(m.id, added, added.buf)
              /\ Receive(m, {SegmentAck(TRUE, m.id, FALSE, m.seq, t.win)})
           \/ /\ IsNext(t, m.seq)          \* the end of a window
              /\ m.mor
              /\ m.seq = (t.initial + t.win) % SeqMod
              /\ ServerBecome(m.id, Restarted([added EXCEPT !.initial = m.seq]))
              /\ Receive(m, {SegmentAck(TRUE, m.id, FALSE, m.seq, t.win)})
           \/ /\ IsNext(t, m.seq)          \* within a window
              /\ m.mor
              /\ m.seq # (t.initial + t.win) % SeqMod
              /\ ServerBecome(m.id, Restarted(added))
              /\ Receive(m, {})

\* An abort ends it; it is echoed to the client, whose access point looks for a
\* server transaction of its own and drops it.  Anything but a segment aborts it.
SegmentedRequestOther(m) ==
    /\ server[m.id].state = "SEGMENTED_REQUEST"
    /\ ServerRelease(m.id)
    /\ \/ m.type = "Abort" /\ ~m.srv /\ Receive(m, {})
       \/ /\ \/ m.type = "ConfirmedRequest" /\ ~m.seg
             \/ m.type = "SegmentAck" /\ ~m.srv
          /\ Receive(m, {Abort(TRUE, m.id)})

-----------------------------------------------------------------------------
(***************************************************************************)
(* await_response: a duplicate of the request is ignored, an abort ends    *)
(* the transaction, a SegmentAck raises RuntimeError and changes nothing.  *)
(***************************************************************************)
AwaitResponse(m) ==
    /\ server[m.id].state = "AWAIT_RESPONSE"
    /\ \/ /\ \/ m.type = "ConfirmedRequest"
             \/ m.type = "SegmentAck" /\ ~m.srv
          /\ UNCHANGED serverVars
          /\ Receive(m, {})
       \/ /\ m.type = "Abort" /\ ~m.srv
          /\ ServerRelease(m.id)
          /\ Receive(m, {})

(***************************************************************************)
(* confirmation: the application answers an execution.  The answer goes to *)
(* the transaction that has the invoke ID now, in whatever state it is; if *)
(* there is none it is dropped.                                            *)
(***************************************************************************)
Respond(e, kind) ==
    LET id == execs[e].id
        t == server[id]
        first == [InState(t, "SEGMENTED_RESPONSE") EXCEPT
                      !.resp = e, !.segRetry = 0, !.initial = 0, !.win = NoWindow,
                      !.buf = <<>>]
        maxSegs == DecodedMaxSegments(device.clientMax)
        refused == \/ ~CanTransmit(device.server)
                   \/ ~CanReceive(device.client)
                   \/ maxSegs # 0 /\ RespSegs > maxSegs
        Ends(m) == /\ server' = [server EXCEPT ![id] = NoServer]
                   /\ Send({m})
    IN  /\ e \in pending
        /\ pending' = pending \ {e}
        /\ UNCHANGED execs
        /\ \/ /\ t.state = "NONE"
              /\ UNCHANGED <<server, netVars>>
           \/ /\ t.state # "NONE"
              /\ kind \in {"SimpleAck", "Error", "Reject"}
              /\ Ends(Answer(kind, id, e))
           \/ /\ t.state # "NONE"
              /\ kind = "Abort" \/ (kind = "ComplexAck" /\ RespSegs > 1 /\ refused)
              /\ Ends(Abort(TRUE, id))
           \/ /\ t.state # "NONE"
              /\ kind = "ComplexAck"
              /\ RespSegs = 1
              /\ Ends(Segment("ComplexAck", id, e, 0, 1, NoWindow))
           \/ /\ t.state # "NONE"
              /\ kind = "ComplexAck"
              /\ RespSegs > 1
              /\ ~refused
              /\ server' = [server EXCEPT ![id] = first]
              /\ Send({ResponseSegment(first, id, 0)})

-----------------------------------------------------------------------------
(***************************************************************************)
(* segmented_response: the client acknowledges segments of the answer.     *)
(***************************************************************************)
SegmentedResponseAck(m) ==
    LET t == [server[m.id] EXCEPT !.win = m.win]
        next == (m.seq + 1) % SeqMod
        w == WindowFrom(t, next, RespSegs)
        filled == Filled([t EXCEPT !.initial = next, !.segRetry = 0], next, RespSegs)
    IN  /\ m.type = "SegmentAck" /\ ~m.srv
        /\ server[m.id].state = "SEGMENTED_RESPONSE"
        /\ \/ /\ ~InWindow(t, m.seq, t.initial)         \* duplicate ack
              /\ ServerBecome(m.id, Restarted(t))
              /\ Receive(m, {})
           \/ /\ InWindow(t, m.seq, t.initial)          \* final ack
              /\ t.sentAll
              /\ ServerRelease(m.id)
              /\ Receive(m, {})
           \/ /\ InWindow(t, m.seq, t.initial)          \* more to send
              /\ ~t.sentAll
              /\ ServerBecome(m.id, IF w = {} THEN filled ELSE Restarted(filled))
              /\ Receive(m, {ResponseSegment(filled, m.id, i) : i \in w})

\* An abort ends it, and is echoed; a request raises RuntimeError.
SegmentedResponseOther(m) ==
    /\ server[m.id].state = "SEGMENTED_RESPONSE"
    /\ \/ /\ m.type = "Abort" /\ ~m.srv
          /\ ServerRelease(m.id)
          /\ Receive(m, {})
       \/ /\ m.type = "ConfirmedRequest"
          /\ UNCHANGED serverVars
          /\ Receive(m, {})

-----------------------------------------------------------------------------
ServerTimerExpired(id) ==
    /\ server[id].timer
    /\ ~server[id].late
    /\ ServerBecome(id, Expired(server[id]))
    /\ UNCHANGED netVars

\* segmented_request_timeout gives up without a word, await_response_timeout
\* tells only the application, which ignores it.
ServerGivesUp(id) ==
    /\ server[id].late
    /\ server[id].state \in {"SEGMENTED_REQUEST", "AWAIT_RESPONSE"}
    /\ ServerRelease(id)
    /\ UNCHANGED netVars

SegmentedResponseTimeout(id) ==
    LET t == [server[id] EXCEPT !.late = FALSE]
        again == Restarted([t EXCEPT !.segRetry = @ + 1])
        w == WindowFrom(t, t.initial, RespSegs)
    IN  /\ server[id].late
        /\ t.state = "SEGMENTED_RESPONSE"
        /\ \/ /\ MayRetry(t.segRetry)
              /\ t.initial = 0
              /\ ServerBecome(id, again)
              /\ Send({ResponseSegment(t, id, 0)})
           \/ /\ MayRetry(t.segRetry)
              /\ t.initial # 0
              /\ ServerBecome(id, Filled(again, t.initial, RespSegs))
              /\ Send({ResponseSegment(t, id, i) : i \in w})
           \/ /\ ~MayRetry(t.segRetry)
              /\ ServerRelease(id)
              /\ UNCHANGED netVars

ServerTimeout(id) == ServerGivesUp(id) \/ SegmentedResponseTimeout(id)

-----------------------------------------------------------------------------
\* A SegmentAck or Abort of a client for which there is no transaction.
ServerUnmatched(m) ==
    /\ m.type \in {"Abort", "SegmentAck"} /\ ~m.srv
    /\ server[m.id].state = "NONE"
    /\ Receive(m, {})
    /\ UNCHANGED serverVars

ServerReceive(m) ==
    \/ Idle(m)
    \/ SegmentedRequestSegment(m)
    \/ SegmentedRequestOther(m)
    \/ AwaitResponse(m)
    \/ SegmentedResponseAck(m)
    \/ SegmentedResponseOther(m)
    \/ ServerUnmatched(m)

ServerStep ==
    \/ \E m \in net : ServerReceive(m)
    \/ \E e \in pending, kind \in AckKinds : Respond(e, kind)
    \/ \E id \in InvokeIDs : ServerTimerExpired(id) \/ ServerTimeout(id)

=============================================================================
