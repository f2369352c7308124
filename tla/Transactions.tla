---------------------------- MODULE Transactions ----------------------------
(***************************************************************************)
(* Confirmed services end to end: a client application and a server        *)
(* application, the two ApplicationServiceAccessPoints with their          *)
(* transactions, and UDP between them (bacpypes3/appservice.py).           *)
(***************************************************************************)
EXTENDS ClientSSM, ServerSSM

vars == <<netVars, clientVars, serverVars>>

Init ==
    /\ device \in Devices
    /\ net = {}
    /\ dups = 0
    /\ ClientInit
    /\ ServerInit

Next ==
    \/ ClientStep /\ UNCHANGED serverVars
    \/ ServerStep /\ UNCHANGED clientVars

Spec == Init /\ [][Next]_vars

(***************************************************************************)
(* What the event loop owes a transaction: a timer that is set goes off    *)
(* and the task it creates runs.  Nothing is owed by the network or the    *)
(* applications.                                                           *)
(***************************************************************************)
Fairness ==
    \A id \in InvokeIDs :
        /\ WF_vars(ClientTimerExpired(id) /\ UNCHANGED serverVars)
        /\ WF_vars(ClientTimeout(id) /\ UNCHANGED serverVars)
        /\ WF_vars(ServerTimerExpired(id) /\ UNCHANGED clientVars)
        /\ WF_vars(ServerTimeout(id) /\ UNCHANGED clientVars)

FairSpec == Spec /\ Fairness

-----------------------------------------------------------------------------
RequestPieces == UNION {{r} \X (0..(ReqSegs[r] - 1)) : r \in Requests}

ResponsePieces == (1..MaxExecs) \X (0..(RespSegs - 1))

SegmentMessages ==
    [type : {"ConfirmedRequest"}, id : InvokeIDs, seg : BOOLEAN, mor : BOOLEAN,
     seq : 0..(SeqMod - 1), win : 0..(SeqMod - 1),
     data : RequestPieces]
    \cup
    [type : {"ComplexAck"}, id : InvokeIDs, seg : BOOLEAN, mor : BOOLEAN,
     seq : 0..(SeqMod - 1), win : 0..(SeqMod - 1),
     data : ResponsePieces]

OtherMessages ==
    [type : {"SegmentAck"}, srv : BOOLEAN, id : InvokeIDs, nak : BOOLEAN,
     seq : 0..(SeqMod - 1), win : 0..(SeqMod - 1)]
    \cup [type : {"Abort"}, srv : BOOLEAN, id : InvokeIDs]
    \cup [type : {"SimpleAck", "Error", "Reject"}, id : InvokeIDs,
          data : (1..MaxExecs) \X {0}]

ClientRecords ==
    [state : ClientStates, req : Requests \cup {0}, sentAll : BOOLEAN,
     retry : 0..Retries, segRetry : 0..Retries, initial : 0..(SeqMod - 1),
     last : 0..(SeqMod - 1), win : 0..(SeqMod - 1), timer : BOOLEAN,
     late : BOOLEAN, buf : Seq(ResponsePieces)]

ServerRecords ==
    [state : ServerStates, resp : 0..MaxExecs, sentAll : BOOLEAN,
     segRetry : 0..Retries, initial : 0..(SeqMod - 1),
     last : 0..(SeqMod - 1), win : 0..(SeqMod - 1), timer : BOOLEAN,
     late : BOOLEAN, buf : Seq(RequestPieces)]

\* The shape of the state.
TypeOK ==
    /\ device \in Devices
    /\ net \subseteq SegmentMessages \cup OtherMessages
    /\ dups \in 0..MaxDups
    /\ client \in [InvokeIDs -> ClientRecords]
    /\ asked \in Requests \cup {0}
    /\ next_id \in InvokeIDs
    /\ results \in [Requests -> Seq([kind : Kinds,
                         body : Seq(ResponsePieces)])]
    /\ server \in [InvokeIDs -> ServerRecords]
    /\ execs \in Seq([id : InvokeIDs, body : Seq(RequestPieces)])
    /\ Len(execs) <= MaxExecs
    /\ pending \subseteq 1..Len(execs)

(***************************************************************************)
(* A request gets one answer, whatever is retried, doubled or late, and    *)
(* none while its transaction is on the list.                              *)
(***************************************************************************)
AnsweredOnce ==
    /\ \A r \in Requests : Len(results[r]) <= 1
    /\ \A id \in InvokeIDs :
           client[id].state # "NONE" => results[client[id].req] = <<>>

(***************************************************************************)
(* The segments of an answer are put together in order, none left out and  *)
(* none twice, and what the application is given has all of them           *)
(* (segmented_confirmation, append_segment, fill_window).                  *)
(***************************************************************************)
ResponseInOrder ==
    /\ \A id \in InvokeIDs : client[id].state = "SEGMENTED_CONFIRMATION" =>
           \A k \in 1..Len(client[id].buf) : client[id].buf[k][2] = k - 1
    /\ \A r \in Requests : \A i \in 1..Len(results[r]) :
           LET body == results[r][i].body
           IN  results[r][i].kind = "ComplexAck" =>
                   /\ Len(body) = RespSegs
                   /\ \A k \in 1..RespSegs : body[k][2] = k - 1

(***************************************************************************)
(* After the segment it began with, the server puts together the second,   *)
(* the third and so on, none left out and none twice, whatever is retried, *)
(* doubled or late, and hands over as many as the request has to which the *)
(* last belongs (segmented_request, append_segment).  The code asks        *)
(* neither whether the segment it begins with is a first one nor whose     *)
(* request a segment is of: see the two properties that follow.            *)
(***************************************************************************)
Ordered(body) == \A k \in 2..Len(body) : body[k][2] = k - 1

RequestInOrder ==
    /\ \A id \in InvokeIDs :
           server[id].state = "SEGMENTED_REQUEST" => Ordered(server[id].buf)
    /\ \A e \in 1..Len(execs) :
           LET body == execs[e].body
           IN  Ordered(body) /\ Len(body) = ReqSegs[body[Len(body)][1]]

(***************************************************************************)
(* The application of the server is handed the whole request               *)
(* (segmented_request: "forward the whole thing to the application").      *)
(* It does not hold, see TxForwardsWhole.cfg.                              *)
(***************************************************************************)
ForwardsWholeRequest == \A e \in 1..Len(execs) : IsWhole(execs[e].body)

(***************************************************************************)
(* What it is handed is of one request: the transaction is that of an      *)
(* invoke ID, which another request of the client may have by now.  It     *)
(* does not hold either, see TxMixesRequests.cfg.                          *)
(***************************************************************************)
HandsOverOneRequest ==
    \A e \in 1..Len(execs) :
        \A k \in 1..Len(execs[e].body) : execs[e].body[k][1] = execs[e].body[1][1]

(***************************************************************************)
(* A request is executed again only for another transmission of its first  *)
(* segment or for a datagram delivered twice: a server that is done with a *)
(* transaction does not know it any more (confirmation: "find duplicates   *)
(* of this request").  The whole request is sent again Retries times, and  *)
(* each time the first of several segments is sent Retries times more      *)
(* while it is not acknowledged.                                           *)
(***************************************************************************)
Transmissions(r) == (1 + Retries) * (IF ReqSegs[r] = 1 THEN 1 ELSE 1 + Retries)

ExecutionsBounded ==
    \A r \in Requests :
        Cardinality({e \in 1..Len(execs) : execs[e].body = Whole(r)})
            <= Transmissions(r) + dups

(***************************************************************************)
(* Segments are only sent by a device that transmits them to one that, as  *)
(* far as the sender can know, accepts segments, and so many of them       *)
(* (indication, confirmation).  clientMax is what the request says of it,  *)
(* which says "unspecified" and "more than 64" as well.                    *)
(***************************************************************************)
SegmentationRespected ==
    \A m \in net :
        /\ m.type = "ConfirmedRequest" /\ m.seg =>
               /\ CanTransmit(device.client)
               /\ device.known =>
                      /\ CanReceive(device.server)
                      /\ device.serverMax # 0 => ReqSegs[m.data[1]] <= device.serverMax
        /\ m.type = "ComplexAck" /\ m.seg =>
               /\ CanTransmit(device.server)
               /\ CanReceive(device.client)
               /\ device.clientMax \in 2..64 => RespSegs <= device.clientMax

(***************************************************************************)
(* The future of every request is resolved, though every datagram may be   *)
(* lost and the server's application may never answer.                     *)
(***************************************************************************)
EveryRequestAnswered ==
    \A r \in Requests : asked >= r ~> results[r] # <<>>

(***************************************************************************)
(* The server forgets every transaction, answered or not: serverTransactions*)
(* does not grow.                                                          *)
(***************************************************************************)
EveryTransactionEnds ==
    \A id \in InvokeIDs : []<>(server[id].state = "NONE")

(***************************************************************************)
(* The protocol gives the client's application the confirmed service.      *)
(***************************************************************************)
Service == INSTANCE ConfirmedService WITH
    answer <- [r \in Requests |->
                  IF r > asked THEN "unasked"
                  ELSE IF results[r] = <<>> THEN "outstanding"
                  ELSE results[r][1].kind],
    executed <- {r \in Requests : \E e \in 1..Len(execs) : execs[e].body = Whole(r)}

ProvidesService == Service!ServiceSpec

=============================================================================
