-------------------------- MODULE TransactionsProofs --------------------------
(***************************************************************************)
(* Confirmed services for any number of requests, invoke IDs, segments and *)
(* retries: the state keeps its shape, a request is answered once, no      *)
(* segment is sent where it may not be, a request is executed no more      *)
(* often than its first segment was sent, and its segments are put         *)
(* together in order.                                                      *)
(*                                                                         *)
(* Every handler of the client, whatever it looks at, does one of three    *)
(* things to what the application sees: nothing, a change of a transaction *)
(* that stays on the list, or an end of one with a result (ClientEffect).  *)
(* The lemmas of the handlers show that; the invariant is kept by each of  *)
(* the three and by a new request.  The last part looks at the handlers    *)
(* once more, for where the first segments of a request are.               *)
(***************************************************************************)
EXTENDS Transactions, FiniteSetTheorems, TLAPS

\* What confirmation looks at before an answer goes out in segments.
MayRespond ==
    LET maxSegs == DecodedMaxSegments(device.clientMax)
    IN  /\ CanTransmit(device.server)
        /\ CanReceive(device.client)
        /\ maxSegs # 0 => RespSegs <= maxSegs

\* A segment is one of a request, or of an answer, that may go out in segments.
Permitted(m) ==
    /\ m.type = "ConfirmedRequest" /\ m.seg =>
           MaySend(m.data[1]) /\ ReqSegs[m.data[1]] # 1
    /\ m.type = "ComplexAck" /\ m.seg => MayRespond

\* A segment of a request carries what its place in the request says.
Labeled(m) ==
    m.type = "ConfirmedRequest" =>
        /\ m.seq = m.data[2] % SeqMod
        /\ m.mor = (m.data[2] < ReqSegs[m.data[1]] - 1)
        /\ m.seg = (ReqSegs[m.data[1]] # 1)

Messages == {m \in SegmentMessages \cup OtherMessages : Permitted(m) /\ Labeled(m)}

\* A transaction on the list has a request that may be sent, and an answer being
\* sent in segments has an execution and may be sent so.
HasContent ==
    /\ \A id \in InvokeIDs : client[id].state # "NONE" =>
           client[id].req \in Requests /\ MaySend(client[id].req)
    /\ \A id \in InvokeIDs : server[id].state = "SEGMENTED_RESPONSE" =>
           server[id].resp \in 1..MaxExecs /\ MayRespond

Shape == TypeOK /\ HasContent /\ net \subseteq Messages

-----------------------------------------------------------------------------
(* Numbers, transactions and datagrams.                                    *)

LEMMA ModLemma ==
    ASSUME NEW n \in Int
    PROVE  /\ n % SeqMod \in 0..(SeqMod - 1)
           /\ n % IdMod \in 0..(IdMod - 1)
  BY SSMAssumption

LEMMA WindowLemma ==
    ASSUME NEW t, NEW n \in Nat, NEW count \in Nat, t.win \in Nat
    PROVE  WindowFrom(t, n, count) \subseteq 0..(count - 1)
  BY DEF WindowFrom

\* The number of segments that the receiver of a request reads is not above the
\* one that was meant, and is not the one for unspecified.
LEMMA DecodedLemma ==
    ASSUME NEW n \in Nat \ {1}
    PROVE  /\ DecodedMaxSegments(n) \in Nat
           /\ n \in 2..64 => DecodedMaxSegments(n) # 0 /\ DecodedMaxSegments(n) <= n
<1> DEFINE Codes == {2, 4, 8, 16, 32, 64}
           Largest(k) == k <= n /\ \A j \in Codes : j <= n => j <= k
<1>1. CASE n \in 2..64
  <2>1. \E k \in Codes : Largest(k)
    <3>1. \/ n < 4 \/ n \in 4..7 \/ n \in 8..15
          \/ n \in 16..31 \/ n \in 32..63 \/ n = 64
      BY <1>1
    <3> QED BY <1>1, <3>1
  <2>2. DecodedMaxSegments(n) = CHOOSE k \in Codes : Largest(k)
    BY <1>1 DEF DecodedMaxSegments
  <2> HIDE DEF Codes
  <2>3. DecodedMaxSegments(n) \in Codes /\ Largest(DecodedMaxSegments(n))
    BY <2>1, <2>2
  <2> QED BY <2>3 DEF Codes
<1>2. CASE n \notin 2..64
  BY <1>2 DEF DecodedMaxSegments
<1> QED BY <1>1, <1>2

\* What the fields of a datagram are.
LEMMA MessageLemma ==
    ASSUME NEW m \in Messages
    PROVE  /\ m.id \in InvokeIDs
           /\ m.type \in {"ConfirmedRequest", "ComplexAck", "SegmentAck"} =>
                  m.seq \in 0..(SeqMod - 1) /\ m.win \in 0..(SeqMod - 1)
           /\ m.type = "ConfirmedRequest" => m.data \in RequestPieces
           /\ m.type \in {"ComplexAck", "SimpleAck", "Error", "Reject"} =>
                  m.data \in ResponsePieces
<1>1. 0 \in 0..(RespSegs - 1)
  BY SSMAssumption
<1>2. CASE m \in SegmentMessages
  BY <1>2 DEF SegmentMessages
<1>3. CASE m \in OtherMessages
  BY <1>1, <1>3 DEF OtherMessages, ResponsePieces
<1> QED BY <1>2, <1>3 DEF Messages

LEMMA RequestSegmentLemma ==
    ASSUME NEW t, NEW id \in InvokeIDs, NEW i, t.req \in Requests,
           i \in 0..(ReqSegs[t.req] - 1), t.win \in 0..(SeqMod - 1), MaySend(t.req)
    PROVE  RequestSegment(t, id, i) \in Messages
<1> DEFINE m == RequestSegment(t, id, i)
<1>1. <<t.req, i>> \in RequestPieces
  BY DEF RequestPieces
<1>2. i \in Int
  <2>1. ReqSegs[t.req] \in Nat
    BY SSMAssumption
  <2> QED BY <2>1
<1>3. i % SeqMod \in 0..(SeqMod - 1)
  BY <1>2, ModLemma
<1>4. ClientWindow \in 0..(SeqMod - 1)
  BY SSMAssumption
<1>5. m \in SegmentMessages
  BY <1>1, <1>3, <1>4 DEF RequestSegment, Segment, SegmentMessages
<1>6. Permitted(m) /\ Labeled(m)
  BY DEF RequestSegment, Segment, Permitted, Labeled
<1> QED BY <1>5, <1>6 DEF Messages

LEMMA ResponseSegmentLemma ==
    ASSUME NEW t, NEW id \in InvokeIDs, NEW i, t.resp \in 1..MaxExecs,
           i \in 0..(RespSegs - 1), t.win \in 0..(SeqMod - 1), MayRespond
    PROVE  ResponseSegment(t, id, i) \in Messages
<1> DEFINE m == ResponseSegment(t, id, i)
<1>1. <<t.resp, i>> \in ResponsePieces
  BY DEF ResponsePieces
<1>2. i \in Int
  BY SSMAssumption
<1>3. i % SeqMod \in 0..(SeqMod - 1)
  BY <1>2, ModLemma
<1>4. ServerWindow \in 0..(SeqMod - 1)
  BY SSMAssumption
<1>5. m \in SegmentMessages
  BY <1>1, <1>3, <1>4 DEF ResponseSegment, Segment, SegmentMessages
<1>6. Permitted(m) /\ Labeled(m)
  BY DEF ResponseSegment, Segment, Permitted, Labeled
<1> QED BY <1>5, <1>6 DEF Messages

LEMMA OtherLemma ==
    /\ \A srv, nak \in BOOLEAN, id \in InvokeIDs, seq, win \in 0..(SeqMod - 1) :
           SegmentAck(srv, id, nak, seq, win) \in Messages
    /\ \A srv \in BOOLEAN, id \in InvokeIDs : Abort(srv, id) \in Messages
    /\ \A kind \in {"SimpleAck", "Error", "Reject"}, id \in InvokeIDs, e \in 1..MaxExecs :
           Answer(kind, id, e) \in Messages
  BY DEF SegmentAck, Abort, Answer, Permitted, Labeled, Messages, OtherMessages

\* What the network is after a step.
NetEffect == device' = device /\ net' \subseteq Messages /\ dups' \in 0..MaxDups

LEMMA NetLemma ==
    ASSUME Shape, NEW sent \in SUBSET Messages
    PROVE  /\ \A m : Receive(m, sent) => NetEffect
           /\ Send(sent) => NetEffect
           /\ UNCHANGED netVars => NetEffect
  BY SSMAssumption DEF Shape, TypeOK, NetEffect, Receive, Send, netVars

\* What set_state, restart_timer, the call of the timer and fill_window make of
\* a transaction.
LEMMA ClientInState ==
    ASSUME NEW t \in ClientRecords, NEW s \in ClientStates
    PROVE  /\ InState(t, s) \in ClientRecords
           /\ InState(t, s).req = t.req
           /\ InState(t, s).retry = t.retry
           /\ InState(t, s).state = s
  BY DEF ClientRecords, InState

LEMMA ClientRestarted ==
    ASSUME NEW t \in ClientRecords
    PROVE  /\ Restarted(t) \in ClientRecords
           /\ Restarted(t).req = t.req
           /\ Restarted(t).retry = t.retry
           /\ Restarted(t).segRetry = t.segRetry
           /\ Restarted(t).initial = t.initial
           /\ Restarted(t).win = t.win
           /\ Restarted(t).state = t.state
  BY DEF ClientRecords, Restarted

LEMMA ClientExpired ==
    ASSUME NEW t \in ClientRecords
    PROVE  /\ Expired(t) \in ClientRecords
           /\ Expired(t).req = t.req
           /\ Expired(t).retry = t.retry
           /\ Expired(t).segRetry = t.segRetry
           /\ Expired(t).initial = t.initial
           /\ Expired(t).state = t.state
  BY DEF ClientRecords, Expired

LEMMA ClientFilled ==
    ASSUME NEW t \in ClientRecords, NEW n, NEW count
    PROVE  /\ Filled(t, n, count) \in ClientRecords
           /\ Filled(t, n, count).req = t.req
           /\ Filled(t, n, count).retry = t.retry
           /\ Filled(t, n, count).initial = t.initial
           /\ Filled(t, n, count).win = t.win
           /\ Filled(t, n, count).state = t.state
<1>1. (t.sentAll \/ (count - 1) \in WindowFrom(t, n, count)) \in BOOLEAN
  OBVIOUS
<1> QED BY <1>1 DEF ClientRecords, Filled

LEMMA ServerInState ==
    ASSUME NEW t \in ServerRecords, NEW s \in ServerStates
    PROVE  /\ InState(t, s) \in ServerRecords
           /\ InState(t, s).resp = t.resp
           /\ InState(t, s).state = s
  BY DEF ServerRecords, InState

LEMMA ServerRestarted ==
    ASSUME NEW t \in ServerRecords
    PROVE  /\ Restarted(t) \in ServerRecords
           /\ Restarted(t).resp = t.resp
           /\ Restarted(t).win = t.win
           /\ Restarted(t).state = t.state
  BY DEF ServerRecords, Restarted

LEMMA ServerExpired ==
    ASSUME NEW t \in ServerRecords
    PROVE  /\ Expired(t) \in ServerRecords
           /\ Expired(t).resp = t.resp
           /\ Expired(t).state = t.state
  BY DEF ServerRecords, Expired

LEMMA ServerFilled ==
    ASSUME NEW t \in ServerRecords, NEW n, NEW count
    PROVE  /\ Filled(t, n, count) \in ServerRecords
           /\ Filled(t, n, count).resp = t.resp
           /\ Filled(t, n, count).win = t.win
           /\ Filled(t, n, count).state = t.state
<1>1. (t.sentAll \/ (count - 1) \in WindowFrom(t, n, count)) \in BOOLEAN
  OBVIOUS
<1> QED BY <1>1 DEF ServerRecords, Filled

-----------------------------------------------------------------------------
(* What a handler of the client does.                                      *)

\* A transaction changes and stays where it is, on the list or not.
Changes(id, t) ==
    /\ Become(id, t)
    /\ t \in ClientRecords
    /\ t.req = client[id].req
    /\ t.state = "NONE" <=> client[id].state = "NONE"

\* A transaction on the list ends with a result.
Ends(id, kind, body) ==
    /\ client[id].state # "NONE"
    /\ Finish(id, kind, body)

\* A new request: a transaction that was not on the list is, or the answer is there.
Asks(id, t, kind) ==
    /\ asked + 1 \in Requests
    /\ asked' = asked + 1
    /\ next_id' \in InvokeIDs
    /\ client[id].state = "NONE"
    /\ \/ /\ client' = client
          /\ results' = [results EXCEPT ![asked + 1] = <<[kind |-> kind, body |-> <<>>]>>]
       \/ /\ client' = [client EXCEPT ![id] = t]
          /\ t.req = asked + 1
          /\ t.state # "NONE"
          /\ MaySend(t.req)
          /\ results' = results

ClientEffect ==
    \/ UNCHANGED clientVars
    \/ \E id \in InvokeIDs, t \in ClientRecords, kind \in Kinds : Asks(id, t, kind)
    \/ \E id \in InvokeIDs, t \in ClientRecords : Changes(id, t)
    \/ \E id \in InvokeIDs, kind \in Kinds, body \in Seq(ResponsePieces) :
           Ends(id, kind, body)

\* What the lemmas of the handlers begin with.
LEMMA ClientFacts ==
    ASSUME Shape, NEW id \in InvokeIDs
    PROVE  /\ client[id] \in ClientRecords
           /\ client[id].state # "NONE" =>
                  /\ client[id].req \in Requests
                  /\ MaySend(client[id].req)
                  /\ ReqSegs[client[id].req] \in Nat \ {0}
  BY SSMAssumption DEF Shape, TypeOK, HasContent

LEMMA BecomeLemma ==
    ASSUME NEW id \in InvokeIDs, NEW u \in ClientRecords, u.req = client[id].req,
           u.state # "NONE", client[id].state # "NONE", Become(id, u)
    PROVE  ClientEffect
  BY DEF ClientEffect, Changes

LEMMA FinishLemma ==
    ASSUME NEW id \in InvokeIDs, NEW kind \in Kinds, NEW body \in Seq(ResponsePieces),
           client[id].state # "NONE", Finish(id, kind, body)
    PROVE  ClientEffect
  BY DEF ClientEffect, Ends

LEMMA AbortLemma ==
    ASSUME NEW id \in InvokeIDs, client[id].state # "NONE", Finish(id, "Abort", <<>>)
    PROVE  ClientEffect
<1>1. "Abort" \in Kinds /\ <<>> \in Seq(ResponsePieces)
  BY DEF Kinds
<1> QED BY <1>1, FinishLemma

LEMMA AbortBothLemma ==
    ASSUME Shape, NEW m \in Messages, client[m.id].state # "NONE", AbortBoth(m)
    PROVE  ClientEffect /\ NetEffect
<1>1. m.id \in InvokeIDs
  BY MessageLemma
<1>2. ClientEffect
  BY <1>1, AbortLemma DEF AbortBoth
<1>3. NetEffect
  BY <1>1, OtherLemma, NetLemma DEF AbortBoth, Shape
<1> QED BY <1>2, <1>3

LEMMA SegmentedRequestAckLemma ==
    ASSUME Shape, NEW m \in Messages, SegmentedRequestAck(m)
    PROVE  ClientEffect /\ NetEffect
<1> DEFINE t == [client[m.id] EXCEPT !.win = m.win]
           next == (m.seq + 1) % SeqMod
           w == WindowFrom(t, next, ReqSegs[t.req])
           begun == [t EXCEPT !.initial = next, !.segRetry = 0]
           filled == Filled(begun, next, ReqSegs[t.req])
<1>1. /\ m.type = "SegmentAck"
      /\ client[m.id].state = "SEGMENTED_REQUEST"
      /\ \/ Become(m.id, Restarted(t)) /\ Receive(m, {})
         \/ Become(m.id, InState(t, "AWAIT_CONFIRMATION")) /\ Receive(m, {})
         \/ /\ Become(m.id, IF w = {} THEN filled ELSE Restarted(filled))
            /\ Receive(m, {RequestSegment(filled, m.id, i) : i \in w})
  BY DEF SegmentedRequestAck
<1>2. m.id \in InvokeIDs /\ m.seq \in 0..(SeqMod - 1) /\ m.win \in 0..(SeqMod - 1)
  BY <1>1, MessageLemma
<1>3. client[m.id] \in ClientRecords /\ client[m.id].req \in Requests
      /\ ReqSegs[client[m.id].req] \in Nat \ {0} /\ MaySend(client[m.id].req)
  BY <1>1, <1>2, ClientFacts
<1>4. t \in ClientRecords /\ t.req = client[m.id].req /\ t.state = "SEGMENTED_REQUEST"
      /\ t.win = m.win
  BY <1>1, <1>2, <1>3 DEF ClientRecords
<1>5. next \in 0..(SeqMod - 1)
  BY <1>2, ModLemma
<1> HIDE DEF t, next
<1>6. begun \in ClientRecords /\ begun.req = t.req /\ begun.state = t.state
      /\ begun.win = t.win
  <2>1. 0 \in 0..Retries
    BY SSMAssumption
  <2> QED BY <1>4, <1>5, <2>1 DEF ClientRecords
<1> HIDE DEF begun
<1>7. filled \in ClientRecords /\ filled.req = t.req /\ filled.state = t.state
      /\ filled.win = t.win
  BY <1>6, ClientFilled
<1>8. {RequestSegment(filled, m.id, i) : i \in w} \subseteq Messages
  <2>1. w \subseteq 0..(ReqSegs[t.req] - 1)
    BY <1>2, <1>3, <1>4, <1>5, WindowLemma
  <2> HIDE DEF w, filled
  <2>2. ASSUME NEW i \in w
        PROVE  RequestSegment(filled, m.id, i) \in Messages
    <3>1. i \in 0..(ReqSegs[filled.req] - 1)
      BY <1>4, <1>7, <2>1
    <3>2. filled.req \in Requests /\ filled.win \in 0..(SeqMod - 1) /\ MaySend(filled.req)
      BY <1>2, <1>3, <1>4, <1>7
    <3> QED BY <1>2, <3>1, <3>2, RequestSegmentLemma, Zenon
  <2> QED BY <2>2
<1> HIDE DEF w, filled
<1>9. NetEffect
  BY <1>1, <1>8, NetLemma DEF Shape
<1>10. ClientEffect
  <2>1. CASE Become(m.id, Restarted(t))
    BY <2>1, <1>1, <1>2, <1>4, ClientRestarted, BecomeLemma
  <2>2. CASE Become(m.id, InState(t, "AWAIT_CONFIRMATION"))
    BY <2>2, <1>1, <1>2, <1>4, ClientInState, BecomeLemma DEF ClientStates
  <2>3. CASE Become(m.id, filled)
    BY <2>3, <1>1, <1>2, <1>4, <1>7, BecomeLemma
  <2>4. CASE Become(m.id, Restarted(filled))
    BY <2>4, <1>1, <1>2, <1>4, <1>7, ClientRestarted, BecomeLemma
  <2> QED BY <1>1, <2>1, <2>2, <2>3, <2>4
<1> QED BY <1>9, <1>10

LEMMA SegmentedRequestEarlyAckLemma ==
    ASSUME Shape, NEW m \in Messages, SegmentedRequestEarlyAck(m)
    PROVE  ClientEffect /\ NetEffect
  BY AbortBothLemma DEF SegmentedRequestEarlyAck

LEMMA SegmentedRequestComplexAckLemma ==
    ASSUME Shape, NEW m \in Messages, SegmentedRequestComplexAck(m)
    PROVE  ClientEffect /\ NetEffect
<1> DEFINE t == client[m.id]
           least == IF m.win < ClientWindow THEN m.win ELSE ClientWindow
           u == InState(t, "SEGMENTED_CONFIRMATION")
           v == [u EXCEPT !.win = least, !.last = 0, !.initial = 0, !.buf = <<m.data>>]
<1>1. /\ m.type = "ComplexAck" /\ t.state = "SEGMENTED_REQUEST"
      /\ Become(m.id, v) /\ Receive(m, {})
  BY DEF SegmentedRequestComplexAck
<1>2. m.id \in InvokeIDs /\ m.win \in 0..(SeqMod - 1) /\ m.data \in ResponsePieces
  BY <1>1, MessageLemma
<1>3. least \in 0..(SeqMod - 1) /\ 0 \in 0..(SeqMod - 1) /\ <<m.data>> \in Seq(ResponsePieces)
  BY <1>2, SSMAssumption
<1>4. t \in ClientRecords
  BY <1>2, ClientFacts
<1>5. u \in ClientRecords /\ u.req = t.req /\ u.state = "SEGMENTED_CONFIRMATION"
  BY <1>4, ClientInState DEF ClientStates
<1> HIDE DEF u, least
<1>6. v \in ClientRecords /\ v.req = t.req /\ v.state = "SEGMENTED_CONFIRMATION"
  BY <1>3, <1>5 DEF ClientRecords
<1> HIDE DEF v
<1>7. ClientEffect
  BY <1>1, <1>2, <1>6, BecomeLemma
<1>8. NetEffect
  BY <1>1, NetLemma DEF Shape
<1> QED BY <1>7, <1>8

LEMMA AwaitConfirmationComplexAckLemma ==
    ASSUME Shape, NEW m \in Messages, AwaitConfirmationComplexAck(m)
    PROVE  ClientEffect /\ NetEffect
<1> DEFINE t == client[m.id]
           u == InState(t, "SEGMENTED_CONFIRMATION")
           v == [u EXCEPT !.win = m.win, !.last = 0, !.initial = 0, !.buf = <<m.data>>]
<1>1. /\ m.type = "ComplexAck" /\ t.state = "AWAIT_CONFIRMATION"
      /\ \/ Finish(m.id, "Abort", <<>>) /\ Receive(m, {})
         \/ /\ Become(m.id, v)
            /\ Receive(m, {SegmentAck(FALSE, m.id, FALSE, 0, m.win)})
         \/ AbortBoth(m)
  BY DEF AwaitConfirmationComplexAck
<1>2. m.id \in InvokeIDs /\ m.win \in 0..(SeqMod - 1) /\ m.data \in ResponsePieces
  BY <1>1, MessageLemma
<1>3. 0 \in 0..(SeqMod - 1) /\ <<m.data>> \in Seq(ResponsePieces)
  BY <1>2, SSMAssumption
<1>4. t \in ClientRecords
  BY <1>2, ClientFacts
<1>5. u \in ClientRecords /\ u.req = t.req /\ u.state = "SEGMENTED_CONFIRMATION"
  BY <1>4, ClientInState DEF ClientStates
<1> HIDE DEF u
<1>6. v \in ClientRecords /\ v.req = t.req /\ v.state = "SEGMENTED_CONFIRMATION"
  BY <1>2, <1>3, <1>5 DEF ClientRecords
<1> HIDE DEF v
<1>7. CASE Finish(m.id, "Abort", <<>>) /\ Receive(m, {})
  BY <1>7, <1>1, <1>2, AbortLemma, NetLemma DEF Shape
<1>8. CASE Become(m.id, v) /\ Receive(m, {SegmentAck(FALSE, m.id, FALSE, 0, m.win)})
  <2>1. SegmentAck(FALSE, m.id, FALSE, 0, m.win) \in Messages
    BY <1>2, <1>3, OtherLemma
  <2>2. ClientEffect
    BY <1>8, <1>1, <1>2, <1>6, BecomeLemma
  <2>3. NetEffect
    BY <1>8, <2>1, NetLemma DEF Shape
  <2> QED BY <2>2, <2>3
<1>9. CASE AbortBoth(m)
  BY <1>9, <1>1, AbortBothLemma
<1> QED BY <1>1, <1>7, <1>8, <1>9

LEMMA AwaitConfirmationSegmentAckLemma ==
    ASSUME Shape, NEW m \in Messages, AwaitConfirmationSegmentAck(m)
    PROVE  ClientEffect /\ NetEffect
<1>1. client[m.id].state = "AWAIT_CONFIRMATION" /\ Become(m.id, Restarted(client[m.id]))
  BY DEF AwaitConfirmationSegmentAck
<1>2. ClientEffect
  BY <1>1, MessageLemma, ClientFacts, ClientRestarted, BecomeLemma
<1>3. NetEffect
  BY NetLemma DEF AwaitConfirmationSegmentAck, Shape
<1> QED BY <1>2, <1>3

LEMMA ClientAnswerLemma ==
    ASSUME Shape, NEW m \in Messages, ClientAnswer(m)
    PROVE  ClientEffect /\ NetEffect
<1> DEFINE body == IF m.type = "Abort" THEN <<>> ELSE <<m.data>>
<1>1. /\ m.type \in Kinds /\ client[m.id].state # "NONE"
      /\ Finish(m.id, m.type, body) /\ Receive(m, {})
  BY DEF ClientAnswer, Kinds
<1>2. m.id \in InvokeIDs
  BY MessageLemma
<1>3. body \in Seq(ResponsePieces)
  <2>1. CASE m.type = "Abort"
    BY <2>1
  <2>2. CASE m.type # "Abort"
    <3>1. m.data \in ResponsePieces
      BY <1>1, <2>2, MessageLemma DEF Kinds
    <3> QED BY <2>2, <3>1
  <2> QED BY <2>1, <2>2
<1> HIDE DEF body
<1>4. ClientEffect
  BY <1>1, <1>2, <1>3, FinishLemma
<1>5. NetEffect
  BY <1>1, NetLemma DEF Shape
<1> QED BY <1>4, <1>5

LEMMA SegmentedConfirmationSegmentLemma ==
    ASSUME Shape, NEW m \in Messages, SegmentedConfirmationSegment(m)
    PROVE  ClientEffect /\ NetEffect
<1> DEFINE t == client[m.id]
           added == [t EXCEPT !.buf = Append(@, m.data), !.last = m.seq]
           closed == [added EXCEPT !.initial = m.seq]
           nak == SegmentAck(FALSE, m.id, TRUE, t.last, t.win)
           ack == SegmentAck(FALSE, m.id, FALSE, m.seq, t.win)
<1>1. /\ m.type = "ComplexAck" /\ t.state = "SEGMENTED_CONFIRMATION"
      /\ \/ Become(m.id, Restarted(t)) /\ Receive(m, {nak})
         \/ Finish(m.id, "ComplexAck", added.buf) /\ Receive(m, {ack})
         \/ Become(m.id, Restarted(closed)) /\ Receive(m, {ack})
         \/ Become(m.id, Restarted(added)) /\ Receive(m, {})
  BY DEF SegmentedConfirmationSegment
<1>2. m.id \in InvokeIDs /\ m.seq \in 0..(SeqMod - 1) /\ m.data \in ResponsePieces
  BY <1>1, MessageLemma
<1>3. t \in ClientRecords /\ t.state # "NONE" /\ t = client[m.id]
  BY <1>1, <1>2, ClientFacts
<1>4. /\ t.last \in 0..(SeqMod - 1) /\ t.win \in 0..(SeqMod - 1)
      /\ t.buf \in Seq(ResponsePieces)
  BY <1>3 DEF ClientRecords
<1>5. Append(t.buf, m.data) \in Seq(ResponsePieces)
  BY <1>2, <1>4
<1>6. added \in ClientRecords /\ added.req = t.req /\ added.state = t.state
      /\ added.buf \in Seq(ResponsePieces)
  BY <1>2, <1>3, <1>5 DEF ClientRecords
<1> HIDE DEF added
<1>7. closed \in ClientRecords /\ closed.req = t.req /\ closed.state = t.state
  BY <1>2, <1>6 DEF ClientRecords
<1>8. nak \in Messages /\ ack \in Messages
  BY <1>2, <1>4, OtherLemma
<1> HIDE DEF t, closed, nak, ack
<1>9. NetEffect
  BY <1>1, <1>8, NetLemma DEF Shape
<1>10. CASE Become(m.id, Restarted(t))
  BY <1>10, <1>2, <1>3, <1>9, ClientRestarted, BecomeLemma
<1>11. CASE Finish(m.id, "ComplexAck", added.buf)
  <2>1. "ComplexAck" \in Kinds
    BY DEF Kinds
  <2> QED BY <1>11, <1>2, <1>3, <1>6, <1>9, <2>1, FinishLemma
<1>12. CASE Become(m.id, Restarted(closed))
  BY <1>12, <1>2, <1>3, <1>7, <1>9, ClientRestarted, BecomeLemma
<1>13. CASE Become(m.id, Restarted(added))
  BY <1>13, <1>2, <1>3, <1>6, <1>9, ClientRestarted, BecomeLemma
<1> QED BY <1>1, <1>9, <1>10, <1>11, <1>12, <1>13

LEMMA SegmentedConfirmationOtherLemma ==
    ASSUME Shape, NEW m \in Messages, SegmentedConfirmationOther(m)
    PROVE  ClientEffect /\ NetEffect
  BY AbortBothLemma DEF SegmentedConfirmationOther

LEMMA ClientUnmatchedLemma ==
    ASSUME Shape, NEW m \in Messages, ClientUnmatched(m)
    PROVE  ClientEffect /\ NetEffect
  BY NetLemma DEF ClientUnmatched, ClientEffect, Shape

LEMMA ClientTimerExpiredLemma ==
    ASSUME Shape, NEW id \in InvokeIDs, ClientTimerExpired(id)
    PROVE  ClientEffect /\ NetEffect
<1>1. client[id] \in ClientRecords
  BY ClientFacts
<1>2. /\ Expired(client[id]) \in ClientRecords
      /\ Expired(client[id]).req = client[id].req
      /\ Expired(client[id]).state = client[id].state
  BY <1>1, ClientExpired
<1>3. ClientEffect
  BY <1>2 DEF ClientTimerExpired, ClientEffect, Changes
<1>4. NetEffect
  BY NetLemma DEF ClientTimerExpired, Shape
<1> QED BY <1>3, <1>4

LEMMA SegmentedRequestTimeoutLemma ==
    ASSUME Shape, NEW id \in InvokeIDs, SegmentedRequestTimeout(id)
    PROVE  ClientEffect /\ NetEffect
<1> DEFINE t == [client[id] EXCEPT !.late = FALSE]
           count == [t EXCEPT !.segRetry = @ + 1]
           again == Restarted(count)
           w == WindowFrom(t, t.initial, ReqSegs[t.req])
<1>1. /\ client[id].state = "SEGMENTED_REQUEST"
      /\ \/ /\ MayRetry(t.segRetry)
            /\ Become(id, again)
            /\ Send({RequestSegment(t, id, 0)})
         \/ /\ MayRetry(t.segRetry)
            /\ Become(id, Filled(again, t.initial, ReqSegs[t.req]))
            /\ Send({RequestSegment(t, id, i) : i \in w})
         \/ Finish(id, "Abort", <<>>) /\ UNCHANGED netVars
  BY DEF SegmentedRequestTimeout
<1>2. /\ client[id] \in ClientRecords /\ client[id].req \in Requests
      /\ ReqSegs[client[id].req] \in Nat \ {0} /\ MaySend(client[id].req)
  BY <1>1, ClientFacts
<1>3. /\ t \in ClientRecords /\ t.req = client[id].req /\ t.state = "SEGMENTED_REQUEST"
      /\ t.segRetry \in 0..Retries /\ t.initial \in 0..(SeqMod - 1)
      /\ t.win \in 0..(SeqMod - 1)
  BY <1>1, <1>2 DEF ClientRecords
<1> HIDE DEF t
<1>4. ASSUME MayRetry(t.segRetry)
      PROVE  /\ again \in ClientRecords /\ again.req = t.req
             /\ again.state = "SEGMENTED_REQUEST"
  <2>1. t.segRetry + 1 \in 0..Retries
    BY <1>3, <1>4, SSMAssumption DEF MayRetry
  <2>2. count \in ClientRecords /\ count.req = t.req /\ count.state = "SEGMENTED_REQUEST"
    BY <1>3, <2>1 DEF ClientRecords
  <2> HIDE DEF count
  <2> QED BY <2>2, ClientRestarted
<1> HIDE DEF again
<1>5. \A i \in 0..(ReqSegs[t.req] - 1) : RequestSegment(t, id, i) \in Messages
  BY <1>2, <1>3, RequestSegmentLemma
<1>6. CASE MayRetry(t.segRetry) /\ Become(id, again) /\ Send({RequestSegment(t, id, 0)})
  <2>1. RequestSegment(t, id, 0) \in Messages
    BY <1>2, <1>3, <1>5
  <2>2. ClientEffect
    BY <1>1, <1>3, <1>4, <1>6, BecomeLemma
  <2>3. NetEffect
    BY <1>6, <2>1, NetLemma DEF Shape
  <2> QED BY <2>2, <2>3
<1>7. CASE /\ MayRetry(t.segRetry)
           /\ Become(id, Filled(again, t.initial, ReqSegs[t.req]))
           /\ Send({RequestSegment(t, id, i) : i \in w})
  <2>1. w \subseteq 0..(ReqSegs[t.req] - 1)
    BY <1>2, <1>3, WindowLemma
  <2> HIDE DEF w
  <2>2. {RequestSegment(t, id, i) : i \in w} \subseteq Messages
    BY <1>5, <2>1
  <2>3. ClientEffect
    BY <1>1, <1>3, <1>4, <1>7, ClientFilled, BecomeLemma
  <2>4. NetEffect
    BY <1>7, <2>2, NetLemma DEF Shape
  <2> QED BY <2>3, <2>4
<1>8. CASE Finish(id, "Abort", <<>>) /\ UNCHANGED netVars
  BY <1>1, <1>8, AbortLemma, NetLemma DEF Shape
<1> QED BY <1>1, <1>6, <1>7, <1>8

\* A transaction as indication leaves it.
LEMMA StartedLemma ==
    ASSUME NEW r \in Requests
    PROVE  /\ Started(r) \in ClientRecords
           /\ Started(r).req = r
           /\ Started(r).state # "NONE"
           /\ Started(r).win = 0
<1>1. NoClient \in ClientRecords
  <2>1. 0 \in 0..Retries /\ 0 \in 0..(SeqMod - 1) /\ <<>> \in Seq(ResponsePieces)
    BY SSMAssumption
  <2> QED BY <2>1 DEF NoClient, NoWindow, ClientRecords, ClientStates
<1>2. /\ InState(NoClient, "AWAIT_CONFIRMATION") \in ClientRecords
      /\ InState(NoClient, "SEGMENTED_REQUEST") \in ClientRecords
  BY <1>1, ClientInState DEF ClientStates
<1>3. CASE ReqSegs[r] = 1
  BY <1>2, <1>3 DEF Started, InState, NoClient, NoWindow, ClientRecords
<1>4. CASE ReqSegs[r] # 1
  BY <1>2, <1>4 DEF Started, InState, NoClient, NoWindow, ClientRecords
<1> QED BY <1>3, <1>4

LEMMA AwaitConfirmationTimeoutLemma ==
    ASSUME Shape, NEW id \in InvokeIDs, AwaitConfirmationTimeout(id)
    PROVE  ClientEffect /\ NetEffect
<1> DEFINE t == client[id]
           u == Started(t.req)
           again == [u EXCEPT !.retry = t.retry + 1]
<1>1. /\ t.state = "AWAIT_CONFIRMATION"
      /\ \/ /\ MayRetry(t.retry)
            /\ Become(id, again)
            /\ Send({RequestSegment(again, id, 0)})
         \/ /\ Finish(id, "Abort", <<>>) \/ Finish(id, "Error", <<>>)
            /\ UNCHANGED netVars
  BY DEF AwaitConfirmationTimeout
<1>2. /\ t \in ClientRecords /\ t.req \in Requests /\ ReqSegs[t.req] \in Nat \ {0}
      /\ MaySend(t.req) /\ t = client[id]
  BY <1>1, ClientFacts
<1>3. u \in ClientRecords /\ u.req = t.req /\ u.state # "NONE" /\ u.win = 0
  BY <1>2, StartedLemma
<1>4. t.retry \in 0..Retries
  BY <1>2 DEF ClientRecords
<1> HIDE DEF u, t
<1>5. CASE /\ MayRetry(t.retry)
           /\ Become(id, again)
           /\ Send({RequestSegment(again, id, 0)})
  <2>1. t.retry + 1 \in 0..Retries
    BY <1>4, <1>5, SSMAssumption DEF MayRetry
  <2>2. /\ again \in ClientRecords /\ again.req = t.req /\ again.state # "NONE"
        /\ again.win = 0
    BY <1>3, <2>1 DEF ClientRecords
  <2> HIDE DEF again
  <2>3. RequestSegment(again, id, 0) \in Messages
    <3>1. 0 \in 0..(ReqSegs[again.req] - 1) /\ again.win \in 0..(SeqMod - 1)
      BY <1>2, <2>2, SSMAssumption
    <3> QED BY <1>2, <2>2, <3>1, RequestSegmentLemma
  <2>4. ClientEffect
    BY <1>1, <1>2, <1>5, <2>2, BecomeLemma
  <2>5. NetEffect
    BY <1>5, <2>3, NetLemma DEF Shape
  <2> QED BY <2>4, <2>5
<1>6. ASSUME NEW kind \in {"Abort", "Error"}, Finish(id, kind, <<>>), UNCHANGED netVars
      PROVE  ClientEffect /\ NetEffect
  <2>1. kind \in Kinds /\ <<>> \in Seq(ResponsePieces)
    BY <1>6 DEF Kinds
  <2> QED BY <1>1, <1>2, <1>6, <2>1, FinishLemma, NetLemma DEF Shape
<1> QED BY <1>1, <1>5, <1>6

LEMMA SegmentedConfirmationTimeoutLemma ==
    ASSUME Shape, NEW id \in InvokeIDs, SegmentedConfirmationTimeout(id)
    PROVE  ClientEffect /\ NetEffect
  BY AbortLemma, NetLemma DEF SegmentedConfirmationTimeout, Shape

LEMMA ClientRequestLemma ==
    ASSUME Shape, NEW id \in InvokeIDs, ClientRequest(id)
    PROVE  ClientEffect /\ NetEffect
<1> DEFINE r == asked + 1
           t == Started(r)
<1>1. /\ r \in Requests /\ asked' = r /\ next_id' = (id + 1) % IdMod
      /\ client[id].state = "NONE"
      /\ \/ /\ MaySend(r)
            /\ client' = [client EXCEPT ![id] = t]
            /\ results' = results
            /\ Send({RequestSegment(t, id, 0)})
         \/ \E kind \in {"Abort", "Error"} :
               /\ client' = client
               /\ results' = [results EXCEPT ![r] = <<[kind |-> kind, body |-> <<>>]>>]
               /\ UNCHANGED netVars
  BY DEF ClientRequest, IsNextFree
<1>2. next_id' \in InvokeIDs
  <2>1. id + 1 \in Int
    BY SSMAssumption DEF InvokeIDs
  <2> QED BY <1>1, <2>1, ModLemma DEF InvokeIDs
<1>3. t \in ClientRecords /\ t.req = r /\ t.state # "NONE" /\ t.win = 0
  BY <1>1, StartedLemma
<1> HIDE DEF t
<1>4. CASE /\ MaySend(r)
           /\ client' = [client EXCEPT ![id] = t]
           /\ results' = results
           /\ Send({RequestSegment(t, id, 0)})
  <2>1. RequestSegment(t, id, 0) \in Messages
    <3>1. 0 \in 0..(ReqSegs[t.req] - 1) /\ t.win \in 0..(SeqMod - 1)
      BY <1>1, <1>3, SSMAssumption
    <3> QED BY <1>1, <1>3, <1>4, <3>1, RequestSegmentLemma
  <2>2. NetEffect
    BY <1>4, <2>1, NetLemma DEF Shape
  <2>3. Asks(id, t, "Abort")
    BY <1>1, <1>2, <1>3, <1>4 DEF Asks
  <2>4. ClientEffect
    BY <1>3, <2>3 DEF ClientEffect, Kinds
  <2> QED BY <2>2, <2>4
<1>5. ASSUME NEW kind \in {"Abort", "Error"},
             client' = client,
             results' = [results EXCEPT ![r] = <<[kind |-> kind, body |-> <<>>]>>],
             UNCHANGED netVars
      PROVE  ClientEffect /\ NetEffect
  <2>1. Asks(id, t, kind)
    BY <1>1, <1>2, <1>5 DEF Asks
  <2>2. ClientEffect
    BY <1>3, <2>1 DEF ClientEffect, Kinds
  <2> QED BY <1>5, <2>2, NetLemma DEF Shape
<1> QED BY <1>1, <1>4, <1>5

LEMMA ClientStepLemma ==
    ASSUME Shape, ClientStep
    PROVE  ClientEffect /\ NetEffect
<1>1. ASSUME NEW m \in net, ClientReceive(m)
      PROVE  ClientEffect /\ NetEffect
  <2>1. m \in Messages
    BY DEF Shape
  <2> QED BY <1>1, <2>1, ClientUnmatchedLemma, SegmentedRequestAckLemma,
             SegmentedRequestEarlyAckLemma, SegmentedRequestComplexAckLemma,
             AwaitConfirmationComplexAckLemma, AwaitConfirmationSegmentAckLemma,
             ClientAnswerLemma, SegmentedConfirmationSegmentLemma,
             SegmentedConfirmationOtherLemma DEF ClientReceive
<1>2. ASSUME NEW id \in InvokeIDs,
             ClientRequest(id) \/ ClientTimerExpired(id) \/ ClientTimeout(id)
      PROVE  ClientEffect /\ NetEffect
  BY <1>2, ClientRequestLemma, ClientTimerExpiredLemma, SegmentedRequestTimeoutLemma,
     AwaitConfirmationTimeoutLemma, SegmentedConfirmationTimeoutLemma DEF ClientTimeout
<1> QED BY <1>1, <1>2 DEF ClientStep

-----------------------------------------------------------------------------
(* What a handler of the server does: at most one transaction changes, and *)
(* the executions keep their shape.                                        *)

Content(t) ==
    t.state = "SEGMENTED_RESPONSE" => t.resp \in 1..MaxExecs /\ MayRespond

ServerChange ==
    \/ server' = server
    \/ \E id \in InvokeIDs, t \in ServerRecords :
           Content(t) /\ server' = [server EXCEPT ![id] = t]

ExecEffect ==
    /\ execs' \in Seq([id : InvokeIDs, body : Seq(RequestPieces)])
    /\ Len(execs') <= MaxExecs
    /\ pending' \subseteq 1..Len(execs')

ServerEffect == ServerChange /\ ExecEffect

LEMMA NoServerLemma == NoServer \in ServerRecords /\ Content(NoServer)
<1>1. 0 \in 0..Retries /\ 0 \in 0..(SeqMod - 1) /\ 0 \in 0..MaxExecs /\ <<>> \in Seq(RequestPieces)
  BY SSMAssumption
<1> QED BY <1>1 DEF NoServer, NoWindow, ServerRecords, ServerStates, Content

LEMMA ServerFacts ==
    ASSUME Shape, NEW id \in InvokeIDs
    PROVE  /\ server[id] \in ServerRecords
           /\ Content(server[id])
           /\ server[id].state = "SEGMENTED_RESPONSE" =>
                  server[id].resp \in 1..MaxExecs /\ MayRespond
  BY DEF Shape, TypeOK, HasContent, Content

\* Nothing happens to the executions.
LEMMA UnchangedLemma ==
    ASSUME Shape
    PROVE  /\ UNCHANGED <<execs, pending>> => ExecEffect
           /\ UNCHANGED serverVars => ServerEffect
  BY DEF Shape, TypeOK, ExecEffect, ServerEffect, ServerChange, serverVars

LEMMA ServerBecomeLemma ==
    ASSUME Shape, NEW id \in InvokeIDs, NEW t \in ServerRecords, Content(t),
           ServerBecome(id, t)
    PROVE  ServerEffect
<1>1. ExecEffect
  BY UnchangedLemma DEF ServerBecome
<1> QED BY <1>1 DEF ServerBecome, ServerEffect, ServerChange

LEMMA ServerReleaseLemma ==
    ASSUME Shape, NEW id \in InvokeIDs, ServerRelease(id)
    PROVE  ServerEffect
<1>1. ServerBecome(id, NoServer)
  BY DEF ServerRelease, ServerBecome
<1> QED BY <1>1, NoServerLemma, ServerBecomeLemma

LEMMA DeliverLemma ==
    ASSUME Shape, NEW id \in InvokeIDs, NEW t \in ServerRecords,
           NEW body \in Seq(RequestPieces), Deliver(id, t, body)
    PROVE  ServerEffect
<1> DEFINE u == InState(t, "AWAIT_RESPONSE")
           v == [u EXCEPT !.buf = <<>>]
           e == [id |-> id, body |-> body]
<1>1. u \in ServerRecords /\ u.state = "AWAIT_RESPONSE"
  BY ServerInState DEF ServerStates
<1>2. server' = [server EXCEPT ![id] = v]
  BY DEF Deliver
<1> HIDE DEF u
<1>3. v \in ServerRecords /\ v.state = "AWAIT_RESPONSE"
  <2>1. <<>> \in Seq(RequestPieces)
    OBVIOUS
  <2> QED BY <1>1, <2>1 DEF ServerRecords
<1> HIDE DEF v
<1>4. ServerChange
  BY <1>2, <1>3 DEF ServerChange, Content
<1>5. /\ Len(execs) < MaxExecs
      /\ execs' = Append(execs, e)
      /\ pending' \subseteq pending \cup {Len(execs) + 1}
  BY DEF Deliver
<1>6. /\ execs \in Seq([id : InvokeIDs, body : Seq(RequestPieces)])
      /\ pending \subseteq 1..Len(execs)
  BY DEF Shape, TypeOK
<1>7. e \in [id : InvokeIDs, body : Seq(RequestPieces)]
  OBVIOUS
<1> HIDE DEF e
<1>8. /\ execs' \in Seq([id : InvokeIDs, body : Seq(RequestPieces)])
      /\ Len(execs') = Len(execs) + 1
      /\ Len(execs) \in Nat
  BY <1>5, <1>6, <1>7
<1>9. ExecEffect
  BY <1>5, <1>6, <1>8, SSMAssumption DEF ExecEffect
<1> QED BY <1>4, <1>9 DEF ServerEffect

LEMMA IdleLemma ==
    ASSUME Shape, NEW m \in Messages, Idle(m)
    PROVE  ServerEffect /\ NetEffect
<1> DEFINE win == IF m.win < ServerWindow THEN m.win ELSE ServerWindow
           u == InState(NoServer, "SEGMENTED_REQUEST")
           t == [u EXCEPT !.win = win, !.buf = <<m.data>>]
           ack == SegmentAck(TRUE, m.id, FALSE, 0, win)
<1>1. /\ m.type = "ConfirmedRequest"
      /\ \/ Deliver(m.id, NoServer, <<m.data>>) /\ Receive(m, {})
         \/ Receive(m, {Abort(TRUE, m.id)}) /\ UNCHANGED serverVars
         \/ ServerBecome(m.id, t) /\ Receive(m, {ack})
  BY DEF Idle
<1>2. m.id \in InvokeIDs /\ m.win \in 0..(SeqMod - 1) /\ m.data \in RequestPieces
  BY <1>1, MessageLemma
<1>3. win \in 0..(SeqMod - 1) /\ 0 \in 0..(SeqMod - 1) /\ <<m.data>> \in Seq(RequestPieces)
  BY <1>2, SSMAssumption
<1> HIDE DEF win
<1>4. u \in ServerRecords /\ u.state = "SEGMENTED_REQUEST"
  BY NoServerLemma, ServerInState DEF ServerStates
<1> HIDE DEF u
<1>5. t \in ServerRecords /\ t.state = "SEGMENTED_REQUEST"
  BY <1>3, <1>4 DEF ServerRecords
<1>6. ack \in Messages /\ Abort(TRUE, m.id) \in Messages
  BY <1>2, <1>3, OtherLemma
<1> HIDE DEF t, ack
<1>7. NetEffect
  BY <1>1, <1>6, NetLemma DEF Shape
<1>8. ServerEffect
  <2>1. CASE Deliver(m.id, NoServer, <<m.data>>)
    BY <2>1, <1>2, <1>3, NoServerLemma, DeliverLemma
  <2>2. CASE UNCHANGED serverVars
    BY <2>2, UnchangedLemma
  <2>3. CASE ServerBecome(m.id, t)
    BY <2>3, <1>2, <1>5, ServerBecomeLemma DEF Content
  <2> QED BY <1>1, <2>1, <2>2, <2>3
<1> QED BY <1>7, <1>8

LEMMA SegmentedRequestSegmentLemma ==
    ASSUME Shape, NEW m \in Messages, SegmentedRequestSegment(m)
    PROVE  ServerEffect /\ NetEffect
<1> DEFINE t == server[m.id]
           added == [t EXCEPT !.buf = Append(@, m.data), !.last = m.seq]
           closed == [added EXCEPT !.initial = m.seq]
           nak == SegmentAck(TRUE, m.id, TRUE, t.initial, t.win)
           ack == SegmentAck(TRUE, m.id, FALSE, m.seq, t.win)
<1>1. /\ m.type = "ConfirmedRequest" /\ t.state = "SEGMENTED_REQUEST"
      /\ \/ ServerBecome(m.id, Restarted(t)) /\ Receive(m, {nak})
         \/ Deliver(m.id, added, added.buf) /\ Receive(m, {ack})
         \/ ServerBecome(m.id, Restarted(closed)) /\ Receive(m, {ack})
         \/ ServerBecome(m.id, Restarted(added)) /\ Receive(m, {})
  BY DEF SegmentedRequestSegment
<1>2. m.id \in InvokeIDs /\ m.seq \in 0..(SeqMod - 1) /\ m.data \in RequestPieces
  BY <1>1, MessageLemma
<1>3. t \in ServerRecords /\ t.state = "SEGMENTED_REQUEST"
  BY <1>1, <1>2, ServerFacts
<1>4. /\ t.initial \in 0..(SeqMod - 1) /\ t.win \in 0..(SeqMod - 1)
      /\ t.buf \in Seq(RequestPieces)
  BY <1>3 DEF ServerRecords
<1>5. Append(t.buf, m.data) \in Seq(RequestPieces)
  BY <1>2, <1>4
<1>6. added \in ServerRecords /\ added.state = t.state /\ added.buf \in Seq(RequestPieces)
  BY <1>2, <1>3, <1>5 DEF ServerRecords
<1> HIDE DEF added
<1>7. closed \in ServerRecords /\ closed.state = t.state
  BY <1>2, <1>6 DEF ServerRecords
<1>8. nak \in Messages /\ ack \in Messages
  BY <1>2, <1>4, OtherLemma
<1> HIDE DEF t, closed, nak, ack
<1>9. NetEffect
  BY <1>1, <1>8, NetLemma DEF Shape
<1>10. ASSUME NEW u \in ServerRecords, u.state = t.state, ServerBecome(m.id, Restarted(u))
       PROVE  ServerEffect
  BY <1>2, <1>3, <1>10, ServerRestarted, ServerBecomeLemma DEF Content
<1>11. CASE Deliver(m.id, added, added.buf)
  BY <1>11, <1>2, <1>6, <1>9, DeliverLemma
<1> QED BY <1>1, <1>3, <1>6, <1>7, <1>9, <1>10, <1>11

LEMMA SegmentedRequestOtherLemma ==
    ASSUME Shape, NEW m \in Messages, SegmentedRequestOther(m)
    PROVE  ServerEffect /\ NetEffect
<1>1. m.id \in InvokeIDs
  BY MessageLemma
<1>2. ServerEffect
  BY <1>1, ServerReleaseLemma DEF SegmentedRequestOther
<1>3. NetEffect
  BY <1>1, OtherLemma, NetLemma DEF SegmentedRequestOther, Shape
<1> QED BY <1>2, <1>3

LEMMA AwaitResponseLemma ==
    ASSUME Shape, NEW m \in Messages,
           AwaitResponse(m) \/ SegmentedResponseOther(m) \/ ServerUnmatched(m)
    PROVE  ServerEffect /\ NetEffect
<1>1. m.id \in InvokeIDs
  BY MessageLemma
<1>2. /\ Receive(m, {})
      /\ UNCHANGED serverVars \/ ServerRelease(m.id)
  BY DEF AwaitResponse, SegmentedResponseOther, ServerUnmatched
<1>3. ServerEffect
  BY <1>1, <1>2, ServerReleaseLemma, UnchangedLemma
<1>4. NetEffect
  BY <1>2, NetLemma DEF Shape
<1> QED BY <1>3, <1>4

LEMMA RespondLemma ==
    ASSUME Shape, NEW e \in pending, NEW kind \in AckKinds, Respond(e, kind)
    PROVE  ServerEffect /\ NetEffect
<1> DEFINE id == execs[e].id
           t == server[id]
           u == InState(t, "SEGMENTED_RESPONSE")
           first == [u EXCEPT !.resp = e, !.segRetry = 0, !.initial = 0,
                              !.win = NoWindow, !.buf = <<>>]
           whole == Segment("ComplexAck", id, e, 0, 1, NoWindow)
<1>1. e \in 1..MaxExecs /\ id \in InvokeIDs
  <2> DEFINE Exec == [id : InvokeIDs, body : Seq(RequestPieces)]
  <2>1. /\ execs \in Seq(Exec) /\ Len(execs) <= MaxExecs /\ Len(execs) \in Nat
        /\ e \in 1..Len(execs)
    BY DEF Shape, TypeOK
  <2>2. \A x \in Exec : x.id \in InvokeIDs
    OBVIOUS
  <2> HIDE DEF Exec
  <2>3. execs[e] \in Exec
    BY <2>1
  <2> QED BY <2>1, <2>2, <2>3, SSMAssumption
<1>2. /\ pending' = pending \ {e} /\ execs' = execs
      /\ \/ server' = server /\ UNCHANGED netVars
         \/ /\ server' = [server EXCEPT ![id] = NoServer]
            /\ \/ kind \in {"SimpleAck", "Error", "Reject"} /\ Send({Answer(kind, id, e)})
               \/ Send({Abort(TRUE, id)})
               \/ RespSegs = 1 /\ Send({whole})
         \/ /\ MayRespond
            /\ server' = [server EXCEPT ![id] = first]
            /\ Send({ResponseSegment(first, id, 0)})
  <2> DEFINE maxSegs == DecodedMaxSegments(device.clientMax)
             refused == \/ ~CanTransmit(device.server)
                        \/ ~CanReceive(device.client)
                        \/ maxSegs # 0 /\ RespSegs > maxSegs
  <2>1. maxSegs \in Nat /\ RespSegs \in Nat
    BY DecodedLemma, SSMAssumption DEF Shape, TypeOK
  <2>2. refused \/ MayRespond
    BY <2>1 DEF MayRespond
  <2> QED BY <2>2 DEF Respond
<1>3. ExecEffect
  BY <1>2 DEF ExecEffect, Shape, TypeOK
<1>4. u \in ServerRecords /\ u.state = "SEGMENTED_RESPONSE"
  BY <1>1, ServerFacts, ServerInState DEF ServerStates
<1>5. /\ 0 \in 0..Retries /\ 0 \in 0..(SeqMod - 1) /\ NoWindow = 0
      /\ <<>> \in Seq(RequestPieces) /\ 0 \in 0..(RespSegs - 1)
      /\ e \in 0..MaxExecs
  BY <1>1, SSMAssumption DEF NoWindow
<1>6. whole \in Messages
  <2>1. <<e, 0>> \in ResponsePieces
    BY <1>1, <1>5 DEF ResponsePieces
  <2>2. 0 % SeqMod \in 0..(SeqMod - 1)
    BY ModLemma
  <2> HIDE DEF id
  <2>3. whole \in SegmentMessages
    BY <1>1, <1>5, <2>1, <2>2 DEF Segment, SegmentMessages
  <2>4. Permitted(whole) /\ Labeled(whole)
    BY DEF Segment, Permitted, Labeled
  <2> QED BY <2>3, <2>4 DEF Messages
<1> HIDE DEF id, u, whole
<1>7. /\ first \in ServerRecords /\ first.state = "SEGMENTED_RESPONSE"
      /\ first.resp = e /\ first.win = 0
  BY <1>4, <1>5 DEF ServerRecords
<1> HIDE DEF first
<1>8. ServerChange
  <2>1. MayRespond => Content(first)
    BY <1>1, <1>7 DEF Content
  <2> QED BY <1>1, <1>2, <1>7, <2>1, NoServerLemma DEF ServerChange
<1>9. NetEffect
  <2>1. MayRespond => ResponseSegment(first, id, 0) \in Messages
    BY <1>1, <1>5, <1>7, ResponseSegmentLemma
  <2>2. CASE UNCHANGED netVars
    BY <2>2, NetLemma DEF Shape
  <2>3. CASE kind \in {"SimpleAck", "Error", "Reject"} /\ Send({Answer(kind, id, e)})
    BY <2>3, <1>1, OtherLemma, NetLemma DEF Shape
  <2>4. CASE Send({Abort(TRUE, id)})
    BY <2>4, <1>1, OtherLemma, NetLemma DEF Shape
  <2>5. CASE Send({whole})
    BY <2>5, <1>6, NetLemma DEF Shape
  <2>6. CASE MayRespond /\ Send({ResponseSegment(first, id, 0)})
    BY <2>6, <2>1, NetLemma DEF Shape
  <2> QED BY <1>2, <2>2, <2>3, <2>4, <2>5, <2>6
<1> QED BY <1>3, <1>8, <1>9 DEF ServerEffect

LEMMA SegmentedResponseAckLemma ==
    ASSUME Shape, NEW m \in Messages, SegmentedResponseAck(m)
    PROVE  ServerEffect /\ NetEffect
<1> DEFINE t == [server[m.id] EXCEPT !.win = m.win]
           next == (m.seq + 1) % SeqMod
           w == WindowFrom(t, next, RespSegs)
           begun == [t EXCEPT !.initial = next, !.segRetry = 0]
           filled == Filled(begun, next, RespSegs)
<1>1. /\ m.type = "SegmentAck"
      /\ server[m.id].state = "SEGMENTED_RESPONSE"
      /\ \/ ServerBecome(m.id, Restarted(t)) /\ Receive(m, {})
         \/ ServerRelease(m.id) /\ Receive(m, {})
         \/ /\ ServerBecome(m.id, IF w = {} THEN filled ELSE Restarted(filled))
            /\ Receive(m, {ResponseSegment(filled, m.id, i) : i \in w})
  BY DEF SegmentedResponseAck
<1>2. m.id \in InvokeIDs /\ m.seq \in 0..(SeqMod - 1) /\ m.win \in 0..(SeqMod - 1)
  BY <1>1, MessageLemma
<1>3. server[m.id] \in ServerRecords /\ server[m.id].resp \in 1..MaxExecs /\ MayRespond
  BY <1>1, <1>2, ServerFacts
<1>4. t \in ServerRecords /\ t.resp \in 1..MaxExecs /\ t.win = m.win
  BY <1>2, <1>3 DEF ServerRecords
<1>5. next \in 0..(SeqMod - 1)
  BY <1>2, ModLemma
<1> HIDE DEF t, next
<1>6. begun \in ServerRecords /\ begun.resp = t.resp /\ begun.win = t.win
  <2>1. 0 \in 0..Retries
    BY SSMAssumption
  <2> QED BY <1>4, <1>5, <2>1 DEF ServerRecords
<1> HIDE DEF begun
<1>7. filled \in ServerRecords /\ filled.resp = t.resp /\ filled.win = t.win
  BY <1>6, ServerFilled
<1>8. {ResponseSegment(filled, m.id, i) : i \in w} \subseteq Messages
  <2>1. w \subseteq 0..(RespSegs - 1)
    BY <1>2, <1>4, <1>5, WindowLemma, SSMAssumption
  <2> HIDE DEF w, filled
  <2>2. ASSUME NEW i \in w
        PROVE  ResponseSegment(filled, m.id, i) \in Messages
    BY <1>2, <1>3, <1>4, <1>7, <2>1, ResponseSegmentLemma
  <2> QED BY <2>2
<1> HIDE DEF w, filled
<1>9. NetEffect
  BY <1>1, <1>8, NetLemma DEF Shape
<1>10. ASSUME NEW u \in ServerRecords, u.resp \in 1..MaxExecs
       PROVE  /\ ServerBecome(m.id, u) => ServerEffect
              /\ ServerBecome(m.id, Restarted(u)) => ServerEffect
  BY <1>2, <1>3, <1>10, ServerRestarted, ServerBecomeLemma DEF Content
<1>11. CASE ServerBecome(m.id, Restarted(t))
  BY <1>11, <1>4, <1>9, <1>10
<1>12. CASE ServerRelease(m.id)
  BY <1>12, <1>2, <1>9, ServerReleaseLemma
<1>13. CASE ServerBecome(m.id, filled)
  BY <1>13, <1>4, <1>7, <1>9, <1>10
<1>14. CASE ServerBecome(m.id, Restarted(filled))
  BY <1>14, <1>4, <1>7, <1>9, <1>10
<1> QED BY <1>1, <1>11, <1>12, <1>13, <1>14

LEMMA ServerTimerExpiredLemma ==
    ASSUME Shape, NEW id \in InvokeIDs, ServerTimerExpired(id)
    PROVE  ServerEffect /\ NetEffect
<1>1. server[id] \in ServerRecords /\ Content(server[id])
  BY ServerFacts
<1>2. Expired(server[id]) \in ServerRecords /\ Content(Expired(server[id]))
  BY <1>1, ServerExpired DEF Content
<1>3. ServerEffect
  BY <1>2, ServerBecomeLemma DEF ServerTimerExpired
<1>4. NetEffect
  BY NetLemma DEF ServerTimerExpired, Shape
<1> QED BY <1>3, <1>4

LEMMA ServerGivesUpLemma ==
    ASSUME Shape, NEW id \in InvokeIDs, ServerGivesUp(id)
    PROVE  ServerEffect /\ NetEffect
  BY ServerReleaseLemma, NetLemma DEF ServerGivesUp, Shape

LEMMA SegmentedResponseTimeoutLemma ==
    ASSUME Shape, NEW id \in InvokeIDs, SegmentedResponseTimeout(id)
    PROVE  ServerEffect /\ NetEffect
<1> DEFINE t == [server[id] EXCEPT !.late = FALSE]
           count == [t EXCEPT !.segRetry = @ + 1]
           again == Restarted(count)
           w == WindowFrom(t, t.initial, RespSegs)
<1>1. /\ server[id].state = "SEGMENTED_RESPONSE"
      /\ \/ /\ MayRetry(t.segRetry)
            /\ ServerBecome(id, again)
            /\ Send({ResponseSegment(t, id, 0)})
         \/ /\ MayRetry(t.segRetry)
            /\ ServerBecome(id, Filled(again, t.initial, RespSegs))
            /\ Send({ResponseSegment(t, id, i) : i \in w})
         \/ ServerRelease(id) /\ UNCHANGED netVars
  BY DEF SegmentedResponseTimeout
<1>2. server[id] \in ServerRecords /\ server[id].resp \in 1..MaxExecs /\ MayRespond
  BY <1>1, ServerFacts
<1>3. /\ t \in ServerRecords /\ t.resp \in 1..MaxExecs
      /\ t.segRetry \in 0..Retries /\ t.initial \in 0..(SeqMod - 1)
      /\ t.win \in 0..(SeqMod - 1)
  BY <1>2 DEF ServerRecords
<1> HIDE DEF t
<1>4. ASSUME MayRetry(t.segRetry)
      PROVE  again \in ServerRecords /\ again.resp \in 1..MaxExecs
  <2>1. t.segRetry + 1 \in 0..Retries
    BY <1>3, <1>4, SSMAssumption DEF MayRetry
  <2>2. count \in ServerRecords /\ count.resp = t.resp
    BY <1>3, <2>1 DEF ServerRecords
  <2> HIDE DEF count
  <2> QED BY <1>3, <2>2, ServerRestarted
<1> HIDE DEF again
<1>5. \A i \in 0..(RespSegs - 1) : ResponseSegment(t, id, i) \in Messages
  BY <1>2, <1>3, ResponseSegmentLemma
<1>6. CASE /\ MayRetry(t.segRetry)
           /\ ServerBecome(id, again)
           /\ Send({ResponseSegment(t, id, 0)})
  <2>1. ResponseSegment(t, id, 0) \in Messages
    BY <1>5, SSMAssumption
  <2>2. ServerEffect
    BY <1>2, <1>4, <1>6, ServerBecomeLemma DEF Content
  <2>3. NetEffect
    BY <1>6, <2>1, NetLemma DEF Shape
  <2> QED BY <2>2, <2>3
<1>7. CASE /\ MayRetry(t.segRetry)
           /\ ServerBecome(id, Filled(again, t.initial, RespSegs))
           /\ Send({ResponseSegment(t, id, i) : i \in w})
  <2>1. w \subseteq 0..(RespSegs - 1)
    BY <1>3, WindowLemma, SSMAssumption
  <2> HIDE DEF w
  <2>2. {ResponseSegment(t, id, i) : i \in w} \subseteq Messages
    BY <1>5, <2>1
  <2>3. ServerEffect
    BY <1>2, <1>4, <1>7, ServerFilled, ServerBecomeLemma DEF Content
  <2>4. NetEffect
    BY <1>7, <2>2, NetLemma DEF Shape
  <2> QED BY <2>3, <2>4
<1>8. CASE ServerRelease(id) /\ UNCHANGED netVars
  BY <1>8, ServerReleaseLemma, NetLemma DEF Shape
<1> QED BY <1>1, <1>6, <1>7, <1>8

LEMMA ServerStepLemma ==
    ASSUME Shape, ServerStep
    PROVE  ServerEffect /\ NetEffect
<1>1. ASSUME NEW m \in net, ServerReceive(m)
      PROVE  ServerEffect /\ NetEffect
  <2>1. m \in Messages
    BY DEF Shape
  <2> QED BY <1>1, <2>1, IdleLemma, SegmentedRequestSegmentLemma,
             SegmentedRequestOtherLemma, AwaitResponseLemma,
             SegmentedResponseAckLemma DEF ServerReceive
<1>2. ASSUME NEW id \in InvokeIDs, ServerTimerExpired(id) \/ ServerTimeout(id)
      PROVE  ServerEffect /\ NetEffect
  BY <1>2, ServerTimerExpiredLemma, ServerGivesUpLemma, SegmentedResponseTimeoutLemma
  DEF ServerTimeout
<1> QED BY <1>1, <1>2, RespondLemma DEF ServerStep

-----------------------------------------------------------------------------
(* The shape of the state.                                                 *)

Results == Seq([kind : Kinds, body : Seq(ResponsePieces)])

LEMMA InitLemma == Init => Shape
<1> SUFFICES ASSUME Init PROVE Shape
  OBVIOUS
<1>1. NoClient \in ClientRecords
  <2>1. 0 \in 0..Retries /\ 0 \in 0..(SeqMod - 1) /\ <<>> \in Seq(ResponsePieces)
    BY SSMAssumption
  <2> QED BY <2>1 DEF NoClient, NoWindow, ClientRecords, ClientStates
<1>2. client \in [InvokeIDs -> ClientRecords] /\ \A id \in InvokeIDs : client[id].state = "NONE"
  BY <1>1 DEF Init, ClientInit, NoClient
<1>3. /\ asked \in Requests \cup {0} /\ next_id \in InvokeIDs
      /\ results \in [Requests -> Results]
  BY SSMAssumption DEF Init, ClientInit, InvokeIDs, Results
<1>4. server \in [InvokeIDs -> ServerRecords] /\ \A id \in InvokeIDs : server[id].state = "NONE"
  BY NoServerLemma DEF Init, ServerInit, NoServer
<1>5. /\ execs \in Seq([id : InvokeIDs, body : Seq(RequestPieces)])
      /\ Len(execs) <= MaxExecs
      /\ pending \subseteq 1..Len(execs)
  BY SSMAssumption DEF Init, ServerInit
<1>6. device \in Devices /\ net = {} /\ dups \in 0..MaxDups
  BY SSMAssumption DEF Init
<1> QED BY <1>2, <1>3, <1>4, <1>5, <1>6 DEF Shape, TypeOK, HasContent, Results

\* The part of the shape that is the client's, the server's, the network's.
ClientShape ==
    /\ client \in [InvokeIDs -> ClientRecords]
    /\ asked \in Requests \cup {0}
    /\ next_id \in InvokeIDs
    /\ results \in [Requests -> Results]
    /\ \A id \in InvokeIDs : client[id].state # "NONE" =>
           client[id].req \in Requests /\ MaySend(client[id].req)

ServerShape ==
    /\ server \in [InvokeIDs -> ServerRecords]
    /\ \A id \in InvokeIDs : Content(server[id])
    /\ execs \in Seq([id : InvokeIDs, body : Seq(RequestPieces)])
    /\ Len(execs) <= MaxExecs
    /\ pending \subseteq 1..Len(execs)

NetShape == device \in Devices /\ net \subseteq Messages /\ dups \in 0..MaxDups

LEMMA ShapeParts ==
    /\ Shape <=> ClientShape /\ ServerShape /\ NetShape
    /\ Shape' <=> ClientShape' /\ ServerShape' /\ NetShape'
  BY DEF Shape, TypeOK, HasContent, ClientShape, ServerShape, NetShape, Results,
         Content, Messages

\* What may be sent depends on the devices, which do not change.
LEMMA PermissionKept ==
    ASSUME device' = device
    PROVE  /\ MayRespond' <=> MayRespond
           /\ Messages' = Messages
<1>1. MayRespond' <=> MayRespond
  BY DEF MayRespond
<1>2. Messages' = Messages
  BY <1>1 DEF Messages, Permitted, MaySend
<1> QED BY <1>1, <1>2

LEMMA NetKept == ASSUME NetShape, NetEffect PROVE NetShape'
  BY PermissionKept DEF NetShape, NetEffect

LEMMA ClientKept ==
    ASSUME ClientShape, ClientEffect, device' = device
    PROVE  ClientShape'
<1>1. CASE UNCHANGED clientVars
  BY <1>1 DEF ClientShape, clientVars, MaySend
<1>2. ASSUME NEW id \in InvokeIDs, NEW t \in ClientRecords, NEW kind \in Kinds,
             Asks(id, t, kind)
      PROVE  ClientShape'
  <2>1. <<[kind |-> kind, body |-> <<>>]>> \in Results
    BY DEF Results
  <2>2. results' \in [Requests -> Results]
    BY <1>2, <2>1 DEF Asks, ClientShape
  <2> QED BY <1>2, <2>2 DEF Asks, ClientShape, MaySend
<1>3. ASSUME NEW id \in InvokeIDs, NEW t \in ClientRecords, Changes(id, t)
      PROVE  ClientShape'
  BY <1>3 DEF Changes, Become, ClientShape, MaySend
<1>4. ASSUME NEW id \in InvokeIDs, NEW kind \in Kinds, NEW body \in Seq(ResponsePieces),
             Ends(id, kind, body)
      PROVE  ClientShape'
  <2>1. NoClient \in ClientRecords /\ NoClient.state = "NONE"
    <3>1. 0 \in 0..Retries /\ 0 \in 0..(SeqMod - 1) /\ <<>> \in Seq(ResponsePieces)
      BY SSMAssumption
    <3> QED BY <3>1 DEF NoClient, NoWindow, ClientRecords, ClientStates
  <2> DEFINE r == client[id].req
             result == [kind |-> kind, body |-> body]
  <2>2. r \in Requests /\ results[r] \in Results
    BY <1>4 DEF Ends, ClientShape
  <2>3. Append(results[r], result) \in Results
    BY <2>2 DEF Results
  <2>4. results' = [results EXCEPT ![r] = Append(results[r], result)]
    BY <1>4, <2>2 DEF Ends, Finish, ClientShape
  <2>5. results' \in [Requests -> Results]
    BY <2>2, <2>3, <2>4 DEF ClientShape
  <2> QED BY <1>4, <2>1, <2>5 DEF Ends, Finish, ClientShape, MaySend
<1> QED BY <1>1, <1>2, <1>3, <1>4 DEF ClientEffect

LEMMA ServerKept ==
    ASSUME ServerShape, ServerEffect, device' = device
    PROVE  ServerShape'
<1>1. CASE server' = server
  BY <1>1, PermissionKept DEF ServerShape, ServerEffect, ExecEffect, Content
<1>2. ASSUME NEW id \in InvokeIDs, NEW t \in ServerRecords, Content(t),
             server' = [server EXCEPT ![id] = t]
      PROVE  ServerShape'
  BY <1>2, PermissionKept DEF ServerShape, ServerEffect, ExecEffect, Content
<1> QED BY <1>1, <1>2 DEF ServerEffect, ServerChange

\* A step of one side leaves the other as it is.
LEMMA StepLemma ==
    ASSUME Shape, [Next]_vars
    PROVE  Shape' /\ ClientEffect
<1>1. ClientShape /\ ServerShape /\ NetShape
  BY ShapeParts
<1>2. CASE ClientStep /\ UNCHANGED serverVars
  <2>1. ClientEffect /\ NetEffect
    BY <1>2, ClientStepLemma
  <2>2. device' = device /\ ServerShape'
    BY <1>1, <1>2, <2>1, UnchangedLemma, ServerKept DEF NetEffect
  <2> QED BY <1>1, <2>1, <2>2, ClientKept, NetKept, ShapeParts
<1>3. CASE ServerStep /\ UNCHANGED clientVars
  <2>1. ServerEffect /\ NetEffect
    BY <1>3, ServerStepLemma
  <2>2. device' = device /\ ClientEffect
    BY <1>3, <2>1 DEF ClientEffect, NetEffect
  <2> QED BY <1>1, <2>1, <2>2, ServerKept, ClientKept, NetKept, ShapeParts
<1>4. CASE UNCHANGED vars
  <2>1. ClientEffect /\ ServerEffect /\ NetEffect
    BY <1>4, UnchangedLemma, NetLemma DEF vars, ClientEffect, Shape
  <2>2. device' = device
    BY <2>1 DEF NetEffect
  <2> QED BY <1>1, <2>1, <2>2, ServerKept, ClientKept, NetKept, ShapeParts
<1> QED BY <1>2, <1>3, <1>4 DEF Next

(***************************************************************************)
(* The state keeps its shape: windows and sequence numbers stay below the  *)
(* modulus, retries below their limit, every transaction on the list has a *)
(* request, and every datagram is a segment of something there is.         *)
(***************************************************************************)
THEOREM TypeCorrect == Spec => []TypeOK
<1>1. Shape /\ [Next]_vars => Shape'
  BY StepLemma
<1>2. Shape => TypeOK
  BY DEF Shape
<1> QED BY <1>1, <1>2, InitLemma, PTL DEF Spec

-----------------------------------------------------------------------------
(* A request is answered once.                                             *)

(***************************************************************************)
(* The invariant: every transaction on the list is that of a request that  *)
(* was made and has no result, and no two are of one request.  AnsweredOnce*)
(* is not inductive: an end of one transaction would be a second result if *)
(* another one had ended the request before.                               *)
(***************************************************************************)
Outstanding ==
    /\ \A r \in Requests : r > asked => results[r] = <<>>
    /\ \A r \in Requests : Len(results[r]) <= 1
    /\ \A id \in InvokeIDs : client[id].state # "NONE" =>
           client[id].req <= asked /\ results[client[id].req] = <<>>
    /\ \A id1, id2 \in InvokeIDs :
           /\ client[id1].state # "NONE"
           /\ client[id2].state # "NONE"
           /\ client[id1].req = client[id2].req
           => id1 = id2

LEMMA AsksKeeps ==
    ASSUME ClientShape, Outstanding, NEW id \in InvokeIDs, NEW t \in ClientRecords,
           NEW kind \in Kinds, Asks(id, t, kind)
    PROVE  Outstanding'
<1> DEFINE r == asked + 1
           answer == <<[kind |-> kind, body |-> <<>>]>>
<1>1. /\ r \in Requests /\ asked' = r /\ asked \in Nat
      /\ client[id].state = "NONE" /\ results[r] = <<>>
  BY DEF Asks, ClientShape, Outstanding, Requests
<1>2. CASE client' = client /\ results' = [results EXCEPT ![r] = answer]
  <2>1. Len(answer) = 1
    OBVIOUS
  <2> HIDE DEF answer
  <2>2. \A q \in Requests : results'[q] = IF q = r THEN answer ELSE results[q]
    BY <1>2 DEF ClientShape
  <2>3. \A q \in Requests : q > r => q > asked /\ q # r
    BY <1>1 DEF Requests
  <2>4. \A i \in InvokeIDs : client[i].state # "NONE" =>
            client[i].req \in Requests /\ client[i].req # r /\ client[i].req <= r
    BY <1>1 DEF ClientShape, Outstanding, Requests
  <2>5. \A q \in Requests : q > asked' => results'[q] = <<>>
    BY <1>1, <2>2, <2>3 DEF Outstanding
  <2>6. ASSUME NEW q \in Requests PROVE Len(results'[q]) <= 1
    <3>1. CASE q = r
      <4>1. Len(results'[q]) = 1
        BY <2>1, <2>2, <3>1, Zenon
      <4> QED BY <4>1
    <3>2. CASE q # r
      BY <2>2, <3>2 DEF Outstanding
    <3> QED BY <3>1, <3>2
  <2>7. \A i \in InvokeIDs : client'[i].state # "NONE" =>
            client'[i].req <= asked' /\ results'[client'[i].req] = <<>>
    BY <1>1, <1>2, <2>2, <2>4 DEF Outstanding
  <2> QED BY <1>2, <2>5, <2>6, <2>7 DEF Outstanding
<1>3. CASE /\ client' = [client EXCEPT ![id] = t]
           /\ t.req = r /\ t.state # "NONE"
           /\ results' = results
  BY <1>1, <1>3 DEF ClientShape, Outstanding, Requests
<1> QED BY <1>2, <1>3 DEF Asks

LEMMA ChangesKeeps ==
    ASSUME ClientShape, Outstanding, NEW id \in InvokeIDs, NEW t \in ClientRecords,
           Changes(id, t)
    PROVE  Outstanding'
  BY DEF ClientShape, Outstanding, Changes, Become

LEMMA EndsKeeps ==
    ASSUME ClientShape, Outstanding, NEW id \in InvokeIDs, NEW kind \in Kinds,
           NEW body \in Seq(ResponsePieces), Ends(id, kind, body)
    PROVE  Outstanding'
<1> DEFINE r == client[id].req
           result == [kind |-> kind, body |-> body]
<1>1. /\ r \in Requests /\ r <= asked /\ results[r] = <<>>
      /\ client[id].state # "NONE"
  BY DEF Ends, ClientShape, Outstanding
<1>2. /\ client' = [client EXCEPT ![id] = NoClient]
      /\ asked' = asked
      /\ results' = [results EXCEPT ![r] = <<result>>]
  BY <1>1 DEF Ends, Finish, ClientShape
<1>3. Len(<<result>>) = 1
  OBVIOUS
<1> HIDE DEF result
<1>4. NoClient.state = "NONE"
  BY DEF NoClient
<1>5. asked \in Nat /\ Requests \subseteq Nat
  BY DEF ClientShape, Requests
<1> QED BY <1>1, <1>2, <1>3, <1>4, <1>5 DEF ClientShape, Outstanding

LEMMA OutstandingKept ==
    ASSUME Shape, Outstanding, [Next]_vars
    PROVE  Outstanding'
<1>1. ClientEffect /\ ClientShape
  BY StepLemma, ShapeParts
<1>2. CASE UNCHANGED clientVars
  BY <1>2 DEF clientVars, Outstanding
<1> QED BY <1>1, <1>2, AsksKeeps, ChangesKeeps, EndsKeeps DEF ClientEffect

(***************************************************************************)
(* A request gets at most one answer, and none while its transaction is on *)
(* the list, for any number of requests, retries and doubled datagrams.    *)
(***************************************************************************)
THEOREM AnsweredAtMostOnce == Spec => []AnsweredOnce
<1>1. Init => Outstanding
  BY DEF Init, ClientInit, Outstanding, NoClient
<1>2. Shape /\ Outstanding /\ [Next]_vars => Shape' /\ Outstanding'
  BY StepLemma, OutstandingKept
<1>3. Shape /\ Outstanding => AnsweredOnce
  BY DEF Outstanding, AnsweredOnce
<1> QED BY <1>1, <1>2, <1>3, InitLemma, PTL DEF Spec

-----------------------------------------------------------------------------
(* Segments are only sent where they may be.                               *)

(***************************************************************************)
(* No segment is on its way that its sender does not transmit or that, as  *)
(* far as the sender can know, its receiver does not accept, whatever the  *)
(* two devices are and whatever is retried.  The invariant is Shape: what  *)
(* indication and confirmation look at when a transaction begins holds for *)
(* as long as it lasts, so a retry need not look again.                    *)
(***************************************************************************)
THEOREM SegmentsArePermitted == Spec => []SegmentationRespected
<1>1. Shape /\ [Next]_vars => Shape'
  BY StepLemma
<1>2. Shape => SegmentationRespected
  <2> SUFFICES ASSUME Shape, NEW m \in net
               PROVE  /\ m.type = "ConfirmedRequest" /\ m.seg =>
                             /\ CanTransmit(device.client)
                             /\ device.known =>
                                    /\ CanReceive(device.server)
                                    /\ device.serverMax # 0 =>
                                           ReqSegs[m.data[1]] <= device.serverMax
                      /\ m.type = "ComplexAck" /\ m.seg =>
                             /\ CanTransmit(device.server)
                             /\ CanReceive(device.client)
                             /\ device.clientMax \in 2..64 =>
                                    RespSegs <= device.clientMax
    BY DEF SegmentationRespected
  <2>1. Permitted(m)
    BY DEF Shape, Messages
  <2>2. CASE m.type = "ConfirmedRequest" /\ m.seg
    BY <2>1, <2>2 DEF Permitted, MaySend
  <2>3. CASE m.type = "ComplexAck" /\ m.seg
    <3>1. MayRespond
      BY <2>1, <2>3 DEF Permitted
    <3>2. ASSUME device.clientMax \in 2..64
          PROVE  RespSegs <= device.clientMax
      <4> DEFINE k == DecodedMaxSegments(device.clientMax)
      <4>1. k \in Nat /\ k # 0 /\ k <= device.clientMax
        BY <3>2, DecodedLemma
      <4>2. RespSegs <= k
        BY <3>1, <4>1 DEF MayRespond
      <4> QED BY <3>2, <4>1, <4>2, SSMAssumption
    <3> QED BY <2>3, <3>1, <3>2 DEF MayRespond
  <2> QED BY <2>2, <2>3
<1> QED BY <1>1, <1>2, InitLemma, PTL DEF Spec

-----------------------------------------------------------------------------
(* A request is executed no more often than its first segment was sent.    *)

(***************************************************************************)
(* A first segment is sent, received as the beginning of a transaction of  *)
(* the server, and executed as the beginning of a request: in every step   *)
(* it moves on, and only the client and a doubled datagram make one more.  *)
(* So what is counted is where the first segments of a request are.        *)
(***************************************************************************)
IsFirst(m, r) == m.type = "ConfirmedRequest" /\ m.data = <<r, 0>>

NetFirsts(r) == {m \in net : IsFirst(m, r)}

ServerFirsts(r) ==
    {id \in InvokeIDs : /\ server[id].state = "SEGMENTED_REQUEST"
                        /\ server[id].buf[1] = <<r, 0>>}

ExecFirsts(r) ==
    {e \in 1..Len(execs) : execs[e].body # <<>> /\ execs[e].body[1] = <<r, 0>>}

FirstsFinite(r) ==
    /\ IsFiniteSet(NetFirsts(r))
    /\ IsFiniteSet(ServerFirsts(r))
    /\ IsFiniteSet(ExecFirsts(r))

Count(r) ==
    Cardinality(NetFirsts(r)) + Cardinality(ServerFirsts(r)) + Cardinality(ExecFirsts(r))

(***************************************************************************)
(* How often a transaction may have sent the first segment: so often in    *)
(* each attempt before this one, and in this one for each timeout of the   *)
(* first window.                                                           *)
(***************************************************************************)
PerAttempt(r) == IF ReqSegs[r] = 1 THEN 1 ELSE 1 + Retries

InThisAttempt(t) ==
    IF t.state = "SEGMENTED_REQUEST" /\ t.initial = 0 THEN 1 + t.segRetry
    ELSE PerAttempt(t.req)

Spent(t) == t.retry * PerAttempt(t.req) + InThisAttempt(t)

\* Only a message of several segments is sent in segments.
Several(t) == t.state = "SEGMENTED_REQUEST" => ReqSegs[t.req] # 1

\* No sequence number is the last: what follows it would be taken for the first.
Early(m) ==
    m.type = "ConfirmedRequest" \/ (m.type = "SegmentAck" /\ m.srv) => m.seq # SeqMod - 1

Begun(t) ==
    t.state = "SEGMENTED_REQUEST" => t.initial # SeqMod - 1 /\ t.buf # <<>>

Numbered ==
    /\ \A m \in net : Early(m)
    /\ \A id \in InvokeIDs : Several(client[id]) /\ Begun(server[id])

Counted ==
    \A r \in Requests :
        /\ FirstsFinite(r)
        /\ r > asked => Count(r) <= dups
        /\ Count(r) <= Transmissions(r) + dups
        /\ \A id \in InvokeIDs : client[id].state # "NONE" /\ client[id].req = r =>
               Count(r) <= Spent(client[id]) + dups

\* The segments of a request can be told apart by their sequence numbers.
FewSegments == \A r \in Requests : ReqSegs[r] < SeqMod

\* How large a set is that grows by at most one element, or loses one.
LEMMA Smaller ==
    ASSUME NEW S, IsFiniteSet(S), NEW T \in SUBSET S
    PROVE  /\ IsFiniteSet(T)
           /\ Cardinality(T) \in Nat /\ Cardinality(S) \in Nat
           /\ Cardinality(T) <= Cardinality(S)
  BY FS_Subset, FS_CardinalityType

LEMMA OneMore ==
    ASSUME NEW S, IsFiniteSet(S), NEW x, NEW T \in SUBSET (S \cup {x})
    PROVE  /\ IsFiniteSet(T)
           /\ Cardinality(T) \in Nat /\ Cardinality(S) \in Nat
           /\ Cardinality(T) <= Cardinality(S) + 1
<1> DEFINE U == S \cup {x}
<1>1. /\ IsFiniteSet(U)
      /\ Cardinality(U) = IF x \in S THEN Cardinality(S) ELSE Cardinality(S) + 1
  BY FS_AddElement
<1>2. Cardinality(S) \in Nat
  BY FS_CardinalityType
<1> HIDE DEF U
<1>3. IsFiniteSet(T) /\ Cardinality(T) \in Nat /\ Cardinality(T) <= Cardinality(U)
  BY <1>1, Smaller DEF U
<1> QED BY <1>1, <1>2, <1>3

LEMMA OneLess ==
    ASSUME NEW S, IsFiniteSet(S), NEW x \in S, NEW T \in SUBSET (S \ {x})
    PROVE  /\ IsFiniteSet(T)
           /\ Cardinality(T) \in Nat /\ Cardinality(S) \in Nat
           /\ Cardinality(T) <= Cardinality(S) - 1
<1> DEFINE U == S \ {x}
<1>1. IsFiniteSet(U) /\ Cardinality(U) = Cardinality(S) - 1
  BY FS_RemoveElement
<1>2. Cardinality(S) \in Nat
  BY FS_CardinalityType
<1> HIDE DEF U
<1>3. IsFiniteSet(T) /\ Cardinality(T) \in Nat /\ Cardinality(T) <= Cardinality(U)
  BY <1>1, Smaller DEF U
<1> QED BY <1>1, <1>2, <1>3

\* How many first segments of a request there are, in three places.
LEMMA CountIs ==
    ASSUME NEW r, FirstsFinite(r)
    PROVE  /\ Count(r) \in Nat
           /\ Cardinality(NetFirsts(r)) \in Nat
           /\ Cardinality(ServerFirsts(r)) \in Nat
           /\ Cardinality(ExecFirsts(r)) \in Nat
  BY FS_CardinalityType DEF FirstsFinite, Count

\* Three places, of which one gains what another loses.
LEMMA CountMoves ==
    ASSUME NEW r, FirstsFinite(r), dups \in Nat, dups' \in Nat,
           IsFiniteSet(NetFirsts(r)'), Cardinality(NetFirsts(r)') \in Nat,
           IsFiniteSet(ServerFirsts(r)'), Cardinality(ServerFirsts(r)') \in Nat,
           IsFiniteSet(ExecFirsts(r)'), Cardinality(ExecFirsts(r)') \in Nat,
           Cardinality(NetFirsts(r)') + Cardinality(ServerFirsts(r)')
               + Cardinality(ExecFirsts(r)') + dups
               <= Cardinality(NetFirsts(r)) + Cardinality(ServerFirsts(r))
                      + Cardinality(ExecFirsts(r)) + dups'
    PROVE  FirstsFinite(r)' /\ Count(r)' + dups <= Count(r) + dups'
  BY DEF FirstsFinite, Count

-----------------------------------------------------------------------------
\* What may be sent without a first segment being sent.
NoRequests(sent) == \A m \in sent : m.type # "ConfirmedRequest" /\ Early(m)

LEMMA NoRequestsLemma ==
    /\ NoRequests({})
    /\ \A id, nak, seq, win : NoRequests({SegmentAck(FALSE, id, nak, seq, win)})
    /\ \A id, nak, seq, win :
           seq # SeqMod - 1 => NoRequests({SegmentAck(TRUE, id, nak, seq, win)})
    /\ \A srv, id : NoRequests({Abort(srv, id)})
    /\ \A kind \in {"SimpleAck", "Error", "Reject"} : \A id, e :
           NoRequests({Answer(kind, id, e)})
    /\ \A id, e, win : NoRequests({Segment("ComplexAck", id, e, 0, 1, win)})
    /\ \A t, id, w : NoRequests({ResponseSegment(t, id, i) : i \in w})
    /\ \A t, id : NoRequests({ResponseSegment(t, id, 0)})
  BY DEF NoRequests, Early, SegmentAck, Abort, Answer, ResponseSegment, Segment

\* How a step that sends these datagrams leaves the network.
Sends(sent) == (\E m : Receive(m, sent)) \/ Send(sent) \/ (sent = {} /\ UNCHANGED netVars)

LEMMA SendsLemma ==
    ASSUME Shape, NEW sent, Sends(sent)
    PROVE  /\ net' \subseteq net \cup sent
           /\ dups \in Nat /\ dups' \in Nat /\ dups <= dups'
  BY SSMAssumption DEF Sends, Receive, Send, netVars, Shape, TypeOK

-----------------------------------------------------------------------------
(* The server: first segments move on.                                     *)

ServerCounts ==
    /\ \A r \in Requests : FirstsFinite(r) =>
           FirstsFinite(r)' /\ Count(r)' + dups <= Count(r) + dups'
    /\ \A m \in net' : Early(m)
    /\ \A id \in InvokeIDs : Begun(server'[id])

\* A step in which no transaction of the server begins and nothing is executed.
ServerQuiet ==
    /\ execs' = execs
    /\ \A id \in InvokeIDs : server'[id].state = "SEGMENTED_REQUEST" =>
           /\ server[id].state = "SEGMENTED_REQUEST"
           /\ server'[id].buf[1] = server[id].buf[1]
           /\ Begun(server'[id])

\* A step in which none of them collects anything either.
ServerStill ==
    /\ execs' = execs
    /\ \A id \in InvokeIDs : server'[id].state = "SEGMENTED_REQUEST" =>
           /\ server[id].state = "SEGMENTED_REQUEST"
           /\ server'[id].buf = server[id].buf
           /\ server'[id].last = server[id].last
           /\ server'[id].initial = server[id].initial

LEMMA ServerQuietCounts ==
    ASSUME Shape, Numbered, NEW sent, NoRequests(sent), Sends(sent), ServerQuiet
    PROVE  ServerCounts
<1>1. net' \subseteq net \cup sent /\ dups \in Nat /\ dups' \in Nat /\ dups <= dups'
  BY SendsLemma
<1>2. \A m \in net' : Early(m)
  BY <1>1 DEF Numbered, NoRequests
<1>3. \A id \in InvokeIDs : Begun(server'[id])
  BY DEF ServerQuiet, Begun
<1>4. ASSUME NEW r \in Requests, FirstsFinite(r)
      PROVE  FirstsFinite(r)' /\ Count(r)' + dups <= Count(r) + dups'
  <2>1. NetFirsts(r)' \subseteq NetFirsts(r)
    BY <1>1 DEF NetFirsts, IsFirst, NoRequests
  <2>2. ServerFirsts(r)' \subseteq ServerFirsts(r)
    BY DEF ServerFirsts, ServerQuiet
  <2>3. ExecFirsts(r)' \subseteq ExecFirsts(r)
    BY DEF ExecFirsts, ServerQuiet
  <2>4. /\ IsFiniteSet(NetFirsts(r)') /\ Cardinality(NetFirsts(r)') \in Nat
        /\ Cardinality(NetFirsts(r)') <= Cardinality(NetFirsts(r))
    BY <1>4, <2>1, Smaller DEF FirstsFinite
  <2>5. /\ IsFiniteSet(ServerFirsts(r)') /\ Cardinality(ServerFirsts(r)') \in Nat
        /\ Cardinality(ServerFirsts(r)') <= Cardinality(ServerFirsts(r))
    BY <1>4, <2>2, Smaller DEF FirstsFinite
  <2>6. /\ IsFiniteSet(ExecFirsts(r)') /\ Cardinality(ExecFirsts(r)') \in Nat
        /\ Cardinality(ExecFirsts(r)') <= Cardinality(ExecFirsts(r))
    BY <1>4, <2>3, Smaller DEF FirstsFinite
  <2> QED BY <1>1, <1>4, <2>4, <2>5, <2>6, CountIs, CountMoves
<1> QED BY <1>2, <1>3, <1>4 DEF ServerCounts

\* The network after the first segment of a request was taken from it.
LEMMA FirstReceived ==
    ASSUME Shape, NEW m, NEW sent, NoRequests(sent), Receive(m, sent),
           NEW r, FirstsFinite(r)
    PROVE  /\ IsFiniteSet(NetFirsts(r)') /\ Cardinality(NetFirsts(r)') \in Nat
           /\ Cardinality(NetFirsts(r)') + dups <= Cardinality(NetFirsts(r)) + dups'
           /\ IsFirst(m, r) =>
                Cardinality(NetFirsts(r)') + 1 + dups <= Cardinality(NetFirsts(r)) + dups'
<1>1. dups \in Nat /\ dups' \in Nat /\ dups <= dups'
  BY SendsLemma DEF Sends
<1>2. NetFirsts(r)' \subseteq NetFirsts(r)
  BY DEF Receive, NetFirsts, IsFirst, NoRequests
<1>3. /\ IsFiniteSet(NetFirsts(r)') /\ Cardinality(NetFirsts(r)') \in Nat
      /\ Cardinality(NetFirsts(r)) \in Nat
      /\ Cardinality(NetFirsts(r)') <= Cardinality(NetFirsts(r))
  BY <1>2, Smaller DEF FirstsFinite
<1>4. ASSUME IsFirst(m, r)
      PROVE  Cardinality(NetFirsts(r)') + 1 + dups <= Cardinality(NetFirsts(r)) + dups'
  <2>1. CASE dups' = dups + 1
    BY <1>1, <1>3, <2>1
  <2>2. CASE net' = (net \ {m}) \cup sent /\ dups' = dups
    <3>1. m \in NetFirsts(r) /\ NetFirsts(r)' \subseteq NetFirsts(r) \ {m}
      BY <1>4, <2>2 DEF Receive, NetFirsts, IsFirst, NoRequests
    <3>2. Cardinality(NetFirsts(r)') <= Cardinality(NetFirsts(r)) - 1
      BY <3>1, OneLess DEF FirstsFinite
    <3> QED BY <1>1, <1>3, <2>2, <3>2
  <2> QED BY <2>1, <2>2 DEF Receive
<1> QED BY <1>1, <1>3, <1>4

\* What a request that is handed to the application adds to the executions.
LEMMA Delivered ==
    ASSUME Shape, NEW id \in InvokeIDs, NEW t \in ServerRecords,
           NEW body \in Seq(RequestPieces), body # <<>>, Deliver(id, t, body)
    PROVE  /\ \A j \in InvokeIDs : server'[j].state = "SEGMENTED_REQUEST" =>
                  j # id /\ server'[j] = server[j]
           /\ \A r : /\ body[1] # <<r, 0>> => ExecFirsts(r)' \subseteq ExecFirsts(r)
                     /\ ExecFirsts(r)' \subseteq ExecFirsts(r) \cup {Len(execs) + 1}
<1> DEFINE u == InState(t, "AWAIT_RESPONSE")
           v == [u EXCEPT !.buf = <<>>]
           e == [id |-> id, body |-> body]
           Exec == [id : InvokeIDs, body : Seq(RequestPieces)]
<1>1. u \in ServerRecords /\ u.state = "AWAIT_RESPONSE"
  BY ServerInState DEF ServerStates
<1>2. server' = [server EXCEPT ![id] = v] /\ execs' = Append(execs, e)
  BY DEF Deliver
<1> HIDE DEF u
<1>3. v.state = "AWAIT_RESPONSE"
  BY <1>1 DEF ServerRecords
<1> HIDE DEF v
<1>4. \A j \in InvokeIDs : server'[j].state = "SEGMENTED_REQUEST" =>
          j # id /\ server'[j] = server[j]
  BY <1>2, <1>3 DEF Shape, TypeOK
<1>5. execs \in Seq(Exec) /\ e \in Exec
  BY DEF Shape, TypeOK
<1>6. e.body = body
  OBVIOUS
<1> HIDE DEF e, Exec
<1>7. /\ Len(execs) \in Nat /\ Len(execs') = Len(execs) + 1
      /\ \A k \in 1..Len(execs) : execs'[k] = execs[k]
      /\ execs'[Len(execs) + 1] = e
  BY <1>2, <1>5
<1>8. \A r : /\ body[1] # <<r, 0>> => ExecFirsts(r)' \subseteq ExecFirsts(r)
             /\ ExecFirsts(r)' \subseteq ExecFirsts(r) \cup {Len(execs) + 1}
  BY <1>6, <1>7 DEF ExecFirsts
<1> QED BY <1>4, <1>8

\* The first segment of a request becomes the beginning of a transaction, or an
\* execution.
LEMMA IdleCounts ==
    ASSUME Shape, Numbered, FewSegments, NEW m \in net, Idle(m)
    PROVE  ServerCounts
<1> DEFINE win == IF m.win < ServerWindow THEN m.win ELSE ServerWindow
           u == InState(NoServer, "SEGMENTED_REQUEST")
           t == [u EXCEPT !.win = win, !.buf = <<m.data>>]
<1>1. m \in Messages
  BY DEF Shape
<1>2. /\ m.type = "ConfirmedRequest" /\ m.id \in InvokeIDs /\ m.data \in RequestPieces
      /\ server[m.id].state = "NONE"
  BY <1>1, MessageLemma DEF Idle
<1>3. SeqMod - 1 # 0
  BY <1>2, SSMAssumption DEF RequestPieces, FewSegments
<1>4. dups \in Nat /\ dups' \in Nat /\ dups <= dups'
  BY SendsLemma DEF Sends, Idle
<1>5. CASE Deliver(m.id, NoServer, <<m.data>>) /\ Receive(m, {})
  <2>1. /\ \A j \in InvokeIDs : server'[j].state = "SEGMENTED_REQUEST" =>
               j # m.id /\ server'[j] = server[j]
        /\ \A r : /\ m.data # <<r, 0>> => ExecFirsts(r)' \subseteq ExecFirsts(r)
                  /\ ExecFirsts(r)' \subseteq ExecFirsts(r) \cup {Len(execs) + 1}
    <3> DEFINE body == <<m.data>>
    <3>1. body \in Seq(RequestPieces) /\ body # <<>> /\ body[1] = m.data
      BY <1>2
    <3>2. Deliver(m.id, NoServer, body) /\ NoServer \in ServerRecords
      BY <1>5, NoServerLemma
    <3> HIDE DEF body
    <3>3. /\ \A j \in InvokeIDs : server'[j].state = "SEGMENTED_REQUEST" =>
                 j # m.id /\ server'[j] = server[j]
          /\ \A r : /\ body[1] # <<r, 0>> => ExecFirsts(r)' \subseteq ExecFirsts(r)
                    /\ ExecFirsts(r)' \subseteq ExecFirsts(r) \cup {Len(execs) + 1}
      BY <1>2, <3>1, <3>2, Delivered
    <3> QED BY <3>1, <3>3
  <2>2. ASSUME NEW r \in Requests, FirstsFinite(r)
        PROVE  FirstsFinite(r)' /\ Count(r)' + dups <= Count(r) + dups'
    <3>1. /\ IsFiniteSet(NetFirsts(r)') /\ Cardinality(NetFirsts(r)') \in Nat
          /\ Cardinality(NetFirsts(r)') + dups <= Cardinality(NetFirsts(r)) + dups'
          /\ IsFirst(m, r) =>
               Cardinality(NetFirsts(r)') + 1 + dups <= Cardinality(NetFirsts(r)) + dups'
      BY <1>5, <2>2, FirstReceived, NoRequestsLemma
    <3>2. ServerFirsts(r)' \subseteq ServerFirsts(r)
      BY <2>1 DEF ServerFirsts
    <3>3. /\ IsFiniteSet(ServerFirsts(r)') /\ Cardinality(ServerFirsts(r)') \in Nat
          /\ Cardinality(ServerFirsts(r)') <= Cardinality(ServerFirsts(r))
      BY <2>2, <3>2, Smaller DEF FirstsFinite
    <3>4. /\ IsFiniteSet(ExecFirsts(r)') /\ Cardinality(ExecFirsts(r)') \in Nat
          /\ ~IsFirst(m, r) => Cardinality(ExecFirsts(r)') <= Cardinality(ExecFirsts(r))
          /\ Cardinality(ExecFirsts(r)') <= Cardinality(ExecFirsts(r)) + 1
      <4>1. ~IsFirst(m, r) => m.data # <<r, 0>>
        BY <1>2 DEF IsFirst
      <4> QED BY <2>1, <2>2, <4>1, Smaller, OneMore DEF FirstsFinite
    <3> QED BY <1>4, <2>2, <3>1, <3>3, <3>4, CountIs, CountMoves
  <2>3. \A x \in net' : Early(x)
    BY <1>5 DEF Receive, Numbered
  <2>4. \A j \in InvokeIDs : Begun(server'[j])
    BY <2>1 DEF Begun, Numbered
  <2> QED BY <2>2, <2>3, <2>4 DEF ServerCounts
<1>6. CASE Receive(m, {Abort(TRUE, m.id)}) /\ UNCHANGED serverVars
  <2>1. ServerQuiet
    BY <1>6 DEF ServerQuiet, serverVars, Numbered
  <2> QED BY <1>6, <2>1, NoRequestsLemma, ServerQuietCounts DEF Sends
<1>7. CASE ServerBecome(m.id, t) /\ Receive(m, {SegmentAck(TRUE, m.id, FALSE, 0, win)})
  <2> DEFINE sent == {SegmentAck(TRUE, m.id, FALSE, 0, win)}
  <2>1. NoRequests(sent)
    BY <1>3, NoRequestsLemma
  <2>2. u \in ServerRecords /\ u.state = "SEGMENTED_REQUEST" /\ u.initial = 0
    <3>1. u.initial = 0
      BY DEF InState, NoServer
    <3> QED BY <3>1, NoServerLemma, ServerInState DEF ServerStates
  <2> HIDE DEF u, sent, win
  <2>3. /\ t.state = "SEGMENTED_REQUEST" /\ t.initial = 0
        /\ t.buf[1] = m.data /\ t.buf # <<>>
    BY <2>2 DEF ServerRecords
  <2> HIDE DEF t
  <2>4. \A j \in InvokeIDs : server'[j] = IF j = m.id THEN t ELSE server[j]
    BY <1>7 DEF ServerBecome, Shape, TypeOK
  <2>5. ASSUME NEW r \in Requests, FirstsFinite(r)
        PROVE  FirstsFinite(r)' /\ Count(r)' + dups <= Count(r) + dups'
    <3>1. /\ IsFiniteSet(NetFirsts(r)') /\ Cardinality(NetFirsts(r)') \in Nat
          /\ Cardinality(NetFirsts(r)') + dups <= Cardinality(NetFirsts(r)) + dups'
          /\ IsFirst(m, r) =>
               Cardinality(NetFirsts(r)') + 1 + dups <= Cardinality(NetFirsts(r)) + dups'
      BY <1>7, <2>1, <2>5, FirstReceived DEF sent
    <3>2. /\ ~IsFirst(m, r) => ServerFirsts(r)' \subseteq ServerFirsts(r)
          /\ ServerFirsts(r)' \subseteq ServerFirsts(r) \cup {m.id}
      BY <1>2, <2>3, <2>4 DEF ServerFirsts, IsFirst
    <3>3. /\ IsFiniteSet(ServerFirsts(r)') /\ Cardinality(ServerFirsts(r)') \in Nat
          /\ ~IsFirst(m, r) => Cardinality(ServerFirsts(r)') <= Cardinality(ServerFirsts(r))
          /\ Cardinality(ServerFirsts(r)') <= Cardinality(ServerFirsts(r)) + 1
      BY <2>5, <3>2, Smaller, OneMore DEF FirstsFinite
    <3>4. ExecFirsts(r)' = ExecFirsts(r)
      BY <1>7 DEF ServerBecome, ExecFirsts
    <3> QED BY <1>4, <2>5, <3>1, <3>3, <3>4, CountIs, CountMoves DEF FirstsFinite
  <2>6. \A x \in net' : Early(x)
    BY <1>7, <2>1 DEF sent, NoRequests, Receive, Numbered
  <2>7. \A j \in InvokeIDs : Begun(server'[j])
    BY <1>3, <2>3, <2>4 DEF Begun, Numbered
  <2> QED BY <2>5, <2>6, <2>7 DEF ServerCounts
<1> QED BY <1>5, <1>6, <1>7 DEF Idle

\* The last segment of a request makes an execution of a transaction.
LEMMA ServerSegmentCounts ==
    ASSUME Shape, Numbered, NEW m \in net, SegmentedRequestSegment(m)
    PROVE  ServerCounts
<1> DEFINE t == server[m.id]
           added == [t EXCEPT !.buf = Append(@, m.data), !.last = m.seq]
           closed == [added EXCEPT !.initial = m.seq]
           nak == SegmentAck(TRUE, m.id, TRUE, t.initial, t.win)
           ack == SegmentAck(TRUE, m.id, FALSE, m.seq, t.win)
<1>1. /\ m.type = "ConfirmedRequest" /\ t.state = "SEGMENTED_REQUEST"
      /\ \/ ServerBecome(m.id, Restarted(t)) /\ Receive(m, {nak})
         \/ Deliver(m.id, added, added.buf) /\ Receive(m, {ack})
         \/ ServerBecome(m.id, Restarted(closed)) /\ Receive(m, {ack})
         \/ ServerBecome(m.id, Restarted(added)) /\ Receive(m, {})
  BY DEF SegmentedRequestSegment
<1>2. m.id \in InvokeIDs /\ m.seq \in 0..(SeqMod - 1) /\ m.data \in RequestPieces
  BY <1>1, MessageLemma DEF Shape
<1>3. t \in ServerRecords /\ t = server[m.id] /\ t.initial # SeqMod - 1 /\ t.buf # <<>>
  BY <1>1, <1>2, ServerFacts DEF Numbered, Begun
<1>4. NoRequests({nak}) /\ NoRequests({ack}) /\ NoRequests({})
  BY <1>1, <1>3, NoRequestsLemma DEF Numbered, Early
<1>5. t.buf \in Seq(RequestPieces)
  BY <1>3 DEF ServerRecords
<1>6. /\ Append(t.buf, m.data) \in Seq(RequestPieces)
      /\ Append(t.buf, m.data) # <<>>
      /\ Append(t.buf, m.data)[1] = t.buf[1]
  BY <1>2, <1>3, <1>5
<1>7. /\ added \in ServerRecords /\ added.state = t.state /\ added.initial = t.initial
      /\ added.buf \in Seq(RequestPieces) /\ added.buf # <<>> /\ added.buf[1] = t.buf[1]
  BY <1>2, <1>3, <1>6 DEF ServerRecords
<1> HIDE DEF added
<1>8. /\ closed \in ServerRecords /\ closed.state = t.state /\ closed.initial = m.seq
      /\ closed.buf # <<>> /\ closed.buf[1] = t.buf[1]
  BY <1>2, <1>7 DEF ServerRecords
<1> HIDE DEF t, closed, nak, ack
<1>9. ASSUME NEW u \in ServerRecords, u.state = t.state, u.initial # SeqMod - 1,
             u.buf # <<>>, u.buf[1] = t.buf[1], ServerBecome(m.id, Restarted(u)),
             NEW sent, NoRequests(sent), Receive(m, sent)
      PROVE  ServerCounts
  <2>1. /\ Restarted(u).state = u.state /\ Restarted(u).initial = u.initial
        /\ Restarted(u).buf = u.buf
    BY DEF Restarted, ServerRecords
  <2>2. /\ execs' = execs
        /\ \A j \in InvokeIDs : server'[j] = IF j = m.id THEN Restarted(u) ELSE server[j]
    BY <1>9 DEF ServerBecome, Shape, TypeOK
  <2>3. ServerQuiet
    BY <1>1, <1>3, <1>9, <2>1, <2>2 DEF ServerQuiet, Begun, Numbered
  <2> QED BY <1>9, <2>3, ServerQuietCounts DEF Sends
<1>10. CASE Deliver(m.id, added, added.buf) /\ Receive(m, {ack})
  <2>1. /\ \A j \in InvokeIDs : server'[j].state = "SEGMENTED_REQUEST" =>
               j # m.id /\ server'[j] = server[j]
        /\ \A r : /\ added.buf[1] # <<r, 0>> => ExecFirsts(r)' \subseteq ExecFirsts(r)
                  /\ ExecFirsts(r)' \subseteq ExecFirsts(r) \cup {Len(execs) + 1}
    BY <1>2, <1>7, <1>10, Delivered
  <2>2. dups \in Nat /\ dups' \in Nat
    BY <1>10, SendsLemma DEF Sends
  <2>3. ASSUME NEW r \in Requests, FirstsFinite(r)
        PROVE  FirstsFinite(r)' /\ Count(r)' + dups <= Count(r) + dups'
    <3>1. /\ IsFiniteSet(NetFirsts(r)') /\ Cardinality(NetFirsts(r)') \in Nat
          /\ Cardinality(NetFirsts(r)') + dups <= Cardinality(NetFirsts(r)) + dups'
      BY <1>4, <1>10, <2>3, FirstReceived
    <3>2. CASE t.buf[1] = <<r, 0>>
      <4>1. m.id \in ServerFirsts(r) /\ ServerFirsts(r)' \subseteq ServerFirsts(r) \ {m.id}
        BY <1>1, <1>2, <1>3, <2>1, <3>2 DEF ServerFirsts
      <4>2. /\ IsFiniteSet(ServerFirsts(r)') /\ Cardinality(ServerFirsts(r)') \in Nat
            /\ Cardinality(ServerFirsts(r)') <= Cardinality(ServerFirsts(r)) - 1
        BY <2>3, <4>1, OneLess DEF FirstsFinite
      <4>3. /\ IsFiniteSet(ExecFirsts(r)') /\ Cardinality(ExecFirsts(r)') \in Nat
            /\ Cardinality(ExecFirsts(r)') <= Cardinality(ExecFirsts(r)) + 1
        BY <2>1, <2>3, OneMore DEF FirstsFinite
      <4> QED BY <2>2, <2>3, <3>1, <4>2, <4>3, CountIs, CountMoves
    <3>3. CASE t.buf[1] # <<r, 0>>
      <4>1. ServerFirsts(r)' \subseteq ServerFirsts(r)
        BY <2>1 DEF ServerFirsts
      <4>2. /\ IsFiniteSet(ServerFirsts(r)') /\ Cardinality(ServerFirsts(r)') \in Nat
            /\ Cardinality(ServerFirsts(r)') <= Cardinality(ServerFirsts(r))
        BY <2>3, <4>1, Smaller DEF FirstsFinite
      <4>3. /\ IsFiniteSet(ExecFirsts(r)') /\ Cardinality(ExecFirsts(r)') \in Nat
            /\ Cardinality(ExecFirsts(r)') <= Cardinality(ExecFirsts(r))
        BY <1>7, <2>1, <2>3, <3>3, Smaller DEF FirstsFinite
      <4> QED BY <2>2, <2>3, <3>1, <4>2, <4>3, CountIs, CountMoves
    <3> QED BY <3>2, <3>3
  <2>4. \A x \in net' : Early(x)
    BY <1>4, <1>10 DEF NoRequests, Receive, Numbered
  <2>5. \A j \in InvokeIDs : Begun(server'[j])
    BY <2>1 DEF Begun, Numbered
  <2> QED BY <2>3, <2>4, <2>5 DEF ServerCounts
<1>11. CASE ServerBecome(m.id, Restarted(t)) /\ Receive(m, {nak})
  BY <1>3, <1>4, <1>9, <1>11
<1>12. CASE ServerBecome(m.id, Restarted(closed)) /\ Receive(m, {ack})
  <2>1. m.seq # SeqMod - 1
    BY <1>1 DEF Numbered, Early
  <2> QED BY <1>4, <1>8, <1>9, <1>12, <2>1
<1>13. CASE ServerBecome(m.id, Restarted(added)) /\ Receive(m, {})
  BY <1>3, <1>4, <1>7, <1>9, <1>13
<1> QED BY <1>1, <1>10, <1>11, <1>12, <1>13

\* A step that leaves the transactions that collect a request as they are, or drops
\* them.
LEMMA ServerStillCounts ==
    ASSUME Shape, Numbered, ServerStill, NEW sent, NoRequests(sent), Sends(sent)
    PROVE  ServerCounts
<1>1. ServerQuiet
  BY DEF ServerStill, ServerQuiet, Numbered, Begun
<1> QED BY <1>1, ServerQuietCounts

\* A transaction of the server that is not collecting a request, or leaves the list.
LEMMA ServerChangeCounts ==
    ASSUME Shape, Numbered, NEW id \in InvokeIDs, NEW t, t.state # "SEGMENTED_REQUEST",
           server' = [server EXCEPT ![id] = t], execs' = execs,
           NEW sent, NoRequests(sent), Sends(sent)
    PROVE  ServerCounts /\ ServerStill
<1>1. \A j \in InvokeIDs : server'[j] = IF j = id THEN t ELSE server[j]
  BY DEF Shape, TypeOK
<1>2. ServerStill
  BY <1>1 DEF ServerStill
<1> QED BY <1>2, ServerStillCounts

LEMMA ServerReleaseCounts ==
    ASSUME Shape, Numbered, NEW id \in InvokeIDs, ServerRelease(id),
           NEW sent, NoRequests(sent), Sends(sent)
    PROVE  ServerCounts /\ ServerStill
<1>1. NoServer.state = "NONE"
  BY DEF NoServer
<1> QED BY <1>1, ServerChangeCounts DEF ServerRelease

LEMMA ServerSameCounts ==
    ASSUME Shape, Numbered, server' = server, execs' = execs,
           NEW sent, NoRequests(sent), Sends(sent)
    PROVE  ServerCounts /\ ServerStill
<1>1. ServerStill
  BY DEF ServerStill
<1> QED BY <1>1, ServerStillCounts

\* What else the server does leaves the beginnings of its transactions where they
\* are, or drops them.
LEMMA SegmentedRequestOtherCounts ==
    ASSUME Shape, Numbered, NEW m \in net, SegmentedRequestOther(m)
    PROVE  ServerCounts /\ ServerStill
<1>1. m.id \in InvokeIDs
  BY MessageLemma DEF Shape
<1>2. /\ ServerRelease(m.id)
      /\ Receive(m, {}) \/ Receive(m, {Abort(TRUE, m.id)})
  BY DEF SegmentedRequestOther
<1> QED BY <1>1, <1>2, NoRequestsLemma, ServerReleaseCounts DEF Sends

LEMMA AwaitResponseCounts ==
    ASSUME Shape, Numbered, NEW m \in net,
           AwaitResponse(m) \/ SegmentedResponseOther(m) \/ ServerUnmatched(m)
    PROVE  ServerCounts /\ ServerStill
<1>1. m.id \in InvokeIDs
  BY MessageLemma DEF Shape
<1>2. /\ Receive(m, {})
      /\ UNCHANGED serverVars \/ ServerRelease(m.id)
  BY DEF AwaitResponse, SegmentedResponseOther, ServerUnmatched
<1> QED BY <1>1, <1>2, NoRequestsLemma, ServerReleaseCounts, ServerSameCounts
    DEF Sends, serverVars

LEMMA RespondCounts ==
    ASSUME Shape, Numbered, NEW e \in pending, NEW kind \in AckKinds, Respond(e, kind)
    PROVE  ServerCounts /\ ServerStill
<1> DEFINE id == execs[e].id
           t == server[id]
           u == InState(t, "SEGMENTED_RESPONSE")
           first == [u EXCEPT !.resp = e, !.segRetry = 0, !.initial = 0,
                              !.win = NoWindow, !.buf = <<>>]
           whole == Segment("ComplexAck", id, e, 0, 1, NoWindow)
<1>1. id \in InvokeIDs
  <2> DEFINE Exec == [id : InvokeIDs, body : Seq(RequestPieces)]
  <2>1. execs \in Seq(Exec) /\ e \in 1..Len(execs)
    BY DEF Shape, TypeOK
  <2>2. \A x \in Exec : x.id \in InvokeIDs
    OBVIOUS
  <2> HIDE DEF Exec
  <2>3. execs[e] \in Exec
    BY <2>1
  <2> QED BY <2>2, <2>3
<1>2. /\ execs' = execs
      /\ \/ server' = server /\ UNCHANGED netVars
         \/ /\ server' = [server EXCEPT ![id] = NoServer]
            /\ \/ kind \in {"SimpleAck", "Error", "Reject"} /\ Send({Answer(kind, id, e)})
               \/ Send({Abort(TRUE, id)})
               \/ Send({whole})
         \/ /\ server' = [server EXCEPT ![id] = first]
            /\ Send({ResponseSegment(first, id, 0)})
  BY DEF Respond
<1>3. u.state = "SEGMENTED_RESPONSE" /\ u \in ServerRecords
  BY <1>1, ServerFacts, ServerInState DEF ServerStates
<1> HIDE DEF u
<1>4. first.state # "SEGMENTED_REQUEST"
  BY <1>3 DEF ServerRecords
<1>5. NoServer.state # "SEGMENTED_REQUEST"
  BY DEF NoServer
<1>6. NoRequests({whole})
  BY NoRequestsLemma
<1> HIDE DEF first, id, whole
<1>7. CASE server' = server /\ UNCHANGED netVars
  BY <1>2, <1>7, NoRequestsLemma, ServerSameCounts DEF Sends
<1>8. CASE server' = [server EXCEPT ![id] = first] /\ Send({ResponseSegment(first, id, 0)})
  <2>1. NoRequests({ResponseSegment(first, id, 0)})
    BY NoRequestsLemma
  <2> QED BY <1>1, <1>2, <1>4, <1>8, <2>1, ServerChangeCounts DEF Sends
<1>9. ASSUME NEW sent, NoRequests(sent), Send(sent),
             server' = [server EXCEPT ![id] = NoServer]
      PROVE  ServerCounts /\ ServerStill
  BY <1>1, <1>2, <1>5, <1>9, ServerChangeCounts DEF Sends
<1>10. ASSUME kind \in {"SimpleAck", "Error", "Reject"}
       PROVE  NoRequests({Answer(kind, id, e)})
  BY <1>10, NoRequestsLemma
<1>11. NoRequests({Abort(TRUE, id)})
  BY NoRequestsLemma
<1> QED BY <1>2, <1>6, <1>7, <1>8, <1>9, <1>10, <1>11

LEMMA SegmentedResponseAckCounts ==
    ASSUME Shape, Numbered, NEW m \in net, SegmentedResponseAck(m)
    PROVE  ServerCounts /\ ServerStill
<1> DEFINE t == [server[m.id] EXCEPT !.win = m.win]
           next == (m.seq + 1) % SeqMod
           w == WindowFrom(t, next, RespSegs)
           begun == [t EXCEPT !.initial = next, !.segRetry = 0]
           filled == Filled(begun, next, RespSegs)
           sent == {ResponseSegment(filled, m.id, i) : i \in w}
<1>1. /\ m.type = "SegmentAck"
      /\ server[m.id].state = "SEGMENTED_RESPONSE"
      /\ \/ ServerBecome(m.id, Restarted(t)) /\ Receive(m, {})
         \/ ServerRelease(m.id) /\ Receive(m, {})
         \/ /\ ServerBecome(m.id, IF w = {} THEN filled ELSE Restarted(filled))
            /\ Receive(m, sent)
  BY DEF SegmentedResponseAck
<1>2. m.id \in InvokeIDs
  BY <1>1, MessageLemma DEF Shape
<1>3. server[m.id] \in ServerRecords
  BY <1>2, ServerFacts
<1>4. NoRequests(sent) /\ NoRequests({})
  BY NoRequestsLemma
<1> HIDE DEF sent, w
<1>5. t.state = "SEGMENTED_RESPONSE" /\ DOMAIN t = DOMAIN server[m.id]
  BY <1>1, <1>3 DEF ServerRecords
<1> HIDE DEF t, next
<1>6. begun.state = "SEGMENTED_RESPONSE" /\ DOMAIN begun = DOMAIN server[m.id]
  BY <1>3, <1>5 DEF ServerRecords
<1> HIDE DEF begun
<1>7. filled.state = "SEGMENTED_RESPONSE" /\ DOMAIN filled = DOMAIN server[m.id]
  BY <1>3, <1>6 DEF Filled, ServerRecords
<1> HIDE DEF filled
<1>8. /\ Restarted(t).state = "SEGMENTED_RESPONSE"
      /\ Restarted(filled).state = "SEGMENTED_RESPONSE"
  BY <1>3, <1>5, <1>7 DEF Restarted, ServerRecords
<1>9. ASSUME NEW u, u.state = "SEGMENTED_RESPONSE", ServerBecome(m.id, u),
             NEW s, NoRequests(s), Receive(m, s)
      PROVE  ServerCounts /\ ServerStill
  BY <1>2, <1>9, ServerChangeCounts DEF ServerBecome, Sends
<1> QED BY <1>1, <1>2, <1>4, <1>7, <1>8, <1>9, ServerReleaseCounts DEF Sends

LEMMA ServerTimerExpiredCounts ==
    ASSUME Shape, Numbered, NEW id \in InvokeIDs, ServerTimerExpired(id)
    PROVE  ServerCounts /\ ServerStill
<1> DEFINE t == Expired(server[id])
<1>1. server[id] \in ServerRecords
  BY ServerFacts
<1>2. /\ t.state = server[id].state /\ t.initial = server[id].initial
      /\ t.buf = server[id].buf /\ t.last = server[id].last
  BY <1>1 DEF Expired, ServerRecords
<1>3. /\ execs' = execs /\ UNCHANGED netVars
      /\ \A j \in InvokeIDs : server'[j] = IF j = id THEN t ELSE server[j]
  BY DEF ServerTimerExpired, ServerBecome, Shape, TypeOK
<1> HIDE DEF t
<1>4. ServerStill
  BY <1>2, <1>3 DEF ServerStill
<1> QED BY <1>3, <1>4, NoRequestsLemma, ServerStillCounts DEF Sends

LEMMA SegmentedResponseTimeoutCounts ==
    ASSUME Shape, Numbered, NEW id \in InvokeIDs, SegmentedResponseTimeout(id)
    PROVE  ServerCounts /\ ServerStill
<1> DEFINE t == [server[id] EXCEPT !.late = FALSE]
           count == [t EXCEPT !.segRetry = @ + 1]
           again == Restarted(count)
           filled == Filled(again, t.initial, RespSegs)
           w == WindowFrom(t, t.initial, RespSegs)
           sent == {ResponseSegment(t, id, i) : i \in w}
<1>1. /\ server[id].state = "SEGMENTED_RESPONSE"
      /\ \/ ServerBecome(id, again) /\ Send({ResponseSegment(t, id, 0)})
         \/ ServerBecome(id, filled) /\ Send(sent)
         \/ ServerRelease(id) /\ UNCHANGED netVars
  BY DEF SegmentedResponseTimeout, ServerRecords
<1>2. server[id] \in ServerRecords
  BY ServerFacts
<1>3. NoRequests({ResponseSegment(t, id, 0)}) /\ NoRequests(sent) /\ NoRequests({})
  BY NoRequestsLemma
<1> HIDE DEF sent, w
<1>4. t.state = "SEGMENTED_RESPONSE" /\ DOMAIN t = DOMAIN server[id]
  BY <1>1, <1>2 DEF ServerRecords
<1> HIDE DEF t
<1>5. count.state = "SEGMENTED_RESPONSE" /\ DOMAIN count = DOMAIN server[id]
  BY <1>2, <1>4 DEF ServerRecords
<1> HIDE DEF count
<1>6. again.state = "SEGMENTED_RESPONSE" /\ DOMAIN again = DOMAIN server[id]
  BY <1>2, <1>5 DEF Restarted, ServerRecords
<1> HIDE DEF again
<1>7. filled.state = "SEGMENTED_RESPONSE"
  BY <1>2, <1>6 DEF Filled, ServerRecords
<1> HIDE DEF filled
<1>8. ASSUME NEW u, u.state = "SEGMENTED_RESPONSE", ServerBecome(id, u),
             NEW s, NoRequests(s), Send(s)
      PROVE  ServerCounts /\ ServerStill
  BY <1>8, ServerChangeCounts DEF ServerBecome, Sends
<1> QED BY <1>1, <1>3, <1>6, <1>7, <1>8, ServerReleaseCounts DEF Sends

LEMMA ServerStepCounts ==
    ASSUME Shape, Numbered, FewSegments, ServerStep
    PROVE  /\ ServerCounts
           /\ \/ ServerStill
              \/ \E m \in net : Idle(m) \/ SegmentedRequestSegment(m)
<1>1. ASSUME NEW m \in net, ServerReceive(m)
      PROVE  ServerCounts /\ (ServerStill \/ Idle(m) \/ SegmentedRequestSegment(m))
  BY <1>1, IdleCounts, ServerSegmentCounts, SegmentedRequestOtherCounts,
     AwaitResponseCounts, SegmentedResponseAckCounts DEF ServerReceive
<1>2. ASSUME NEW id \in InvokeIDs, ServerTimerExpired(id) \/ ServerTimeout(id)
      PROVE  ServerCounts /\ ServerStill
  <2>1. ServerGivesUp(id) => ServerRelease(id) /\ UNCHANGED netVars
    BY DEF ServerGivesUp
  <2> QED BY <1>2, <2>1, ServerTimerExpiredCounts, SegmentedResponseTimeoutCounts,
             NoRequestsLemma, ServerReleaseCounts DEF ServerTimeout, Sends
<1> QED BY <1>1, <1>2, RespondCounts DEF ServerStep

-----------------------------------------------------------------------------
(* The client: how often it sends a first segment.                         *)

LEMMA SpentLemma ==
    ASSUME NEW t \in ClientRecords, t.req \in Requests, Several(t)
    PROVE  /\ PerAttempt(t.req) \in Nat \ {0}
           /\ InThisAttempt(t) \in 1..PerAttempt(t.req)
           /\ Spent(t) \in Nat \ {0}
           /\ Transmissions(t.req) \in Nat
           /\ Spent(t) <= Transmissions(t.req)
<1> DEFINE p == PerAttempt(t.req)
           n == InThisAttempt(t)
           k == t.retry
<1>1. Retries \in Nat /\ k \in 0..Retries /\ t.segRetry \in 0..Retries
  BY SSMAssumption DEF ClientRecords
<1>2. p \in Nat \ {0}
  BY <1>1 DEF PerAttempt
<1>3. n \in 1..p
  <2>1. CASE t.state = "SEGMENTED_REQUEST" /\ t.initial = 0
    BY <1>1, <2>1 DEF InThisAttempt, PerAttempt, Several
  <2>2. CASE ~(t.state = "SEGMENTED_REQUEST" /\ t.initial = 0)
    BY <1>2, <2>2 DEF InThisAttempt
  <2> QED BY <2>1, <2>2
<1>4. Spent(t) = k * p + n /\ Transmissions(t.req) = (1 + Retries) * p
  BY DEF Spent, Transmissions, PerAttempt
<1> HIDE DEF p, n, k
<1>5. k * p \in Nat /\ k * p <= Retries * p /\ Retries * p \in Nat
  BY <1>1, <1>2
<1>6. (1 + Retries) * p = Retries * p + p
  BY <1>1, <1>2
<1> QED BY <1>2, <1>3, <1>4, <1>5, <1>6 DEF p, n

\* A transaction stays on the list, and may have sent k first segments more.
Continues(id, k) ==
    /\ client[id].state # "NONE"
    /\ client'[id].req = client[id].req
    /\ Spent(client[id]) + k <= Spent(client'[id])
    /\ Several(client'[id])

\* No first segment goes out.
ClientQuiet ==
    /\ \A id \in InvokeIDs : client'[id].state # "NONE" => Continues(id, 0)
    /\ asked' \in {asked, asked + 1}

NoFirsts(sent) == \A m \in sent : Early(m) /\ \A r : ~IsFirst(m, r)

\* The first segment of one transaction goes out, again or for the first time.
SendsFirst(id) ==
    /\ \E x : /\ Early(x)
              /\ \A r : IsFirst(x, r) => r = client'[id].req
              /\ Send({x})
    /\ \A j \in InvokeIDs \ {id} : client'[j] = client[j]
    /\ client'[id].state # "NONE"
    /\ \/ Continues(id, 1) /\ asked' = asked
       \/ /\ client'[id].req = asked + 1 /\ asked' = asked + 1
          /\ Several(client'[id])

ClientMoves ==
    \/ ClientQuiet /\ \E sent : NoFirsts(sent) /\ Sends(sent)
    \/ \E id \in InvokeIDs : SendsFirst(id)

LEMMA NoFirstsLemma == ASSUME NEW sent, NoRequests(sent) PROVE NoFirsts(sent)
  BY DEF NoFirsts, NoRequests, IsFirst

\* What a transaction that stays on the list may have sent does not shrink.
LEMMA SpentGrows ==
    ASSUME NEW t \in ClientRecords, NEW u \in ClientRecords,
           t.req \in Requests, Several(t), u.req = t.req, u.retry = t.retry,
           u.state = "SEGMENTED_REQUEST" => t.state = "SEGMENTED_REQUEST",
           u.state = "SEGMENTED_REQUEST" /\ u.initial = 0 =>
               t.initial = 0 /\ u.segRetry = t.segRetry
    PROVE  Spent(t) <= Spent(u) /\ Several(u)
<1>1. Several(u)
  BY DEF Several
<1>2. /\ PerAttempt(t.req) \in Nat \ {0}
      /\ InThisAttempt(t) \in 1..PerAttempt(t.req)
      /\ InThisAttempt(u) \in 1..PerAttempt(t.req)
  BY <1>1, SpentLemma
<1>3. InThisAttempt(t) <= InThisAttempt(u)
  <2>1. CASE u.state = "SEGMENTED_REQUEST" /\ u.initial = 0
    BY <1>2, <2>1 DEF InThisAttempt
  <2>2. CASE ~(u.state = "SEGMENTED_REQUEST" /\ u.initial = 0)
    BY <1>2, <2>2 DEF InThisAttempt
  <2> QED BY <2>1, <2>2
<1>4. t.retry * PerAttempt(t.req) \in Nat
  <2> DEFINE p == PerAttempt(t.req)
             n == t.retry
  <2>1. n \in Nat
    BY SSMAssumption DEF ClientRecords
  <2>2. p \in Nat
    BY <1>2
  <2> HIDE DEF p, n
  <2>3. n * p \in Nat
    BY <2>1, <2>2
  <2> QED BY <2>3 DEF p, n
<1> QED BY <1>1, <1>2, <1>3, <1>4 DEF Spent

\* The transactions on the list.
LEMMA OnTheList ==
    ASSUME Shape, Numbered, NEW id \in InvokeIDs, client[id].state # "NONE"
    PROVE  /\ client[id] \in ClientRecords
           /\ client[id].req \in Requests
           /\ ReqSegs[client[id].req] \in Nat \ {0}
           /\ Several(client[id])
           /\ Spent(client[id]) \in Nat
  BY ClientFacts, SpentLemma DEF Numbered

LEMMA ListUnchanged ==
    ASSUME Shape, Numbered, client' = client, asked' \in {asked, asked + 1}
    PROVE  ClientQuiet
  BY OnTheList DEF ClientQuiet, Continues

LEMMA BecomeQuiet ==
    ASSUME Shape, Numbered, NEW id \in InvokeIDs, NEW u \in ClientRecords,
           client[id].state # "NONE", Become(id, u),
           u.req = client[id].req, u.retry = client[id].retry,
           u.state = "SEGMENTED_REQUEST" => client[id].state = "SEGMENTED_REQUEST",
           u.state = "SEGMENTED_REQUEST" /\ u.initial = 0 =>
               client[id].initial = 0 /\ u.segRetry = client[id].segRetry
    PROVE  ClientQuiet
<1>1. \A j \in InvokeIDs : client'[j] = IF j = id THEN u ELSE client[j]
  BY DEF Become, Shape, TypeOK
<1>2. Continues(id, 0)
  <2>1. Spent(client[id]) <= Spent(u) /\ Several(u) /\ Spent(client[id]) \in Nat
    BY OnTheList, SpentGrows
  <2> QED BY <1>1, <2>1 DEF Continues
<1>3. ASSUME NEW j \in InvokeIDs, j # id, client'[j].state # "NONE"
      PROVE  Continues(j, 0)
  BY <1>1, <1>3, OnTheList DEF Continues
<1> QED BY <1>2, <1>3 DEF ClientQuiet, Become

LEMMA FinishQuiet ==
    ASSUME Shape, Numbered, NEW id \in InvokeIDs, NEW kind, NEW body,
           Finish(id, kind, body)
    PROVE  ClientQuiet
<1>1. NoClient.state = "NONE"
  BY DEF NoClient
<1>2. \A j \in InvokeIDs : client'[j] = IF j = id THEN NoClient ELSE client[j]
  BY DEF Finish, Shape, TypeOK
<1>3. ASSUME NEW j \in InvokeIDs, client'[j].state # "NONE"
      PROVE  Continues(j, 0)
  BY <1>1, <1>2, <1>3, OnTheList DEF Continues
<1> QED BY <1>3 DEF ClientQuiet, Finish

\* What the handlers of the client send.
LEMMA FinishMoves ==
    ASSUME Shape, Numbered, NEW id \in InvokeIDs, NEW kind, NEW body,
           Finish(id, kind, body), NEW sent, NoRequests(sent), Sends(sent)
    PROVE  ClientMoves
  BY FinishQuiet, NoFirstsLemma DEF ClientMoves

LEMMA AbortBothMoves ==
    ASSUME Shape, Numbered, NEW m \in Messages, AbortBoth(m)
    PROVE  ClientMoves
  BY MessageLemma, NoRequestsLemma, FinishMoves DEF AbortBoth, Sends

\* A segment that is not the first, of a request with less segments than there are
\* sequence numbers.
LEMMA LaterSegment ==
    ASSUME FewSegments, NEW t, NEW id, t.req \in Requests,
           NEW i \in 1..(ReqSegs[t.req] - 1)
    PROVE  NoFirsts({RequestSegment(t, id, i)})
<1>1. /\ ReqSegs[t.req] \in Nat /\ SeqMod \in Nat /\ ReqSegs[t.req] < SeqMod
  BY SSMAssumption DEF FewSegments
<1>2. i % SeqMod = i /\ i # SeqMod - 1
  BY <1>1
<1>3. ASSUME NEW r PROVE <<t.req, i>> # <<r, 0>>
  OBVIOUS
<1> QED BY <1>2, <1>3 DEF NoFirsts, Early, IsFirst, RequestSegment, Segment

LEMMA SegmentedRequestAckMoves ==
    ASSUME Shape, Numbered, FewSegments, NEW m \in net, SegmentedRequestAck(m)
    PROVE  ClientMoves
<1> DEFINE t == [client[m.id] EXCEPT !.win = m.win]
           next == (m.seq + 1) % SeqMod
           w == WindowFrom(t, next, ReqSegs[t.req])
           begun == [t EXCEPT !.initial = next, !.segRetry = 0]
           filled == Filled(begun, next, ReqSegs[t.req])
           sent == {RequestSegment(filled, m.id, i) : i \in w}
<1>1. /\ m.type = "SegmentAck" /\ m.srv
      /\ client[m.id].state = "SEGMENTED_REQUEST"
      /\ \/ Become(m.id, Restarted(t)) /\ Receive(m, {})
         \/ Become(m.id, InState(t, "AWAIT_CONFIRMATION")) /\ Receive(m, {})
         \/ /\ Become(m.id, IF w = {} THEN filled ELSE Restarted(filled))
            /\ Receive(m, sent)
  BY DEF SegmentedRequestAck
<1>2. /\ m.id \in InvokeIDs /\ m.seq \in 0..(SeqMod - 1) /\ m.win \in 0..(SeqMod - 1)
      /\ m.seq # SeqMod - 1
  BY <1>1, MessageLemma DEF Shape, Numbered, Early
<1>3. client[m.id] \in ClientRecords /\ client[m.id].req \in Requests
      /\ ReqSegs[client[m.id].req] \in Nat \ {0}
  BY <1>1, <1>2, ClientFacts
<1>4. /\ t \in ClientRecords /\ t.req = client[m.id].req /\ t.state = "SEGMENTED_REQUEST"
      /\ t.retry = client[m.id].retry /\ t.segRetry = client[m.id].segRetry
      /\ t.initial = client[m.id].initial /\ t.win = m.win
  BY <1>1, <1>2, <1>3 DEF ClientRecords
<1>5. next \in 1..(SeqMod - 1)
  <2>1. SeqMod \in Nat
    BY SSMAssumption
  <2>2. next = m.seq + 1
    BY <1>2, <2>1
  <2> QED BY <1>2, <2>1, <2>2
<1>6. NoFirsts(sent)
  <2>1. w \subseteq 1..(ReqSegs[t.req] - 1)
    BY <1>2, <1>3, <1>4, <1>5 DEF WindowFrom
  <2>2. filled.req = t.req
    BY <1>4 DEF Filled, ClientRecords
  <2> HIDE DEF w, filled
  <2>3. ASSUME NEW i \in w
        PROVE  NoFirsts({RequestSegment(filled, m.id, i)})
    BY <1>3, <1>4, <2>1, <2>2, LaterSegment
  <2> QED BY <2>3 DEF NoFirsts
<1>7. NoFirsts({})
  BY NoRequestsLemma, NoFirstsLemma
<1> HIDE DEF t, next, w, sent
<1>8. /\ begun \in ClientRecords /\ begun.req = t.req /\ begun.state = t.state
      /\ begun.retry = t.retry /\ begun.initial # 0
  <2>1. 0 \in 0..Retries /\ next \in 0..(SeqMod - 1)
    BY <1>5, SSMAssumption
  <2>2. begun \in ClientRecords
    BY <1>4, <2>1 DEF ClientRecords
  <2>3. /\ begun.req = t.req /\ begun.state = t.state /\ begun.retry = t.retry
        /\ begun.initial = next
    BY <1>4 DEF ClientRecords
  <2> QED BY <1>5, <2>2, <2>3
<1> HIDE DEF begun
<1>9. /\ filled \in ClientRecords /\ filled.req = t.req /\ filled.state = t.state
      /\ filled.retry = t.retry /\ filled.initial # 0
  BY <1>8, ClientFilled
<1> HIDE DEF filled
<1>10. ASSUME NEW u \in ClientRecords, u.req = t.req, u.retry = t.retry,
              u.state = "SEGMENTED_REQUEST" => u.initial # 0
       PROVE  Become(m.id, u) => ClientQuiet
  BY <1>1, <1>2, <1>4, <1>10, BecomeQuiet
<1>11. /\ Restarted(filled) \in ClientRecords /\ Restarted(filled).req = t.req
       /\ Restarted(filled).retry = t.retry /\ Restarted(filled).initial # 0
  BY <1>9, ClientRestarted
<1>12. /\ Restarted(t) \in ClientRecords /\ Restarted(t).req = t.req
       /\ Restarted(t).retry = t.retry /\ Restarted(t).initial = t.initial
       /\ Restarted(t).segRetry = t.segRetry
  BY <1>4, ClientRestarted
<1>13. /\ InState(t, "AWAIT_CONFIRMATION") \in ClientRecords
       /\ InState(t, "AWAIT_CONFIRMATION").req = t.req
       /\ InState(t, "AWAIT_CONFIRMATION").state = "AWAIT_CONFIRMATION"
       /\ InState(t, "AWAIT_CONFIRMATION").retry = t.retry
  BY <1>4, ClientInState DEF ClientStates
<1>14. CASE Become(m.id, Restarted(t)) /\ Receive(m, {})
  BY <1>1, <1>2, <1>4, <1>7, <1>12, <1>14, BecomeQuiet DEF ClientMoves, Sends
<1>15. CASE Become(m.id, InState(t, "AWAIT_CONFIRMATION")) /\ Receive(m, {})
  BY <1>7, <1>10, <1>13, <1>15 DEF ClientMoves, Sends
<1>16. CASE /\ Become(m.id, filled) \/ Become(m.id, Restarted(filled))
            /\ Receive(m, sent)
  BY <1>6, <1>9, <1>10, <1>11, <1>16 DEF ClientMoves, Sends
<1> QED BY <1>1, <1>14, <1>15, <1>16

LEMMA SegmentedRequestComplexAckMoves ==
    ASSUME Shape, Numbered, NEW m \in net, SegmentedRequestComplexAck(m)
    PROVE  ClientMoves
<1> DEFINE t == client[m.id]
           least == IF m.win < ClientWindow THEN m.win ELSE ClientWindow
           u == InState(t, "SEGMENTED_CONFIRMATION")
           v == [u EXCEPT !.win = least, !.last = 0, !.initial = 0, !.buf = <<m.data>>]
<1>1. /\ m.type = "ComplexAck" /\ t.state = "SEGMENTED_REQUEST"
      /\ Become(m.id, v) /\ Receive(m, {})
  BY DEF SegmentedRequestComplexAck
<1>2. m.id \in InvokeIDs /\ m.win \in 0..(SeqMod - 1) /\ m.data \in ResponsePieces
  BY <1>1, MessageLemma DEF Shape
<1>3. least \in 0..(SeqMod - 1) /\ 0 \in 0..(SeqMod - 1) /\ <<m.data>> \in Seq(ResponsePieces)
  BY <1>2, SSMAssumption
<1>4. t \in ClientRecords
  BY <1>2, ClientFacts
<1>5. /\ u \in ClientRecords /\ u.req = t.req /\ u.retry = t.retry
      /\ u.state = "SEGMENTED_CONFIRMATION"
  BY <1>4, ClientInState DEF ClientStates
<1> HIDE DEF u, least
<1>6. /\ v \in ClientRecords /\ v.req = t.req /\ v.retry = t.retry
      /\ v.state = "SEGMENTED_CONFIRMATION"
  BY <1>3, <1>5 DEF ClientRecords
<1> HIDE DEF v
<1>7. ClientQuiet
  BY <1>1, <1>2, <1>6, BecomeQuiet
<1> QED BY <1>1, <1>7, NoRequestsLemma, NoFirstsLemma DEF ClientMoves, Sends

LEMMA AwaitConfirmationComplexAckMoves ==
    ASSUME Shape, Numbered, NEW m \in net, AwaitConfirmationComplexAck(m)
    PROVE  ClientMoves
<1> DEFINE t == client[m.id]
           u == InState(t, "SEGMENTED_CONFIRMATION")
           v == [u EXCEPT !.win = m.win, !.last = 0, !.initial = 0, !.buf = <<m.data>>]
           ack == SegmentAck(FALSE, m.id, FALSE, 0, m.win)
<1>1. /\ m.type = "ComplexAck" /\ t.state = "AWAIT_CONFIRMATION"
      /\ \/ Finish(m.id, "Abort", <<>>) /\ Receive(m, {})
         \/ Become(m.id, v) /\ Receive(m, {ack})
         \/ AbortBoth(m)
  BY DEF AwaitConfirmationComplexAck
<1>2. /\ m \in Messages /\ m.id \in InvokeIDs
      /\ m.win \in 0..(SeqMod - 1) /\ m.data \in ResponsePieces
  BY <1>1, MessageLemma DEF Shape
<1>3. 0 \in 0..(SeqMod - 1) /\ <<m.data>> \in Seq(ResponsePieces)
  BY <1>2, SSMAssumption
<1>4. t \in ClientRecords
  BY <1>2, ClientFacts
<1>5. /\ u \in ClientRecords /\ u.req = t.req /\ u.retry = t.retry
      /\ u.state = "SEGMENTED_CONFIRMATION"
  BY <1>4, ClientInState DEF ClientStates
<1> HIDE DEF u
<1>6. /\ v \in ClientRecords /\ v.req = t.req /\ v.retry = t.retry
      /\ v.state = "SEGMENTED_CONFIRMATION"
  BY <1>2, <1>3, <1>5 DEF ClientRecords
<1>7. NoRequests({ack}) /\ NoRequests({})
  BY NoRequestsLemma
<1> HIDE DEF v, ack
<1>8. CASE Finish(m.id, "Abort", <<>>) /\ Receive(m, {})
  BY <1>2, <1>7, <1>8, FinishMoves DEF Sends
<1>9. CASE Become(m.id, v) /\ Receive(m, {ack})
  <2>1. ClientQuiet
    BY <1>1, <1>2, <1>6, <1>9, BecomeQuiet
  <2> QED BY <1>7, <1>9, <2>1, NoFirstsLemma DEF ClientMoves, Sends
<1> QED BY <1>1, <1>2, <1>8, <1>9, AbortBothMoves

LEMMA AwaitConfirmationSegmentAckMoves ==
    ASSUME Shape, Numbered, NEW m \in net, AwaitConfirmationSegmentAck(m)
    PROVE  ClientMoves
<1> DEFINE t == client[m.id]
<1>1. /\ t.state = "AWAIT_CONFIRMATION" /\ Become(m.id, Restarted(t)) /\ Receive(m, {})
  BY DEF AwaitConfirmationSegmentAck
<1>2. m.id \in InvokeIDs /\ t \in ClientRecords
  BY MessageLemma, ClientFacts DEF Shape
<1>3. /\ Restarted(t) \in ClientRecords /\ Restarted(t).req = t.req
      /\ Restarted(t).retry = t.retry /\ Restarted(t).state = t.state
  BY <1>2, ClientRestarted
<1>4. ClientQuiet
  BY <1>1, <1>2, <1>3, BecomeQuiet
<1> QED BY <1>1, <1>4, NoRequestsLemma, NoFirstsLemma DEF ClientMoves, Sends

LEMMA SegmentedConfirmationSegmentMoves ==
    ASSUME Shape, Numbered, NEW m \in net, SegmentedConfirmationSegment(m)
    PROVE  ClientMoves
<1> DEFINE t == client[m.id]
           added == [t EXCEPT !.buf = Append(@, m.data), !.last = m.seq]
           closed == [added EXCEPT !.initial = m.seq]
           nak == SegmentAck(FALSE, m.id, TRUE, t.last, t.win)
           ack == SegmentAck(FALSE, m.id, FALSE, m.seq, t.win)
<1>1. /\ m.type = "ComplexAck" /\ t.state = "SEGMENTED_CONFIRMATION"
      /\ \/ Become(m.id, Restarted(t)) /\ Receive(m, {nak})
         \/ Finish(m.id, "ComplexAck", added.buf) /\ Receive(m, {ack})
         \/ Become(m.id, Restarted(closed)) /\ Receive(m, {ack})
         \/ Become(m.id, Restarted(added)) /\ Receive(m, {})
  BY DEF SegmentedConfirmationSegment
<1>2. m.id \in InvokeIDs /\ m.seq \in 0..(SeqMod - 1) /\ m.data \in ResponsePieces
  BY <1>1, MessageLemma DEF Shape
<1>3. t \in ClientRecords /\ t = client[m.id]
  BY <1>1, <1>2, ClientFacts
<1>4. t.buf \in Seq(ResponsePieces)
  BY <1>3 DEF ClientRecords
<1>5. Append(t.buf, m.data) \in Seq(ResponsePieces)
  BY <1>2, <1>4
<1>6. /\ added \in ClientRecords /\ added.req = t.req /\ added.retry = t.retry
      /\ added.state = t.state
  BY <1>2, <1>3, <1>5 DEF ClientRecords
<1> DEFINE body == added.buf
<1> HIDE DEF added, body
<1>7. /\ closed \in ClientRecords /\ closed.req = t.req /\ closed.retry = t.retry
      /\ closed.state = t.state
  BY <1>2, <1>6 DEF ClientRecords
<1>8. NoRequests({nak}) /\ NoRequests({ack}) /\ NoRequests({})
  BY NoRequestsLemma
<1> HIDE DEF t, closed, nak, ack
<1>9. ASSUME NEW u \in ClientRecords, u.req = t.req, u.retry = t.retry, u.state = t.state,
             Become(m.id, Restarted(u)), NEW sent, NoRequests(sent), Receive(m, sent)
      PROVE  ClientMoves
  <2>1. /\ Restarted(u) \in ClientRecords /\ Restarted(u).req = t.req
        /\ Restarted(u).retry = t.retry /\ Restarted(u).state = t.state
    BY <1>9, ClientRestarted
  <2>2. ClientQuiet
    BY <1>1, <1>2, <1>3, <1>9, <2>1, BecomeQuiet
  <2> QED BY <1>9, <2>2, NoFirstsLemma DEF ClientMoves, Sends
<1>10. CASE Finish(m.id, "ComplexAck", added.buf) /\ Receive(m, {ack})
  BY <1>2, <1>8, <1>10, FinishMoves DEF Sends
<1> QED BY <1>1, <1>3, <1>6, <1>7, <1>8, <1>9, <1>10

LEMMA ClientAnswerMoves ==
    ASSUME Shape, Numbered, NEW m \in net, ClientAnswer(m)
    PROVE  ClientMoves
<1> DEFINE body == IF m.type = "Abort" THEN <<>> ELSE <<m.data>>
<1>1. Finish(m.id, m.type, body) /\ Receive(m, {})
  BY DEF ClientAnswer
<1> HIDE DEF body
<1> QED BY <1>1, MessageLemma, NoRequestsLemma, FinishMoves DEF Shape, Sends

LEMMA ClientUnmatchedMoves ==
    ASSUME Shape, Numbered, NEW m \in net, ClientUnmatched(m)
    PROVE  ClientMoves
<1>1. ClientQuiet /\ Receive(m, {})
  BY ListUnchanged DEF ClientUnmatched, clientVars
<1> QED BY <1>1, NoRequestsLemma, NoFirstsLemma DEF ClientMoves, Sends

LEMMA ClientTimerExpiredMoves ==
    ASSUME Shape, Numbered, NEW id \in InvokeIDs, ClientTimerExpired(id)
    PROVE  ClientMoves
<1> DEFINE t == client[id]
<1>1. Become(id, Expired(t)) /\ UNCHANGED netVars
  BY DEF ClientTimerExpired
<1>2. t \in ClientRecords
  BY ClientFacts
<1>3. /\ Expired(t) \in ClientRecords /\ Expired(t).req = t.req
      /\ Expired(t).retry = t.retry /\ Expired(t).state = t.state
      /\ Expired(t).initial = t.initial /\ Expired(t).segRetry = t.segRetry
  BY <1>2, ClientExpired
<1>4. ClientQuiet
  <2>1. CASE t.state = "NONE"
    <3>1. \A j \in InvokeIDs : client'[j] = IF j = id THEN Expired(t) ELSE client[j]
      BY <1>1 DEF Become, Shape, TypeOK
    <3>2. ASSUME NEW j \in InvokeIDs, client'[j].state # "NONE"
          PROVE  Continues(j, 0)
      BY <1>3, <2>1, <3>1, <3>2, OnTheList DEF Continues
    <3> QED BY <1>1, <3>2 DEF ClientQuiet, Become
  <2>2. CASE t.state # "NONE"
    BY <1>1, <1>3, <2>2, BecomeQuiet
  <2> QED BY <2>1, <2>2
<1> QED BY <1>1, <1>4, NoRequestsLemma, NoFirstsLemma DEF ClientMoves, Sends

\* The first segment of a request.
LEMMA FirstSegment ==
    ASSUME FewSegments, NEW t, NEW id, t.req \in Requests
    PROVE  /\ Early(RequestSegment(t, id, 0))
           /\ \A r : IsFirst(RequestSegment(t, id, 0), r) => r = t.req
<1>1. /\ ReqSegs[t.req] \in Nat \ {0} /\ SeqMod \in Nat /\ ReqSegs[t.req] < SeqMod
  BY SSMAssumption DEF FewSegments
<1>2. 0 % SeqMod = 0 /\ SeqMod - 1 # 0
  BY <1>1
<1> QED BY <1>2 DEF Early, IsFirst, RequestSegment, Segment

LEMMA SegmentedRequestTimeoutMoves ==
    ASSUME Shape, Numbered, FewSegments, NEW id \in InvokeIDs, SegmentedRequestTimeout(id)
    PROVE  ClientMoves
<1> DEFINE t == [client[id] EXCEPT !.late = FALSE]
           count == [t EXCEPT !.segRetry = @ + 1]
           again == Restarted(count)
           filled == Filled(again, t.initial, ReqSegs[t.req])
           w == WindowFrom(t, t.initial, ReqSegs[t.req])
           sent == {RequestSegment(t, id, i) : i \in w}
<1>1. /\ client[id].state = "SEGMENTED_REQUEST"
      /\ \/ /\ MayRetry(t.segRetry) /\ t.initial = 0
            /\ Become(id, again)
            /\ Send({RequestSegment(t, id, 0)})
         \/ /\ MayRetry(t.segRetry) /\ t.initial # 0
            /\ Become(id, filled)
            /\ Send(sent)
         \/ Finish(id, "Abort", <<>>) /\ UNCHANGED netVars
  BY DEF SegmentedRequestTimeout
<1>2. /\ client[id] \in ClientRecords /\ client[id].req \in Requests
      /\ ReqSegs[client[id].req] \in Nat \ {0}
      /\ Several(client[id]) /\ Spent(client[id]) \in Nat
  BY <1>1, OnTheList
<1>3. t \in ClientRecords
  BY <1>2 DEF ClientRecords
<1>4. /\ t.req = client[id].req /\ t.state = "SEGMENTED_REQUEST"
      /\ t.retry = client[id].retry /\ t.segRetry = client[id].segRetry
      /\ t.initial = client[id].initial
      /\ t.segRetry \in 0..Retries /\ t.initial \in 0..(SeqMod - 1)
      /\ t.win \in 0..(SeqMod - 1)
  BY <1>1, <1>2 DEF ClientRecords
<1>5. t.initial # 0 => NoFirsts(sent)
  <2>1. t.initial # 0 => w \subseteq 1..(ReqSegs[t.req] - 1)
    BY <1>2, <1>4 DEF WindowFrom
  <2> HIDE DEF w, t
  <2>2. ASSUME t.initial # 0, NEW i \in w
        PROVE  NoFirsts({RequestSegment(t, id, i)})
    BY <1>2, <1>4, <2>1, <2>2, LaterSegment
  <2> QED BY <2>2 DEF NoFirsts
<1> HIDE DEF t, w, sent
<1>6. ASSUME MayRetry(t.segRetry)
      PROVE  /\ again \in ClientRecords /\ again.req = t.req
             /\ again.state = "SEGMENTED_REQUEST" /\ again.retry = t.retry
             /\ again.initial = t.initial /\ again.segRetry = t.segRetry + 1
  <2>1. t.segRetry + 1 \in 0..Retries
    BY <1>4, <1>6, SSMAssumption DEF MayRetry
  <2>2. count \in ClientRecords
    BY <1>3, <2>1 DEF ClientRecords
  <2>3. /\ count.req = t.req /\ count.state = "SEGMENTED_REQUEST"
        /\ count.retry = t.retry /\ count.initial = t.initial
        /\ count.segRetry = t.segRetry + 1
    BY <1>3, <1>4 DEF ClientRecords
  <2> HIDE DEF count
  <2> QED BY <2>2, <2>3, ClientRestarted
<1> HIDE DEF again
<1>7. CASE /\ MayRetry(t.segRetry) /\ t.initial = 0
           /\ Become(id, again) /\ Send({RequestSegment(t, id, 0)})
  <2>1. \A j \in InvokeIDs : client'[j] = IF j = id THEN again ELSE client[j]
    BY <1>7 DEF Become, Shape, TypeOK
  <2>2. Several(again)
    BY <1>1, <1>2, <1>4, <1>6, <1>7 DEF Several
  <2>3. Spent(again) \in Nat
    BY <1>2, <1>4, <1>6, <1>7, <2>2, SpentLemma
  <2>4. Spent(client[id]) + 1 <= Spent(again)
    <3> DEFINE k == client[id].retry * PerAttempt(client[id].req)
    <3>1. Spent(client[id]) = k + (1 + t.segRetry)
      BY <1>1, <1>4, <1>7 DEF Spent, InThisAttempt
    <3>2. Spent(again) = k + (1 + (t.segRetry + 1))
      BY <1>4, <1>6, <1>7 DEF Spent, InThisAttempt
    <3>3. k \in Int
      <4>1. PerAttempt(client[id].req) \in Nat /\ client[id].retry \in Nat
        BY <1>2, SpentLemma, SSMAssumption DEF ClientRecords
      <4> QED BY <4>1
    <3> HIDE DEF k
    <3> QED BY <1>4, <3>1, <3>2, <3>3
  <2>5. Continues(id, 1)
    BY <1>1, <1>4, <1>6, <1>7, <2>1, <2>2, <2>4 DEF Continues
  <2>6. SendsFirst(id)
    <3>1. Early(RequestSegment(t, id, 0))
      BY <1>2, <1>4, FirstSegment
    <3>2. \A r : IsFirst(RequestSegment(t, id, 0), r) => r = client'[id].req
      BY <1>2, <1>4, <1>6, <1>7, <2>1, FirstSegment
    <3>3. client'[id].state # "NONE" /\ asked' = asked
      BY <1>6, <1>7, <2>1 DEF Become
    <3> QED BY <1>7, <2>1, <2>5, <3>1, <3>2, <3>3 DEF SendsFirst
  <2> QED BY <2>6 DEF ClientMoves
<1>8. CASE /\ MayRetry(t.segRetry) /\ t.initial # 0
           /\ Become(id, filled) /\ Send(sent)
  <2>1. /\ filled \in ClientRecords /\ filled.req = t.req /\ filled.retry = t.retry
        /\ filled.initial # 0
    BY <1>6, <1>8, ClientFilled
  <2> HIDE DEF filled
  <2>2. ClientQuiet
    BY <1>1, <1>4, <1>8, <2>1, BecomeQuiet
  <2> QED BY <1>5, <1>8, <2>2 DEF ClientMoves, Sends
<1>9. CASE Finish(id, "Abort", <<>>) /\ UNCHANGED netVars
  BY <1>9, NoRequestsLemma, FinishMoves DEF Sends
<1> QED BY <1>1, <1>7, <1>8, <1>9

\* A transaction as indication leaves it is in its first attempt.
LEMMA StartedSeveral ==
    ASSUME NEW r \in Requests
    PROVE  Several(Started(r))
<1>1. CASE ReqSegs[r] = 1
  BY <1>1 DEF Started, Several, InState, NoClient
<1>2. CASE ReqSegs[r] # 1
  BY <1>2 DEF Started, Several, InState, NoClient
<1> QED BY <1>1, <1>2

LEMMA AwaitConfirmationTimeoutMoves ==
    ASSUME Shape, Numbered, FewSegments, NEW id \in InvokeIDs, AwaitConfirmationTimeout(id)
    PROVE  ClientMoves
<1> DEFINE t == client[id]
           u == Started(t.req)
           again == [u EXCEPT !.retry = t.retry + 1]
<1>1. /\ t.state = "AWAIT_CONFIRMATION"
      /\ \/ /\ MayRetry(t.retry)
            /\ Become(id, again)
            /\ Send({RequestSegment(again, id, 0)})
         \/ /\ Finish(id, "Abort", <<>>) \/ Finish(id, "Error", <<>>)
            /\ UNCHANGED netVars
  BY DEF AwaitConfirmationTimeout
<1>2. /\ t \in ClientRecords /\ t.req \in Requests /\ Several(t) /\ Spent(t) \in Nat
      /\ t = client[id]
  BY <1>1, OnTheList
<1>3. u \in ClientRecords /\ u.req = t.req /\ u.state # "NONE" /\ Several(u)
  BY <1>2, StartedLemma, StartedSeveral
<1>4. t.retry \in 0..Retries
  BY <1>2 DEF ClientRecords
<1> HIDE DEF u, t
<1>5. CASE /\ MayRetry(t.retry)
           /\ Become(id, again)
           /\ Send({RequestSegment(again, id, 0)})
  <2>1. t.retry + 1 \in 0..Retries
    BY <1>4, <1>5, SSMAssumption DEF MayRetry
  <2>2. again \in ClientRecords
    BY <1>3, <2>1 DEF ClientRecords
  <2>3. /\ again.req = t.req /\ again.state = u.state /\ again.state # "NONE"
        /\ again.retry = t.retry + 1
    BY <1>3 DEF ClientRecords
  <2> HIDE DEF again
  <2>4. Several(again)
    BY <1>3, <2>3 DEF Several
  <2>5. \A j \in InvokeIDs : client'[j] = IF j = id THEN again ELSE client[j]
    BY <1>5 DEF Become, Shape, TypeOK
  <2>6. Spent(t) + 1 <= Spent(again)
    <3> DEFINE p == PerAttempt(t.req)
    <3>1. Spent(t) = t.retry * p + p
      BY <1>1, <1>2 DEF Spent, InThisAttempt
    <3>2. Spent(again) = (t.retry + 1) * p + InThisAttempt(again)
      BY <2>3 DEF Spent
    <3>3. p \in Nat /\ InThisAttempt(again) \in 1..p
      BY <1>2, <2>2, <2>3, <2>4, SpentLemma
    <3> HIDE DEF p
    <3>4. (t.retry + 1) * p = t.retry * p + p /\ t.retry * p \in Int
      BY <1>4, <3>3
    <3> QED BY <3>1, <3>2, <3>3, <3>4
  <2>7. Continues(id, 1)
    BY <1>1, <1>2, <2>3, <2>4, <2>5, <2>6 DEF Continues
  <2>8. SendsFirst(id)
    <3>1. /\ Early(RequestSegment(again, id, 0))
          /\ \A r : IsFirst(RequestSegment(again, id, 0), r) => r = again.req
      BY <1>2, <2>3, FirstSegment
    <3>2. client'[id] = again /\ asked' = asked
      BY <1>5, <2>5 DEF Become
    <3> QED BY <1>5, <2>3, <2>5, <2>7, <3>1, <3>2 DEF SendsFirst
  <2> QED BY <2>8 DEF ClientMoves
<1>6. ASSUME NEW kind \in {"Abort", "Error"}, Finish(id, kind, <<>>), UNCHANGED netVars
      PROVE  ClientMoves
  BY <1>6, NoRequestsLemma, FinishMoves DEF Sends
<1> QED BY <1>1, <1>5, <1>6

LEMMA ClientRequestMoves ==
    ASSUME Shape, Numbered, FewSegments, NEW id \in InvokeIDs, ClientRequest(id)
    PROVE  ClientMoves
<1> DEFINE r == asked + 1
           t == Started(r)
<1>1. /\ r \in Requests /\ asked' = r
      /\ client[id].state = "NONE"
      /\ \/ /\ client' = [client EXCEPT ![id] = t]
            /\ Send({RequestSegment(t, id, 0)})
         \/ client' = client /\ UNCHANGED netVars
  BY DEF ClientRequest, IsNextFree
<1>2. t.req = r /\ t.state # "NONE" /\ Several(t)
  BY <1>1, StartedLemma, StartedSeveral
<1> HIDE DEF t
<1>3. CASE client' = [client EXCEPT ![id] = t] /\ Send({RequestSegment(t, id, 0)})
  <2>1. \A j \in InvokeIDs : client'[j] = IF j = id THEN t ELSE client[j]
    BY <1>3 DEF Shape, TypeOK
  <2>2. /\ Early(RequestSegment(t, id, 0))
        /\ \A q : IsFirst(RequestSegment(t, id, 0), q) => q = t.req
    BY <1>1, <1>2, FirstSegment
  <2>3. SendsFirst(id)
    BY <1>1, <1>2, <1>3, <2>1, <2>2 DEF SendsFirst
  <2> QED BY <2>3 DEF ClientMoves
<1>4. CASE client' = client /\ UNCHANGED netVars
  <2>1. ClientQuiet
    BY <1>1, <1>4, ListUnchanged
  <2> QED BY <1>4, <2>1, NoRequestsLemma, NoFirstsLemma DEF ClientMoves, Sends
<1> QED BY <1>1, <1>3, <1>4

LEMMA ClientStepMoves ==
    ASSUME Shape, Numbered, FewSegments, ClientStep
    PROVE  ClientMoves
<1>1. ASSUME NEW m \in net, ClientReceive(m)
      PROVE  ClientMoves
  <2>1. m \in Messages
    BY DEF Shape
  <2>2. SegmentedRequestEarlyAck(m) \/ SegmentedConfirmationOther(m) => AbortBoth(m)
    BY DEF SegmentedRequestEarlyAck, SegmentedConfirmationOther
  <2> QED BY <1>1, <2>1, <2>2, ClientUnmatchedMoves, SegmentedRequestAckMoves,
             SegmentedRequestComplexAckMoves, AwaitConfirmationComplexAckMoves,
             AwaitConfirmationSegmentAckMoves, ClientAnswerMoves,
             SegmentedConfirmationSegmentMoves, AbortBothMoves DEF ClientReceive
<1>2. ASSUME NEW id \in InvokeIDs,
             ClientRequest(id) \/ ClientTimerExpired(id) \/ ClientTimeout(id)
      PROVE  ClientMoves
  <2>1. SegmentedConfirmationTimeout(id) => ClientMoves
    BY NoRequestsLemma, FinishMoves DEF SegmentedConfirmationTimeout, Sends
  <2> QED BY <1>2, <2>1, ClientRequestMoves, ClientTimerExpiredMoves,
             SegmentedRequestTimeoutMoves, AwaitConfirmationTimeoutMoves DEF ClientTimeout
<1> QED BY <1>1, <1>2 DEF ClientStep

-----------------------------------------------------------------------------
(* The bound is kept by a step of the server, and by one of the client.    *)

LEMMA ServerCountsKeep ==
    ASSUME Shape, Shape', Numbered, Counted, ServerCounts, UNCHANGED clientVars
    PROVE  Numbered' /\ Counted'
<1>1. client' = client /\ asked' = asked /\ dups \in Nat /\ dups' \in Nat
  BY SSMAssumption DEF clientVars, Shape, TypeOK
<1>2. Numbered'
  BY <1>1 DEF Numbered, ServerCounts, Several, Begun
<1>3. ASSUME NEW r \in Requests
      PROVE  /\ FirstsFinite(r)'
             /\ r > asked' => Count(r)' <= dups'
             /\ Count(r)' <= Transmissions(r) + dups'
             /\ \A id \in InvokeIDs : client'[id].state # "NONE" /\ client'[id].req = r =>
                    Count(r)' <= Spent(client'[id]) + dups'
  <2>1. FirstsFinite(r) /\ FirstsFinite(r)' /\ Count(r)' + dups <= Count(r) + dups'
    BY DEF Counted, ServerCounts
  <2>2. Count(r) \in Nat /\ Count(r)' \in Nat
    BY <2>1, CountIs, FS_CardinalityType DEF FirstsFinite, Count
  <2>3. r > asked' => Count(r)' <= dups'
    BY <1>1, <2>1, <2>2 DEF Counted
  <2>4. Transmissions(r) \in Nat
    BY SSMAssumption DEF Transmissions
  <2>5. Count(r)' <= Transmissions(r) + dups'
    BY <1>1, <2>1, <2>2, <2>4 DEF Counted
  <2>6. ASSUME NEW id \in InvokeIDs, client'[id].state # "NONE", client'[id].req = r
        PROVE  Count(r)' <= Spent(client'[id]) + dups'
    <3>1. Spent(client[id]) \in Nat /\ Count(r) <= Spent(client[id]) + dups
      BY <1>1, <2>6, OnTheList DEF Counted
    <3> QED BY <1>1, <2>1, <2>2, <3>1
  <2> QED BY <2>1, <2>3, <2>5, <2>6
<1> QED BY <1>2, <1>3 DEF Counted, Transmissions, Spent, InThisAttempt, PerAttempt

\* Where first segments are, in a step of the client: on the network, and no more of
\* them than before and the one that is sent.
LEMMA ClientFirsts ==
    ASSUME Shape, UNCHANGED serverVars, NEW r, FirstsFinite(r)
    PROVE  /\ NetFirsts(r)' \subseteq NetFirsts(r) =>
                  FirstsFinite(r)' /\ Count(r)' \in Nat /\ Count(r)' <= Count(r)
           /\ \A x : NetFirsts(r)' \subseteq NetFirsts(r) \cup {x} =>
                  FirstsFinite(r)' /\ Count(r)' \in Nat /\ Count(r)' <= Count(r) + 1
<1>1. /\ ServerFirsts(r)' = ServerFirsts(r)
      /\ ExecFirsts(r)' = ExecFirsts(r)
  BY DEF ServerFirsts, ExecFirsts, serverVars
<1>2. /\ Cardinality(NetFirsts(r)) \in Nat
      /\ Cardinality(ServerFirsts(r)) \in Nat
      /\ Cardinality(ExecFirsts(r)) \in Nat
  BY CountIs
<1>3. ASSUME NetFirsts(r)' \subseteq NetFirsts(r)
      PROVE  FirstsFinite(r)' /\ Count(r)' \in Nat /\ Count(r)' <= Count(r)
  <2>1. /\ IsFiniteSet(NetFirsts(r)') /\ Cardinality(NetFirsts(r)') \in Nat
        /\ Cardinality(NetFirsts(r)') <= Cardinality(NetFirsts(r))
    BY <1>3, Smaller DEF FirstsFinite
  <2> QED BY <1>1, <1>2, <2>1 DEF FirstsFinite, Count
<1>4. ASSUME NEW x, NetFirsts(r)' \subseteq NetFirsts(r) \cup {x}
      PROVE  FirstsFinite(r)' /\ Count(r)' \in Nat /\ Count(r)' <= Count(r) + 1
  <2>1. /\ IsFiniteSet(NetFirsts(r)') /\ Cardinality(NetFirsts(r)') \in Nat
        /\ Cardinality(NetFirsts(r)') <= Cardinality(NetFirsts(r)) + 1
    BY <1>4, OneMore DEF FirstsFinite
  <2> QED BY <1>1, <1>2, <2>1 DEF FirstsFinite, Count
<1> QED BY <1>3, <1>4

LEMMA ClientQuietKeeps ==
    ASSUME Shape, Shape', Numbered, Counted, UNCHANGED serverVars, ClientQuiet,
           NEW sent, NoFirsts(sent), Sends(sent)
    PROVE  Numbered' /\ Counted'
<1>1. net' \subseteq net \cup sent /\ dups \in Nat /\ dups' \in Nat /\ dups <= dups'
  BY SendsLemma
<1>2. server' = server
  BY DEF serverVars
<1>3. Numbered'
  <2>1. \A m \in net' : Early(m)
    BY <1>1 DEF Numbered, NoFirsts
  <2>2. \A id \in InvokeIDs : Several(client'[id])
    BY DEF ClientQuiet, Continues, Several
  <2> QED BY <1>2, <2>1, <2>2 DEF Numbered, Several, Begun, Early
<1>4. ASSUME NEW r \in Requests
      PROVE  /\ FirstsFinite(r)'
             /\ r > asked' => Count(r)' <= dups'
             /\ Count(r)' <= Transmissions(r) + dups'
             /\ \A id \in InvokeIDs : client'[id].state # "NONE" /\ client'[id].req = r =>
                    Count(r)' <= Spent(client'[id]) + dups'
  <2>1. FirstsFinite(r) /\ Count(r) \in Nat
    BY CountIs DEF Counted
  <2>2. NetFirsts(r)' \subseteq NetFirsts(r)
    BY <1>1 DEF NetFirsts, NoFirsts
  <2>3. FirstsFinite(r)' /\ Count(r)' \in Nat /\ Count(r)' <= Count(r)
    BY <2>1, <2>2, ClientFirsts
  <2>4. r > asked' => Count(r)' <= dups'
    <3>1. asked \in Nat /\ asked' \in Nat /\ r \in Nat
      BY DEF Shape, TypeOK, Requests
    <3>2. asked <= asked'
      BY <3>1 DEF ClientQuiet
    <3> QED BY <1>1, <2>1, <2>3, <3>1, <3>2 DEF Counted
  <2>5. Transmissions(r) \in Nat
    BY SSMAssumption DEF Transmissions
  <2>6. Count(r)' <= Transmissions(r) + dups'
    BY <1>1, <2>1, <2>3, <2>5 DEF Counted
  <2>7. ASSUME NEW id \in InvokeIDs, client'[id].state # "NONE", client'[id].req = r
        PROVE  Count(r)' <= Spent(client'[id]) + dups'
    <3>1. /\ client[id].state # "NONE" /\ client[id].req = r
          /\ Spent(client[id]) + 0 <= Spent(client'[id]) /\ Several(client'[id])
      BY <2>7 DEF ClientQuiet, Continues
    <3>2. Spent(client[id]) \in Nat /\ Count(r) <= Spent(client[id]) + dups
      BY <3>1, OnTheList DEF Counted
    <3>3. Spent(client'[id]) \in Nat
      BY <2>7, <3>1, SpentLemma DEF Shape, TypeOK
    <3> QED BY <1>1, <2>1, <2>3, <3>1, <3>2, <3>3
  <2> QED BY <2>3, <2>4, <2>6, <2>7
<1> QED BY <1>3, <1>4 DEF Counted, Transmissions, Spent, InThisAttempt, PerAttempt

LEMMA SendsFirstKeeps ==
    ASSUME Shape, Shape', Outstanding, Numbered, Counted, UNCHANGED serverVars,
           NEW id \in InvokeIDs, SendsFirst(id)
    PROVE  Numbered' /\ Counted'
<1> DEFINE q == client'[id].req
<1>1. PICK x : Early(x) /\ (\A r : IsFirst(x, r) => r = q) /\ Send({x})
  BY DEF SendsFirst
<1>2. net' = net \cup {x} /\ dups' = dups /\ dups \in Nat
  BY <1>1, SSMAssumption DEF Send, Shape, TypeOK
<1>3. server' = server
  BY DEF serverVars
<1>4. /\ client'[id].state # "NONE" /\ client'[id] \in ClientRecords
      /\ q \in Requests /\ Several(client'[id])
      /\ \A j \in InvokeIDs \ {id} : client'[j] = client[j]
      /\ \/ Continues(id, 1) /\ asked' = asked
         \/ q = asked + 1 /\ asked' = asked + 1
  BY DEF SendsFirst, Continues, Shape, TypeOK, HasContent
<1>5. Spent(client'[id]) \in Nat \ {0} /\ Spent(client'[id]) <= Transmissions(q)
  BY <1>4, SpentLemma
<1>6. \A r \in Requests : Transmissions(r) \in Nat
  BY SSMAssumption DEF Transmissions
<1>7. asked \in Nat /\ Requests \subseteq Nat
  BY DEF Shape, TypeOK, Requests
<1>8. Numbered'
  <2>1. \A m \in net' : Early(m)
    BY <1>1, <1>2 DEF Numbered
  <2>2. \A j \in InvokeIDs : Several(client'[j])
    BY <1>4 DEF Numbered
  <2> QED BY <1>3, <2>1, <2>2 DEF Numbered, Several, Begun, Early
<1>9. Count(q) \in Nat /\ Count(q) + 1 <= Spent(client'[id]) + dups
  <2>1. Count(q) \in Nat
    BY <1>4, CountIs DEF Counted
  <2>2. CASE Continues(id, 1)
    <3>1. /\ client[id].state # "NONE" /\ client[id].req = q
          /\ Spent(client[id]) + 1 <= Spent(client'[id])
      BY <2>2 DEF Continues
    <3>2. Spent(client[id]) \in Nat /\ Count(q) <= Spent(client[id]) + dups
      BY <1>4, <3>1, OnTheList DEF Counted
    <3> QED BY <1>2, <1>5, <2>1, <3>1, <3>2
  <2>3. CASE q = asked + 1
    <3>1. Count(q) <= dups
      BY <1>4, <1>7, <2>3 DEF Counted
    <3> QED BY <1>2, <1>5, <2>1, <3>1
  <2> QED BY <1>4, <2>1, <2>2, <2>3
<1>10. q <= asked'
  <2>1. CASE Continues(id, 1) /\ asked' = asked
    BY <2>1 DEF Continues, Outstanding
  <2>2. CASE q = asked + 1 /\ asked' = asked + 1
    BY <1>7, <2>2
  <2> QED BY <1>4, <2>1, <2>2
<1>11. ASSUME NEW j \in InvokeIDs, j # id, client'[j].state # "NONE"
       PROVE  client[j] = client'[j] /\ client'[j].req # q
  <2>1. client[j] = client'[j] /\ client[j].state # "NONE" /\ client[j].req <= asked
    BY <1>4, <1>11 DEF Outstanding
  <2>2. client[j].req \in Nat
    BY <1>7, <2>1, OnTheList
  <2>3. CASE Continues(id, 1)
    BY <1>11, <2>1, <2>3 DEF Continues, Outstanding
  <2>4. CASE q = asked + 1
    BY <1>7, <2>1, <2>2, <2>4
  <2> QED BY <1>4, <2>1, <2>3, <2>4
<1>12. ASSUME NEW r \in Requests
       PROVE  /\ FirstsFinite(r)'
              /\ r > asked' => Count(r)' <= dups'
              /\ Count(r)' <= Transmissions(r) + dups'
              /\ \A j \in InvokeIDs : client'[j].state # "NONE" /\ client'[j].req = r =>
                     Count(r)' <= Spent(client'[j]) + dups'
  <2>1. FirstsFinite(r) /\ Count(r) \in Nat
    BY CountIs DEF Counted
  <2>2. CASE r = q
    <3>1. NetFirsts(r)' \subseteq NetFirsts(r) \cup {x}
      BY <1>2 DEF NetFirsts
    <3>2. FirstsFinite(r)' /\ Count(r)' \in Nat /\ Count(r)' <= Count(r) + 1
      BY <2>1, <3>1, ClientFirsts
    <3>3. Count(r)' <= Spent(client'[id]) + dups'
      BY <1>2, <1>5, <1>9, <2>2, <3>2
    <3>4. Count(r)' <= Transmissions(r) + dups'
      BY <1>2, <1>5, <1>6, <2>2, <3>2, <3>3
    <3> HIDE DEF q
    <3>5. ~(r > asked')
      BY <1>4, <1>7, <1>10, <2>2
    <3> QED BY <1>11, <2>2, <3>2, <3>3, <3>4, <3>5
  <2>3. CASE r # q
    <3>1. NetFirsts(r)' \subseteq NetFirsts(r)
      BY <1>1, <1>2, <2>3 DEF NetFirsts
    <3>2. FirstsFinite(r)' /\ Count(r)' \in Nat /\ Count(r)' <= Count(r)
      BY <2>1, <3>1, ClientFirsts
    <3>3. r > asked' => Count(r)' <= dups'
      BY <1>2, <1>4, <1>7, <2>1, <3>2 DEF Counted
    <3>4. Count(r)' <= Transmissions(r) + dups'
      BY <1>2, <1>6, <2>1, <3>2 DEF Counted
    <3>5. ASSUME NEW j \in InvokeIDs, client'[j].state # "NONE", client'[j].req = r
          PROVE  Count(r)' <= Spent(client'[j]) + dups'
      <4>1. client[j] = client'[j]
        BY <1>4, <2>3, <3>5
      <4>2. Spent(client[j]) \in Nat /\ Count(r) <= Spent(client[j]) + dups
        BY <3>5, <4>1, OnTheList DEF Counted
      <4> QED BY <1>2, <2>1, <3>2, <4>1, <4>2
    <3> QED BY <3>2, <3>3, <3>4, <3>5
  <2> QED BY <2>2, <2>3
<1> QED BY <1>8, <1>12 DEF Counted, Transmissions, Spent, InThisAttempt, PerAttempt

LEMMA CountsKept ==
    ASSUME FewSegments, Shape, Outstanding, Numbered, Counted, [Next]_vars
    PROVE  Numbered' /\ Counted'
<1>1. Shape'
  BY StepLemma
<1>2. CASE ClientStep /\ UNCHANGED serverVars
  BY <1>1, <1>2, ClientStepMoves, ClientQuietKeeps, SendsFirstKeeps DEF ClientMoves
<1>3. CASE ServerStep /\ UNCHANGED clientVars
  BY <1>1, <1>3, ServerStepCounts, ServerCountsKeep
<1>4. CASE UNCHANGED vars
  <2>1. ClientQuiet /\ UNCHANGED serverVars
    BY <1>4, ListUnchanged DEF vars, clientVars
  <2> QED BY <1>1, <1>4, <2>1, NoRequestsLemma, NoFirstsLemma, ClientQuietKeeps
          DEF vars, Sends
<1> QED BY <1>2, <1>3, <1>4 DEF Next

LEMMA CountsBegin ==
    ASSUME Init
    PROVE  Numbered /\ Counted
<1>1. /\ net = {} /\ dups = 0 /\ execs = <<>>
      /\ \A id \in InvokeIDs : client[id].state = "NONE" /\ server[id].state = "NONE"
  BY DEF Init, ClientInit, ServerInit, NoClient, NoServer
<1>2. Numbered
  BY <1>1 DEF Numbered, Several, Begun
<1>3. ASSUME NEW r \in Requests
      PROVE  FirstsFinite(r) /\ Count(r) = 0
  <2>1. NetFirsts(r) = {} /\ ServerFirsts(r) = {} /\ ExecFirsts(r) = {}
    BY <1>1 DEF NetFirsts, ServerFirsts, ExecFirsts
  <2> QED BY <2>1, FS_EmptySet DEF FirstsFinite, Count
<1>4. \A r \in Requests : Transmissions(r) \in Nat
  BY SSMAssumption DEF Transmissions
<1> QED BY <1>1, <1>2, <1>3, <1>4 DEF Counted

(***************************************************************************)
(* A request is executed no more often than its first segment was sent and *)
(* datagrams were doubled: with fewer segments than there are sequence     *)
(* numbers, for any number of requests, invoke IDs and retries.  A larger  *)
(* request is beyond what the code can send: its sequence numbers wrap and *)
(* are used as indexes of segments, so the first segment would be sent in  *)
(* place of a later one.                                                   *)
(***************************************************************************)
THEOREM ExecutedAsSent ==
    ASSUME FewSegments
    PROVE  Spec => []ExecutionsBounded
<1>1. Init => Shape /\ Outstanding /\ Numbered /\ Counted
  BY InitLemma, CountsBegin DEF Init, ClientInit, Outstanding, NoClient
<1>2. Shape /\ Outstanding /\ Numbered /\ Counted /\ [Next]_vars
      => Shape' /\ Outstanding' /\ Numbered' /\ Counted'
  BY StepLemma, OutstandingKept, CountsKept
<1>3. Shape /\ Counted => ExecutionsBounded
  <2> SUFFICES ASSUME Shape, Counted, NEW r \in Requests
               PROVE  Cardinality({e \in 1..Len(execs) : execs[e].body = Whole(r)})
                          <= Transmissions(r) + dups
    BY DEF ExecutionsBounded
  <2> DEFINE S == {e \in 1..Len(execs) : execs[e].body = Whole(r)}
  <2>1. Whole(r) # <<>> /\ Whole(r)[1] = <<r, 0>>
    BY SSMAssumption DEF Whole
  <2>2. S \subseteq ExecFirsts(r)
    BY <2>1 DEF ExecFirsts
  <2> HIDE DEF S
  <2>3. FirstsFinite(r) /\ Count(r) <= Transmissions(r) + dups
    BY DEF Counted
  <2>4. Cardinality(S) \in Nat /\ Cardinality(S) <= Cardinality(ExecFirsts(r))
    BY <2>2, <2>3, Smaller DEF FirstsFinite
  <2>5. /\ Cardinality(NetFirsts(r)) \in Nat /\ Cardinality(ServerFirsts(r)) \in Nat
        /\ Cardinality(ExecFirsts(r)) \in Nat
    BY <2>3, CountIs
  <2>6. Transmissions(r) \in Nat /\ dups \in Nat
    BY SSMAssumption DEF Transmissions, Shape, TypeOK
  <2> QED BY <2>3, <2>4, <2>5, <2>6 DEF Count, S
<1> QED BY <1>1, <1>2, <1>3, PTL DEF Spec

-----------------------------------------------------------------------------
(* The segments of a request are put together in order.                    *)

(***************************************************************************)
(* RequestInOrder is not inductive: that the segment the server takes is   *)
(* the one with the index of its sequence number needs that the datagrams  *)
(* are labeled so, and that lastSequenceNumber counts what is there.       *)
(***************************************************************************)
Collected(t) ==
    t.state = "SEGMENTED_REQUEST" =>
        /\ t.buf # <<>> /\ Ordered(t.buf)
        /\ t.last = Len(t.buf) - 1 /\ t.last < SeqMod - 1

HandedOver(body) ==
    body # <<>> /\ Ordered(body) /\ Len(body) = ReqSegs[body[Len(body)][1]]

Assembled ==
    /\ \A id \in InvokeIDs : Collected(server[id])
    /\ \A e \in 1..Len(execs) : HandedOver(execs[e].body)

\* A segment of a request has the index of its sequence number, and the last one
\* is the one that does not say more follows.
LEMMA LabelLemma ==
    ASSUME FewSegments, NEW m \in Messages, m.type = "ConfirmedRequest"
    PROVE  /\ m.data[1] \in Requests
           /\ ReqSegs[m.data[1]] \in Nat \ {0} /\ ReqSegs[m.data[1]] < SeqMod
           /\ m.data[2] \in 0..(ReqSegs[m.data[1]] - 1)
           /\ m.seq = m.data[2]
           /\ m.mor <=> m.data[2] < ReqSegs[m.data[1]] - 1
           /\ ~m.seg <=> ReqSegs[m.data[1]] = 1
<1>1. m.data \in RequestPieces /\ Labeled(m)
  BY MessageLemma DEF Messages
<1>2. /\ m.data[1] \in Requests
      /\ ReqSegs[m.data[1]] \in Nat \ {0} /\ ReqSegs[m.data[1]] < SeqMod
      /\ m.data[2] \in 0..(ReqSegs[m.data[1]] - 1)
  BY <1>1, SSMAssumption DEF RequestPieces, FewSegments
<1>3. m.data[2] % SeqMod = m.data[2]
  BY <1>2, SSMAssumption
<1> QED BY <1>1, <1>2, <1>3 DEF Labeled

LEMMA StillAssembled ==
    ASSUME Assembled, ServerStill
    PROVE  Assembled'
  BY DEF Assembled, ServerStill, Collected

LEMMA DeliverAssembled ==
    ASSUME Shape, Assembled, NEW id \in InvokeIDs, NEW t \in ServerRecords,
           NEW body \in Seq(RequestPieces), HandedOver(body), Deliver(id, t, body)
    PROVE  Assembled'
<1> DEFINE e == [id |-> id, body |-> body]
           Exec == [id : InvokeIDs, body : Seq(RequestPieces)]
<1>1. \A j \in InvokeIDs : server'[j].state = "SEGMENTED_REQUEST" => server'[j] = server[j]
  BY Delivered DEF HandedOver
<1>2. execs \in Seq(Exec) /\ e \in Exec /\ e.body = body /\ execs' = Append(execs, e)
  BY DEF Shape, TypeOK, Deliver
<1> HIDE DEF e, Exec
<1>3. /\ Len(execs) \in Nat /\ Len(execs') = Len(execs) + 1
      /\ \A k \in 1..Len(execs) : execs'[k] = execs[k]
      /\ execs'[Len(execs) + 1] = e
  BY <1>2
<1>4. ASSUME NEW k \in 1..Len(execs') PROVE HandedOver(execs'[k].body)
  BY <1>2, <1>3 DEF Assembled
<1> QED BY <1>1, <1>4 DEF Assembled, Collected

\* The server begins with one segment, or is given a request in one piece.
LEMMA IdleAssembled ==
    ASSUME FewSegments, Shape, Assembled, NEW m \in net, Idle(m)
    PROVE  Assembled'
<1> DEFINE win == IF m.win < ServerWindow THEN m.win ELSE ServerWindow
           u == InState(NoServer, "SEGMENTED_REQUEST")
           t == [u EXCEPT !.win = win, !.buf = <<m.data>>]
<1>1. /\ m \in Messages /\ m.type = "ConfirmedRequest" /\ m.id \in InvokeIDs
      /\ m.data \in RequestPieces
  BY MessageLemma DEF Shape, Idle
<1>2. /\ <<m.data>> \in Seq(RequestPieces) /\ <<m.data>> # <<>> /\ Len(<<m.data>>) = 1
      /\ <<m.data>>[1] = m.data
  BY <1>1
<1>3. Ordered(<<m.data>>)
  BY <1>2 DEF Ordered
<1>4. CASE ~m.seg /\ Deliver(m.id, NoServer, <<m.data>>)
  <2>1. HandedOver(<<m.data>>)
    BY <1>1, <1>2, <1>3, <1>4, LabelLemma DEF HandedOver
  <2> QED BY <1>1, <1>2, <1>4, <2>1, NoServerLemma, DeliverAssembled
<1>5. CASE UNCHANGED serverVars
  BY <1>5 DEF serverVars, Assembled, Collected
<1>6. CASE m.seg /\ ServerBecome(m.id, t)
  <2>1. t.buf = <<m.data>> /\ t.last = 0
    BY DEF InState, NoServer
  <2>2. 0 < SeqMod - 1
    BY <1>1, <1>6, LabelLemma, SSMAssumption
  <2>3. Collected(t)
    BY <1>2, <1>3, <2>1, <2>2 DEF Collected
  <2> HIDE DEF t
  <2> QED BY <1>6, <2>3 DEF ServerBecome, Assembled, Shape, TypeOK
<1> QED BY <1>4, <1>5, <1>6 DEF Idle

\* The next segment is put behind the others.
LEMMA SegmentAssembled ==
    ASSUME FewSegments, Shape, Assembled, NEW m \in net, SegmentedRequestSegment(m)
    PROVE  Assembled'
<1> DEFINE t == server[m.id]
           body == Append(t.buf, m.data)
           added == [t EXCEPT !.buf = body, !.last = m.seq]
           closed == [added EXCEPT !.initial = m.seq]
<1>1. /\ m \in Messages /\ m.type = "ConfirmedRequest" /\ m.id \in InvokeIDs
      /\ m.data \in RequestPieces /\ m.seq \in 0..(SeqMod - 1)
  BY MessageLemma DEF Shape, SegmentedRequestSegment
<1>2. /\ t.state = "SEGMENTED_REQUEST" /\ t = server[m.id]
      /\ \/ ServerBecome(m.id, Restarted(t))
         \/ IsNext(t, m.seq) /\ ~m.mor /\ Deliver(m.id, added, added.buf)
         \/ IsNext(t, m.seq) /\ m.mor /\ ServerBecome(m.id, Restarted(closed))
         \/ IsNext(t, m.seq) /\ m.mor /\ ServerBecome(m.id, Restarted(added))
  BY DEF SegmentedRequestSegment
<1>3. t \in ServerRecords /\ Collected(t) /\ t.buf \in Seq(RequestPieces)
  <2>1. t \in ServerRecords
    BY <1>1, ServerFacts
  <2> QED BY <1>1, <2>1 DEF Assembled, ServerRecords
<1>4. /\ t.buf # <<>> /\ Ordered(t.buf) /\ Len(t.buf) \in Nat
      /\ t.last = Len(t.buf) - 1 /\ t.last < SeqMod - 1
  BY <1>2, <1>3 DEF Collected
<1>5. /\ body \in Seq(RequestPieces) /\ body # <<>> /\ Len(body) = Len(t.buf) + 1
      /\ body[Len(body)] = m.data
      /\ \A k \in 1..Len(t.buf) : body[k] = t.buf[k]
  BY <1>1, <1>3
<1> HIDE DEF body
<1>6. /\ added \in ServerRecords /\ added.state = t.state
      /\ added.buf = body /\ added.last = m.seq
  BY <1>1, <1>3, <1>5 DEF ServerRecords
<1> HIDE DEF t, added
<1>7. closed \in ServerRecords /\ closed.buf = body /\ closed.last = m.seq
  BY <1>1, <1>6 DEF ServerRecords
<1> HIDE DEF closed
<1>8. \A v \in ServerRecords : Restarted(v).buf = v.buf /\ Restarted(v).last = v.last
  BY DEF Restarted, ServerRecords
<1>9. ASSUME IsNext(t, m.seq)
      PROVE  Ordered(body) /\ m.seq = Len(body) - 1 /\ m.data[2] = m.seq
  <2>1. t.last + 1 \in 1..(SeqMod - 1)
    BY <1>4, <1>3, SSMAssumption DEF ServerRecords
  <2>2. m.seq = t.last + 1
    BY <1>9, <2>1, SSMAssumption DEF IsNext
  <2>3. m.data[2] = m.seq
    BY <1>1, LabelLemma
  <2>4. ASSUME NEW k \in 2..Len(body) PROVE body[k][2] = k - 1
    <3>1. CASE k = Len(body)
      BY <1>4, <1>5, <2>2, <2>3, <3>1
    <3>2. CASE k # Len(body)
      BY <1>4, <1>5, <3>2 DEF Ordered
    <3> QED BY <3>1, <3>2
  <2> QED BY <1>4, <1>5, <2>2, <2>3, <2>4 DEF Ordered
<1>10. ASSUME NEW v, ServerBecome(m.id, v), Collected(v)
      PROVE  Assembled'
  BY <1>10 DEF ServerBecome, Assembled, Shape, TypeOK
<1>11. CASE ServerBecome(m.id, Restarted(t))
  BY <1>3, <1>4, <1>8, <1>10, <1>11 DEF Collected
<1>12. CASE IsNext(t, m.seq) /\ ~m.mor /\ Deliver(m.id, added, added.buf)
  <2>1. m.data[2] = ReqSegs[m.data[1]] - 1
    BY <1>1, <1>12, LabelLemma
  <2>2. HandedOver(body)
    BY <1>1, <1>5, <1>9, <1>12, <2>1, LabelLemma DEF HandedOver
  <2> QED BY <1>1, <1>6, <1>5, <1>12, <2>2, DeliverAssembled
<1>13. CASE /\ IsNext(t, m.seq) /\ m.mor
            /\ \/ ServerBecome(m.id, Restarted(closed))
               \/ ServerBecome(m.id, Restarted(added))
  <2>1. m.seq < SeqMod - 1
    BY <1>1, <1>13, LabelLemma, SSMAssumption
  <2>2. ASSUME NEW v \in ServerRecords, v.buf = body, v.last = m.seq
        PROVE  Collected(Restarted(v))
    BY <1>5, <1>8, <1>9, <1>13, <2>1, <2>2 DEF Collected
  <2>3. Collected(Restarted(added)) /\ Collected(Restarted(closed))
    BY <1>6, <1>7, <2>2
  <2> QED BY <1>10, <1>13, <2>3
<1> QED BY <1>2, <1>11, <1>12, <1>13

LEMMA AssembledKept ==
    ASSUME FewSegments, Shape, Numbered, Assembled, [Next]_vars
    PROVE  Assembled'
<1>1. CASE UNCHANGED serverVars
  BY <1>1 DEF serverVars, Assembled, Collected
<1>2. CASE ServerStep
  BY <1>2, ServerStepCounts, StillAssembled, IdleAssembled, SegmentAssembled
<1> QED BY <1>1, <1>2 DEF Next, vars

(***************************************************************************)
(* What the server collects follows the segment it began with, in order,   *)
(* and what it hands over is as long as the request of its last segment:   *)
(* with fewer segments than there are sequence numbers, for any number of  *)
(* requests, invoke IDs, windows and retries.                              *)
(***************************************************************************)
THEOREM RequestsAssembled ==
    ASSUME FewSegments
    PROVE  Spec => []RequestInOrder
<1>1. Init => Shape /\ Outstanding /\ Numbered /\ Counted /\ Assembled
  <2>1. Init => Assembled
    BY DEF Init, ServerInit, NoServer, Assembled, Collected
  <2> QED BY <2>1, InitLemma, CountsBegin DEF Init, ClientInit, Outstanding, NoClient
<1>2. Shape /\ Outstanding /\ Numbered /\ Counted /\ Assembled /\ [Next]_vars
      => Shape' /\ Outstanding' /\ Numbered' /\ Counted' /\ Assembled'
  BY StepLemma, OutstandingKept, CountsKept, AssembledKept
<1>3. Assembled => RequestInOrder
  BY DEF Assembled, Collected, HandedOver, RequestInOrder
<1> QED BY <1>1, <1>2, <1>3, PTL DEF Spec

=============================================================================
