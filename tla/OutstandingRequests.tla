------------------------- MODULE OutstandingRequests -------------------------
(***************************************************************************)
(* The bookkeeping of confirmed requests in the client's application:      *)
(* Application.request, _request_done and confirmation of bacpypes3/app.py,*)
(* the list of client transactions under it (appservice.py, in which a     *)
(* transaction here only lives and ends; its protocol is ClientSSM), and   *)
(* device communication control, which silences both (service/device.py).  *)
(*                                                                         *)
(* The event loop runs one handler at a time; the task that sends a        *)
(* request and the callback of a resolved future wait in its queue.        *)
(***************************************************************************)
EXTENDS Integers, FiniteSets, SequencesExt

CONSTANTS
    Requests,       \* the confirmed requests the program makes
    Destinations,   \* the devices it makes them of
    IdMod,          \* invoke IDs are modulo this, 256 in the code
    GivenIDs,       \* invoke IDs the program may choose by itself
    Cancels,        \* the requests the program may give up
    DccKinds,       \* what a device communication control request may say
    NoID            \* no invoke ID

ASSUME OutstandingAssumption ==
    /\ IdMod \in Nat \ {0}
    /\ GivenIDs \subseteq 0..(IdMod - 1)
    /\ Cancels \subseteq Requests
    /\ DccKinds \subseteq {"enable", "disable", "disableInitiation"}
    /\ NoID \notin 0..(IdMod - 1)

VARIABLES
    next_invoke_id,
    requests,       \* _requests: the outstanding requests to a destination
    invoke_id,      \* apduInvokeID of a request
    destination,    \* pduDestination of a request
    future,         \* the state of the future request() returned
    ready,          \* what the event loop is about to run, in this order
    transactions,   \* clientTransactions
    sent,           \* requests that went out: an answer may come at any time
    dcc,            \* dccEnableDisable
    dccTimer,       \* _dcc_enable_handle is set
    spinning        \* the search for a free invoke ID does not return

dccVars == <<dcc, dccTimer>>
requestVars == <<next_invoke_id, requests, invoke_id, destination>>
transactionVars == <<transactions, sent>>
vars == <<requestVars, future, ready, transactionVars, dccVars, spinning>>

InvokeIDs == 0..(IdMod - 1)

\* s without x, which is in it once at most.
Without(s, x) ==
    IF x \in ToSet(s) THEN RemoveAt(s, CHOOSE i \in 1..Len(s) : s[i] = x) ELSE s

Sending(r) == [run |-> "send", request |-> r]

Done(r) == [run |-> "done", request |-> r]

\* What is at the head of the queue runs.
Runs(callback) ==
    /\ ~spinning
    /\ ready # <<>> /\ Head(ready) = callback
    /\ ready' = Tail(ready)

Init ==
    /\ next_invoke_id = 0
    /\ requests = [d \in Destinations |-> <<>>]
    /\ invoke_id = [r \in Requests |-> NoID]
    /\ destination \in [Requests -> Destinations]
    /\ future = [r \in Requests |-> "none"]
    /\ ready = <<>>
    /\ transactions = <<>>
    /\ sent = {}
    /\ dcc = "enable"
    /\ dccTimer = FALSE
    /\ spinning = FALSE

-----------------------------------------------------------------------------
UsedIDs(d) == {invoke_id[r] : r \in ToSet(requests[d])}

\* Wrong: nobody looks whether the ID is taken.
SkippedNone(d, n) == n = 0

\* From next_invoke_id on, n IDs are taken and the one that follows is free.
Skipped(d, n) ==
    /\ (next_invoke_id + n) % IdMod \notin UsedIDs(d)
    /\ \A k \in 0..(n - 1) : (next_invoke_id + k) % IdMod \in UsedIDs(d)

\* The counter after an ID.  Wrong: it does not wrap.
AfterIDUnwrapped(id) == id + 1

AfterID(id) == (id + 1) % IdMod

(***************************************************************************)
(* Application.request.  An ID the program chose is kept if it is free;    *)
(* otherwise the counter is advanced to the next that is.  The request is  *)
(* listed before the task that sends it runs.                              *)
(***************************************************************************)
Request(r, given) ==
    LET d == destination[r]
    IN  /\ ~spinning
        /\ future[r] = "none"
        /\ \/ /\ given \in GivenIDs \ UsedIDs(d)
              /\ invoke_id' = [invoke_id EXCEPT ![r] = given]
              /\ UNCHANGED next_invoke_id
           \/ /\ given \notin GivenIDs \ UsedIDs(d)
              /\ \E n \in 0..(IdMod - 1) :
                    LET id == (next_invoke_id + n) % IdMod
                    IN  /\ Skipped(d, n)
                        /\ invoke_id' = [invoke_id EXCEPT ![r] = id]
                        /\ next_invoke_id' = AfterID(id)
        /\ requests' = [requests EXCEPT ![d] = Append(@, r)]
        /\ future' = [future EXCEPT ![r] = "pending"]
        /\ ready' = Append(ready, Sending(r))
        /\ UNCHANGED <<destination, transactionVars, dccVars, spinning>>

\* All IDs are taken: the loop that looks for a free one goes on for ever, and
\* with it the event loop stands still.
RequestSpins(r) ==
    /\ ~spinning
    /\ future[r] = "none"
    /\ InvokeIDs \subseteq UsedIDs(destination[r])
    /\ spinning' = TRUE
    /\ UNCHANGED <<requestVars, future, ready, transactionVars, dccVars>>

(***************************************************************************)
(* The sending task: ApplicationServiceAccessPoint.sap_indication.  With   *)
(* communication disabled it returns without a word.                       *)
(***************************************************************************)
SendRequest(r) ==
    /\ Runs(Sending(r))
    /\ IF dcc = "enable"
       THEN transactions' = Append(transactions, r) /\ sent' = sent \cup {r}
       ELSE UNCHANGED transactionVars
    /\ UNCHANGED <<requestVars, future, dccVars, spinning>>

\* The program cancels the future, by itself or by asyncio.wait_for.
Cancel(r) ==
    /\ ~spinning
    /\ r \in Cancels
    /\ future[r] = "pending"
    /\ future' = [future EXCEPT ![r] = "cancelled"]
    /\ ready' = Append(ready, Done(r))
    /\ UNCHANGED <<requestVars, transactionVars, dccVars, spinning>>

\* Wrong: the request stays listed.
RequestDoneKeeping(r) ==
    /\ Runs(Done(r))
    /\ UNCHANGED <<requestVars, future, transactionVars, dccVars, spinning>>

\* _request_done, the done callback of the future.
RequestDone(r) ==
    /\ Runs(Done(r))
    /\ requests' = [requests EXCEPT ![destination[r]] = Without(@, r)]
    /\ UNCHANGED <<next_invoke_id, invoke_id, destination, future,
                   transactionVars, dccVars, spinning>>

-----------------------------------------------------------------------------
\* The requests or transactions of s with the destination and the ID of r.
Matching(s, r) ==
    {i \in 1..Len(s) : /\ destination[s[i]] = destination[r]
                       /\ invoke_id[s[i]] = invoke_id[r]}

\* The first of them, if there is one.
FirstOf(s, r) ==
    {s[i] : i \in {k \in Matching(s, r) : \A j \in Matching(s, r) : k <= j}}

\* Wrong: nobody is given the answer.
ResolveNobody(t) == UNCHANGED <<future, ready>>

(***************************************************************************)
(* Application.confirmation with the answer of transaction t: the first    *)
(* listed request with that ID gets it.  A future that is already done     *)
(* raises InvalidStateError and stays as it is.                            *)
(***************************************************************************)
Resolve(t) ==
    LET answered == {f \in FirstOf(requests[destination[t]], t) : future[f] = "pending"}
    IN  \/ \E f \in answered :
              /\ future' = [future EXCEPT ![f] = "done"]
              /\ ready' = Append(ready, Done(f))
        \/ answered = {} /\ UNCHANGED <<future, ready>>

\* A peer's answer to r: the first transaction with that ID takes it.
Confirmation(r) ==
    /\ ~spinning
    /\ r \in sent
    /\ dcc # "disable"
    /\ \E t \in FirstOf(transactions, r) :
           /\ transactions' = Without(transactions, t)
           /\ Resolve(t)
    /\ UNCHANGED <<requestVars, sent, dccVars, spinning>>

\* The transaction gives up: the application is given an abort.
TransactionTimeout(t) ==
    /\ ~spinning
    /\ t \in ToSet(transactions)
    /\ transactions' = Without(transactions, t)
    /\ Resolve(t)
    /\ UNCHANGED <<requestVars, sent, dccVars, spinning>>

-----------------------------------------------------------------------------
(***************************************************************************)
(* A DeviceCommunicationControl request, with a duration or without.  With *)
(* communication disabled the access point raises AttributeError before it *)
(* has looked at the request: it asks the PDU, not the APDU, for its type. *)
(***************************************************************************)
CommunicationControl(kind, timed) ==
    /\ ~spinning
    /\ dcc # "disable"
    /\ kind \in DccKinds
    /\ dcc' = kind
    /\ dccTimer' = (timed /\ kind # "enable")
    /\ UNCHANGED <<requestVars, future, ready, transactionVars, spinning>>

\* The duration is over: enable_communications.
CommunicationTimer ==
    /\ ~spinning
    /\ dccTimer
    /\ dcc' = "enable"
    /\ dccTimer' = FALSE
    /\ UNCHANGED <<requestVars, future, ready, transactionVars, spinning>>

Next ==
    \/ \E r \in Requests :
           \/ \E given \in GivenIDs \cup {NoID} : Request(r, given)
           \/ RequestSpins(r)
           \/ SendRequest(r)
           \/ Cancel(r)
           \/ RequestDone(r)
           \/ Confirmation(r)
           \/ TransactionTimeout(r)
    \/ \E kind \in DccKinds, timed \in BOOLEAN : CommunicationControl(kind, timed)
    \/ CommunicationTimer

Spec == Init /\ [][Next]_vars

(***************************************************************************)
(* The event loop runs the tasks and callbacks it was given, a transaction *)
(* ends (EveryRequestAnswered of Transactions), a timer goes off, and a    *)
(* peer that wants communication enabled asks until it is.                 *)
(***************************************************************************)
Fairness ==
    /\ WF_vars(\E r \in Requests : SendRequest(r) \/ RequestDone(r))
    /\ \A r \in Requests : WF_vars(TransactionTimeout(r))
    /\ WF_vars(CommunicationTimer)
    /\ WF_vars(CommunicationControl("enable", FALSE))

FairSpec == Spec /\ Fairness

-----------------------------------------------------------------------------
TypeOK ==
    /\ next_invoke_id \in InvokeIDs
    /\ requests \in [Destinations -> Seq(Requests)]
    /\ invoke_id \in [Requests -> InvokeIDs \cup {NoID}]
    /\ destination \in [Requests -> Destinations]
    /\ future \in [Requests -> {"none", "pending", "done", "cancelled"}]
    /\ ready \in Seq([run : {"send", "done"}, request : Requests])
    /\ transactions \in Seq(Requests)
    /\ sent \subseteq Requests
    /\ dcc \in {"enable", "disable", "disableInitiation"}
    /\ dccTimer \in BOOLEAN
    /\ spinning \in BOOLEAN

(***************************************************************************)
(* Two outstanding requests to one device never have the same invoke ID,   *)
(* whether the program or the counter chose it (request).                  *)
(***************************************************************************)
UniqueInvokeIDs ==
    \A d \in Destinations : \A i, j \in 1..Len(requests[d]) :
        i # j => invoke_id[requests[d][i]] # invoke_id[requests[d][j]]

(***************************************************************************)
(* A request is listed, once, exactly until its future is done and the     *)
(* callback has run: nothing stays in _requests, and no ID is free while   *)
(* its future waits (request, _request_done, confirmation).                *)
(***************************************************************************)
ListedWhilePending ==
    \A r \in Requests :
        LET listed == {i \in 1..Len(requests[destination[r]]) :
                           requests[destination[r]][i] = r}
        IN  Cardinality(listed) =
                IF future[r] = "pending" \/ Done(r) \in ToSet(ready) THEN 1 ELSE 0

(***************************************************************************)
(* Two transactions to one device have the same invoke ID only when the    *)
(* request of the older one is not outstanding any more, because the       *)
(* program gave it up or an answer was taken for it; an answer of the older *)
(* one is then taken for the other (request, _request_done).               *)
(***************************************************************************)
SharedOnlyAfterwards ==
    \A i, j \in 1..Len(transactions) :
        LET t == transactions[i] u == transactions[j]
        IN  i < j /\ destination[t] = destination[u] /\ invoke_id[t] = invoke_id[u]
                => future[t] # "pending"

(***************************************************************************)
(* The future of a request that went out gets the answer or is given up by *)
(* the program (request: "a future that will have the                      *)
(* acknowledgement/error/reject/abort set as the result"), unless the      *)
(* search for an invoke ID has brought the event loop to a stop.           *)
(***************************************************************************)
EveryFutureDone ==
    \A r \in Requests :
        future[r] = "pending" /\ r \in sent
            ~> future[r] \in {"done", "cancelled"} \/ spinning

(***************************************************************************)
(* A device that is asked to enable communication does so (confirmation    *)
(* lets it through: "continue with DCC request").                          *)
(***************************************************************************)
CommunicationComesBack == dcc = "disable" ~> dcc = "enable"

=============================================================================
