----------------------------- MODULE CovContexts -----------------------------
(***************************************************************************)
(* The subscription contexts of a client (SubscriptionContextManager in    *)
(* service/cov.py) together with the server they subscribe at: a context   *)
(* subscribes when it is entered, refreshes the subscription by a timer    *)
(* and a task, and cancels it when it is left.  The contexts here share    *)
(* the address and the process identifier, so to the server they are one   *)
(* client; its other clients subscribe as they like.  The requests to one  *)
(* address are outstanding one at a time (module OutstandingRequests).     *)
(***************************************************************************)
EXTENDS ChangeOfValue

CONSTANTS
    Contexts,
    me,             \* the client the contexts are
    Lifetime        \* what they ask for, in seconds; 0 is without end

ASSUME ContextAssumption == me \in Clients /\ Lifetime \in Nat

VARIABLES
    phase,          \* of each context
    refreshing,     \* the contexts with a timer to refresh
    requests,       \* their requests, the first one is outstanding
    handled,        \* the server has handled it
    lapsed,         \* history: contexts whose refresh failed
    stray           \* history: contexts left, or refused, before a refresh was over

contextVars == <<phase, refreshing, requests, handled, lapsed, stray>>
vars == <<commandableVars, covVars, contextVars>>

Request(k, cancel) == [context |-> k, cancel |-> cancel]

Asked(k) == Request(k, FALSE) \in ToSet(requests)

\* __aenter__ subscribes.
Enter(k) ==
    /\ phase[k] = "new"
    /\ phase' = [phase EXCEPT ![k] = "entering"]
    /\ requests' = Append(requests, Request(k, FALSE))
    /\ UNCHANGED <<commandableVars, covVars, refreshing, handled, lapsed, stray>>

\* create_refresh_task: the timer of a context, whether it is still open or not.
Refresh(k) ==
    /\ k \in refreshing
    /\ refreshing' = refreshing \ {k}
    /\ requests' = Append(requests, Request(k, FALSE))
    /\ UNCHANGED <<commandableVars, covVars, phase, handled, lapsed, stray>>

\* Wrong: the timer is left alone.
LeaveTimer(k) ==
    /\ phase[k] = "open"
    /\ stray' = IF Asked(k) THEN stray \cup {k} ELSE stray
    /\ UNCHANGED <<refreshing, commandableVars, covVars, handled, lapsed>>

\* __aexit__ cancels the timer, not a refresh that has started.
Leave(k) ==
    /\ phase[k] = "open"
    /\ refreshing' = refreshing \ {k}
    /\ stray' = IF Asked(k) THEN stray \cup {k} ELSE stray
    /\ UNCHANGED <<commandableVars, covVars, handled, lapsed>>

\* The end of the context: it cancels the subscription.
Exit(k) ==
    /\ Leave(k)
    /\ phase' = [phase EXCEPT ![k] = "leaving"]
    /\ requests' = Append(requests, Request(k, TRUE))

\* The end by an exception: no request.
Abandon(k) ==
    /\ Leave(k)
    /\ phase' = [phase EXCEPT ![k] = "left"]
    /\ UNCHANGED requests

\* The server handles the request.
HandleSubscribe ==
    /\ requests # <<>> /\ ~Head(requests).cancel
    /\ ~handled /\ handled' = TRUE
    /\ Subscribe(me, Lifetime)
    /\ UNCHANGED <<phase, refreshing, requests, lapsed, stray>>

HandleCancel ==
    /\ requests # <<>> /\ Head(requests).cancel
    /\ ~handled /\ handled' = TRUE
    /\ Cancel(me)
    /\ UNCHANGED <<phase, refreshing, requests, lapsed, stray>>

Finished ==
    /\ requests' = Tail(requests)
    /\ handled' = FALSE
    /\ UNCHANGED <<commandableVars, covVars>>

\* Wrong: only entering sets the timer.
SubscribedOnce(k) ==
    /\ refreshing' = IF Lifetime = 0 \/ phase[k] # "entering" THEN refreshing ELSE refreshing \cup {k}
    /\ \/ /\ phase[k] # "entering"
          /\ UNCHANGED <<phase, stray>>
       \/ /\ phase[k] = "entering"
          /\ LET refused == \E j \in Contexts : phase[j] = "open" IN
             /\ phase' = [phase EXCEPT ![k] = IF refused THEN "left" ELSE "open"]
             /\ stray' = IF refused THEN stray \cup {k} ELSE stray

\* The subscription is answered: the timer is set, whether the context has been
\* left meanwhile or not; one that enters is refused when there is an open one.
SubscribedBy(k) ==
    /\ refreshing' = IF Lifetime = 0 THEN refreshing ELSE refreshing \cup {k}
    /\ \/ /\ phase[k] # "entering"
          /\ UNCHANGED <<phase, stray>>
       \/ /\ phase[k] = "entering"
          /\ LET refused == \E j \in Contexts : phase[j] = "open" IN
             /\ phase' = [phase EXCEPT ![k] = IF refused THEN "left" ELSE "open"]
             /\ stray' = IF refused THEN stray \cup {k} ELSE stray

SubscribeAnswered ==
    /\ handled /\ ~Head(requests).cancel /\ me \notin answering
    /\ SubscribedBy(Head(requests).context)
    /\ Finished
    /\ UNCHANGED lapsed

\* The request fails, before or after the server has handled it: the context is
\* not entered, or is not refreshed any more.
SubscribeFailed ==
    /\ requests # <<>> /\ ~Head(requests).cancel
    /\ LET k == Head(requests).context IN
       /\ phase' = [phase EXCEPT ![k] = IF @ = "entering" THEN "left" ELSE @]
       /\ lapsed' = lapsed \cup {k}
    /\ Finished
    /\ UNCHANGED <<refreshing, stray>>

\* Cancelling is answered, or fails.
CancelOver ==
    /\ requests # <<>> /\ Head(requests).cancel
    /\ phase' = [phase EXCEPT ![Head(requests).context] = "left"]
    /\ Finished
    /\ UNCHANGED <<refreshing, lapsed, stray>>

\* The other clients of the server.
OtherClient ==
    /\ \E c \in Clients \ {me} : RequestOf(c)
    /\ UNCHANGED contextVars

Init ==
    /\ InitCov
    /\ phase = [k \in Contexts |-> "new"]
    /\ refreshing = {}
    /\ requests = <<>>
    /\ handled = FALSE
    /\ lapsed = {}
    /\ stray = {}

Server == Device /\ UNCHANGED contextVars
Handle == HandleSubscribe \/ HandleCancel
Answer == SubscribeAnswered \/ (CancelOver /\ handled)

Next ==
    \/ Server
    \/ OtherClient
    \/ \E k \in Contexts : Enter(k) \/ Refresh(k) \/ Exit(k) \/ Abandon(k)
    \/ Handle \/ SubscribeAnswered \/ SubscribeFailed \/ CancelOver

Spec == Init /\ [][Next]_vars

\* The loops run, a request is handled and answered unless it fails, a timer
\* expires, that of the server unless the subscription is renewed.
FairSpec ==
    /\ Spec
    /\ WF_vars((Execute \/ TellOne) /\ UNCHANGED contextVars)
    /\ \A c \in Clients : WF_vars(Responded(c) /\ UNCHANGED contextVars)
    /\ WF_vars((Expire(me) /\ UNCHANGED contextVars) \/ HandleSubscribe)
    /\ WF_vars(Handle) /\ WF_vars(Answer)
    /\ \A k \in Contexts : WF_vars(Refresh(k))

(***************************************************************************)
(* Properties                                                              *)
(***************************************************************************)

\* While a context stays open and its refreshes succeed, its subscription is
\* there again and again, whatever expires and whatever the context cancels that
\* shares the subscription.
OpenIsSubscribed ==
    \A k \in Contexts :
        <>[](phase[k] = "open" /\ k \notin lapsed) => []<>(subs[me] # "none")

\* When every context was left while no refresh of it was under way the server
\* forgets them, even if they were abandoned or the request to cancel is lost.
LeftIsForgotten ==
    (Lifetime > 0 /\ <>[](stray = {} /\ \A k \in Contexts : phase[k] = "left"))
        => <>[](subs[me] = "none")

\* "Exiting the context, cancel the subscription" (service/cov.py:103): when every
\* context was left the server forgets them.
ExitCancels ==
    (Lifetime > 0 /\ <>[](\A k \in Contexts : phase[k] = "left"))
        => <>[](subs[me] = "none")

=============================================================================
