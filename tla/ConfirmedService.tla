-------------------------- MODULE ConfirmedService --------------------------
(***************************************************************************)
(* What a client application may rely on when it makes confirmed requests  *)
(* (Application.request of bacpypes3/app.py: "It returns a future that     *)
(* will have the acknowledgement/error/reject/abort set as the result").   *)
(* A request gets one answer; an acknowledgement or a reject says that the *)
(* server's application was given this very request, an error or an abort  *)
(* may also come from the client's own side.  Nothing says how often the   *)
(* server executes a request, or that it does so before the answer only.   *)
(***************************************************************************)
CONSTANT Requests       \* what may be requested

VARIABLES
    answer,     \* "unasked", "outstanding", or the kind of the answer
    executed    \* the requests the server's application has been given

serviceVars == <<answer, executed>>

LocalAnswers == {"Error", "Abort"}

RemoteAnswers == {"SimpleAck", "ComplexAck", "Reject"}

ServiceInit ==
    /\ answer = [r \in Requests |-> "unasked"]
    /\ executed = {}

Ask(r) ==
    /\ answer[r] = "unasked"
    /\ \E a \in {"outstanding"} \cup LocalAnswers :
           answer' = [answer EXCEPT ![r] = a]
    /\ UNCHANGED executed

Execute(r) ==
    /\ answer[r] # "unasked"
    /\ executed' = executed \cup {r}
    /\ UNCHANGED answer

AnswerRequest(r) ==
    /\ answer[r] = "outstanding"
    /\ \E a \in LocalAnswers \cup IF r \in executed THEN RemoteAnswers ELSE {} :
           answer' = [answer EXCEPT ![r] = a]
    /\ UNCHANGED executed

ServiceNext == \E r \in Requests : Ask(r) \/ Execute(r) \/ AnswerRequest(r)

ServiceSpec ==
    /\ ServiceInit
    /\ [][ServiceNext]_serviceVars
    /\ \A r \in Requests : WF_serviceVars(AnswerRequest(r))

=============================================================================
