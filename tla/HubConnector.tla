----------------------------- MODULE HubConnector -----------------------------
(***************************************************************************)
(* The hub connector of BACnet/SC (SCHubConnector in sc/service.py): one   *)
(* connection at a time, to the primary hub or to the failover hub, and    *)
(* from the failover hub back to the primary.                              *)
(*                                                                         *)
(* The tasks of the connector: the run task, which opens connections and   *)
(* serves them; for each connection a receiver, and on the failover hub a  *)
(* task that tries the primary; the timers; and a caller of close().  A    *)
(* task gives way where it awaits, which is where a step ends here.  A     *)
(* send does not give way, but raises when the socket is broken.           *)
(***************************************************************************)
EXTENDS Integers, SequencesExt

CONSTANTS
    Sockets,        \* identities of sockets, used again when they are free
    None,           \* no socket, no hub
    Swallows,       \* asyncio.wait_for loses a cancelation that comes with the
                    \* result: Python 3.8 to 3.11
    MaxTroubles,    \* bound: what goes wrong with sockets and hubs
    MaxStarts       \* bound: calls of start()

ASSUME HubAssumption ==
    /\ None \notin Sockets \cup {0, 1}
    /\ Swallows \in BOOLEAN
    /\ MaxTroubles \in Nat /\ MaxStarts \in Nat

VARIABLES
    state,          \* _state
    conn,           \* _conn
    reported,       \* _connector_state_code: the hub connected to, or None
    disconnected,   \* the event _disconnected
    heartbeat,      \* _heartbeat_message_id is set: an acknowledgement is due
    timers,         \* the timers that run
    uri,            \* _uri_index, 0 is the primary hub
    run,            \* where the run task awaits
    served,         \* the socket it establishes or serves
    replacement,    \* the connection to the primary that is to replace it
    cancelled,      \* cancel() of the run task: "no", "asked", "thrown"
    receiver,       \* where the receiver of that socket is
    primary,        \* where the task is that tries the primary
    candidate,      \* its socket
    closeTask,      \* the socket _socket_close_task closes
    closers,        \* who awaits that in _close_connection, in order
    closing,        \* _closing
    closer,         \* where close() is
    sockets,        \* "free", "open", "silent" (half open), "broken", "lingering", "leaked"
    hubOf,          \* the hub of a socket
    up,             \* the hubs that are up
    troubles,       \* counters
    starts

connection == <<state, conn, reported, disconnected, heartbeat, timers>>
runTask == <<uri, run, served, replacement, cancelled>>
helpers == <<receiver, primary, candidate>>
teardown == <<closeTask, closers>>
caller == <<closing, closer, starts>>
world == <<sockets, hubOf, up, troubles>>
vars == <<connection, runTask, helpers, teardown, caller, world>>

Hubs == {0, 1}

\* Something goes wrong, within the bound.
Trouble == troubles < MaxTroubles /\ troubles' = troubles + 1

\* A task that is canceled is no longer called when what it awaits is done.
Without(tasks, who) ==
    IF who \in ToSet(tasks)
    THEN RemoveAt(tasks, CHOOSE i \in 1..Len(tasks) : tasks[i] = who)
    ELSE tasks

Free == {s \in Sockets : sockets[s] = "free"}

(***************************************************************************)
(* Connecting and disconnecting                                            *)
(***************************************************************************)

\* Wrong: the connection is dropped, its socket is not.
CloseConnectionOnly(who) ==
    /\ state' = "idle" /\ reported' = None
    /\ heartbeat' = FALSE /\ timers' = {}
    /\ conn' = None
    /\ closers' = Append(closers, who)
    /\ UNCHANGED <<disconnected, closeTask>>

\* _close_connection, up to where it awaits the task that closes the socket,
\* shielded from its own cancelation; without such a task it goes on at once.
CloseConnection(who) ==
    /\ state' = "idle" /\ reported' = None
    /\ heartbeat' = FALSE /\ timers' = {}
    /\ conn' = None
    /\ closeTask' = IF conn # None THEN conn ELSE closeTask
    /\ closers' = Append(closers, who)
    /\ UNCHANGED disconnected

\* Wrong: without the time limit.
LocalDisconnectUntimed(who) ==
    \/ /\ state = "connected"
       /\ \/ /\ sockets[conn] # "broken"
             /\ state' = "disconnecting"
             /\ timers' = {}
             /\ UNCHANGED <<conn, reported, disconnected, heartbeat, teardown>>
          \/ /\ sockets[conn] = "broken"
             /\ CloseConnection(who)
    \/ /\ state # "connected"
       /\ UNCHANGED <<connection, teardown>>

\* _local_disconnect: a request to disconnect, with a time limit for the answer.
LocalDisconnect(who) ==
    \/ /\ state = "connected"
       /\ \/ /\ sockets[conn] # "broken"
             /\ state' = "disconnecting"
             /\ timers' = {"disconnect_wait"}
             /\ UNCHANGED <<conn, reported, disconnected, heartbeat, teardown>>
          \/ /\ sockets[conn] = "broken"
             /\ CloseConnection(who)
    \/ /\ state # "connected"
       /\ UNCHANGED <<connection, teardown>>

\* Whether it is in _close_connection then.
Raises == state = "connected" /\ sockets[conn] = "broken"

\* Wrong: the primary is not tried again.
ServeOnly(s) ==
    /\ conn' = s /\ served' = s
    /\ state' = "connected" /\ reported' = uri
    /\ disconnected' = FALSE
    /\ timers' = timers \cup {"heartbeat"}
    /\ receiver' = "reading"
    /\ primary' = "none"
    /\ run' = "serving"
    /\ UNCHANGED <<heartbeat, candidate>>

\* A connection with its Connect-Accept: _handle_connect_accept, and the tasks.
Serve(s) ==
    /\ conn' = s /\ served' = s
    /\ state' = "connected" /\ reported' = uri
    /\ disconnected' = FALSE
    /\ timers' = timers \cup {"heartbeat"}
    /\ receiver' = "reading"
    /\ primary' = IF uri = 0 THEN "none" ELSE "opening"
    /\ run' = "serving"
    /\ UNCHANGED <<heartbeat, candidate>>

(***************************************************************************)
(* The run task                                                            *)
(***************************************************************************)

RunBegins ==
    /\ run = "begun" /\ run' = "top"
    /\ UNCHANGED <<connection, uri, served, replacement, cancelled, helpers, teardown,
                   caller, world>>

\* The head of the loop.
RunLoops ==
    /\ run = "top"
    /\ \/ /\ closing
          /\ run' = "final"
          /\ UNCHANGED <<connection, served, replacement, helpers>>
       \/ /\ ~closing /\ replacement = None
          /\ state' = "awaitingWebSocket"
          /\ run' = "opening"
          /\ UNCHANGED <<conn, reported, disconnected, heartbeat, timers, served,
                         replacement, helpers>>
       \/ /\ ~closing /\ replacement # None
          /\ Serve(replacement)
          /\ replacement' = None
    /\ UNCHANGED <<uri, cancelled, teardown, caller, world>>

\* After the time to retry the socket is opened, if the hub is there.
OpenSocket(s, hub) ==
    /\ hub \in up
    /\ sockets' = [sockets EXCEPT ![s] = "open"]
    /\ hubOf' = [hubOf EXCEPT ![s] = hub]
    /\ UNCHANGED <<up, troubles>>

RunOpens ==
    /\ run = "opening" /\ run' = "establishing"
    /\ \E s \in Free : OpenSocket(s, uri) /\ served' = s
    /\ UNCHANGED <<connection, uri, replacement, cancelled, helpers, teardown, caller>>

RunAccepted ==
    /\ run = "establishing" /\ sockets[served] = "open"
    /\ Serve(served)
    /\ UNCHANGED <<uri, replacement, cancelled, teardown, caller, world>>

\* The hub does not accept: the socket is closed before anything else.
RunRefused ==
    /\ run = "establishing" /\ run' = "abandoning"
    /\ \/ sockets[served] # "open" /\ UNCHANGED troubles
       \/ sockets[served] = "open" /\ Trouble
    /\ UNCHANGED <<connection, uri, served, replacement, cancelled, helpers, teardown,
                   caller, sockets, hubOf, up>>

\* The attempt has failed, without a hub or after that.
AttemptFailed ==
    /\ state' = "idle"
    /\ uri' = 1 - uri
    /\ run' = "top"
    /\ UNCHANGED <<conn, reported, disconnected, heartbeat, timers>>

RunFails ==
    /\ run = "opening" /\ uri \notin up
    /\ AttemptFailed
    /\ UNCHANGED <<served, replacement, cancelled, helpers, teardown, caller, world>>

RunAbandoned ==
    /\ run = "abandoning"
    /\ sockets' = [sockets EXCEPT ![served] = "free"]
    /\ \/ cancelled # "thrown" /\ AttemptFailed
       \/ cancelled = "thrown" /\ run' = "final" /\ UNCHANGED <<connection, uri>>
    /\ UNCHANGED <<served, replacement, cancelled, helpers, teardown, caller,
                   hubOf, up, troubles>>

\* The cleanup after serving: both tasks are canceled, then gathered.
StopTasks ==
    /\ receiver' = "ended"
    /\ \/ primary' = CASE primary \in {"opening", "abandoning"} -> "ended"
                       [] primary = "establishing" -> "abandoning"
                       [] OTHER -> primary
       \/ Swallows /\ primary = "establishing" /\ sockets[candidate] = "open"
          /\ primary' = "done"
    /\ sockets' = [s \in Sockets |-> IF primary = "abandoning" /\ s = candidate
                                     THEN "lingering" ELSE sockets[s]]
    /\ run' = "gathering"
    /\ UNCHANGED <<candidate, hubOf, up, troubles>>

RunStops ==
    /\ StopTasks
    /\ closers' = Without(closers, "receiver")
    /\ UNCHANGED <<connection, uri, served, closeTask, caller>>

\* The receiver has ended, the primary's task has not.
ReceiverDone ==
    /\ run = "serving" /\ receiver = "ended" /\ primary # "done"
    /\ RunStops
    /\ UNCHANGED <<replacement, cancelled>>

\* The primary's task has a connection: leave this one.
PrimaryDone ==
    /\ run = "serving" /\ primary = "done"
    /\ replacement' = candidate /\ candidate' = None /\ primary' = "ended"
    /\ LocalDisconnect("run")
    /\ run' = IF Raises THEN "sending" ELSE "replacing"
    /\ UNCHANGED <<uri, served, cancelled, receiver, caller, world>>

Replaces ==
    /\ run = "replacing" /\ disconnected
    /\ RunStops
    /\ UNCHANGED <<replacement, cancelled>>

\* The tasks are over.  A connection to the primary that nobody wanted is closed.
Gathered ==
    /\ run = "gathering" /\ primary \in {"none", "ended", "done"}
    /\ \/ /\ primary = "done"
          /\ run' = "dropping"
          /\ UNCHANGED <<connection, teardown>>
       \/ /\ primary # "done"
          /\ run' = "closing"
          /\ CloseConnection("run")
    /\ UNCHANGED <<uri, served, replacement, cancelled, helpers, caller, world>>

Dropped ==
    /\ run = "dropping"
    /\ sockets' = [sockets EXCEPT ![candidate] = "free"]
    /\ candidate' = None /\ primary' = "ended"
    /\ run' = "closing"
    /\ CloseConnection("run")
    /\ UNCHANGED <<uri, served, replacement, cancelled, receiver, caller, hubOf, up, troubles>>

\* The end of the run task.
Disposes ==
    /\ run = "final"
    /\ \/ /\ replacement # None
          /\ run' = "disposing"
          /\ UNCHANGED <<connection, teardown>>
       \/ /\ replacement = None
          /\ run' = "ending"
          /\ CloseConnection("run")
    /\ UNCHANGED <<uri, served, replacement, cancelled, helpers, caller, world>>

Disposed ==
    /\ run = "disposing"
    /\ sockets' = [sockets EXCEPT ![replacement] = "free"]
    /\ replacement' = None
    /\ run' = "ending"
    /\ CloseConnection("run")
    /\ UNCHANGED <<uri, served, cancelled, helpers, caller, hubOf, up, troubles>>

\* It leaves its place, and of some socket what the mark says.
Leaves(place, which, mark) ==
    /\ run' = place
    /\ sockets' = [s \in Sockets |-> IF s = which THEN mark ELSE sockets[s]]
    /\ closers' = Without(closers, "run")

LeadsTo == [begun |-> "finished", opening |-> "final", establishing |-> "abandoning",
            abandoning |-> "final", closing |-> "final", ending |-> "finished", finished |-> "finished"]

\* Where it awaits when the cancelation arrives, and where that takes it.
RunCancelled ==
    /\ cancelled = "asked"
    /\ cancelled' = IF run = "finished" THEN "no" ELSE "thrown"
    /\ \/ /\ run \in {"serving", "replacing", "sending"}
          /\ StopTasks
          /\ closers' = Without(Without(closers, "receiver"), "run")
          /\ UNCHANGED replacement
       \/ /\ run = "gathering" /\ primary' = "ended"
          /\ Leaves("final", IF primary \in {"abandoning", "done"} THEN candidate ELSE None,
                    IF primary = "done" THEN "leaked" ELSE "lingering")
          /\ UNCHANGED <<receiver, candidate, replacement, hubOf, up, troubles>>
       \/ /\ run = "dropping" /\ primary' = "ended" /\ candidate' = None
          /\ Leaves("final", candidate, "lingering")
          /\ UNCHANGED <<receiver, replacement, hubOf, up, troubles>>
       \/ /\ run = "disposing" /\ replacement' = None
          /\ Leaves("finished", replacement, "lingering")
          /\ UNCHANGED <<helpers, hubOf, up, troubles>>
       \/ /\ run \in DOMAIN LeadsTo
          /\ Leaves(LeadsTo[run], IF run = "abandoning" THEN served ELSE None, "lingering")
          /\ UNCHANGED <<helpers, replacement, hubOf, up, troubles>>
    /\ UNCHANGED <<connection, uri, served, closeTask, caller>>

\* The result is there as well, and is what wait_for answers.
RunSwallows ==
    /\ Swallows /\ cancelled = "asked" /\ cancelled' = "no"
    /\ \/ /\ run = "opening" /\ run' = "establishing"
          /\ \E s \in Free : OpenSocket(s, uri) /\ served' = s
          /\ UNCHANGED <<connection, helpers>>
       \/ /\ run = "establishing" /\ sockets[served] = "open"
          /\ Serve(served)
          /\ UNCHANGED world
    /\ UNCHANGED <<uri, replacement, teardown, caller>>

(***************************************************************************)
(* The teardown of a connection                                            *)
(***************************************************************************)

\* _close_socket: the closing handshake, or the end of its time.
SocketCloses ==
    /\ closeTask # None /\ closeTask' = None
    /\ sockets' = [sockets EXCEPT ![closeTask] = "free"]
    /\ UNCHANGED <<connection, runTask, helpers, closers, caller, hubOf, up, troubles>>

\* What comes after _close_connection, at each place that awaits it.
AfterClose == [sending |-> "replacing", closing |-> "top", ending |-> "finished",
               disconnecting |-> "waiting", last |-> "no"]

\* Wrong: the next connection is tried at the hub of the last.
ResumesKeeping ==
    /\ closers # <<>> /\ closeTask = None
    /\ closers' = Tail(closers)
    /\ disconnected' = TRUE
    /\ run' = IF Head(closers) # "run" THEN run
              ELSE IF run = "closing" /\ cancelled = "thrown" THEN "final" ELSE AfterClose[run]
    /\ receiver' = IF Head(closers) = "receiver" THEN "reading" ELSE receiver
    /\ closer' = IF Head(closers) = "close" THEN AfterClose[closer] ELSE closer
    /\ UNCHANGED <<state, conn, reported, heartbeat, timers, uri, served, replacement,
                   cancelled, primary, candidate, closeTask, closing, starts, world>>

\* Whoever awaits the closing of the socket goes on, the first one first.
Resumes ==
    /\ closers # <<>> /\ closeTask = None
    /\ closers' = Tail(closers)
    /\ disconnected' = TRUE
    /\ run' = IF Head(closers) # "run" THEN run
              ELSE IF run = "closing" /\ cancelled = "thrown" THEN "final" ELSE AfterClose[run]
    /\ uri' = IF Head(closers) = "run" /\ run' = "top" THEN 0 ELSE uri
    /\ receiver' = IF Head(closers) = "receiver" THEN "reading" ELSE receiver
    /\ closer' = IF Head(closers) = "close" THEN AfterClose[closer] ELSE closer
    /\ UNCHANGED <<state, conn, reported, heartbeat, timers, served, replacement,
                   cancelled, primary, candidate, closeTask, closing, starts, world>>

(***************************************************************************)
(* The receiver                                                            *)
(***************************************************************************)

\* The socket is closed, by whichever side.
ReceiverEnds ==
    /\ receiver = "reading"
    /\ conn # served \/ sockets[served] = "broken"
    /\ receiver' = "ended"
    /\ UNCHANGED <<connection, runTask, primary, candidate, teardown, caller, world>>

Reads == receiver = "reading" /\ served \in {conn, closeTask} /\ sockets[served] = "open"

HeartbeatAcknowledged ==
    /\ Reads /\ heartbeat
    /\ heartbeat' = FALSE
    /\ timers' = (timers \ {"heartbeat_ack"})
                 \cup (IF state = "connected" THEN {"heartbeat"} ELSE {})
    /\ UNCHANGED <<state, conn, reported, disconnected, runTask, helpers, teardown,
                   caller, world>>

\* A Disconnect-ACK that is awaited; or, at any time, a Disconnect-Request or a
\* Result that says no, whatever it says no to.
Dismissed ==
    /\ Reads
    /\ \/ state = "disconnecting" /\ UNCHANGED troubles
       \/ Trouble
    /\ receiver' = "closing"
    /\ CloseConnection("receiver")
    /\ UNCHANGED <<runTask, primary, candidate, caller, sockets, hubOf, up>>

(***************************************************************************)
(* The timers                                                              *)
(***************************************************************************)

\* _fsm_heartbeat
Heartbeat ==
    /\ "heartbeat" \in timers
    /\ \/ /\ sockets[conn] # "broken"
          /\ heartbeat' = TRUE
          /\ timers' = (timers \ {"heartbeat"}) \cup {"heartbeat_ack"}
          /\ UNCHANGED <<state, conn, reported, disconnected, teardown>>
       \/ /\ sockets[conn] = "broken"
          /\ CloseConnection("timer")
    /\ UNCHANGED <<runTask, helpers, caller, world>>

\* No acknowledgement in time: there is none, or the hub is slow.
HeartbeatUnanswered ==
    /\ "heartbeat_ack" \in timers
    /\ \/ sockets[conn] # "open" /\ UNCHANGED troubles
       \/ sockets[conn] = "open" /\ Trouble
    /\ LocalDisconnect("timer")
    /\ UNCHANGED <<runTask, helpers, caller, sockets, hubOf, up>>

DisconnectUnanswered ==
    /\ "disconnect_wait" \in timers
    /\ CloseConnection("timer")
    /\ UNCHANGED <<runTask, helpers, caller, world>>

(***************************************************************************)
(* _restore_primary                                                        *)
(***************************************************************************)

PrimaryOpens ==
    /\ primary = "opening" /\ primary' = "establishing"
    /\ \E s \in Free : OpenSocket(s, 0) /\ candidate' = s
    /\ UNCHANGED <<connection, runTask, receiver, teardown, caller>>

PrimaryAccepted ==
    /\ primary = "establishing" /\ sockets[candidate] = "open"
    /\ primary' = "done"
    /\ UNCHANGED <<connection, runTask, receiver, candidate, teardown, caller, world>>

PrimaryRefused ==
    /\ primary = "establishing" /\ primary' = "abandoning"
    /\ \/ sockets[candidate] # "open" /\ UNCHANGED troubles
       \/ sockets[candidate] = "open" /\ Trouble
    /\ UNCHANGED <<connection, runTask, receiver, candidate, teardown, caller, sockets,
                   hubOf, up>>

\* Its socket is closed; it tries again, unless it has been canceled.
PrimaryAbandoned ==
    /\ primary = "abandoning"
    /\ primary' = IF run = "gathering" THEN "ended" ELSE "opening"
    /\ sockets' = [sockets EXCEPT ![candidate] = "free"]
    /\ candidate' = None
    /\ UNCHANGED <<connection, runTask, receiver, teardown, caller, hubOf, up, troubles>>

(***************************************************************************)
(* start and close; close is over before either is called again            *)
(***************************************************************************)

Start ==
    /\ run = "none" /\ closer = "no" /\ starts < MaxStarts
    /\ starts' = starts + 1
    /\ closing' = FALSE
    /\ run' = "begun"
    /\ UNCHANGED <<connection, uri, served, replacement, cancelled, helpers, teardown,
                   closer, world>>

CloseCall ==
    /\ closer = "no" /\ run # "none"
    /\ closing' = TRUE
    /\ \/ /\ state = "connected"
          /\ LocalDisconnect("close")
          /\ closer' = IF Raises THEN "disconnecting" ELSE "waiting"
          /\ UNCHANGED cancelled
       \/ /\ state # "connected"
          /\ cancelled' = "asked" /\ closer' = "gathering"
          /\ UNCHANGED <<connection, teardown>>
    /\ UNCHANGED <<uri, run, served, replacement, helpers, starts, world>>

CloseDisconnected ==
    /\ closer = "waiting" /\ disconnected
    /\ cancelled' = "asked" /\ closer' = "gathering"
    /\ UNCHANGED <<connection, uri, run, served, replacement, helpers, teardown, closing,
                   starts, world>>

CloseGathered ==
    /\ closer = "gathering" /\ run = "finished" /\ cancelled # "asked"
    /\ run' = "none" /\ cancelled' = "no" /\ closer' = "last"
    /\ CloseConnection("close")
    /\ UNCHANGED <<uri, served, replacement, helpers, closing, starts, world>>

(***************************************************************************)
(* The hubs, and the sockets to them                                       *)
(***************************************************************************)

\* Its sockets break, or nothing is heard on them any more.
HubGoes ==
    \E hub \in up, mark \in {"broken", "silent"} :
        /\ Trouble
        /\ up' = up \ {hub}
        /\ sockets' = [s \in Sockets |-> IF sockets[s] = "open" /\ hubOf[s] = hub
                                         THEN mark ELSE sockets[s]]
        /\ UNCHANGED <<connection, runTask, helpers, teardown, caller, hubOf>>

HubComes ==
    \E hub \in Hubs \ up :
        /\ up' = up \cup {hub}
        /\ UNCHANGED <<connection, runTask, helpers, teardown, caller, sockets, hubOf,
                       troubles>>

SocketFails ==
    \E s \in Sockets, mark \in {"broken", "silent"} :
        /\ sockets[s] = "open" /\ Trouble
        /\ sockets' = [sockets EXCEPT ![s] = mark]
        /\ UNCHANGED <<connection, runTask, helpers, teardown, caller, hubOf, up>>

\* A socket whose closing was interrupted is closed by the library.
LibraryCloses ==
    \E s \in Sockets :
        /\ sockets[s] = "lingering"
        /\ sockets' = [sockets EXCEPT ![s] = "free"]
        /\ UNCHANGED <<connection, runTask, helpers, teardown, caller, hubOf, up, troubles>>

(***************************************************************************)
(* Specification                                                           *)
(***************************************************************************)

Init ==
    /\ state = "idle" /\ conn = None /\ reported = None /\ disconnected = TRUE
    /\ heartbeat = FALSE /\ timers = {}
    /\ uri = 0 /\ run = "none" /\ served = None /\ replacement = None /\ cancelled = "no"
    /\ receiver = "ended" /\ primary = "none" /\ candidate = None
    /\ closeTask = None /\ closers = <<>>
    /\ closing = FALSE /\ closer = "no" /\ starts = 0
    /\ sockets = [s \in Sockets |-> "free"] /\ hubOf = [s \in Sockets |-> None]
    /\ up \in SUBSET Hubs /\ troubles = 0

\* What the run task does when nobody has asked it to stop.
RunGoesOn ==
    /\ cancelled # "asked"
    /\ \/ RunBegins \/ RunOpens \/ RunFails \/ RunAccepted \/ RunRefused \/ RunAbandoned
       \/ ReceiverDone \/ PrimaryDone \/ Replaces \/ Gathered \/ Dropped \/ Disposed

\* It does not give way there.
RunHolds == RunLoops \/ Disposes

Others ==
    \/ RunCancelled \/ RunSwallows \/ SocketCloses \/ Resumes
    \/ ReceiverEnds \/ HeartbeatAcknowledged \/ Dismissed
    \/ Heartbeat \/ HeartbeatUnanswered \/ DisconnectUnanswered
    \/ PrimaryOpens \/ PrimaryAccepted \/ PrimaryRefused \/ PrimaryAbandoned
    \/ Start \/ CloseCall \/ CloseDisconnected \/ CloseGathered
    \/ HubGoes \/ HubComes \/ SocketFails \/ LibraryCloses

Next ==
    \/ RunHolds
    \/ run \notin {"top", "final"} /\ (RunGoesOn \/ Others)

Spec == Init /\ [][Next]_vars

\* The tasks run, timers go off, the sockets that are closed are closed in the
\* end, and a hub that is there answers.  Nothing is promised of the hubs, of
\* start() and of close().
FairSpec ==
    /\ Spec
    /\ WF_vars(RunHolds) /\ WF_vars(RunGoesOn)
    /\ WF_vars(RunCancelled \/ RunSwallows)
    /\ WF_vars(SocketCloses) /\ WF_vars(Resumes) /\ WF_vars(LibraryCloses)
    /\ WF_vars(ReceiverEnds) /\ WF_vars(HeartbeatAcknowledged)
    /\ WF_vars(Heartbeat) /\ WF_vars(HeartbeatUnanswered) /\ WF_vars(DisconnectUnanswered)
    /\ WF_vars(PrimaryOpens) /\ WF_vars(PrimaryAccepted \/ PrimaryRefused)
    /\ WF_vars(PrimaryAbandoned)
    /\ WF_vars(CloseDisconnected) /\ WF_vars(CloseGathered)

(***************************************************************************)
(* Properties                                                              *)
(***************************************************************************)

\* When close() has returned, every socket the connector opened is closed, or
\* left to the library in the middle of its closing, whatever the run task, the
\* receiver and the primary's task were at; and no task and no timer is left.  Except,
\* where a cancelation can be lost: the connection to the primary that is accepted
\* while its task is canceled, if close() cancels the run task before it drops that.
NothingLeft ==
    closing /\ closer = "no" =>
        /\ \A s \in Sockets :
              sockets[s] \in {"free", "lingering"} \cup (IF Swallows THEN {"leaked"} ELSE {})
        /\ conn = None /\ reported = None /\ timers = {}
        /\ run = "none" /\ closers = <<>> /\ closeTask = None

\* The hub that _set_connector_state reports, to which the Network Port object
\* answers, is the one at the other end of the connection, from the primary's
\* replacement of the failover hub on as well; and who finds _disconnected set has
\* no connection.
ConnectedTruly ==
    /\ reported # None => conn # None /\ hubOf[conn] = reported
    /\ state = "connected" => conn # None /\ ~disconnected

\* A connector that is not closed comes back to the primary hub and stays there
\* once the primary is up for good: from the failover hub, from a half-open
\* socket, from a failed attempt.
ReturnsToPrimary ==
    <>[](0 \in up /\ run # "none" /\ ~closing) => <>[](state = "connected" /\ reported = 0)

\* close() returns, whatever the connector and the hubs are at, if the run task
\* does not lose the cancelation and connect after all.
CloseEnds == closer # "no" ~> closer = "no" \/ (Swallows /\ state = "connected")

\* Not so where it can be lost: "Gracefully disconnect and stop maintaining the
\* connection" (sc/service.py:1288).
CloseStops == closer # "no" ~> closer = "no"
=============================================================================
