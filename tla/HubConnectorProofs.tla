------------------------- MODULE HubConnectorProofs -------------------------
(***************************************************************************)
(* The hub connector for any number of sockets, failures and starts, on a  *)
(* Python that can lose a cancelation and on one that cannot: when close() *)
(* has returned nothing is left, and the hub that is reported is the one   *)
(* at the other end.                                                       *)
(*                                                                         *)
(* Several tasks share the attributes of the connector. What one of them   *)
(* may find there when it goes on depends on where the others await, so    *)
(* the invariant says which of them can be where, who owns each socket,    *)
(* and who stands in the queue of those that await the closing of one. It  *)
(* is kept by every action: a lemma for each.                              *)
(***************************************************************************)
EXTENDS HubConnector, TLAPS

\* Who may await the closing of a socket.
Tasks == {"run", "receiver", "close", "timer"}

\* The socket has to be closed by somebody.
Live(s) == sockets[s] \in {"open", "silent", "broken"}

HubTypeOK ==
    /\ state \in {"idle", "awaitingWebSocket", "connected", "disconnecting"}
    /\ conn \in Sockets \cup {None}
    /\ reported \in Hubs \cup {None}
    /\ disconnected \in BOOLEAN
    /\ heartbeat \in BOOLEAN
    /\ timers \in SUBSET {"heartbeat", "heartbeat_ack", "disconnect_wait"}
    /\ uri \in Hubs
    /\ run \in {"none", "begun", "top", "opening", "establishing", "abandoning", "serving",
                "sending", "replacing", "gathering", "dropping", "closing", "final",
                "disposing", "ending", "finished"}
    /\ served \in Sockets \cup {None}
    /\ replacement \in Sockets \cup {None}
    /\ cancelled \in {"no", "asked", "thrown"}
    /\ receiver \in {"reading", "closing", "ended"}
    /\ primary \in {"none", "opening", "establishing", "abandoning", "done", "ended"}
    /\ candidate \in Sockets \cup {None}
    /\ closeTask \in Sockets \cup {None}
    /\ closers \in Seq(Tasks)
    /\ closing \in BOOLEAN
    /\ closer \in {"no", "disconnecting", "waiting", "gathering", "last"}
    /\ starts \in Nat
    /\ sockets \in [Sockets -> {"free", "open", "silent", "broken", "lingering", "leaked"}]
    /\ hubOf \in [Sockets -> Hubs \cup {None}]
    /\ up \in SUBSET Hubs
    /\ troubles \in Nat

\* While there is a connection it is the one that the run task serves or cleans up,
\* its hub is reported, and nobody awaits a closing; without one nothing is
\* reported and no timer runs.
Connection ==
    /\ conn = None =>
         /\ state \notin {"connected", "disconnecting"}
         /\ reported = None /\ timers = {} /\ heartbeat = FALSE
    /\ conn # None =>
         /\ conn = served /\ closers = <<>> /\ closeTask = None
         /\ reported = hubOf[conn] /\ disconnected = FALSE /\ Live(conn)
         /\ run \in {"serving", "replacing", "gathering", "dropping", "final", "disposing"}
         /\ run \in {"final", "disposing"} => cancelled = "thrown"

\* Which of the tasks can be where together: there is a receiver, and the primary is
\* tried, only while the run task serves or takes its leave; and it is canceled only
\* by a close() that waits for it.
Places ==
    /\ run \in {"begun", "top", "opening", "establishing", "abandoning"} =>
          closers = <<>> /\ closeTask = None
    /\ run = "none" => closer \in {"no", "last"}
    /\ run = "none" /\ closer = "no" => closers = <<>> /\ closeTask = None
    /\ closer = "last" => run = "none"
    /\ closer = "no" /\ run # "none" => closing = FALSE
    /\ cancelled # "no" => closer = "gathering"
    /\ receiver # "ended" => run \in {"serving", "replacing", "sending"}
    /\ primary \in {"opening", "establishing"} => run = "serving"
    /\ primary = "abandoning" => run \in {"serving", "gathering"}
    /\ primary = "done" => run \in {"serving", "gathering", "dropping"}
    /\ run = "dropping" => primary = "done"
    /\ run = "gathering" /\ primary = "done" => Swallows \/ cancelled = "thrown"

\* The primary's task, or the run task, has a socket that is not the connection.
PrimaryLive == primary \in {"establishing", "abandoning", "done"}
Establishing == run \in {"establishing", "abandoning"}

\* The sockets in use are different ones, each live and of the hub it is for.
SocketsApart ==
    /\ PrimaryLive =>
         /\ candidate \in Sockets /\ Live(candidate) /\ hubOf[candidate] = 0
         /\ candidate # conn /\ candidate # closeTask /\ replacement = None
    /\ replacement # None =>
         /\ Live(replacement) /\ hubOf[replacement] = 0
         /\ replacement # conn /\ replacement # closeTask
         /\ run \in {"sending", "replacing", "gathering", "closing", "top", "final",
                    "disposing"}
         /\ run = "top" => uri = 0
    /\ run = "disposing" => replacement # None
    /\ closeTask # None => Live(closeTask)
    /\ Establishing => served \in Sockets /\ Live(served)
    /\ run = "establishing" => hubOf[served] = uri

\* Every task stands in the queue once; only of the tasks that timers make there may
\* be several.
Once(tasks) ==
    \A i, j \in 1..Len(tasks) : tasks[i] = tasks[j] /\ tasks[i] # "timer" => i = j

\* The run task and close() come last, so nobody is behind them when they go on.
Closers ==
    /\ Once(closers)
    /\ "run" \in ToSet(closers) =>
         /\ run \in {"sending", "closing", "ending"}
         /\ run # "sending" => Last(closers) = "run"
    /\ "receiver" \in ToSet(closers) => receiver = "closing"
    /\ "close" \in ToSet(closers) =>
         /\ closer \in {"disconnecting", "last"}
         /\ closer = "last" => Last(closers) = "close"

\* A live socket has an owner, and only a lost cancelation takes it away.
Owned ==
    \A s \in Sockets :
        /\ Live(s) =>
             \/ s = conn \/ s = closeTask \/ s = replacement
             \/ Establishing /\ s = served
             \/ PrimaryLive /\ s = candidate
        /\ sockets[s] = "leaked" => Swallows

HubInv == HubTypeOK /\ Connection /\ Places /\ SocketsApart /\ Closers /\ Owned

-----------------------------------------------------------------------------
(* The queue of those who await the closing of a socket.                   *)

\* What an appended task changes.
LEMMA Appended ==
    ASSUME NEW tasks \in Seq(Tasks), NEW who \in Tasks, Once(tasks),
           who = "timer" \/ who \notin ToSet(tasks)
    PROVE  /\ Append(tasks, who) \in Seq(Tasks)
           /\ Once(Append(tasks, who))
           /\ ToSet(Append(tasks, who)) = ToSet(tasks) \cup {who}
           /\ Last(Append(tasks, who)) = who
           /\ Append(tasks, who) # <<>>
<1> DEFINE longer == Append(tasks, who)
<1>1. /\ longer \in Seq(Tasks) /\ Len(longer) = Len(tasks) + 1 /\ Len(tasks) \in Nat
      /\ longer[Len(longer)] = who
      /\ \A i \in 1..Len(tasks) : longer[i] = tasks[i]
  OBVIOUS
<1>2. ToSet(longer) = ToSet(tasks) \cup {who}
  BY <1>1 DEF ToSet
<1>3. Once(longer)
  <2> SUFFICES ASSUME NEW i \in 1..Len(longer), NEW j \in 1..Len(longer),
                      longer[i] = longer[j], longer[i] # "timer"
               PROVE  i = j
    BY DEF Once
  <2>1. CASE i \in 1..Len(tasks) /\ j \in 1..Len(tasks)
    BY <1>1, <2>1 DEF Once
  <2>2. CASE i = Len(tasks) + 1 \/ j = Len(tasks) + 1
    BY <1>1, <2>2 DEF ToSet
  <2> QED
    BY <1>1, <2>1, <2>2
<1> QED
  BY <1>1, <1>2, <1>3 DEF Last

\* What is left when the first task goes on.
LEMMA Gone ==
    ASSUME NEW tasks \in Seq(Tasks), tasks # <<>>, Once(tasks)
    PROVE  /\ Head(tasks) \in ToSet(tasks)
           /\ Tail(tasks) \in Seq(Tasks)
           /\ Once(Tail(tasks))
           /\ ToSet(Tail(tasks)) \subseteq ToSet(tasks)
           /\ Head(tasks) # "timer" => Head(tasks) \notin ToSet(Tail(tasks))
           /\ Tail(tasks) # <<>> => Last(Tail(tasks)) = Last(tasks)
           /\ Head(tasks) # "timer" /\ Last(tasks) = Head(tasks) => Tail(tasks) = <<>>
<1> DEFINE left == Tail(tasks)
<1>1. /\ left \in Seq(Tasks) /\ Len(left) = Len(tasks) - 1
      /\ Len(tasks) \in Nat /\ Len(tasks) > 0
      /\ \A i \in 1..Len(left) : left[i] = tasks[i + 1]
      /\ Head(tasks) = tasks[1]
  OBVIOUS
<1>2. ToSet(left) \subseteq ToSet(tasks) /\ Head(tasks) \in ToSet(tasks)
  BY <1>1 DEF ToSet
<1>3. Once(left)
  BY <1>1 DEF Once
<1>4. Head(tasks) # "timer" => Head(tasks) \notin ToSet(left)
  BY <1>1 DEF Once, ToSet
<1>5. left # <<>> => Last(left) = Last(tasks)
  <2>1. left # <<>> => Len(left) > 0
    BY <1>1
  <2> QED
    BY <1>1, <2>1 DEF Last
<1>6. Head(tasks) # "timer" /\ Last(tasks) = Head(tasks) => left = <<>>
  <2>1. Head(tasks) # "timer" /\ Last(tasks) = Head(tasks) => Len(tasks) = 1
    BY <1>1 DEF Once, Last
  <2> QED
    BY <1>1, <2>1
<1> QED
  BY <1>1, <1>2, <1>3, <1>4, <1>5, <1>6

\* Two queues put together.
LEMMA Joined ==
    ASSUME NEW first \in Seq(Tasks), NEW rest \in Seq(Tasks)
    PROVE  /\ first \o rest \in Seq(Tasks)
           /\ Len(first \o rest) = Len(first) + Len(rest)
           /\ \A i \in 1..Len(first) : (first \o rest)[i] = first[i]
           /\ \A i \in 1..Len(rest) : (first \o rest)[Len(first) + i] = rest[i]
OBVIOUS

\* What is left when a task is no longer called.
LEMMA Uncalled ==
    ASSUME NEW tasks \in Seq(Tasks), NEW who, who # "timer", Once(tasks)
    PROVE  /\ Without(tasks, who) \in Seq(Tasks)
           /\ Once(Without(tasks, who))
           /\ ToSet(Without(tasks, who)) \subseteq ToSet(tasks) \ {who}
           /\ tasks = <<>> => Without(tasks, who) = <<>>
           /\ Last(tasks) # who /\ tasks # <<>> => Last(Without(tasks, who)) = Last(tasks)
<1>1. CASE who \notin ToSet(tasks)
  BY <1>1 DEF Without
<1>2. CASE who \in ToSet(tasks)
  <2> DEFINE at == CHOOSE i \in 1..Len(tasks) : tasks[i] = who
             before == SubSeq(tasks, 1, at - 1)
             after == SubSeq(tasks, at + 1, Len(tasks))
             left == Without(tasks, who)
  <2>1. at \in 1..Len(tasks) /\ tasks[at] = who
    BY <1>2 DEF ToSet
  <2>2. left = before \o after
    BY <1>2 DEF Without, RemoveAt
  <2> HIDE DEF at, left
  <2>3. /\ before \in Seq(Tasks) /\ Len(before) = at - 1
        /\ \A i \in 1..(at - 1) : before[i] = tasks[i]
    BY <2>1
  <2>4. /\ after \in Seq(Tasks) /\ Len(after) = Len(tasks) - at
        /\ \A i \in 1..(Len(tasks) - at) : after[i] = tasks[at + i]
    BY <2>1
  <2> HIDE DEF before, after
  <2>5. /\ left \in Seq(Tasks) /\ Len(left) = Len(tasks) - 1
        /\ \A i \in 1..(at - 1) : left[i] = before[i]
        /\ \A i \in 1..(Len(tasks) - at) : left[at - 1 + i] = after[i]
    <3>1. /\ left \in Seq(Tasks) /\ Len(left) = Len(before) + Len(after)
          /\ \A i \in 1..Len(before) : left[i] = before[i]
          /\ \A i \in 1..Len(after) : left[Len(before) + i] = after[i]
      BY <2>2, <2>3, <2>4, Joined
    <3> QED
      BY <2>1, <2>3, <2>4, <3>1
  <2>6. \A i \in 1..Len(left) : left[i] = tasks[IF i < at THEN i ELSE i + 1]
    <3> SUFFICES ASSUME NEW i \in 1..Len(left)
                 PROVE  left[i] = tasks[IF i < at THEN i ELSE i + 1]
      OBVIOUS
    <3>1. CASE i < at
      BY <2>1, <2>3, <2>5, <3>1
    <3>2. CASE ~(i < at)
      <4>1. i - at + 1 \in 1..(Len(tasks) - at) /\ at - 1 + (i - at + 1) = i
        BY <2>1, <2>5, <3>2
      <4>2. left[i] = after[i - at + 1] /\ at + (i - at + 1) = i + 1
        BY <2>1, <2>5, <4>1
      <4> QED
        BY <2>4, <3>2, <4>1, <4>2
    <3> QED
      BY <3>1, <3>2
  <2>7. Once(left)
    <3> SUFFICES ASSUME NEW i \in 1..Len(left), NEW j \in 1..Len(left),
                        left[i] = left[j], left[i] # "timer"
                 PROVE  i = j
      BY DEF Once
    <3> DEFINE p == IF i < at THEN i ELSE i + 1
               q == IF j < at THEN j ELSE j + 1
    <3>1. p \in 1..Len(tasks) /\ q \in 1..Len(tasks) /\ (p = q => i = j)
      BY <2>1, <2>5
    <3>2. tasks[p] = tasks[q] /\ tasks[p] # "timer"
      BY <2>6
    <3> HIDE DEF p, q
    <3> QED
      BY <3>1, <3>2 DEF Once
  <2>8. ToSet(left) \subseteq ToSet(tasks) \ {who}
    <3> SUFFICES ASSUME NEW i \in 1..Len(left)
                 PROVE  left[i] \in ToSet(tasks) /\ left[i] # who
      BY <2>5 DEF ToSet
    <3>1. /\ (IF i < at THEN i ELSE i + 1) \in 1..Len(tasks)
          /\ (IF i < at THEN i ELSE i + 1) # at
      BY <2>1, <2>5
    <3> QED
      BY <2>1, <2>6, <3>1 DEF ToSet, Once
  <2>9. Last(tasks) # who => Last(left) = Last(tasks)
    <3> SUFFICES ASSUME tasks[Len(tasks)] # who PROVE left[Len(left)] = tasks[Len(tasks)]
      BY DEF Last
    <3>1. at < Len(tasks) /\ Len(left) \in 1..Len(left) /\ ~(Len(left) < at)
      BY <2>1, <2>5
    <3> QED
      BY <2>5, <2>6, <3>1
  <2>10. tasks # <<>>
    BY <2>1
  <2> QED
    BY <2>5, <2>7, <2>8, <2>9, <2>10 DEF left
<1> QED
  BY <1>1, <1>2

USE HubAssumption DEF HubAssumption, Hubs, connection, runTask, helpers, teardown, caller,
                      world

-----------------------------------------------------------------------------
(* The steps of the run task.                                              *)

\* The run task is not in the queue when it has to go there.
LEMMA RunJoins ==
    ASSUME HubInv, run \notin {"sending", "closing", "ending"},
           closers' = Append(closers, "run")
    PROVE  /\ closers' \in Seq(Tasks) /\ Once(closers')
           /\ ToSet(closers') = ToSet(closers) \cup {"run"} /\ Last(closers') = "run"
<1>1. closers \in Seq(Tasks) /\ Once(closers) /\ "run" \notin ToSet(closers)
  BY DEF HubInv, HubTypeOK, Closers
<1>2. "run" \in Tasks
  BY DEF Tasks
<1> QED
  BY <1>1, <1>2, Appended

LEMMA RunBeginsKeeps ==
    ASSUME HubInv, RunBegins
    PROVE  HubInv'
<1> USE DEF HubInv, RunBegins
<1>1. HubTypeOK'
  BY DEF HubTypeOK
<1>2. Connection'
  BY DEF Connection
<1>3. Places'
  BY DEF Places
<1>4. SocketsApart'
  BY DEF Places, SocketsApart, PrimaryLive, Establishing
<1>5. Closers'
  BY DEF Closers
<1>6. Owned'
  BY DEF Owned, Live, PrimaryLive, Establishing
<1> QED
  BY <1>1, <1>2, <1>3, <1>4, <1>5, <1>6

LEMMA RunLoopsKeeps ==
    ASSUME HubInv, RunLoops
    PROVE  HubInv'
<1> USE DEF HubInv, RunLoops, Serve
<1>1. HubTypeOK'
  <2>1. /\ closers' \in Seq(Tasks) /\ sockets' = sockets /\ hubOf' = hubOf
        /\ closing' \in BOOLEAN /\ heartbeat' \in BOOLEAN /\ disconnected' \in BOOLEAN
    BY DEF HubTypeOK
  <2>2. /\ state' \in {"idle", "awaitingWebSocket", "connected", "disconnecting"}
        /\ conn' \in Sockets \cup {None} /\ reported' \in Hubs \cup {None}
        /\ timers' \in SUBSET {"heartbeat", "heartbeat_ack", "disconnect_wait"}
    BY DEF HubTypeOK
  <2> QED
    BY <2>1, <2>2 DEF HubTypeOK
<1>2. Connection'
  BY DEF Connection, Places, SocketsApart, Live
<1>3. Places'
  BY DEF Places
<1>4. SocketsApart'
  BY DEF SocketsApart, Live, PrimaryLive, Establishing
<1>5. Closers'
  BY DEF Places, Closers
<1>6. Owned'
  BY DEF Connection, Places, Owned, Live, PrimaryLive, Establishing
<1> QED
  BY <1>1, <1>2, <1>3, <1>4, <1>5, <1>6

LEMMA RunOpensKeeps ==
    ASSUME HubInv, RunOpens
    PROVE  HubInv'
<1> USE DEF HubInv, RunOpens, OpenSocket, Free
<1>1. HubTypeOK'
  BY DEF HubTypeOK
<1>2. Connection'
  BY DEF Connection
<1>3. Places'
  BY DEF Places
<1>4. SocketsApart'
  BY DEF HubTypeOK, SocketsApart, Live, PrimaryLive
<1>5. Closers'
  BY DEF Closers
<1>6. Owned'
  BY DEF Owned, Live, PrimaryLive, Establishing
<1> QED
  BY <1>1, <1>2, <1>3, <1>4, <1>5, <1>6

LEMMA RunAcceptedKeeps ==
    ASSUME HubInv, RunAccepted
    PROVE  HubInv'
<1> USE DEF HubInv, RunAccepted, Serve
<1>1. HubTypeOK'
  BY DEF HubTypeOK, Places
<1>2. Connection'
  BY DEF Connection, Places, SocketsApart, Live, Establishing
<1>3. Places'
  BY DEF Places
<1>4. SocketsApart'
  BY DEF Places, SocketsApart, PrimaryLive, Establishing
<1>5. Closers'
  BY DEF Places, Closers
<1>6. Owned'
  BY DEF Connection, Places, Owned, Live, PrimaryLive
<1> QED
  BY <1>1, <1>2, <1>3, <1>4, <1>5, <1>6

LEMMA RunRefusedKeeps ==
    ASSUME HubInv, RunRefused
    PROVE  HubInv'
<1> USE DEF HubInv, RunRefused, Trouble
<1>1. HubTypeOK'
  BY DEF HubTypeOK
<1>2. Connection'
  BY DEF Connection
<1>3. Places'
  BY DEF Places
<1>4. SocketsApart'
  BY DEF SocketsApart, Live, PrimaryLive, Establishing
<1>5. Closers'
  BY DEF Closers
<1>6. Owned'
  BY DEF Owned, Live, PrimaryLive, Establishing
<1> QED
  BY <1>1, <1>2, <1>3, <1>4, <1>5, <1>6

LEMMA RunFailsKeeps ==
    ASSUME HubInv, RunFails
    PROVE  HubInv'
<1> USE DEF HubInv, RunFails, AttemptFailed
<1>1. HubTypeOK'
  BY DEF HubTypeOK
<1>2. Connection'
  BY DEF Connection
<1>3. Places'
  BY DEF Places
<1>4. SocketsApart'
  BY DEF Places, SocketsApart, PrimaryLive, Establishing
<1>5. Closers'
  BY DEF Closers
<1>6. Owned'
  BY DEF Owned, Live, PrimaryLive, Establishing
<1> QED
  BY <1>1, <1>2, <1>3, <1>4, <1>5, <1>6

LEMMA RunAbandonedKeeps ==
    ASSUME HubInv, RunAbandoned
    PROVE  HubInv'
<1> USE DEF HubInv, RunAbandoned, AttemptFailed
<1>1. HubTypeOK'
  <2>1. disconnected' \in BOOLEAN /\ heartbeat' \in BOOLEAN /\ closing' \in BOOLEAN
    BY DEF HubTypeOK
  <2>2. sockets' \in [Sockets -> {"free", "open", "silent", "broken", "lingering", "leaked"}]
    BY DEF HubTypeOK
  <2>3. /\ state' \in {"idle", "awaitingWebSocket", "connected", "disconnecting"}
        /\ conn' \in Sockets \cup {None} /\ reported' \in Hubs \cup {None}
        /\ timers' \in SUBSET {"heartbeat", "heartbeat_ack", "disconnect_wait"}
        /\ closeTask' \in Sockets \cup {None} /\ closers' \in Seq(Tasks)
    BY DEF HubTypeOK
  <2> QED
    BY <2>1, <2>2, <2>3 DEF HubTypeOK
<1>2. Connection'
  BY DEF Connection
<1>3. Places'
  BY DEF Places
<1>4. SocketsApart'
  BY DEF Places, SocketsApart, PrimaryLive, Establishing
<1>5. Closers'
  BY DEF Closers
<1>6. Owned'
  BY DEF HubTypeOK, Owned, Live, PrimaryLive
<1> QED
  BY <1>1, <1>2, <1>3, <1>4, <1>5, <1>6

LEMMA ReceiverDoneKeeps ==
    ASSUME HubInv, ReceiverDone
    PROVE  HubInv'
<1> USE DEF HubInv, ReceiverDone, RunStops, StopTasks
<1>0. /\ closers' \in Seq(Tasks) /\ Once(closers')
      /\ ToSet(closers') \subseteq ToSet(closers) \ {"receiver"}
      /\ closers = <<>> => closers' = <<>>
      /\ Last(closers) # "receiver" /\ closers # <<>> => Last(closers') = Last(closers)
  BY Uncalled DEF HubTypeOK, Closers
<1>1. HubTypeOK'
  BY <1>0 DEF HubTypeOK
<1>2. Connection'
  <2>1. CASE conn' = None
    BY <1>0, <2>1 DEF Connection
  <2>2. CASE conn' # None
    <3>1. conn' \in Sockets /\ reported' = hubOf'[conn'] /\ Live(conn)'
      BY <2>2 DEF HubTypeOK, Connection, SocketsApart, Live, PrimaryLive
    <3>2. conn' = served' /\ closers' = <<>> /\ closeTask' = None /\ disconnected' = FALSE
      BY <1>0, <2>2 DEF Connection
    <3>3. /\ run' \in {"serving", "replacing", "gathering", "dropping", "final", "disposing"}
          /\ run' \in {"final", "disposing"} => cancelled' = "thrown"
      BY <2>2
    <3> QED
      BY <2>2, <3>1, <3>2, <3>3 DEF Connection
  <2> QED
    BY <2>1, <2>2
<1>3. Places'
  BY <1>0 DEF Places
<1>4. SocketsApart'
  BY DEF HubTypeOK, SocketsApart, Live, PrimaryLive, Establishing
<1>5. Closers'
  BY <1>0 DEF Closers
<1>6. Owned'
  BY DEF Owned, Live, PrimaryLive, Establishing
<1> QED
  BY <1>1, <1>2, <1>3, <1>4, <1>5, <1>6

LEMMA PrimaryDoneKeeps ==
    ASSUME HubInv, PrimaryDone
    PROVE  HubInv'
<1> USE DEF HubInv, PrimaryDone, LocalDisconnect, CloseConnection, Raises
<1>0. closers' # closers =>
      /\ closers' = Append(closers, "run") /\ closers' \in Seq(Tasks) /\ Once(closers')
      /\ ToSet(closers') = ToSet(closers) \cup {"run"} /\ Last(closers') = "run"
  <2>1. closers' # closers => closers' = Append(closers, "run")
    OBVIOUS
  <2>2. run \notin {"sending", "closing", "ending"}
    OBVIOUS
  <2> QED
    BY <2>1, <2>2, RunJoins
<1>1. HubTypeOK'
  <2>1. disconnected' \in BOOLEAN /\ heartbeat' \in BOOLEAN /\ closing' \in BOOLEAN
    BY DEF HubTypeOK
  <2>2. sockets' \in [Sockets -> {"free", "open", "silent", "broken", "lingering", "leaked"}]
    BY DEF HubTypeOK
  <2>3. /\ state' \in {"idle", "awaitingWebSocket", "connected", "disconnecting"}
        /\ conn' \in Sockets \cup {None} /\ reported' \in Hubs \cup {None}
        /\ timers' \in SUBSET {"heartbeat", "heartbeat_ack", "disconnect_wait"}
        /\ closeTask' \in Sockets \cup {None} /\ closers' \in Seq(Tasks)
    BY <1>0 DEF HubTypeOK
  <2> QED
    BY <1>0, <2>1, <2>2, <2>3 DEF HubTypeOK
<1>2. Connection'
  BY <1>0 DEF Connection, Live
<1>3. Places'
  BY <1>0 DEF Places
<1>4. SocketsApart'
  BY DEF SocketsApart, Live, PrimaryLive, Establishing
<1>5. Closers'
  BY <1>0 DEF Places, Closers
<1>6. Owned'
  BY DEF Connection, SocketsApart, Owned, Live, Establishing
<1> QED
  BY <1>1, <1>2, <1>3, <1>4, <1>5, <1>6

LEMMA ReplacesKeeps ==
    ASSUME HubInv, Replaces
    PROVE  HubInv'
<1> USE DEF HubInv, Replaces, RunStops, StopTasks
<1>0. /\ closers' \in Seq(Tasks) /\ Once(closers')
      /\ ToSet(closers') \subseteq ToSet(closers) \ {"receiver"}
      /\ closers = <<>> => closers' = <<>>
      /\ Last(closers) # "receiver" /\ closers # <<>> => Last(closers') = Last(closers)
  BY Uncalled DEF HubTypeOK, Closers
<1>1. HubTypeOK'
  BY <1>0 DEF HubTypeOK
<1>2. Connection'
  BY <1>0 DEF Connection
<1>3. Places'
  BY <1>0 DEF Places
<1>4. SocketsApart'
  BY DEF HubTypeOK, SocketsApart, Live, PrimaryLive, Establishing
<1>5. Closers'
  BY <1>0 DEF Closers
<1>6. Owned'
  BY DEF Owned, Live, PrimaryLive, Establishing
<1> QED
  BY <1>1, <1>2, <1>3, <1>4, <1>5, <1>6

LEMMA GatheredKeeps ==
    ASSUME HubInv, Gathered
    PROVE  HubInv'
<1> USE DEF HubInv, Gathered, CloseConnection
<1>0. closers' # closers =>
      /\ closers' = Append(closers, "run") /\ closers' \in Seq(Tasks) /\ Once(closers')
      /\ ToSet(closers') = ToSet(closers) \cup {"run"} /\ Last(closers') = "run"
  <2>1. closers' # closers => closers' = Append(closers, "run")
    OBVIOUS
  <2>2. run \notin {"sending", "closing", "ending"}
    OBVIOUS
  <2> QED
    BY <2>1, <2>2, RunJoins
<1>1. HubTypeOK'
  <2>1. disconnected' \in BOOLEAN /\ heartbeat' \in BOOLEAN /\ closing' \in BOOLEAN
    BY DEF HubTypeOK
  <2>2. sockets' \in [Sockets -> {"free", "open", "silent", "broken", "lingering", "leaked"}]
    BY DEF HubTypeOK
  <2>3. /\ state' \in {"idle", "awaitingWebSocket", "connected", "disconnecting"}
        /\ conn' \in Sockets \cup {None} /\ reported' \in Hubs \cup {None}
        /\ timers' \in SUBSET {"heartbeat", "heartbeat_ack", "disconnect_wait"}
        /\ closeTask' \in Sockets \cup {None} /\ closers' \in Seq(Tasks)
    BY <1>0 DEF HubTypeOK
  <2> QED
    BY <1>0, <2>1, <2>2, <2>3 DEF HubTypeOK
<1>2. Connection'
  BY <1>0 DEF Connection, Live
<1>3. Places'
  BY <1>0 DEF Places
<1>4. SocketsApart'
  BY DEF Connection, SocketsApart, Live, PrimaryLive, Establishing
<1>5. Closers'
  BY <1>0 DEF Places, Closers
<1>6. Owned'
  BY DEF Connection, Owned, Live, PrimaryLive, Establishing
<1> QED
  BY <1>1, <1>2, <1>3, <1>4, <1>5, <1>6

LEMMA DroppedKeeps ==
    ASSUME HubInv, Dropped
    PROVE  HubInv'
<1> USE DEF HubInv, Dropped, CloseConnection
<1>0. /\ closers' = Append(closers, "run") /\ closers' \in Seq(Tasks) /\ Once(closers')
      /\ ToSet(closers') = ToSet(closers) \cup {"run"} /\ Last(closers') = "run"
  <2>1. closers' = Append(closers, "run") /\ run \notin {"sending", "closing", "ending"}
    OBVIOUS
  <2> QED
    BY <2>1, RunJoins
<1>1. HubTypeOK'
  BY <1>0 DEF HubTypeOK, Places
<1>2. Connection'
  BY <1>0 DEF Connection
<1>3. Places'
  BY <1>0 DEF Places
<1>4. SocketsApart'
  BY DEF Connection, Places, SocketsApart, Live, PrimaryLive, Establishing
<1>5. Closers'
  BY <1>0 DEF Places, Closers
<1>6. Owned'
  BY DEF HubTypeOK, Connection, Owned, Live, Establishing
<1> QED
  BY <1>1, <1>2, <1>3, <1>4, <1>5, <1>6

LEMMA DisposesKeeps ==
    ASSUME HubInv, Disposes
    PROVE  HubInv'
<1> USE DEF HubInv, Disposes, CloseConnection
<1>0. closers' # closers =>
      /\ closers' = Append(closers, "run") /\ closers' \in Seq(Tasks) /\ Once(closers')
      /\ ToSet(closers') = ToSet(closers) \cup {"run"} /\ Last(closers') = "run"
  <2>1. closers' # closers => closers' = Append(closers, "run")
    OBVIOUS
  <2>2. run \notin {"sending", "closing", "ending"}
    OBVIOUS
  <2> QED
    BY <2>1, <2>2, RunJoins
<1>1. HubTypeOK'
  <2>1. disconnected' \in BOOLEAN /\ heartbeat' \in BOOLEAN /\ closing' \in BOOLEAN
    BY DEF HubTypeOK
  <2>2. sockets' \in [Sockets -> {"free", "open", "silent", "broken", "lingering", "leaked"}]
    BY DEF HubTypeOK
  <2>3. /\ state' \in {"idle", "awaitingWebSocket", "connected", "disconnecting"}
        /\ conn' \in Sockets \cup {None} /\ reported' \in Hubs \cup {None}
        /\ timers' \in SUBSET {"heartbeat", "heartbeat_ack", "disconnect_wait"}
        /\ closeTask' \in Sockets \cup {None} /\ closers' \in Seq(Tasks)
    BY <1>0 DEF HubTypeOK
  <2> QED
    BY <1>0, <2>1, <2>2, <2>3 DEF HubTypeOK
<1>2. Connection'
  BY <1>0 DEF Connection, Live
<1>3. Places'
  BY <1>0 DEF Places
<1>4. SocketsApart'
  BY DEF Connection, SocketsApart, Live, PrimaryLive, Establishing
<1>5. Closers'
  BY <1>0 DEF Places, Closers
<1>6. Owned'
  BY DEF Connection, Owned, Live, PrimaryLive, Establishing
<1> QED
  BY <1>1, <1>2, <1>3, <1>4, <1>5, <1>6

LEMMA DisposedKeeps ==
    ASSUME HubInv, Disposed
    PROVE  HubInv'
<1> USE DEF HubInv, Disposed, CloseConnection
<1>0. /\ closers' = Append(closers, "run") /\ closers' \in Seq(Tasks) /\ Once(closers')
      /\ ToSet(closers') = ToSet(closers) \cup {"run"} /\ Last(closers') = "run"
  <2>1. closers' = Append(closers, "run") /\ run \notin {"sending", "closing", "ending"}
    OBVIOUS
  <2> QED
    BY <2>1, RunJoins
<1>1. HubTypeOK'
  BY <1>0 DEF HubTypeOK, Places
<1>2. Connection'
  BY <1>0 DEF Connection
<1>3. Places'
  BY <1>0 DEF Places
<1>4. SocketsApart'
  BY DEF Connection, SocketsApart, Live, PrimaryLive, Establishing
<1>5. Closers'
  BY <1>0 DEF Places, Closers
<1>6. Owned'
  BY DEF HubTypeOK, Connection, SocketsApart, Owned, Live, Establishing
<1> QED
  BY <1>1, <1>2, <1>3, <1>4, <1>5, <1>6

-----------------------------------------------------------------------------
(* The steps of a closing, the receiver, the timers and the primary's task. *)

LEMMA SocketClosesKeeps ==
    ASSUME HubInv, SocketCloses
    PROVE  HubInv'
<1> USE DEF HubInv, SocketCloses
<1>1. HubTypeOK'
  BY DEF HubTypeOK
<1>2. Connection'
  BY DEF Connection
<1>3. Places'
  BY DEF Places
<1>4. SocketsApart'
  BY DEF Places, SocketsApart, Live, PrimaryLive, Establishing
<1>5. Closers'
  BY DEF Closers
<1>6. Owned'
  BY DEF HubTypeOK, Owned, Live, PrimaryLive, Establishing
<1> QED
  BY <1>1, <1>2, <1>3, <1>4, <1>5, <1>6

LEMMA ReceiverEndsKeeps ==
    ASSUME HubInv, ReceiverEnds
    PROVE  HubInv'
<1> USE DEF HubInv, ReceiverEnds
<1>1. HubTypeOK'
  BY DEF HubTypeOK
<1>2. Connection'
  BY DEF Connection, Live
<1>3. Places'
  BY DEF Places
<1>4. SocketsApart'
  BY DEF SocketsApart, Live, PrimaryLive, Establishing
<1>5. Closers'
  BY DEF Closers
<1>6. Owned'
  BY DEF Owned, Live, PrimaryLive, Establishing
<1> QED
  BY <1>1, <1>2, <1>3, <1>4, <1>5, <1>6

LEMMA HeartbeatAcknowledgedKeeps ==
    ASSUME HubInv, HeartbeatAcknowledged
    PROVE  HubInv'
<1> USE DEF HubInv, HeartbeatAcknowledged, Reads
<1>1. HubTypeOK'
  <2>1. disconnected' \in BOOLEAN /\ heartbeat' \in BOOLEAN /\ closing' \in BOOLEAN
    BY DEF HubTypeOK
  <2>2. sockets' \in [Sockets -> {"free", "open", "silent", "broken", "lingering", "leaked"}]
    BY DEF HubTypeOK
  <2>3. /\ state' \in {"idle", "awaitingWebSocket", "connected", "disconnecting"}
        /\ conn' \in Sockets \cup {None} /\ reported' \in Hubs \cup {None}
        /\ timers' \in SUBSET {"heartbeat", "heartbeat_ack", "disconnect_wait"}
        /\ closeTask' \in Sockets \cup {None} /\ closers' \in Seq(Tasks)
    BY DEF HubTypeOK
  <2> QED
    BY <2>1, <2>2, <2>3 DEF HubTypeOK
<1>2. Connection'
  BY DEF Connection, Live
<1>3. Places'
  BY DEF Places
<1>4. SocketsApart'
  BY DEF HubTypeOK, Connection, SocketsApart, Live, PrimaryLive
<1>5. Closers'
  BY DEF Closers
<1>6. Owned'
  BY DEF Owned, Live, PrimaryLive
<1> QED
  BY <1>1, <1>2, <1>3, <1>4, <1>5, <1>6

LEMMA DismissedKeeps ==
    ASSUME HubInv, Dismissed
    PROVE  HubInv'
<1> USE DEF HubInv, Dismissed, Reads, CloseConnection, Trouble
<1>0. /\ closers' = Append(closers, "receiver") /\ closers' \in Seq(Tasks) /\ Once(closers')
      /\ ToSet(closers') = ToSet(closers) \cup {"receiver"} /\ Last(closers') = "receiver"
  BY Appended DEF HubTypeOK, Tasks, Closers
<1>1. HubTypeOK'
  <2>1. disconnected' \in BOOLEAN /\ heartbeat' \in BOOLEAN /\ closing' \in BOOLEAN
    BY DEF HubTypeOK
  <2>2. sockets' \in [Sockets -> {"free", "open", "silent", "broken", "lingering", "leaked"}]
    BY DEF HubTypeOK
  <2>3. /\ state' \in {"idle", "awaitingWebSocket", "connected", "disconnecting"}
        /\ conn' \in Sockets \cup {None} /\ reported' \in Hubs \cup {None}
        /\ timers' \in SUBSET {"heartbeat", "heartbeat_ack", "disconnect_wait"}
        /\ closeTask' \in Sockets \cup {None} /\ closers' \in Seq(Tasks)
    BY <1>0 DEF HubTypeOK
  <2> QED
    BY <1>0, <2>1, <2>2, <2>3 DEF HubTypeOK
<1>2. Connection'
  BY <1>0 DEF Connection
<1>3. Places'
  BY <1>0 DEF Places
<1>4. SocketsApart'
  BY DEF Connection, SocketsApart, Live, PrimaryLive, Establishing
<1>5. Closers'
  BY <1>0 DEF Places, Closers
<1>6. Owned'
  BY DEF Connection, Owned, Live, PrimaryLive
<1> QED
  BY <1>1, <1>2, <1>3, <1>4, <1>5, <1>6

LEMMA HeartbeatKeeps ==
    ASSUME HubInv, Heartbeat
    PROVE  HubInv'
<1> USE DEF HubInv, Heartbeat, CloseConnection
<1>0. closers' # closers =>
      /\ closers' = Append(closers, "timer") /\ closers' \in Seq(Tasks) /\ Once(closers')
      /\ ToSet(closers') = ToSet(closers) \cup {"timer"} /\ Last(closers') = "timer"
  BY Appended DEF HubTypeOK, Tasks, Closers
<1>1. HubTypeOK'
  <2>1. disconnected' \in BOOLEAN /\ heartbeat' \in BOOLEAN /\ closing' \in BOOLEAN
    BY DEF HubTypeOK
  <2>2. sockets' \in [Sockets -> {"free", "open", "silent", "broken", "lingering", "leaked"}]
    BY DEF HubTypeOK
  <2>3. /\ state' \in {"idle", "awaitingWebSocket", "connected", "disconnecting"}
        /\ conn' \in Sockets \cup {None} /\ reported' \in Hubs \cup {None}
        /\ timers' \in SUBSET {"heartbeat", "heartbeat_ack", "disconnect_wait"}
        /\ closeTask' \in Sockets \cup {None} /\ closers' \in Seq(Tasks)
    BY <1>0 DEF HubTypeOK
  <2> QED
    BY <1>0, <2>1, <2>2, <2>3 DEF HubTypeOK
<1>2. Connection'
  BY <1>0 DEF Connection, Live
<1>3. Places'
  BY <1>0 DEF Connection, Places
<1>4. SocketsApart'
  BY DEF HubTypeOK, Connection, SocketsApart, Live, PrimaryLive
<1>5. Closers'
  BY <1>0 DEF Connection, Places, Closers
<1>6. Owned'
  BY DEF Connection, Owned, Live, PrimaryLive
<1> QED
  BY <1>1, <1>2, <1>3, <1>4, <1>5, <1>6

LEMMA HeartbeatUnansweredKeeps ==
    ASSUME HubInv, HeartbeatUnanswered
    PROVE  HubInv'
<1> USE DEF HubInv, HeartbeatUnanswered, LocalDisconnect, CloseConnection, Trouble
<1>0. closers' # closers =>
      /\ closers' = Append(closers, "timer") /\ closers' \in Seq(Tasks) /\ Once(closers')
      /\ ToSet(closers') = ToSet(closers) \cup {"timer"} /\ Last(closers') = "timer"
  BY Appended DEF HubTypeOK, Tasks, Closers
<1>1. HubTypeOK'
  <2>1. disconnected' \in BOOLEAN /\ heartbeat' \in BOOLEAN /\ closing' \in BOOLEAN
    BY DEF HubTypeOK
  <2>2. sockets' \in [Sockets -> {"free", "open", "silent", "broken", "lingering", "leaked"}]
    BY DEF HubTypeOK
  <2>3. /\ state' \in {"idle", "awaitingWebSocket", "connected", "disconnecting"}
        /\ conn' \in Sockets \cup {None} /\ reported' \in Hubs \cup {None}
        /\ timers' \in SUBSET {"heartbeat", "heartbeat_ack", "disconnect_wait"}
        /\ closeTask' \in Sockets \cup {None} /\ closers' \in Seq(Tasks)
    BY <1>0 DEF HubTypeOK
  <2> QED
    BY <1>0, <2>1, <2>2, <2>3 DEF HubTypeOK
<1>2. Connection'
  BY <1>0 DEF Connection, Live
<1>3. Places'
  BY <1>0 DEF Connection, Places
<1>4. SocketsApart'
  BY DEF HubTypeOK, Connection, SocketsApart, Live, PrimaryLive
<1>5. Closers'
  BY <1>0 DEF Connection, Places, Closers
<1>6. Owned'
  BY DEF Connection, Owned, Live, PrimaryLive
<1> QED
  BY <1>1, <1>2, <1>3, <1>4, <1>5, <1>6

LEMMA DisconnectUnansweredKeeps ==
    ASSUME HubInv, DisconnectUnanswered
    PROVE  HubInv'
<1> USE DEF HubInv, DisconnectUnanswered, CloseConnection
<1>0. /\ closers' = Append(closers, "timer") /\ closers' \in Seq(Tasks) /\ Once(closers')
      /\ ToSet(closers') = ToSet(closers) \cup {"timer"} /\ Last(closers') = "timer"
  BY Appended DEF HubTypeOK, Tasks, Closers
<1>1. HubTypeOK'
  <2>1. disconnected' \in BOOLEAN /\ heartbeat' \in BOOLEAN /\ closing' \in BOOLEAN
    BY DEF HubTypeOK
  <2>2. sockets' \in [Sockets -> {"free", "open", "silent", "broken", "lingering", "leaked"}]
    BY DEF HubTypeOK
  <2>3. /\ state' \in {"idle", "awaitingWebSocket", "connected", "disconnecting"}
        /\ conn' \in Sockets \cup {None} /\ reported' \in Hubs \cup {None}
        /\ timers' \in SUBSET {"heartbeat", "heartbeat_ack", "disconnect_wait"}
        /\ closeTask' \in Sockets \cup {None} /\ closers' \in Seq(Tasks)
    BY <1>0 DEF HubTypeOK
  <2> QED
    BY <1>0, <2>1, <2>2, <2>3 DEF HubTypeOK
<1>2. Connection'
  BY <1>0 DEF Connection
<1>3. Places'
  BY <1>0 DEF Connection, Places
<1>4. SocketsApart'
  BY DEF HubTypeOK, Connection, SocketsApart, Live, PrimaryLive
<1>5. Closers'
  BY <1>0 DEF Connection, Places, Closers
<1>6. Owned'
  BY DEF Connection, Owned, Live, PrimaryLive
<1> QED
  BY <1>1, <1>2, <1>3, <1>4, <1>5, <1>6

LEMMA PrimaryOpensKeeps ==
    ASSUME HubInv, PrimaryOpens
    PROVE  HubInv'
<1> USE DEF HubInv, PrimaryOpens, OpenSocket, Free
<1>1. HubTypeOK'
  BY DEF HubTypeOK
<1>2. Connection'
  BY DEF Connection, Live
<1>3. Places'
  BY DEF Places
<1>4. SocketsApart'
  BY DEF HubTypeOK, Connection, Places, SocketsApart, Live, Establishing
<1>5. Closers'
  BY DEF Closers
<1>6. Owned'
  BY DEF Owned, Live, PrimaryLive, Establishing
<1> QED
  BY <1>1, <1>2, <1>3, <1>4, <1>5, <1>6

LEMMA PrimaryAcceptedKeeps ==
    ASSUME HubInv, PrimaryAccepted
    PROVE  HubInv'
<1> USE DEF HubInv, PrimaryAccepted
<1>1. HubTypeOK'
  BY DEF HubTypeOK
<1>2. Connection'
  BY DEF Connection, Live
<1>3. Places'
  BY DEF Places
<1>4. SocketsApart'
  BY DEF SocketsApart, Live, PrimaryLive, Establishing
<1>5. Closers'
  BY DEF Closers
<1>6. Owned'
  BY DEF Owned, Live, PrimaryLive, Establishing
<1> QED
  BY <1>1, <1>2, <1>3, <1>4, <1>5, <1>6

LEMMA PrimaryRefusedKeeps ==
    ASSUME HubInv, PrimaryRefused
    PROVE  HubInv'
<1> USE DEF HubInv, PrimaryRefused, Trouble
<1>1. HubTypeOK'
  BY DEF HubTypeOK
<1>2. Connection'
  BY DEF Connection, Live
<1>3. Places'
  BY DEF Places
<1>4. SocketsApart'
  BY DEF SocketsApart, Live, PrimaryLive, Establishing
<1>5. Closers'
  BY DEF Closers
<1>6. Owned'
  BY DEF Owned, Live, PrimaryLive, Establishing
<1> QED
  BY <1>1, <1>2, <1>3, <1>4, <1>5, <1>6

LEMMA PrimaryAbandonedKeeps ==
    ASSUME HubInv, PrimaryAbandoned
    PROVE  HubInv'
<1> USE DEF HubInv, PrimaryAbandoned
<1>1. HubTypeOK'
  <2>1. disconnected' \in BOOLEAN /\ heartbeat' \in BOOLEAN /\ closing' \in BOOLEAN
    BY DEF HubTypeOK
  <2>2. sockets' \in [Sockets -> {"free", "open", "silent", "broken", "lingering", "leaked"}]
    BY DEF HubTypeOK
  <2>3. /\ state' \in {"idle", "awaitingWebSocket", "connected", "disconnecting"}
        /\ conn' \in Sockets \cup {None} /\ reported' \in Hubs \cup {None}
        /\ timers' \in SUBSET {"heartbeat", "heartbeat_ack", "disconnect_wait"}
        /\ closeTask' \in Sockets \cup {None} /\ closers' \in Seq(Tasks)
    BY DEF HubTypeOK
  <2> QED
    BY <2>1, <2>2, <2>3 DEF HubTypeOK
<1>2. Connection'
  <2>1. CASE conn' = None
    BY <2>1 DEF Connection
  <2>2. CASE conn' # None
    <3>1. conn' \in Sockets /\ reported' = hubOf'[conn'] /\ Live(conn)'
      BY <2>2 DEF HubTypeOK, Connection, SocketsApart, Live, PrimaryLive
    <3>2. conn' = served' /\ closers' = <<>> /\ closeTask' = None /\ disconnected' = FALSE
      BY <2>2 DEF Connection
    <3>3. /\ run' \in {"serving", "replacing", "gathering", "dropping", "final", "disposing"}
          /\ run' \in {"final", "disposing"} => cancelled' = "thrown"
      BY <2>2 DEF Connection
    <3> QED
      BY <2>2, <3>1, <3>2, <3>3 DEF Connection
  <2> QED
    BY <2>1, <2>2
<1>3. Places'
  BY DEF Places
<1>4. SocketsApart'
  BY DEF Places, SocketsApart, Live, PrimaryLive, Establishing
<1>5. Closers'
  BY DEF Closers
<1>6. Owned'
  BY DEF HubTypeOK, Owned, Live, Establishing
<1> QED
  BY <1>1, <1>2, <1>3, <1>4, <1>5, <1>6

-----------------------------------------------------------------------------
(* The program: start() and close().                                       *)

LEMMA StartKeeps ==
    ASSUME HubInv, Start
    PROVE  HubInv'
<1> USE DEF HubInv, Start
<1>1. HubTypeOK'
  <2>1. disconnected' \in BOOLEAN /\ heartbeat' \in BOOLEAN /\ closing' \in BOOLEAN
    BY DEF HubTypeOK
  <2>2. sockets' \in [Sockets -> {"free", "open", "silent", "broken", "lingering", "leaked"}]
    BY DEF HubTypeOK
  <2>3. /\ state' \in {"idle", "awaitingWebSocket", "connected", "disconnecting"}
        /\ conn' \in Sockets \cup {None} /\ reported' \in Hubs \cup {None}
        /\ timers' \in SUBSET {"heartbeat", "heartbeat_ack", "disconnect_wait"}
        /\ closeTask' \in Sockets \cup {None} /\ closers' \in Seq(Tasks)
    BY DEF HubTypeOK
  <2> QED
    BY <2>1, <2>2, <2>3 DEF HubTypeOK
<1>2. Connection'
  BY DEF Connection
<1>3. Places'
  BY DEF Places
<1>4. SocketsApart'
  BY DEF Places, SocketsApart, PrimaryLive, Establishing
<1>5. Closers'
  BY DEF Closers
<1>6. Owned'
  BY DEF Owned, Live, PrimaryLive, Establishing
<1> QED
  BY <1>1, <1>2, <1>3, <1>4, <1>5, <1>6

LEMMA CloseCallKeeps ==
    ASSUME HubInv, CloseCall
    PROVE  HubInv'
<1> USE DEF HubInv, CloseCall, LocalDisconnect, CloseConnection, Raises
<1>0. closers' # closers =>
      /\ closers' = Append(closers, "close") /\ closers' \in Seq(Tasks) /\ Once(closers')
      /\ ToSet(closers') = ToSet(closers) \cup {"close"} /\ Last(closers') = "close"
  BY Appended DEF HubTypeOK, Tasks, Closers
<1>1. HubTypeOK'
  <2>1. disconnected' \in BOOLEAN /\ heartbeat' \in BOOLEAN /\ closing' \in BOOLEAN
    BY DEF HubTypeOK
  <2>2. sockets' \in [Sockets -> {"free", "open", "silent", "broken", "lingering", "leaked"}]
    BY DEF HubTypeOK
  <2>3. /\ state' \in {"idle", "awaitingWebSocket", "connected", "disconnecting"}
        /\ conn' \in Sockets \cup {None} /\ reported' \in Hubs \cup {None}
        /\ timers' \in SUBSET {"heartbeat", "heartbeat_ack", "disconnect_wait"}
        /\ closeTask' \in Sockets \cup {None} /\ closers' \in Seq(Tasks)
    BY <1>0 DEF HubTypeOK
  <2> QED
    BY <1>0, <2>1, <2>2, <2>3 DEF HubTypeOK
<1>2. Connection'
  BY <1>0 DEF Connection, Places, Live
<1>3. Places'
  BY <1>0 DEF Connection, Places
<1>4. SocketsApart'
  BY DEF SocketsApart, Live, PrimaryLive, Establishing
<1>5. Closers'
  BY <1>0 DEF Connection, Closers
<1>6. Owned'
  BY DEF Connection, Owned, Live, PrimaryLive, Establishing
<1> QED
  BY <1>1, <1>2, <1>3, <1>4, <1>5, <1>6

LEMMA CloseDisconnectedKeeps ==
    ASSUME HubInv, CloseDisconnected
    PROVE  HubInv'
<1> USE DEF HubInv, CloseDisconnected
<1>1. HubTypeOK'
  BY DEF HubTypeOK
<1>2. Connection'
  BY DEF Connection
<1>3. Places'
  BY DEF Places
<1>4. SocketsApart'
  BY DEF SocketsApart, Live, PrimaryLive, Establishing
<1>5. Closers'
  BY DEF Closers
<1>6. Owned'
  BY DEF Owned, Live, PrimaryLive, Establishing
<1> QED
  BY <1>1, <1>2, <1>3, <1>4, <1>5, <1>6

LEMMA CloseGatheredKeeps ==
    ASSUME HubInv, CloseGathered
    PROVE  HubInv'
<1> USE DEF HubInv, CloseGathered, CloseConnection
<1>0. /\ closers' = Append(closers, "close") /\ closers' \in Seq(Tasks) /\ Once(closers')
      /\ ToSet(closers') = ToSet(closers) \cup {"close"} /\ Last(closers') = "close"
  BY Appended DEF HubTypeOK, Tasks, Closers
<1>1. HubTypeOK'
  BY <1>0 DEF HubTypeOK, Places
<1>2. Connection'
  BY <1>0 DEF Connection
<1>3. Places'
  BY <1>0 DEF Places
<1>4. SocketsApart'
  BY DEF Connection, SocketsApart, Live, PrimaryLive, Establishing
<1>5. Closers'
  BY <1>0 DEF Closers
<1>6. Owned'
  BY DEF Connection, Owned, Live, PrimaryLive, Establishing
<1> QED
  BY <1>1, <1>2, <1>3, <1>4, <1>5, <1>6

-----------------------------------------------------------------------------
(* The world: hubs and sockets that fail, and the library.                 *)

LEMMA HubGoesKeeps ==
    ASSUME HubInv, HubGoes
    PROVE  HubInv'
<1> USE DEF HubInv, HubGoes, Trouble
<1>1. HubTypeOK'
  BY DEF HubTypeOK
<1>2. Connection'
  BY DEF HubTypeOK, Connection, Live
<1>3. Places'
  BY DEF Places
<1>4. SocketsApart'
  BY DEF HubTypeOK, SocketsApart, Live, PrimaryLive, Establishing
<1>5. Closers'
  BY DEF Closers
<1>6. Owned'
  BY DEF Owned, Live, PrimaryLive, Establishing
<1> QED
  BY <1>1, <1>2, <1>3, <1>4, <1>5, <1>6

LEMMA HubComesKeeps ==
    ASSUME HubInv, HubComes
    PROVE  HubInv'
<1> USE DEF HubInv, HubComes
<1>1. HubTypeOK'
  BY DEF HubTypeOK
<1>2. Connection'
  BY DEF Connection, Live
<1>3. Places'
  BY DEF Places
<1>4. SocketsApart'
  BY DEF SocketsApart, Live, PrimaryLive, Establishing
<1>5. Closers'
  BY DEF Closers
<1>6. Owned'
  BY DEF Owned, Live, PrimaryLive, Establishing
<1> QED
  BY <1>1, <1>2, <1>3, <1>4, <1>5, <1>6

LEMMA SocketFailsKeeps ==
    ASSUME HubInv, SocketFails
    PROVE  HubInv'
<1> USE DEF HubInv, SocketFails, Trouble
<1>1. HubTypeOK'
  BY DEF HubTypeOK
<1>2. Connection'
  BY DEF Connection, Live
<1>3. Places'
  BY DEF Places
<1>4. SocketsApart'
  BY DEF SocketsApart, Live, PrimaryLive, Establishing
<1>5. Closers'
  BY DEF Closers
<1>6. Owned'
  BY DEF Owned, Live, PrimaryLive, Establishing
<1> QED
  BY <1>1, <1>2, <1>3, <1>4, <1>5, <1>6

LEMMA LibraryClosesKeeps ==
    ASSUME HubInv, LibraryCloses
    PROVE  HubInv'
<1> USE DEF HubInv, LibraryCloses
<1>1. HubTypeOK'
  BY DEF HubTypeOK
<1>2. Connection'
  BY DEF Connection, Live
<1>3. Places'
  BY DEF Places
<1>4. SocketsApart'
  BY DEF SocketsApart, Live, PrimaryLive, Establishing
<1>5. Closers'
  BY DEF Closers
<1>6. Owned'
  BY DEF Owned, Live, PrimaryLive, Establishing
<1> QED
  BY <1>1, <1>2, <1>3, <1>4, <1>5, <1>6

-----------------------------------------------------------------------------
(* Cancelations, and those that go on when a socket is closed.             *)

LEMMA RunSwallowsKeeps ==
    ASSUME HubInv, RunSwallows
    PROVE  HubInv'
<1>1. CASE run = "opening"
  <2>0. /\ run' = "establishing" /\ cancelled' = "no"
        /\ \E s \in Free : OpenSocket(s, uri) /\ served' = s
        /\ UNCHANGED <<connection, helpers, uri, replacement, teardown, caller>>
    BY <1>1 DEF RunSwallows
  <2> USE <1>1, <2>0 DEF HubInv, OpenSocket, Free
  <2>1. HubTypeOK'
    BY DEF HubTypeOK
  <2>2. Connection'
    BY DEF Connection
  <2>3. Places'
    BY DEF Places
  <2>4. SocketsApart'
    BY DEF HubTypeOK, SocketsApart, Live, PrimaryLive
  <2>5. Closers'
    BY DEF Closers
  <2>6. Owned'
    BY DEF Owned, Live, PrimaryLive, Establishing
  <2> QED
    BY <2>1, <2>2, <2>3, <2>4, <2>5, <2>6
<1>2. CASE run = "establishing"
  <2> USE <1>2 DEF HubInv, RunSwallows, Serve
  <2>1. HubTypeOK'
    BY DEF HubTypeOK
  <2>2. Connection'
    BY DEF Connection, Places, SocketsApart, Live, Establishing
  <2>3. Places'
    BY DEF Places
  <2>4. SocketsApart'
    BY DEF Places, SocketsApart, PrimaryLive, Establishing
  <2>5. Closers'
    BY DEF Places, Closers
  <2>6. Owned'
    BY DEF Connection, Places, Owned, Live, PrimaryLive
  <2> QED
    BY <2>1, <2>2, <2>3, <2>4, <2>5, <2>6
<1> QED
  BY <1>1, <1>2 DEF RunSwallows

LEMMA ResumesKeeps ==
    ASSUME HubInv, Resumes
    PROVE  HubInv'
<1> USE DEF HubInv, Resumes
<1>0. /\ Head(closers) \in ToSet(closers) \cap Tasks /\ closers' = Tail(closers)
      /\ closers' \in Seq(Tasks) /\ Once(closers')
      /\ ToSet(closers') \subseteq ToSet(closers)
      /\ Head(closers) # "timer" => Head(closers) \notin ToSet(closers')
      /\ closers' # <<>> => Last(closers') = Last(closers)
      /\ Head(closers) # "timer" /\ Last(closers) = Head(closers) => closers' = <<>>
  BY Gone DEF HubTypeOK, Closers
<1>1. closers' = <<>> => ToSet(closers') = {}
  BY DEF ToSet
<1>2. conn = None
  BY DEF Connection
<1>3. CASE Head(closers) = "run"
  <2>1. run \in {"sending", "closing", "ending"} /\ closers # <<>>
    BY <1>0, <1>3 DEF Closers
  <2>2. run # "sending" => closers' = <<>>
    BY <1>0, <1>3 DEF Closers
  <2>3. /\ receiver' = receiver /\ closer' = closer
        /\ run' = IF run = "closing" /\ cancelled = "thrown" THEN "final"
                  ELSE IF run = "sending" THEN "replacing"
                  ELSE IF run = "closing" THEN "top" ELSE "finished"
        /\ uri' = IF run' = "top" THEN 0 ELSE uri
    BY <1>3, <2>1 DEF AfterClose
  <2> USE <1>0, <1>1, <1>2, <1>3, <2>1, <2>2, <2>3
  <2>4. HubTypeOK'
    BY DEF HubTypeOK
  <2>5. Connection'
    BY DEF Connection
  <2>6. Places'
    BY DEF Places
  <2>7. SocketsApart'
    BY DEF SocketsApart, Live, PrimaryLive, Establishing
  <2>8. Closers'
    BY DEF Closers
  <2>9. Owned'
    BY DEF Owned, Live, PrimaryLive, Establishing
  <2> QED
    BY <2>4, <2>5, <2>6, <2>7, <2>8, <2>9
<1>4. CASE Head(closers) # "run"
  <2>1. run' = run /\ uri' = uri
    BY <1>4
  <2>2. /\ \/ receiver' = receiver
           \/ Head(closers) = "receiver" /\ receiver = "closing" /\ receiver' = "reading"
        /\ \/ closer' = closer /\ Head(closers) # "close"
           \/ /\ Head(closers) = "close"
              /\ \/ closer = "disconnecting" /\ closer' = "waiting"
                 \/ closer = "last" /\ closer' = "no" /\ closers' = <<>>
    BY <1>0 DEF Closers, AfterClose
  <2> USE <1>0, <1>1, <1>2, <1>4, <2>1, <2>2
  <2>4. HubTypeOK'
    BY DEF HubTypeOK
  <2>5. Connection'
    BY DEF Connection
  <2>6. Places'
    BY DEF Places
  <2>7. SocketsApart'
    BY DEF SocketsApart, Live, PrimaryLive, Establishing
  <2>8. Closers'
    BY DEF Closers
  <2>9. Owned'
    BY DEF Owned, Live, PrimaryLive, Establishing
  <2> QED
    BY <2>4, <2>5, <2>6, <2>7, <2>8, <2>9
<1> QED
  BY <1>3, <1>4

LEMMA RunCancelledKeeps ==
    ASSUME HubInv, RunCancelled
    PROVE  HubInv'
<1>0. /\ cancelled = "asked" /\ closer = "gathering"
      /\ cancelled' = IF run = "finished" THEN "no" ELSE "thrown"
      /\ UNCHANGED <<connection, uri, served, closeTask, caller>>
  BY DEF RunCancelled, HubInv, Places
<1>1. CASE run \in {"serving", "replacing", "sending"}
  <2>1. /\ StopTasks /\ UNCHANGED replacement
        /\ closers' = Without(Without(closers, "receiver"), "run")
    BY <1>1 DEF RunCancelled, LeadsTo
  <2>2. /\ closers' \in Seq(Tasks) /\ Once(closers')
        /\ ToSet(closers') \subseteq ToSet(closers) \ {"receiver", "run"}
        /\ closers = <<>> => closers' = <<>>
    <3>1. /\ Without(closers, "receiver") \in Seq(Tasks)
          /\ Once(Without(closers, "receiver"))
          /\ ToSet(Without(closers, "receiver")) \subseteq ToSet(closers) \ {"receiver"}
          /\ closers = <<>> => Without(closers, "receiver") = <<>>
      BY Uncalled DEF HubInv, HubTypeOK, Closers
    <3> QED
      BY <2>1, <3>1, Uncalled
  <2> USE <1>0, <1>1, <2>1, <2>2 DEF HubInv, StopTasks
  <2>3. HubTypeOK'
    BY DEF HubTypeOK
  <2>4. Connection'
    BY DEF HubTypeOK, Connection, SocketsApart, Live, PrimaryLive
  <2>5. Places'
    BY DEF Places
  <2>6. SocketsApart'
    BY DEF HubTypeOK, SocketsApart, Live, PrimaryLive, Establishing
  <2>7. Closers'
    BY DEF Closers
  <2>8. Owned'
    BY DEF Owned, Live, PrimaryLive, Establishing
  <2> QED
    BY <2>3, <2>4, <2>5, <2>6, <2>7, <2>8
<1>2. CASE run \notin {"serving", "replacing", "sending"}
  <2>0. PICK place, which, mark : 
           /\ Leaves(place, which, mark)
           /\ \/ /\ run = "gathering" /\ primary' = "ended" /\ place = "final"
                 /\ which = IF primary \in {"abandoning", "done"} THEN candidate ELSE None
                 /\ mark = IF primary = "done" THEN "leaked" ELSE "lingering"
                 /\ UNCHANGED <<candidate, replacement>>
              \/ /\ run = "dropping" /\ primary' = "ended" /\ candidate' = None
                 /\ place = "final" /\ which = candidate /\ mark = "lingering"
                 /\ UNCHANGED replacement
              \/ /\ run = "disposing" /\ replacement' = None
                 /\ place = "finished" /\ which = replacement /\ mark = "lingering"
                 /\ UNCHANGED <<primary, candidate>>
              \/ /\ run \in {"opening", "closing"} /\ place = "final" /\ which = None
                 /\ mark = "lingering"
                 /\ UNCHANGED <<primary, candidate, replacement>>
              \/ /\ run \in {"begun", "ending", "finished"} /\ place = "finished"
                 /\ which = None /\ mark = "lingering"
                 /\ UNCHANGED <<primary, candidate, replacement>>
              \/ /\ run = "establishing" /\ place = "abandoning" /\ which = None
                 /\ mark = "lingering"
                 /\ UNCHANGED <<primary, candidate, replacement>>
              \/ /\ run = "abandoning" /\ place = "final" /\ which = served
                 /\ mark = "lingering"
                 /\ UNCHANGED <<primary, candidate, replacement>>
           /\ UNCHANGED <<receiver, hubOf, up, troubles>>
    BY <1>2 DEF RunCancelled, LeadsTo
  <2>1. /\ run' = place /\ closers' = Without(closers, "run")
        /\ sockets' = [s \in Sockets |-> IF s = which THEN mark ELSE sockets[s]]
    BY <2>0 DEF Leaves
  <2>2. /\ closers' \in Seq(Tasks) /\ Once(closers')
        /\ ToSet(closers') \subseteq ToSet(closers) \ {"run"}
        /\ closers = <<>> => closers' = <<>>
    BY <2>1, Uncalled DEF HubInv, HubTypeOK, Closers
  <2> USE <1>0, <1>2, <2>0, <2>1, <2>2 DEF HubInv
  <2>3. HubTypeOK'
    BY DEF HubTypeOK
  <2>4. Connection'
    BY DEF HubTypeOK, Connection, Places, SocketsApart, Live, PrimaryLive
  <2>5. Places'
    BY DEF Places
  <2>6. SocketsApart'
    BY DEF HubTypeOK, Places, SocketsApart, Live, PrimaryLive, Establishing
  <2>7. Closers'
    BY DEF Closers
  <2>8. Owned'
    BY DEF Places, Owned, Live, PrimaryLive, Establishing
  <2> QED
    BY <2>3, <2>4, <2>5, <2>6, <2>7, <2>8
<1> QED
  BY <1>1, <1>2

-----------------------------------------------------------------------------
(* The invariant, and what it implies.                                     *)

LEMMA HubInvInitially == Init => HubInv
<1> SUFFICES ASSUME Init PROVE HubInv
  OBVIOUS
<1>1. HubTypeOK
  <2>1. sockets \in [Sockets -> {"free"}] /\ hubOf \in [Sockets -> {None}]
    BY DEF Init
  <2>2. closers \in Seq(Tasks) /\ starts \in Nat /\ troubles \in Nat
    BY DEF Init
  <2>3. disconnected \in BOOLEAN /\ heartbeat \in BOOLEAN /\ closing \in BOOLEAN
    BY DEF Init
  <2> QED
    BY <2>1, <2>2, <2>3 DEF Init, HubTypeOK
<1>2. Connection
  BY DEF Init, Connection
<1>3. Places
  BY DEF Init, Places
<1>4. SocketsApart
  BY DEF Init, SocketsApart, PrimaryLive, Establishing
<1>5. Closers
  BY DEF Init, Closers, Once, ToSet
<1>6. Owned
  BY DEF Init, Owned, Live
<1> QED
  BY <1>1, <1>2, <1>3, <1>4, <1>5, <1>6 DEF HubInv

LEMMA HubInvKept ==
    ASSUME HubInv, [Next]_vars
    PROVE  HubInv'
<1>1. CASE RunHolds
  BY <1>1, RunLoopsKeeps, DisposesKeeps DEF RunHolds
<1>2. CASE RunGoesOn
  BY <1>2, RunBeginsKeeps, RunOpensKeeps, RunFailsKeeps, RunAcceptedKeeps, RunRefusedKeeps,
     RunAbandonedKeeps, ReceiverDoneKeeps, PrimaryDoneKeeps, ReplacesKeeps, GatheredKeeps,
     DroppedKeeps, DisposedKeeps
  DEF RunGoesOn
<1>3. CASE Others
  BY <1>3, RunCancelledKeeps, RunSwallowsKeeps, SocketClosesKeeps, ResumesKeeps,
     ReceiverEndsKeeps, HeartbeatAcknowledgedKeeps, DismissedKeeps, HeartbeatKeeps,
     HeartbeatUnansweredKeeps, DisconnectUnansweredKeeps, PrimaryOpensKeeps,
     PrimaryAcceptedKeeps, PrimaryRefusedKeeps, PrimaryAbandonedKeeps, StartKeeps,
     CloseCallKeeps, CloseDisconnectedKeeps, CloseGatheredKeeps, HubGoesKeeps, HubComesKeeps,
     SocketFailsKeeps, LibraryClosesKeeps
  DEF Others
<1>4. CASE UNCHANGED vars
  BY <1>4 DEF vars, world, HubInv, HubTypeOK, Connection, Places, SocketsApart,
     Closers, Owned, Live, PrimaryLive, Establishing
<1> QED
  BY <1>1, <1>2, <1>3, <1>4 DEF Next

LEMMA HubInvariance == Spec => []HubInv
  BY HubInvInitially, HubInvKept, PTL DEF Spec

\* What the invariant says once close() has returned.
LEMMA InvNothingLeft == HubInv => NothingLeft
<1> SUFFICES ASSUME HubInv, closing, closer = "no" PROVE NothingLeft
  BY DEF NothingLeft
<1> USE DEF HubInv
<1>1. run = "none" /\ closers = <<>> /\ closeTask = None
  BY DEF Places
<1>2. conn = None /\ reported = None /\ timers = {}
  BY <1>1 DEF Connection
<1>3. ASSUME NEW s \in Sockets
      PROVE  sockets[s] \in {"free", "lingering"} \cup (IF Swallows THEN {"leaked"} ELSE {})
  BY <1>1, <1>2 DEF HubTypeOK, Places, SocketsApart, Owned, Live, PrimaryLive,
     Establishing
<1> QED
  BY <1>1, <1>2, <1>3 DEF NothingLeft

LEMMA InvConnectedTruly == HubInv => ConnectedTruly
  BY DEF HubInv, Connection, ConnectedTruly

\* When close() has returned, every socket is closed or left to the library, and
\* neither a task nor a timer is left, whatever the run task, the receiver and the
\* task that tries the primary were at when it was called.  Except, on a Python
\* that can lose a cancelation, the connection that is accepted while it is asked for.
THEOREM ClosesAll == Spec => []NothingLeft
  BY HubInvariance, InvNothingLeft, PTL

\* The hub that is reported is the one at the other end of the connection.
THEOREM ReportsTruly == Spec => []ConnectedTruly
  BY HubInvariance, InvConnectedTruly, PTL

=============================================================================
