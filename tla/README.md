# BACpypes3 in TLA+

TLA+ models of the protocol machinery of BACpypes3 (`src/bacpypes3`), an
asyncio implementation of BACnet, with TLC runs that check them on small
instances and TLAPS proofs for every instance.

* [The system](#the-system): components, their state, how they interact
* [The modules](#the-modules): what models what, and how
* [The runs](#the-runs): what each one asks, its bounds, what it shows
* [Disagreements](#disagreements) between the code and what it says of itself
* [What is proved](#what-is-proved)
* [What is not modelled](#what-is-not-modelled), and [the plan](#plan)

## The system

A BACnet device is a stack of layers that are bound to each other. A PDU goes
down the stack by `request`/`indication` and up by `confirmation`/`response`
(`comm.py`). Everything runs on one asyncio event loop: a handler runs until it
awaits something that is not ready, and what interleaves is what the loop calls
between two such points: datagrams, timers, tasks that were created, callbacks
of futures.

| Component | State | Operations | What makes it correct |
|---|---|---|---|
| **Application** (`app.py`) | `next_invoke_id`, `_requests`: outstanding requests with their futures, by destination | `request`, `_request_done`, `confirmation`; `indication` runs the handler of a service | invoke IDs of outstanding requests differ; every future is resolved and nothing stays listed |
| **Application service access point** (`appservice.py`) | `clientTransactions`, `serverTransactions`, communication control | finds or makes the transaction for an APDU from below or above | one transaction takes an APDU; transactions end |
| **ClientSSM, ServerSSM** (`appservice.py`) | state, retry counts, window, sequence numbers, timer, the message being cut or put together | one handler per state, one timeout per state | segments are put together in order and completely, one result per request, retries bounded, timers do not outlive what they guard |
| **Device communication control** (`service/device.py`) | `dccEnableDisable`, timer | enable, disable, with a duration | communication comes back |
| **Routing cache** (`netservice.py`) | `path_info`, `router_dnets`: one relation stored from both ends | update, remove, status, renumber | the two dictionaries agree |
| **Network layer** (`netservice.py`) | adapters by network number, futures of Who-Is-Router and What-Is-Network-Number | routes PDUs, learns paths and numbers, announces, searches | paths are of the network the adapter is on; a message for which a router is known or heard is sent; a wait ends |
| **Routers** (`netservice.py`), **virtual LAN** (`vlan/__init__.py`) | several adapters, one routing cache | pass messages, questions and announcements on | what the caches of several devices say fits together; a message gets where it is meant, once, with its true source |
| **BACnet/IP** (`ipv4/service.py`) | foreign device: registration status, three timer handles; BBMD: FDT, BDT | register, renew, expire, forward broadcasts | registered means listed; renewals go on until told otherwise, once each; a broadcast reaches everyone once |
| **BACnet/IPv6** (`ipv6/service.py`) | the same and virtual address tables | address resolution | an address is resolved or given up |
| **BACnet/SC hub connector** (`sc/service.py`) | connection, hub reported, event `_disconnected`, timers; run task, receiver, task that tries the primary | start, close; connect, serve, heartbeat, fail over, replace, tear down | back at the primary hub when that is up; what it reports is where it is connected; `close()` returns and leaves no socket |
| **COV** (`service/cov.py`, `local/cov.py`) | detections with the value last reported, subscriptions, their timers; contexts of the client | subscribe, renew, cancel, expire, notify; enter, refresh, leave | a subscriber knows the value to within the increment; an open context is subscribed, one that was left is forgotten |
| **Commandable objects** (`local/cmd.py`) | priority array, present value, command priority | command and relinquish at a priority | the highest priority governs |
| **Events and faults** (`local/event.py`, `local/fault.py`, `local/object.py`) | event state, reliability, one pending transition, what has changed | evaluate a changed property later, transit now or after a delay, inhibit, enable | at rest the state fits the value, and a lasting offnormal value is reported |
| **Device information cache** (`app.py`) | records by instance and address | update from I-Am | one record per device |
| **Schedules, trend logs** (`local/`) | present value and timer, records | evaluate, append | dates and buffers |
| **Codecs** (`pdu.py`, `apdu.py`, `npdu.py`, `bvll.py`, `primitivedata.py`, ...) | none | encode, decode | data only |

Interactions that matter: `Application.request` creates a task that goes down
through the access point, which makes a `ClientSSM`; its segments go to the
network layer, which may suspend the sender while it looks for a router; the
network layer hands them to the virtual link layer. Answers come up from a task
per datagram. Timers call `timer_expired`, which creates one more task.
A write of a property calls its monitors at once; those put an algorithm (event,
fault, change of value) in the queue of the loop, where it runs once however
many writes there were.

What is hard: datagrams that are lost, late, doubled or out of order; retries on
both sides with equal timeouts; a result that meets a future that is done; state
that changes between a call that is scheduled and its run; timers that are
forgotten uncanceled; counters that wrap. `PROJECT.json` lists these hazards at
their lines with the properties that cover them.

## The modules

| Module | Models | Role |
|---|---|---|
| `SSM` | class `SSM`, the datagrams between two devices, UDP | constants, helpers |
| `ClientSSM` | class `ClientSSM`, the client's list of transactions and application | component |
| `ServerSSM` | class `ServerSSM`, the server's list and application | component |
| `Transactions` | both of them and the network | composition, properties |
| `ConfirmedService` | what an application may rely on when it makes a confirmed request | abstract specification |
| `OutstandingRequests` | `Application.request` and what ends it; communication control | component |
| `RouterInfoCache` | class `RouterInfoCache` | component |
| `NetworkLayer` | the network layer of a station over the routing cache | component, extends `RouterInfoCache` |
| `Routing` | stations and routers on several networks, each with its routing cache | composition of devices |
| `ForeignDevice` | `BIPForeign`'s registration and `BIPBBMD`'s table | component |
| `Broadcasts` | what `BIPNormal`, `BIPForeign` and `BIPBBMD` send, receive and forward, on several IP subnets | composition of stations |
| `Commandable` | `Commandable`'s priority array | component, and what `ChangeOfValue` refines |
| `ChangeOfValue` | detection with an increment, and the server's subscriptions, of a commandable object | component, extends `Commandable` |
| `CovContexts` | the client's subscription contexts and the server | composition, extends `ChangeOfValue` |
| `EventReporting` | event and fault algorithm of an analog object | component |
| `HubConnector` | `SCHubConnector` | component |
| `TransactionsProofs`, `OutstandingRequestsProofs`, `NetworkLayerProofs`, `RoutingProofs`, `ForeignDeviceProofs`, `BroadcastsProofs`, `HubConnectorProofs` | | theorems about the module they are named after and what it extends |
| `LocalObjectsProofs` | | theorems about `Commandable`, `ChangeOfValue` and `EventReporting` |
| `MC...` | | values of constants for TLC |

Some definitions come in two versions, the second preceded by a comment that
begins "Wrong:". The wrong one is not used by the specification; it is the bug a
property is meant to catch, and with it in the place of the right one the run
that checks the property fails. `PROJECT.json` lists the pairs under `mutants`,
and under `map` the lines every definition was translated from.

### Confirmed services (`SSM`, `ClientSSM`, `ServerSSM`, `Transactions`)

`client[id]` and `server[id]` are the transactions with an invoke ID on the two
sides; their fields are the attributes of the classes (`segRetry` is
`segmentRetryCount`, `initial` and `last` the two sequence numbers, `win`
`actualWindowSize`, `buf` what `append_segment` has put together). A state of
`"NONE"` stands for idle, completed and aborted: such a transaction is on no
list. An action is one handler with the whole of what it does: what it assigns,
which timer it starts or stops, what it sends.

The network `net` is a set of datagrams. Any of them may be delivered at any
time, delivered twice (`dups`), or never. The payload of a segment says which
message and which segment it is, so that a message put together wrongly shows.

A timer is two booleans, after the code: `timer`, a call of `timer_expired` is
scheduled; `late`, the call has been made and the task it created has not run.
The order of timeouts of different transactions is left open, which covers every
value of the timeouts.

`RuntimeError`s that the code raises out of a handler end the handler where they
are raised, and the model's action has the effects up to there (`fill_window`
beyond the last segment, "invalid APDU (6)" and "(7)").

The server's application answers an execution at any time or never, with any of
`AckKinds`. An answer goes to the transaction that has the invoke ID by then in
whatever state it is in, as in the code (l.1057-1059 only logs).

`ConfirmedService` is the abstract specification: a request is answered once; an
acknowledgement or a reject says that the server's application was given this
very request; it is answered if it was sent. `Service` in `Transactions` is the
refinement mapping.

### Outstanding requests (`OutstandingRequests`)

The layer above: which request gets which invoke ID, how an answer finds its
future, what cancelation does. `ready` is the loop's queue with the tasks that
`request` has created and the done callbacks of futures, in the order in which
they run. A transaction is on the list `transactions` and ends by an answer or
by itself; that it does is what `EveryRequestAnswered` shows of `Transactions`,
and the fairness here assumes it. `spinning` is the loop of l.1213 that never
finds a free ID; nothing else runs from then on.

### Routing cache and network layer (`RouterInfoCache`, `NetworkLayer`)

The two dictionaries are functions with their keys as domain. `UpdatePathInfo`,
`RemoveRouter`, `RemoveDnets`, `UpdateRouterStatus` and `UpdateSourceNetwork`
are the methods; the actions named `...Raises` are what they leave when they
raise half way.

`NetworkLayer` is precise about the event loop, because the properties hang on
its order: `ready` is the loop's queue of callbacks, first in first out, and a
task that a handler creates goes to its end. `Receive` keeps what asyncio gives:
a socket is read once in a turn, and the task for the datagram runs before the
same socket is read again. A BACnet/IP link has one socket or two
(`ipv4/__init__.py`: one for the local address, one for broadcasts).

### Routers (`Routing`)

`NetworkLayer` is one station and every turn of its event loop; `Routing` is many
devices and one action per datagram. `path[n][s][d]` is the router to network `d`
that device `n` knows on its own network `s`, which is what `get_path_info`
answers; that the two dictionaries behind it agree is the business of
`RouterInfoCache`. `wire` is the bag of datagrams under way, one for each receiver,
after `Network.process_pdu` of the virtual LAN, but in any order and with losses.
The actions are `indication` with its branches (`SendToAll`, `SendDirectly`,
`SendToRouter`, `LookForRouter`), `process_npdu` (`ReceiveApdu`), the handlers of
Who-Is-Router-To-Network and I-Am-Router-To-Network, the calls a program makes of
them, and the restart of a device with an empty cache. A message that waits for a
router is sent by the handler of the announcement that answers it (`Waiting`).

Numbers of networks are configured, a device has one socket per network, and
nobody but the routers of `Way` announces networks. `TreeAssumption` says that
between two networks there is one way. The code has to have that:
Who-Is-Router-To-Network and I-Am-Router-To-Network are passed on without a hop
count, so in a ring they go round for ever. `Distance`, the number of routers between
two networks, and `ReachAssumption` are there for `GetsThrough` alone.

### BACnet/IP (`ForeignDevice`, `Broadcasts`)

Time in seconds, with the code's own constants: 5 seconds to the next attempt,
30 until the device takes itself for expired, 5 that the BBMD adds. A timer
handle is the time that is left. Before time goes on everything that is due is
called, in any order. `loose` are the handles that are still scheduled while no
attribute refers to them any more, the heart of several of the disagreements
below. Datagrams take up to `MaxDelay` seconds; at most `MaxLost` are lost.
`wanted` and `hasty` are history: whether `register` was called last, and whether
it was ever called while datagrams of the registration before were under way.

`Broadcasts` looks at the same classes from the other side: the stations of
several subnets, and the way of a message among them. An action is the
`indication` of a station or its `confirmation` of one kind of datagram, with
all it sends. `net` is a bag of datagrams, one for each station that a datagram
reaches; a broadcast reaches its own sender too, which drops it
(`ReceiveReflected`). A BBMD hands a message to its network layer before it
forwards it, and when that raises an exception it does not forward it
(`raised`). `owed` is a history variable: the stations that a broadcast was for
when it went out and that have not got it. The registration of a foreign device
is cut down to what matters here: it is made once, and ended once.
`TopologyAssumption` says what a network that is set up properly looks like: a station is of
one class, every subnet but those of foreign devices only has a BBMD, and the BBMDs know each other;
that a foreign device must not be where the broadcasts of its own BBMD come out
is part of it, because there it would be given everything twice, its own
messages included: `BIPForeign.confirmation` looks at the address a datagram
comes from and not at how it came. Stations run on a system where broadcasts
have a socket of their own. On Windows there is one for both,
`set_local_transport_protocol` (ipv4/__init__.py l.216) makes every datagram
look like a broadcast, and a BBMD would never do the second hop.

### Local objects (`Commandable`, `ChangeOfValue`, `CovContexts`)

`Commandable` is a commandable object by itself: a priority array, the value and
the priority that govern. Only a command recalculates them. An array, a default and a
command priority that are given to the constructor are kept as they are
(`InitCommandable`; `GivenSlots` bounds what such an array holds), and so is an array that the program sets (`SetPriorityArray`) and a
`relinquishDefault` that is written (`WriteRelinquishDefault`). Two history variables say
what can be relied on: `settled` is FALSE from where an array or a command priority was
given or set until the next command, and `effective` is the default that was in force at
the last one. `Governed` is stated with them; that the docstring of the class promises
more is under [Disagreements](#disagreements).

`ChangeOfValue` extends it with the detection that listens to the object and the
subscriptions of its clients. A write that is worth reporting puts the detection's
execution in the queue `ready`; a client that has subscribed is told alone, behind
the answer to its request (`answering`, then `ready`). `told` and `aside` are
history variables: what each subscriber was sent last, and who was passed over
while another was told alone. `ImplementsCommandable` says that nothing of this
disturbs the object.

`CovContexts` adds the client: contexts that share an address and a process
identifier, and so one subscription at the server. Requests to one address are
outstanding one at a time, in the order in which they were made (the queue
`requests`; `OutstandingRequests` is about that level); the server handles the first of
them and answers, or the request fails. `lapsed` and `stray` are history: the
contexts whose refresh failed, and those that were left while one was under way.

### Events and faults (`EventReporting`)

A property that changes calls its `Parameter`s, which put the algorithm in the
queue, once (`FaultScheduled`, `EventScheduled`); the algorithm looks at the
properties when it runs. The fault algorithm computes the reliability; a change of that
is one more changed property of the event algorithm. `what_changed` is what of
`_what_changed` the event algorithm looks at: whether the reliability changed and
whether the inhibition was switched on or off. `StateTransition` is
`state_transition`: nothing, a pending transition canceled or kept, a transition
at once, or one delayed by a timer (`transition_state`). The timer may go off at
any time, which covers every value of the delays. `looked` is a history variable:
the last run of the event algorithm did look at the value.

The model is of the out-of-range algorithm; change-of-state would have another
`Requested`, most others raise `NotImplementedError` when they run (event.py l.1001, l.1215, ...). The distribution of the notification is left out, the assertion in it
that the two states differ is what `PendingIsDue` asks for.

### BACnet/SC (`HubConnector`)

The tasks of a connector are where they await: `run` for the run task (`"opening"`
a socket, `"establishing"` the connection on it, `"serving"` it, `"gathering"` the
two tasks it has canceled, `"closing"`, ...), `receiver`, `primary` for the task that tries the
primary hub from the fail-over hub, `closer` for a caller of `close()`. Whoever
awaits the closing of a socket in `_close_connection` stands in `closers`, because
those that are woken go on in the order in which they began to wait. A socket is
open, half open (`"silent"`: sends are accepted, nothing comes), broken, being
closed by the library after its closing was interrupted (`"lingering"`), or
forgotten (`"leaked"`). An action is what a task does between two awaits.

`cancel()` of the run task throws `CancelledError` where the task awaits
(`RunCancelled`), with the `finally` clauses that follow. `Swallows` says
whether `asyncio.wait_for` can lose it (`RunSwallows`), which it does before
Python 3.12 when its result is there in the same turn of the loop; the package
supports Python from 3.8 on. Calls of `close()` are over before `start()` or
`close()` is called again.

## The runs

Every run is a `.cfg` of the same name. Runs of `MCTransactions` begin with
`Tx`, of `MCOutstandingRequests` with `Rq`, of `MCNetworkLayer` with `Net`, of
`MCRouting` with `Rt`, of `ForeignDevice` with `Fd`, of `MCBroadcasts` with
`Bc`; `Ev` is `EventReporting`, `CovReports` is `ChangeOfValue`, `CovContexts`
the module of that name, `Cmd` is `Commandable`, `Sc` `HubConnector`. Deadlock is
checked where the system has to go on for ever (`Fd`, `Ev`, `Cov`); the others may come to rest
when all requests, datagrams and calls of the instance are used up.

| Run | Instance | Shows |
|---|---|---|
| `TxService` | 1 request, all kinds of answers, in 3 segments, window 2, 1 retry, 1 duplicate, 2 executions | implements `ConfirmedService`; `AnsweredOnce`, `ResponseInOrder`; with fair timers `EveryRequestAnswered`, `EveryTransactionEnds` |
| `TxSegmentedRequest` | 2 requests under 1 invoke ID, in 3 segments and in 2, windows 2, 1 retry, 1 duplicate, 1 execution that is not answered | `RequestInOrder` |
| `TxReuse` | 2 requests under 1 invoke ID, in 3 segments and in 1, answer in 3, acknowledged or aborted, 1 duplicate; no retry, 3 executions; 8 pairs of devices | `ExecutionsBounded`, `SegmentationRespected` |
| `RqRequests` | 3 requests, 2 devices, 2 invoke IDs, one request canceled or not, communication control | `UniqueInvokeIDs`, `ListedWhilePending`, `SharedOnlyAfterwards`, `EveryFutureDone` |
| `NetLearns` | 4 datagrams; 1 socket, 2 sends, 1 question for the number, or 2 sockets and 1 send | `HandlersKeepConsistent`, `NothingLeftBehind`, `HeardRouterIsUsed`, `EverySendEnds` |
| `RtDelivery` | a line of three networks, 2 routers, a station at each end, a fourth network without a way; 2 of 9 messages; 1 of: a loss, a restart, an announcement or question | `PathsHold`, `SourceIsTrue`, `DeliveredOnce`, `GetsThrough` |
| `BcDelivery` | 3 BBMDs, one with directed broadcast, one without a network layer, 2 normal and 2 foreign devices on 4 subnets; 1 message from anyone to anyone or all, 1 exception | `GivenOnce`, `ReachesAll` |
| `FdRegistration` | time to live 4, attempts every 3, grace 6 and 4; delay 1, 2 losses, 1 refusal, 1 stray result, 3 calls | `OneRenewal`, `RegisteredIsListed`, `RenewalsGoOn`, `RegistersAgain`, no deadlock |
| `EvReporting` | 6 values that fall beyond, into and within limits, deadband and fault limits; delays or none; 2 settings, 3 algorithms queued | `StateFitsValue`, `PendingIsDue`, `FaultOfValue`, `HighLimitReported` |
| `CovReports` | 2 clients, 2 priorities, 3 values, any default, value and command priority to begin with and any array of one of the values and Null, increments 0 and 4, subscriptions with and without end, 3 writes | `Governed`, `FirstNotification`, `ReportedValueIsClose`, `SubscriberIsTold` |
| `CovContexts` | 2 contexts, another client, a lifetime | `OpenIsSubscribed`, `LeftIsForgotten` |
| `ScConnects` | 2 hubs, 3 sockets, 1 trouble (a hub or a socket that goes, a refusal, a slow answer, a dismissal), 2 starts | `NothingLeft`, `ConnectedTruly`, `ReturnsToPrimary`, `CloseEnds` |

`TxTwoRequests.cfg` is one more configuration of `MCTransactions` that asks nothing
new: `ProvidesService` of two requests under invoke IDs of their own, in one segment
each. The type invariants are in no run's list, since they are proved
(`Transactions`, `OutstandingRequests`, `NetworkLayer`, `Routing`, `ForeignDevice`,
`Broadcasts`, `Commandable`, `ChangeOfValue`, `EventReporting`, `HubConnector`)
or were checked once and say little. So were the inductive invariants of the proofs:
TLC checked each of them before it was proved.

What the properties have to allow is part of what they show:

* `ExecutionsBounded` does not say that a request is executed once. A server that
  is done with a transaction has forgotten it, so every retry may execute again,
  and the segments of two answers may be put together as one. With retries the
  bound is not the number of attempts either: in each of them the first of several
  segments is sent again while it is not acknowledged, and a server that has
  finished with the request takes it for a new one (`Transmissions`).
* `RequestInOrder` is stated of what follows the segment the server began with, and
  asks neither whether that was the first one nor whether all of them are of one
  request. The code looks at neither: `TxForwardsWhole` and `TxMixesRequests` show
  what comes of it. So late segments of one request do get among those of the other in
  `TxSegmentedRequest`, and what is checked is that they do so in order and that what is
  handed over ends where a request ends.
* `Governed` compares with the default of the last command and leaves out an array
  that was given or set until a command has followed: `CmdProperties` shows what is
  read until then.
* `SharedOnlyAfterwards`: `_request_done` (app.py l.1254) frees the invoke ID of a
  request that was canceled, or answered by an old answer, while its transaction
  is still in `clientTransactions`. Two transactions can share an ID, in this
  case and in no other; the first on the list then takes the other's answer.
* `EveryFutureDone` is stated of requests that went out. With communication
  disabled `sap_indication` (appservice.py l.1779) drops a request without a
  word, and its future stays pending. It also ends where all invoke IDs to a
  device are outstanding: `request` (app.py l.1213) then never returns.
* `HandlersKeepConsistent`, `NothingLeftBehind` and `HeardRouterIsUsed` are stated
  for one socket (`OneSocket`), as it is bound
  to a local address. With a second one for broadcasts a datagram can be handled
  between `NetworkNumberIs` and its task `update_source_network`
  (netservice.py l.2268), and a second announcement of a router before the
  waiting task goes on makes two entries in the list it is given (l.1264), which
  l.838 answers with `UnknownRoute`. `EverySendEnds` holds with two sockets too.
* `ReachesAll` speaks of foreign devices that were registered, by their own account
  and in the table, from when the message went out until it came, and of messages
  over which no network layer raised an exception. The network loses nothing here:
  a lost broadcast is not repeated by anyone.
* `GivenOnce` would not hold of a foreign device that moves to another BBMD while a
  broadcast is under way; the model's devices have one BBMD each.
* `RegisteredIsListed` assumes that nothing was lost or refused. The BBMD drops an
  entry 5 seconds after its time to live, the device takes itself for registered
  for 30, so one lost renewal sets them apart. It also assumes that the device
  did not register again while datagrams of the registration before were under way
  (`hasty`): an answer does not say what it answers, and that of the registration
  before is taken for this one's (`FdAtOnce`).
* `OneRenewal` assumes that nothing was refused, registered in haste or answered from
  elsewhere (`Undisturbed`), `RenewalsGoOn` and `RegistersAgain` also that what is lost
  is outlasted by the 30
  seconds of grace (`Bearable`: one more attempt than losses fits in). With more the
  registration expires, and `_registration_expired` (ipv4/service.py l.838) cancels
  the next attempt too.
* `TimingAssumption`: an answer comes before the next attempt, and a renewal within
  what the BBMD adds to the time to live, with the second that its clock is coarse.
  With the code's 5 and 5 seconds that is a delay of up to 1.5 seconds each way. An
  answer that is later than the next attempt meets the handle of the next renewal
  (l.538) and leaves two chains of renewals.
* `PathsHold` excepts routers that were restarted: the others still send by them,
  and nothing tells them not to. The path is the right one all the same.
* `SourceIsTrue` excepts messages of a router's own application to a network beyond
  another than its local network (`LeavesElsewhere`): see `RtSources` below.
* `GetsThrough` is stated where nothing was lost and all is quiet, excepts messages
  that a restarted router had to look for a way for (see `RtLooks`), and allows that
  the search for a router times out while an answer is under way.
* `StateFitsValue`, `PendingIsDue` and `HighLimitReported` are stated of an
  algorithm that looked at the value when it last ran (`looked`). A run that deals
  with the reliability or the inhibition returns before it looks, and nothing
  makes it look again but the next change. `StateFitsValue` also leaves out normal with a
  limit disabled: the run that leaves the state of a limit just disabled does not
  see that the value is beyond the other.
* `SubscriberIsTold` leaves out those passed over (`aside`): a detection has one
  reported value (local/cov.py l.404), which the notification of one new
  subscriber sets for all.
* `OpenIsSubscribed` is stated of contexts whose refreshes succeed, and says that
  the subscription is there again and again: one context that is left cancels it
  for the other, which shares it, until that one's next refresh.
* `LeftIsForgotten` is stated of contexts that were left while no refresh was under
  way (`stray`), `CloseEnds` and `NothingLeft` allow for a cancelation that is lost:
  see the disagreements.

### Why the bounds are enough

* Three segments and a window of two make every case of a window: its first
  segment, one within, its end, the last of the message in a second window that
  is not full, and acknowledgements that are old by a window. Sequence numbers
  are modulo 4, as few as keep them from wrapping within a message. Messages
  with more segments than there are sequence numbers, for which `fill_window`
  (appservice.py l.370) takes the wrapped number for the index and starts over,
  are outside of the runs.
* One retry makes two attempts and so every interleaving of an attempt with what
  is left of the one before; datagrams stay in the network for good, so what is
  left never goes away.
* `GivenSlots` of one value and Null make every pattern of empty slots; the other values
  come by commands. Theorems hold for any.
* Transactions under different invoke IDs share nothing but the network, so one request
  stands for several in `TxService`. Under one ID two requests need not get the service:
  the answer to the one may be taken for the other's.
* In `TxSegmentedRequest` both requests are segmented and share the invoke ID, and each is
  sent twice, so windows are filled again, the server gives up and begins anew, and
  segments of both are around at once. The server's application does not answer there:
  what a server collects has been collected before, and every transaction of the client
  then ends by its timer and frees the ID.
* `MaxExecs` bounds how often the server's application is called: 2 for a
  request that is retried once, 3 in `TxReuse` for two requests and a duplicate.
  A datagram that would make one more is not delivered in that state.
* `IdMod` of 1 or 2 makes invoke IDs wrap and run out, with as many requests.
* Four datagrams let a number be learned twice and routers be learned before,
  between and after; three and a wait make the router search race.
* Two routers on a line are the least with which a router hands a message to
  another router, and each end has a station. The nine messages are one to a
  neighbour, to a station and to a network beyond one and two routers, to
  everybody, to a network that does not exist, and from a router in both
  directions, beyond its local network and beyond the other. Two of them make a
  way learned from one used, or missing, for the other. `MaxEvents` of 1 is one
  loss, restart, announcement or question at any time.
* One message is enough for `GivenOnce` and `ReachesAll`, because no handler
  keeps anything of a message; what changes between two messages is who is
  registered, and that changes during the one as well. Two BBMDs make the ways
  over a directed broadcast and over a second hop, the third is one that only
  forwards.
* The times of `FdRegistration` are the least that keep their order and
  `TimingAssumption`: attempts sooner than the time to live, a grace of two
  attempts. So two losses are beyond what is bearable, and one is not; an expiry and what
  follows it are in the run. The theorems have no such bounds. Three calls are
  register, unregister and register again.
* `MaxSettings` counts writes of anything but the value, `MaxReady` the length
  of the queue at which nobody writes: two settings make one go on and off
  again, or two of them meet, before either algorithm has run; values change
  without a bound. The six values of `EvReporting` are one in each interval that
  the limits, the deadband and the fault limits make.
* `MaxWrites` of 3 makes a value drift by less than the increment, twice, and
  come back. Values 0, 3 and 6 with an increment of 4 have a step that is
  reported and one that is not.
* Two contexts and one other client are the reasons for which a subscription of
  the client, and a detection, goes and stays.
* `MaxTroubles` of 1 is one thing that goes wrong beyond the hubs, which are up
  or not at the start and come at any time; `ScConnects` also passes with two
  troubles (937 thousand states), with `Swallows` FALSE too. Three sockets are
  one in use, one of the primary's task and one still closing. `MaxStarts` of 2
  makes a connector start again with what `close()` left.
* The devices of `TxReuse` are a capable pair and one pair for each reason the
  code has for not sending segments.

### Fairness

* `Transactions!Fairness`: a timer that is set goes off, and the task it
  creates runs. That is what `call_later` and `ensure_future` promise. Nothing
  is assumed of the network or of the server's application: the requests are
  answered by the client's own abort if by nothing else.
* `OutstandingRequests!Fairness`: tasks and callbacks that are scheduled run, a
  transaction ends, a timer goes off, and whoever wants communication enabled
  asks for it again and again (weak fairness of the request, which is only
  needed to make `CommunicationComesBack` a fair question).
* `FairLayerSpec`: the loop runs what is ready and what is due.
* `FairForeignSpec`: time goes on, what is due is called, a datagram that is not
  lost arrives. The number of losses is bounded, so enough arrive.
* `EventReporting!FairSpec`: the loop runs what is queued, a timer goes off.
* `CovContexts!FairSpec`: timers go off, the server handles a request and its
  answer arrives or the request fails (the result of `Transactions` again), a
  subscription with a lifetime expires.
* `HubConnector!FairSpec`: the tasks run, timers go off, a socket that is being
  closed is closed (the code has a time limit for it), and a hub that is up
  answers or refuses. Hubs need not come back, nobody needs to start or close.

## Disagreements

Each of these configurations checks one property that the code's own words state,
or that its interface promises, and TLC finds a behaviour of the code that breaks
it: `tlc -config X.cfg` with the module of the other runs of that prefix. The run in the last
column checks the property with the exemption that the behaviour calls for.
`findings` in `PROJECT.json` gives the lines and the words.

| Configuration | What happens | With the exemption |
|---|---|---|
| `TxForwardsWhole` | the server times out as the client sends its next window; the first segment to arrive is taken for the first of a new request, and the tail of the request is handed to the application | `TxSegmentedRequest` |
| `TxMixesRequests` | a client gives a request up and uses the invoke ID for the next one; a late segment with the number that is due completes the other's buffer, and the application is handed a mixture | `TxSegmentedRequest` |
| `RqComesBack` | disabled communication cannot be enabled by a request, which is the one request that should get through | `RqRequests` |
| `BcDistributes` | a BBMD with no network layer: `UnboundLocalError` before any foreign device gets what another one distributes | `BcDelivery` |
| `FdAtOnce` | register, unregister and register again at once: the answer to the first registration is taken for the second's while the order to unregister is still under way, and the device takes itself for registered when the BBMD has deleted it | `FdRegistration` |
| `FdRefused` | one refusal, and the device ignores every later result | `FdRegistration` |
| `RtLooks` | a router without a path looks for one, and when it is answered raises `AttributeError`: the message is lost, the next one gets through | `RtDelivery` |
| `RtSources` | the application of a router sends to a network beyond one of its other networks; the message is taken for one from a station of that network, and an answer to it is dropped by the router | `RtDelivery` |
| `EvPrecedence` | the reliability becomes one of a fault while the event algorithm is queued for another change; the change is not recorded, and the object stays out of FAULT | `EvReporting` |
| `CmdProperties` | an object that is given an array, or a default other than its value, does not recalculate, and neither does one whose default is written or whose array is set: the present value is not that of the array and the default, which the class says govern it | `CovReports` |
| `CovLeaves` | a context is left while the task of its refresh is under way: it subscribes again after the cancelation, and sets the timer to do so for ever | `CovContexts` |
| `ScSwallows` | `close()` cancels the run task in the turn of the loop in which the Connect-Accept arrives; `wait_for` answers with the result and the cancelation is gone, the connector is connected, and `close()` never returns | `ScConnects` |

`RtLooks` and `RtSources` were reproduced with the real classes on a virtual
LAN. The hang of `ScSwallows` was reproduced with the real class under Python
3.11, against a hub that accepts in the turn of the loop in which `close()` is
called.

Met while modelling, and in the models as the code has them:

* Events. A delayed transition survives the disabling of detection and later
  leaves from a state the object is no longer in. Inhibition switched on and off
  before the algorithm runs is handled as "on". An object in FAULT goes to
  normal when its algorithm is inhibited, though the reliability is still that
  of a fault, and does not go back to FAULT when detection is enabled again.
  When the reliability returns to no fault while the object is in the state of a
  limit it goes to normal (event.py l.347). A delayed transition to or from
  FAULT is canceled by an unrelated change of the value, and one to normal is
  not canceled when the fault comes back. From one fault to another nothing is
  reported, since `eventState` stays what it is. `eventEnable` is never
  consulted.
* COV. `__aenter__` looks for an existing context after it has subscribed and
  not before (cov.py l.95); a first notification that arrives before is dropped.
  A request with confirmation but no lifetime raises `TypeError` in
  `Subscription`, which leaves a detection without subscriptions bound, and
  makes one that is renewed permanent. A renewal does not change whether
  notifications are confirmed. Cancelling a subscription that does not exist
  leaves a detection too.
* SC. A Result that says no, whatever it answers, closes the connection when it
  comes over an established one (service.py l.1012). With a lost cancelation in
  the task that tries the primary, `close()` at the same time leaves that socket
  open. `start()` during `close()` is ignored without a word.

## What is proved

Every theorem holds for all values of the constants that satisfy the assumption
named in the module, and without any of the bounds of the runs; `MaxExecs` and
`MaxDups` are constants of the specification and may be any number.

### Transactions (`TransactionsProofs`)

From `SSMAssumption`, which says that counts are numbers, moduli positive,
windows between one and the modulus, and every message at least one segment:

* `TypeCorrect`: `Spec => []TypeOK`. The shape of a transaction alone is not
  inductive: that a segment sent is one of a message there is needs
  `HasContent`, a transaction on the list has a request and an answer being sent
  has an execution. The invariant `Shape` is the two together, and what follows.
* `SegmentsArePermitted`: `Spec => []SegmentationRespected`. The code looks at the
  two devices once, when a transaction begins, and sends segments long after, for
  every window and every retry. So `HasContent` also says of a transaction what was
  looked at (`MaySend`, `MayRespond`), and `Shape` of every datagram under way that
  it is one that may be sent (`Permitted`). The limit on the number of segments goes
  through the encoding: what the server decodes is never more than the client meant
  (`DecodedLemma`).
* `RequestsAssembled`: `Spec => []RequestInOrder`, of requests with fewer segments than there
  are sequence numbers, whoever shares an invoke ID. The invariant `Assembled`
  ties the buffer of a server in SEGMENTED_REQUEST to `lastSequenceNumber`: it has one
  segment more than that number, in order, so the segment that is due is the next. That
  one without more-follows ends a request is known of every datagram (`LabelLemma`).
* `AnsweredAtMostOnce`: `Spec => []AnsweredOnce`. It is not inductive: an
  end of one transaction would be a second result if another one had ended the
  same request before. The invariant `Outstanding` adds that transactions on the
  list are of different requests, each of one that was made, and that a request
  not made yet has no result.
* `ExecutedAsSent`: `Spec => []ExecutionsBounded`, of requests that have fewer segments
  than there are sequence numbers (`FewSegments`). Beyond that the code takes the
  wrapped number in a SegmentACK for the index of a segment (appservice.py l.370) and
  sends the first segment in place of a later one, which no count of attempts bounds.
  The proof counts where the first segment of a request is: under way, kept by a server
  transaction that it began, or part of what was executed (`Count`). A step of the
  server moves it from one of these to the next, and only the client and a doubled
  datagram add one. `Counted` relates the number to the attempts the client has made
  (`Spent`), and `Numbered` has that none of the numbers around is the highest there is,
  so what follows an acknowledged segment is never taken for the first.

There are some twenty handlers, and most of what they do is of no interest to
`AnsweredAtMostOnce`. So the proofs go through what a handler amounts to: a request is
made (`Asks`), a transaction changes and stays on the list (`Changes`), or one ends with
a result (`Ends`). One lemma per handler shows that it is one of these and sends
datagrams of the right shape (`ClientEffect`, `ServerEffect`, `NetEffect`); that the
invariants are kept is then a matter of three cases. `ExecutedAsSent` looks at the
handlers once more, at those of the server for what they move (`ServerCounts`) and at
those of the client for what they send (`ClientMoves`).

### Outstanding requests (`OutstandingRequestsProofs`)

From `OutstandingAssumption` (a positive number of invoke IDs, and the program
chooses among them): `TypeCorrect`, `InvokeIDsUnique`, `ListedExactly` and
`SharedAfterwards`. All four follow from one invariant, `IInv`:

* `Listed`: what is listed for a device are its requests with a future that is
  pending or whose callback is in the queue, each once;
* `DistinctIDs`: no two of those share an invoke ID;
* `Queued`, `InTransaction`: a task or callback is in the queue once, a
  transaction is on the list once, and the task of a request has left the queue
  when its transaction is there;
* `Ordered`: of two requests that share an ID the earlier, in the queue or on the
  list, is not pending. `SharedOnlyAfterwards` says that of the transactions only.
  It is not inductive, because a transaction begins when its task runs, long
  after the ID was chosen: the invariant has to follow the requests through the
  queue, and that the queue is first in, first out is what makes it true.

The first part of the module has the lemmas about sequences without repetitions
that this rests on: what `Append`, `Tail` and the removal of an element do to the
elements and to their order.

### Routing cache and network layer (`NetworkLayerProofs`)

`CacheConsistent`: whatever the networks,
routers and statuses are, the two dictionaries of the routing cache keep their
shape and agree, under every operation of the class in any order. The agreement
alone is not inductive: that a network moves from one router to another in both
dictionaries needs that the router a path leads to is a router at all, which is
part of the shape. There is one lemma per operation. The theorem assumes what
`CacheNext` says: an adapter learns a number under which nothing is known yet.
Some of the operations are called by no
handler (`remove_path_info`, `update_router_status`), so it is the theorem that
speaks of them and not a run.

`HandlersConsistent`, `NothingStaysBehind` and `HeardIsUsed`: what
`HandlersKeepConsistent`, `NothingLeftBehind` and `HeardRouterIsUsed` say of a
station with one socket holds for any networks and routers and any number of
datagrams, sends and questions. All three hang on what the event loop has ready,
and the invariant `LayerInv` is mostly about that:

* `OneAtATime`: with one socket there is one datagram's task at most, one
  renumbering at most, and the renumbering comes first. That is what the second
  socket breaks;
* `KnownUnderOne`: everything known is known under the number of the adapter, or
  under the one that the renumbering in the queue will rename. With it the
  assumption of `CacheConsistent` is met, and nothing is left behind;
* `Waiting`: what the loop holds of a message that waits for a router; that its
  future goes off the list before its task goes on;
* `ListedUntilDone`: a future that has its router goes off the list before the
  next datagram is handled, so it is given one router and not two;
* `Shape`, and `CacheTypeOK` and `Consistent` of the cache.

### Foreign devices (`ForeignDeviceProofs`)

From `ForeignAssumption` and `TimingAssumption`, for any times that satisfy them:
`RenewsOnce` (`OneRenewal`), `ListedWhileRegistered` (`RegisteredIsListed`) and
`GoesOn` (`RenewalsGoOn`). They are statements about time, and what makes them
inductive is how the times of the two sides compare:

* `Handles`: a device with a handle knows its BBMD;
* `Listed`: every answer under way says of the entry what is still true but for the
  time it has taken (`NothingOld`), and the entry lasts until a handle is called and
  what it sends has arrived, or until a registration under way has (`InTime`). The
  BBMD's clock may already have run in this second or not, so the entry is counted
  with (`EntryLeft`);
* `Renewal` of `Single`: one handle goes on with the registration; at most one datagram is
  under way, and its answer will be there before the next attempt;
* `Postponed` of `Single`: the registration expires no sooner than the attempts that
  what was lost leaves. Every loss costs one attempt, hence the product in `Bearable`.

### Routers (`RoutingProofs`)

`RoutesHold` (`PathsHold`) and `SourcesTrue` (`SourceIsTrue`), for every tree of networks, with any number of
devices, networks and messages, any losses and restarts. Neither is inductive: what
a cache knows came out of a datagram, and what a datagram says came out of caches of
some time ago. The invariant `IInv` says of every datagram under way (`Sound`):

* whoever put it on a network leads from there to all it claims to, be it the networks of an
  announcement or the one it says it comes from;
* a message with a destination beyond is at the router that leads there;
* the source it would be shown with is true.

What makes this inductive is that caches only grow but for a restart, so what was
sound stays so (`LeadsKept`, `SoundKept`), and the tree: what a router has learned on
one network it leads to from its others (`TreeLemma`, `ClaimsLead`). The invariant also
has that no path of a device leads to itself (`PathsLeadAway`), without which a router
would answer for a network it does not lead to. There is one lemma for
each thing a device sends and one for each action.

`GivenAtMostOnce` (`DeliveredOnce`) is about copies: a router passes a message on, or
makes a copy for every other network, and each copy is one datagram for every device
there. The invariant `Apart` has that a device which was given a message, or has a datagram of it
coming, has no other (`Once`). What makes that inductive is where a message has been:

* one for everybody goes away from its sender (`Spreads`): a datagram comes from the
  device before (`Before`: the router towards the sender, or the sender itself), and the
  device before one that was reached has been given the message. Handling a datagram is thus the first
  time that anybody beyond hears of it;
* one for a network beyond is the only datagram of the message, and nobody has been given it, until it
  gets there (`Underway`); on its network it goes to those it is for and no
  further (`Arriving`).

`MessagesGetThrough` (`GetsThrough`) says what is still to come. It also assumes
`ReachAssumption`: there are finitely many networks, a router that leads to a network is on the
network it leads from, all devices can reach each other, and no way has more routers than a
message may pass; `Distance` counts them, and `None` is no number. The invariant `Through` says
of a message that nothing was lost of:

* a datagram has hops enough for what is before it (`Hops`);
* when the device before another one has been given a message for everybody, that one has it too or
  a datagram of it is coming (`Covers`). In the end this goes from the sender to all devices, by
  induction over the distance;
* a message for a network is under way to it, or is given or coming to all it is for there
  (`Heads`);
* while a device looks for a router there is a question or an answer under way, between the
  device and the router that leads on (`Sought`), so it gives up for want of a route or
  before the answer has come (`GivenUp`).

### Broadcasts (`BroadcastsProofs`)

`OnceToEach` (`GivenOnce`), for any number of subnets, stations and messages, and
`ToAll` (`ReachesAll`). Both are from `TopologyAssumption`. A broadcast goes down a tree: from its sender
to the BBMD of that (`Home`), from there to the other BBMDs, and from each BBMD to its
subnet and the foreign devices in its table. `Parent` is the station that hands it on to
another, and `Under` says that it does so at first or at second hand. The tree depends on
how the BBMDs forward: one to which directed broadcasts are sent has its subnet
served by the sender's BBMD. The invariant `IInv` says

* of a datagram under way (`Sound`): it comes from the parent of its destination, with the
  address of the sender of the message, and it is of a type that the sender's kind explains (`Fits`);
* of a message (`Apart`, `Alone`): a datagram that its destination takes is the only one
  coming to it, nothing has been given to it yet, and nobody below it has been reached. So
  what it hands on meets nobody who was given the message before;
* of tables and registrations (`Tables`, `Registration`): a BBMD lists devices that
  register with it, and a device knows no other BBMD than its own, so a foreign device
  takes what its parent sends and nothing else;
* the type invariant (`BroadcastTypeCorrect`).

`ToAll` is about the history variable `owed`. `Owing` says that a station which still has to get a
broadcast has a datagram coming, or there is one coming to a station above it; and that a
foreign device is registered and listed until then (`Brings`). A device that unregisters is
no longer owed anything, and the BBMD forgets it only afterwards.

`ToAll` has a hypothesis that `OnceToEach` does not have, `Supported`: the BBMDs with which foreign
devices register have a network layer. Without it the property does not hold of
the code, which `BcDistributes` shows: the handler raises before it sends anything
to the other devices. BBMDs without a network layer that no device registers with are
allowed, and `BcDelivery` has one.

There is one lemma for each thing a station sends: to its subnet, to its peers, to the foreign
devices (`Sent`). Each shows that these datagrams go to the children of the sender
(`Served`), one to each. The actions come down to two cases: a datagram nobody takes
disappears, or one is handled, and what is sent comes in its place
(`HandleLemma`).

### Commandable objects and change of value (`LocalObjectsProofs`)

`GovernedTheorem`: `SpecCommandable => [](CommandableTypeOK /\ Governed)`, for any number of
priorities and any values, and however the object is made. Once a command has followed
on what was given or set as a whole, the command priority is the first that is commanded
and the present value is its slot's; with no command it is the default that was in force
at the last command, which need not be the one that `relinquishDefault` shows. The point
is the minimum over the priorities (`Highest`), whose existence is
the well-foundedness of the naturals, and that nothing but a command settles the object.

`ImplementsCommandable`: a step of a device with detections and subscriptions is a
step of the commandable object or leaves it alone, so `Governed` holds there too.

`FirstsAreSent`, `ReportedIsClose` and `SubscribersAreTold`: `FirstNotification`,
`ReportedValueIsClose` and `SubscriberIsTold`, for any clients, increments and
lifetimes. None is inductive. The invariant adds the shape (`CovTypeOK`), that a
subscriber is in the list of the detection the object is bound to
(`SubscribedIsBound`), that while the execution is not in the queue the value reported
is close to the present one (`Scheduled`), and that whoever was told and not passed
over was told that value (`ToldIsReported`).

### Events and faults (`LocalObjectsProofs`)

`StatesFit`, `PendingDue` and `FaultsFit`, for any values, any delays, any number of
writes and any limits that make sense (`LimitAssumption`: the low limit is not above the
high one, the deadband is not negative, and the program does not itself set a
reliability of the fault algorithm's). The properties speak of an empty queue, which no
step but the last leads to. The invariant `EventInv` says the same of a queue in which there
is not the algorithm that would look:

* `RangeHolds`: without the fault algorithm in the queue, an out-of-range reliability is
  the value's;
* `Settled`: without the event algorithm in it, what was looked at fits the state, or the
  timer is set for what is asked for, from the state the algorithm knows;
* the type invariant, for its last part: what is scheduled is in the queue. That is why
  a change that is not recorded is not lost.

Besides the queue, the point is `RequestedFits`: the state the algorithm asks for is one
it would not ask to leave, but where a limit has just been disabled. This is where
the limits have to make sense.

### BACnet/SC hub connector (`HubConnectorProofs`)

From `HubAssumption`: `ClosesAll` (`NothingLeft`) and `ReportsTruly`
(`ConnectedTruly`), for any number of sockets, troubles and starts, whether
cancelations can be swallowed or not. Several tasks share the attributes of the
connector, and what each of them may find there depends on where the others are.
The invariant `HubInv` puts that down:

* `Places`: which of the tasks can be where at the same time;
* `Connection`: while there is a connection it is the one being served, what is
  reported is its hub, nobody awaits a closing, and the run task is where it serves or
  cleans up; without one nothing is reported and no timer is set;
* `Owned`: a live socket is the connection, the one being closed, the replacement, or
  the one that the run task or the primary's task is connecting; a socket that
  nobody has any more takes a swallowed cancelation. This is what `NothingLeft`
  comes from: when all are done there is no owner left;
* `SocketsApart`: those are different sockets, each live, and of the right hub;
* `Closers`: who stands in the queue of those that await the closing of a socket, once
  each and in which order: the run task and `close()` come last, so nobody is left
  behind them when they go on.

There is one lemma per action; the first ones are about the queue: what is in it when
one has come (`Appended`), when the first has gone on (`Gone`) and when one was
canceled (`Uncalled`).

### Model-checked only

* Liveness and the fairness it needs: `EveryRequestAnswered`, `EveryTransactionEnds`,
  `EveryFutureDone`, `EverySendEnds`, `RegistersAgain`, `HighLimitReported`,
  `OpenIsSubscribed`, `LeftIsForgotten`, `ReturnsToPrimary`, `CloseEnds`. They are beyond the prover.
* The refinement of `ConfirmedService`, and `ResponseInOrder`: they hold of the instances checked and not without a bound. An invoke ID that is used
  again while datagrams of the transaction before are around mixes two messages;
  there have to be fewer segments than sequence numbers; and an answer that follows a
  segmented request has to arrive first segment first (appservice.py l.702
  does not ask).

## What is not modelled

* Bytes: encodings, and the errors of decoding. A datagram is what it decodes to.
* A send that suspends while a router is looked for, inside a transaction.
* A device that is client and server of the same peer at once.
* Two adapters of a router that learn the same number (netservice.py l.2279), numbers
  that change in a router at all, rings of networks, route-aware addresses.
* Changes of a BBMD's tables by request, and the requests of `BVLLServiceElement`.
* BACnet/IPv6: the virtual link layer repeats the IPv4 one, with a table of virtual
  addresses that is asked for what it does not have.
* Of BACnet/SC the hub function and direct connections: an accepting side with a table.
* Schedules and trend logs; event algorithms other than out-of-range; COV criteria other
  than the increment; event enrollments and the distribution of notifications.
* The device information cache, whose operations do not suspend; batch reads; Who-Is and
  Who-Has futures, which repeat the search for a router; codecs; object types; programs.

The greater part of the source is data: property types, object types and
codecs (`basetypes.py`, `primitivedata.py`, `object.py`, `apdu.py`, `constructeddata.py`, ...)
are half of it. They have no state that a sequence of calls could bring into
disorder, and a model of them would be a transliteration.

## Plan

Done: confirmed services, outstanding requests, routing cache, network layer of a
station, routers, foreign device registration, broadcasts and BBMDs, commandable objects,
change of value with the client's contexts, events and faults, the SC hub connector.

What is left, in the order of use:

1. `Broadcasts` further: tables that change, foreign devices that move, the
   requests of `BVLLServiceElement`.
2. `Routing` with numbers that are learned, over `RouterInfoCache` itself.
3. Virtual addresses of BACnet/IPv6; `DeviceInfoCache`.
4. Proofs: the safety part of the refinement of `ConfirmedService` for a client that
   does not use an invoke ID again, and the order of a segmented answer under the conditions above.
