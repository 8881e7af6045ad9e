# Verification of the AllJoyn SIP end-to-end gateway

The gateway (`src/`) joins the AllJoyn bus of a home to other homes over an IMS
core network.  Services of the local bus are published to a presence server,
services of other gateways are offered on the local bus by agents, and method
calls, properties and signals travel between gateways as SIP MESSAGEs.  The
process runs the AllJoyn dispatcher, a SIP stack, three reader threads, two
timers and two thread pools over maps and condition variables, most of them
without a lock.  This directory holds TLA+ models of that concurrency, what TLC
checks of them and what TLAPS proves of them.

Paths below are relative to `src/`.  In `Src/CloudCommEngine`: `BO` is
`CloudCommEngineBusObject.cc`, `AG` is `CloudServiceAgentBusObject.cc`, `PX` is
`ProximalProxyBusObjectWrapper.cc`, `CE` is `CloudCommEngine.cc`, `IM` is
`IMSTransport/IMSTransport.cc`, `CB` is `IMSTransportSipCallback.cc` beside it,
`SC`, `SS`, `SO`, `ST` are `SipCallback.cc`, `SipSession.cc`, `Sofia.cc`,
`SipStack.cc` in `IMSTransport/Sofia`.  `IH` is
`Inc/CloudCommEngine/IMSTransport/IMSTransport.h`, `CU` and `BL` are
`CommonUtils.cc` and `CommonBusListener.cc` in `Src/Common`.

## 1. Inventory

| Component | State | Operations | Hard behaviour | What makes it correct |
|---|---|---|---|---|
| `SyncQueue` (`Inc/Common/SyncQueue.h`) | deque, mutex, condition, `RequestToEnd`, `EnqueueData` | `Enqueue`, `TryDequeue`, `StopQueue` | lost, spurious and surplus wakeups; the end of a queue with values in it | FIFO, nothing lost or stranded, every reader leaves after `StopQueue` |
| Remote calls (`IM` 723-838, `CB` 191-359) | `responseDispatchTable`, a `SyncContext` per call | `SendCloudMessage`; `OnMessagingEvent` for responses | an answer before the entry or before the wait; duplicates; timeout against answer | a call gets its own answer or none, once, and always returns |
| Registration and heartbeat (`IM` 850-873, 954-994; `CB` 92-189, 542-596) | `regCmdQueue`, status, `scscf`, `regSession`, `opSession`, `condHeartBeat` | `RegThreadFunc`, the heartbeat's `AlarmTriggered`, the callbacks for REGISTER, OPTIONS, PUBLISH | one To for OPTIONS and REGISTER, set by two threads; stale S-CSCF, stale and missing answers, surplus REGISTERs, sessions deleted under way | every reason to register is followed by a REGISTER; after trouble it is registered again for good |
| Subscriptions (`IM` 366-469, 936-951; `CB` 361-540) | `subscriptions`, `subSessions`, `condSubscribe`, `condUnsubscribe` | `Subscribe`, `Unsubscribe`, the timer, `doSubscribe`, callback | one condition for all accounts; maps without a lock used by three threads | marked accounts have accepted and have a session; wanted ones get marked |
| Publications (`IM` 471-679) | `publications`, `condPublish` | `PublishService`, `DeleteService`, callback | up to 32 tasks on one condition variable | success means that the PUBLISH was accepted |
| Life of the process (`CE`; `IM` 197-364, 85-171; `BO` 226-363; `ST`) | threads, timers, pools, stack, the objects they share | start-up, `cleanup`, `Cleanup`, destructor | order of stops, joins and deletions; waits for answers without a predicate | nobody is left waiting or uses what is deleted; what has ended is unregistered |
| Sofia backend (`SC`, `SS`, `SO`) | sessions, operations, handles, parameters of the stack | create, address, send, delete; dispatch of stack events, `authenticate`, header access | a challenge for a deleted session whose memory is used again; parameters set on the whole stack by two threads; headers that cannot be read | a request reaches its peer, a challenge its request |
| Calls between gateways (`BO` 87-223, 433-823, 1052-1182, 1310-1428; `AG` 90-198; `PX`) | `proxyBusObjects`, `methodCallThreadPool`, `incomingMsgQueue` | agents' handlers, `CloudMethodCall`, receiver thread, `LocalMethodCall`, announcement tasks | lost, duplicated and overtaken requests; a full pool; a restart; announcements while calls come | each request is answered; a client gets what its own call returned |
| Arguments (`CU` 118-614) | none | `ArgToXml`, `XmlToArg`, `StringSplit` | types told apart by sums of characters, lists of one element, arrays of strings | what one gateway writes the other reads |
| Cloud services (`BO` 829-1047; `AG`; `pidf.cc`) | `cloudBusObjects`, `incomingNotifyQueue`, agents with their bus attachments | NOTIFYs, subscribe, unsubscribe, `PrepareAgent`, `RegisterAgent`, `Cleanup` | repeated, closing, unreadable NOTIFYs, of any number of tuples; descriptions that fail half way; accounts whose names begin alike | agents are those of the services last announced, with all their interfaces |
| Signal routing (`BO` 1254-1308, 1495-1517; `AG` 941-975; `BL`) | `signalHandlersInfo`, the listener's sessions | session joined and lost, updates of handlers | updates lost, overtaken and delivered twice; agents replaced under open sessions | a handler for each open session, no other without a cause |
| `sha256`, `GuidUtil`, `AJInitializer`, `AboutObjApi`, vendored files | little | data, singletons | - | - |

How they interact: a thread of the AllJoyn dispatcher calls `Subscribe`,
`Unsubscribe` and, through an agent, `CloudMethodCall` and so
`SendCloudMessage`; announcement tasks call `PublishService`.  The stack's one
thread calls the callback, which fills the queues, notifies the condition
variables and sets the status.  `incomingMsgQueue` and `incomingNotifyQueue`
are read by the two receiver threads of `CloudCommEngineBusObject`, `regCmdQueue`
by `RegThreadFunc`.  No wait but the queue's has a predicate, and of the
condition variables it notifies the callback takes the mutex of a `SyncContext`
only: most of the hazards in `PROJECT.json` come from these two facts.

## 2. Modules

| Module | Models | Composition |
|---|---|---|
| `Mailbox` | abstract: a closable FIFO channel, no threads | refined by `SyncQueue` |
| `SyncQueue` | `SyncQueue.h` for any number of readers | |
| `RpcCall` | abstract: calls that return once with their own answer or none | refined by `RpcDispatch` |
| `RpcDispatch` | caller of a remote call, dispatch table, callback, network, remote gateway | |
| `Registration` | registration thread, heartbeat timer, stack thread, registrar, S-CSCFs | `regCmdQueue` is a counter, justified by `SyncQueue` |
| `Publication` | AllJoyn dispatcher, pool of announcement tasks, stack thread | refusals that register again are in `Registration` |
| `Subscription` | AllJoyn client, subscription timer, stack thread, presence server | registration is one action |
| `ArgXml` | the XML conversions of arguments, as functions on a finite set | used by `CloudRpc` |
| `CloudRpc` | a call from a client through an agent to a service and back, announcements, a restart | composes `RpcCall` (the call), `Mailbox` (the queue), `ArgXml` |
| `AgentXml` | what an agent makes of introspection XML | used by `CloudServices` |
| `CloudServices` | presence server, notification thread, agents, clients' sessions, handlers at the other gateways | `incomingNotifyQueue` is the FIFO channel of `Mailbox` |
| `SipSessions` | users of SIP sessions, the memory of operations, handles, the stack's thread | |
| `Gateway` | main from start to end, with every thread, timer and pool as a worker | what workers do is in the other modules |
| `MC*` | the symmetry sets and definitions a `.cfg` needs | |
| `*Proofs` | theorems and proofs of the module they are named for; `PublicationProofs` also has those of `SipSessions`, `CloudRpcProofs` those of `ArgXml`, `CloudServicesProofs` those of `AgentXml` | |

The operators marked *Faulty* are wrong versions of the operation after them,
each a plausible slip; for each property, putting one of them in
place of the operation makes TLC find the property violated.

### SyncQueue

Each method holds `m_mutex` throughout, so `Enqueue` and `StopQueue` are one
step.  `TryDequeue` gives the mutex up in `m_cond.wait`: `thread[c]` says
whether reader `c` is outside, blocked, notified or has left its loop.
`TryDequeue(c)` is the part from the call to the return or the wait,
`ResumeWait(c)` the part from a wakeup, and both share `Locked(c)`, the loop
condition and the two returns.  `DoEndActions` is its helper.  `NotifyOne` wakes
any blocked reader; `SpuriousWakeup` any at all.  The histories `accepted` and
`taken` compare what went in with what came out.

### RpcDispatch

`SendCloudMessage` is split where the callback can come between:
`Send` (stack->message sent, `IM` 731-765), `InsertContext` (767-780),
`EnterWait` (781-784), then `ReturnOk` or `ReturnTimeout`; `SendFails` is the
early return.  `OnMessagingEvent` runs on the stack's thread and holds
`mtxResponseDispatchTable` from its lookup to its erase and the context's mutex
while it stores the content and notifies, so this is one step;
`DispatchResponse` is its branch for a known key, `IgnoreResponse` the one for
an unknown key or a missing header.  `ReadableHeaders` is what
`getSipHeaderValue` returns a value for: all of them, as its declaration says,
or with the Sofia backend none of `c`, `RPC_MSG_TYPE`, `RPC_CALL_ID`.
A MESSAGE may be lost, delivered twice, or late; the remote gateway may answer
a duplicated request twice, differently.  GUIDs are taken to be distinct.

### Registration

OPTIONS and REGISTER have no To of their own: both `setToUri` write the one of
the stack (`SS` 228, 368), `stackTo` here, and a request goes to what it is when
it is sent.  `RegThread` and `RegThreadSends` are one turn of `RegThreadFunc`, up to
`setToUri` and from `register_` on.  The heartbeat's `AlarmTriggered` is
`BeatWithoutScscf` or `BeatPrepares`, which sets the To only when it makes a session,
`BeatSends`, `BeatEntersWait`, then `BeatReturns` or `BeatTimesOut`: an answer may come
between any two.  So the heartbeats after a REGISTER ask for the client's own
address.  The core routes them to where the client is bound, its own Sofia stack,
which answers OPTIONS with 200 by itself (`NUTAG_APPL_METHOD` is set nowhere);
with no binding left they are refused as they would be by the S-CSCF: `Verdict`.  A
heartbeat that sets its To between the two steps of `RegThreadFunc` leads the
REGISTER astray (`AstrayRefused`); this counts as a fault.  The branch for a failing
`send` (`IM` 980-984) is left out: `OptionsSession::send` returns true always.
`OnRegistrationEvent` and
`OnOptionsEvent` are the callbacks' bodies, with the code's own classes of
status codes (400 and 6xx belong to none of the classes of failure of the first,
and fall to its last branch).  The stack's part is external: a REGISTER is
challenged at most once, the registrar serves a client from one S-CSCF
(`home`), which alone answers its OPTIONS with 200, and the stack ends every
request (408 when nobody answers).  `due` is a history of reasons to register
since the last REGISTER.  A session deleted while its REGISTER is open is used
again when a challenge comes; the model then either goes on or ends (`alive`).

### Subscription

The timer's walk over the map is `AlarmTriggered` (first step),
`SkipSubscribed`, and for an account to be subscribed `DoSubscribe` (up to the
send), `EnterWait`, then `Succeed` or `TimeOut`; `GoTo` moves the iterator.
`Unsubscribe` is split the same way.  The client is one thread: no
handler of the bus object calls `EnableConcurrentCallbacks`.  `late`
holds the SUBSCRIBEs whose wait is over and whose answer is still to come.
`FromHeader` is what the From header of an answer says; `NoAccount` is the NULL
of the Sofia backend.  Two slips of `Unsubscribe` are part of the model: for an
account with a session it always fails, having found the session in a variable
of an inner block (`IM` 439); for one without, a success erases `end()` and
leaves a deleted session in the map (`IM` 456-457).

### Publication

`Announced` and `ExecuteTask` are the dispatcher's `Announced`: the call, and
what follows `WaitForAvailableThread`.  A task is `TaskGivesUp` (every early
return of `AnnounceHandlerTask::Run`), `AlreadyPublished` or `SendPublish`,
`EnterWait`, then `ReturnOk` or `ReturnFailed` of `PublishService`.  A key of
`publications` contains the hash of the XML, so a changed service is another
member of `Services`.  Answers may be late or never come.  The only
property one condition variable for all tasks can keep is a sum: entries
against answers; which service gets an entry is not tied to which was accepted.
`DeleteService` looks up a name that is no key, always fails, and is no action.

### ArgXml

An argument is a record of type, signature, numbers, text and members.
`ArgToXml` and `XmlToArg` are recursive functions on a finite set that is closed
under members.  The code's slips are kept: `Branch` maps a signature to the type
with the same sum of characters (`CU` 354-382), whatever the signature: `(sxx)` has
436 and is taken for `byte`, `(uuu)` has 432 and is taken for `int32`.  An array of
strings, paths or signatures is built from `MsgArg`s where AllJoyn takes `char**`
(`CU` 441-463; `AG` 319-323 does it right), so that what is read is anything
(`Misread`); where it ends the serving gateway's process, that is a `Restart`, and for the
client's gateway it ends the run.  `StringSplit`
finds a content without a separator twice, booleans are read digit by digit with the
spaces between them, a text is not escaped and is trimmed.  `Plain` names the
arguments that come through, and `ReplyIsResult` speaks of them.  `IsMsgArg` says
what an argument is, case by case as `ArgToXml` has them; doubles and handles by
themselves are left out (a double array is in, for the code cuts its elements off).

### CloudRpc

`MakeCall` is an agent's handler up to `ITSendCloudMessage`; `CallRefused`,
`CallTimesOut` and `CallReturns` are its ends, in terms of `RpcCall`, which
`RpcDispatch` refines.  Errors are replied twice, by `CloudMethodCall` and by
the macro that checks its status; an empty answer is replied as success.
`Deliver` is `OnMessagingEvent` for a request, `ReadRequest` and
`RefuseRequest` one turn of `MessageReceiverThreadFunc`, `CallService` the
synchronous call of the service, after `SaveProxyBusObject` has entered its
objects.  `AnnounceHandlerTask::Run` is `Announced`, `DescribeObject` or
`SkipObject` per object, and `PublishAnnounced` or `AnnounceGivesUp`.  Two tasks of
one service that run at once in the pool are one here: both enter the same objects and
publish the same XML.
`Restart` forgets what is in memory; agents at the other gateway, calls and
requests under way stay.

### AgentXml and CloudServices

A description is the list of its elements in document order.  `ParseInterface`
keeps the code's shortcut: an interface that the agent's bus attachment has
already is taken for done, so only the first of an agent's objects gets it
(`OffersDescription` promises some object, not each).  `InDocumentOrder` is what the
recursion over the document gives every list: an interface comes after its node.

A presence document has any number of tuples: `pidf.cc` 250 makes one of each child
of the presence element, so that a child that is no tuple
becomes a closed tuple without a service, for which every agent of the account is deleted
(`UnsubscribeEvery`).  `ReadPresence`, `ReadEnd` and `ReadOther` are the three kinds of
document for `NotificationReceiverThreadFunc`; one of another entity is skipped, also
when it is terminated (`BO` 874-922).  A tuple is worked on by `Unsubscribe`,
`SubscribeAgain`, `PrepareFails` or `PrepareNewAgent`, then `RegisterAgent` or
`RegisterFails`, and sessions may be joined and lost between any two.  `excused` has the
services whose agent is not what the server last said, for a reason `AgentsFollowPresence`
lists: the agent could not be made, it was deleted with another account or by a blank
element, or the subscription ended with a document that does not name the service.

`Cleanup` unregisters the bus listener and unbinds the port before the bus attachment is
deleted, but leaves the session listener (`BL` 73): its sessions are `orphaned`, and it is
up to AllJoyn whether their end is still reported, so both are possible.
`UnsubscribeAll` deletes the agents of each key that begins with the account
(`BO` 1034), also of an account with a longer name.  An update for a handler is a
message that may arrive in any order, twice (`DeliverUpdateTwice`) or never; the handlers
of a service are a bag, for the code pushes back without looking and erases the first
match (`BO` 1290-1303).

### SipSessions

A session is made (`Create`), addressed (`SetToUri`), used (`SendMessage`,
`Publish`, `Register`, `Heartbeat`, `Subscribe`) and deleted (`Delete`); a user
may begin again.  `Delete` frees the operation, whose memory the next `Create` or
an incoming request may get, while the handle keeps its bare address in `magic`
and its request stays open.  An incoming MESSAGE gets two operations (`SC` 60, and
`GetSession`, `CB` 204): the handle is bound to the second, which goes with its session
at once, and the first stays for good; an incoming OPTIONS gets the second only.
OPTIONS and REGISTER set their To on the stack (`SS` 228, 368), which counts for requests
whose handle has none.

### Gateway

`Teardown` is the order in which main waits for the workers, `Deletes` what it
deletes after each, `Uses` what a busy worker uses.  `Ask` is
`UnregisterBusObject`, `StopQueue` or `Stop`, `Join` the wait.  A worker that
was asked takes no new work.  The loops of
`~IMSTransport` are `SendUnpublish`/`SendUnregister`, `EnterWait`, and
`WaitReturns` or `WaitTimesOut`; answers and spurious wakeups may come between.
A refusal is one action for each of REGISTER, UNPUBLISH and UNREGISTER; after 400 and
6xx to a REGISTER the status is REGISTERED all the same (`CB` 105).  `Clears` is what
goes while a worker is only asked: `Cleanup` empties `proxyBusObjects` (`BO` 324) and
`signalHandlersInfo` (`BO` 355) before any receiver thread is joined, and the maps are
members that are destroyed before `methodCallThreadPool`, whose destructor joins its tasks
(`CloudCommEngineBusObject.h` 309, 330).  `Unprotected` names every gap the code has, and
TLC reaches each:

* the two receiver threads look up agents while `Cleanup` deletes them (`BO` 337-361);
* tasks of the announcement pool and of the method-call pool use the proxies that are
  cleared or deleted under them (`BO` 174, 324-335, 1090);
* the message thread uses handlers that are cleared (`BO` 355, 1276);
* tasks of the method-call pool use the maps after their destruction;
* the stack's main loop runs on while the stack is destroyed (`IM` 157-162);
* an agent made after `Cleanup` has walked the map is in no one's hands, and whatever it
  uses may be gone.

## 3. Runs

| Run | Question | Bounds and why they are enough |
|---|---|---|
| `syncqueue_readers` | Is the queue a FIFO mailbox that loses and strands nothing, is one `notify_one` per `Enqueue` enough with several readers and spurious wakeups, and does `StopQueue` end them? (invariants, liveness, refinement of `Mailbox`) | 2 readers, one that can steal from the other; 4 values of 2 kinds, more than readers; 2 stops: by the owner and the destructor.  The proofs have any number. |
| `rpc_calls` | Can two calls mix up their answers, and does each return once, in time, with its first answer or none? (liveness, refinement of `RpcCall`) | 2 calls to one peer; the key has no part that needs a third; an answer and the empty one. |
| `rpc_answer_missed` | *violated:* does an answer that came reach its call? | 1 call |
| `rpc_sofia_headers` | *violated:* are answers understood with the Sofia backend's headers? | 1 call |
| `registration_recovers` | Does what was refused stay queued, are reasons to register followed by a REGISTER, and does the gateway end up registered after any three faults, wherever its heartbeats go? | 2 sessions: the current REGISTER and one overtaken; 2 S-CSCFs: the old one and the new; 3 faults: enough for lost binding, failed heartbeat and late answer, or a REGISTER led astray, in one behaviour; 3 commands, since two threads queue one each for the same heartbeat. |
| `subscription_three` | Are the two maps consistent with a client unsubscribing under the timer's feet, and does an account that always refuses starve the others? | 3 accounts, the middle one refuses: one before and one after it; the first can be unsubscribed; 1 fault, any number of spurious wakeups |
| `subscription_late` | *violated:* is a marked account one that has accepted? | 2 accounts, 1 late answer |
| `publication_pool` | Can one answer publish two services, and is the dispatcher ever stuck on a full pool? | 2 tasks for 3 services, 4 announcements: a full pool, one service announced twice, late answers for tasks that ended; 1 spurious wakeup |
| `cloud_rpc` | Does a client get what its own call returned, can what is published be called, is every request answered? | 2 calls (a property set, a method with readable or unreadable arguments), 1 thread in the pool, 2 deliveries, so that the pool is full and a request comes twice; 1 service with an object and a child; 1 restart.  The arguments have each branch of the conversions, arrays of strings and `(uuu)` among them. |
| `cloud_services` | Are the agents those last announced, with all interfaces, is each NOTIFY acted upon, and do handlers follow sessions? | 2 accounts, one's name a prefix of the other's, 1 service each; 2 descriptions, one of which fails half way; 3 bodies: the service open, closed, and open behind a blank element and a failing tuple, each with or without the end of the subscription; 2 NOTIFYs, enough for each slip of the code: one that makes an agent, one that replaces it, ends it, cannot be used, or is another account's.  2 sessions of one client, so that deleting one handler could take the other; each update once or twice |
| `gateway_ends` | Is nothing used after its deletion, is a gateway that has ended unregistered, does an interrupt end the process? | 1 service, 2 tries, 1 spurious wakeup; the workers are the code's own 11 |
| `sip_sessions` | Does each request reach its peer, and a challenge its request? | Every user once, memory for 2 operations and 3 handles: a deleted session, its memory's next owner, and a bystander |

Deadlock is not checked: every one of these systems may stop (all queues ended,
all calls returned, the process gone).  Bounds stand in guards and are named
`Max...` (`MaxEnqueues`, `MaxStops`, `MaxFaults`, `MaxCommands`,
`MaxAnnouncements`, `MaxSpurious`, `MaxDeliveries`, `MaxRestarts`,
`MaxNotifies`); sessions, calls, operations and handles are finite sets of
which none is used twice.  `MaxCommands` keeps the
heartbeat from firing while so many commands are queued; it delays a timer
and takes away no reason to register.  `MaxFaults` bounds what the environment does wrong
and, in `Registration`, how often the heartbeat leads a REGISTER astray, so the liveness
results read "after finitely many faults".  Symmetry is used in a run of invariants alone.

### Fairness

* Threads (`SyncQueue`, `RpcDispatch`, `RegThread`, the timers, the tasks of
  `Publication`): weak fairness, for a thread in a loop is scheduled and a timed
  wait ends.  In `RpcDispatch` and `Publication` nothing is assumed of the
  network, of the other side or of a wakeup: calls and publications return by
  their timeout.
* The stack's answers in `Registration` and `Subscription`: weak fairness, since
  a SIP transaction always ends with a final response, 408 made by the stack
  itself included.  Weak fairness of `RegisterAccepted \/ RegisterChallenged \/ AstrayRefused` is
  what "the network behaves again" means once the faults are used up, the third being the
  registrar's answer to a REGISTER for an address it does not know.
* `CloudRpc`: weak fairness of the receiver thread, of each thread of the pool
  (AllJoyn ends each call of a service by its own timeout) and of the end of a
  remote call, which is `EveryCallReturns` of `RpcDispatch`; none of clients,
  announcements, deliveries and restarts.
* `CloudServices`: weak fairness of the notification thread alone.
* `Gateway`: weak fairness of main and of the end of each worker's work, since
  every wait in the code is a timed one; none of answers, interrupts and new work.
* `Register` in `Subscription`: what `Recovers` shows of `Registration`.
* Nothing is assumed of `SpuriousWakeup`, clients, losses and faults.

`Recovers` and `ExpiryRenews` begin where an S-CSCF is known: before the first
success nothing retries a registration refused with 401-599 (the heartbeat
does not start without an S-CSCF), and no text of the repository says it should.
For the same reason, and since main does not look at the interrupt while it waits
for REGISTERED, `InterruptEnds` begins where main runs.
All liveness of `Registration` and `Subscription` holds up to the end of the
process where the code uses a deleted session.

## 4. Where the code disagrees with its own comments

Each with a run and a counterexample (`PROJECT.json`, `findings`):

1. `rpc_answer_missed`: the MESSAGE is sent before the call is in the table, so a
   quick answer is ignored; and one between the insertion and `wait_for` wakes nobody.
   The call sleeps 30 s and reports `IC_TIMEOUT`.
2. `rpc_sofia_headers`: with what `getSipHeaderValue` returns, every MESSAGE is
   ignored.
3. `subscription_late`: a late answer marks another account as subscribed.

Seen while modelling, and not given a run of their own:

* Several readers, which `IH` 309-310 announces: one `StopQueue` ends one of them,
  unless it is repeated (the gateway has one reader per queue).
* OPTIONS do not stay with the S-CSCF, as `IH` 226-228 has it: each REGISTER sets the
  stack's To (`SS` 368), and the heartbeats of the session after it go to the client's
  own address (`Registration` has them there).
* "If the notification expires, then unsubscribe the service" (`CB` 395): a terminated
  NOTIFY with a document of another entity, or one that does not list the service, leaves
  its agent (`BO` 916; `excused` in `CloudServices`).
* A REGISTER answered with 400 or 6xx sets REGISTERED (`CB` 105; the comment
  beside it says success), modelled in `Registration`.
* The entry of a call that timed out stays in the table with its late answer (`IM`
  794); an OPTIONS answered before `wait_for` counts as failed (`IM` 987); a
  MESSAGE refused with 401 does not register again though `IH` 269 lists it (`CB` 348).
* An answer to one PUBLISH enters another task's service (`IM` 605), two tasks
  publish one service twice and forget one session (`IM` 612), `DeleteService`
  cannot find what `PublishService` entered (`IM` 655), and the destructor leaves its
  loop after the first UNPUBLISH that succeeds (`IM` 129).
* `nua_i_notify` is not passed on (`SC` 611).  Were it, each NOTIFY would replace the
  agent: a comment (`BO` 965) says that an identical one is ignored, but `Compare`
  counts four about entries that the agent has added itself.
* An interface that two objects of a description share is given to the first only.
* Signals never leave: `CloudSignalCall` passes no result buffer, and
  `SendCloudMessage` requires one (`IM` 755).
* An agent that is replaced takes its clients' sessions with it; unless AllJoyn reports
  their end, its handlers at the service's gateway stay.  So does a handler whose update
  came twice, since one entry is erased for two (`BO` 1292).
* Arrays of strings, paths and signatures are misread by the other gateway (`CU` 461).
* `methodCallThreadPool` joins its tasks after the maps they use are destroyed.
* A child of the presence element other than a tuple deletes every agent of the account.
* The MESSAGE session ends with `SendCloudMessage`, so a challenge that comes later
  finds its operation freed; the operation of an incoming MESSAGE is never freed (`SC` 60).
* Errors of a remote call are replied twice, empty answers as success (`BO` 1402).

## 5. Proofs

All theorems hold for every value of the constants allowed by the assumption of
the module (`QueueAssumption`, `RpcAssumption`, `RegistrationAssumption`,
`SubscriptionAssumption`, `PublicationAssumption`, `SessionsAssumption`,
`ServicesAssumption`, `ArgsAssumption`, `CodeSumAssumption`, `CloudRpcAssumption`,
`GatewayAssumption`); those of `SubscriptionProofs` also assume
`FromHeader = NoAccount`, the Sofia backend's value, for with
a readable From header the callback may mark an account that has no session.
Four assumptions say more than types.  `CodeSumAssumption`: the sums of the names of the
types are the labels of the code's switch (TLC evaluates both); no other sum is assumed
to be or not to be among them.  `ArgsAssumption`: arguments are `MsgArg`s and
none is nested in itself; `CloudRpcAssumption` says the second of objects, for a
child's path is longer than its object's.  `ServicesAssumption`: descriptions are in
document order, and `Compare` never finds a description's about data equal to an
agent's, because the last four entries of an agent's (`AG` 312-338) are its own and the
announcement task passes over agents.

| Theorem | Says | Argument |
|---|---|---|
| `SyncQueueProofs!TypeCorrect`, `NoValueLost`, `NoValueStranded`, `NoWakeupLost` | the safety properties of the queue, for any number of readers | `NothingLost` and `EnoughWakeups` are inductive together with `TypeOK`; `NothingStranded` needs `EndedClosed`: once a reader has left, `EnqueueData` is false and the queue empty; `EnoughWakeups` needs that `NotifyOne` adds one to the notified readers exactly when somebody is blocked, which is counted with the cardinality theorems |
| `SyncQueueProofs!QueueIsMailbox` | every step of the queue is a step of `Mailbox` or a stutter | per action, under the mapping of `Channel`, from `TypeOK` and `NothingLost` |
| `RpcDispatchProofs!TypeCorrect`, `AnswersMatchCalls`, `BufferHasOneOwner`, `FirstAnswerFinal` | the safety of calls, for any number of them in flight | `IInv`: an entry is in the table only under its call's own key, after the insertion and before any answer (`TableFresh`); a context and a result hold an answer the called peer gave to that call (`ContentOwn`, `OwnAnswer`); messages under way concern calls that were made and answers that were given (`NetHonest`) |
| `RpcDispatchProofs!EntriesAwaitAnswers` | from its insertion to the first answer the callback takes, a call that was sent has its entry in the table (`Awaited`), whatever headers the backend reads | inductive with `IInv`: only an answer removes an entry, and only its own; a timeout leaves it.  What this means for the answers, `OnlyEarlyAnswersDropped`, needs readable headers and is left to TLC: with Sofia's it is false (run `rpc_sofia_headers`) |
| `RpcDispatchProofs!DispatchIsRpcCall` | every step is a step of `RpcCall` or a stutter | per action, under the mapping of `Call` |
| `RegistrationProofs!TypeCorrect`, `RefusedStaysQueued` | the types and `RefusedIsQueued`, for any number of sessions, S-CSCFs and faults | `TypeOK /\ RefusedIsQueued` is inductive: what refuses also queues, in one step of one thread; `RegThread` takes the only command into its own hands (`Registering`), and with its REGISTER nothing is refused any more |
| `SubscriptionProofs!TypeCorrect`, `MarkedAccountHasSession` | the types and `MarkedHasSession`, for any number of accounts | besides the property, while `doSubscribe` waits with a session that is not new, the map has an entry for its account, since nothing ever removes one: an `Unsubscribe` leaves a dangling entry behind |
| `PublicationProofs!TypeCorrect`, `AnswersCoverEntries` | the types and `NoMoreThanAccepted`, for any pool, services and answers | `Covered`: woken tasks and entries together are no more than answers and spurious wakeups; each wakeup adds one to both sides, each entry moves one from the first term to the second |
| `PublicationProofs!SessionsTypeCorrect`, `RequestsReachPeers`, `ChallengesFindRequests` | the properties of `sip_sessions`, for any users, operations and handles | `Owned`: the operation of a living session, its handle and the handle's owner agree; `Bound`: the handle of an operation that was made for a user remembers it, while one of a request that came in may remember another; so an address that outlived its session concerns no living one.  `Fresh` and `ToIsPeer` carry the To from the session's making to its requests |
| `CloudServicesProofs!SessionsHaveHandlers`, `StaleHandlersHaveCauses` | a handler for each open session, and no other without a cause, for any accounts, services, sessions and clients, with updates in any order and delivered twice | `NewsOfSession` and `HandlersOfSession`: what is under way or kept is about a session that has begun, an end only about one that has ended; `HandlersOnce`: a handler is more than once in its bag only if the news of its begin came twice; `EndLeavesNothing`: of a session reported lost the end is under way, was overtaken, its begin came twice, or nothing is left.  No agent operation can disturb these, since orphaning a session sends nothing and changes neither its key nor its client |
| `CloudServicesProofs!TypeCorrect`, `AgentsFollow` | the types and `AgentsFollowPresence`, for any accounts, services, descriptions, NOTIFYs and tuples in them | `LastWordKept`: of each service, either a document that says what the server last said is still queued and none behind it speaks of it, or no queued document does and the last tuple in hand that names it says so, or none is left and its agent agrees or is excused.  A document of another account, one that is repeated or cannot be read, the deletion of agents by prefix or by a blank element, and a failing agent each keep one of these |
| `CloudServicesProofs!AgentsOffer` | `OffersDescription`, for descriptions of any length | by induction over the elements: after `n` of them the agent has each node so far, and each interface so far on some object.  The shortcut of `ParseInterface` is harmless, as what is on the agent's own bus attachment is on one of its objects |
| `CloudRpcProofs!RoundTrip`, `PlainIsReadable` (lemmas) | XML carries every plain argument unchanged, and what it becomes can be read, for arguments nested to any depth | by induction over the nesting, on the branch of each type |
| `CloudRpcProofs!TypeCorrect`, `RepliesAreOfTheCall` | the types and `ReplyIsResult`, for any calls, deliveries, threads, restarts and arguments | `ResultsInv`: what a task holds, what was answered and what was replied is, each for its own call, empty or what a service returned to it (`TasksHoldResults`, `AnswersAreResults`, `RepliesAreResults`), and the service was called with what the request became (`RunsServed`); `RoundTrip` removes the conversions on both ways |
| `CloudRpcProofs!PlainAnswersArrive` | an answer that is plain is replied as success with exactly its arguments (an action property) | `ResultsInv`, `RoundTrip`, `PlainIsReadable` |
| `CloudRpcProofs!NoRequestForgotten` | a request that was taken is worked on or answered unless the gateway was restarted (`TakenAreAnswered`), the safety that `EveryRequestAnswered` rests on; no run checks it by itself | inductive with `RoomForAll`: a request taken has a task of its own |
| `CloudRpcProofs!PublishedObjectsAreCallable` | `PublishedIsCallable`, for any trees of objects and any order of announcements, failures, restarts | what is described so far has been saved already, since both walk the same `Subtree`; a restart forgets both |
| `CloudRpcProofs!CallsAreRpcCalls` | every step of `CloudRpc` is a step of `RpcCall` or leaves its calls alone, so that it composes what `RpcDispatch` implements | per action; `ResultsInv` says that tasks and queue hold calls that were made and bodies there are |
| `GatewayProofs!TypeCorrect`, `NothingGoneIsEverUsed`, `EndedIsUnregistered` | the safety of the shutdown, for any services, tries and wakeups | `Down`: a worker main is through with was asked and has ended, or was never started and cannot be; it is stable under every step.  `JoinedAreDown` and the tables `Uses`, `Deletes` and `Clears` give the first; for the second, `LastWord`: with the registration thread down no REGISTER follows an accepted UNREGISTER unless one was under way |

Every invariant and every action property of a passing run is a theorem, but for
`OnlyEarlyAnswersDropped`.  Only model-checked besides: what needs `ENABLED` and fairness (`StopEndsEveryConsumer`,
`EveryCallReturns`, `RefusalRenews`, `ExpiryRenews`, `Recovers`, `WantedIsMarked`,
`AnnouncementsGoOn`, `EveryRequestAnswered`, `PresenceIsActedUpon`,
`InterruptEnds`, and the liveness part of the two refinements), which is out of the
prover's reach.

Recursion over data is proved about without the induction theorems of the library,
which take an operator as a parameter.  A recursive function is a `CHOOSE`: first a
function with its equation is shown to exist, by extending the arguments it is defined
on one by one (`Exhausts`, for finite nested data) or by length (`Induct`,
`ParsesExists`); then what it computes is shown for an innermost counterexample
(`ArgInduction`) or a shortest one.

## 6. Not modelled, and the plan

Not modelled for good: XML and PIDF layout, hashes, GUIDs, export functions,
command line, vendored files: data without control of their own.
`NormalizePath` and the path conversions rename object paths one to one.
`CloudMethodCallRunable` (`BO` 433-522) is never made.  Signals themselves
(`CommonSignalHandler`, `CloudSignalCall`, `LocalSignalCall`) have no behaviour to
check, since none leaves a gateway; what routes them is modelled.
Memory that is leaked (notification buffers, the proxies' bus attachment, refused
tasks) is no state of a property.  Unsynchronised access to the `std::map`s is taken as
atomic per access; the undefined behaviour of a use after `delete` is a choice
between going on, with what is in the memory, and ending.

Left to do: a module in which two gateways, each with a calling side in the detail of
`RpcDispatch`, serve each other.  `CloudRpc` is one direction of it, with `RpcCall` in
place of the detail.
