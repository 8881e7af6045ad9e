----------------------------- MODULE CloudServices -----------------------------
(***************************************************************************)
(* The agents a gateway has for the services of other accounts, and the    *)
(* signal handlers the other gateways keep for the clients of the agents.  *)
(*                                                                         *)
(* The presence server sends NOTIFYs, OnSubscriptionEvent queues them, and *)
(* NotificationReceiverThreadFunc subscribes and unsubscribes the services *)
(* in them: it makes agents and cleans them up.  Clients on the bus join   *)
(* sessions of the agents and leave them; CommonBusListener reports both,  *)
(* and LocalSessionJoined and LocalSessionLost tell the gateway of the     *)
(* service, whose UpdateSignalHandlerInfoToLocal keeps signalHandlersInfo. *)
(* These updates are messages of their own and may be lost, overtaken and  *)
(* delivered twice.                                                        *)
(***************************************************************************)
EXTENDS AgentXml, Bags

CONSTANTS Accounts,      \* remote accounts
          StartsWith,    \* the accounts whose names start with that of each
          Services,      \* bus names of their services
          Descriptions,  \* introspection XML
          Sessions,      \* ids of sessions; the bus does not use one twice
          Joiners,       \* bus names of clients
          NoService,     \* in place of a description: the service is not open
          EveryService,  \* in place of a service: the tuple has none
          Bodies,        \* the tuples of each presence document the server sends
          MaxNotifies    \* bound: NOTIFYs

\* A tuple of a presence document: the service is open with a description, or closed.
\* Every other child of the presence element makes a tuple too, which is closed and has
\* no service.  (An open tuple without a service makes no agent and changes nothing.)
Blank == [service |-> EveryService, xml |-> NoService]
Tuples == [service : Services, xml : Descriptions \cup {NoService}] \cup {Blank}

\* An account's name starts with itself; NoService is no description; and the about
\* data of one never agrees with an agent's: its last four entries are the agents' own,
\* and the tasks that describe services (Publication) leave agents out.
ASSUME ServicesAssumption ==
    /\ \A a \in Accounts : a \in StartsWith[a]
    /\ NoService \notin Descriptions
    /\ EveryService \notin Services
    /\ Bodies \subseteq Seq(Tuples)
    /\ MaxNotifies \in Nat
    /\ \A xml \in Descriptions : InDocumentOrder(xml)
    /\ \A old, new \in Descriptions : ~Compare(ParseXml(old, {}), new)

\* serviceIndex: "account/BusName".
Keys == Accounts \X Services

VARIABLES incomingNotifyQueue,
          notifies,    \* NOTIFYs so far
          wanted,      \* what the server last said of each service
          todo,        \* tuples the notification thread has still to work on
          cloudBusObjects,  \* the description and the agent of each service
          making,      \* the agent that is prepared and not yet registered
          excused,     \* services whose agent is not what the server last said, for a
                       \* reason of their own
          session,     \* every session: its agent and its joiner
          updates,     \* UPDATE_SIGNAL_HANDLER messages under way, or lost
          delivered,   \* those of them that have been delivered and will be again
          overtaken,   \* sessions whose end was handled before their begin
          signalHandlersInfo  \* at the gateway of each service: the bag of a vector

notifyVars == <<incomingNotifyQueue, notifies, wanted>>
agentVars == <<cloudBusObjects, making, excused>>
updateVars == <<updates, delivered, overtaken, signalHandlersInfo>>
vars == <<notifyVars, todo, agentVars, session, updateVars>>

NoAgent == [xml |-> NoService, agent |-> NewAgent({})]
Nothing == [key |-> <<>>, entry |-> NoAgent]

Init ==
    /\ incomingNotifyQueue = <<>>
    /\ notifies = 0
    /\ wanted = [k \in Keys |-> NoService]
    /\ todo = <<>>
    /\ cloudBusObjects = [k \in Keys |-> NoAgent]
    /\ making = Nothing
    /\ excused = {}
    /\ session = [x \in Sessions |-> [stage |-> "new", key |-> <<>>, joiner |-> ""]]
    /\ updates = {}
    /\ delivered = {}
    /\ overtaken = {}
    /\ signalHandlersInfo = [k \in Keys |-> EmptyBag]

------------------------------------------------------------------------------
(* The presence server, and OnSubscriptionEvent for nua_i_notify.           *)

\* A document; "terminated" is the Subscription-State.  One that is not presence or
\* about another entity is "other"; one that is not XML is "empty" if terminated.
Document(kind, account, terminated, tuples) ==
    [kind |-> kind, account |-> account, terminated |-> terminated, tuples |-> tuples]

\* The services a document names, and those it speaks of: with the subscription ends
\* whatever it brought.
TuplesOf(document, k) ==
    {i \in DOMAIN document.tuples : <<document.account, document.tuples[i].service>> = k}
Named(document) == {k \in Keys : TuplesOf(document, k) # {}}
SpokenOf(document) ==
    Named(document) \cup {k \in Keys : document.terminated /\ k[1] = document.account}

\* What it says of a service: the last of the tuples that name it counts.
Word(document, k) ==
    IF document.terminated THEN NoService
    ELSE document.tuples[CHOOSE i \in TuplesOf(document, k) :
                            \A j \in TuplesOf(document, k) : j <= i].xml

Notify(document) ==
    /\ notifies < MaxNotifies
    /\ notifies' = notifies + 1
    /\ incomingNotifyQueue' = Append(incomingNotifyQueue, document)
    /\ wanted' = [k \in Keys |-> IF k \in SpokenOf(document) THEN Word(document, k) ELSE wanted[k]]
    /\ UNCHANGED <<todo, agentVars, session, updateVars>>

NotifyPresence(a) == \E terminated \in BOOLEAN, tuples \in Bodies :
    Notify(Document("presence", a, terminated, tuples))

\* The subscription is terminated, without a document.
NotifyEnd(a) == Notify(Document("empty", a, TRUE, <<>>))

NotifyOther(a) == \E terminated \in BOOLEAN : Notify(Document("other", a, terminated, <<>>))

------------------------------------------------------------------------------
(* Agents are made and cleaned up.                                          *)

\* The bus attachment of an agent goes with its sessions.  The bus listener and the port
\* are undone first, the session listener is not: it is up to AllJoyn whether it still
\* reports the sessions lost, and both are modelled (SessionLost).
Orphan(keys) == session' = [x \in Sessions |->
    IF session[x].stage = "open" /\ session[x].key \in keys
    THEN [session[x] EXCEPT !.stage = "orphaned"] ELSE session[x]]

Cleanup(keys) ==
    /\ cloudBusObjects' = [k \in Keys |-> IF k \in keys THEN NoAgent ELSE cloudBusObjects[k]]
    /\ Orphan(keys)

HasAgent(k) == cloudBusObjects[k] # NoAgent
Idle == todo = <<>>

\* NotificationReceiverThreadFunc reads the next document.
ReadTuples ==
    /\ Idle /\ incomingNotifyQueue # <<>>
    /\ incomingNotifyQueue' = Tail(incomingNotifyQueue)
    /\ UNCHANGED <<notifies, wanted, making, updateVars>>

\* Faulty: the state of the subscription is not looked at.
OpenByTuple(document, t) == t.xml

\* The service is to have this agent: the subscription goes on, the tuple is open.
Open(document, t) == IF document.terminated THEN NoService ELSE t.xml

ReadPresence == LET document == Head(incomingNotifyQueue) IN
    /\ ReadTuples
    /\ document.kind = "presence"
    /\ todo' = [i \in DOMAIN document.tuples |->
                  [key |-> <<document.account, document.tuples[i].service>>,
                   xml |-> Open(document, document.tuples[i])]]
    /\ excused' = (excused \ Named(document)) \cup (SpokenOf(document) \ Named(document))
    /\ UNCHANGED <<cloudBusObjects, session>>

\* The keys are compared with the account up to the account's length.
UnsubscribeAll(a) == {k \in Keys : k[1] \in StartsWith[a]}

ReadEnd == LET document == Head(incomingNotifyQueue) IN
    /\ ReadTuples
    /\ document.kind = "empty"
    /\ Cleanup(UnsubscribeAll(document.account))
    /\ excused' = excused \cup (UnsubscribeAll(document.account) \ SpokenOf(document))
    /\ UNCHANGED todo

\* Faulty: the document stays in the queue.
ReadOtherAgain ==
    /\ Idle /\ incomingNotifyQueue # <<>>
    /\ Head(incomingNotifyQueue).kind = "other"
    /\ UNCHANGED vars

\* Skipped, also when the subscription is terminated.
ReadOther ==
    /\ ReadTuples
    /\ Head(incomingNotifyQueue).kind = "other"
    /\ excused' = excused \cup SpokenOf(Head(incomingNotifyQueue))
    /\ UNCHANGED <<todo, cloudBusObjects, session>>

\* UnsubscribeCloudServiceFromLocal of one service, and of no service, that is of all.
Unsubscribing == ~Idle /\ Head(todo).xml = NoService

Unsubscribe ==
    /\ Unsubscribing /\ Head(todo).key[2] # EveryService
    /\ todo' = Tail(todo)
    /\ Cleanup({Head(todo).key})
    /\ UNCHANGED <<notifyVars, making, excused, updateVars>>

UnsubscribeEvery == LET keys == UnsubscribeAll(Head(todo).key[1]) IN
    /\ Unsubscribing /\ Head(todo).key[2] = EveryService
    /\ todo' = Tail(todo)
    /\ Cleanup(keys)
    /\ excused' = excused \cup keys
    /\ UNCHANGED <<notifyVars, making, updateVars>>

\* SubscribeCloudServiceToLocal of a service that has an agent.  The agent would be
\* kept if it were the same, but Compare never says so; it goes before a new one is
\* tried.
Subscribing == ~Idle /\ Head(todo).xml # NoService /\ making = Nothing

SubscribeAgain == LET k == Head(todo).key IN
    /\ Subscribing
    /\ HasAgent(k)
    /\ IF Compare(cloudBusObjects[k].agent, Head(todo).xml)
       THEN todo' = Tail(todo) /\ UNCHANGED <<cloudBusObjects, session>>
       ELSE Cleanup({k}) /\ UNCHANGED todo
    /\ UNCHANGED <<notifyVars, making, excused, updateVars>>

\* PrepareAgent: the agent's port is bound and sessions of it can be joined.
PrepareNewAgent == LET k == Head(todo).key
                       agent == PrepareAgent(Head(todo).xml, {cloudBusObjects[o].agent : o \in Keys})
                   IN
    /\ Subscribing
    /\ ~HasAgent(k)
    /\ agent.ok
    /\ making' = [key |-> k, entry |-> [xml |-> Head(todo).xml, agent |-> agent]]
    /\ UNCHANGED <<notifyVars, todo, cloudBusObjects, excused, session, updateVars>>

\* The bus or the description does not do.
PrepareFails == LET k == Head(todo).key IN
    /\ Subscribing
    /\ ~HasAgent(k)
    /\ todo' = Tail(todo)
    /\ excused' = excused \cup {k}
    /\ UNCHANGED <<notifyVars, cloudBusObjects, making, session, updateVars>>

\* Faulty: the tuple is done and the agent still in the making.
RegisterAgentTwice ==
    /\ making # Nothing
    /\ cloudBusObjects' = [cloudBusObjects EXCEPT ![making.key] = making.entry]
    /\ todo' = IF Idle THEN todo ELSE Tail(todo)
    /\ excused' = excused \ {making.key}
    /\ UNCHANGED <<notifyVars, making, session, updateVars>>

\* RegisterAgent and Announce.
RegisterAgent ==
    /\ making # Nothing
    /\ cloudBusObjects' = [cloudBusObjects EXCEPT ![making.key] = making.entry]
    /\ making' = Nothing
    /\ todo' = Tail(todo)
    /\ excused' = excused \ {making.key}
    /\ UNCHANGED <<notifyVars, session, updateVars>>

RegisterFails ==
    /\ making # Nothing
    /\ Orphan({making.key})
    /\ making' = Nothing
    /\ todo' = Tail(todo)
    /\ excused' = excused \cup {making.key}
    /\ UNCHANGED <<notifyVars, cloudBusObjects, updateVars>>

------------------------------------------------------------------------------
(* Sessions: CommonBusListener, LocalSessionJoined and LocalSessionLost.    *)

\* Head of SignalHandlerInfo: the client and its session.
Handler(x, joiner) == [session |-> x, joiner |-> joiner]

\* The called address ends with "1" for a handler to add and "0" for one to delete.
Update(op, x, joiner) == [op |-> op, handler |-> Handler(x, joiner), key |-> session'[x].key]

SessionJoined(x, k, joiner) ==
    /\ session[x].stage = "new"
    /\ HasAgent(k) \/ making.key = k
    /\ session' = [session EXCEPT ![x] = [stage |-> "open", key |-> k, joiner |-> joiner]]
    /\ updates' = updates \cup {Update("1", x, joiner)}
    /\ UNCHANGED <<notifyVars, todo, agentVars, delivered, overtaken, signalHandlersInfo>>

\* Faulty: the listener forgets the session before it reports its end, so that
\* getJoinerBySessionId finds nobody.
SessionLostErasedFirst(x) ==
    /\ session[x].stage \in {"open", "orphaned"}
    /\ session' = [session EXCEPT ![x].stage = "closed"]
    /\ updates' = updates \cup {Update("0", x, "")}
    /\ UNCHANGED <<notifyVars, todo, agentVars, delivered, overtaken, signalHandlersInfo>>

\* A session that has gone with its agent may be reported lost or not.
SessionLost(x) ==
    /\ session[x].stage \in {"open", "orphaned"}
    /\ session' = [session EXCEPT ![x].stage = "closed"]
    /\ updates' = updates \cup {Update("0", x, session[x].joiner)}
    /\ UNCHANGED <<notifyVars, todo, agentVars, delivered, overtaken, signalHandlersInfo>>

------------------------------------------------------------------------------
(* UPDATE_SIGNAL_HANDLER at the gateway of the service.                     *)

\* Faulty: every handler of the client is deleted, whatever its session.
DeleteHandlerOfClient(infos, handler) ==
    [h \in {i \in DOMAIN infos : i.joiner # handler.joiner} |-> infos[h]]

\* The first match is erased.
DeleteHandler(infos, handler) == infos (-) SetToBag({handler})

\* push_back, without a look at what is there already.
AddHandler(infos, handler) == infos (+) SetToBag({handler})

UpdateSignalHandlerInfoToLocal(u) ==
    /\ signalHandlersInfo' = [signalHandlersInfo EXCEPT ![u.key] =
          IF u.op = "1" THEN AddHandler(@, u.handler) ELSE DeleteHandler(@, u.handler)]
    /\ overtaken' = overtaken \cup
         {x \in Sessions : u.op = "0" /\ u.handler.session = x
                           /\ \E v \in updates : v.op = "1" /\ v.handler.session = x}
    /\ UNCHANGED <<notifyVars, todo, agentVars, session>>

\* A message that cannot be sent or gets lost is one that is never delivered.
DeliverUpdate(u) ==
    /\ updates' = updates \ {u}
    /\ UpdateSignalHandlerInfoToLocal(u)
    /\ UNCHANGED delivered

\* It arrives, and a copy of it is still under way.
DeliverUpdateTwice(u) ==
    /\ u \notin delivered
    /\ delivered' = delivered \cup {u}
    /\ UpdateSignalHandlerInfoToLocal(u)
    /\ UNCHANGED updates

------------------------------------------------------------------------------
NotificationThread ==
    \/ ReadPresence \/ ReadEnd \/ ReadOther
    \/ Unsubscribe \/ UnsubscribeEvery \/ SubscribeAgain
    \/ PrepareFails \/ PrepareNewAgent \/ RegisterAgent \/ RegisterFails

Next ==
    \/ \E a \in Accounts : NotifyPresence(a) \/ NotifyEnd(a) \/ NotifyOther(a)
    \/ NotificationThread
    \/ \E x \in Sessions, k \in Keys, j \in Joiners : SessionJoined(x, k, j)
    \/ \E x \in Sessions : SessionLost(x)
    \/ \E u \in updates : DeliverUpdate(u) \/ DeliverUpdateTwice(u)

\* The notification thread runs; nothing is assumed of the rest.
Spec == Init /\ [][Next]_vars /\ WF_vars(NotificationThread)

------------------------------------------------------------------------------
Entries == [xml : Descriptions \cup {NoService}, agent : {NewAgent({})} \cup
               {ParseXml(xml, {}) : xml \in Descriptions}]

Documents ==
    [kind : {"presence"}, account : Accounts, terminated : BOOLEAN, tuples : Bodies]
      \cup [kind : {"empty"}, account : Accounts, terminated : {TRUE}, tuples : {<<>>}]
      \cup [kind : {"other"}, account : Accounts, terminated : BOOLEAN, tuples : {<<>>}]
Orders == [key : Keys, xml : Descriptions \cup {NoService}]
              \cup [key : Accounts \X {EveryService}, xml : {NoService}]

\* Type invariant: at most one agent is in the making, for the tuple at work.
TypeOK ==
    /\ incomingNotifyQueue \in Seq(Documents)
    /\ notifies \in 0 .. MaxNotifies
    /\ wanted \in [Keys -> Descriptions \cup {NoService}]
    /\ todo \in Seq(Orders)
    /\ cloudBusObjects \in [Keys -> Entries]
    /\ making = Nothing \/ (~Idle /\ making.key = Head(todo).key /\ making.entry \in Entries)
    /\ excused \subseteq Keys
    /\ \A x \in Sessions : session[x].stage # "new" => session[x].key \in Keys
    /\ \A u \in updates \cup delivered : u.key \in Keys
    /\ overtaken \subseteq Sessions

\* Every client of an agent has its signal handler: while a session is open, the
\* gateway of the service knows it, unless the message that says so has not arrived;
\* also while others of the same client come and go and agents are replaced.
SessionHasHandler == \A x \in Sessions : session[x].stage = "open" =>
    LET h == Handler(x, session[x].joiner) IN
    \/ BagIn(h, signalHandlersInfo[session[x].key])
    \/ \E u \in updates : u.op = "1" /\ u.handler = h

\* A handler is for an open session, or the news of its end has not arrived, or has
\* overtaken that of its begin, or that of its begin was delivered twice, so that it is
\* in the vector once more than it is erased; or the session went with its agent, of
\* which nobody is told.
StaleHandlerHasCause == \A k \in Keys : \A h \in BagToSet(signalHandlersInfo[k]) :
    \/ session[h.session].stage \in {"open", "orphaned"}
    \/ h.session \in overtaken
    \/ \E u \in updates : u.op = "0" /\ u.handler = h
    \/ \E u \in delivered : u.op = "1" /\ u.handler = h

WorkedOff == Idle /\ incomingNotifyQueue = <<>>

\* When the notification thread has worked off its queue, the agents are those of
\* the services that the server last said to be open, with the description it last
\* sent.  A service without its agent could not be made one, or all of its account, or of
\* one whose name is a prefix of it, have been unsubscribed.  One with an agent too many
\* had its subscription end with a document that does not name it.
AgentsFollowPresence == WorkedOff => \A k \in Keys :
    \/ cloudBusObjects[k].xml = wanted[k]
    \/ k \in excused /\ (HasAgent(k) => wanted[k] = NoService)

\* Whatever agents are there at the same time, each offers on some object every
\* interface of its description.
OffersDescription == \A k \in Keys : HasAgent(k) =>
    \A name \in Described(cloudBusObjects[k].xml) :
        \E o \in cloudBusObjects[k].agent.objects :
            <<o, name>> \in cloudBusObjects[k].agent.implements

\* What the server says of a service is acted upon, also behind documents that
\* cannot be read: it gets its agent, or there is nothing more to be read of it and it is
\* without one for a reason, or the server changes its mind.
PresenceIsActedUpon == \A k \in Keys, xml \in Descriptions :
    wanted[k] = xml ~> \/ cloudBusObjects[k].xml = xml
                       \/ WorkedOff /\ k \in excused
                       \/ wanted[k] # xml

==============================================================================
