------------------------------- MODULE CloudRpc -------------------------------
(***************************************************************************)
(* A call of a bus client at one gateway, carried out by a service behind  *)
(* another one.  At the calling gateway a handler of the service's agent   *)
(* (CommonMethodHandler, GetProp, SetProp, GetAllProps) makes it a remote  *)
(* call, which is RpcCall here and RpcDispatch in detail, and replies to   *)
(* the client.  At the serving gateway MessageReceiverThreadFunc takes     *)
(* requests from incomingMsgQueue, the Mailbox that SyncQueue implements,  *)
(* and gives each to a thread of methodCallThreadPool, which calls the     *)
(* service through the proxy that AnnounceHandlerTask saved and sends the  *)
(* answer.  Requests may be lost, duplicated and overtaken, and the        *)
(* serving gateway may be restarted.  What arguments become on the way is  *)
(* ArgXml's.                                                               *)
(***************************************************************************)
EXTENDS ArgXml

CONSTANTS CallIds, Peers, EmptyBody, NoAnswer,  \* as in RpcCall
          Services,        \* the services announced behind the serving gateway
          Objects,         \* the paths of their objects
          TopObjects,      \* those named in the announcement of each service
          Children,        \* the child objects of each object
          Requests,        \* the bus calls that each remote call may be made for
          Results,         \* what a method may return: lists of arguments
          Values,          \* what a property may hold
          PoolSize,        \* threads of methodCallThreadPool
          MaxDeliveries,   \* bound: requests delivered
          MaxRestarts      \* bound: restarts of the serving gateway

\* Calls carry arguments, and the paths of children are longer than their object's.
ASSUME CloudRpcAssumption ==
    /\ \A id \in CallIds : \A r \in Requests[id] : r.args \in Seq(Args)
    /\ Results \subseteq Seq(Args) /\ Values \subseteq Args
    /\ TopObjects \in [Services -> SUBSET Objects]
    /\ IsFiniteSet(Objects) /\ Children \in [Objects -> SUBSET Objects]
    /\ \A S \in SUBSET Objects : S # {} => \E o \in S : Children[o] \cap S = {}
    /\ MaxDeliveries \in Nat /\ MaxRestarts \in Nat

VARIABLES callee, stage, answers, outcome,   \* the calls: RpcCall
          pending, got, closing, open,       \* incomingMsgQueue: Mailbox
          request,     \* the bus call behind each remote call
          replies,     \* what was replied to the client of each call
          net,         \* requests under way
          task,        \* the pool's task of each delivery, and its answer
          proxies,     \* proxyBusObjects
          announcing,  \* services an AnnounceHandlerTask is at work on
          togo,        \* its objects still to be introspected
          described,   \* the objects in its introspection XML so far
          published,   \* the objects each service was published with
          known,       \* objects the calling gateway has an agent for
          runs,        \* history: what services were called with and returned
          restarts

callVars == <<callee, stage, answers, outcome>>
inboxVars == <<pending, got, closing, open>>
announceVars == <<proxies, announcing, togo, described, published, known>>
vars == <<callVars, inboxVars, announceVars, request, replies, net, task, runs, restarts>>

\* The body of an answer: the XML of a list of arguments, or nothing.
Bodies == {EmptyBody} \cup Results \cup {<<v>> : v \in Values}
Deliveries == 1 .. MaxDeliveries

Rpc == INSTANCE RpcCall
Inbox == INSTANCE Mailbox WITH Values <- CallIds, MaxPuts <- MaxDeliveries

Init ==
    /\ Rpc!AInit
    /\ Inbox!MInit
    /\ request \in {f \in [CallIds -> UNION {Requests[id] : id \in CallIds}] :
                   \A id \in CallIds : f[id] \in Requests[id]}
    /\ replies = [id \in CallIds |-> <<>>]
    /\ net = {}
    /\ task = [n \in Deliveries |-> [stage |-> "none", answer |-> EmptyBody]]
    /\ proxies = {}
    /\ announcing = {}
    /\ togo = [s \in Services |-> {}]
    /\ described = [s \in Services |-> {}]
    /\ published = [s \in Services |-> {}]
    /\ known = {}
    /\ runs = {}
    /\ restarts = 0

------------------------------------------------------------------------------
(* The calling gateway: the agent's handlers and CloudMethodCall.           *)

\* "BusName/ObjPath/InterfaceName/MethodName"; a property call names its
\* interface in its first argument.
CalledAddr(r) ==
    <<r.object, IF r.kind = "Method" THEN r.interface ELSE r.args[1].text,
      IF r.kind = "Method" THEN r.member ELSE r.kind>>

ErrorReply == [ok |-> FALSE, args |-> <<>>]

\* A handler runs on the dispatcher of its agent's bus attachment, one at a time.
AgentIdle == \A id \in CallIds : stage[id] # "outstanding"

MakeCall(id) ==
    /\ AgentIdle
    /\ request[id].object \in known
    /\ Rpc!Invoke(id)
    /\ net' = net \cup {id}
    /\ UNCHANGED <<inboxVars, announceVars, request, replies, task, runs, restarts>>

\* CloudMethodCall replies with the error, returns ER_FAIL, and
\* CHECK_STATUS_AND_REPLY replies again.
ReplyErrorTwice(id) == replies' = [replies EXCEPT ![id] = <<ErrorReply, ErrorReply>>]

CallRefused(id) ==
    /\ AgentIdle
    /\ request[id].object \in known
    /\ Rpc!Refuse(id)
    /\ ReplyErrorTwice(id)
    /\ UNCHANGED <<inboxVars, announceVars, request, net, task, runs, restarts>>

CallTimesOut(id) ==
    /\ Rpc!GiveUp(id)
    /\ ReplyErrorTwice(id)
    /\ UNCHANGED <<inboxVars, announceVars, request, net, task, runs, restarts>>

\* An empty answer is replied as success without arguments.
Reply(result) ==
    CASE result = NoAnswer -> [ok |-> TRUE, args |-> <<>>]
      [] result # NoAnswer /\ Readable(result.body) ->
            [ok |-> TRUE, args |-> Wire(result.body)]
      [] OTHER -> ErrorReply

CallReturns(id) ==
    /\ Rpc!Succeed(id)
    /\ replies' = [replies EXCEPT ![id] = <<Reply(outcome'[id].result)>>]
    /\ UNCHANGED <<inboxVars, announceVars, request, net, task, runs, restarts>>

------------------------------------------------------------------------------
(* The network, and OnMessagingEvent at the serving gateway.                *)

\* A request that is lost is one that is never delivered.
Deliver(id) ==
    /\ id \in net
    /\ net' \in {net, net \ {id}}
    /\ Inbox!Put(id)
    /\ UNCHANGED <<callVars, announceVars, request, replies, task, runs, restarts>>

------------------------------------------------------------------------------
(* The serving gateway: MessageReceiverThreadFunc.                          *)

Id(n) == got[n]
Busy == {n \in Deliveries : task[n].stage \in {"ready", "calling"}}
SetTask(n, st, answer) == task' = [task EXCEPT ![n] = [stage |-> st, answer |-> answer]]

\* ITSendCloudMessage with the type of the request plus one.
SendAnswer(id, body) == Rpc!Answer(id, body)

CanExecute(id) == Readable(request[id].args) /\ Cardinality(Busy) < PoolSize

ReadRequest ==
    /\ Inbox!Take
    /\ CanExecute(Head(pending))
    /\ SetTask(Len(got) + 1, "ready", EmptyBody)
    /\ UNCHANGED <<callVars, announceVars, request, replies, net, runs, restarts>>

\* Faulty: a request the pool has no thread for is dropped.
DropUnreadable ==
    /\ Inbox!Take
    /\ ~CanExecute(Head(pending))
    /\ IF Readable(request[Head(pending)].args) THEN UNCHANGED callVars
       ELSE SendAnswer(Head(pending), EmptyBody)
    /\ UNCHANGED <<announceVars, request, replies, net, task, runs, restarts>>

\* A content that is no XML and a pool without a free thread are answered at once.
RefuseRequest ==
    /\ Inbox!Take
    /\ ~CanExecute(Head(pending))
    /\ SendAnswer(Head(pending), EmptyBody)
    /\ UNCHANGED <<announceVars, request, replies, net, task, runs, restarts>>

------------------------------------------------------------------------------
(* LocalMethodCallRunable::Run and LocalMethodCall, on a thread of the pool. *)

\* What the service is called with: a property's name is the second argument of
\* the call, its new value what the variant in the third holds.
Served(r) ==
    LET addr == CalledAddr(r)  in == Wire(r.args) IN
    [object |-> addr[1], interface |-> addr[2], member |-> addr[3],
     args |-> CASE r.kind = "Method" -> in
                [] r.kind = "Get" -> <<in[2]>>
                [] r.kind = "GetAll" -> <<>>
                [] r.kind = "Set" -> <<in[2], in[3].members[1]>>]

\* Out arguments by the kind of the call.
Returned(r) == CASE r.kind = "Method" -> Results
                 [] r.kind = "Set" -> {<<>>}
                 [] OTHER -> {<<v>> : v \in Values}

\* No proxy for the address, or the call failed at once.
CallFails(n) ==
    /\ task[n].stage = "ready"
    /\ SetTask(n, "done", EmptyBody)
    /\ SendAnswer(Id(n), EmptyBody)
    /\ UNCHANGED <<inboxVars, announceVars, request, replies, net, runs, restarts>>

\* Faulty: a service that returns nothing is answered with an empty list.
CallServiceEmptyList(n) ==
    /\ task[n].stage = "ready"
    /\ request[Id(n)].object \in proxies
    /\ \E out \in Returned(request[Id(n)]) :
        /\ SetTask(n, "calling", out)
        /\ runs' = runs \cup {[id |-> Id(n), served |-> Served(request[Id(n)]), out |-> out]}
    /\ UNCHANGED <<callVars, inboxVars, announceVars, request, replies, net, restarts>>

\* The synchronous MethodCall, GetProperty, GetAllProperties or SetProperty.
CallService(n) ==
    /\ task[n].stage = "ready"
    /\ request[Id(n)].object \in proxies
    /\ \E out \in Returned(request[Id(n)]) :
        /\ SetTask(n, "calling", IF out = <<>> THEN EmptyBody ELSE out)
        /\ runs' = runs \cup {[id |-> Id(n), served |-> Served(request[Id(n)]), out |-> out]}
    /\ UNCHANGED <<callVars, inboxVars, announceVars, request, replies, net, restarts>>

\* The call returns, or it ends with an error, as when the bus waits too long.
ServiceReturned(n) ==
    /\ task[n].stage = "calling"
    /\ SetTask(n, "done", EmptyBody)
    /\ \E body \in {task[n].answer, EmptyBody} : SendAnswer(Id(n), body)
    /\ UNCHANGED <<inboxVars, announceVars, request, replies, net, runs, restarts>>

------------------------------------------------------------------------------
(* AnnounceHandlerTask::Run: proxies and the published description.         *)

\* GenerateProxyIntrospectionXml and SaveProxyBusObject walk the same tree.
Subtree[o \in Objects] == {o} \cup UNION {Subtree[c] : c \in Children[o]}

\* A new announcement of a service is taken up when the task for its last one has
\* ended; in the pool two may overlap, and each then saves and publishes the same.
Announced(s) ==
    /\ s \notin announcing
    /\ announcing' = announcing \cup {s}
    /\ togo' = [togo EXCEPT ![s] = TopObjects[s]]
    /\ described' = [described EXCEPT ![s] = {}]
    /\ UNCHANGED <<callVars, inboxVars, request, replies, net, task, proxies, published,
                   known, runs, restarts>>

\* Faulty: the children are not saved.
SaveTopObject(o) == proxies' = proxies \cup {o}

SaveProxyBusObject(o) == proxies' = proxies \cup Subtree[o]

DescribeObject(s, o) ==
    /\ s \in announcing
    /\ o \in togo[s]
    /\ togo' = [togo EXCEPT ![s] = @ \ {o}]
    /\ described' = [described EXCEPT ![s] = @ \cup Subtree[o]]
    /\ SaveProxyBusObject(o)
    /\ UNCHANGED <<callVars, inboxVars, request, replies, net, task, announcing, published,
                   known, runs, restarts>>

\* IntrospectProxyChildren fails: neither described nor saved.
SkipObject(s, o) ==
    /\ s \in announcing
    /\ o \in togo[s]
    /\ togo' = [togo EXCEPT ![s] = @ \ {o}]
    /\ UNCHANGED <<callVars, inboxVars, request, replies, net, task, proxies, announcing,
                   described, published, known, runs, restarts>>

\* PublishService, after which the other gateway may learn of the objects.
PublishAnnounced(s) ==
    /\ s \in announcing
    /\ togo[s] = {}
    /\ announcing' = announcing \ {s}
    /\ published' = [published EXCEPT ![s] = described[s]]
    /\ known' = known \cup described[s]
    /\ described' = [described EXCEPT ![s] = {}]
    /\ UNCHANGED <<callVars, inboxVars, request, replies, net, task, proxies, togo, runs,
                   restarts>>

\* Joining the session or publishing fails, or the object is an agent.
AnnounceGivesUp(s) ==
    /\ s \in announcing
    /\ announcing' = announcing \ {s}
    /\ togo' = [togo EXCEPT ![s] = {}]
    /\ described' = [described EXCEPT ![s] = {}]
    /\ UNCHANGED <<callVars, inboxVars, request, replies, net, task, proxies, published,
                   known, runs, restarts>>

\* The serving gateway is started anew; agents elsewhere stay.
Restart ==
    /\ restarts < MaxRestarts
    /\ restarts' = restarts + 1
    /\ pending' = <<>>
    /\ task' = [n \in Deliveries |-> [stage |-> "none", answer |-> EmptyBody]]
    /\ proxies' = {}
    /\ announcing' = {}
    /\ togo' = [s \in Services |-> {}]
    /\ described' = [s \in Services |-> {}]
    /\ published' = [s \in Services |-> {}]
    /\ UNCHANGED <<callVars, got, closing, open, request, replies, net, known, runs>>

Work(n) == CallFails(n) \/ CallService(n) \/ ServiceReturned(n)

Next ==
    \/ \E id \in CallIds :
        \/ MakeCall(id) \/ CallRefused(id) \/ CallTimesOut(id) \/ CallReturns(id)
        \/ Deliver(id)
    \/ ReadRequest \/ RefuseRequest
    \/ \E n \in Deliveries : Work(n)
    \/ \E s \in Services : Announced(s) \/ PublishAnnounced(s) \/ AnnounceGivesUp(s)
    \/ \E s \in Services : \E o \in togo[s] : DescribeObject(s, o) \/ SkipObject(s, o)
    \/ Restart

\* The receiver thread and the pool's threads run, and the bus ends every call
\* of a service.  Nothing is assumed of clients, announcements and the network.
Fairness ==
    /\ WF_vars(ReadRequest \/ RefuseRequest)
    /\ \A n \in Deliveries : WF_vars(Work(n))
    /\ \A id \in CallIds : WF_vars(CallReturns(id) \/ CallTimesOut(id))

Spec == Init /\ [][Next]_vars /\ Fairness

------------------------------------------------------------------------------
\* Type invariant of what is not RpcCall's or Mailbox's own.
TypeOK ==
    /\ stage \in [CallIds -> {"idle", "outstanding", "returned"}]
    /\ answers \in [CallIds -> SUBSET Bodies]
    /\ pending \in Seq(CallIds) /\ got \in Seq(CallIds)
    /\ \A id \in CallIds : request[id] \in Requests[id]
    /\ \A id \in CallIds : Len(replies[id]) <= 2
    /\ net \subseteq CallIds
    /\ task \in [Deliveries -> [stage : {"none", "ready", "calling", "done"}, answer : Bodies]]
    /\ proxies \subseteq Objects /\ known \subseteq Objects
    /\ announcing \subseteq Services
    /\ togo \in [Services -> SUBSET Objects]
    /\ described \in [Services -> SUBSET Objects]
    /\ published \in [Services -> SUBSET Objects]
    /\ restarts \in 0 .. MaxRestarts

\* Whatever a gateway has published can be called: every object in a published
\* description, children included, has its proxy before anybody can learn of it,
\* also while announcements are repeated or given up half way.
PublishedIsCallable == \A s \in Services : published[s] \subseteq proxies

\* What the client asked the service to do.
Intended(r) ==
    [object |-> r.object,
     interface |-> IF r.kind = "Method" THEN r.interface ELSE r.args[1].text,
     member |-> IF r.kind = "Method" THEN r.member ELSE r.kind,
     args |-> CASE r.kind = "Method" -> r.args
                [] r.kind = "Get" -> <<r.args[2]>>
                [] r.kind = "GetAll" -> <<>>
                [] r.kind = "Set" -> <<r.args[2], r.args[3].members[1]>>]

\* From end to end: arguments replied to a client are what a service returned to
\* this very call: the service was called as the client meant it, and returned
\* what the client got, for all arguments the XML conversions are made for.
ReplyIsResult == \A id \in CallIds : \A i \in DOMAIN replies[id] :
    replies[id][i].args # <<>> => \E run \in runs :
        /\ run.id = id
        /\ PlainList(request[id].args) => run.served = Intended(request[id])
        /\ PlainList(run.out) => replies[id][i].args = run.out

\* Every request that reaches the gateway is answered unless the gateway is
\* restarted first: also with no free thread in the pool, no proxy, arguments that
\* are no XML, or a service that fails.
EveryRequestAnswered == \A id \in CallIds, r \in 0 .. MaxRestarts :
    (\E i \in DOMAIN pending : pending[i] = id) /\ restarts = r
        ~> answers[id] # {} \/ restarts > r

==============================================================================
