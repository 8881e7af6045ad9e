----------------------------- MODULE RpcDispatch -----------------------------
(***************************************************************************)
(* The calling side of a remote call.  IMSTransport::SendCloudMessage      *)
(* sends a SIP MESSAGE, then puts a SyncContext into responseDispatchTable *)
(* under the key peer^CallID, then waits on the context's condition        *)
(* variable for RPC_REQ_TIMEOUT.  The stack's thread runs                  *)
(* IMSTransportSipCallback::OnMessagingEvent for every incoming MESSAGE: a *)
(* response is looked up in the table, put into the context, signalled,    *)
(* and its entry erased.  The table and every context have a mutex, held   *)
(* for each access and never from the send to the wait: one access is one  *)
(* step, and the callback may run between any two steps of the caller.     *)
(*                                                                         *)
(* A call is identified by the GUID SendCloudMessage generates; each call  *)
(* has a thread of its own (a bus attachment's dispatcher), so the state   *)
(* of the threads is kept per call.  Messages may be lost, duplicated,     *)
(* delayed and reordered; the other gateway is RemoteAnswers.              *)
(* Operators marked "Faulty" are wrong versions of the one that follows    *)
(* them; they serve to show that the properties notice the difference.     *)
(***************************************************************************)
EXTENDS FiniteSets

CONSTANTS CallIds,          \* the GUIDs
          Peers,            \* the accounts of the other gateways
          Bodies,           \* contents of a response
          EmptyBody,        \* the content of length 0
          NoAnswer,         \* the NULL of content and *resMsgBuf
          ReadableHeaders   \* the headers getSipHeaderValue gives a value for

ASSUME RpcAssumption ==
    /\ EmptyBody \in Bodies
    /\ NoAnswer \notin [peer : Peers, id : CallIds, body : Bodies]

VARIABLES phase,       \* where the thread of each call is in SendCloudMessage
          callee,      \* the argument peer of each call
          table,       \* the keys of responseDispatchTable
          content,     \* SyncContext::content of each call
          status,      \* what SendCloudMessage returned
          result,      \* *resMsgBuf after it returned
          net,         \* MESSAGEs under way
          executed,    \* history: the answers the called peer has given
          dispatched,  \* history: calls whose context got an answer
          dropped      \* history: <<call, phase>> of unanswered calls for which
                       \*   an arriving response was ignored

vars == <<phase, callee, table, content, status, result, net, executed,
          dispatched, dropped>>

Phases == {"unused", "sent", "inserted", "waiting", "notified", "returned"}
Statuses == {"none", "IC_OK", "IC_TIMEOUT", "IC_TRANSPORT_FAIL"}
Answers == [peer : Peers, id : CallIds, body : Bodies]

Request(id, p) == [kind |-> "request", peer |-> p, id |-> id, body |-> EmptyBody]
Response(id, p, b) == [kind |-> "response", peer |-> p, id |-> id, body |-> b]
Messages == [kind : {"request", "response"}, peer : Peers, id : CallIds, body : Bodies]

\* reqKey: "peer^CallID".
Key(p, id) == <<p, id>>

Init ==
    /\ phase = [id \in CallIds |-> "unused"]
    /\ callee \in [CallIds -> Peers]
    /\ table = {}
    /\ content = [id \in CallIds |-> NoAnswer]
    /\ status = [id \in CallIds |-> "none"]
    /\ result = [id \in CallIds |-> NoAnswer]
    /\ net = {}
    /\ executed = [id \in CallIds |-> {}]
    /\ dispatched = {}
    /\ dropped = {}

Goto(id, from, to) ==
    /\ phase[id] = from
    /\ phase' = [phase EXCEPT ![id] = to]

Return(id, st, res) ==
    /\ phase' = [phase EXCEPT ![id] = "returned"]
    /\ status' = [status EXCEPT ![id] = st]
    /\ result' = [result EXCEPT ![id] = res]

------------------------------------------------------------------------------
(* SendCloudMessage, on the calling thread.                                 *)

\* The MESSAGE goes out before the call is in the table.
Send(id) ==
    /\ Goto(id, "unused", "sent")
    /\ net' = net \cup {Request(id, callee[id])}
    /\ UNCHANGED <<callee, table, content, status, result, executed, dispatched, dropped>>

SendFails(id) ==
    /\ phase[id] = "unused"
    /\ Return(id, "IC_TRANSPORT_FAIL", NoAnswer)
    /\ UNCHANGED <<callee, table, content, net, executed, dispatched, dropped>>

InsertContext(id) ==
    /\ Goto(id, "sent", "inserted")
    /\ table' = table \cup {Key(callee[id], id)}
    /\ content' = [content EXCEPT ![id] = NoAnswer]
    /\ UNCHANGED <<callee, status, result, net, executed, dispatched, dropped>>

\* Takes syncCtx->mtx and sleeps, whatever the context already holds.
EnterWait(id) ==
    /\ Goto(id, "inserted", "waiting")
    /\ UNCHANGED <<callee, table, content, status, result, net, executed, dispatched, dropped>>

\* Faulty: the context keeps the pointer it hands over.
ReturnOkKeepContent(id) ==
    /\ phase[id] \in {"waiting", "notified"}
    /\ Return(id, "IC_OK", content[id])
    /\ UNCHANGED <<callee, table, content, net, executed, dispatched, dropped>>

\* wait_for returns no_timeout: notified, or spuriously.
ReturnOk(id) ==
    /\ phase[id] \in {"waiting", "notified"}
    /\ Return(id, "IC_OK", content[id])
    /\ content' = [content EXCEPT ![id] = NoAnswer]
    /\ UNCHANGED <<callee, table, net, executed, dispatched, dropped>>

\* Faulty: wait instead of wait_for, only a notified thread looks at the clock.
ReturnTimeoutIfNotified(id) ==
    /\ phase[id] = "notified"
    /\ Return(id, "IC_TIMEOUT", NoAnswer)
    /\ UNCHANGED <<callee, table, content, net, executed, dispatched, dropped>>

\* Faulty: hands the content over and reports a timeout.
ReturnTimeoutAndResult(id) ==
    /\ phase[id] \in {"waiting", "notified"}
    /\ Return(id, "IC_TIMEOUT", content[id])
    /\ UNCHANGED <<callee, table, content, net, executed, dispatched, dropped>>

\* wait_for returns timeout, also when the notification came while the thread
\* was already on its way out.  The entry stays in the table.
ReturnTimeout(id) ==
    /\ phase[id] \in {"waiting", "notified"}
    /\ Return(id, "IC_TIMEOUT", NoAnswer)
    /\ UNCHANGED <<callee, table, content, net, executed, dispatched, dropped>>

------------------------------------------------------------------------------
(* OnMessagingEvent(nua_i_message) for a METHOD_RET or PROPERTY_RET.        *)

RequiredHeaders == {"c", "RPC_MSG_TYPE", "f", "RPC_CALL_ID"}

Arrive(m) ==
    /\ m \in net /\ m.kind = "response"
    /\ net' \in {net, net \ {m}}

\* Faulty: "CallID^peer" on the receiving side.
MatchesSwappedKey(m) == RequiredHeaders \subseteq ReadableHeaders /\ Key(m.id, m.peer) \in table

Matches(m) == RequiredHeaders \subseteq ReadableHeaders /\ Key(m.peer, m.id) \in table

\* con.notify_one() on the context: its only possible waiter is the call.
Notify(id) ==
    phase' = IF phase[id] = "waiting" THEN [phase EXCEPT ![id] = "notified"] ELSE phase

\* Faulty: the entry is not erased.
DispatchKeepEntry(m) ==
    /\ Arrive(m)
    /\ Matches(m)
    /\ content' = IF m.body = EmptyBody THEN content
                  ELSE [content EXCEPT ![m.id] = [peer |-> m.peer, id |-> m.id, body |-> m.body]]
    /\ Notify(m.id)
    /\ dispatched' = dispatched \cup {m.id}
    /\ UNCHANGED <<callee, table, status, result, executed, dropped>>

\* Faulty: the context gets the message itself.
DispatchMessage(m) ==
    /\ Arrive(m)
    /\ Matches(m)
    /\ content' = [content EXCEPT ![m.id] = m]
    /\ Notify(m.id)
    /\ table' = table \ {Key(m.peer, m.id)}
    /\ dispatched' = dispatched \cup {m.id}
    /\ UNCHANGED <<callee, status, result, executed, dropped>>

\* Faulty: the answer goes to any call waiting for the same peer.
DispatchByPeer(m) ==
    /\ Arrive(m)
    /\ \E id \in CallIds :
        /\ Key(m.peer, id) \in table
        /\ content' = IF m.body = EmptyBody THEN content
                      ELSE [content EXCEPT ![id] = [peer |-> m.peer, id |-> m.id, body |-> m.body]]
        /\ Notify(id)
        /\ table' = table \ {Key(m.peer, id)}
        /\ dispatched' = dispatched \cup {id}
    /\ UNCHANGED <<callee, status, result, executed, dropped>>

DispatchResponse(m) ==
    /\ Arrive(m)
    /\ Matches(m)
    /\ content' = IF m.body = EmptyBody THEN content
                  ELSE [content EXCEPT ![m.id] = [peer |-> m.peer, id |-> m.id, body |-> m.body]]
    /\ Notify(m.id)
    /\ table' = table \ {Key(m.peer, m.id)}
    /\ dispatched' = dispatched \cup {m.id}
    /\ UNCHANGED <<callee, status, result, executed, dropped>>

IgnoreResponse(m) ==
    /\ Arrive(m)
    /\ ~Matches(m)
    /\ dropped' = IF m.id \in dispatched THEN dropped
                  ELSE dropped \cup {<<m.id, phase[m.id]>>}
    /\ UNCHANGED <<phase, callee, table, content, status, result, executed, dispatched>>

------------------------------------------------------------------------------
(* The network and the other gateway.                                       *)

RemoteAnswers(m, b) ==
    /\ m \in net /\ m.kind = "request"
    /\ net' \in {net \cup {Response(m.id, m.peer, b)},
                 (net \ {m}) \cup {Response(m.id, m.peer, b)}}
    /\ executed' = [executed EXCEPT ![m.id] = @ \cup {b}]
    /\ UNCHANGED <<phase, callee, table, content, status, result, dispatched, dropped>>

Lose(m) ==
    /\ m \in net
    /\ net' = net \ {m}
    /\ UNCHANGED <<phase, callee, table, content, status, result, executed, dispatched, dropped>>

CallerStep(id) ==
    InsertContext(id) \/ EnterWait(id) \/ ReturnOk(id) \/ ReturnTimeout(id)

Next ==
    \/ \E id \in CallIds : Send(id) \/ SendFails(id) \/ CallerStep(id)
    \/ \E m \in net : DispatchResponse(m) \/ IgnoreResponse(m) \/ Lose(m)
    \/ \E m \in net, b \in Bodies : RemoteAnswers(m, b)

\* A thread inside SendCloudMessage keeps running and its wait_for ends: there
\* is no wait in it without a limit.  Nothing is assumed of the network, of the
\* other gateway or of wakeups.
Fairness == \A id \in CallIds :
    WF_vars(InsertContext(id)) /\ WF_vars(EnterWait(id)) /\ WF_vars(ReturnTimeout(id))

Spec == Init /\ [][Next]_vars /\ Fairness

------------------------------------------------------------------------------
\* Type invariant of the calls, the table, the contexts and the messages.
TypeOK ==
    /\ phase \in [CallIds -> Phases]
    /\ callee \in [CallIds -> Peers]
    /\ table \subseteq Peers \X CallIds
    /\ content \in [CallIds -> Answers \cup {NoAnswer}]
    /\ status \in [CallIds -> Statuses]
    /\ result \in [CallIds -> Answers \cup {NoAnswer}]
    /\ net \subseteq Messages
    /\ executed \in [CallIds -> SUBSET Bodies]
    /\ dispatched \subseteq CallIds
    /\ dropped \subseteq CallIds \X Phases

\* A caller is given the answer its own peer gave to its own call, never that of
\* another call in flight to the same peer, and only with IC_OK: what the key
\* peer^CallID of the dispatch table is for.
OwnAnswer == \A id \in CallIds : result[id] # NoAnswer =>
    /\ status[id] = "IC_OK"
    /\ result[id].peer = callee[id]
    /\ result[id].id = id
    /\ result[id].body \in executed[id]

\* The buffer of an answer has one owner, the context or the caller, so it is
\* released once: however late and however often answers arrive, none reaches
\* the context of a call that has already been given one.
SingleOwner == \A id \in CallIds : content[id] = NoAnswer \/ result[id] = NoAnswer

\* The first answer stands: once a call has been given an answer, a duplicated
\* MESSAGE, or the second answer of a request that was delivered twice, never puts
\* another into its context (a replaced buffer would leak, one left behind too),
\* and a call that returned stays returned.
FirstAnswerKept == \A id \in CallIds :
    /\ id \in dispatched => content'[id] \in {content[id], NoAnswer}
    /\ phase[id] = "returned" => UNCHANGED <<phase[id], status[id], result[id]>>
FirstAnswerStands == [][FirstAnswerKept]_vars

\* With every header readable, an answer finds no entry only in the window
\* between the send and the insertion into the table.
OnlyEarlyAnswersDropped == \A d \in dropped : d[2] = "sent"

\* "the sender thread will wait for the response.  When a response message
\* arrives, the receiver (Callback) will have to dispatch it to the waiting
\* thread" (IMSTransport.h:299-301): no answer of an outstanding call is ignored,
\* and no call sleeps on in wait_for after its answer has been dispatched to it.
NoAnswerMissed ==
    /\ \A d \in dropped : d[2] = "returned"
    /\ \A id \in dispatched : phase[id] # "waiting"

\* Every call comes back, whatever the network and the other gateway do: a bus
\* dispatcher thread is never blocked for ever.
EveryCallReturns == \A id \in CallIds : phase[id] = "sent" ~> phase[id] = "returned"

\* The calls as their callers see them.
Call == INSTANCE RpcCall
          WITH stage <- [id \in CallIds |->
                  CASE phase[id] = "unused" -> "idle"
                    [] phase[id] = "returned" -> "returned"
                    [] OTHER -> "outstanding"],
               answers <- executed,
               outcome <- [id \in CallIds |-> [status |-> status[id], result |-> result[id]]]
ImplementsRpcCall == Call!ASpec

==============================================================================
