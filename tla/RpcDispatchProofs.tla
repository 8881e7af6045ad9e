-------------------------- MODULE RpcDispatchProofs --------------------------
(***************************************************************************)
(* Proofs about RpcDispatch for any number of calls, peers and answers and *)
(* any set of readable headers: a call returns only its own answer, once,  *)
(* and every step is a step of RpcCall or invisible to it.                 *)
(***************************************************************************)
EXTENDS RpcDispatch, TLAPS

USE DEF Key

\* Everything under way concerns a call that was made and the peer it was made
\* to, and a response carries an answer that peer has given.
NetHonest == \A m \in net :
    /\ m.peer = callee[m.id]
    /\ phase[m.id] # "unused"
    /\ m.kind = "response" => m.body \in executed[m.id]

\* A context holds an answer to its own call.
ContentOwn == \A id \in CallIds : content[id] # NoAnswer =>
    /\ content[id].peer = callee[id]
    /\ content[id].id = id
    /\ content[id].body \in executed[id] \ {EmptyBody}

\* A call is in the table under its own key, only after it was inserted and
\* only as long as it has not been given an answer.
TableFresh == \A p \in Peers, id \in CallIds : Key(p, id) \in table =>
    /\ p = callee[id]
    /\ phase[id] \notin {"unused", "sent"}
    /\ id \notin dispatched
    /\ content[id] = NoAnswer
    /\ result[id] = NoAnswer

\* A context is filled only while its call exists, a result belongs to a call
\* that returned, and a call that has not returned has no status.
Stages == \A id \in CallIds :
    /\ phase[id] \in {"unused", "sent"} => content[id] = NoAnswer /\ id \notin dispatched
    /\ phase[id] # "returned" => result[id] = NoAnswer /\ status[id] = "none"

IInv == TypeOK /\ NetHonest /\ ContentOwn /\ TableFresh /\ Stages
        /\ OwnAnswer /\ SingleOwner

LEMMA InitIInv == Init => IInv
BY RpcAssumption DEF Init, IInv, TypeOK, NetHonest, ContentOwn, TableFresh, Stages,
   OwnAnswer, SingleOwner, Phases, Statuses

\* The type part of the invariant.
LEMMA StepTypeOK == TypeOK /\ [Next]_vars => TypeOK'
<1> SUFFICES ASSUME TypeOK, [Next]_vars PROVE TypeOK'
  OBVIOUS
<1> USE RpcAssumption DEF TypeOK, Phases, Statuses, Messages, Answers
<1>1. ASSUME NEW id \in CallIds, Send(id) PROVE TypeOK'
  BY <1>1 DEF Send, Goto, Request
<1>2. ASSUME NEW id \in CallIds, SendFails(id) PROVE TypeOK'
  BY <1>2 DEF SendFails, Return
<1>3. ASSUME NEW id \in CallIds, InsertContext(id) PROVE TypeOK'
  BY <1>3 DEF InsertContext, Goto
<1>4. ASSUME NEW id \in CallIds, EnterWait(id) PROVE TypeOK'
  BY <1>4 DEF EnterWait, Goto
<1>5. ASSUME NEW id \in CallIds, ReturnOk(id) PROVE TypeOK'
  BY <1>5 DEF ReturnOk, Return
<1>6. ASSUME NEW id \in CallIds, ReturnTimeout(id) PROVE TypeOK'
  BY <1>6 DEF ReturnTimeout, Return
<1>7. ASSUME NEW m \in net, DispatchResponse(m) PROVE TypeOK'
  BY <1>7 DEF DispatchResponse, Arrive, Notify
<1>8. ASSUME NEW m \in net, IgnoreResponse(m) PROVE TypeOK'
  BY <1>8 DEF IgnoreResponse, Arrive
<1>9. ASSUME NEW m \in net, Lose(m) PROVE TypeOK'
  BY <1>9 DEF Lose
<1>10. ASSUME NEW m \in net, NEW b \in Bodies, RemoteAnswers(m, b) PROVE TypeOK'
  <2>1. Response(m.id, m.peer, b) \in Messages
    BY DEF Response
  <2>2. net' \subseteq Messages
    BY <1>10, <2>1 DEF RemoteAnswers
  <2>3. executed' \in [CallIds -> SUBSET Bodies]
    BY <1>10 DEF RemoteAnswers
  <2>4. QED BY <1>10, <2>2, <2>3 DEF RemoteAnswers
<1>11. CASE UNCHANGED vars
  BY <1>11 DEF vars
<1>12. QED
  BY <1>1, <1>2, <1>3, <1>4, <1>5, <1>6, <1>7, <1>8, <1>9, <1>10, <1>11
  DEF Next, CallerStep

\* What the network carries is honest, and stays so.
LEMMA StepNetHonest == TypeOK /\ NetHonest /\ [Next]_vars => NetHonest'
<1> SUFFICES ASSUME TypeOK, NetHonest, [Next]_vars PROVE NetHonest'
  OBVIOUS
<1> USE DEF NetHonest
<1>1. ASSUME NEW id \in CallIds, Send(id) PROVE NetHonest'
  BY <1>1 DEF Send, Request, Goto, TypeOK, Messages
<1>2. ASSUME NEW id \in CallIds,
             SendFails(id) \/ CallerStep(id)
      PROVE  NetHonest'
  BY <1>2 DEF SendFails, CallerStep, InsertContext, EnterWait, ReturnOk, ReturnTimeout,
              Goto, Return, TypeOK, Messages
<1>3. ASSUME NEW m \in net, DispatchResponse(m) \/ IgnoreResponse(m) \/ Lose(m)
      PROVE  NetHonest'
  BY <1>3 DEF DispatchResponse, IgnoreResponse, Lose, Arrive, Notify, TypeOK, Messages
<1>4. ASSUME NEW m \in net, NEW b \in Bodies, RemoteAnswers(m, b) PROVE NetHonest'
  <2>1. m.id \in CallIds
    BY DEF TypeOK, Messages
  <2>2. \A n \in net : n.id \in CallIds
    BY DEF TypeOK, Messages
  <2>3. /\ executed'[m.id] = executed[m.id] \cup {b}
        /\ \A id \in CallIds : executed[id] \subseteq executed'[id]
    BY <1>4, <2>1 DEF RemoteAnswers, TypeOK
  <2>4. \A n \in net' : n \in net \/ n = Response(m.id, m.peer, b)
    BY <1>4 DEF RemoteAnswers
  <2>5. callee' = callee /\ phase' = phase
    BY <1>4 DEF RemoteAnswers
  <2>6. SUFFICES ASSUME NEW n \in net'
                 PROVE  /\ n.peer = callee[n.id]
                        /\ phase[n.id] # "unused"
                        /\ n.kind = "response" => n.body \in executed'[n.id]
    BY <2>5
  <2>7. CASE n \in net
    BY <2>2, <2>3, <2>7
  <2>8. CASE n = Response(m.id, m.peer, b)
    BY <2>3, <2>8, <1>4 DEF Response, RemoteAnswers
  <2>9. QED BY <2>4, <2>7, <2>8
<1>5. CASE UNCHANGED vars
  BY <1>5 DEF vars
<1>6. QED BY <1>1, <1>2, <1>3, <1>4, <1>5 DEF Next

------------------------------------------------------------------------------
\* The parts of the invariant that relate contexts, table and results.
Delivery == ContentOwn /\ TableFresh /\ Stages /\ OwnAnswer /\ SingleOwner

\* Each step keeps answers, entries and results matched to their calls: an entry
\* is made before the call can be answered, and answering it removes it.
LEMMA StepDelivery == IInv /\ [Next]_vars => Delivery'
<1> SUFFICES ASSUME IInv, [Next]_vars PROVE Delivery'
  OBVIOUS
<1> USE RpcAssumption DEF IInv, Delivery, ContentOwn, TableFresh, Stages,
                          OwnAnswer, SingleOwner
<1>0. TypeOK
  OBVIOUS
<1>1. ASSUME NEW id \in CallIds, Send(id) PROVE Delivery'
  BY <1>1 DEF Send, Goto, TypeOK
<1>2. ASSUME NEW id \in CallIds, SendFails(id) PROVE Delivery'
  BY <1>2 DEF SendFails, Return, TypeOK
<1>3. ASSUME NEW id \in CallIds, InsertContext(id) PROVE Delivery'
  BY <1>3 DEF InsertContext, Goto, TypeOK
<1>4. ASSUME NEW id \in CallIds, EnterWait(id) PROVE Delivery'
  BY <1>4 DEF EnterWait, Goto, TypeOK
<1>5. ASSUME NEW id \in CallIds, ReturnOk(id) PROVE Delivery'
  BY <1>5 DEF ReturnOk, Return, TypeOK
<1>6. ASSUME NEW id \in CallIds, ReturnTimeout(id) PROVE Delivery'
  BY <1>6 DEF ReturnTimeout, Return, TypeOK
<1>7. ASSUME NEW m \in net, DispatchResponse(m) PROVE Delivery'
  <2>1. /\ m.id \in CallIds /\ m.peer \in Peers /\ m.body \in Bodies
        /\ m.peer = callee[m.id] /\ m.body \in executed[m.id]
    BY <1>7 DEF TypeOK, Messages, NetHonest, DispatchResponse, Arrive
  <2>2. /\ Key(m.peer, m.id) \in table
        /\ phase[m.id] \notin {"unused", "sent"}
        /\ content[m.id] = NoAnswer /\ result[m.id] = NoAnswer
    BY <1>7, <2>1 DEF DispatchResponse, Matches
  <2>3. /\ table' = table \ {Key(m.peer, m.id)}
        /\ UNCHANGED <<callee, status, result, executed>>
        /\ dispatched' = dispatched \cup {m.id}
        /\ \A id \in CallIds : id # m.id => content'[id] = content[id]
                                       /\ phase'[id] = phase[id]
        /\ \/ content'[m.id] = content[m.id]
           \/ /\ m.body # EmptyBody
              /\ content'[m.id] = [peer |-> m.peer, id |-> m.id, body |-> m.body]
        /\ phase[m.id] # "waiting" => phase'[m.id] = phase[m.id]
        /\ phase[m.id] = "waiting" => phase'[m.id] = "notified"
    BY <1>7, <2>1 DEF DispatchResponse, Notify, TypeOK
  <2>4. ContentOwn'
    BY <2>1, <2>2, <2>3
  <2>5. TableFresh'
    BY <2>1, <2>2, <2>3
  <2>6. Stages' /\ OwnAnswer' /\ SingleOwner'
    BY <2>2, <2>3
  <2>7. QED BY <2>4, <2>5, <2>6
<1>8. ASSUME NEW m \in net, IgnoreResponse(m) \/ Lose(m) PROVE Delivery'
  BY <1>8 DEF IgnoreResponse, Lose
<1>9. ASSUME NEW m \in net, NEW b \in Bodies, RemoteAnswers(m, b) PROVE Delivery'
  <2>1. \A id \in CallIds : executed[id] \subseteq executed'[id]
    BY <1>9 DEF RemoteAnswers, TypeOK, Messages
  <2>2. QED BY <1>9, <2>1 DEF RemoteAnswers
<1>10. CASE UNCHANGED vars
  BY <1>10 DEF vars
<1>11. QED
  BY <1>1, <1>2, <1>3, <1>4, <1>5, <1>6, <1>7, <1>8, <1>9, <1>10
  DEF Next, CallerStep

\* The whole invariant is inductive.
LEMMA Invariance == Spec => []IInv
<1>1. IInv /\ [Next]_vars => IInv'
  BY StepTypeOK, StepNetHonest, StepDelivery DEF IInv, Delivery
<1>2. QED BY InitIInv, <1>1, PTL DEF Spec

\* Every value the actions store has its type.
THEOREM TypeCorrect == Spec => []TypeOK
<1>1. IInv => TypeOK
  BY DEF IInv
<1>2. QED BY Invariance, <1>1, PTL

\* A caller gets only the answer its peer gave to this very call.
THEOREM AnswersMatchCalls == Spec => []OwnAnswer
<1>1. IInv => OwnAnswer
  BY DEF IInv
<1>2. QED BY Invariance, <1>1, PTL

\* An answer's buffer is in a context or with a caller, never in both.
THEOREM BufferHasOneOwner == Spec => []SingleOwner
<1>1. IInv => SingleOwner
  BY DEF IInv
<1>2. QED BY Invariance, <1>1, PTL

\* No later or duplicated answer replaces the first, and a call that returned
\* is never touched again.
THEOREM FirstAnswerFinal == Spec => FirstAnswerStands
<1>1. IInv /\ [Next]_vars => [FirstAnswerKept]_vars
  <2> SUFFICES ASSUME IInv, Next, NEW id \in CallIds
               PROVE  /\ id \in dispatched => content'[id] \in {content[id], NoAnswer}
                      /\ phase[id] = "returned" =>
                           UNCHANGED <<phase[id], status[id], result[id]>>
    BY DEF FirstAnswerKept
  <2> USE DEF IInv, TypeOK
  <2> DEFINE goal ==
        /\ id \in dispatched => content'[id] \in {content[id], NoAnswer}
        /\ phase[id] = "returned" => UNCHANGED <<phase[id], status[id], result[id]>>
  <2>1. ASSUME NEW i \in CallIds, Send(i) \/ SendFails(i) PROVE goal
    BY <2>1 DEF Send, SendFails, Goto, Return
  <2>2. ASSUME NEW i \in CallIds, CallerStep(i) PROVE goal
    BY <2>2 DEF CallerStep, InsertContext, EnterWait, ReturnOk, ReturnTimeout,
                Goto, Return, Stages
  <2>3. ASSUME NEW m \in net, DispatchResponse(m) PROVE goal
    <3>1. m.id \in CallIds /\ m.peer \in Peers
      BY DEF Messages
    <3>2. m.id \notin dispatched
      BY <2>3, <3>1 DEF DispatchResponse, Matches, TableFresh
    <3>3. QED BY <2>3, <3>1, <3>2 DEF DispatchResponse, Notify
  <2>4. ASSUME NEW m \in net, IgnoreResponse(m) \/ Lose(m) PROVE goal
    BY <2>4 DEF IgnoreResponse, Lose
  <2>5. ASSUME NEW m \in net, NEW b \in Bodies, RemoteAnswers(m, b) PROVE goal
    BY <2>5 DEF RemoteAnswers
  <2>6. QED BY <2>1, <2>2, <2>3, <2>4, <2>5 DEF Next
<1>2. QED BY Invariance, <1>1, PTL DEF Spec, FirstAnswerStands

------------------------------------------------------------------------------
(* What the callback finds in the table.                                     *)

\* A call whose MESSAGE could not be sent has nothing under way, and any other
\* call stays in the table from its insertion to its first answer: a timeout
\* leaves the entry behind.
Awaited ==
    /\ \A m \in net : status[m.id] # "IC_TRANSPORT_FAIL"
    /\ \A id \in CallIds :
          /\ phase[id] \notin {"unused", "sent"}
          /\ status[id] # "IC_TRANSPORT_FAIL"
          /\ id \notin dispatched
          => Key(callee[id], id) \in table

\* Only an answer removes an entry, and only its own.
LEMMA StepAwaited == IInv /\ Awaited /\ [Next]_vars => Awaited'
<1> SUFFICES ASSUME IInv, Awaited, [Next]_vars PROVE Awaited'
  OBVIOUS
<1> USE DEF IInv, TypeOK, Awaited
<1>0. \A m \in net : m.id \in CallIds /\ m.peer \in Peers
  BY DEF Messages
<1>1. ASSUME NEW id \in CallIds, Send(id) PROVE Awaited'
  BY <1>0, <1>1 DEF Send, Goto, Request, Stages
<1>2. ASSUME NEW id \in CallIds, SendFails(id) PROVE Awaited'
  BY <1>0, <1>2 DEF SendFails, Return, NetHonest
<1>3. ASSUME NEW id \in CallIds, InsertContext(id) \/ EnterWait(id) PROVE Awaited'
  BY <1>0, <1>3 DEF InsertContext, EnterWait, Goto
<1>4. ASSUME NEW id \in CallIds, ReturnOk(id) \/ ReturnTimeout(id) PROVE Awaited'
  BY <1>0, <1>4 DEF ReturnOk, ReturnTimeout, Return, Stages
<1>5. ASSUME NEW m \in net, DispatchResponse(m) PROVE Awaited'
  BY <1>0, <1>5 DEF DispatchResponse, Arrive, Notify
<1>6. ASSUME NEW m \in net, IgnoreResponse(m) \/ Lose(m) PROVE Awaited'
  BY <1>0, <1>6 DEF IgnoreResponse, Lose, Arrive
<1>7. ASSUME NEW m \in net, NEW b \in Bodies, RemoteAnswers(m, b) PROVE Awaited'
  BY <1>0, <1>7 DEF RemoteAnswers, Response
<1>8. CASE UNCHANGED vars
  BY <1>8 DEF vars
<1>9. QED
  BY <1>1, <1>2, <1>3, <1>4, <1>5, <1>6, <1>7, <1>8 DEF Next, CallerStep

\* Whatever headers the backend reads and whatever is lost, repeated or timed out:
\* from its insertion to the first answer the callback takes for it, a call that was
\* sent has its entry.  An answer that finds none comes before the insertion, or is
\* not the first.
THEOREM EntriesAwaitAnswers == Spec => []Awaited
<1>1. Init => Awaited
  BY DEF Init, Awaited
<1>2. QED BY Invariance, StepAwaited, <1>1, PTL DEF Spec

------------------------------------------------------------------------------
\* SendCloudMessage, the table and the callback together keep the promise of
\* RpcCall: every step invokes, refuses, answers, returns, or is invisible.
THEOREM DispatchIsRpcCall == Spec => Call!AInit /\ [][Call!ANext]_(Call!avars)
<1>1. Init => Call!AInit
  BY DEF Init, Call!AInit
<1>2. IInv /\ [Next]_vars => [Call!ANext]_(Call!avars)
  <2> SUFFICES ASSUME IInv, [Next]_vars
               PROVE  Call!ANext \/ UNCHANGED Call!avars
    OBVIOUS
  <2> USE DEF IInv, TypeOK, Phases
  <2>1. ASSUME NEW id \in CallIds, Send(id) PROVE Call!Invoke(id)
    BY <2>1 DEF Send, Goto, Call!Invoke
  <2>2. ASSUME NEW id \in CallIds, SendFails(id) PROVE Call!Refuse(id)
    BY <2>2 DEF SendFails, Return, Call!Refuse, Call!Return
  <2>3. ASSUME NEW id \in CallIds, InsertContext(id) \/ EnterWait(id)
        PROVE  UNCHANGED Call!avars
    BY <2>3 DEF InsertContext, EnterWait, Goto, Call!avars
  <2>4. ASSUME NEW id \in CallIds, ReturnOk(id) PROVE Call!Succeed(id)
    <3>1. content[id] = NoAnswer
          \/ \E body \in executed[id] \ {EmptyBody} :
                content[id] = [peer |-> callee[id], id |-> id, body |-> body]
      BY DEF ContentOwn, Answers
    <3>2. QED BY <2>4, <3>1 DEF ReturnOk, Return, Call!Succeed, Call!Return
  <2>5. ASSUME NEW id \in CallIds, ReturnTimeout(id) PROVE Call!GiveUp(id)
    BY <2>5 DEF ReturnTimeout, Return, Call!GiveUp, Call!Return
  <2>6. ASSUME NEW m \in net, DispatchResponse(m) PROVE UNCHANGED Call!avars
    BY <2>6 DEF DispatchResponse, Notify, Call!avars
  <2>7. ASSUME NEW m \in net, IgnoreResponse(m) \/ Lose(m)
        PROVE  UNCHANGED Call!avars
    BY <2>7 DEF IgnoreResponse, Lose, Call!avars
  <2>8. ASSUME NEW m \in net, NEW b \in Bodies, RemoteAnswers(m, b)
        PROVE  Call!ANext \/ UNCHANGED Call!avars
    BY <2>8 DEF RemoteAnswers, Call!ANext, Call!Answer, Messages, NetHonest, Call!avars
  <2>9. CASE UNCHANGED vars
    BY <2>9 DEF vars, Call!avars
  <2>10. QED
    BY <2>1, <2>2, <2>3, <2>4, <2>5, <2>6, <2>7, <2>8, <2>9
    DEF Next, CallerStep, Call!ANext
<1>3. QED BY Invariance, <1>1, <1>2, PTL DEF Spec

==============================================================================
