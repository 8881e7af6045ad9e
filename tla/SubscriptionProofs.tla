-------------------------- MODULE SubscriptionProofs --------------------------
(***************************************************************************)
(* Theorems about Subscription, for any accounts, refusals and clients.    *)
(***************************************************************************)
EXTENDS Subscription, TLAPS

\* A session that doSubscribe has found in the map stays there (or leaves a
\* dangling pointer) while it waits for the answer.
FoundSessionStays ==
    phase \in {"sent", "waiting", "woken"} /\ ~isNewCreated => subSessions[itr] # "absent"

\* Without it MarkedHasSession is not inductive: Succeed marks the account and
\* enters only a new session.
IInv == TypeOK /\ MarkedHasSession /\ FoundSessionStays

\* At first nothing is marked.
LEMMA InitTypeOK == Init => TypeOK
<1> SUFFICES ASSUME Init PROVE TypeOK
  OBVIOUS
<1>1. faults \in 0 .. MaxFaults
  BY SubscriptionAssumption DEF Init
<1>2. subscriptions \in [Accounts -> {"absent", "false", "true"}]
  BY DEF Init
<1>3. QED
  BY <1>1, <1>2, Zenon DEF Init, TypeOK

LEMMA InitIInv == Init => IInv
  BY InitTypeOK DEF Init, IInv, MarkedHasSession, FoundSessionStays

\* The iterator stays on a key.
LEMMA GoToType ==
  ASSUME NEW keys \in SUBSET Accounts, itr \in Accounts, GoTo(keys)
  PROVE  itr' \in Accounts /\ phase' \in {"idle", "scan"}
  BY DEF GoTo

LEMMA LaterAreKeys == Later \in SUBSET Accounts
  BY DEF Later

LEMMA LeaveBehindType ==
  ASSUME TypeOK, LeaveBehind PROVE late' \subseteq Accounts
  BY DEF LeaveBehind, TypeOK

\* The effect of an answer; only a readable From header lets it mark anything.
LEMMA EventKeeps ==
  ASSUME IInv, NEW class, SubscribeEvent(class), FromHeader = NoAccount
  PROVE  /\ phase' \in {"idle", "scan", "sent", "waiting", "woken"}
         /\ phase' \in {"sent", "waiting", "woken"} => phase \in {"sent", "waiting", "woken"}
         /\ registered' \in BOOLEAN
         /\ subscriptions' = subscriptions
<1>1. registered' \in BOOLEAN
  BY DEF SubscribeEvent
<1>2. QED
  BY <1>1 DEF SubscribeEvent, Mark, IInv, TypeOK

\* The invariant only depends on these variables besides the types.
LEMMA MapsUntouched ==
  ASSUME IInv, UNCHANGED <<subscriptions, subSessions, itr, isNewCreated>>,
         phase' \in {"sent", "waiting", "woken"} => phase \in {"sent", "waiting", "woken"}
  PROVE  MarkedHasSession' /\ FoundSessionStays'
  BY DEF IInv, MarkedHasSession, FoundSessionStays

LEMMA WalkOn ==
  ASSUME IInv, UNCHANGED <<subscriptions, subSessions>>, phase' \in {"idle", "scan"}
  PROVE  MarkedHasSession' /\ FoundSessionStays'
  BY DEF IInv, MarkedHasSession, FoundSessionStays

LEMMA TimerIInv ==
  ASSUME IInv, TimerThread PROVE IInv'
<1>1. CASE AlarmTriggered
  <2>1. itr' \in Accounts /\ phase' \in {"idle", "scan"}
    BY <1>1, GoToType DEF AlarmTriggered, IInv, TypeOK
  <2>2. MarkedHasSession' /\ FoundSessionStays'
    BY <1>1, <2>1, WalkOn DEF AlarmTriggered, maps
  <2>3. TypeOK'
    BY <1>1, <2>1 DEF AlarmTriggered, IInv, TypeOK, maps, client
  <2>4. QED
    BY <2>2, <2>3 DEF IInv
<1>2. CASE SkipSubscribed
  <2>1. itr' \in Accounts /\ phase' \in {"idle", "scan"}
    BY <1>2, GoToType, LaterAreKeys DEF SkipSubscribed, IInv, TypeOK
  <2>2. MarkedHasSession' /\ FoundSessionStays'
    BY <1>2, <2>1, WalkOn DEF SkipSubscribed, maps
  <2>3. TypeOK'
    BY <1>2, <2>1 DEF SkipSubscribed, IInv, TypeOK, maps, client
  <2>4. QED
    BY <2>2, <2>3 DEF IInv
<1>3. CASE DoSubscribe
  <2>1. alive' \in BOOLEAN /\ isNewCreated' \in BOOLEAN
    BY <1>3 DEF DoSubscribe
  <2>2. TypeOK'
    BY <1>3, <2>1 DEF DoSubscribe, IInv, TypeOK, maps, client
  <2>3. MarkedHasSession'
    BY <1>3 DEF DoSubscribe, IInv, MarkedHasSession, maps
  <2>4. FoundSessionStays'
    BY <1>3 DEF DoSubscribe, FoundSessionStays, maps
  <2>5. QED
    BY <2>2, <2>3, <2>4 DEF IInv
<1>4. CASE EnterWait
  <2>1. MarkedHasSession' /\ FoundSessionStays'
    BY <1>4, MapsUntouched DEF EnterWait, maps
  <2>2. TypeOK'
    BY <1>4 DEF EnterWait, IInv, TypeOK, maps, client
  <2>3. QED
    BY <2>1, <2>2 DEF IInv
<1>5. CASE Succeed
  <2>1. itr' \in Accounts /\ phase' \in {"idle", "scan"}
    BY <1>5, GoToType, LaterAreKeys DEF Succeed, IInv, TypeOK
  <2>2. late' \subseteq Accounts
    BY <1>5, LeaveBehindType DEF Succeed, IInv
  <2>3. faults' = faults /\ alive' = alive /\ registered' = registered /\ isNewCreated' = isNewCreated
    BY <1>5 DEF Succeed
  <2>4. TypeOK'
    BY <1>5, <2>1, <2>2, <2>3 DEF Succeed, IInv, TypeOK, client
  <2>5. FoundSessionStays'
    BY <2>1 DEF FoundSessionStays
  <2>6. subSessions[itr] = "absent" => isNewCreated
    BY <1>5 DEF Succeed, IInv, FoundSessionStays
  <2>7. MarkedHasSession'
    BY <1>5, <2>6 DEF Succeed, IInv, TypeOK, MarkedHasSession
  <2>8. QED
    BY <2>4, <2>5, <2>7 DEF IInv
<1>6. CASE TimeOut
  <2>1. itr' \in Accounts /\ phase' \in {"idle", "scan"}
    BY <1>6, GoToType, LaterAreKeys DEF TimeOut, IInv, TypeOK
  <2>2. late' \subseteq Accounts
    BY <1>6, LeaveBehindType DEF TimeOut, IInv
  <2>3. faults' \in 0 .. MaxFaults
    BY <1>6, SubscriptionAssumption DEF TimeOut, Fault, IInv, TypeOK
  <2>4. MarkedHasSession' /\ FoundSessionStays'
    BY <1>6, <2>1, WalkOn DEF TimeOut, maps
  <2>5. TypeOK'
    BY <1>6, <2>1, <2>2, <2>3 DEF TimeOut, IInv, TypeOK, maps, client
  <2>6. QED
    BY <2>4, <2>5 DEF IInv
<1>7. QED
  BY <1>1, <1>2, <1>3, <1>4, <1>5, <1>6 DEF TimerThread

LEMMA ClientIInv ==
  ASSUME IInv, ClientThread PROVE IInv'
<1>1. ASSUME NEW a \in Accounts, Subscribe(a) PROVE IInv'
  BY <1>1 DEF Subscribe, IInv, TypeOK, MarkedHasSession, FoundSessionStays, timer, client
<1>2. ASSUME NEW a \in Accounts, Unsubscribe(a) PROVE IInv'
  BY <1>2 DEF Unsubscribe, IInv, TypeOK, MarkedHasSession, FoundSessionStays, timer
<1>3. CASE UnsubscribeEntersWait
  BY <1>3 DEF UnsubscribeEntersWait, IInv, TypeOK, MarkedHasSession, FoundSessionStays, maps, timer
<1>4. CASE UnsubscribeSucceeds
  <2>1. alive' \in BOOLEAN
    BY <1>4 DEF UnsubscribeSucceeds
  <2>2. QED
    BY <1>4, <2>1 DEF UnsubscribeSucceeds, IInv, TypeOK, MarkedHasSession, FoundSessionStays, timer
<1>5. CASE UnsubscribeTimesOut
  BY <1>5 DEF UnsubscribeTimesOut, IInv, TypeOK, MarkedHasSession, FoundSessionStays, maps, timer
<1>6. QED
  BY <1>1, <1>2, <1>3, <1>4, <1>5, SubscriptionAssumption DEF ClientThread

LEMMA StackIInv ==
  ASSUME IInv, StackThread, FromHeader = NoAccount PROVE IInv'
<1>1. CASE Answered
  <2>1. PICK class : SubscribeEvent(class) /\ current' = (IF class = "2xx" THEN "ok" ELSE "failed")
                     /\ accepted' = (IF class = "2xx" THEN accepted \cup {itr} ELSE accepted)
                     /\ (Fault \/ UNCHANGED faults)
    BY <1>1 DEF Answered
  <2>2. faults' \in 0 .. MaxFaults
    BY <2>1, SubscriptionAssumption DEF Fault, IInv, TypeOK
  <2>3. MarkedHasSession' /\ FoundSessionStays'
    BY <1>1, <2>1, EventKeeps, MapsUntouched DEF Answered
  <2>4. TypeOK'
    BY <1>1, <2>1, <2>2, EventKeeps DEF Answered, IInv, TypeOK, client
  <2>5. QED
    BY <2>3, <2>4 DEF IInv
<1>2. ASSUME NEW a \in Accounts, LateAnswered(a) PROVE IInv'
  <2>1. PICK class : SubscribeEvent(class)
                     /\ accepted' = (IF class = "2xx" THEN accepted \cup {a} ELSE accepted)
    BY <1>2 DEF LateAnswered
  <2>2. MarkedHasSession' /\ FoundSessionStays'
    BY <1>2, <2>1, EventKeeps, MapsUntouched DEF LateAnswered
  <2>3. TypeOK'
    BY <1>2, <2>1, EventKeeps DEF LateAnswered, IInv, TypeOK, client
  <2>4. QED
    BY <2>2, <2>3 DEF IInv
<1>3. CASE UnsubscribeAnswered
  <2>1. registered' \in BOOLEAN /\ unsubscribing' \in BOOLEAN
    BY <1>3 DEF UnsubscribeAnswered
  <2>2. subscriptions' = subscriptions /\ user' \in {"idle", "sent", "waiting", "woken"}
    BY <1>3 DEF UnsubscribeAnswered, Mark, IInv, TypeOK
  <2>3. MarkedHasSession' /\ FoundSessionStays'
    BY <1>3, <2>2, MapsUntouched DEF UnsubscribeAnswered, timer
  <2>4. TypeOK'
    BY <1>3, <2>1, <2>2 DEF UnsubscribeAnswered, IInv, TypeOK, timer
  <2>5. QED
    BY <2>3, <2>4 DEF IInv
<1>4. CASE Register
  BY <1>4 DEF Register, IInv, TypeOK, MarkedHasSession, FoundSessionStays, maps, timer, client
<1>5. QED
  BY <1>1, <1>2, <1>3, <1>4 DEF StackThread

LEMMA NextIInv == FromHeader = NoAccount /\ IInv /\ [Next]_vars => IInv'
<1> SUFFICES ASSUME FromHeader = NoAccount, IInv, [Next]_vars PROVE IInv'
  OBVIOUS
<1>1. CASE Next
  BY <1>1, TimerIInv, ClientIInv, StackIInv DEF Next
<1>2. CASE UNCHANGED vars
  BY <1>2 DEF vars, maps, timer, client, IInv, TypeOK, MarkedHasSession, FoundSessionStays
<1>3. QED
  BY <1>1, <1>2

\* With the header values of the Sofia backend the threads keep the two maps and
\* the rest of the state in their types.
THEOREM TypeCorrect == FromHeader = NoAccount => (Spec => []TypeOK)
<1> SUFFICES ASSUME FromHeader = NoAccount PROVE Spec => []TypeOK
  OBVIOUS
<1>1. IInv /\ [Next]_vars => IInv'
  BY NextIInv
<1>2. IInv => TypeOK
  BY DEF IInv
<1>3. QED
  BY InitIInv, <1>1, <1>2, PTL DEF Spec

\* With the header values of the Sofia backend an account marked as subscribed
\* has a session, in every interleaving of the timer, the client and the stack.
THEOREM MarkedAccountHasSession == FromHeader = NoAccount => (Spec => []MarkedHasSession)
<1> SUFFICES ASSUME FromHeader = NoAccount PROVE Spec => []MarkedHasSession
  OBVIOUS
<1>1. IInv /\ [Next]_vars => IInv'
  BY NextIInv
<1>2. IInv => MarkedHasSession
  BY DEF IInv
<1>3. QED
  BY InitIInv, <1>1, <1>2, PTL DEF Spec

==============================================================================
