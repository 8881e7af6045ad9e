-------------------------- MODULE RegistrationProofs --------------------------
(***************************************************************************)
(* Theorems about Registration, for any number of sessions and S-CSCFs and *)
(* any amount of misbehaviour of the network.                              *)
(***************************************************************************)
EXTENDS Registration, TLAPS

IInv == TypeOK /\ RefusedIsQueued

\* Initially nothing is due.
LEMMA InitIInv == Init => IInv
<1> SUFFICES ASSUME Init PROVE IInv
  OBVIOUS
<1>1. faults \in 0 .. MaxFaults /\ commands \in Nat
  BY RegistrationAssumption DEF Init
<1>2. NoScscf \in MaybeScscf
  BY DEF MaybeScscf
<1>3. TypeOK
  <2>1. Impu \in Addresses /\ NoScscf \in Addresses \cup {NoScscf}
    BY DEF Addresses
  <2>2. request \in [Sessions -> {"none", "made", "sent", "astray", "authenticated"}]
    BY DEF Init
  <2>3. QED
    BY <1>1, <1>2, <2>1, <2>2, Zenon DEF Init, TypeOK
<1>4. RefusedIsQueued
  BY DEF Init, RefusedIsQueued, Refused, Registering
<1>5. QED
  BY <1>3, <1>4 DEF IInv

\* What an answer to a REGISTER does to the state it may touch.
LEMMA RegistrationEventKeeps ==
  ASSUME IInv, NEW class \in AnswerClasses, NEW route \in MaybeScscf,
         OnRegistrationEvent(class, route)
  PROVE  /\ status' \in {"REGISTERED", "UNREGISTERED"}
         /\ scscf' \in MaybeScscf
         /\ commands' \in Nat
         /\ commands' >= commands
<1>1. CASE class = "3xx"
  BY <1>1 DEF OnRegistrationEvent, IInv, TypeOK
<1>2. CASE class \in {"challenge", "failure"}
  BY <1>2 DEF OnRegistrationEvent, IInv, TypeOK
<1>3. CASE class \notin {"3xx", "challenge", "failure"}
  BY <1>3 DEF OnRegistrationEvent, IInv, TypeOK
<1>4. QED
  BY <1>1, <1>2, <1>3

\* What an answer to an OPTIONS does: a failure leaves a command behind.
LEMMA OptionsEventKeeps ==
  ASSUME IInv, NEW class \in AnswerClasses, OnOptionsEvent(class)
  PROVE  /\ status' \in {"REGISTERED", "UNREGISTERED"}
         /\ scscf' = scscf
         /\ commands' \in Nat
         /\ beat' \in {"idle", "ready", "sent", "waiting", "woken"}
         /\ due' \subseteq Reasons
         /\ Refused' => commands' > 0 \/ Registering
<1>1. CASE class = "2xx"
  BY <1>1 DEF OnOptionsEvent, IInv, TypeOK, RefusedIsQueued, Refused, Registering
<1>2. CASE class \in {"400", "challenge", "failure"}
  BY <1>2 DEF OnOptionsEvent, IInv, TypeOK, RefusedIsQueued, Refused, Registering, Refusals, Reasons
<1>3. CASE class \notin {"2xx", "400", "challenge", "failure"}
  BY <1>3 DEF OnOptionsEvent, IInv, TypeOK, RefusedIsQueued, Refused, Registering
<1>4. QED
  BY <1>1, <1>2, <1>3

LEMMA VerdictType == \A target : Verdict(target) \in {"2xx", "failure"}
  BY DEF Verdict

\* Every step of every thread keeps the invariant.
LEMMA NextIInv == IInv /\ [Next]_vars => IInv'
<1> SUFFICES ASSUME IInv, [Next]_vars PROVE IInv'
  OBVIOUS
<1> USE RegistrationAssumption
<1>1. ASSUME NEW r \in Sessions, RegThread(r) PROVE IInv'
  <2>1. request' = [request EXCEPT ![r] = "made"] /\ regSession' = r /\ Registering'
    BY <1>1 DEF RegThread, IInv, TypeOK, Registering
  <2>2. QED
    BY <1>1, <2>1 DEF RegThread, IInv, TypeOK, RefusedIsQueued, Addresses, timer, options
<1>2. ASSUME RegThreadSends PROVE IInv'
  <2>1. due' = {} /\ UNCHANGED <<core, regSession, stackTo, timer, beat, home, faults, alive>>
    BY <1>2 DEF RegThreadSends
  <2>2. request' \in [Sessions -> {"none", "made", "sent", "astray", "authenticated"}]
    BY <1>2 DEF RegThreadSends, IInv, TypeOK
  <2>3. QED
    BY <2>1, <2>2 DEF IInv, TypeOK, RefusedIsQueued, Refused, Registering, core, timer, options
<1>3. ASSUME NEW r \in Sessions, RegisterAccepted(r) PROVE IInv'
  <2>1. PICK s \in Scscfs, route \in MaybeScscf :
          /\ OnRegistrationEvent("2xx", route)
          /\ UNCHANGED faults \/ Fault
          /\ request[r] # "made"
          /\ request' = [request EXCEPT ![r] = "none"]
          /\ home' = s
          /\ due' = due \ {"expiry"}
          /\ UNCHANGED <<regSession, stackTo, timer, beat, alive>>
    BY <1>3 DEF RegisterAccepted, NoFault
  <2>2. faults' \in 0 .. MaxFaults
    BY <2>1 DEF Fault, IInv, TypeOK
  <2>3. QED
    BY <2>1, <2>2, RegistrationEventKeeps DEF AnswerClasses, IInv, TypeOK, RefusedIsQueued, Refused, Registering, MaybeScscf, timer, options
<1>4. ASSUME NEW r \in Sessions, RegisterChallenged(r) PROVE IInv'
  <2>1. alive' \in BOOLEAN
    BY <1>4 DEF RegisterChallenged
  <2>2. OnRegistrationEvent("challenge", NoScscf)
    BY <1>4 DEF RegisterChallenged
  <2>3. QED
    BY <1>4, <2>1, <2>2, RegistrationEventKeeps
    DEF RegisterChallenged, AnswerClasses, IInv, TypeOK, RefusedIsQueued, Refused, Registering, MaybeScscf, timer, options
<1>5. ASSUME NEW r \in Sessions, RegisterRefused(r) PROVE IInv'
  <2>1. PICK class \in AnswerClasses : OnRegistrationEvent(class, NoScscf)
    BY <1>5 DEF RegisterRefused
  <2>2. QED
    BY <1>5, <2>1, RegistrationEventKeeps
    DEF RegisterRefused, Fault, IInv, TypeOK, RefusedIsQueued, Refused, Registering, MaybeScscf, timer, options
<1>6. ASSUME NEW r \in Sessions, AstrayRefused(r) PROVE IInv'
  <2>1. OnRegistrationEvent("failure", NoScscf)
    BY <1>6 DEF AstrayRefused
  <2>2. request' \in [Sessions -> {"none", "made", "sent", "astray", "authenticated"}]
    BY <1>6 DEF AstrayRefused, IInv, TypeOK
  <2>3. Registering => Registering'
    BY <1>6 DEF AstrayRefused, Registering, IInv, TypeOK
  <2>4. "failure" \in AnswerClasses /\ NoScscf \in MaybeScscf
    BY DEF AnswerClasses, MaybeScscf
  <2>5. QED
    BY <1>6, <2>1, <2>2, <2>3, <2>4, RegistrationEventKeeps
    DEF AstrayRefused, IInv, TypeOK, RefusedIsQueued, Refused, timer, options
<1>7. ASSUME HeartbeatAnswered PROVE IInv'
  <2>1. Verdict(currentTo) \in AnswerClasses
    BY VerdictType DEF AnswerClasses
  <2>2. faults' \in 0 .. MaxFaults
    BY <1>7 DEF HeartbeatAnswered, Fault, NoFault, IInv, TypeOK
  <2>3. QED
    BY <1>7, <2>1, <2>2, OptionsEventKeeps DEF HeartbeatAnswered, IInv, TypeOK, RefusedIsQueued, Refused, Registering
<1>8. ASSUME HeartbeatRefused PROVE IInv'
  <2>1. PICK class \in AnswerClasses :
          /\ OnOptionsEvent(class)
          /\ current' = IF class = "challenge" THEN "pending" ELSE "failed"
    BY <1>8 DEF HeartbeatRefused
  <2>2. QED
    BY <1>8, <2>1, OptionsEventKeeps DEF HeartbeatRefused, Fault, IInv, TypeOK, RefusedIsQueued, Refused, Registering
<1>9. ASSUME EarlierHeartbeatAnswered PROVE IInv'
  <2>1. PICK class \in AnswerClasses : OnOptionsEvent(class)
    BY <1>9, VerdictType DEF EarlierHeartbeatAnswered, AnswerClasses
  <2>2. QED
    BY <1>9, <2>1, OptionsEventKeeps
    DEF EarlierHeartbeatAnswered, IInv, TypeOK, RefusedIsQueued, Refused, Registering, MaybeScscf
<1>10. ASSUME PublishRefused PROVE IInv'
  BY <1>10 DEF PublishRefused, Fault, IInv, TypeOK, RefusedIsQueued, Refused, Registering, Refusals, Reasons, timer, options
<1>11. ASSUME BindingLost PROVE IInv'
  BY <1>11 DEF BindingLost, Fault, IInv, TypeOK, RefusedIsQueued, Refused, Registering, Refusals, MaybeScscf, Reasons, core, timer, options
<1>12. ASSUME TimerThread PROVE IInv'
  <2>1. CASE BeatWithoutScscf
    BY <2>1 DEF BeatWithoutScscf, IInv, TypeOK, RefusedIsQueued, Refused, Registering, core, options
  <2>2. CASE BeatPrepares
    <3>1. faults' \in 0 .. MaxFaults /\ stackTo' \in Addresses
      BY <2>2 DEF BeatPrepares, Fault, NoFault, IInv, TypeOK, MaybeScscf, Addresses
    <3>2. QED
      BY <2>2, <3>1 DEF BeatPrepares, IInv, TypeOK, RefusedIsQueued, Refused, Registering, core, options
  <2>3. CASE BeatSends
    BY <2>3 DEF BeatSends, IInv, TypeOK, RefusedIsQueued, Refused, Registering, core
  <2>4. CASE BeatEntersWait
    BY <2>4 DEF BeatEntersWait, IInv, TypeOK, RefusedIsQueued, Refused, Registering, core, timer, options
  <2>5. CASE BeatReturns
    BY <2>5 DEF BeatReturns, Fault, NoFault, IInv, TypeOK, RefusedIsQueued, Refused, Registering, core, timer, options
  <2>6. CASE BeatTimesOut
    BY <2>6 DEF BeatTimesOut, Fault, NoFault, IInv, TypeOK, RefusedIsQueued, Refused, Registering, Refusals, Reasons, options
  <2>7. QED
    BY <1>12, <2>1, <2>2, <2>3, <2>4, <2>5, <2>6 DEF TimerThread
<1>13. CASE UNCHANGED vars
  BY <1>13 DEF vars, core, timer, options, IInv, TypeOK, RefusedIsQueued, Refused, Registering
<1>14. QED
  BY <1>1, <1>2, <1>3, <1>4, <1>5, <1>6, <1>7, <1>8, <1>9, <1>10, <1>11, <1>12, <1>13
  DEF Next, StackThread

LEMMA Invariant == Spec => []IInv
  BY InitIInv, NextIInv, PTL DEF Spec

\* The threads keep the state of the registration in its types.
THEOREM TypeCorrect == Spec => []TypeOK
<1>1. IInv => TypeOK
  BY DEF IInv
<1>2. QED
  BY Invariant, <1>1, PTL

\* A failed heartbeat and a refused PUBLISH always have a command in the queue or
\* in the registration thread's hands until a REGISTER is out, in every
\* interleaving of that thread, the timer and the stack.
THEOREM RefusedStaysQueued == Spec => []RefusedIsQueued
<1>1. IInv => RefusedIsQueued
  BY DEF IInv
<1>2. QED
  BY Invariant, <1>1, PTL

==============================================================================
