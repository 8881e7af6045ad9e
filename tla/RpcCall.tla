------------------------------- MODULE RpcCall -------------------------------
(***************************************************************************)
(* What a remote method or property call promises to the thread that makes *)
(* it (ITSendCloudMessage with RPC_MSG_TYPE_METHOD_CALL or _PROPERTY_CALL), *)
(* with the dispatch table, the contexts and the condition variables left  *)
(* out: a call is made once, the called peer may answer it, and the call   *)
(* returns once, within bounded time, with a status and either an answer   *)
(* the called peer gave to this very call or none.                         *)
(***************************************************************************)
EXTENDS FiniteSets

CONSTANTS CallIds, Peers, Bodies,
          EmptyBody,   \* the answer of length 0, which a caller gets as none
          NoAnswer

VARIABLES callee,    \* the peer each call was made to
          stage,     \* idle, outstanding or returned
          answers,   \* what the called peer has answered so far
          outcome    \* status and result of the calls that have returned

avars == <<callee, stage, answers, outcome>>

Statuses == {"IC_OK", "IC_TIMEOUT", "IC_TRANSPORT_FAIL"}

AInit ==
    /\ callee \in [CallIds -> Peers]
    /\ stage = [id \in CallIds |-> "idle"]
    /\ answers = [id \in CallIds |-> {}]
    /\ outcome = [id \in CallIds |-> [status |-> "none", result |-> NoAnswer]]

Return(id, status, result) ==
    /\ stage' = [stage EXCEPT ![id] = "returned"]
    /\ outcome' = [outcome EXCEPT ![id] = [status |-> status, result |-> result]]

Invoke(id) ==
    /\ stage[id] = "idle"
    /\ stage' = [stage EXCEPT ![id] = "outstanding"]
    /\ UNCHANGED <<callee, answers, outcome>>

Refuse(id) ==
    /\ stage[id] = "idle"
    /\ Return(id, "IC_TRANSPORT_FAIL", NoAnswer)
    /\ UNCHANGED <<callee, answers>>

\* The peer's program runs, possibly more than once and possibly too late.
Answer(id, body) ==
    /\ stage[id] # "idle"
    /\ answers' = [answers EXCEPT ![id] = @ \cup {body}]
    /\ UNCHANGED <<callee, stage, outcome>>

Succeed(id) ==
    /\ stage[id] = "outstanding"
    /\ \/ Return(id, "IC_OK", NoAnswer)
       \/ \E body \in answers[id] \ {EmptyBody} :
            Return(id, "IC_OK", [peer |-> callee[id], id |-> id, body |-> body])
    /\ UNCHANGED <<callee, answers>>

GiveUp(id) ==
    /\ stage[id] = "outstanding"
    /\ Return(id, "IC_TIMEOUT", NoAnswer)
    /\ UNCHANGED <<callee, answers>>

ANext == \E id \in CallIds :
    \/ Invoke(id)
    \/ Refuse(id)
    \/ \E body \in Bodies : Answer(id, body)
    \/ Succeed(id)
    \/ GiveUp(id)

\* No call stays outstanding for ever.
ASpec == AInit /\ [][ANext]_avars
         /\ \A id \in CallIds : WF_avars(Succeed(id) \/ GiveUp(id))

==============================================================================
