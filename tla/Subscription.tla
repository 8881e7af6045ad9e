---------------------------- MODULE Subscription ----------------------------
(***************************************************************************)
(* Subscription to the presence of other gateways.  AllJoyn clients call   *)
(* Subscribe and Unsubscribe (one thread, the bus attachment's), which     *)
(* note what is wanted in the map subscriptions; the subscription timer    *)
(* walks the map and runs doSubscribe for every account that is not        *)
(* subscribed; the stack's thread runs OnSubscriptionEvent for the         *)
(* answers.  Both waits are for "an answer", on condSubscribe and          *)
(* condUnsubscribe, and nothing tells whose answer it is.                  *)
(*                                                                         *)
(* Accounts are numbers, in the order of the map's keys.  Identical        *)
(* SUBSCRIBEs whose wait is over are one element of late.  What the        *)
(* network does wrong is bounded by MaxFaults; Refusers never accept.      *)
(***************************************************************************)
EXTENDS Naturals

CONSTANTS Accounts,          \* keys of the maps
          Refusers,          \* accounts that answer every SUBSCRIBE with 403 or 404
          Unsubscribable,    \* accounts the clients unsubscribe
          FromHeader,        \* what getSipHeaderValue("f") says of an answer
          NoAccount,         \* its NULL, which is what Sofia/SipMessage.cc returns
          SpuriousWakeups,   \* whether wait_for may return unnotified
          MaxFaults          \* bound on what the network does wrong

ASSUME SubscriptionAssumption ==
    /\ Accounts \subseteq Nat
    /\ Refusers \subseteq Accounts
    /\ Unsubscribable \subseteq Accounts
    /\ FromHeader \in Accounts \cup {NoAccount}
    /\ NoAccount \notin Accounts
    /\ SpuriousWakeups \in BOOLEAN
    /\ MaxFaults \in Nat

VARIABLES registered,     \* imsTransportStatus
          subscriptions,  \* the map: no entry, false or true
          subSessions,    \* the map: no entry, a session or a deleted one
          phase,          \* where the timer's thread is
          itr,            \* its iterator
          isNewCreated,   \* doSubscribe's session is not in the map yet
          current,        \* the SUBSCRIBE last sent
          late,           \* accounts with an unanswered SUBSCRIBE before it
          user,           \* where the client's thread is in Unsubscribe
          victim,         \* the account it unsubscribes
          unsubscribing,  \* an UNSUBSCRIBE is unanswered
          accepted,       \* history: accounts that have accepted a SUBSCRIBE
          faults, alive

timer == <<phase, itr, isNewCreated>>
client == <<user, victim, unsubscribing>>
maps == <<subscriptions, subSessions>>
vars == <<registered, maps, timer, current, late, client, accepted, faults, alive>>

Fault == faults < MaxFaults /\ faults' = faults + 1

\* Init() enters the configured accounts, all of them to be subscribed.
Init ==
    /\ registered = FALSE
    /\ subscriptions \in [Accounts -> {"absent", "false"}]
    /\ subSessions = [a \in Accounts |-> "absent"]
    /\ phase = "idle"
    /\ itr \in Accounts
    /\ isNewCreated = FALSE
    /\ current = "none"
    /\ late = {}
    /\ user = "idle"
    /\ victim \in Accounts
    /\ unsubscribing = FALSE
    /\ accepted = {}
    /\ faults = 0
    /\ alive = TRUE

------------------------------------------------------------------------------
(* The client's thread.                                                     *)

Subscribe(a) ==
    /\ user = "idle"
    /\ subscriptions' = [subscriptions EXCEPT ![a] = "false"]
    /\ UNCHANGED <<registered, subSessions, timer, current, late, client, accepted, faults, alive>>

\* With a session in the map Unsubscribe returns IC_TRANSPORT_IMS_SUB_FAILED at
\* once: it finds the session in a variable of the inner block.  Otherwise it
\* makes one, enters it and sends.
Unsubscribe(a) ==
    /\ user = "idle"
    /\ subSessions[a] = "absent"
    /\ subSessions' = [subSessions EXCEPT ![a] = "live"]
    /\ user' = "sent"
    /\ victim' = a
    /\ unsubscribing' = TRUE
    /\ UNCHANGED <<registered, subscriptions, timer, current, late, accepted, faults, alive>>

UnsubscribeEntersWait ==
    /\ user = "sent"
    /\ user' = "waiting"
    /\ UNCHANGED <<registered, maps, timer, current, late, victim, unsubscribing, accepted, faults, alive>>

\* Deletes the session and erases end() from the map: the entry stays, with a
\* dangling pointer, or the process ends.
UnsubscribeSucceeds ==
    /\ user = "woken" \/ (SpuriousWakeups /\ user = "waiting")
    /\ user' = "idle"
    /\ subSessions' = [subSessions EXCEPT ![victim] = "dangling"]
    /\ alive' \in BOOLEAN
    /\ UNCHANGED <<registered, subscriptions, timer, current, late, victim, unsubscribing, accepted, faults>>

UnsubscribeTimesOut ==
    /\ user \in {"waiting", "woken"}
    /\ user' = "idle"
    /\ UNCHANGED <<registered, maps, timer, current, late, victim, unsubscribing, accepted, faults, alive>>

------------------------------------------------------------------------------
(* SubTimerAlarmListener::AlarmTriggered and doSubscribe.                   *)

\* Faulty: counts instead of following the keys.
GoToIncrement(keys) ==
    /\ phase' = "scan"
    /\ itr' = itr + 1

\* The iterator goes to the smallest of the given keys, or to the end.
GoTo(keys) ==
    IF keys = {}
    THEN phase' = "idle" /\ UNCHANGED itr
    ELSE /\ phase' = "scan"
         /\ itr' \in {a \in keys : \A b \in keys : a <= b}

Later == {a \in Accounts : a > itr /\ subscriptions[a] # "absent"}

AlarmTriggered ==
    /\ phase = "idle"
    /\ registered
    /\ \E a \in Accounts : subscriptions[a] = "false"
    /\ GoTo({a \in Accounts : subscriptions[a] # "absent"})
    /\ UNCHANGED <<registered, maps, isNewCreated, current, late, client, accepted, faults, alive>>

SkipSubscribed ==
    /\ phase = "scan"
    /\ subscriptions[itr] = "true"
    /\ GoTo(Later)
    /\ UNCHANGED <<registered, maps, isNewCreated, current, late, client, accepted, faults, alive>>

\* Using a session Unsubscribe has deleted may end the process.
DoSubscribe ==
    /\ phase = "scan"
    /\ subscriptions[itr] = "false"
    /\ isNewCreated' = (subSessions[itr] = "absent")
    /\ phase' = "sent"
    /\ current' = "pending"
    /\ alive' \in (IF subSessions[itr] = "dangling" THEN BOOLEAN ELSE {TRUE})
    /\ UNCHANGED <<registered, maps, itr, late, client, accepted, faults>>

EnterWait ==
    /\ phase = "sent"
    /\ phase' = "waiting"
    /\ UNCHANGED <<registered, maps, itr, isNewCreated, current, late, client, accepted, faults, alive>>

\* An answer not there yet is late from now on.
LeaveBehind == late' = IF current = "pending" THEN late \cup {itr} ELSE late

\* Faulty: the session is not entered.
SucceedUnentered ==
    /\ phase = "woken" \/ (SpuriousWakeups /\ phase = "waiting")
    /\ subscriptions' = [subscriptions EXCEPT ![itr] = "true"]
    /\ LeaveBehind
    /\ current' = "none"
    /\ GoTo(Later)
    /\ UNCHANGED <<registered, subSessions, isNewCreated, client, accepted, faults, alive>>

\* The map keeps what Unsubscribe may have entered in the meantime.
Succeed ==
    /\ phase = "woken" \/ (SpuriousWakeups /\ phase = "waiting")
    /\ subscriptions' = [subscriptions EXCEPT ![itr] = "true"]
    /\ subSessions' = IF isNewCreated /\ subSessions[itr] = "absent"
                      THEN [subSessions EXCEPT ![itr] = "live"] ELSE subSessions
    /\ LeaveBehind
    /\ current' = "none"
    /\ GoTo(Later)
    /\ UNCHANGED <<registered, isNewCreated, client, accepted, faults, alive>>

\* Faulty: the first failure ends the walk.
TimeOutAndStop ==
    /\ \/ phase = "waiting" /\ current # "pending" /\ UNCHANGED faults
       \/ phase \in {"waiting", "woken"} /\ Fault
    /\ LeaveBehind
    /\ current' = "none"
    /\ phase' = "idle"
    /\ UNCHANGED <<registered, maps, itr, isNewCreated, client, accepted, alive>>

\* Faulty: a timeout is taken for a success.
TimeOutAsSuccess ==
    /\ \/ phase = "waiting" /\ current # "pending" /\ UNCHANGED faults
       \/ phase \in {"waiting", "woken"} /\ Fault
    /\ subscriptions' = [subscriptions EXCEPT ![itr] = "true"]
    /\ LeaveBehind
    /\ current' = "none"
    /\ GoTo(Later)
    /\ UNCHANGED <<registered, subSessions, isNewCreated, client, accepted, alive>>

\* Nothing will notify any more, or (a fault) the answer is late or overtaken by
\* the clock.  A new session is deleted, the account is left for the next walk.
TimeOut ==
    /\ \/ phase = "waiting" /\ current # "pending" /\ UNCHANGED faults
       \/ phase \in {"waiting", "woken"} /\ Fault
    /\ LeaveBehind
    /\ current' = "none"
    /\ GoTo(Later)
    /\ UNCHANGED <<registered, maps, isNewCreated, client, accepted, alive>>

------------------------------------------------------------------------------
(* OnSubscriptionEvent and the network.                                     *)

\* The entry a 404 is about, by the From header of the answer.
Mark(flag) ==
    IF FromHeader = NoAccount THEN subscriptions
    ELSE [subscriptions EXCEPT ![FromHeader] = flag]

\* 2xx notifies whoever waits, 401 registers again (module Registration), 404
\* puts an account back, everything else is ignored.
SubscribeEvent(class) ==
    /\ phase' = IF class = "2xx" /\ phase = "waiting" THEN "woken" ELSE phase
    /\ registered' = (registered /\ class # "401")
    /\ subscriptions' = IF class = "404" THEN Mark("false") ELSE subscriptions

Verdicts(a) == IF a \in Refusers THEN {"403", "404"} ELSE {"2xx"}

\* An answer before the wait, and a 401, 404 or 5xx of a willing account, are faults.
Answered ==
    /\ current = "pending"
    /\ \E class \in Verdicts(itr) \cup {"401", "404", "5xx"} :
          /\ IF phase = "sent" \/ class \notin Verdicts(itr) THEN Fault ELSE UNCHANGED faults
          /\ SubscribeEvent(class)
          /\ current' = IF class = "2xx" THEN "ok" ELSE "failed"
          /\ accepted' = IF class = "2xx" THEN accepted \cup {itr} ELSE accepted
    /\ UNCHANGED <<subSessions, itr, isNewCreated, late, client, alive>>

LateAnswered(a) ==
    /\ a \in late
    /\ \E class \in Verdicts(a) :
          /\ SubscribeEvent(class)
          /\ accepted' = IF class = "2xx" THEN accepted \cup {a} ELSE accepted
    /\ late' = late \ {a}
    /\ UNCHANGED <<subSessions, itr, isNewCreated, current, client, faults, alive>>

UnsubscribeAnswered ==
    /\ unsubscribing
    /\ \E class \in {"2xx", "401", "404", "5xx"} :
          /\ user' = IF class = "2xx" /\ user = "waiting" THEN "woken" ELSE user
          /\ registered' = (registered /\ class # "401")
          /\ subscriptions' = IF class = "404" THEN Mark("true") ELSE subscriptions
    /\ unsubscribing' = FALSE
    /\ UNCHANGED <<subSessions, timer, current, late, victim, accepted, faults, alive>>

\* Module Registration, as far as the timer sees it.
Register ==
    /\ ~registered
    /\ registered' = TRUE
    /\ UNCHANGED <<maps, timer, current, late, client, accepted, faults, alive>>

------------------------------------------------------------------------------
TimerThread ==
    AlarmTriggered \/ SkipSubscribed \/ DoSubscribe \/ EnterWait \/ Succeed \/ TimeOut

ClientThread ==
    \/ \E a \in Accounts : Subscribe(a)
    \/ \E a \in Unsubscribable : Unsubscribe(a)
    \/ UnsubscribeEntersWait \/ UnsubscribeSucceeds \/ UnsubscribeTimesOut

StackThread ==
    Answered \/ (\E a \in Accounts : LateAnswered(a)) \/ UnsubscribeAnswered \/ Register

Next == alive /\ (TimerThread \/ ClientThread \/ StackThread)

\* The timer runs, requests are answered in the end and registration recovers.
Fairness ==
    /\ WF_vars(alive /\ TimerThread)
    /\ WF_vars(alive /\ Answered)
    /\ WF_vars(alive /\ Register)

Spec == Init /\ [][Next]_vars /\ Fairness

------------------------------------------------------------------------------
(* Properties.                                                              *)

\* Each variable holds values of its type.
TypeOK ==
    /\ registered \in BOOLEAN
    /\ subscriptions \in [Accounts -> {"absent", "false", "true"}]
    /\ subSessions \in [Accounts -> {"absent", "live", "dangling"}]
    /\ phase \in {"idle", "scan", "sent", "waiting", "woken"}
    /\ itr \in Accounts
    /\ isNewCreated \in BOOLEAN
    /\ current \in {"none", "pending", "ok", "failed"}
    /\ late \subseteq Accounts
    /\ user \in {"idle", "sent", "waiting", "woken"}
    /\ victim \in Accounts
    /\ unsubscribing \in BOOLEAN
    /\ accepted \subseteq Accounts
    /\ faults \in 0 .. MaxFaults
    /\ alive \in BOOLEAN

\* An account marked as subscribed has a session, whatever the client does to it
\* between the SUBSCRIBE and its answer (the two maps have no lock and are
\* updated by different threads).
MarkedHasSession == \A a \in Accounts : subscriptions[a] = "true" => subSessions[a] # "absent"

\* An account is marked as subscribed only after it has accepted a SUBSCRIBE
\* (IMSTransport.h:239: "if the subscription is successful, the value is true").
MarkedIsAccepted == \A a \in Accounts : subscriptions[a] = "true" => a \in accepted

\* The timer sends SUBSCRIBEs for an account until it is marked: neither accounts
\* that always refuse, nor late answers, nor lost registrations starve it
\* (IMSTransport.h:166-170).
WantedIsMarked ==
    \A a \in Accounts \ Refusers : subscriptions[a] = "false" ~> (subscriptions[a] = "true" \/ ~alive)

==============================================================================
