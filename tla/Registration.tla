---------------------------- MODULE Registration ----------------------------
(***************************************************************************)
(* Registration with the IMS core and its heartbeat.  Three threads share  *)
(* IMSTransport's state: RegThreadFunc takes commands from regCmdQueue and *)
(* sends a REGISTER for each; the heartbeat timer sends OPTIONS and waits  *)
(* on condHeartBeat; the stack's thread runs IMSTransportSipCallback for   *)
(* every answer and sets imsTransportStatus.  condHeartBeat is notified    *)
(* without its mutex and awaited without a predicate, and a new command    *)
(* deletes the session of the previous REGISTER, answered or not.          *)
(*                                                                         *)
(* OPTIONS and REGISTER have no To of their own: both setToUri write the   *)
(* one of the stack, the heartbeat's thread when it makes a session, the   *)
(* registration thread for every REGISTER.  A request goes to what the     *)
(* stack has when it is sent, so that the heartbeats after a REGISTER ask  *)
(* for the client's own address, and the core network routes them to the   *)
(* client itself as long as it is bound.                                   *)
(*                                                                         *)
(* The commands all carry regExpires, so the queue (module SyncQueue) is a *)
(* number here.  The stack ends every request with a final answer (408     *)
(* when nobody answers).  What the network does wrong is counted in        *)
(* faults and bounded by MaxFaults: a refusal, a redirection, an answer    *)
(* that is late or quicker than the sender, a lost binding; and so is the  *)
(* heartbeat's thread when it sets its To in the moment between            *)
(* RegThreadFunc's setToUri and its REGISTER.  The network's other answers *)
(* are the ones of a registrar that challenges a REGISTER once and of an   *)
(* S-CSCF that answers OPTIONS of the clients it serves.                   *)
(***************************************************************************)
EXTENDS Naturals

CONSTANTS Sessions,      \* RegistrationSession objects with a REGISTER under way
          Scscfs,        \* addresses of S-CSCFs
          Impu,          \* the client's own address
          NoScscf,       \* the empty address
          MaxFaults,     \* bound on what the network does wrong
          MaxCommands    \* the heartbeat does not fire with more commands queued

ASSUME RegistrationAssumption ==
    /\ NoScscf \notin Scscfs \cup {Impu}
    /\ Impu \notin Scscfs
    /\ MaxFaults \in Nat
    /\ MaxCommands \in Nat

VARIABLES status,            \* imsTransportStatus
          scscf,             \* taken from the Service-Route of a REGISTER's answer
          commands,          \* length of regCmdQueue
          regSession,        \* the session of the last REGISTER
          request,           \* the REGISTER of each session
          stackTo,           \* To of the stack
          opSession,         \* there is an OptionsSession
          restartOpSession,  \* the heartbeat's static flag
          beat,              \* where the heartbeat's thread is
          current,           \* the OPTIONS last sent
          currentTo,         \* where it went
          earlier,           \* where an unanswered OPTIONS before it went
          home,              \* the S-CSCF that serves this client
          due,               \* history: reasons to register since the last REGISTER
          faults,            \* what went wrong so far
          alive              \* the process has not crashed

core == <<status, scscf, commands>>
options == <<current, currentTo, earlier>>
timer == <<opSession, restartOpSession, options>>
vars == <<core, regSession, request, stackTo, timer, beat, home, due, faults, alive>>

MaybeScscf == Scscfs \cup {NoScscf}
Addresses == Scscfs \cup {Impu}
Refusals == {"heartbeat", "publish"}
Reasons == Refusals \cup {"expiry"}

\* Classes of final answers; "failure" is 401 to 599 but for a challenge.
AnswerClasses == {"2xx", "3xx", "400", "challenge", "failure", "6xx"}

Fault == faults < MaxFaults /\ faults' = faults + 1
NoFault == UNCHANGED faults

\* Init() makes a session, which sets To, queues the first command, and starts
\* thread and timer.
Init ==
    /\ status = "UNREGISTERED"
    /\ scscf = NoScscf
    /\ commands = 1
    /\ regSession \in Sessions
    /\ request = [r \in Sessions |-> "none"]
    /\ stackTo = Impu
    /\ opSession = FALSE
    /\ restartOpSession = FALSE
    /\ beat = "idle"
    /\ current = "none"
    /\ currentTo = Impu
    /\ earlier = NoScscf
    /\ home = NoScscf
    /\ due = {}
    /\ faults = 0
    /\ alive = TRUE

------------------------------------------------------------------------------
\* RegThreadFunc is between its setToUri and its REGISTER.
Registering == request[regSession] = "made"

\* Faulty: does not wait for a command.
RegThreadNoWait(r) ==
    /\ ~Registering
    /\ request[r] = "none"
    /\ commands' = commands - 1
    /\ regSession' = r
    /\ request' = [request EXCEPT ![r] = "made"]
    /\ stackTo' = Impu
    /\ UNCHANGED <<status, scscf, timer, beat, home, due, faults, alive>>

(* RegThreadFunc: one command, one new session with its addresses, one      *)
(* REGISTER.  The request of a deleted session stays with the stack.        *)
RegThread(r) ==
    /\ ~Registering
    /\ commands > 0
    /\ request[r] = "none"
    /\ commands' = commands - 1
    /\ regSession' = r
    /\ request' = [request EXCEPT ![r] = "made"]
    /\ stackTo' = Impu
    /\ UNCHANGED <<status, scscf, timer, beat, home, due, faults, alive>>

\* register_(): the REGISTER binds the address in its To, if it is the client's.
RegThreadSends ==
    /\ Registering
    /\ request' = [request EXCEPT ![regSession] = IF stackTo = Impu THEN "sent" ELSE "astray"]
    /\ due' = {}
    /\ UNCHANGED <<core, regSession, stackTo, timer, beat, home, faults, alive>>

------------------------------------------------------------------------------
(* IMSTransportSipCallback, on the stack's thread.                          *)

\* 300-399 queues a command, 401-599 fails, and all the rest from 200 on is a
\* success.  Only a success has a Service-Route, and need not have one.
OnRegistrationEvent(class, route) ==
    CASE class = "3xx" -> commands' = commands + 1 /\ UNCHANGED <<status, scscf>>
      [] class \in {"challenge", "failure"} ->
            status' = "UNREGISTERED" /\ UNCHANGED <<scscf, commands>>
      [] OTHER -> /\ status' = "REGISTERED"
                  /\ scscf' = IF route = NoScscf THEN scscf ELSE route
                  /\ UNCHANGED commands

\* The registrar serves the client, from the S-CSCF that already does or another.
RegisterAccepted(r) ==
    \E s \in Scscfs, route \in MaybeScscf :
        /\ request[r] \in {"sent", "authenticated"}
        /\ home # NoScscf => s = home
        /\ \/ route = s /\ NoFault
           \/ route = NoScscf /\ Fault
        /\ OnRegistrationEvent("2xx", route)
        /\ request' = [request EXCEPT ![r] = "none"]
        /\ home' = s
        /\ due' = due \ {"expiry"}
        /\ UNCHANGED <<regSession, stackTo, timer, beat, alive>>

\* The helper sends the REGISTER again with credentials.  For a deleted session
\* it reads a freed operation, which may end the process.
RegisterChallenged(r) ==
    /\ request[r] = "sent"
    /\ OnRegistrationEvent("challenge", NoScscf)
    /\ request' = [request EXCEPT ![r] = "authenticated"]
    /\ alive' \in (IF r = regSession THEN {TRUE} ELSE BOOLEAN)
    /\ UNCHANGED <<regSession, stackTo, timer, beat, home, due, faults>>

RegisterRefused(r) ==
    /\ request[r] \in {"sent", "authenticated"}
    /\ Fault
    /\ \E class \in AnswerClasses \ {"2xx", "challenge"} : OnRegistrationEvent(class, NoScscf)
    /\ request' = [request EXCEPT ![r] = "none"]
    /\ UNCHANGED <<regSession, stackTo, timer, beat, home, due, alive>>

\* The registrar knows no client by the address of an S-CSCF.
AstrayRefused(r) ==
    /\ request[r] = "astray"
    /\ OnRegistrationEvent("failure", NoScscf)
    /\ request' = [request EXCEPT ![r] = "none"]
    /\ UNCHANGED <<regSession, stackTo, timer, beat, home, due, faults, alive>>

\* Faulty: whatever the answer, the S-CSCF is alive.
OnOptionsEventAnyAnswer(class) ==
    /\ beat' = IF beat = "waiting" THEN "woken" ELSE beat
    /\ status' = IF class = "2xx" THEN "REGISTERED" ELSE status
    /\ UNCHANGED <<scscf, commands, due>>

\* Faulty: only a REGISTER's answer sets the status back.
OnOptionsEventNotRegistered(class) ==
    /\ beat' = IF class = "2xx" /\ beat = "waiting" THEN "woken" ELSE beat
    /\ IF class \in {"400", "challenge", "failure"}
         THEN /\ commands' = commands + 1
              /\ status' = "UNREGISTERED"
              /\ due' = due \cup {"heartbeat"}
         ELSE UNCHANGED <<commands, status, due>>
    /\ UNCHANGED scscf

\* 2xx notifies condHeartBeat, lost unless the timer's thread is waiting;
\* 400-599 registers again; anything else is ignored.
OnOptionsEvent(class) ==
    /\ beat' = IF class = "2xx" /\ beat = "waiting" THEN "woken" ELSE beat
    /\ CASE class = "2xx" -> status' = "REGISTERED" /\ UNCHANGED <<commands, due>>
         [] class \in {"400", "challenge", "failure"} ->
               /\ commands' = commands + 1
               /\ status' = "UNREGISTERED"
               /\ due' = due \cup {"heartbeat"}
         [] OTHER -> UNCHANGED <<commands, status, due>>
    /\ UNCHANGED scscf

\* An OPTIONS of a client that is bound is answered by its S-CSCF or, sent to
\* its own address, by its own stack; any other is refused.
Verdict(target) == IF home # NoScscf /\ target \in {home, Impu} THEN "2xx" ELSE "failure"

\* An answer quicker than the sender (beat = "sent") is one of the faults.
HeartbeatAnswered ==
    /\ current = "pending"
    /\ IF beat = "sent" THEN Fault ELSE NoFault
    /\ OnOptionsEvent(Verdict(currentTo))
    /\ current' = IF Verdict(currentTo) = "2xx" THEN "ok" ELSE "failed"
    /\ UNCHANGED <<regSession, request, stackTo, opSession, restartOpSession, currentTo, earlier, home, alive>>

\* After a challenge the OPTIONS goes out again with credentials.
HeartbeatRefused ==
    /\ current = "pending"
    /\ Fault
    /\ \E class \in AnswerClasses \ {"2xx"} :
          /\ OnOptionsEvent(class)
          /\ current' = IF class = "challenge" THEN "pending" ELSE "failed"
    /\ UNCHANGED <<regSession, request, stackTo, opSession, restartOpSession, currentTo, earlier, home, alive>>

\* The answer to an OPTIONS whose wait is over, or the stack's 408 for it.
EarlierHeartbeatAnswered ==
    /\ earlier # NoScscf
    /\ \E class \in {Verdict(earlier), "failure"} : OnOptionsEvent(class)
    /\ earlier' = NoScscf
    /\ UNCHANGED <<regSession, request, stackTo, opSession, restartOpSession, current, currentTo, home, faults, alive>>

\* A PUBLISH answered with 400 or more.  (Nothing happens for a refused MESSAGE.)
PublishRefused ==
    /\ Fault
    /\ commands' = commands + 1
    /\ status' = "UNREGISTERED"
    /\ due' = due \cup {"publish"}
    /\ UNCHANGED <<scscf, regSession, request, stackTo, timer, beat, home, alive>>

\* The binding expires, or the registrar loses it.
BindingLost ==
    /\ home # NoScscf
    /\ Fault
    /\ home' = NoScscf
    /\ due' = due \cup {"expiry"}
    /\ UNCHANGED <<core, regSession, request, stackTo, timer, beat, alive>>

------------------------------------------------------------------------------
(* HeartBeatTimerAlarmListener::AlarmTriggered, on the timer's thread.      *)

\* Nothing to send OPTIONS to yet: wait for success of registration.
BeatWithoutScscf ==
    /\ beat = "idle"
    /\ scscf = NoScscf
    /\ restartOpSession' = TRUE
    /\ UNCHANGED <<core, regSession, request, stackTo, opSession, options, beat, home, due, faults, alive>>

\* Replaces the session if asked to, and then sets To.  The stack gives an OPTIONS
\* up after 32 s and the alarm comes every 30 s: at most one earlier is open.
BeatPrepares ==
    /\ beat = "idle"
    /\ scscf # NoScscf
    /\ earlier = NoScscf
    /\ commands + 2 <= MaxCommands
    /\ \/ /\ restartOpSession \/ ~opSession
          /\ stackTo' = scscf
          /\ IF Registering THEN Fault ELSE NoFault
       \/ /\ ~restartOpSession /\ opSession
          /\ UNCHANGED stackTo
          /\ NoFault
    /\ opSession' = TRUE
    /\ restartOpSession' = FALSE
    /\ beat' = "ready"
    /\ UNCHANGED <<core, regSession, request, options, home, due, alive>>

\* OptionsSession::send.
BeatSends ==
    /\ beat = "ready"
    /\ earlier' = IF current = "pending" THEN currentTo ELSE NoScscf
    /\ current' = "pending"
    /\ currentTo' = stackTo
    /\ beat' = "sent"
    /\ UNCHANGED <<core, regSession, request, stackTo, opSession, restartOpSession, home, due, faults, alive>>

BeatEntersWait ==
    /\ beat = "sent"
    /\ beat' = "waiting"
    /\ UNCHANGED <<core, regSession, request, stackTo, timer, home, due, faults, alive>>

\* wait_for returns no_timeout, now and then spuriously.
BeatReturns ==
    /\ \/ beat = "woken" /\ NoFault
       \/ beat = "waiting" /\ Fault
    /\ beat' = "idle"
    /\ UNCHANGED <<core, regSession, request, stackTo, timer, home, due, alive>>

\* Faulty: gives up without a command.
BeatTimesOutSilently ==
    /\ \/ beat = "waiting" /\ current # "pending" /\ NoFault
       \/ beat \in {"waiting", "woken"} /\ Fault
    /\ restartOpSession' = TRUE
    /\ beat' = "idle"
    /\ due' = due \cup {"heartbeat"}
    /\ UNCHANGED <<core, regSession, request, stackTo, opSession, options, home, alive>>

\* wait_for returns timeout: nothing will notify any more, or (a fault) the
\* answer is late or overtaken by the clock.
BeatTimesOut ==
    /\ \/ beat = "waiting" /\ current # "pending" /\ NoFault
       \/ beat \in {"waiting", "woken"} /\ Fault
    /\ commands' = commands + 1
    /\ restartOpSession' = TRUE
    /\ beat' = "idle"
    /\ due' = due \cup {"heartbeat"}
    /\ UNCHANGED <<status, scscf, regSession, request, stackTo, opSession, options, home, alive>>

------------------------------------------------------------------------------
TimerThread ==
    BeatWithoutScscf \/ BeatPrepares \/ BeatSends \/ BeatEntersWait \/ BeatReturns \/ BeatTimesOut

StackThread ==
    \/ \E r \in Sessions : \/ RegisterAccepted(r) \/ RegisterChallenged(r)
                           \/ RegisterRefused(r) \/ AstrayRefused(r)
    \/ HeartbeatAnswered \/ HeartbeatRefused \/ EarlierHeartbeatAnswered
    \/ PublishRefused

Next ==
    /\ alive
    /\ \/ (\E r \in Sessions : RegThread(r)) \/ RegThreadSends
       \/ StackThread
       \/ TimerThread
       \/ BindingLost

\* The threads run, the timer fires, and every request is answered in the end.
Fairness ==
    /\ WF_vars(alive /\ ((\E r \in Sessions : RegThread(r)) \/ RegThreadSends))
    /\ WF_vars(alive /\ TimerThread)
    /\ \A r \in Sessions : WF_vars(alive /\ (RegisterAccepted(r) \/ RegisterChallenged(r) \/ AstrayRefused(r)))
    /\ WF_vars(alive /\ HeartbeatAnswered)
    /\ WF_vars(alive /\ EarlierHeartbeatAnswered)

Spec == Init /\ [][Next]_vars /\ Fairness

------------------------------------------------------------------------------
(* Properties.                                                              *)

\* Each variable of the registration holds values of its type.
TypeOK ==
    /\ status \in {"REGISTERED", "UNREGISTERED"}
    /\ scscf \in MaybeScscf
    /\ commands \in Nat
    /\ regSession \in Sessions
    /\ request \in [Sessions -> {"none", "made", "sent", "astray", "authenticated"}]
    /\ stackTo \in Addresses
    /\ opSession \in BOOLEAN
    /\ restartOpSession \in BOOLEAN
    /\ beat \in {"idle", "ready", "sent", "waiting", "woken"}
    /\ current \in {"none", "pending", "ok", "failed"}
    /\ currentTo \in Addresses
    /\ earlier \in Addresses \cup {NoScscf}
    /\ home \in MaybeScscf
    /\ due \subseteq Reasons
    /\ faults \in 0 .. MaxFaults
    /\ alive \in BOOLEAN

\* Something was refused and no REGISTER has gone out since.
Refused == \E w \in Refusals : w \in due

\* What was refused, a heartbeat or a PUBLISH, stays queued as a command or is in
\* the registration thread's hands until a REGISTER has gone out for it, whatever
\* the other two threads do (IMSTransport.h:268 and :269).
RefusedIsQueued == Refused => commands > 0 \/ Registering

\* A heartbeat that fails and a PUBLISH that is refused are followed by a
\* REGISTER (IMSTransport.h:268 and :269).
RefusalRenews == Refused ~> (~Refused \/ ~alive)

\* A lost binding is noticed through the heartbeat and followed by a REGISTER,
\* once the S-CSCF is known (IMSTransport.h:267), wherever the stack's To has
\* sent the heartbeat.
ExpiryRenews ==
    ("expiry" \in due /\ scscf # NoScscf) ~> ("expiry" \notin due \/ ~alive)

\* With the S-CSCF known once and the network behaving again, the gateway ends
\* up registered for good and registers no more: stale answers, redundant and
\* misaddressed REGISTERs, heartbeats to an old S-CSCF all wear off.
Recovers ==
    <>[](alive /\ scscf # NoScscf) =>
        <>[](status = "REGISTERED" /\ home # NoScscf /\ commands = 0)

==============================================================================
