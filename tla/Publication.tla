----------------------------- MODULE Publication -----------------------------
(***************************************************************************)
(* Publication of local services.  The AllJoyn dispatcher calls Announced  *)
(* for each announcement, which waits for a free thread of a pool and      *)
(* hands it a task; the task joins the service, introspects it and calls   *)
(* IMSTransport::PublishService, which sends a PUBLISH and waits on        *)
(* condPublish; the stack's thread runs OnPublicationEvent for the         *)
(* answers.  All tasks wait on the one condPublish, none holds a lock on   *)
(* publications, and an answer wakes any of them.                          *)
(*                                                                         *)
(* A service stands for AppId@DeviceId@sha256(XML), the key of the map, so *)
(* that an entry found has the same XML.  DeleteService looks an entry up  *)
(* by the service's name, which is no such key, and always fails, so it is *)
(* no action (nor is it ever called).  A refused PUBLISH also registers    *)
(* again: module Registration.                                             *)
(***************************************************************************)
EXTENDS Naturals, FiniteSets

CONSTANTS Tasks,             \* threads of the pool
          Services,          \* keys of publications
          NoService,         \* nothing is being announced
          MaxAnnouncements,  \* bound on the calls of Announced
          MaxSpurious        \* bound on spurious wakeups

ASSUME PublicationAssumption ==
    /\ IsFiniteSet(Tasks)
    /\ IsFiniteSet(Services)
    /\ NoService \notin Services
    /\ MaxAnnouncements \in Nat
    /\ MaxSpurious \in Nat

VARIABLES announcing,     \* what the dispatcher is in Announced with
          announcements,  \* calls of Announced so far
          phase,          \* where each thread of the pool is
          service,        \* what its task publishes
          publications,   \* the keys of the map
          unanswered,     \* number of PUBLISHes under way for each service
          accepted,       \* history: number of PUBLISHes accepted
          spurious        \* history: number of spurious wakeups

dispatcher == <<announcing, announcements>>
pool == <<phase, service>>
vars == <<dispatcher, pool, publications, unanswered, accepted, spurious>>

Phases == {"free", "joining", "sent", "waiting", "woken"}

Init ==
    /\ announcing = NoService
    /\ announcements = 0
    /\ phase = [t \in Tasks |-> "free"]
    /\ service \in [Tasks -> Services]
    /\ publications = {}
    /\ unanswered = [s \in Services |-> 0]
    /\ accepted = 0
    /\ spurious = 0

Goto(t, from, to) ==
    /\ phase[t] \in from
    /\ phase' = [phase EXCEPT ![t] = to]

------------------------------------------------------------------------------
(* LocalServiceAnnounceHandler::Announced, on the dispatcher's thread.      *)

\* Called for any port but the engine's own; blocks in WaitForAvailableThread.
Announced(s) ==
    /\ announcing = NoService
    /\ announcements < MaxAnnouncements
    /\ announcing' = s
    /\ announcements' = announcements + 1
    /\ UNCHANGED <<pool, publications, unanswered, accepted, spurious>>

\* Faulty: the content is set after the task has been handed over.
ExecuteTaskUnset(t) ==
    /\ announcing # NoService
    /\ Goto(t, {"free"}, "joining")
    /\ service' = [service EXCEPT ![t] = NoService]
    /\ announcing' = NoService
    /\ UNCHANGED <<announcements, publications, unanswered, accepted, spurious>>

ExecuteTask(t) ==
    /\ announcing # NoService
    /\ Goto(t, {"free"}, "joining")
    /\ service' = [service EXCEPT ![t] = announcing]
    /\ announcing' = NoService
    /\ UNCHANGED <<announcements, publications, unanswered, accepted, spurious>>

------------------------------------------------------------------------------
(* AnnounceHandlerTask::Run and PublishService, on a thread of the pool.    *)

\* The bus is down, the session cannot be joined, the announcement cannot be
\* read, the XML has no about data, or the service is itself an agent.
TaskGivesUp(t) ==
    /\ Goto(t, {"joining"}, "free")
    /\ UNCHANGED <<dispatcher, service, publications, unanswered, accepted, spurious>>

AlreadyPublished(t) ==
    /\ service[t] \in publications
    /\ Goto(t, {"joining"}, "free")
    /\ UNCHANGED <<dispatcher, service, publications, unanswered, accepted, spurious>>

\* A new session sends; what is looked up here is not looked at again.
SendPublish(t) ==
    /\ service[t] \notin publications
    /\ Goto(t, {"joining"}, "sent")
    /\ unanswered' = [unanswered EXCEPT ![service[t]] = @ + 1]
    /\ UNCHANGED <<dispatcher, service, publications, accepted, spurious>>

EnterWait(t) ==
    /\ Goto(t, {"sent"}, "waiting")
    /\ UNCHANGED <<dispatcher, service, publications, unanswered, accepted, spurious>>

\* no_timeout: the service is entered; map::insert leaves an entry another task
\* has made meanwhile.
ReturnOk(t) ==
    /\ Goto(t, {"woken"}, "free")
    /\ publications' = publications \cup {service[t]}
    /\ UNCHANGED <<dispatcher, service, unanswered, accepted, spurious>>

\* Faulty: wait instead of wait_for.
ReturnFailedIfWoken(t) ==
    /\ Goto(t, {"woken"}, "free")
    /\ UNCHANGED <<dispatcher, service, publications, unanswered, accepted, spurious>>

\* timeout, also when a notification came while the thread was on its way out;
\* the session is deleted.
ReturnFailed(t) ==
    /\ Goto(t, {"waiting", "woken"}, "free")
    /\ UNCHANGED <<dispatcher, service, publications, unanswered, accepted, spurious>>

SpuriousWakeup(t) ==
    /\ spurious < MaxSpurious
    /\ Goto(t, {"waiting"}, "woken")
    /\ spurious' = spurious + 1
    /\ UNCHANGED <<dispatcher, service, publications, unanswered, accepted>>

------------------------------------------------------------------------------
(* OnPublicationEvent for nua_r_publish, on the stack's thread.             *)

Waiting == {t \in Tasks : phase[t] = "waiting"}

\* Faulty: notify_all.
NotifyAll == phase' = [t \in Tasks |-> IF phase[t] = "waiting" THEN "woken" ELSE phase[t]]

\* condPublish.notify_one().
Notify ==
    \/ Waiting = {} /\ UNCHANGED phase
    \/ \E t \in Waiting : phase' = [phase EXCEPT ![t] = "woken"]

\* A 2xx answer.
PublishAccepted(s) ==
    /\ unanswered[s] > 0
    /\ Notify
    /\ unanswered' = [unanswered EXCEPT ![s] = @ - 1]
    /\ accepted' = accepted + 1
    /\ UNCHANGED <<dispatcher, service, publications, spurious>>

\* 3xx to 6xx: nobody is told.
PublishRefused(s) ==
    /\ unanswered[s] > 0
    /\ unanswered' = [unanswered EXCEPT ![s] = @ - 1]
    /\ UNCHANGED <<dispatcher, pool, publications, accepted, spurious>>

------------------------------------------------------------------------------
Run(t) ==
    \/ TaskGivesUp(t) \/ AlreadyPublished(t) \/ SendPublish(t)
    \/ EnterWait(t) \/ ReturnOk(t) \/ ReturnFailed(t)

Next ==
    \/ \E s \in Services : Announced(s) \/ PublishAccepted(s) \/ PublishRefused(s)
    \/ \E t \in Tasks : ExecuteTask(t) \/ Run(t) \/ SpuriousWakeup(t)

\* The threads of the pool run, the wait ends by its timeout, and a dispatcher
\* that waits for a free thread gets one.  Nothing is assumed of the answers.
Fairness ==
    /\ \A t \in Tasks : WF_vars(Run(t))
    /\ WF_vars(\E t \in Tasks : ExecuteTask(t))

Spec == Init /\ [][Next]_vars /\ Fairness

------------------------------------------------------------------------------
(* Properties.                                                              *)

\* Each variable holds values of its type.
TypeOK ==
    /\ announcing \in Services \cup {NoService}
    /\ announcements \in 0 .. MaxAnnouncements
    /\ phase \in [Tasks -> Phases]
    /\ service \in [Tasks -> Services]
    /\ publications \subseteq Services
    /\ unanswered \in [Services -> Nat]
    /\ accepted \in Nat
    /\ spurious \in 0 .. MaxSpurious

\* However answers and tasks are mixed up on the one condPublish, no more
\* services are entered as published than PUBLISHes were accepted, spurious
\* wakeups aside: one answer never publishes two services.
NoMoreThanAccepted == Cardinality(publications) <= accepted + spurious

\* The dispatcher is never blocked for ever by a pool full of tasks that wait
\* for a presence server (WaitForAvailableThread in Announced).
AnnouncementsGoOn == (announcing # NoService) ~> (announcing = NoService)

==============================================================================
