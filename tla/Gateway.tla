-------------------------------- MODULE Gateway --------------------------------
(***************************************************************************)
(* The life of the process: main starts the transport and the bus object   *)
(* and, when it is interrupted or something fails, takes them down.  The   *)
(* rest of the process are workers: threads, thread pools and timers, and  *)
(* the handlers that AllJoyn's dispatchers run.  What a worker does is     *)
(* modelled by the other modules; here it is idle or busy, hands work to   *)
(* another worker, and uses objects that main deletes.                     *)
(*                                                                         *)
(* cleanup(), CloudCommEngineBusObject::Cleanup and ~IMSTransport end the  *)
(* workers one after the other, each by asking it to end and waiting for   *)
(* it, and delete objects in between.  ~IMSTransport then withdraws the    *)
(* published services and unregisters, waiting for each answer on a        *)
(* condition variable without a predicate.                                 *)
(* Operators marked "Faulty" are wrong versions of the one after them.     *)
(***************************************************************************)
EXTENDS Naturals, Sequences

CONSTANTS Services,         \* services that may be published
          UnregisterTries,  \* 5 in the code
          MaxSpurious       \* bound: spurious wakeups

\* A service is not called like a request.
ASSUME GatewayAssumption ==
    /\ UnregisterTries \in Nat \ {0} /\ MaxSpurious \in Nat
    /\ Services \cap {"REGISTER", "UNREGISTER"} = {}

\* aj: handlers of the bus object.  agent: handlers of agents; lateAgent: those of
\* agents made after Cleanup has gone through the map.  announce: Announced and its
\* tasks.  stack: StackMainLoop.
TransportWorkers == {"registration", "heartbeat", "subscription", "stack"}
ObjectWorkers == {"aj", "announce", "message", "notify", "pool"}
Workers == TransportWorkers \cup ObjectWorkers \cup {"agent", "lateAgent"}

\* The order in which main waits for the workers: first cleanup() and Cleanup, then
\* from the seventh on ~IMSTransport.
Teardown == <<"aj", "agent", "announce", "message", "notify", "pool",
              "registration", "heartbeat", "subscription">>
TransportStep == 7

\* What main empties or destroys before it waits for a worker: the proxies and the
\* signal handlers in the maps of the bus object, and then the maps themselves, which
\* are declared after the pool and so go before the pool's destructor joins its tasks.
Clears(w) == CASE w = "announce" -> {"proxies"}
               [] w = "message" -> {"handlers"}
               [] w = "pool" -> {"maps"}
               [] OTHER -> {}

\* What main deletes when it has waited for a worker, before it asks the next.
Deletes(w) == CASE w = "agent" -> {"agents"}
                [] w = "announce" -> {"listener"}
                [] w = "pool" -> {"object"}
                [] w = "subscription" -> {"opSession", "subSessions"}
                [] OTHER -> {}

\* The objects a worker uses while it is busy: "maps" are proxyBusObjects,
\* cloudBusObjects and signalHandlersInfo, "proxies", "agents" and "handlers" what is
\* in them; "transport" are the queues, tables and conditions of IMSTransport, which
\* its destructor leaves last.
Uses(w) == CASE w = "aj" -> {"object", "subSessions", "transport"}
             [] w \in {"agent", "lateAgent"} -> {"agents", "object", "transport"}
             [] w = "announce" -> {"listener", "maps", "proxies", "object", "transport"}
             [] w = "message" -> {"maps", "agents", "handlers", "object", "transport"}
             [] w = "notify" -> {"maps", "agents", "object"}
             [] w = "pool" -> {"maps", "proxies", "object", "transport"}
             [] w = "registration" -> {"regSession", "transport", "nua"}
             [] w = "heartbeat" -> {"opSession", "transport", "nua"}
             [] w = "subscription" -> {"subSessions", "transport", "nua"}
             [] w = "stack" -> {"callback", "transport", "nua"}

VARIABLES pc,          \* where main is
          step,        \* the worker main is to take down next, an index of Teardown
          thread,      \* of each worker
          asked,       \* workers that were asked to end
          gone,        \* objects that were deleted
          interrupted, \* s_interrupt
          registered,  \* imsTransportStatus
          bound,       \* the registrar has a binding for the gateway
          published,   \* services the presence server offers
          entries,     \* publications: those the gateway knows to be published
          sip,         \* requests under way
          wait,        \* main's wait for an answer
          tries,       \* UNREGISTERs sent
          overtaken,   \* a REGISTER was still under way when an UNREGISTER was accepted
          spurious     \* spurious wakeups

mainVars == <<pc, step, asked, gone, wait, tries>>
sipVars == <<registered, bound, published, sip, overtaken>>
vars == <<mainVars, sipVars, thread, entries, interrupted, spurious>>

Init ==
    /\ pc = "initialize"
    /\ step = 1
    /\ thread = [w \in Workers |-> "none"]
    /\ asked = {}
    /\ gone = {}
    /\ interrupted = FALSE
    /\ registered = FALSE
    /\ bound = FALSE
    /\ published = {}
    /\ entries = {}
    /\ sip = {}
    /\ wait = "no"
    /\ tries = 0
    /\ overtaken = FALSE
    /\ spurious = 0

------------------------------------------------------------------------------
(* main: start-up.                                                          *)

Start(ws) == thread' = [w \in Workers |-> IF w \in ws THEN "idle" ELSE thread[w]]

\* ITInitialize, repeated until it succeeds; before that no thread is started.
Initialize ==
    /\ pc = "initialize"
    /\ pc' = "registering"
    /\ Start(TransportWorkers)
    /\ UNCHANGED <<step, asked, gone, wait, tries, sipVars, entries, interrupted, spurious>>

\* The interrupt is not looked at while main waits for REGISTERED.
Registered ==
    /\ pc = "registering"
    /\ registered
    /\ pc' = "prepare"
    /\ UNCHANGED <<step, asked, gone, wait, tries, sipVars, thread, entries, interrupted, spurious>>

\* The bus attachment does not start or connect: ITShutdown only.  Or the about
\* data or the port does not do: cleanup, without a bus object.
PrepareFails ==
    /\ pc = "prepare"
    /\ pc' = "teardown"
    /\ step' \in {1, TransportStep}
    /\ UNCHANGED <<asked, gone, wait, tries, sipVars, thread, entries, interrupted, spurious>>

\* Init of the bus object fails, with the announce handler registered or not.
\* Its own Cleanup comes first; cleanup does the same again.
InitFails ==
    /\ pc = "prepare"
    /\ pc' = "teardown"
    /\ \E ws \in {{}, {"announce"}} : Start(ws)
    /\ UNCHANGED <<step, asked, gone, wait, tries, sipVars, entries, interrupted, spurious>>

InitObject ==
    /\ pc = "prepare"
    /\ pc' = "run"
    /\ Start(ObjectWorkers)
    /\ UNCHANGED <<step, asked, gone, wait, tries, sipVars, entries, interrupted, spurious>>

\* SigIntHandler.
Interrupt ==
    /\ ~interrupted
    /\ interrupted' = TRUE
    /\ UNCHANGED <<mainVars, sipVars, thread, entries, spurious>>

LeaveLoop ==
    /\ pc = "run"
    /\ interrupted
    /\ pc' = "teardown"
    /\ UNCHANGED <<step, asked, gone, wait, tries, sipVars, thread, entries, interrupted, spurious>>

AnnounceFails ==
    /\ pc = "run"
    /\ pc' = "teardown"
    /\ UNCHANGED <<step, asked, gone, wait, tries, sipVars, thread, entries, interrupted, spurious>>

------------------------------------------------------------------------------
(* The workers.                                                             *)

\* The pool works for the message thread.  Whoever was asked takes nothing new: a
\* queue that is to end, a stopped timer or pool, an unregistered object.
Begin(w) ==
    /\ thread[w] = "idle"
    /\ w \notin asked
    /\ w = "pool" => thread["message"] = "busy"
    /\ thread' = [thread EXCEPT ![w] = "busy"]
    /\ UNCHANGED <<mainVars, sipVars, entries, interrupted, spurious>>

\* Every wait of a worker is a timed one.
Finish(w) ==
    /\ thread[w] = "busy"
    /\ w \notin {"registration", "announce", "notify"}
    /\ thread' = [thread EXCEPT ![w] = "idle"]
    /\ UNCHANGED <<mainVars, sipVars, entries, interrupted, spurious>>

\* RegThreadFunc has sent a REGISTER.
FinishRegister ==
    /\ thread["registration"] = "busy"
    /\ thread' = [thread EXCEPT !["registration"] = "idle"]
    /\ sip' = sip \cup {"REGISTER"}
    /\ UNCHANGED <<mainVars, registered, bound, published, overtaken, entries, interrupted,
                   spurious>>

\* PublishService has been answered, or not.
FinishAnnounce ==
    /\ thread["announce"] = "busy"
    /\ thread' = [thread EXCEPT !["announce"] = "idle"]
    /\ \E ss \in {{}} \cup {{s} : s \in Services} :
        /\ published' = published \cup ss
        /\ entries' = entries \cup ss
    /\ UNCHANGED <<mainVars, registered, bound, sip, overtaken, interrupted, spurious>>

\* SubscribeCloudServiceToLocal: one that comes after the agents have been gone
\* through makes an agent nobody cleans up.
FinishNotify ==
    /\ thread["notify"] = "busy"
    /\ \E w \in {"notify", IF "agent" \in asked THEN "lateAgent" ELSE "agent"} :
        thread' = [[thread EXCEPT !["notify"] = "idle"] EXCEPT
                     ![w] = IF @ \in {"none", "ended"} THEN "idle" ELSE @]
    /\ UNCHANGED <<mainVars, sipVars, entries, interrupted, spurious>>

End(w) ==
    /\ thread[w] = "idle"
    /\ w \in asked
    /\ thread' = [thread EXCEPT ![w] = "ended"]
    /\ UNCHANGED <<mainVars, sipVars, entries, interrupted, spurious>>

------------------------------------------------------------------------------
(* main: cleanup, Cleanup and the threads of ~IMSTransport.                 *)

\* Faulty: the message thread is joined, but its queue is not stopped.
AskUnlessMessage ==
    /\ pc = "teardown"
    /\ Teardown[step] \notin asked \cup {"message"}
    /\ asked' = asked \cup {Teardown[step]}
    /\ gone' = gone \cup Clears(Teardown[step])
    /\ UNCHANGED <<pc, step, wait, tries, sipVars, thread, entries, interrupted, spurious>>

\* UnregisterBusObject, delete, UnregisterAboutListener, StopQueue or Stop, and what
\* is emptied or destroyed before.
Ask ==
    /\ pc = "teardown"
    /\ Teardown[step] \notin asked
    /\ asked' = asked \cup {Teardown[step]}
    /\ gone' = gone \cup Clears(Teardown[step])
    /\ UNCHANGED <<pc, step, wait, tries, sipVars, thread, entries, interrupted, spurious>>

Ended(w) == thread[w] \in {"none", "ended"}

\* Faulty: the thread for notifications is not waited for.
JoinAllButNotify == LET w == Teardown[step] IN
    /\ pc = "teardown"
    /\ w \in asked
    /\ w = "notify" \/ Ended(w)
    /\ gone' = gone \cup Deletes(w)
    /\ IF step = Len(Teardown) THEN pc' = "unpublish" /\ UNCHANGED step
       ELSE step' = step + 1 /\ UNCHANGED pc
    /\ UNCHANGED <<asked, wait, tries, sipVars, thread, entries, interrupted, spurious>>

\* Join, after which main deletes what only this worker used.
Join == LET w == Teardown[step] IN
    /\ pc = "teardown"
    /\ w \in asked
    /\ Ended(w)
    /\ gone' = gone \cup Deletes(w)
    /\ IF step = Len(Teardown) THEN pc' = "unpublish" /\ UNCHANGED step
       ELSE step' = step + 1 /\ UNCHANGED pc
    /\ UNCHANGED <<asked, wait, tries, sipVars, thread, entries, interrupted, spurious>>

------------------------------------------------------------------------------
(* main: the requests of ~IMSTransport, and their answers.                  *)

\* unPublish of the next publication.
SendUnpublish(s) ==
    /\ pc = "unpublish"
    /\ wait = "no"
    /\ s \in entries
    /\ entries' = entries \ {s}
    /\ sip' = sip \cup {s}
    /\ wait' = "sent"
    /\ UNCHANGED <<pc, step, asked, gone, tries, registered, bound, published, overtaken, thread,
                   interrupted, spurious>>

\* publications.clear, and the session that is to unregister is made.
UnpublishDone ==
    /\ pc = "unpublish"
    /\ wait = "no"
    /\ entries = {}
    /\ pc' = "unregister"
    /\ gone' = gone \cup {"regSession"}
    /\ UNCHANGED <<step, asked, wait, tries, sipVars, thread, entries, interrupted, spurious>>

\* Faulty: one try too many.
SendOneTooMany ==
    /\ pc = "unregister"
    /\ wait = "no"
    /\ tries <= UnregisterTries
    /\ tries' = tries + 1
    /\ sip' = sip \cup {"UNREGISTER"}
    /\ wait' = "sent"
    /\ UNCHANGED <<pc, step, asked, gone, registered, bound, published, overtaken, thread, entries,
                   interrupted, spurious>>

SendUnregister ==
    /\ pc = "unregister"
    /\ wait = "no"
    /\ tries < UnregisterTries
    /\ tries' = tries + 1
    /\ sip' = sip \cup {"UNREGISTER"}
    /\ wait' = "sent"
    /\ UNCHANGED <<pc, step, asked, gone, registered, bound, published, overtaken, thread, entries,
                   interrupted, spurious>>

EnterWait ==
    /\ wait = "sent"
    /\ wait' = "waiting"
    /\ UNCHANGED <<pc, step, asked, gone, tries, sipVars, thread, entries, interrupted, spurious>>

\* wait_for has timed out: the next publication, the next try, or the end.
WaitTimesOut ==
    /\ wait = "waiting"
    /\ wait' = "no"
    /\ UNCHANGED <<pc, step, asked, gone, tries, sipVars, thread, entries, interrupted, spurious>>

\* Notified: the loop is left, also the one over the publications, of which the
\* others then stay published.
WaitReturns ==
    /\ wait = "woken"
    /\ wait' = "no"
    /\ pc' = IF pc = "unpublish" THEN "unregister" ELSE "stop"
    /\ gone' = gone \cup {"regSession"}
    /\ entries' = {}
    /\ UNCHANGED <<step, asked, tries, sipVars, thread, interrupted, spurious>>

SpuriousWakeup ==
    /\ wait = "waiting"
    /\ spurious < MaxSpurious
    /\ spurious' = spurious + 1
    /\ wait' = "woken"
    /\ UNCHANGED <<pc, step, asked, gone, tries, sipVars, thread, entries, interrupted>>

TriesUsedUp ==
    /\ pc = "unregister"
    /\ wait = "no"
    /\ tries = UnregisterTries
    /\ pc' = "stop"
    /\ UNCHANGED <<step, asked, gone, wait, tries, sipVars, thread, entries, interrupted, spurious>>

\* A 2xx for UNPUBLISH or UNREGISTER, given to the callback by the stack's thread.
Notify(at) == wait' = IF pc = at /\ wait = "waiting" THEN "woken" ELSE wait

Taken(r) ==
    /\ r \in sip
    /\ sip' = sip \ {r}
    /\ thread["stack"] \in {"idle", "busy"}
    /\ "nua" \notin gone
    /\ UNCHANGED <<pc, step, asked, gone, tries, thread, entries, interrupted, spurious>>

RegisterAccepted ==
    /\ Taken("REGISTER")
    /\ registered' = TRUE
    /\ bound' = TRUE
    /\ UNCHANGED <<published, overtaken, wait>>

UnpublishAccepted(s) ==
    /\ Taken(s)
    /\ published' = published \ {s}
    /\ Notify("unpublish")
    /\ UNCHANGED <<registered, bound, overtaken>>

UnregisterAccepted ==
    /\ Taken("UNREGISTER")
    /\ registered' = FALSE
    /\ bound' = FALSE
    /\ overtaken' = (overtaken \/ "REGISTER" \in sip)
    /\ Notify("unregister")
    /\ UNCHANGED published

\* A redirection leaves the status, 401 to 599 take it back, and 400 and 6xx count as
\* success, though nothing is bound.
RegisterRefused ==
    /\ Taken("REGISTER")
    /\ registered' \in BOOLEAN
    /\ UNCHANGED <<bound, published, overtaken, wait>>

\* Nobody is told, and a command to register again finds its queue stopped.
UnpublishRefused(s) ==
    /\ Taken(s)
    /\ registered' \in {registered, FALSE}
    /\ UNCHANGED <<bound, published, overtaken, wait>>

\* Faulty: any answer is a notification.
RefusedAndNotified ==
    /\ Taken("UNREGISTER")
    /\ Notify("unregister")
    /\ UNCHANGED <<registered, bound, published, overtaken>>

UnregisterRefused ==
    /\ Taken("UNREGISTER")
    /\ UNCHANGED <<registered, bound, published, overtaken, wait>>

------------------------------------------------------------------------------
(* main: the end of ~IMSTransport.                                          *)

\* stop, after which the main loop ends with the event it is at.
StopStack ==
    /\ pc = "stop"
    /\ pc' = "deinitialize"
    /\ asked' = asked \cup {"stack"}
    /\ UNCHANGED <<step, gone, wait, tries, sipVars, thread, entries, interrupted, spurious>>

\* deInitialize, which does not wait for the main loop.
DeInitialize ==
    /\ pc = "deinitialize"
    /\ pc' = "join"
    /\ gone' = gone \cup {"nua"}
    /\ UNCHANGED <<step, asked, wait, tries, sipVars, thread, entries, interrupted, spurious>>

JoinStack ==
    /\ pc = "join"
    /\ Ended("stack")
    /\ pc' = "ended"
    /\ gone' = gone \cup {"callback", "transport"}
    /\ UNCHANGED <<step, asked, wait, tries, sipVars, thread, entries, interrupted, spurious>>

\* The process goes on until main has returned.
Running == pc # "ended"

Main ==
    \/ Initialize \/ Registered \/ InitObject \/ PrepareFails \/ InitFails
    \/ LeaveLoop \/ Ask \/ Join
    \/ \E s \in Services : SendUnpublish(s)
    \/ UnpublishDone \/ SendUnregister \/ EnterWait \/ WaitTimesOut \/ WaitReturns
    \/ TriesUsedUp \/ StopStack \/ DeInitialize \/ JoinStack

Ends(w) == Finish(w) \/ End(w)
FinishOthers == FinishRegister \/ FinishAnnounce \/ FinishNotify

Environment ==
    \/ Interrupt \/ AnnounceFails \/ SpuriousWakeup
    \/ RegisterAccepted \/ RegisterRefused \/ UnregisterAccepted \/ UnregisterRefused
    \/ \E s \in Services : UnpublishAccepted(s) \/ UnpublishRefused(s)

Next ==
    \/ Main
    \/ Environment
    \/ Running /\ \E w \in Workers : Begin(w) \/ Ends(w)
    \/ Running /\ FinishOthers

\* main and the workers run, and no work lasts for ever; nothing is assumed of the
\* interrupt, of answers and of new work.
Spec ==
    /\ Init /\ [][Next]_vars
    /\ WF_vars(Main)
    /\ \A w \in Workers : WF_vars(Running /\ Ends(w))
    /\ WF_vars(Running /\ FinishRegister)
    /\ WF_vars(Running /\ FinishAnnounce)
    /\ WF_vars(Running /\ FinishNotify)

------------------------------------------------------------------------------
Objects == {"proxies", "agents", "handlers", "maps", "listener", "object", "opSession", "subSessions", "regSession", "nua",
            "callback", "transport"}

\* Type invariant: 5 tries at most, and answers are waited for in the two loops only.
TypeOK ==
    /\ pc \in {"initialize", "registering", "prepare", "run", "teardown", "unpublish",
               "unregister", "stop", "deinitialize", "join", "ended"}
    /\ step \in 1 .. Len(Teardown)
    /\ thread \in [Workers -> {"none", "idle", "busy", "ended"}]
    /\ asked \subseteq Workers /\ gone \subseteq Objects
    /\ interrupted \in BOOLEAN /\ registered \in BOOLEAN /\ bound \in BOOLEAN
    /\ overtaken \in BOOLEAN
    /\ published \subseteq Services /\ entries \subseteq Services
    /\ sip \subseteq {"REGISTER", "UNREGISTER"} \cup Services
    /\ wait \in {"no", "sent", "waiting", "woken"}
    /\ wait # "no" => pc \in {"unpublish", "unregister"}
    /\ tries \in 0 .. UnregisterTries
    /\ spurious \in 0 .. MaxSpurious

\* The places where main does not wait: the receiver threads look agents up while
\* Cleanup deletes them; Cleanup empties the map of proxies under announcement tasks
\* and calls, and the map of signal handlers under the message thread; calls that the
\* pool still works on look their proxy up in a map that was destroyed; nobody knows
\* of an agent made after Cleanup has deleted the others; and the stack is destroyed
\* before its thread is joined.
Unprotected ==
    ({"message", "notify"} \X {"agents"}) \cup ({"announce", "pool"} \X {"proxies"})
    \cup {<<"message", "handlers">>, <<"pool", "maps">>, <<"stack", "nua">>}
    \cup ({"lateAgent"} \X Objects)

\* These aside no worker uses an object after it was deleted, wherever the start-up
\* failed and whatever the workers were at when main was interrupted.
NothingGoneIsUsed == \A w \in Workers : thread[w] = "busy" =>
    \A o \in Uses(w) \cap gone : <<w, o>> \in Unprotected

\* A gateway that has ended is registered no more: or it has tried five times, or a
\* spurious wakeup was taken for an answer, or a REGISTER sent earlier came later.
EndsUnregistered == pc \in {"stop", "deinitialize", "join", "ended"} /\ bound =>
    tries = UnregisterTries \/ spurious > 0 \/ overtaken

\* A running gateway that is interrupted ends: main waits for nobody in vain, also
\* for threads that wait for messages, notifications or answers themselves.
InterruptEnds == (pc = "run" /\ interrupted) ~> pc = "ended"

==============================================================================
