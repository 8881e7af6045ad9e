----------------------------- MODULE GatewayProofs -----------------------------
(***************************************************************************)
(* Proofs that no worker uses what main has deleted, the named gaps        *)
(* aside, and that a gateway that has ended is unregistered or has a       *)
(* reason not to be, for any services and number of tries.  The key is     *)
(* Down: a worker main is through with was asked to end and has ended, or  *)
(* was never started, and nothing starts it again.                         *)
(***************************************************************************)
EXTENDS Gateway, TLAPS

Early == {"initialize", "registering", "prepare"}
Late == {"stop", "deinitialize", "join", "ended"}
Phases == Early \cup {"run", "teardown", "unpublish", "unregister"} \cup Late
Steps == 1 .. 9

Down(w) == \/ w \in asked /\ Ended(w)
           \/ thread[w] = "none" /\ thread["notify"] = "none"

\* The workers main has joined.
Joined == CASE pc \in Early \cup {"run"} -> {}
            [] pc = "teardown" -> {Teardown[i] : i \in 1 .. (step - 1)}
            [] OTHER -> {Teardown[i] : i \in Steps}

\* Before the teardown nobody is asked and nothing deleted.
NothingYet ==
    /\ pc \in Early \cup {"run"} => asked = {} /\ gone = {} /\ step = 1
    /\ pc \in Early => \A w \in Workers \ TransportWorkers : thread[w] = "none"

JoinedAreDown == \A w \in Joined : Down(w)

\* The stack is asked before it goes, and a late agent never.
WhoIsAsked ==
    /\ pc \in {"deinitialize", "join", "ended"} => "stack" \in asked
    /\ "lateAgent" \notin asked

\* Who uses what is gone is down, the gaps aside.
UsersAreDown == \A w \in Workers : \A o \in Uses(w) \cap gone :
    <<w, o>> \in Unprotected \/ Down(w)

\* An accepted UNREGISTER stays the last word, if no REGISTER was under way.
Unbound == \/ tries = UnregisterTries \/ spurious > 0 \/ overtaken
           \/ ~bound /\ "REGISTER" \notin sip
LastWord == pc \in Late \/ (pc = "unregister" /\ wait = "woken") => Unbound

IInv == TypeOK /\ NothingYet /\ JoinedAreDown /\ WhoIsAsked /\ UsersAreDown /\ LastWord

------------------------------------------------------------------------------
(* The tables of the teardown.                                              *)

LEMMA TeardownOrder ==
    /\ Teardown[1] = "aj" /\ Teardown[2] = "agent" /\ Teardown[3] = "announce"
    /\ Teardown[4] = "message" /\ Teardown[5] = "notify" /\ Teardown[6] = "pool"
    /\ Teardown[7] = "registration" /\ Teardown[8] = "heartbeat" /\ Teardown[9] = "subscription"
  BY DEF Teardown

LEMMA NineSteps == Len(Teardown) = 9 /\ \A i \in Steps : Teardown[i] \in Workers
<1>1. Len(Teardown) = 9 BY DEF Teardown
<1>2. ASSUME NEW i \in Steps PROVE Teardown[i] \in Workers
  <2>1. i \in {1, 2, 3, 4, 5, 6, 7, 8, 9} BY DEF Steps
  <2> QED BY <2>1, TeardownOrder DEF Workers, TransportWorkers, ObjectWorkers
<1> QED BY <1>1, <1>2

\* What main deletes after a join is used by workers it has joined by then only,
\* the gaps aside.
LEMMA DeletedWhenJoined ==
    ASSUME NEW i \in Steps, NEW w \in Workers, NEW o \in Uses(w) \cap Deletes(Teardown[i]),
           <<w, o>> \notin Unprotected
    PROVE \E j \in 1 .. i : w = Teardown[j]
<1>1. i \in {1, 2, 3, 4, 5, 6, 7, 8, 9} BY DEF Steps
<1>2. CASE i = 2
  <2>1. o = "agents" BY <1>2, TeardownOrder DEF Deletes
  <2>2. w \in {"agent", "lateAgent", "message", "notify"}
    BY <2>1 DEF Uses, Workers, TransportWorkers, ObjectWorkers
  <2>3. w = "agent" BY <2>1, <2>2 DEF Unprotected, Objects
  <2> QED BY <2>3, <1>2, TeardownOrder
<1>3. CASE i = 3
  <2>1. o = "listener" BY <1>3, TeardownOrder DEF Deletes
  <2>2. w = "announce" BY <2>1 DEF Uses, Workers, TransportWorkers, ObjectWorkers
  <2> QED BY <2>2, <1>3, TeardownOrder
<1>4. CASE i = 6
  <2>1. o = "object" BY <1>4, TeardownOrder DEF Deletes
  <2>2. w \in {"aj", "agent", "lateAgent", "announce", "message", "notify", "pool"}
    BY <2>1 DEF Uses, Workers, TransportWorkers, ObjectWorkers
  <2>3. w # "lateAgent" BY <2>1 DEF Unprotected, Objects
  <2>4. \E j \in {1, 2, 3, 4, 5, 6} : w = Teardown[j] BY <2>2, <2>3, TeardownOrder
  <2> QED BY <2>4, <1>4
<1>5. CASE i = 9
  <2>1. o \in {"opSession", "subSessions"} BY <1>5, TeardownOrder DEF Deletes
  <2>2. w \in {"aj", "heartbeat", "subscription"}
    BY <2>1 DEF Uses, Workers, TransportWorkers, ObjectWorkers
  <2>4. \E j \in {1, 8, 9} : w = Teardown[j] BY <2>2, TeardownOrder
  <2> QED BY <2>4, <1>5
<1>6. CASE i \in {1, 4, 5, 7, 8}
  <2>1. Deletes(Teardown[i]) = {} BY <1>6, TeardownOrder DEF Deletes
  <2> QED BY <2>1
<1> QED BY <1>1, <1>2, <1>3, <1>4, <1>5, <1>6

\* What main empties or destroys before it joins a worker is used by workers it has
\* joined before that only, the gaps aside.
LEMMA ClearedWhenJoined ==
    ASSUME NEW i \in Steps, NEW w \in Workers, NEW o \in Uses(w) \cap Clears(Teardown[i]),
           <<w, o>> \notin Unprotected
    PROVE \E j \in 1 .. (i - 1) : w = Teardown[j]
<1>1. i \in {1, 2, 3, 4, 5, 6, 7, 8, 9} BY DEF Steps
<1>2. CASE i = 3
  <2>1. o = "proxies" BY <1>2, TeardownOrder DEF Clears
  <2>2. w \in {"announce", "pool"} BY <2>1 DEF Uses, Workers, TransportWorkers, ObjectWorkers
  <2> QED BY <2>1, <2>2 DEF Unprotected
<1>3. CASE i = 4
  <2>1. o = "handlers" BY <1>3, TeardownOrder DEF Clears
  <2>2. w = "message" BY <2>1 DEF Uses, Workers, TransportWorkers, ObjectWorkers
  <2> QED BY <2>1, <2>2 DEF Unprotected
<1>4. CASE i = 6
  <2>1. o = "maps" BY <1>4, TeardownOrder DEF Clears
  <2>2. w \in {"announce", "message", "notify", "pool"}
    BY <2>1 DEF Uses, Workers, TransportWorkers, ObjectWorkers
  <2>3. w # "pool" BY <2>1 DEF Unprotected
  <2>4. \E j \in {3, 4, 5} : w = Teardown[j] BY <2>2, <2>3, TeardownOrder
  <2> QED BY <2>4, <1>4
<1>5. CASE i \in {1, 2, 5, 7, 8, 9}
  <2>1. Clears(Teardown[i]) = {} BY <1>5, TeardownOrder DEF Clears
  <2> QED BY <2>1
<1> QED BY <1>1, <1>2, <1>3, <1>4, <1>5

\* Everybody but the stack and late agents is joined in the end.
LEMMA OthersAreJoined == ASSUME NEW w \in Workers, w \notin {"stack", "lateAgent"}
                         PROVE \E i \in Steps : w = Teardown[i]
<1>1. \E i \in {1, 2, 3, 4, 5, 6, 7, 8, 9} : w = Teardown[i]
  BY TeardownOrder DEF Workers, TransportWorkers, ObjectWorkers
<1> QED BY <1>1 DEF Steps

------------------------------------------------------------------------------
(* The workers.                                                             *)

LEMMA DownIsNotBusy == ASSUME NEW w \in Workers, Down(w) PROVE thread[w] \in {"none", "ended"}
  BY DEF Down, Ended

LEMMA JoinedIsWorkers == TypeOK => Joined \subseteq Workers
  BY NineSteps DEF TypeOK, Joined, Steps

\* After the teardown all workers in it are down.
LEMMA TeardownIsDone ==
    ASSUME IInv, pc \in Late \cup {"unpublish", "unregister"}
    PROVE \A i \in Steps : Down(Teardown[i])
  BY DEF IInv, JoinedAreDown, Joined, Early, Late

\* Workers work and answers come: who is down stays down, and main is where it was.
LEMMA WorkKeeps ==
    ASSUME IInv, TypeOK', UNCHANGED <<pc, step, asked, gone, tries>>,
           \A w \in Workers : Down(w) => Down(w)',
           pc \in Early => \A w \in Workers \ TransportWorkers : thread'[w] = "none",
           Unbound => Unbound' \/ ~Down("registration"),
           wait' = "woken" /\ wait # "woken" /\ pc = "unregister" => Unbound'
    PROVE IInv'
<1>1. NothingYet' BY DEF IInv, NothingYet
<1>2. JoinedAreDown'
  <2>1. Joined' = Joined BY DEF Joined
  <2> QED BY <2>1, JoinedIsWorkers DEF IInv, JoinedAreDown
<1>3. WhoIsAsked' BY DEF IInv, WhoIsAsked
<1>4. UsersAreDown' BY DEF IInv, UsersAreDown
<1>5. LastWord'
  <2> SUFFICES ASSUME pc \in Late \/ (pc = "unregister" /\ wait' = "woken") PROVE Unbound'
    BY DEF LastWord
  <2>1. Down("registration")
    BY TeardownIsDone, TeardownOrder DEF Steps
  <2> QED BY <2>1 DEF IInv, LastWord
<1> QED BY <1>1, <1>2, <1>3, <1>4, <1>5 DEF IInv

LEMMA BeginKeeps == ASSUME IInv, NEW w \in Workers, Begin(w) PROVE IInv'
<1>1. TypeOK' BY DEF IInv, TypeOK, Begin, mainVars, sipVars
<1>2. \A v \in Workers : Down(v) => Down(v)'
  BY DEF IInv, TypeOK, Begin, mainVars, Down, Ended
<1>3. pc \in Early => \A v \in Workers \ TransportWorkers : thread'[v] = "none"
  BY DEF IInv, TypeOK, NothingYet, Begin
<1> QED BY <1>1, <1>2, <1>3, WorkKeeps DEF Begin, mainVars, sipVars, Unbound

LEMMA EndsKeeps == ASSUME IInv, NEW w \in Workers, Ends(w) PROVE IInv'
<1> USE DEF Ends, Finish, End
<1>0. "notify" \in Workers BY DEF Workers, ObjectWorkers
<1>1. TypeOK' BY DEF IInv, TypeOK, mainVars, sipVars
<1>2. \A v \in Workers : Down(v) => Down(v)'
  <2>1. /\ thread[w] \in {"idle", "busy"} /\ asked' = asked
        /\ \A v \in Workers \ {w} : thread'[v] = thread[v]
    BY DEF IInv, TypeOK, mainVars
  <2> QED BY <2>1, <1>0 DEF Down, Ended
<1>3. pc \in Early => \A v \in Workers \ TransportWorkers : thread'[v] = "none"
  BY DEF IInv, TypeOK, NothingYet
<1> QED BY <1>1, <1>2, <1>3, WorkKeeps DEF mainVars, sipVars, Unbound

LEMMA FinishRegisterKeeps == ASSUME IInv, FinishRegister PROVE IInv'
<1> USE DEF FinishRegister
<1>1. TypeOK' BY DEF IInv, TypeOK, mainVars
<1>2. \A v \in Workers : Down(v) => Down(v)'
  BY DEF IInv, TypeOK, mainVars, Down, Ended
<1>3. pc \in Early => \A v \in Workers \ TransportWorkers : thread'[v] = "none"
  BY DEF IInv, TypeOK, NothingYet, TransportWorkers
<1>4. ~Down("registration") BY DEF Down, Ended
<1> QED BY <1>1, <1>2, <1>3, <1>4, WorkKeeps DEF mainVars

LEMMA FinishAnnounceKeeps == ASSUME IInv, FinishAnnounce PROVE IInv'
<1> USE DEF FinishAnnounce
<1>1. TypeOK' BY DEF IInv, TypeOK, mainVars
<1>2. \A v \in Workers : Down(v) => Down(v)'
  BY DEF IInv, TypeOK, mainVars, Down, Ended
<1>3. pc \in Early => \A v \in Workers \ TransportWorkers : thread'[v] = "none"
  BY DEF IInv, TypeOK, NothingYet, Workers, ObjectWorkers, TransportWorkers
<1> QED BY <1>1, <1>2, <1>3, WorkKeeps DEF mainVars, Unbound

\* The agent a late notification makes is a late one.
LEMMA FinishNotifyKeeps == ASSUME IInv, FinishNotify PROVE IInv'
<1>0. "notify" \in Workers \ TransportWorkers /\ {"agent", "lateAgent"} \subseteq Workers
  BY DEF Workers, ObjectWorkers, TransportWorkers
<1>t. thread' \in [Workers -> {"none", "idle", "busy", "ended"}]
  BY <1>0 DEF IInv, TypeOK, FinishNotify
<1>1. TypeOK' BY <1>t DEF IInv, TypeOK, FinishNotify, mainVars, sipVars
<1>2. ASSUME NEW v \in Workers, Down(v) PROVE Down(v)'
  <2>1. thread[v] # "none" => v \in asked BY <1>2, <1>0 DEF Down, Ended, FinishNotify
  <2>2. v \in asked /\ Ended(v) BY <1>2 DEF Down, FinishNotify
  <2>3. v # "notify" /\ v # "lateAgent" BY <2>2 DEF IInv, WhoIsAsked, Ended, FinishNotify
  <2>4. thread'[v] = thread[v] BY <2>2, <2>3, <1>0 DEF IInv, TypeOK, FinishNotify
  <2> QED BY <2>2, <2>4 DEF Down, Ended, FinishNotify, mainVars
<1>3. pc \notin Early
  BY <1>0 DEF IInv, NothingYet, FinishNotify
<1> QED BY <1>1, <1>2, <1>3, WorkKeeps DEF FinishNotify, mainVars, sipVars, Unbound

------------------------------------------------------------------------------
(* Start-up.                                                                *)

\* Nothing is deleted yet, and a teardown that starts late has no workers before it.
LEMMA StartKeeps ==
    ASSUME IInv, TypeOK', pc \in Early \cup {"run"}, pc' \in Early \cup {"run", "teardown"},
           UNCHANGED <<asked, gone>>,
           step' = step \/ (pc \in Early /\ pc' = "teardown" /\ step' = 7 /\ thread' = thread),
           pc' \in Early => \A w \in Workers \ TransportWorkers : thread'[w] = "none"
    PROVE IInv'
<1>0. asked' = {} /\ gone' = {} /\ step = 1 BY DEF IInv, NothingYet
<1>1. NothingYet' BY <1>0 DEF NothingYet, Early
<1>2. JoinedAreDown'
  <2>1. CASE step' = step
    <3>1. Joined' = {} BY <2>1, <1>0 DEF Joined, Early
    <3> QED BY <3>1 DEF JoinedAreDown
  <2>2. CASE pc \in Early /\ pc' = "teardown" /\ step' = 7 /\ thread' = thread
    <3>1. \A i \in 1 .. 6 : Teardown[i] \in Workers \ TransportWorkers
      <4>1. \A i \in 1 .. 6 : i \in {1, 2, 3, 4, 5, 6} OBVIOUS
      <4> QED BY <4>1, TeardownOrder DEF Workers, ObjectWorkers, TransportWorkers
    <3>2. "notify" \in Workers \ TransportWorkers
      BY DEF Workers, ObjectWorkers, TransportWorkers
    <3>3. Joined' = {Teardown[i] : i \in 1 .. 6} BY <2>2 DEF Joined, Early
    <3> QED BY <3>1, <3>2, <3>3, <2>2 DEF IInv, NothingYet, JoinedAreDown, Down
  <2> QED BY <2>1, <2>2
<1>3. WhoIsAsked' BY <1>0 DEF WhoIsAsked, Early
<1>4. UsersAreDown' BY <1>0 DEF UsersAreDown
<1>5. LastWord' BY DEF LastWord, Early, Late
<1> QED BY <1>1, <1>2, <1>3, <1>4, <1>5 DEF IInv

LEMMA InitializeKeeps == ASSUME IInv, Initialize PROVE IInv'
<1> USE DEF Initialize, Start
<1>1. TypeOK' BY DEF IInv, TypeOK, sipVars
<1>2. \A w \in Workers \ TransportWorkers : thread'[w] = "none"
  BY DEF IInv, NothingYet, Early
<1> QED BY <1>1, <1>2, StartKeeps DEF Early

LEMMA RegisteredKeeps == ASSUME IInv, Registered PROVE IInv'
<1>1. TypeOK' BY DEF IInv, TypeOK, Registered, sipVars
<1> QED BY <1>1, StartKeeps DEF Registered, Early, IInv, NothingYet

LEMMA InitObjectKeeps == ASSUME IInv, InitObject PROVE IInv'
<1>1. TypeOK' BY DEF IInv, TypeOK, InitObject, Start, sipVars
<1> QED BY <1>1, StartKeeps DEF InitObject, Early

LEMMA PrepareFailsKeeps == ASSUME IInv, PrepareFails PROVE IInv'
<1>0. step = 1 BY DEF IInv, NothingYet, PrepareFails, Early
<1>1. TypeOK' BY NineSteps DEF IInv, TypeOK, PrepareFails, TransportStep, sipVars
<1> QED BY <1>0, <1>1, StartKeeps DEF PrepareFails, Early, TransportStep

LEMMA InitFailsKeeps == ASSUME IInv, InitFails PROVE IInv'
<1>1. TypeOK' BY DEF IInv, TypeOK, InitFails, Start, sipVars
<1> QED BY <1>1, StartKeeps DEF InitFails, Early

LEMMA LeaveLoopKeeps == ASSUME IInv, LeaveLoop PROVE IInv'
<1>1. TypeOK' BY DEF IInv, TypeOK, LeaveLoop, sipVars
<1> QED BY <1>1, StartKeeps DEF LeaveLoop, Early

LEMMA AnnounceFailsKeeps == ASSUME IInv, AnnounceFails PROVE IInv'
<1>1. TypeOK' BY DEF IInv, TypeOK, AnnounceFails, sipVars
<1> QED BY <1>1, StartKeeps DEF AnnounceFails, Early

------------------------------------------------------------------------------
(* The interrupt, answers and spurious wakeups.                             *)

LEMMA EnvironmentKeeps == ASSUME IInv, Environment PROVE IInv'
<1> USE DEF mainVars, sipVars, Unbound, Taken, Notify
<1>1. ASSUME UNCHANGED <<thread, asked>>
      PROVE /\ \A v \in Workers : Down(v) => Down(v)'
            /\ pc \in Early => \A v \in Workers \ TransportWorkers : thread'[v] = "none"
  BY <1>1 DEF IInv, NothingYet, Down, Ended
<1>2. CASE Interrupt
  <2>1. TypeOK' BY <1>2 DEF IInv, TypeOK, Interrupt
  <2> QED BY <2>1, <1>1, <1>2, WorkKeeps DEF Interrupt
<1>3. CASE SpuriousWakeup
  <2>1. TypeOK' BY <1>3, GatewayAssumption DEF IInv, TypeOK, SpuriousWakeup
  <2>2. spurious' > 0 BY <1>3 DEF IInv, TypeOK, SpuriousWakeup
  <2> QED BY <2>1, <2>2, <1>1, <1>3, WorkKeeps DEF SpuriousWakeup
<1>4. CASE RegisterAccepted
  <2>1. TypeOK' BY <1>4 DEF IInv, TypeOK, RegisterAccepted
  <2>2. Unbound => Unbound' BY <1>4 DEF RegisterAccepted
  <2> QED BY <2>1, <2>2, <1>1, <1>4, WorkKeeps DEF RegisterAccepted
<1>5. ASSUME NEW s \in Services, UnpublishAccepted(s) PROVE IInv'
  <2>1. TypeOK' BY <1>5 DEF IInv, TypeOK, UnpublishAccepted
  <2>2. Unbound => Unbound' BY <1>5 DEF UnpublishAccepted
  <2>3. pc = "unpublish" \/ wait' = wait BY <1>5 DEF UnpublishAccepted
  <2> QED BY <2>1, <2>2, <2>3, <1>1, <1>5, WorkKeeps DEF UnpublishAccepted
<1>6. CASE UnregisterAccepted
  <2>1. TypeOK' BY <1>6 DEF IInv, TypeOK, UnregisterAccepted
  <2>2. Unbound' BY <1>6 DEF UnregisterAccepted
  <2> QED BY <2>1, <2>2, <1>1, <1>6, WorkKeeps DEF UnregisterAccepted
<1>7. CASE RegisterRefused
  <2>1. TypeOK' BY <1>7 DEF IInv, TypeOK, RegisterRefused
  <2>2. Unbound => Unbound' BY <1>7 DEF RegisterRefused
  <2> QED BY <2>1, <2>2, <1>1, <1>7, WorkKeeps DEF RegisterRefused
<1>9. CASE UnregisterRefused
  <2>1. TypeOK' BY <1>9 DEF IInv, TypeOK, UnregisterRefused
  <2>2. Unbound => Unbound' BY <1>9 DEF UnregisterRefused
  <2> QED BY <2>1, <2>2, <1>1, <1>9, WorkKeeps DEF UnregisterRefused
<1>10. ASSUME NEW s \in Services, UnpublishRefused(s) PROVE IInv'
  <2>1. TypeOK' BY <1>10 DEF IInv, TypeOK, UnpublishRefused
  <2>2. Unbound => Unbound' BY <1>10 DEF UnpublishRefused
  <2> QED BY <2>1, <2>2, <1>1, <1>10, WorkKeeps DEF UnpublishRefused
<1>8. CASE AnnounceFails BY <1>8, AnnounceFailsKeeps
<1> QED BY <1>2, <1>3, <1>4, <1>5, <1>6, <1>7, <1>8, <1>9, <1>10 DEF Environment

------------------------------------------------------------------------------
(* The teardown.                                                            *)

\* main goes on after the start-up; who is down stays down.
LEMMA TeardownKeeps ==
    ASSUME IInv, TypeOK', pc \notin Early \cup {"run"}, pc' \notin Early \cup {"run"},
           thread' = thread, asked \subseteq asked', WhoIsAsked', LastWord',
           \A w \in Joined' \ Joined : Down(w),
           \A w \in Workers : \A o \in Uses(w) \cap (gone' \ gone) :
               <<w, o>> \in Unprotected \/ Down(w)'
    PROVE IInv'
<1>1. \A w : Down(w) => Down(w)' BY DEF Down, Ended
<1>2. JoinedAreDown' BY <1>1 DEF IInv, JoinedAreDown
<1>3. UsersAreDown' BY <1>1 DEF IInv, UsersAreDown
<1>4. NothingYet' BY DEF NothingYet
<1> QED BY <1>2, <1>3, <1>4 DEF IInv

LEMMA AskKeeps == ASSUME IInv, Ask PROVE IInv'
<1>0. /\ pc = "teardown" /\ gone' = gone \cup Clears(Teardown[step])
      /\ UNCHANGED <<pc, step, wait, tries, bound, sip, overtaken, spurious, thread>>
  BY DEF Ask, sipVars
<1>1. step \in Steps /\ Teardown[step] \in Workers
  BY NineSteps DEF IInv, TypeOK, Steps
<1>2. TypeOK'
  <2>1. Clears(Teardown[step]) \subseteq Objects BY <1>1 DEF Clears, Objects
  <2> QED BY <2>1, <1>0, <1>1 DEF IInv, TypeOK, Ask, sipVars
<1>3. WhoIsAsked'
  <2>1. Teardown[step] # "lateAgent"
    <3>1. step \in {1, 2, 3, 4, 5, 6, 7, 8, 9} BY <1>1 DEF Steps
    <3> QED BY <3>1, TeardownOrder
  <2> QED BY <2>1, <1>0 DEF IInv, WhoIsAsked, Ask
<1>4. LastWord' BY <1>0 DEF LastWord, Late
<1>5. Joined' = Joined BY <1>0 DEF Joined
<1>6. ASSUME NEW w \in Workers, NEW o \in Uses(w) \cap (gone' \ gone), <<w, o>> \notin Unprotected
      PROVE Down(w)'
  <2>1. \E j \in 1 .. (step - 1) : w = Teardown[j] BY <1>6, <1>0, <1>1, ClearedWhenJoined
  <2>2. w \in Joined BY <2>1, <1>0 DEF Joined, Early
  <2>3. Down(w) BY <2>2 DEF IInv, JoinedAreDown
  <2> QED BY <2>3, <1>0 DEF Down, Ended, Ask
<1> QED BY <1>0, <1>2, <1>3, <1>4, <1>5, <1>6, TeardownKeeps DEF Ask, Early

\* main has joined a worker: it is down, and so is everybody before it.
LEMMA JoinKeeps == ASSUME IInv, Join PROVE IInv'
<1>0. /\ pc = "teardown" /\ pc' \in {"teardown", "unpublish"}
      /\ UNCHANGED <<asked, wait, tries, bound, sip, overtaken, spurious, thread>>
      /\ gone' = gone \cup Deletes(Teardown[step])
  BY DEF Join, sipVars
<1>1. step \in Steps /\ Teardown[step] \in Workers
  BY NineSteps DEF IInv, TypeOK, Steps
<1>2. \A i \in 1 .. step : Down(Teardown[i])
  <2>1. Down(Teardown[step]) BY DEF Join, Down
  <2>2. \A i \in 1 .. (step - 1) : Down(Teardown[i])
    BY <1>0 DEF IInv, JoinedAreDown, Joined, Early
  <2> QED BY <2>1, <2>2, <1>1 DEF Steps
<1>3. TypeOK'
  <2>1. Deletes(Teardown[step]) \subseteq Objects BY <1>1 DEF Deletes, Objects
  <2>2. step' \in Steps BY <1>1, NineSteps DEF Join, Steps
  <2>3. wait = "no" BY <1>0 DEF IInv, TypeOK
  <2> QED BY <2>1, <2>2, <2>3, <1>0, NineSteps DEF IInv, TypeOK, Join, sipVars, Steps
<1>4. WhoIsAsked' BY <1>0 DEF IInv, WhoIsAsked
<1>5. LastWord' BY <1>0 DEF LastWord, Late
<1>6. \A w \in Joined' : Down(w)
  <2>1. CASE pc' = "teardown"
    <3>1. step' = step + 1 BY <2>1 DEF Join
    <3>2. Joined' = {Teardown[i] : i \in 1 .. step} BY <2>1, <3>1, <1>1 DEF Joined, Early, Steps
    <3> QED BY <3>2, <1>2
  <2>2. CASE pc' = "unpublish"
    <3>1. step = 9 BY <2>2, <1>0, NineSteps DEF Join
    <3>2. Joined' = {Teardown[i] : i \in 1 .. 9} BY <2>2 DEF Joined, Early, Steps
    <3> QED BY <3>1, <3>2, <1>2
  <2> QED BY <2>1, <2>2, <1>0
<1>7. ASSUME NEW w \in Workers, NEW o \in Uses(w) \cap (gone' \ gone), <<w, o>> \notin Unprotected
      PROVE Down(w)'
  <2>1. \E j \in 1 .. step : w = Teardown[j] BY <1>7, <1>0, <1>1, DeletedWhenJoined
  <2> QED BY <2>1, <1>2, <1>0 DEF Down, Ended
<1> QED BY <1>0, <1>3, <1>4, <1>5, <1>6, <1>7, TeardownKeeps DEF Early

\* What is deleted after the teardown is used by workers that are down, or the stack.
LEMMA RestKeeps ==
    ASSUME IInv, TypeOK', pc \in Late \cup {"unpublish", "unregister"},
           pc' \in Late \cup {"unpublish", "unregister"},
           UNCHANGED <<step, thread>>, asked' \in {asked, asked \cup {"stack"}},
           WhoIsAsked', LastWord',
           \A o \in gone' \ gone : o \in Uses("stack") => o = "nua" \/ Down("stack")'
    PROVE IInv'
<1>1. Joined' = Joined BY DEF Joined, Early, Late
<1>2. \A w \in Workers : Down(w) => Down(w)' BY DEF Down, Ended
<1>3. ASSUME NEW w \in Workers, NEW o \in Uses(w) \cap (gone' \ gone), <<w, o>> \notin Unprotected
      PROVE Down(w)'
  <2>1. CASE w = "stack" BY <2>1, <1>3 DEF Unprotected
  <2>2. CASE w = "lateAgent"
    <3>1. o \in Objects BY <1>3 DEF TypeOK
    <3> QED BY <3>1, <2>2, <1>3 DEF Unprotected
  <2>3. CASE w \notin {"stack", "lateAgent"}
    BY <2>3, <1>2, OthersAreJoined, TeardownIsDone
  <2> QED BY <2>1, <2>2, <2>3
<1> QED BY <1>1, <1>3, TeardownKeeps DEF Early, Late

------------------------------------------------------------------------------
(* The requests of ~IMSTransport and its end.                               *)

LEMMA RequestsKeep ==
    ASSUME IInv, \/ \E s \in Services : SendUnpublish(s)
                 \/ UnpublishDone \/ SendUnregister \/ EnterWait \/ WaitTimesOut
    PROVE IInv'
<1> USE DEF SendUnpublish, UnpublishDone, SendUnregister, EnterWait, WaitTimesOut, sipVars
<1>0. /\ pc \in {"unpublish", "unregister"} /\ pc' \in {"unpublish", "unregister"}
      /\ UNCHANGED <<step, thread, asked>> /\ wait' # "woken"
      /\ gone' \in {gone, gone \cup {"regSession"}}
  BY DEF IInv, TypeOK
<1> HIDE DEF SendUnpublish, UnpublishDone, SendUnregister, EnterWait, WaitTimesOut
<1>1. TypeOK'
  <2>1. CASE \E s \in Services : SendUnpublish(s)
    BY <2>1 DEF IInv, TypeOK, SendUnpublish
  <2>2. CASE UnpublishDone BY <2>2 DEF IInv, TypeOK, UnpublishDone, Objects
  <2>3. CASE SendUnregister
    <3>1. tries' \in 0 .. UnregisterTries
      BY <2>3, GatewayAssumption DEF IInv, TypeOK, SendUnregister
    <3> QED BY <2>3, <3>1 DEF IInv, TypeOK, SendUnregister
  <2>4. CASE EnterWait \/ WaitTimesOut BY <2>4 DEF IInv, TypeOK, EnterWait, WaitTimesOut
  <2> QED BY <2>1, <2>2, <2>3, <2>4
<1>2. WhoIsAsked' BY <1>0 DEF IInv, WhoIsAsked
<1>3. LastWord' BY <1>0 DEF LastWord, Late
<1>4. "regSession" \notin Uses("stack") BY DEF Uses
<1> QED BY <1>0, <1>1, <1>2, <1>3, <1>4, RestKeeps

\* The loops over publications and tries are left.
LEMMA LoopsKeep == ASSUME IInv, WaitReturns \/ TriesUsedUp PROVE IInv'
<1> USE DEF WaitReturns, TriesUsedUp, sipVars
<1>0. /\ pc \in {"unpublish", "unregister"} /\ pc' \in {"unregister", "stop"}
      /\ UNCHANGED <<step, thread, asked, tries, bound, sip, overtaken, spurious>> /\ wait' = "no"
      /\ gone' \in {gone, gone \cup {"regSession"}}
  BY DEF IInv, TypeOK
<1>1. TypeOK' BY DEF IInv, TypeOK, Objects
<1>2. WhoIsAsked' BY <1>0 DEF IInv, WhoIsAsked
<1>3. pc' = "stop" => Unbound BY <1>0 DEF IInv, LastWord, Unbound, TypeOK
<1>4. LastWord' BY <1>0, <1>3 DEF LastWord, Late, Unbound
<1>5. "regSession" \notin Uses("stack") BY DEF Uses
<1> HIDE DEF WaitReturns, TriesUsedUp
<1> QED BY <1>0, <1>1, <1>2, <1>4, <1>5, RestKeeps DEF Late

LEMMA EndKeeps == ASSUME IInv, StopStack \/ DeInitialize \/ JoinStack PROVE IInv'
<1> USE DEF StopStack, DeInitialize, JoinStack, sipVars
<1>0. /\ pc \in {"stop", "deinitialize", "join"} /\ pc' \in {"deinitialize", "join", "ended"}
      /\ UNCHANGED <<step, thread, tries, bound, sip, overtaken, spurious, wait>>
      /\ asked' \in {asked, asked \cup {"stack"}} /\ "stack" \in asked'
  BY DEF IInv, WhoIsAsked
<1>1. TypeOK' BY DEF IInv, TypeOK, Objects, Workers, TransportWorkers
<1>2. WhoIsAsked' BY <1>0 DEF IInv, WhoIsAsked
<1>3. LastWord' BY <1>0 DEF IInv, LastWord, Late, Unbound
<1>4. \A o \in gone' \ gone : o = "nua" \/ Down("stack")' BY <1>0 DEF Down, Ended
<1> HIDE DEF StopStack, DeInitialize, JoinStack
<1> QED BY <1>0, <1>1, <1>2, <1>3, <1>4, RestKeeps DEF Late

------------------------------------------------------------------------------
LEMMA InitInvariant == Init => IInv
<1> SUFFICES ASSUME Init PROVE IInv OBVIOUS
<1> USE DEF Init
<1>1. TypeOK
  <2>1. step \in 1 .. Len(Teardown) BY NineSteps
  <2>2. tries \in 0 .. UnregisterTries /\ spurious \in 0 .. MaxSpurious BY GatewayAssumption
  <2>3. thread \in [Workers -> {"none", "idle", "busy", "ended"}] OBVIOUS
  <2> QED BY <2>1, <2>2, <2>3 DEF TypeOK
<1>2. NothingYet BY DEF NothingYet
<1>3. JoinedAreDown BY DEF JoinedAreDown, Joined, Early
<1>4. WhoIsAsked /\ UsersAreDown BY DEF WhoIsAsked, UsersAreDown
<1>5. LastWord BY DEF LastWord, Late
<1> QED BY <1>1, <1>2, <1>3, <1>4, <1>5 DEF IInv

LEMMA StepInvariant == IInv /\ [Next]_vars => IInv'
<1> SUFFICES ASSUME IInv, [Next]_vars PROVE IInv' OBVIOUS
<1>1. CASE Main
  BY <1>1, InitializeKeeps, RegisteredKeeps, InitObjectKeeps, PrepareFailsKeeps, InitFailsKeeps,
     LeaveLoopKeeps, AskKeeps, JoinKeeps, RequestsKeep, LoopsKeep, EndKeeps DEF Main
<1>2. CASE Environment BY <1>2, EnvironmentKeeps
<1>3. ASSUME NEW w \in Workers, Begin(w) \/ Ends(w) PROVE IInv'
  BY <1>3, BeginKeeps, EndsKeeps
<1>4. CASE FinishOthers
  BY <1>4, FinishRegisterKeeps, FinishAnnounceKeeps, FinishNotifyKeeps DEF FinishOthers
<1>5. CASE UNCHANGED vars
  <2>1. UNCHANGED <<pc, step, asked, gone, wait, tries, registered, bound, published, sip,
                    overtaken, thread, entries, interrupted, spurious>>
    BY <1>5 DEF vars, mainVars, sipVars
  <2> QED BY <2>1 DEF IInv, TypeOK, NothingYet, JoinedAreDown, Joined, WhoIsAsked, UsersAreDown,
             LastWord, Unbound, Down, Ended
<1> QED BY <1>1, <1>2, <1>3, <1>4, <1>5 DEF Next

LEMMA Invariance == Spec => []IInv
  BY InitInvariant, StepInvariant, PTL DEF Spec

\* main, the workers and the requests under way keep their types; answers are waited
\* for in the two loops of ~IMSTransport only.
THEOREM TypeCorrect == Spec => []TypeOK
<1>1. IInv => TypeOK BY DEF IInv
<1> QED BY <1>1, Invariance, PTL

\* Whatever the workers are at when main takes them down, none uses what was deleted,
\* but for the gaps named in Unprotected.
THEOREM NothingGoneIsEverUsed == Spec => []NothingGoneIsUsed
<1>1. IInv => NothingGoneIsUsed BY DEF IInv, UsersAreDown, NothingGoneIsUsed, Down, Ended
<1> QED BY <1>1, Invariance, PTL

\* A gateway that has ended is unregistered, or there is a reason, for any number of
\* tries and of spurious wakeups.
THEOREM EndedIsUnregistered == Spec => []EndsUnregistered
<1>1. IInv => EndsUnregistered BY DEF IInv, LastWord, Late, Unbound, EndsUnregistered
<1> QED BY <1>1, Invariance, PTL

==============================================================================
