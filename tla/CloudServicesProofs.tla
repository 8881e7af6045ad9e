-------------------------- MODULE CloudServicesProofs --------------------------
(***************************************************************************)
(* Proofs for any accounts, services, descriptions, clients and sessions.  *)
(*                                                                         *)
(* Every open session has its signal handler and no handler stays without  *)
(* a cause: what is under way and what the gateways keep is about a        *)
(* session that has begun (NewsOfSession, HandlersOfSession), a handler is *)
(* kept once if its news comes once (HandlersOnce), and of a session that  *)
(* has ended the news is under way, or it was overtaken, or the session    *)
(* began twice, or nothing is left (EndLeavesNothing).                     *)
(*                                                                         *)
(* Agents are those last announced: what the server last said of a service *)
(* is queued with nothing said after it, or in hand, or done               *)
(* (LastWordKept).  And an agent offers what its description names, by     *)
(* induction over the elements of the description (ParseXmlOffers).        *)
(***************************************************************************)
EXTENDS CloudServices, WellFoundedInduction, TLAPS

Stages == {"new", "open", "closed", "orphaned"}
HandlerOf(x) == Handler(x, session[x].joiner)

SessionsTyped ==
    /\ session \in [Sessions -> [stage : Stages, key : Keys \cup {<<>>}, joiner : Joiners \cup {""}]]
    /\ \A x \in Sessions : session[x].stage # "new" => session[x].key \in Keys
    /\ DOMAIN signalHandlersInfo = Keys
    /\ \A k \in Keys : \A h \in DOMAIN signalHandlersInfo[k] : signalHandlersInfo[k][h] \in Nat \ {0}
    /\ delivered \subseteq [op : {"0", "1"}, key : Keys,
                            handler : [session : Sessions, joiner : Joiners \cup {""}]]

\* An update is about a session that has begun, and one of its end comes later.
NewsOfSession == \A u \in updates : \E x \in Sessions :
    /\ session[x].stage # "new"
    /\ u.handler = HandlerOf(x)
    /\ u.key = session[x].key
    /\ u.op = "1" \/ (u.op = "0" /\ session[x].stage = "closed")
    /\ u = [op |-> u.op, handler |-> u.handler, key |-> u.key]

HandlersOfSession == \A k \in Keys : \A h \in DOMAIN signalHandlersInfo[k] : \E x \in Sessions :
    /\ session[x].stage # "new"
    /\ h = HandlerOf(x)
    /\ k = session[x].key

BeginUnderWay(x) == \E u \in updates : u.op = "1" /\ u.handler = HandlerOf(x)
BeginTwice(x) == \E u \in delivered : u.op = "1" /\ u.handler = HandlerOf(x)
EndUnderWay(x) == \E u \in updates : u.op = "0" /\ u.handler = HandlerOf(x)

\* A handler is there once, and comes once, unless its message is delivered twice.
HandlersOnce == \A k \in Keys, x \in Sessions :
    HandlerOf(x) \in DOMAIN signalHandlersInfo[k] /\ ~BeginTwice(x) =>
        signalHandlersInfo[k][HandlerOf(x)] = 1 /\ ~BeginUnderWay(x)

NothingLeft(x) ==
    /\ \A u \in updates : u.handler # HandlerOf(x)
    /\ \A k \in Keys : HandlerOf(x) \notin DOMAIN signalHandlersInfo[k]

EndLeavesNothing == \A x \in Sessions : session[x].stage = "closed" =>
    EndUnderWay(x) \/ x \in overtaken \/ BeginTwice(x) \/ NothingLeft(x)

Held(x) == /\ session[x].key \in Keys
           /\ HandlerOf(x) \in DOMAIN signalHandlersInfo[session[x].key]
OpenIsHeld == \A x \in Sessions : session[x].stage = "open" => Held(x) \/ BeginUnderWay(x)

IInv == /\ SessionsTyped /\ NewsOfSession /\ HandlersOfSession /\ HandlersOnce
        /\ EndLeavesNothing /\ OpenIsHeld

\* A bag of handlers with one more, and with one less.
LEMMA HandlerAdded ==
    ASSUME NEW B, NEW h, \A i \in DOMAIN B : B[i] \in Nat \ {0}
    PROVE  /\ DOMAIN AddHandler(B, h) = DOMAIN B \cup {h}
           /\ \A i \in DOMAIN B : i # h => AddHandler(B, h)[i] = B[i]
           /\ AddHandler(B, h)[h] = IF h \in DOMAIN B THEN B[h] + 1 ELSE 1
<1>1. AddHandler(B, h) = [i \in DOMAIN B \cup {h} |->
          (IF i \in DOMAIN B THEN B[i] ELSE 0) + (IF i \in {h} THEN 1 ELSE 0)]
  BY DEF AddHandler, (+), SetToBag
<1> QED BY <1>1

LEMMA HandlerDeleted ==
    ASSUME NEW B, NEW h, \A i \in DOMAIN B : B[i] \in Nat \ {0}
    PROVE  /\ DOMAIN DeleteHandler(B, h) = {i \in DOMAIN B : i # h \/ B[h] # 1}
           /\ \A i \in DOMAIN B : i # h => DeleteHandler(B, h)[i] = B[i]
           /\ h \in DOMAIN DeleteHandler(B, h) => DeleteHandler(B, h)[h] = B[h] - 1
<1> DEFINE C == [i \in DOMAIN B |-> IF i \in {h} THEN B[i] - 1 ELSE B[i]]
<1>1. DeleteHandler(B, h) = [i \in {j \in DOMAIN C : C[j] > 0} |-> C[i]]
  BY DEF DeleteHandler, (-), SetToBag
<1>2. \A i \in DOMAIN B : C[i] > 0 <=> i # h \/ B[h] # 1 OBVIOUS
<1> QED BY <1>1, <1>2

\* Handlers of different sessions differ.
LEMMA HandlersDiffer == ASSUME NEW x, NEW y, NEW i, NEW j, Handler(x, i) = Handler(y, j)
                        PROVE x = y /\ i = j
<1>1. Handler(x, i).session = x /\ Handler(x, i).joiner = i BY DEF Handler
<1>2. Handler(y, j).session = y /\ Handler(y, j).joiner = j BY DEF Handler
<1> QED BY <1>1, <1>2

LEMMA InitInvariant == Init => IInv
<1> SUFFICES ASSUME Init PROVE IInv OBVIOUS
<1>0. /\ session = [x \in Sessions |-> [stage |-> "new", key |-> <<>>, joiner |-> ""]]
      /\ updates = {} /\ delivered = {}
      /\ signalHandlersInfo = [k \in Keys |-> EmptyBag]
  BY DEF Init
<1>e. \A k \in Keys : DOMAIN signalHandlersInfo[k] = {} BY <1>0 DEF EmptyBag, SetToBag
<1>1. SessionsTyped BY <1>0, <1>e DEF SessionsTyped, Stages
<1>2. \A x \in Sessions : session[x].stage = "new" BY <1>0
<1>3. NewsOfSession BY <1>0 DEF NewsOfSession
<1>4. HandlersOfSession /\ HandlersOnce BY <1>e DEF HandlersOfSession, HandlersOnce
<1>5. EndLeavesNothing /\ OpenIsHeld BY <1>2 DEF EndLeavesNothing, OpenIsHeld
<1> QED BY <1>1, <1>3, <1>4, <1>5 DEF IInv

\* Steps that send and deliver nothing and end no session.
LEMMA QuietKeeps == ASSUME IInv, UNCHANGED <<session, updateVars>> PROVE IInv'
<1>0. UNCHANGED <<session, updates, delivered, overtaken, signalHandlersInfo>> BY DEF updateVars
<1>1. \A x : HandlerOf(x)' = HandlerOf(x) BY <1>0 DEF HandlerOf
<1>2. SessionsTyped' BY <1>0 DEF IInv, SessionsTyped
<1>3. NewsOfSession' BY <1>0, <1>1 DEF IInv, NewsOfSession
<1>4. HandlersOfSession' BY <1>0, <1>1 DEF IInv, HandlersOfSession
<1>5. \A x : /\ BeginUnderWay(x)' = BeginUnderWay(x) /\ BeginTwice(x)' = BeginTwice(x)
             /\ EndUnderWay(x)' = EndUnderWay(x) /\ NothingLeft(x)' = NothingLeft(x)
             /\ Held(x)' = Held(x)
  BY <1>0, <1>1 DEF BeginUnderWay, BeginTwice, EndUnderWay, NothingLeft, Held
<1>6. HandlersOnce' BY <1>0, <1>1, <1>5 DEF IInv, HandlersOnce
<1>7. EndLeavesNothing' BY <1>0, <1>5 DEF IInv, EndLeavesNothing
<1>8. OpenIsHeld' BY <1>0, <1>5 DEF IInv, OpenIsHeld
<1> QED BY <1>2, <1>3, <1>4, <1>6, <1>7, <1>8 DEF IInv

\* The sessions of an agent go with it, of which the gateways are not told.
LEMMA OrphanKeeps == ASSUME IInv, NEW keys, Orphan(keys), UNCHANGED updateVars PROVE IInv'
<1>1. /\ SessionsTyped'
      /\ \A x \in Sessions :
          /\ session'[x].key = session[x].key /\ session'[x].joiner = session[x].joiner
          /\ \/ session'[x].stage = session[x].stage
             \/ session[x].stage = "open" /\ session'[x].stage = "orphaned"
  <2>1. /\ session' = [x \in Sessions |->
                IF session[x].stage = "open" /\ session[x].key \in keys
                THEN [session[x] EXCEPT !.stage = "orphaned"] ELSE session[x]]
        /\ UNCHANGED <<delivered, signalHandlersInfo>>
    BY DEF Orphan, updateVars
  <2>2. ASSUME NEW x \in Sessions
        PROVE  /\ session'[x] \in [stage : Stages, key : Keys \cup {<<>>}, joiner : Joiners \cup {""}]
               /\ session'[x].key = session[x].key /\ session'[x].joiner = session[x].joiner
               /\ \/ session'[x].stage = session[x].stage
                  \/ session[x].stage = "open" /\ session'[x].stage = "orphaned"
    BY <2>1 DEF IInv, SessionsTyped, Stages
  <2>3. /\ session' \in [Sessions -> [stage : Stages, key : Keys \cup {<<>>}, joiner : Joiners \cup {""}]]
        /\ \A x \in Sessions : session'[x].stage # "new" => session'[x].key \in Keys
    BY <2>1, <2>2 DEF IInv, SessionsTyped
  <2> QED BY <2>1, <2>2, <2>3 DEF IInv, SessionsTyped
<1>2. UNCHANGED <<updates, delivered, overtaken, signalHandlersInfo>> BY DEF updateVars
<1>3. \A x \in Sessions : HandlerOf(x)' = HandlerOf(x) BY <1>1 DEF HandlerOf, Handler
<1>4. NewsOfSession' BY <1>1, <1>2, <1>3 DEF IInv, NewsOfSession
<1>5. HandlersOfSession' BY <1>1, <1>2, <1>3 DEF IInv, HandlersOfSession
<1>6. \A x \in Sessions :
          /\ BeginUnderWay(x)' = BeginUnderWay(x) /\ BeginTwice(x)' = BeginTwice(x)
          /\ EndUnderWay(x)' = EndUnderWay(x) /\ NothingLeft(x)' = NothingLeft(x)
          /\ Held(x)' = Held(x)
  BY <1>1, <1>2, <1>3 DEF BeginUnderWay, BeginTwice, EndUnderWay, NothingLeft, Held
<1>7. HandlersOnce' BY <1>2, <1>3, <1>6 DEF IInv, HandlersOnce
<1>8. EndLeavesNothing' BY <1>1, <1>2, <1>6 DEF IInv, EndLeavesNothing
<1>9. OpenIsHeld' BY <1>1, <1>6 DEF IInv, OpenIsHeld
<1> QED BY <1>1, <1>4, <1>5, <1>7, <1>8, <1>9 DEF IInv

\* A session begins or ends: its news goes out, the others stay as they are.
LEMMA NewsKeeps ==
    ASSUME IInv, NEW x \in Sessions, NEW op \in {"0", "1"},
           SessionsTyped', UNCHANGED <<delivered, overtaken, signalHandlersInfo>>,
           \A y \in Sessions \ {x} : session'[y] = session[y],
           updates' = updates \cup {[op |-> op, handler |-> HandlerOf(x)', key |-> session'[x].key]},
           \/ op = "1" /\ session[x].stage = "new" /\ session'[x].stage = "open"
           \/ op = "0" /\ session[x].stage # "new" /\ session'[x].stage = "closed"
              /\ session'[x].joiner = session[x].joiner /\ session'[x].key = session[x].key
    PROVE IInv'
<1> DEFINE news == [op |-> op, handler |-> HandlerOf(x)', key |-> session'[x].key]
<1>1. \A y \in Sessions \ {x} : HandlerOf(y)' = HandlerOf(y) BY DEF HandlerOf, Handler
<1>2. session[x].stage # "new" => HandlerOf(x)' = HandlerOf(x) BY DEF HandlerOf, Handler
<1>3. \A y \in Sessions : y # x => HandlerOf(y)' # HandlerOf(x)'
  BY HandlersDiffer DEF HandlerOf
<1>n. /\ news \in updates' /\ news.op = op /\ news.handler = HandlerOf(x)'
      /\ \A u \in updates' : u \in updates \/ u = news
  OBVIOUS
<1>4. NewsOfSession' BY <1>1, <1>2 DEF IInv, NewsOfSession
<1>5. HandlersOfSession' BY <1>1, <1>2 DEF IInv, HandlersOfSession
<1> HIDE DEF news
<1>6. ASSUME NEW y \in Sessions \ {x}
      PROVE  /\ BeginUnderWay(y)' = BeginUnderWay(y) /\ BeginTwice(y)' = BeginTwice(y)
             /\ EndUnderWay(y) => EndUnderWay(y)'
             /\ NothingLeft(y) => NothingLeft(y)'
             /\ Held(y)' = Held(y)
  <2>1. HandlerOf(y)' = HandlerOf(y) /\ HandlerOf(y)' # HandlerOf(x)' BY <1>1, <1>3
  <2>2. BeginUnderWay(y)' = BeginUnderWay(y) BY <2>1, <1>n DEF BeginUnderWay
  <2>3. BeginTwice(y)' = BeginTwice(y) BY <2>1 DEF BeginTwice
  <2>4. EndUnderWay(y) => EndUnderWay(y)' BY <2>1 DEF EndUnderWay
  <2>5. NothingLeft(y) => NothingLeft(y)' BY <2>1, <1>n DEF NothingLeft
  <2>6. Held(y)' = Held(y) BY <2>1 DEF Held
  <2> QED BY <2>2, <2>3, <2>4, <2>5, <2>6
<1>7. HandlersOnce'
  <2> SUFFICES ASSUME NEW k \in Keys, NEW y \in Sessions,
                      HandlerOf(y)' \in DOMAIN signalHandlersInfo[k], ~BeginTwice(y)'
               PROVE  signalHandlersInfo[k][HandlerOf(y)'] = 1 /\ ~BeginUnderWay(y)'
    BY DEF HandlersOnce
  <2>1. CASE y # x BY <2>1, <1>1, <1>6 DEF IInv, HandlersOnce
  <2>2. CASE y = x
    <3>1. PICK z \in Sessions : session[z].stage # "new" /\ HandlerOf(x)' = HandlerOf(z)
      BY <2>2 DEF IInv, HandlersOfSession
    <3>2. z = x
      <4>1. z # x => HandlerOf(z)' = HandlerOf(x)' BY <3>1, <1>1
      <4> QED BY <4>1, <1>3
    <3>3. session[x].stage # "new" /\ HandlerOf(x)' = HandlerOf(x) BY <3>1, <3>2
    <3>4. op = "0" BY <3>3
    <3>5. BeginTwice(x)' = BeginTwice(x) BY <3>3 DEF BeginTwice
    <3>6. BeginUnderWay(x)' => BeginUnderWay(x) BY <3>3, <3>4, <1>n DEF BeginUnderWay
    <3> QED BY <2>2, <3>3, <3>5, <3>6 DEF IInv, HandlersOnce
  <2> QED BY <2>1, <2>2
<1>8. EndLeavesNothing'
  <2> SUFFICES ASSUME NEW y \in Sessions, session'[y].stage = "closed"
               PROVE EndUnderWay(y)' \/ y \in overtaken' \/ BeginTwice(y)' \/ NothingLeft(y)'
    BY DEF EndLeavesNothing
  <2>1. CASE y = x
    <3>1. op = "0" BY <2>1
    <3> QED BY <3>1, <2>1, <1>n DEF EndUnderWay
  <2>2. CASE y # x BY <2>2, <1>6 DEF IInv, EndLeavesNothing
  <2> QED BY <2>1, <2>2
<1>9. OpenIsHeld'
  <2> SUFFICES ASSUME NEW y \in Sessions, session'[y].stage = "open"
               PROVE Held(y)' \/ BeginUnderWay(y)'
    BY DEF OpenIsHeld
  <2>1. CASE y = x
    <3>1. op = "1" BY <2>1
    <3> QED BY <3>1, <2>1, <1>n DEF BeginUnderWay
  <2>2. CASE y # x BY <2>2, <1>6 DEF IInv, OpenIsHeld
  <2> QED BY <2>1, <2>2
<1> QED BY <1>4, <1>5, <1>7, <1>8, <1>9 DEF IInv

LEMMA JoinedKeeps ==
    ASSUME IInv, NEW x \in Sessions, NEW k \in Keys, NEW j \in Joiners, SessionJoined(x, k, j)
    PROVE IInv'
<1>1. /\ session[x].stage = "new"
      /\ session' = [session EXCEPT ![x] = [stage |-> "open", key |-> k, joiner |-> j]]
      /\ UNCHANGED <<delivered, overtaken, signalHandlersInfo>>
  BY DEF SessionJoined
<1>2. SessionsTyped' BY <1>1 DEF IInv, SessionsTyped, Stages
<1>3. session'[x].joiner = j /\ session'[x].stage = "open"
  BY <1>1 DEF IInv, SessionsTyped
<1>4. updates' = updates \cup {[op |-> "1", handler |-> HandlerOf(x)', key |-> session'[x].key]}
  BY <1>3 DEF SessionJoined, Update, HandlerOf
<1>5. \A y \in Sessions \ {x} : session'[y] = session[y] BY <1>1 DEF IInv, SessionsTyped
<1> QED BY <1>1, <1>2, <1>3, <1>4, <1>5, NewsKeeps

LEMMA LostKeeps == ASSUME IInv, NEW x \in Sessions, SessionLost(x) PROVE IInv'
<1>1. /\ session[x].stage \in {"open", "orphaned"}
      /\ session' = [session EXCEPT ![x].stage = "closed"]
      /\ UNCHANGED <<delivered, overtaken, signalHandlersInfo>>
  BY DEF SessionLost
<1>2. SessionsTyped' BY <1>1 DEF IInv, SessionsTyped, Stages
<1>3. /\ session'[x].joiner = session[x].joiner /\ session'[x].key = session[x].key
      /\ session'[x].stage = "closed"
  BY <1>1 DEF IInv, SessionsTyped
<1>4. updates' = updates \cup {[op |-> "0", handler |-> HandlerOf(x)', key |-> session'[x].key]}
  BY <1>3 DEF SessionLost, Update, HandlerOf
<1>5. \A y \in Sessions \ {x} : session'[y] = session[y] BY <1>1 DEF IInv, SessionsTyped
<1> QED BY <1>1, <1>2, <1>3, <1>4, <1>5, NewsKeeps

\* An update arrives, also one that has overtaken the one before it, and one of which a
\* copy is still under way.
LEMMA DeliverKeeps ==
    ASSUME IInv, NEW u \in updates, DeliverUpdate(u) \/ DeliverUpdateTwice(u) PROVE IInv'
<1>0. PICK x \in Sessions :
        /\ session[x].stage # "new" /\ u.handler = HandlerOf(x) /\ u.key = session[x].key
        /\ u.op = "1" \/ (u.op = "0" /\ session[x].stage = "closed")
        /\ u = [op |-> u.op, handler |-> u.handler, key |-> u.key]
  BY DEF IInv, NewsOfSession
<1>1. /\ session' = session /\ UpdateSignalHandlerInfoToLocal(u)
      /\ \/ updates' = updates \ {u} /\ delivered' = delivered
         \/ updates' = updates /\ delivered' = delivered \cup {u}
  BY DEF DeliverUpdate, DeliverUpdateTwice, UpdateSignalHandlerInfoToLocal
<1>2. \A y \in Sessions : HandlerOf(y)' = HandlerOf(y) BY <1>1 DEF HandlerOf, Handler
<1>3. \A y \in Sessions : y # x => HandlerOf(y) # HandlerOf(x) BY HandlersDiffer DEF HandlerOf
<1>4. u.key \in Keys BY <1>0 DEF IInv, SessionsTyped
<1> DEFINE before == signalHandlersInfo[u.key]
           after == signalHandlersInfo'[u.key]
<1>b. \A h \in DOMAIN before : before[h] \in Nat \ {0} BY <1>4 DEF IInv, SessionsTyped
<1>5. /\ DOMAIN signalHandlersInfo' = Keys
      /\ \A k \in Keys \ {u.key} : signalHandlersInfo'[k] = signalHandlersInfo[k]
      /\ u.op = "1" => after = AddHandler(before, u.handler)
      /\ u.op = "0" => after = DeleteHandler(before, u.handler)
  BY <1>1, <1>4 DEF IInv, SessionsTyped, UpdateSignalHandlerInfoToLocal
<1>a. u.op = "1" =>
        /\ DOMAIN after = DOMAIN before \cup {HandlerOf(x)}
        /\ \A h \in DOMAIN before : h # HandlerOf(x) => after[h] = before[h]
        /\ after[HandlerOf(x)] = IF HandlerOf(x) \in DOMAIN before
                                 THEN before[HandlerOf(x)] + 1 ELSE 1
  <2> SUFFICES ASSUME u.op = "1"
               PROVE  /\ DOMAIN after = DOMAIN before \cup {HandlerOf(x)}
                      /\ \A h \in DOMAIN before : h # HandlerOf(x) => after[h] = before[h]
                      /\ after[HandlerOf(x)] = IF HandlerOf(x) \in DOMAIN before
                                               THEN before[HandlerOf(x)] + 1 ELSE 1
    OBVIOUS
  <2>1. after = AddHandler(before, HandlerOf(x)) BY <1>0, <1>5
  <2> HIDE DEF before, after
  <2>2. /\ DOMAIN AddHandler(before, HandlerOf(x)) = DOMAIN before \cup {HandlerOf(x)}
        /\ \A h \in DOMAIN before : h # HandlerOf(x)
              => AddHandler(before, HandlerOf(x))[h] = before[h]
        /\ AddHandler(before, HandlerOf(x))[HandlerOf(x)] =
              IF HandlerOf(x) \in DOMAIN before THEN before[HandlerOf(x)] + 1 ELSE 1
    BY <1>b, HandlerAdded, Zenon
  <2> QED BY <2>1, <2>2
<1>d. u.op = "0" =>
        /\ DOMAIN after = {h \in DOMAIN before : h # HandlerOf(x) \/ before[HandlerOf(x)] # 1}
        /\ \A h \in DOMAIN before : h # HandlerOf(x) => after[h] = before[h]
        /\ HandlerOf(x) \in DOMAIN after => after[HandlerOf(x)] = before[HandlerOf(x)] - 1
  <2> SUFFICES ASSUME u.op = "0"
               PROVE  /\ DOMAIN after =
                           {h \in DOMAIN before : h # HandlerOf(x) \/ before[HandlerOf(x)] # 1}
                      /\ \A h \in DOMAIN before : h # HandlerOf(x) => after[h] = before[h]
                      /\ HandlerOf(x) \in DOMAIN after =>
                           after[HandlerOf(x)] = before[HandlerOf(x)] - 1
    OBVIOUS
  <2>1. after = DeleteHandler(before, HandlerOf(x)) BY <1>0, <1>5
  <2> HIDE DEF before, after
  <2>2. /\ DOMAIN DeleteHandler(before, HandlerOf(x)) =
              {h \in DOMAIN before : h # HandlerOf(x) \/ before[HandlerOf(x)] # 1}
        /\ \A h \in DOMAIN before : h # HandlerOf(x)
              => DeleteHandler(before, HandlerOf(x))[h] = before[h]
        /\ HandlerOf(x) \in DOMAIN DeleteHandler(before, HandlerOf(x)) =>
              DeleteHandler(before, HandlerOf(x))[HandlerOf(x)] = before[HandlerOf(x)] - 1
    BY <1>b, HandlerDeleted, Zenon
  <2> QED BY <2>1, <2>2
<1>k. \A y \in Sessions, k \in Keys : y # x \/ k # u.key =>
        /\ HandlerOf(y) \in DOMAIN signalHandlersInfo'[k]
              <=> HandlerOf(y) \in DOMAIN signalHandlersInfo[k]
        /\ HandlerOf(y) \in DOMAIN signalHandlersInfo[k]
              => signalHandlersInfo'[k][HandlerOf(y)] = signalHandlersInfo[k][HandlerOf(y)]
  <2> SUFFICES ASSUME NEW y \in Sessions, NEW k \in Keys, y # x \/ k # u.key
               PROVE  /\ HandlerOf(y) \in DOMAIN signalHandlersInfo'[k]
                            <=> HandlerOf(y) \in DOMAIN signalHandlersInfo[k]
                      /\ HandlerOf(y) \in DOMAIN signalHandlersInfo[k]
                            => signalHandlersInfo'[k][HandlerOf(y)] = signalHandlersInfo[k][HandlerOf(y)]
    OBVIOUS
  <2>1. CASE k # u.key BY <2>1, <1>5
  <2>2. CASE k = u.key
    <3>1. HandlerOf(y) # HandlerOf(x) BY <2>2, <1>3
    <3> QED BY <2>2, <3>1, <1>0, <1>a, <1>d
  <2> QED BY <2>1, <2>2
<1>n. \A h \in DOMAIN after : after[h] \in Nat \ {0}
  <2> SUFFICES ASSUME NEW h \in DOMAIN after PROVE after[h] \in Nat \ {0} OBVIOUS
  <2> HIDE DEF before, after
  <2>1. CASE u.op = "1" BY <2>1, <1>a, <1>b
  <2>2. CASE u.op = "0"
    <3>1. h \in DOMAIN before /\ before[h] \in Nat \ {0} BY <2>2, <1>d, <1>b
    <3>2. CASE h = HandlerOf(x) BY <2>2, <3>1, <3>2, <1>d
    <3>3. CASE h # HandlerOf(x) BY <2>2, <3>1, <3>3, <1>d
    <3> QED BY <3>2, <3>3
  <2> QED BY <2>1, <2>2, <1>0
<1>6. SessionsTyped'
  <2>1. u \in [op : {"0", "1"}, key : Keys,
               handler : [session : Sessions, joiner : Joiners \cup {""}]]
    <3>1. HandlerOf(x) \in [session : Sessions, joiner : Joiners \cup {""}]
      BY DEF IInv, SessionsTyped, HandlerOf, Handler
    <3> QED BY <3>1, <1>0, <1>4
  <2>2. ASSUME NEW k \in Keys, NEW h \in DOMAIN signalHandlersInfo'[k]
        PROVE  signalHandlersInfo'[k][h] \in Nat \ {0}
    <3>1. CASE k = u.key BY <3>1, <2>2, <1>n
    <3>2. CASE k # u.key BY <3>2, <2>2, <1>5 DEF IInv, SessionsTyped
    <3> QED BY <3>1, <3>2
  <2>3. delivered' \subseteq delivered \cup {u} BY <1>1
  <2> QED BY <1>1, <1>5, <2>1, <2>2, <2>3 DEF IInv, SessionsTyped
<1>7. NewsOfSession' BY <1>1, <1>2 DEF IInv, NewsOfSession
<1>8. HandlersOfSession'
  <2> SUFFICES ASSUME NEW k \in Keys, NEW h \in DOMAIN signalHandlersInfo'[k]
               PROVE \E y \in Sessions : /\ session'[y].stage # "new"
                                         /\ h = HandlerOf(y)' /\ k = session'[y].key
    BY DEF HandlersOfSession
  <2>1. h \in DOMAIN signalHandlersInfo[k] \/ (h = u.handler /\ k = u.key)
    <3>1. CASE k = u.key BY <3>1, <1>0, <1>a, <1>d
    <3>2. CASE k # u.key BY <3>2, <1>5
    <3> QED BY <3>1, <3>2
  <2> QED BY <2>1, <1>0, <1>1, <1>2 DEF IInv, HandlersOfSession
<1>s. \A v \in updates : v.handler = HandlerOf(x) /\ v.op = u.op => v = u
  <2> SUFFICES ASSUME NEW v \in updates, v.handler = HandlerOf(x), v.op = u.op PROVE v = u
    OBVIOUS
  <2>1. PICK z \in Sessions :
          /\ v.handler = HandlerOf(z) /\ v.key = session[z].key
          /\ v = [op |-> v.op, handler |-> v.handler, key |-> v.key]
    BY DEF IInv, NewsOfSession
  <2>2. z = x BY <2>1, <1>3
  <2> QED BY <2>1, <2>2, <1>0
<1>o. ASSUME NEW y \in Sessions, y # x
      PROVE  /\ BeginUnderWay(y)' = BeginUnderWay(y) /\ EndUnderWay(y)' = EndUnderWay(y)
             /\ BeginTwice(y)' = BeginTwice(y)
             /\ NothingLeft(y) => NothingLeft(y)'
             /\ Held(y)' = Held(y)
  <2>1. u.handler # HandlerOf(y) /\ HandlerOf(y)' = HandlerOf(y) BY <1>0, <1>2, <1>3, <1>o
  <2>2. BeginUnderWay(y)' = BeginUnderWay(y) /\ EndUnderWay(y)' = EndUnderWay(y)
    BY <2>1, <1>1 DEF BeginUnderWay, EndUnderWay
  <2>3. BeginTwice(y)' = BeginTwice(y) BY <2>1, <1>1 DEF BeginTwice
  <2>4. NothingLeft(y) => NothingLeft(y)' BY <2>1, <1>1, <1>k, <1>o DEF NothingLeft
  <2>5. Held(y)' = Held(y) BY <2>1, <1>1, <1>k, <1>o DEF Held
  <2> QED BY <2>2, <2>3, <2>4, <2>5
<1>9. HandlersOnce'
  <2> SUFFICES ASSUME NEW k \in Keys, NEW y \in Sessions,
                      HandlerOf(y) \in DOMAIN signalHandlersInfo'[k], ~BeginTwice(y)'
               PROVE  signalHandlersInfo'[k][HandlerOf(y)] = 1 /\ ~BeginUnderWay(y)'
    BY <1>2 DEF HandlersOnce
  <2>1. CASE y # x BY <2>1, <1>k, <1>o DEF IInv, HandlersOnce
  <2>2. CASE y = x
    <3>1. ~BeginTwice(x) BY <2>2, <1>1, <1>2 DEF BeginTwice
    <3>2. CASE u.op = "1"
      <4>1. BeginUnderWay(x) BY <3>2, <1>0 DEF BeginUnderWay
      <4>2. HandlerOf(x) \notin DOMAIN before /\ HandlerOf(x) \notin DOMAIN signalHandlersInfo[k]
        BY <4>1, <3>1, <1>4 DEF IInv, HandlersOnce
      <4>3. k = u.key BY <4>2, <2>2, <1>5
      <4>4. updates' = updates \ {u}
        <5>1. delivered' = delivered \cup {u} => BeginTwice(x)'
          BY <3>2, <1>0, <1>2 DEF BeginTwice
        <5> QED BY <5>1, <2>2, <1>1
      <4>5. ~BeginUnderWay(x)' BY <4>4, <3>2, <1>2, <1>s DEF BeginUnderWay
      <4> QED BY <4>2, <4>3, <4>5, <2>2, <3>2, <1>a
    <3>3. CASE u.op = "0"
      <4>1. HandlerOf(x) \in DOMAIN signalHandlersInfo[k]
        BY <2>2, <3>3, <1>5, <1>d
      <4>2. signalHandlersInfo[k][HandlerOf(x)] = 1 /\ ~BeginUnderWay(x)
        BY <4>1, <3>1 DEF IInv, HandlersOnce
      <4>3. k # u.key BY <4>2, <2>2, <3>3, <1>d
      <4>4. ~BeginUnderWay(x)' BY <4>2, <1>1, <1>2 DEF BeginUnderWay
      <4> QED BY <4>2, <4>3, <4>4, <2>2, <1>5
    <3> QED BY <3>2, <3>3, <1>0
  <2> QED BY <2>1, <2>2
<1>10. EndLeavesNothing'
  <2> SUFFICES ASSUME NEW y \in Sessions, session[y].stage = "closed"
               PROVE EndUnderWay(y)' \/ y \in overtaken' \/ BeginTwice(y)' \/ NothingLeft(y)'
    BY <1>1 DEF EndLeavesNothing
  <2>0. EndUnderWay(y) \/ y \in overtaken \/ BeginTwice(y) \/ NothingLeft(y)
    BY DEF IInv, EndLeavesNothing
  <2>1. y \in overtaken => y \in overtaken' BY <1>1 DEF UpdateSignalHandlerInfoToLocal
  <2>2. BeginTwice(y) => BeginTwice(y)' BY <1>1, <1>2 DEF BeginTwice
  <2>3. CASE y # x BY <2>0, <2>1, <2>3, <1>o
  <2>4. CASE y = x
    <3>1. ~NothingLeft(y) BY <1>0, <2>4 DEF NothingLeft
    <3>2. CASE updates' = updates
      <4>1. EndUnderWay(y) => EndUnderWay(y)' BY <3>2, <1>2 DEF EndUnderWay
      <4> QED BY <4>1, <2>0, <2>1, <2>2, <3>1
    <3>3. CASE updates' = updates \ {u} /\ u.op = "1"
      <4>1. EndUnderWay(y) => EndUnderWay(y)' BY <3>3, <1>2 DEF EndUnderWay
      <4> QED BY <4>1, <2>0, <2>1, <2>2, <3>1
    <3>4. CASE updates' = updates \ {u} /\ u.op = "0" /\ BeginUnderWay(x)
      <4>1. u.handler.session = x /\ HandlerOf(x).session = x BY <1>0 DEF HandlerOf, Handler
      <4> QED BY <4>1, <2>4, <3>4, <1>1 DEF UpdateSignalHandlerInfoToLocal, BeginUnderWay
    <3>5. CASE updates' = updates \ {u} /\ u.op = "0" /\ ~BeginUnderWay(x)
      <4>1. \A v \in updates' : v.handler # HandlerOf(x)
        <5> SUFFICES ASSUME NEW v \in updates, v.handler = HandlerOf(x) PROVE v = u
          BY <3>5
        <5>1. v.op \in {"0", "1"} BY DEF IInv, NewsOfSession
        <5>2. v.op = "0" BY <5>1, <3>5 DEF BeginUnderWay
        <5> QED BY <5>2, <3>5, <1>s
      <4>2. ASSUME NEW k \in Keys, HandlerOf(x) \in DOMAIN signalHandlersInfo'[k], ~BeginTwice(x)
            PROVE  FALSE
        <5>1. HandlerOf(x) \in DOMAIN signalHandlersInfo[k] BY <4>2, <3>5, <1>5, <1>d
        <5>2. PICK z \in Sessions : HandlerOf(x) = HandlerOf(z) /\ k = session[z].key
          BY <5>1 DEF IInv, HandlersOfSession
        <5>3. k = u.key BY <5>2, <1>0, <1>3
        <5>4. before[HandlerOf(x)] = 1 BY <5>1, <5>3, <4>2 DEF IInv, HandlersOnce
        <5> QED BY <5>3, <5>4, <4>2, <3>5, <1>d
      <4>3. BeginTwice(x) \/ NothingLeft(x)' BY <4>1, <4>2, <1>2 DEF NothingLeft
      <4> QED BY <4>3, <2>2, <2>4
    <3> QED BY <3>2, <3>3, <3>4, <3>5, <1>0, <1>1
  <2> QED BY <2>3, <2>4
<1>11. OpenIsHeld'
  <2> SUFFICES ASSUME NEW y \in Sessions, session[y].stage = "open"
               PROVE Held(y)' \/ BeginUnderWay(y)'
    BY <1>1 DEF OpenIsHeld
  <2>1. CASE y # x BY <2>1, <1>o DEF IInv, OpenIsHeld
  <2>2. CASE y = x
    <3>1. u.op = "1" BY <2>2, <1>0
    <3>2. session'[x].key = u.key /\ u.key \in Keys BY <1>0, <1>1, <1>4
    <3>3. HandlerOf(x)' \in DOMAIN signalHandlersInfo'[u.key] BY <3>1, <1>2, <1>a
    <3> QED BY <3>2, <3>3, <2>2 DEF Held
  <2> QED BY <2>1, <2>2
<1> QED BY <1>6, <1>7, <1>8, <1>9, <1>10, <1>11 DEF IInv

LEMMA StepInvariant == IInv /\ [Next]_vars => IInv'
<1> SUFFICES ASSUME IInv, [Next]_vars PROVE IInv' OBVIOUS
<1> USE QuietKeeps
<1>1. ASSUME NEW a \in Accounts, NotifyPresence(a) \/ NotifyEnd(a) \/ NotifyOther(a) PROVE IInv'
  BY <1>1 DEF NotifyPresence, NotifyEnd, NotifyOther, Notify
<1>2. CASE ReadPresence \/ ReadOther BY <1>2 DEF ReadPresence, ReadOther, ReadTuples
<1>3. CASE PrepareFails \/ PrepareNewAgent \/ RegisterAgent
  BY <1>3 DEF PrepareFails, PrepareNewAgent, RegisterAgent
<1>4. CASE ReadEnd BY <1>4, OrphanKeeps DEF ReadEnd, ReadTuples, Cleanup
<1>5. CASE Unsubscribe \/ UnsubscribeEvery
  BY <1>5, OrphanKeeps DEF Unsubscribe, UnsubscribeEvery, Cleanup
<1>6. CASE SubscribeAgain BY <1>6, OrphanKeeps DEF SubscribeAgain, Cleanup
<1>7. CASE RegisterFails BY <1>7, OrphanKeeps DEF RegisterFails
<1>8. ASSUME NEW x \in Sessions, NEW k \in Keys, NEW j \in Joiners, SessionJoined(x, k, j)
      PROVE IInv'
  BY <1>8, JoinedKeeps
<1>9. ASSUME NEW x \in Sessions, SessionLost(x) PROVE IInv' BY <1>9, LostKeeps
<1>10. ASSUME NEW u \in updates, DeliverUpdate(u) \/ DeliverUpdateTwice(u) PROVE IInv'
  BY <1>10, DeliverKeeps
<1>11. CASE UNCHANGED vars BY <1>11 DEF vars
<1> QED
  BY <1>1, <1>2, <1>3, <1>4, <1>5, <1>6, <1>7, <1>8, <1>9, <1>10, <1>11
  DEF Next, NotificationThread

LEMMA Invariance == Spec => []IInv
  BY InitInvariant, StepInvariant, PTL DEF Spec

\* An open session has its handler at the gateway of its service, or the message
\* that says so has not arrived, for any number of sessions, clients and services.
THEOREM SessionsHaveHandlers == Spec => []SessionHasHandler
<1>1. IInv => SessionHasHandler
  BY DEF IInv, OpenIsHeld, SessionHasHandler, Held, BeginUnderWay, HandlerOf, BagIn, BagToSet
<1> QED BY <1>1, Invariance, PTL

\* A handler that is left over is left over for one of the four known reasons, in
\* whatever order the updates arrive and however often.
THEOREM StaleHandlersHaveCauses == Spec => []StaleHandlerHasCause
<1>1. IInv => StaleHandlerHasCause
  <2> SUFFICES ASSUME IInv, NEW k \in Keys, NEW h \in DOMAIN signalHandlersInfo[k]
               PROVE \/ session[h.session].stage \in {"open", "orphaned"}
                     \/ h.session \in overtaken
                     \/ \E u \in updates : u.op = "0" /\ u.handler = h
                     \/ \E u \in delivered : u.op = "1" /\ u.handler = h
    BY DEF StaleHandlerHasCause, BagToSet
  <2>1. PICK x \in Sessions : session[x].stage # "new" /\ h = HandlerOf(x)
    BY DEF IInv, HandlersOfSession
  <2>2. h.session = x BY <2>1 DEF HandlerOf, Handler
  <2>3. session[x].stage \in Stages BY DEF IInv, SessionsTyped
  <2>4. session[x].stage = "closed" => EndUnderWay(x) \/ x \in overtaken \/ BeginTwice(x)
    BY <2>1 DEF IInv, EndLeavesNothing, NothingLeft
  <2> QED BY <2>1, <2>2, <2>3, <2>4 DEF EndUnderWay, BeginTwice, Stages
<1> QED BY <1>1, Invariance, PTL

------------------------------------------------------------------------------
(* Agents and presence.  Of each service the last word of the server is     *)
(* either still in the queue, or it is what the notification thread is       *)
(* about to do, or it has been done.                                         *)

LEMMA Least == ASSUME NEW S, S \subseteq Nat, S # {}
               PROVE  \E n \in S : \A m \in S : n <= m
<1> DEFINE R == {p \in Nat \X Nat : p[1] < p[2]}
<1>1. IsWellFoundedOn(R, Nat) BY NatLessThanWellFounded DEF OpToRel
<1>2. \A m, n \in Nat : m < n => <<m, n>> \in R OBVIOUS
<1> HIDE DEF R
<1>3. PICK n \in S : \A m \in S : <<m, n>> \notin R BY <1>1, WFMin
<1>4. \A m \in S : m \in Nat /\ n \in Nat /\ ~(m < n) BY <1>2, <1>3
<1> QED BY <1>4

\* Of some positions there is a last one; and without the first of all positions each
\* is one less.
LEMMA LastExists == ASSUME NEW n \in Nat, NEW P, P \subseteq 1 .. n, P # {}
                    PROVE  \E i \in P : \A j \in P : j <= i
<1> DEFINE S == {m \in Nat : n - m \in P}
<1>1. PICK i \in P : TRUE OBVIOUS
<1>2. n - i \in S BY <1>1
<1>3. PICK m \in S : \A o \in S : m <= o BY <1>2, Least
<1>4. n - m \in P /\ m \in Nat BY <1>3
<1>5. ASSUME NEW j \in P PROVE j <= n - m
  <2>1. j \in 1 .. n /\ n - (n - j) = j BY <1>5
  <2>2. n - j \in S BY <2>1
  <2>3. m <= n - j BY <2>2, <1>3
  <2> QED BY <2>1, <2>3, <1>4
<1> QED BY <1>4, <1>5

LEMMA LastOfTail ==
    ASSUME NEW n \in Nat \ {0}, NEW P, P \subseteq 1 .. n,
           NEW Q, Q = {i \in 1 .. n - 1 : i + 1 \in P},
           NEW i \in P, \A j \in P : j <= i
    PROVE  \/ i = 1 /\ Q = {}
           \/ i - 1 \in Q /\ \A j \in Q : j <= i - 1
<1>1. CASE i = 1
  <2>1. ASSUME NEW j \in Q PROVE FALSE
    <3>1. j \in 1 .. n - 1 /\ j + 1 <= 1 BY <1>1, <2>1
    <3> QED BY <3>1
  <2> QED BY <1>1, <2>1
<1>2. CASE i # 1
  <2>1. i \in 1 .. n /\ i - 1 \in 1 .. n - 1 /\ i - 1 + 1 = i BY <1>2
  <2>2. i - 1 \in Q BY <2>1
  <2>3. ASSUME NEW j \in Q PROVE j <= i - 1
    <3>1. j \in 1 .. n - 1 /\ j + 1 <= i BY <2>3
    <3> QED BY <3>1, <2>1
  <2> QED BY <2>2, <2>3
<1> QED BY <1>1, <1>2

TodoTyped == todo \in Seq(Orders)

\* An agent is what PrepareAgent made of the description it is kept with.
AgentOf(xml) == [xml |-> xml, agent |-> ParseXml(xml, {})]
AgentsParsed == \A k \in Keys :
    \/ cloudBusObjects[k] = NoAgent
    \/ \E xml \in Descriptions :
          cloudBusObjects[k] = AgentOf(xml) /\ ParseXml(xml, {}).ok

\* The agent in the making is the one that the tuple at work asks for, and there
\* is none yet.
MakingIsDue == making # Nothing =>
    /\ ~Idle
    /\ making.key = Head(todo).key
    /\ Head(todo).xml \in Descriptions
    /\ making.entry = AgentOf(Head(todo).xml)
    /\ ParseXml(Head(todo).xml, {}).ok
    /\ ~HasAgent(making.key)

\* The documents that speak of a service, and the tuples at work that name it.
Speaking(k) == {i \in DOMAIN incomingNotifyQueue : k \in SpokenOf(incomingNotifyQueue[i])}
Asking(k) == {i \in DOMAIN todo : todo[i].key = k}

LastWordQueued(k) == \E i \in Speaking(k) :
    /\ \A j \in Speaking(k) : j <= i
    /\ Word(incomingNotifyQueue[i], k) = wanted[k]
LastOrderIs(k) == \E i \in Asking(k) :
    /\ \A j \in Asking(k) : j <= i
    /\ todo[i].xml = wanted[k]

Settled(k) == \/ cloudBusObjects[k].xml = wanted[k]
              \/ k \in excused /\ (HasAgent(k) => wanted[k] = NoService)

Due(k) == LastOrderIs(k) \/ (Asking(k) = {} /\ Settled(k))

LastWordKept == \A k \in Keys : LastWordQueued(k) \/ (Speaking(k) = {} /\ Due(k))

ServerTyped ==
    /\ incomingNotifyQueue \in Seq(Documents)
    /\ notifies \in 0 .. MaxNotifies
    /\ wanted \in [Keys -> Descriptions \cup {NoService}]
    /\ cloudBusObjects \in [Keys -> Entries]
    /\ excused \subseteq Keys
    /\ overtaken \subseteq Sessions

AInv == ServerTyped /\ TodoTyped /\ AgentsParsed /\ MakingIsDue /\ LastWordKept

LEMMA AgentsAreEntries == NoAgent \in Entries /\ \A xml \in Descriptions : AgentOf(xml) \in Entries
  BY DEF NoAgent, AgentOf, Entries

LEMMA InitAgents == Init => AInv
<1> SUFFICES ASSUME Init PROVE AInv OBVIOUS
<1>1. /\ incomingNotifyQueue = <<>> /\ notifies = 0 /\ todo = <<>> /\ making = Nothing
      /\ excused = {} /\ overtaken = {}
      /\ wanted = [k \in Keys |-> NoService] /\ cloudBusObjects = [k \in Keys |-> NoAgent]
  BY DEF Init
<1>2. MaxNotifies \in Nat BY ServicesAssumption, Zenon
<1>3. ServerTyped BY <1>1, <1>2, AgentsAreEntries DEF ServerTyped
<1>4. TodoTyped /\ AgentsParsed /\ MakingIsDue
  BY <1>1 DEF TodoTyped, AgentsParsed, MakingIsDue
<1>5. ASSUME NEW k \in Keys PROVE Speaking(k) = {} /\ Due(k)
  <2>1. Speaking(k) = {} /\ Asking(k) = {} BY <1>1 DEF Speaking, Asking
  <2>2. Settled(k) BY <1>1 DEF Settled, NoAgent
  <2> QED BY <2>1, <2>2 DEF Due
<1>6. LastWordKept BY <1>5 DEF LastWordKept
<1> QED BY <1>3, <1>4, <1>6 DEF AInv

\* A document that is queued has the last word on what it speaks of, and says nothing
\* of the rest.
LEMMA QueuedSpeaks ==
    ASSUME ServerTyped, NEW document \in Documents, NEW k \in Keys,
           incomingNotifyQueue' = Append(incomingNotifyQueue, document),
           wanted'[k] = IF k \in SpokenOf(document) THEN Word(document, k) ELSE wanted[k]
    PROVE  /\ k \in SpokenOf(document) => LastWordQueued(k)'
           /\ k \notin SpokenOf(document) =>
                /\ LastWordQueued(k) => LastWordQueued(k)'
                /\ Speaking(k) = {} => Speaking(k)' = {}
<1> DEFINE n == Len(incomingNotifyQueue)
<1>1. /\ n \in Nat
      /\ DOMAIN incomingNotifyQueue = 1 .. n /\ DOMAIN incomingNotifyQueue' = 1 .. n + 1
      /\ \A i \in 1 .. n : incomingNotifyQueue'[i] = incomingNotifyQueue[i]
      /\ incomingNotifyQueue'[n + 1] = document
  BY DEF ServerTyped
<1> HIDE DEF n
<1>2. /\ \A i \in 1 .. n + 1 : (i \in 1 .. n \/ i = n + 1) /\ i <= n + 1
      /\ \A i \in 1 .. n : i \in 1 .. n + 1
      /\ n + 1 \in 1 .. n + 1
  BY <1>1
<1>3. Speaking(k)' = {i \in 1 .. n + 1 : k \in SpokenOf(incomingNotifyQueue'[i])}
  BY <1>1 DEF Speaking
<1>4. Speaking(k) = {i \in 1 .. n : k \in SpokenOf(incomingNotifyQueue[i])}
  BY <1>1 DEF Speaking
<1>5. CASE k \in SpokenOf(document)
  <2>1. n + 1 \in Speaking(k)' /\ \A j \in Speaking(k)' : j <= n + 1
    BY <1>1, <1>2, <1>3, <1>5
  <2>2. Word(incomingNotifyQueue'[n + 1], k) = wanted'[k] BY <1>1, <1>5
  <2> QED BY <2>1, <2>2, <1>5 DEF LastWordQueued
<1>6. CASE k \notin SpokenOf(document)
  <2>1. Speaking(k)' = Speaking(k) BY <1>1, <1>2, <1>3, <1>4, <1>6
  <2>2. ASSUME LastWordQueued(k) PROVE LastWordQueued(k)'
    <3>1. PICK i \in Speaking(k) : /\ \A j \in Speaking(k) : j <= i
                                   /\ Word(incomingNotifyQueue[i], k) = wanted[k]
      BY <2>2 DEF LastWordQueued
    <3>2. incomingNotifyQueue'[i] = incomingNotifyQueue[i] BY <3>1, <1>1, <1>4
    <3>3. Word(incomingNotifyQueue'[i], k) = wanted'[k] BY <3>1, <3>2, <1>6
    <3> QED BY <3>1, <3>3, <2>1 DEF LastWordQueued
  <2> QED BY <2>1, <2>2, <1>6
<1> QED BY <1>5, <1>6

\* The first document is taken: its word is the last one if no other speaks.
LEMMA TakenSpeaks ==
    ASSUME ServerTyped, NEW k \in Keys, incomingNotifyQueue # <<>>,
           incomingNotifyQueue' = Tail(incomingNotifyQueue), wanted' = wanted
    PROVE  LET document == Head(incomingNotifyQueue) IN
           /\ LastWordQueued(k) => \/ LastWordQueued(k)'
                                   \/ /\ Speaking(k)' = {} /\ k \in SpokenOf(document)
                                      /\ Word(document, k) = wanted[k]
           /\ Speaking(k) = {} => Speaking(k)' = {} /\ k \notin SpokenOf(document)
<1> DEFINE n == Len(incomingNotifyQueue)
<1>1. /\ n \in Nat \ {0}
      /\ DOMAIN incomingNotifyQueue = 1 .. n /\ DOMAIN incomingNotifyQueue' = 1 .. n - 1
      /\ Head(incomingNotifyQueue) = incomingNotifyQueue[1]
      /\ \A i \in 1 .. n - 1 : incomingNotifyQueue'[i] = incomingNotifyQueue[i + 1]
  BY DEF ServerTyped
<1> HIDE DEF n
<1>2. Speaking(k) = {i \in 1 .. n : k \in SpokenOf(incomingNotifyQueue[i])}
  BY <1>1 DEF Speaking
<1>3. /\ Speaking(k) \subseteq 1 .. n
      /\ Speaking(k)' = {i \in 1 .. n - 1 : i + 1 \in Speaking(k)}
  <2>1. \A i \in 1 .. n - 1 : i + 1 \in 1 .. n BY <1>1
  <2>2. Speaking(k)' = {i \in 1 .. n - 1 : k \in SpokenOf(incomingNotifyQueue'[i])}
    BY <1>1 DEF Speaking
  <2> QED BY <2>1, <2>2, <1>1, <1>2
<1>4. ASSUME LastWordQueued(k)
      PROVE  \/ LastWordQueued(k)'
             \/ /\ Speaking(k)' = {} /\ k \in SpokenOf(incomingNotifyQueue[1])
                /\ Word(incomingNotifyQueue[1], k) = wanted[k]
  <2>1. PICK i \in Speaking(k) : /\ \A j \in Speaking(k) : j <= i
                                 /\ Word(incomingNotifyQueue[i], k) = wanted[k]
    BY <1>4 DEF LastWordQueued
  <2> DEFINE Q == Speaking(k)'
  <2>q. Q = {j \in 1 .. n - 1 : j + 1 \in Speaking(k)} BY <1>3
  <2> HIDE DEF Q
  <2>2. \/ i = 1 /\ Q = {}
        \/ i - 1 \in Q /\ \A j \in Q : j <= i - 1
    BY <2>1, <2>q, <1>1, <1>3, LastOfTail
  <2>3. CASE i = 1 /\ Q = {} BY <2>1, <2>3, <1>2 DEF Q
  <2>4. CASE i - 1 \in Q /\ \A j \in Q : j <= i - 1
    <3>1. i - 1 \in 1 .. n - 1 /\ i - 1 + 1 = i BY <2>1, <2>4, <2>q, <1>1, <1>3
    <3>2. Word(incomingNotifyQueue'[i - 1], k) = wanted'[k] BY <3>1, <2>1, <1>1
    <3> QED BY <3>2, <2>4 DEF LastWordQueued, Q
  <2> QED BY <2>2, <2>3, <2>4
<1>5. ASSUME Speaking(k) = {} PROVE Speaking(k)' = {} /\ k \notin SpokenOf(incomingNotifyQueue[1])
  <2>1. 1 \in 1 .. n BY <1>1
  <2> QED BY <2>1, <1>2, <1>3, <1>5
<1> QED BY <1>1, <1>4, <1>5

\* A NOTIFY arrives; wanted follows it.
LEMMA NotifiedKeeps == ASSUME AInv, NEW document \in Documents, Notify(document) PROVE AInv'
<1>1. /\ incomingNotifyQueue' = Append(incomingNotifyQueue, document)
      /\ notifies < MaxNotifies /\ notifies' = notifies + 1
      /\ wanted' = [k \in Keys |-> IF k \in SpokenOf(document) THEN Word(document, k) ELSE wanted[k]]
      /\ UNCHANGED <<todo, cloudBusObjects, making, excused, overtaken>>
  BY DEF Notify, agentVars, updateVars
<1>2. \A k \in SpokenOf(document) : Word(document, k) \in Descriptions \cup {NoService}
  <2> SUFFICES ASSUME NEW k \in SpokenOf(document), ~document.terminated
               PROVE  Word(document, k) \in Descriptions \cup {NoService}
    BY DEF Word
  <2> DEFINE P == TuplesOf(document, k)
  <2>1. k \in Keys /\ P # {} BY DEF SpokenOf, Named
  <2>2. document.tuples \in Seq(Tuples)
    <3>1. Bodies \subseteq Seq(Tuples) BY ServicesAssumption, Zenon
    <3>2. document.tuples \in Bodies \/ document.tuples = <<>> BY DEF Documents
    <3>3. <<>> \in Seq(Tuples) OBVIOUS
    <3> QED BY <3>1, <3>2, <3>3, Zenon
  <2>3. P \subseteq 1 .. Len(document.tuples) /\ Len(document.tuples) \in Nat
    BY <2>2 DEF TuplesOf
  <2>4. \E i \in P : \A j \in P : j <= i BY <2>1, <2>3, LastExists
  <2> DEFINE last == CHOOSE i \in P : \A j \in P : j <= i
  <2>5. last \in P BY <2>4
  <2>6. Word(document, k) = document.tuples[last].xml BY DEF Word
  <2> HIDE DEF last
  <2>7. document.tuples[last] \in Tuples BY <2>2, <2>3, <2>5
  <2> HIDE DEF P
  <2>8. document.tuples[last].xml \in Descriptions \cup {NoService}
    BY <2>7 DEF Tuples, Blank
  <2> QED BY <2>6, <2>8
<1>3. ServerTyped'
  <2>1. MaxNotifies \in Nat BY ServicesAssumption, Zenon
  <2>2. notifies' \in 0 .. MaxNotifies BY <1>1, <2>1 DEF AInv, ServerTyped
  <2>3. wanted' \in [Keys -> Descriptions \cup {NoService}]
    BY <1>1, <1>2 DEF AInv, ServerTyped
  <2>4. incomingNotifyQueue' \in Seq(Documents) BY <1>1 DEF AInv, ServerTyped
  <2> QED BY <1>1, <2>2, <2>3, <2>4 DEF AInv, ServerTyped
<1>4. TodoTyped' /\ AgentsParsed' BY <1>1 DEF AInv, TodoTyped, AgentsParsed
<1>5. MakingIsDue' BY <1>1 DEF AInv, MakingIsDue, Idle, HasAgent
<1>6. ASSUME NEW k \in Keys PROVE LastWordQueued(k)' \/ (Speaking(k)' = {} /\ Due(k)')
  <2>0. wanted'[k] = IF k \in SpokenOf(document) THEN Word(document, k) ELSE wanted[k] BY <1>1
  <2>1. /\ k \in SpokenOf(document) => LastWordQueued(k)'
        /\ k \notin SpokenOf(document) =>
              /\ LastWordQueued(k) => LastWordQueued(k)'
              /\ Speaking(k) = {} => Speaking(k)' = {}
    BY <1>1, <2>0, QueuedSpeaks DEF AInv
  <2>2. k \notin SpokenOf(document) /\ Due(k) => Due(k)'
    BY <1>1, <2>0 DEF Due, LastOrderIs, Asking, Settled, HasAgent
  <2> QED BY <2>1, <2>2 DEF AInv, LastWordKept
<1>7. LastWordKept' BY <1>6 DEF LastWordKept
<1> QED BY <1>3, <1>4, <1>5, <1>7 DEF AInv

LEMMA NotifyKeeps ==
    ASSUME AInv, NEW a \in Accounts, NotifyPresence(a) \/ NotifyEnd(a) \/ NotifyOther(a)
    PROVE  AInv'
<1>1. ASSUME NEW terminated \in BOOLEAN, NEW tuples \in Bodies
      PROVE  Document("presence", a, terminated, tuples) \in Documents
  BY DEF Document, Documents
<1>2. /\ Document("empty", a, TRUE, <<>>) \in Documents
      /\ \A terminated \in BOOLEAN : Document("other", a, terminated, <<>>) \in Documents
  BY DEF Document, Documents
<1> QED BY <1>1, <1>2, NotifiedKeeps DEF NotifyPresence, NotifyEnd, NotifyOther

\* An agent is not confused with there being none.
LEMMA AgentIsSome == ASSUME NEW xml \in Descriptions
                     PROVE AgentOf(xml) # NoAgent /\ AgentOf(xml).xml = xml /\ xml # NoService
<1>1. NoService \notin Descriptions BY ServicesAssumption, Zenon
<1>2. AgentOf(xml).xml = xml /\ NoAgent.xml = NoService BY DEF AgentOf, NoAgent
<1> QED BY <1>1, <1>2

LEMMA Idling == ASSUME AInv, Idle PROVE making = Nothing /\ \A k \in Keys : Asking(k) = {}
  BY DEF AInv, MakingIsDue, Asking, Idle

\* The notification thread takes a document: what it says is done or at work then.
LEMMA ReadKeeps == ASSUME AInv, ReadPresence \/ ReadEnd \/ ReadOther PROVE AInv'
<1> DEFINE document == Head(incomingNotifyQueue)
<1>1. /\ Idle /\ incomingNotifyQueue # <<>>
      /\ incomingNotifyQueue' = Tail(incomingNotifyQueue)
      /\ UNCHANGED <<notifies, wanted, making, overtaken>>
  BY DEF ReadPresence, ReadEnd, ReadOther, ReadTuples, updateVars
<1>2. /\ document \in Documents /\ incomingNotifyQueue' \in Seq(Documents)
  BY <1>1 DEF AInv, ServerTyped
<1>3. making = Nothing /\ making' = Nothing /\ \A k \in Keys : Asking(k) = {}
  BY <1>1, Idling
<1>4. MakingIsDue' BY <1>3 DEF MakingIsDue, Nothing, NoAgent
<1>5. \A k \in Keys :
        /\ LastWordQueued(k) => \/ LastWordQueued(k)'
                                \/ /\ Speaking(k)' = {} /\ k \in SpokenOf(document)
                                   /\ Word(document, k) = wanted[k]
        /\ Speaking(k) = {} => Speaking(k)' = {} /\ k \notin SpokenOf(document)
  BY <1>1, TakenSpeaks DEF AInv
<1>s. SpokenOf(document) \subseteq Keys BY DEF SpokenOf, Named
<1> HIDE DEF document
<1>6. ASSUME \A k \in Keys :
               /\ k \in SpokenOf(document) /\ Word(document, k) = wanted[k] => Due(k)'
               /\ k \notin SpokenOf(document) /\ Settled(k) => Due(k)'
      PROVE  LastWordKept'
  <2> SUFFICES ASSUME NEW k \in Keys PROVE LastWordQueued(k)' \/ (Speaking(k)' = {} /\ Due(k)')
    BY DEF LastWordKept
  <2>1. ~LastOrderIs(k) BY <1>3 DEF LastOrderIs
  <2>2. LastWordQueued(k) \/ (Speaking(k) = {} /\ Settled(k))
    BY <2>1 DEF AInv, LastWordKept, Due
  <2> QED BY <2>2, <1>5, <1>6
<1>7. CASE ReadPresence
  <2>1. /\ document.kind = "presence"
        /\ todo' = [i \in DOMAIN document.tuples |->
                      [key |-> <<document.account, document.tuples[i].service>>,
                       xml |-> Open(document, document.tuples[i])]]
        /\ excused' = (excused \ Named(document)) \cup (SpokenOf(document) \ Named(document))
        /\ UNCHANGED cloudBusObjects
    BY <1>7 DEF ReadPresence, document
  <2>2. document.account \in Accounts /\ document.tuples \in Seq(Tuples)
    <3>1. Bodies \subseteq Seq(Tuples) BY ServicesAssumption, Zenon
    <3>2. document.account \in Accounts /\ document.tuples \in Bodies
      BY <1>2, <2>1 DEF Documents
    <3> QED BY <3>1, <3>2
  <2> DEFINE n == Len(document.tuples)
  <2>3. n \in Nat /\ DOMAIN document.tuples = 1 .. n BY <2>2
  <2>4. ASSUME NEW i \in 1 .. n PROVE todo'[i] \in Orders
    <3>1. document.tuples[i] \in Tuples BY <2>2, <2>3
    <3>2. todo'[i] = [key |-> <<document.account, document.tuples[i].service>>,
                      xml |-> Open(document, document.tuples[i])]
      BY <2>1, <2>3
    <3>3. CASE document.tuples[i] = Blank
      BY <2>2, <3>2, <3>3 DEF Orders, Blank, Open
    <3>4. CASE document.tuples[i] # Blank
      <4>1. /\ document.tuples[i].service \in Services
            /\ document.tuples[i].xml \in Descriptions \cup {NoService}
        BY <3>1, <3>4 DEF Tuples
      <4> QED BY <2>2, <3>2, <4>1 DEF Orders, Keys, Open
    <3> QED BY <3>3, <3>4
  <2>5. todo' \in Seq(Orders)
    <3>1. todo' = [i \in 1 .. n |-> todo'[i]] BY <2>1, <2>3
    <3> HIDE DEF n
    <3>2. todo' \in [1 .. n -> Orders] BY <3>1, <2>4
    <3> QED BY <3>2, <2>3
  <2>6. \A k \in Keys : Asking(k)' = TuplesOf(document, k) BY <2>1 DEF Asking, TuplesOf
  <2>7. ASSUME NEW k \in Named(document) PROVE Word(document, k) = wanted[k] => Due(k)'
    <3> DEFINE P == TuplesOf(document, k)
               last == CHOOSE i \in P : \A j \in P : j <= i
    <3>1. k \in Keys /\ P # {} /\ P \subseteq 1 .. n BY <2>3 DEF Named, TuplesOf
    <3>2. \E i \in P : \A j \in P : j <= i
      <4> HIDE DEF P, n
      <4> QED BY <2>3, <3>1, LastExists
    <3>3. last \in P /\ \A j \in P : j <= last BY <3>2
    <3>4. Word(document, k) = IF document.terminated THEN NoService ELSE document.tuples[last].xml
      BY DEF Word
    <3> HIDE DEF last
    <3>5. todo'[last].xml = Open(document, document.tuples[last]) BY <2>1, <3>1, <3>3, <2>3
    <3>6. todo'[last].xml = Word(document, k) BY <3>4, <3>5 DEF Open
    <3>7. P = Asking(k)' BY <3>1, <2>6
    <3> QED BY <3>3, <3>6, <3>7, <1>1 DEF Due, LastOrderIs
  <2>8. ASSUME NEW k \in SpokenOf(document) \ Named(document)
        PROVE  Word(document, k) = wanted[k] => Due(k)'
    <3>1. k \in Keys /\ document.terminated BY DEF SpokenOf, Named
    <3>2. Asking(k)' = {} BY <3>1, <2>6 DEF Named
    <3>3. k \in excused' /\ Word(document, k) = NoService BY <3>1, <2>1 DEF Word
    <3> QED BY <3>2, <3>3, <1>1 DEF Due, Settled
  <2>9. ASSUME NEW k \in Keys, k \notin SpokenOf(document), Settled(k) PROVE Due(k)'
    <3>1. k \notin Named(document) BY <2>9 DEF SpokenOf
    <3>2. Asking(k)' = {} BY <3>1, <2>6 DEF Named
    <3>3. Settled(k)' BY <3>1, <2>1, <2>9, <1>1 DEF Settled, HasAgent
    <3> QED BY <3>2, <3>3 DEF Due
  <2>10. LastWordKept' BY <1>6, <2>7, <2>8, <2>9
  <2>11. ServerTyped' BY <1>1, <1>2, <1>s, <2>1 DEF AInv, ServerTyped
  <2>12. AgentsParsed' BY <2>1 DEF AInv, AgentsParsed
  <2> QED BY <1>4, <2>5, <2>10, <2>11, <2>12 DEF AInv, TodoTyped
<1>8. CASE ReadEnd
  <2> DEFINE ended == UnsubscribeAll(document.account)
  <2>1. /\ document.kind = "empty" /\ todo' = todo
        /\ cloudBusObjects' = [k \in Keys |-> IF k \in ended THEN NoAgent ELSE cloudBusObjects[k]]
        /\ excused' = excused \cup (ended \ SpokenOf(document))
    BY <1>8 DEF ReadEnd, Cleanup, document
  <2>2. ended \subseteq Keys BY DEF UnsubscribeAll
  <2>3. document.account \in Accounts /\ document.terminated /\ document.tuples = <<>>
    BY <1>2, <2>1 DEF Documents
  <2>4. document.account \in StartsWith[document.account] BY <2>3, ServicesAssumption, Zenon
  <2>5. SpokenOf(document) \subseteq ended
    BY <2>3, <2>4 DEF SpokenOf, Named, TuplesOf, UnsubscribeAll
  <2>6. \A k \in SpokenOf(document) : Word(document, k) = NoService BY <2>3 DEF Word
  <2> HIDE DEF ended
  <2>7. \A k \in Keys : Asking(k)' = {} BY <2>1, <1>3 DEF Asking
  <2>8. \A k \in Keys : IF k \in ended THEN cloudBusObjects'[k] = NoAgent
                                       ELSE cloudBusObjects'[k] = cloudBusObjects[k]
    BY <2>1
  <2>9. ASSUME NEW k \in Keys, k \in SpokenOf(document), Word(document, k) = wanted[k]
        PROVE  Due(k)'
    <3>1. cloudBusObjects'[k].xml = NoService BY <2>9, <2>5, <2>8 DEF NoAgent
    <3> QED BY <3>1, <2>9, <2>6, <2>7, <1>1 DEF Due, Settled
  <2>10. ASSUME NEW k \in Keys, k \notin SpokenOf(document), Settled(k) PROVE Due(k)'
    <3>1. CASE k \in ended
      <4>1. k \in excused' BY <3>1, <2>10, <2>1
      <4>2. cloudBusObjects'[k] = NoAgent BY <3>1, <2>8
      <4> QED BY <4>1, <4>2, <2>7 DEF Due, Settled, HasAgent
    <3>2. CASE k \notin ended
      <4>1. cloudBusObjects'[k] = cloudBusObjects[k] BY <3>2, <2>8
      <4>2. k \in excused => k \in excused' BY <2>1
      <4> QED BY <2>10, <4>1, <4>2, <2>7, <1>1 DEF Due, Settled, HasAgent
    <3> QED BY <3>1, <3>2
  <2>11. LastWordKept' BY <1>6, <2>9, <2>10
  <2>12. ServerTyped'
    BY <2>1, <2>2, <1>1, <1>2, AgentsAreEntries DEF AInv, ServerTyped
  <2>13. AgentsParsed' BY <2>8 DEF AInv, AgentsParsed
  <2>14. TodoTyped' BY <2>1 DEF AInv, TodoTyped
  <2> QED BY <2>11, <2>12, <2>13, <2>14, <1>4 DEF AInv
<1>9. CASE ReadOther
  <2>1. /\ document.kind = "other" /\ excused' = excused \cup SpokenOf(document)
        /\ UNCHANGED <<todo, cloudBusObjects>>
    BY <1>9 DEF ReadOther, document
  <2>2. \A k \in Keys : Asking(k)' = {} BY <2>1, <1>3 DEF Asking
  <2>3. document.tuples = <<>> BY <1>2, <2>1 DEF Documents
  <2>4. \A k \in SpokenOf(document) : Word(document, k) = NoService
    BY <2>3 DEF SpokenOf, Named, TuplesOf, Word
  <2>5. LastWordKept' BY <2>1, <2>2, <2>4, <1>1, <1>6 DEF Due, Settled, HasAgent
  <2>6. ServerTyped' BY <1>1, <1>2, <1>s, <2>1 DEF AInv, ServerTyped
  <2> QED BY <1>4, <2>1, <2>5, <2>6 DEF AInv, TodoTyped, AgentsParsed
<1> QED BY <1>7, <1>8, <1>9

\* Work on the first tuple touches nothing that is due to another service.
LEMMA WorkKeeps ==
    ASSUME AInv, UNCHANGED <<notifyVars, overtaken>>, ~Idle, MakingIsDue',
           cloudBusObjects' \in [Keys -> Entries], AgentsParsed', excused' \subseteq Keys,
           \A k \in Keys : k # Head(todo).key /\ Settled(k) => Settled(k)',
           \/ todo' = todo
           \/ /\ todo' = Tail(todo)
              /\ \A k \in Keys : k = Head(todo).key /\ Head(todo).xml = wanted[k] => Settled(k)'
    PROVE  AInv'
<1>1. UNCHANGED <<incomingNotifyQueue, notifies, wanted, overtaken>> BY DEF notifyVars
<1>2. ServerTyped' BY <1>1 DEF AInv, ServerTyped
<1> DEFINE n == Len(todo)
<1>3. /\ n \in Nat \ {0} /\ DOMAIN todo = 1 .. n /\ Head(todo) = todo[1]
      /\ todo' = Tail(todo) => /\ DOMAIN todo' = 1 .. n - 1
                               /\ \A i \in 1 .. n - 1 : todo'[i] = todo[i + 1]
      /\ todo' \in Seq(Orders)
  BY DEF AInv, TodoTyped, Idle
<1> HIDE DEF n
<1>4. ASSUME NEW k \in Keys, Due(k) PROVE Due(k)'
  <2>0. Asking(k) = {i \in 1 .. n : todo[i].key = k} BY <1>3 DEF Asking
  <2>1. k = Head(todo).key => 1 \in Asking(k) BY <2>0, <1>3
  <2>2. CASE todo' = todo
    <3>1. Asking(k)' = Asking(k) BY <2>2 DEF Asking
    <3>2. LastOrderIs(k) => LastOrderIs(k)' BY <3>1, <2>2, <1>1 DEF LastOrderIs
    <3>3. Asking(k) = {} /\ Settled(k) => Settled(k)' BY <2>1
    <3> QED BY <3>1, <3>2, <3>3, <1>4 DEF Due
  <2>3. CASE /\ todo' = Tail(todo)
             /\ \A l \in Keys : l = Head(todo).key /\ Head(todo).xml = wanted[l] => Settled(l)'
    <3> DEFINE Q == Asking(k)'
    <3>1. Q = {i \in 1 .. n - 1 : i + 1 \in Asking(k)}
      <4>1. Q = {i \in 1 .. n - 1 : todo'[i].key = k} BY <2>3, <1>3 DEF Asking
      <4>2. \A i \in 1 .. n - 1 : i + 1 \in 1 .. n BY <1>3
      <4> HIDE DEF Q
      <4> QED BY <4>1, <4>2, <2>0, <2>3, <1>3
    <3> HIDE DEF Q
    <3>2. CASE Asking(k) = {} /\ Settled(k)
      BY <3>1, <3>2, <2>1 DEF Due, Q
    <3>3. CASE LastOrderIs(k)
      <4>1. PICK i \in Asking(k) : (\A j \in Asking(k) : j <= i) /\ todo[i].xml = wanted[k]
        BY <3>3 DEF LastOrderIs
      <4>2. \/ i = 1 /\ Q = {}
            \/ i - 1 \in Q /\ \A j \in Q : j <= i - 1
        BY <4>1, <3>1, <2>0, <1>3, LastOfTail
      <4>3. CASE i = 1 /\ Q = {}
        <5>1. Head(todo).key = k /\ Head(todo).xml = wanted[k] BY <4>1, <4>3, <2>0, <1>3
        <5>2. Settled(k)' BY <5>1, <2>3
        <5> QED BY <4>3, <5>2 DEF Due, Q
      <4>4. CASE i - 1 \in Q /\ \A j \in Q : j <= i - 1
        <5>1. i - 1 \in 1 .. n - 1 /\ i - 1 + 1 = i BY <4>1, <4>4, <3>1, <2>0, <1>3
        <5>2. todo'[i - 1].xml = wanted'[k] BY <5>1, <4>1, <2>3, <1>1, <1>3
        <5> QED BY <4>4, <5>2 DEF Due, LastOrderIs, Q
      <4> QED BY <4>2, <4>3, <4>4
    <3> QED BY <3>2, <3>3, <1>4 DEF Due
  <2> QED BY <2>2, <2>3
<1>5. \A k : Speaking(k)' = Speaking(k) /\ LastWordQueued(k)' = LastWordQueued(k)
  BY <1>1 DEF Speaking, LastWordQueued
<1>6. LastWordKept' BY <1>4, <1>5 DEF AInv, LastWordKept
<1> QED BY <1>2, <1>3, <1>6 DEF AInv, TodoTyped

\* Agents that are cleaned up, and one that is put in place.
LEMMA CleanedUp ==
    ASSUME AInv, NEW keys \in SUBSET Keys,
           cloudBusObjects' = [k \in Keys |-> IF k \in keys THEN NoAgent ELSE cloudBusObjects[k]]
    PROVE  /\ cloudBusObjects' \in [Keys -> Entries] /\ AgentsParsed'
           /\ \A k \in Keys : IF k \in keys THEN cloudBusObjects'[k] = NoAgent
                                            ELSE cloudBusObjects'[k] = cloudBusObjects[k]
<1>1. \A k \in Keys : IF k \in keys THEN cloudBusObjects'[k] = NoAgent
                                    ELSE cloudBusObjects'[k] = cloudBusObjects[k]
  OBVIOUS
<1>2. cloudBusObjects' \in [Keys -> Entries] BY AgentsAreEntries DEF AInv, ServerTyped
<1>3. AgentsParsed' BY <1>1 DEF AInv, AgentsParsed
<1> QED BY <1>1, <1>2, <1>3

LEMMA WorkOfThread ==
    ASSUME AInv, Unsubscribe \/ UnsubscribeEvery \/ SubscribeAgain \/ PrepareFails
                 \/ PrepareNewAgent \/ RegisterAgent \/ RegisterFails
    PROVE  AInv'
<1>0. UNCHANGED <<notifyVars, overtaken>>
  BY DEF Unsubscribe, UnsubscribeEvery, SubscribeAgain, PrepareFails, PrepareNewAgent,
         RegisterAgent, RegisterFails, updateVars
<1>1. ~Idle
  BY DEF AInv, MakingIsDue, Unsubscribe, UnsubscribeEvery, Unsubscribing, SubscribeAgain,
         PrepareFails, PrepareNewAgent, RegisterAgent, RegisterFails, Subscribing
<1> DEFINE k0 == Head(todo).key
           x0 == Head(todo).xml
<1>2. Head(todo) \in Orders BY <1>1 DEF AInv, TodoTyped, Idle
<1>3. /\ wanted' = wanted /\ excused \subseteq Keys
      /\ cloudBusObjects \in [Keys -> Entries]
  BY <1>0 DEF notifyVars, AInv, ServerTyped
<1>4. making' = Nothing => MakingIsDue' BY DEF MakingIsDue
<1>5. /\ x0 # NoService => k0 \in Keys /\ x0 \in Descriptions
      /\ x0 = NoService /\ k0[2] # EveryService => k0 \in Keys
      /\ k0[2] = EveryService => k0 \notin Keys
  <2>1. EveryService \notin Services BY ServicesAssumption, Zenon
  <2> QED BY <1>2, <2>1 DEF Orders, Keys
<1>q. /\ cloudBusObjects' = cloudBusObjects => cloudBusObjects' \in [Keys -> Entries] /\ AgentsParsed'
      /\ \A k \in Keys : cloudBusObjects'[k] = cloudBusObjects[k] /\ (k \in excused => k \in excused')
            => (Settled(k) => Settled(k)')
  BY <1>3 DEF AInv, AgentsParsed, Settled, HasAgent
<1> HIDE DEF k0, x0
<1>6. CASE Unsubscribe
  <2>1. /\ x0 = NoService /\ k0[2] # EveryService /\ todo' = Tail(todo)
        /\ cloudBusObjects' = [k \in Keys |-> IF k \in {k0} THEN NoAgent ELSE cloudBusObjects[k]]
        /\ UNCHANGED <<making, excused>>
    BY <1>6 DEF Unsubscribe, Unsubscribing, Cleanup, k0, x0
  <2>2. k0 \in Keys BY <2>1, <1>5
  <2>3. /\ cloudBusObjects' \in [Keys -> Entries] /\ AgentsParsed'
        /\ \A k \in Keys : IF k \in {k0} THEN cloudBusObjects'[k] = NoAgent
                                         ELSE cloudBusObjects'[k] = cloudBusObjects[k]
    BY <2>1, <2>2, CleanedUp
  <2>4. making' = Nothing
    <3>1. NoService \notin Descriptions BY ServicesAssumption, Zenon
    <3> QED BY <3>1, <2>1 DEF AInv, MakingIsDue, x0
  <2>5. \A k \in Keys : k # k0 /\ Settled(k) => Settled(k)' BY <2>1, <2>3, <1>q
  <2>6. \A k \in Keys : k = k0 /\ x0 = wanted[k] => Settled(k)'
    BY <2>1, <2>3, <1>3 DEF Settled, NoAgent
  <2> QED BY <2>1, <2>3, <2>4, <2>5, <2>6, <1>0, <1>1, <1>3, <1>4, WorkKeeps DEF k0, x0
<1>7. CASE UnsubscribeEvery
  <2> DEFINE keys == UnsubscribeAll(k0[1])
  <2>1. /\ x0 = NoService /\ k0[2] = EveryService /\ todo' = Tail(todo)
        /\ cloudBusObjects' = [k \in Keys |-> IF k \in keys THEN NoAgent ELSE cloudBusObjects[k]]
        /\ excused' = excused \cup keys
        /\ UNCHANGED making
    BY <1>7 DEF UnsubscribeEvery, Unsubscribing, Cleanup, k0, x0
  <2>2. keys \in SUBSET Keys BY DEF UnsubscribeAll
  <2> HIDE DEF keys
  <2>3. /\ cloudBusObjects' \in [Keys -> Entries] /\ AgentsParsed'
        /\ \A k \in Keys : IF k \in keys THEN cloudBusObjects'[k] = NoAgent
                                         ELSE cloudBusObjects'[k] = cloudBusObjects[k]
    BY <2>1, <2>2, CleanedUp
  <2>4. making' = Nothing
    <3>1. NoService \notin Descriptions BY ServicesAssumption, Zenon
    <3> QED BY <3>1, <2>1 DEF AInv, MakingIsDue, x0
  <2>5. ASSUME NEW k \in Keys, Settled(k) PROVE Settled(k)'
    <3>1. CASE k \in keys BY <3>1, <2>1, <2>3 DEF Settled, HasAgent
    <3>2. CASE k \notin keys BY <3>2, <2>1, <2>3, <2>5, <1>q
    <3> QED BY <3>1, <3>2
  <2>6. \A k \in Keys : k # k0 BY <2>1, <1>5
  <2>7. excused' \subseteq Keys BY <2>1, <2>2, <1>3
  <2> QED BY <2>1, <2>3, <2>4, <2>5, <2>6, <2>7, <1>0, <1>1, <1>4, WorkKeeps DEF k0
<1>8. CASE SubscribeAgain
  <2>1. /\ x0 # NoService /\ making = Nothing /\ HasAgent(k0)
        /\ UNCHANGED <<making, excused>>
        /\ IF Compare(cloudBusObjects[k0].agent, x0)
           THEN todo' = Tail(todo) /\ cloudBusObjects' = cloudBusObjects
           ELSE Cleanup({k0}) /\ todo' = todo
    BY <1>8 DEF SubscribeAgain, Subscribing, k0, x0
  <2>2. k0 \in Keys /\ x0 \in Descriptions BY <2>1, <1>5
  <2>3. ~Compare(cloudBusObjects[k0].agent, x0)
    <3>1. PICK xml \in Descriptions : cloudBusObjects[k0] = AgentOf(xml)
      BY <2>1, <2>2 DEF AInv, AgentsParsed, HasAgent
    <3>2. cloudBusObjects[k0].agent = ParseXml(xml, {}) BY <3>1 DEF AgentOf
    <3>3. ~Compare(ParseXml(xml, {}), x0) BY <2>2, ServicesAssumption, Zenon
    <3> QED BY <3>2, <3>3, Zenon
  <2>4. /\ cloudBusObjects' = [k \in Keys |-> IF k \in {k0} THEN NoAgent ELSE cloudBusObjects[k]]
        /\ todo' = todo
    BY <2>1, <2>3 DEF Cleanup
  <2>5. /\ cloudBusObjects' \in [Keys -> Entries] /\ AgentsParsed'
        /\ \A k \in Keys : IF k \in {k0} THEN cloudBusObjects'[k] = NoAgent
                                         ELSE cloudBusObjects'[k] = cloudBusObjects[k]
    BY <2>2, <2>4, CleanedUp
  <2>6. \A k \in Keys : k # k0 /\ Settled(k) => Settled(k)' BY <2>1, <2>5, <1>q
  <2>7. making' = Nothing /\ excused' \subseteq Keys BY <2>1, <1>3
  <2> QED BY <2>4, <2>5, <2>6, <2>7, <1>0, <1>1, <1>4, WorkKeeps DEF k0
<1>9. CASE PrepareFails
  <2>1. /\ x0 # NoService /\ making = Nothing /\ ~HasAgent(k0)
        /\ excused' = excused \cup {k0} /\ todo' = Tail(todo)
        /\ UNCHANGED <<making, cloudBusObjects>>
    BY <1>9 DEF PrepareFails, Subscribing, k0, x0
  <2>2. k0 \in Keys BY <2>1, <1>5
  <2>3. \A k \in Keys : k = k0 => Settled(k)' BY <2>1 DEF Settled, HasAgent
  <2>4. \A k \in Keys : Settled(k) => Settled(k)' BY <2>1, <1>q
  <2>5. making' = Nothing /\ excused' \subseteq Keys BY <2>1, <2>2, <1>3
  <2>6. cloudBusObjects' \in [Keys -> Entries] /\ AgentsParsed' BY <2>1, <1>q
  <2> QED BY <2>1, <2>3, <2>4, <2>5, <2>6, <1>0, <1>1, <1>4, WorkKeeps DEF k0
<1>10. CASE PrepareNewAgent
  <2> DEFINE agent == PrepareAgent(x0, {cloudBusObjects[o].agent : o \in Keys})
  <2>1. agent = ParseXml(x0, {}) BY DEF PrepareAgent
  <2>2. /\ x0 # NoService /\ ~HasAgent(k0) /\ agent.ok
        /\ making' = [key |-> k0, entry |-> [xml |-> x0, agent |-> agent]]
        /\ UNCHANGED <<todo, cloudBusObjects, excused>>
    BY <1>10 DEF PrepareNewAgent, Subscribing, k0, x0
  <2> HIDE DEF agent
  <2>3. ParseXml(x0, {}).ok /\ making' = [key |-> k0, entry |-> AgentOf(x0)]
    BY <2>1, <2>2 DEF AgentOf
  <2>4. making'.key = k0 /\ making'.entry = AgentOf(x0) BY <2>3
  <2>5. Head(todo)'.key = k0 /\ Head(todo)'.xml = x0 /\ ~Idle'
    BY <2>2, <1>1 DEF Idle, k0, x0
  <2>6. x0 \in Descriptions BY <2>2, <1>5
  <2>7. MakingIsDue' BY <2>2, <2>3, <2>4, <2>5, <2>6 DEF MakingIsDue, HasAgent
  <2>8. cloudBusObjects' \in [Keys -> Entries] /\ AgentsParsed' BY <2>2, <1>q
  <2>9. \A k \in Keys : Settled(k) => Settled(k)' BY <2>2, <1>q
  <2>10. excused' \subseteq Keys BY <2>2, <1>3
  <2> QED BY <2>2, <2>7, <2>8, <2>9, <2>10, <1>0, <1>1, WorkKeeps
<1>11. CASE RegisterAgent
  <2>1. /\ making # Nothing /\ making.key = k0 /\ making' = Nothing /\ todo' = Tail(todo)
        /\ excused' = excused \ {making.key}
        /\ cloudBusObjects' = [cloudBusObjects EXCEPT ![making.key] = making.entry]
    BY <1>11 DEF RegisterAgent, AInv, MakingIsDue, k0
  <2>2. making.entry = AgentOf(x0) /\ x0 \in Descriptions /\ ParseXml(x0, {}).ok
    BY <2>1 DEF AInv, MakingIsDue, x0
  <2>3. k0 \in Keys
    <3>1. NoService \notin Descriptions BY ServicesAssumption, Zenon
    <3> QED BY <3>1, <2>2, <1>5
  <2>4. /\ cloudBusObjects' \in [Keys -> Entries] /\ cloudBusObjects'[k0] = AgentOf(x0)
        /\ \A k \in Keys : k # k0 => cloudBusObjects'[k] = cloudBusObjects[k]
    <3>1. AgentOf(x0) \in Entries BY <2>2, AgentsAreEntries
    <3> QED BY <3>1, <2>1, <2>2, <2>3, <1>3
  <2>5. AgentsParsed' BY <2>2, <2>4 DEF AInv, AgentsParsed
  <2>6. cloudBusObjects'[k0].xml = x0 BY <2>2, <2>4, AgentIsSome
  <2>7. \A k \in Keys : k = k0 /\ x0 = wanted[k] => Settled(k)' BY <2>6, <1>3 DEF Settled
  <2>8. \A k \in Keys : k # k0 /\ Settled(k) => Settled(k)' BY <2>1, <2>4, <1>q
  <2>9. excused' \subseteq Keys BY <2>1, <1>3
  <2> QED BY <2>1, <2>4, <2>5, <2>7, <2>8, <2>9, <1>0, <1>1, <1>4, WorkKeeps DEF k0, x0
<1>12. CASE RegisterFails
  <2>1. /\ making # Nothing /\ making.key = k0 /\ ~HasAgent(k0)
        /\ making' = Nothing /\ todo' = Tail(todo)
        /\ excused' = excused \cup {making.key} /\ cloudBusObjects' = cloudBusObjects
        /\ x0 \in Descriptions
    BY <1>12 DEF RegisterFails, AInv, MakingIsDue, k0, x0
  <2>2. k0 \in Keys
    <3>1. NoService \notin Descriptions BY ServicesAssumption, Zenon
    <3> QED BY <3>1, <2>1, <1>5
  <2>3. \A k \in Keys : k = k0 => Settled(k)' BY <2>1 DEF Settled, HasAgent
  <2>4. \A k \in Keys : Settled(k) => Settled(k)' BY <2>1, <1>q
  <2>5. excused' \subseteq Keys BY <2>1, <2>2, <1>3
  <2>6. cloudBusObjects' \in [Keys -> Entries] /\ AgentsParsed' BY <2>1, <1>q
  <2> QED BY <2>1, <2>3, <2>4, <2>5, <2>6, <1>0, <1>1, <1>4, WorkKeeps DEF k0
<1> QED BY <1>6, <1>7, <1>8, <1>9, <1>10, <1>11, <1>12

\* Sessions and updates are no concern of the agents.
LEMMA SessionsKeepAgents ==
    ASSUME AInv, UNCHANGED <<notifyVars, todo, agentVars>>, overtaken' \subseteq Sessions
    PROVE  AInv'
<1>1. UNCHANGED <<incomingNotifyQueue, notifies, wanted, todo, cloudBusObjects, making, excused>>
  BY DEF notifyVars, agentVars
<1>2. ServerTyped' /\ TodoTyped' /\ AgentsParsed'
  BY <1>1 DEF AInv, ServerTyped, TodoTyped, AgentsParsed
<1>3. MakingIsDue' BY <1>1 DEF AInv, MakingIsDue, Idle, HasAgent
<1>4. \A k \in Keys : Due(k)' <=> Due(k)
  BY <1>1 DEF Due, LastOrderIs, Asking, Settled, HasAgent
<1>5. LastWordKept' BY <1>1, <1>4 DEF AInv, LastWordKept, LastWordQueued, Speaking
<1> QED BY <1>2, <1>3, <1>5 DEF AInv

LEMMA StepAgents == AInv /\ [Next]_vars => AInv'
<1> SUFFICES ASSUME AInv, [Next]_vars PROVE AInv' OBVIOUS
<1>0. overtaken \subseteq Sessions BY DEF AInv, ServerTyped
<1>1. ASSUME NEW a \in Accounts, NotifyPresence(a) \/ NotifyEnd(a) \/ NotifyOther(a) PROVE AInv'
  BY <1>1, NotifyKeeps
<1>2. CASE NotificationThread
  BY <1>2, ReadKeeps, WorkOfThread DEF NotificationThread
<1>3. ASSUME NEW x \in Sessions, NEW k \in Keys, NEW j \in Joiners, SessionJoined(x, k, j)
      PROVE AInv'
  BY <1>3, <1>0, SessionsKeepAgents DEF SessionJoined
<1>4. ASSUME NEW x \in Sessions, SessionLost(x) PROVE AInv'
  BY <1>4, <1>0, SessionsKeepAgents DEF SessionLost
<1>5. ASSUME NEW u \in updates, DeliverUpdate(u) \/ DeliverUpdateTwice(u) PROVE AInv'
  <2>1. UpdateSignalHandlerInfoToLocal(u) BY <1>5 DEF DeliverUpdate, DeliverUpdateTwice
  <2>2. overtaken' \subseteq Sessions BY <2>1, <1>0 DEF UpdateSignalHandlerInfoToLocal
  <2> QED BY <2>1, <2>2, SessionsKeepAgents DEF UpdateSignalHandlerInfoToLocal
<1>6. CASE UNCHANGED vars BY <1>6, <1>0, SessionsKeepAgents DEF vars, updateVars
<1> QED BY <1>1, <1>2, <1>3, <1>4, <1>5, <1>6 DEF Next

LEMMA AgentsInvariance == Spec => []AInv
  BY InitAgents, StepAgents, PTL DEF Spec

\* The state is well typed, for any accounts, services and descriptions.
THEOREM TypeCorrect == Spec => []TypeOK
<1>1. ASSUME IInv, AInv PROVE TypeOK
  <2>1. /\ incomingNotifyQueue \in Seq(Documents) /\ notifies \in 0 .. MaxNotifies
        /\ wanted \in [Keys -> Descriptions \cup {NoService}]
        /\ cloudBusObjects \in [Keys -> Entries]
        /\ excused \subseteq Keys /\ overtaken \subseteq Sessions
        /\ todo \in Seq(Orders)
    BY <1>1 DEF AInv, ServerTyped, TodoTyped
  <2>2. making = Nothing \/ (~Idle /\ making.key = Head(todo).key /\ making.entry \in Entries)
    BY AgentsAreEntries, <1>1 DEF AInv, MakingIsDue
  <2>3. \A x \in Sessions : session[x].stage # "new" => session[x].key \in Keys
    BY <1>1 DEF IInv, SessionsTyped
  <2>4. \A u \in updates : u.key \in Keys BY <2>3, <1>1 DEF IInv, NewsOfSession
  <2>5. \A u \in delivered : u.key \in Keys BY <1>1 DEF IInv, SessionsTyped
  <2> QED BY <2>1, <2>2, <2>3, <2>4, <2>5 DEF TypeOK
<1> QED BY <1>1, Invariance, AgentsInvariance, PTL

\* Once the notification thread has nothing left to do, the agents are those of the
\* services the server last said to be open, whatever it said before and whichever
\* agents could not be made.
THEOREM AgentsFollow == Spec => []AgentsFollowPresence
<1>1. ASSUME AInv PROVE AgentsFollowPresence
  <2> SUFFICES ASSUME Idle, incomingNotifyQueue = <<>>, NEW k \in Keys PROVE Settled(k)
    BY DEF AgentsFollowPresence, WorkedOff, Settled
  <2>1. ~LastWordQueued(k) BY DEF LastWordQueued, Speaking
  <2>2. ~LastOrderIs(k) BY DEF LastOrderIs, Asking, Idle
  <2> QED BY <2>1, <2>2, <1>1 DEF AInv, LastWordKept, Due
<1> QED BY <1>1, AgentsInvariance, PTL

------------------------------------------------------------------------------
(* What ParseXml makes of a description, by induction over its elements.    *)

LEMMA Induct == ASSUME NEW S, 0 \in S, \A n \in Nat : n \in S => n + 1 \in S
                PROVE  \A n \in Nat : n \in S
<1> SUFFICES ASSUME Nat \ S # {} PROVE FALSE OBVIOUS
<1>1. PICK n \in Nat \ S : \A m \in Nat \ S : n <= m BY Least
<1>2. n # 0 /\ n \in Nat BY <1>1
<1>3. n - 1 \in Nat /\ n - 1 \in S BY <1>1, <1>2
<1>4. n - 1 + 1 \in S BY <1>3
<1> QED BY <1>2, <1>4

\* The agents of the first elements, element after element.
Parses(parsed, n, description, bus) ==
    parsed = [i \in 0 .. n |->
                IF i = 0 THEN NewAgent(bus) ELSE ParseElement(parsed[i - 1], description[i])]

LEMMA ParsesExists == ASSUME NEW description, NEW bus
                      PROVE  \A n \in Nat : \E parsed : Parses(parsed, n, description, bus)
<1> DEFINE S == {n \in Nat : \E parsed : Parses(parsed, n, description, bus)}
<1>1. 0 \in S
  <2>1. Parses([i \in 0 .. 0 |-> NewAgent(bus)], 0, description, bus) BY DEF Parses
  <2> QED BY <2>1
<1>2. ASSUME NEW n \in Nat, n \in S PROVE n + 1 \in S
  <2>1. PICK f : Parses(f, n, description, bus) BY <1>2
  <2> DEFINE g == [i \in 0 .. n + 1 |->
                     IF i = n + 1 THEN ParseElement(f[n], description[i]) ELSE f[i]]
  <2>2. ASSUME NEW i \in 0 .. n + 1
        PROVE g[i] = IF i = 0 THEN NewAgent(bus) ELSE ParseElement(g[i - 1], description[i])
    <3>1. CASE i = 0
      <4>1. f[0] = NewAgent(bus) BY <2>1 DEF Parses
      <4> QED BY <3>1, <4>1
    <3>2. CASE i = n + 1
      <4>1. g[i] = ParseElement(f[n], description[i]) /\ g[i - 1] = f[n] BY <3>2
      <4> QED BY <3>2, <4>1
    <3>3. CASE i \in 1 .. n
      <4>1. f[i] = ParseElement(f[i - 1], description[i]) BY <2>1, <3>3 DEF Parses
      <4>2. g[i] = f[i] /\ g[i - 1] = f[i - 1] BY <3>3
      <4> QED BY <3>3, <4>1, <4>2
    <3> QED BY <3>1, <3>2, <3>3
  <2>3. g = [i \in 0 .. n + 1 |->
               IF i = 0 THEN NewAgent(bus) ELSE ParseElement(g[i - 1], description[i])]
    BY <2>2
  <2>4. Parses(g, n + 1, description, bus) BY <2>3 DEF Parses
  <2> QED BY <2>4
<1> HIDE DEF S
<1>3. \A n \in Nat : n \in S BY <1>1, <1>2, Induct
<1> QED BY <1>3 DEF S

LEMMA ParseXmlParses ==
    ASSUME NEW description, NEW bus, Len(description) \in Nat
    PROVE  \E parsed : /\ Parses(parsed, Len(description), description, bus)
                       /\ ParseXml(description, bus) = parsed[Len(description)]
<1> DEFINE P(f) == f = [i \in 0 .. Len(description) |->
                          IF i = 0 THEN NewAgent(bus) ELSE ParseElement(f[i - 1], description[i])]
           parsed == CHOOSE f : P(f)
<1>1. \E f : P(f)
  <2>1. PICK f : Parses(f, Len(description), description, bus) BY ParsesExists
  <2> QED BY <2>1 DEF Parses
<1>2. P(parsed) BY <1>1
<1>3. ParseXml(description, bus) = parsed[Len(description)] BY DEF ParseXml
<1> HIDE DEF parsed
<1> QED BY <1>2, <1>3 DEF Parses

\* An agent has the objects of the nodes so far and, on some object each, the
\* interfaces created on its bus.
IsAgent(agent) ==
    /\ agent = [ok |-> agent.ok, objects |-> agent.objects, bus |-> agent.bus,
                implements |-> agent.implements, about |-> agent.about]
    /\ "/" \in agent.objects
Offers(agent, name) == \E o \in agent.objects : <<o, name>> \in agent.implements
AgentSoFar(agent, n, description) ==
    /\ IsAgent(agent)
    /\ agent.ok => /\ \A i \in 1 .. n : description[i].kind = "node"
                                            => description[i].object \in agent.objects
                   /\ \A i \in 1 .. n : description[i].kind = "interface"
                                            => description[i].name \in Standard \cup agent.bus
                   /\ \A name \in agent.bus : Offers(agent, name)

LEMMA ParseElementOffers ==
    ASSUME NEW description, InDocumentOrder(description), NEW n \in Nat,
           n + 1 <= Len(description), NEW agent, AgentSoFar(agent, n, description)
    PROVE  AgentSoFar(ParseElement(agent, description[n + 1]), n + 1, description)
<1> DEFINE e == description[n + 1]
           after == ParseElement(agent, e)
<1>1. n + 1 \in DOMAIN description BY DEF InDocumentOrder
<1>2. e.kind \in {"about", "node", "interface"} BY <1>1 DEF InDocumentOrder
<1>3. \A i \in 1 .. n + 1 : i \in 1 .. n \/ i = n + 1 OBVIOUS
<1>4. CASE ~agent.ok
  <2>1. after = agent BY <1>4 DEF ParseElement
  <2> QED BY <2>1, <1>4 DEF AgentSoFar
<1>5. CASE agent.ok /\ e.kind = "about"
  <2>1. after = [agent EXCEPT !.about = e.name + AddedEntries]
    BY <1>5 DEF ParseElement, ParseAbout
  <2>2. IsAgent(after) /\ after.ok = agent.ok /\ after.objects = agent.objects
        /\ after.bus = agent.bus /\ after.implements = agent.implements
    BY <2>1 DEF AgentSoFar, IsAgent
  <2> HIDE DEF after
  <2>9. AgentSoFar(after, n + 1, description)
    BY <2>2, <1>3, <1>5 DEF AgentSoFar, Offers
  <2> QED BY <2>9 DEF after
<1>6. CASE agent.ok /\ e.kind = "node"
  <2>1. after = ParseNode(agent, e) BY <1>6 DEF ParseElement
  <2>2. IsAgent(after) /\ after.bus = agent.bus
    BY <2>1 DEF AgentSoFar, IsAgent, ParseNode
  <2>3. after.ok => /\ after.objects = agent.objects \cup {e.object}
                    /\ agent.implements \subseteq after.implements
    BY <2>1 DEF AgentSoFar, IsAgent, ParseNode
  <2> HIDE DEF after
  <2>9. AgentSoFar(after, n + 1, description)
    BY <2>2, <2>3, <1>3, <1>6 DEF AgentSoFar, Offers
  <2> QED BY <2>9 DEF after
<1>7. CASE agent.ok /\ e.kind = "interface"
  <2>1. after = ParseInterface(agent, e) BY <1>7 DEF ParseElement
  <2>2. IsAgent(after) /\ after.objects = agent.objects
    BY <2>1 DEF AgentSoFar, IsAgent, ParseInterface
  <2>3. after.ok => \/ e.name \in Standard \cup agent.bus /\ after = agent
                    \/ /\ after.bus = agent.bus \cup {e.name}
                       /\ after.implements = agent.implements \cup {<<e.object, e.name>>}
    BY <2>1 DEF AgentSoFar, IsAgent, ParseInterface
  <2>4. e.object \in agent.objects
    <3>1. e.object = "/" \/ \E j \in 1 .. n : /\ description[j].kind = "node"
                                              /\ description[j].object = e.object
      BY <1>1, <1>7 DEF InDocumentOrder
    <3> QED BY <3>1, <1>7 DEF AgentSoFar, IsAgent
  <2> HIDE DEF after
  <2>9. AgentSoFar(after, n + 1, description)
    BY <2>2, <2>3, <2>4, <1>3, <1>7 DEF AgentSoFar, Offers
  <2> QED BY <2>9 DEF after
<1> QED BY <1>2, <1>4, <1>5, <1>6, <1>7

LEMMA ParseXmlOffers ==
    ASSUME NEW description, InDocumentOrder(description), ParseXml(description, {}).ok
    PROVE  \A name \in Described(description) : Offers(ParseXml(description, {}), name)
<1>0. Len(description) \in Nat /\ DOMAIN description = 1 .. Len(description)
  BY DEF InDocumentOrder
<1>1. PICK parsed : /\ Parses(parsed, Len(description), description, {})
                    /\ ParseXml(description, {}) = parsed[Len(description)]
  BY <1>0, ParseXmlParses
<1> DEFINE S == {n \in Nat : n <= Len(description) => AgentSoFar(parsed[n], n, description)}
<1>2. 0 \in S
  <2>1. parsed[0] = NewAgent({}) BY <1>0, <1>1 DEF Parses
  <2>2. AgentSoFar(NewAgent({}), 0, description) BY DEF AgentSoFar, IsAgent, NewAgent
  <2> QED BY <2>1, <2>2
<1>3. ASSUME NEW n \in Nat, n \in S PROVE n + 1 \in S
  <2> SUFFICES ASSUME n + 1 <= Len(description)
               PROVE  AgentSoFar(parsed[n + 1], n + 1, description)
    OBVIOUS
  <2>1. parsed[n + 1] = ParseElement(parsed[n], description[n + 1])
    BY <1>0, <1>1 DEF Parses
  <2>2. AgentSoFar(parsed[n], n, description) BY <1>0, <1>3
  <2> QED BY <2>1, <2>2, ParseElementOffers
<1> HIDE DEF S
<1>4. \A n \in Nat : n \in S BY <1>2, <1>3, Induct
<1>5. AgentSoFar(ParseXml(description, {}), Len(description), description)
  BY <1>0, <1>1, <1>4 DEF S
<1> QED BY <1>0, <1>5 DEF AgentSoFar, Described

\* Every agent offers every interface of its description on one of its objects at
\* least, for any descriptions and however many agents there are.
THEOREM AgentsOffer == Spec => []OffersDescription
<1>1. ASSUME AInv PROVE OffersDescription
  <2> SUFFICES ASSUME NEW k \in Keys, HasAgent(k), NEW name \in Described(cloudBusObjects[k].xml)
               PROVE  Offers(cloudBusObjects[k].agent, name)
    BY DEF OffersDescription, Offers
  <2>1. PICK xml \in Descriptions : cloudBusObjects[k] = AgentOf(xml) /\ ParseXml(xml, {}).ok
    BY <1>1 DEF AInv, AgentsParsed, HasAgent
  <2>2. InDocumentOrder(xml) BY ServicesAssumption, Zenon
  <2>3. cloudBusObjects[k].xml = xml /\ cloudBusObjects[k].agent = ParseXml(xml, {})
    BY <2>1 DEF AgentOf
  <2> QED BY <2>1, <2>2, <2>3, ParseXmlOffers
<1> QED BY <1>1, AgentsInvariance, PTL

==============================================================================
