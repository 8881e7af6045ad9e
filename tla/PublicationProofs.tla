-------------------------- MODULE PublicationProofs --------------------------
(***************************************************************************)
(* Theorems about what publishes: Publication, the tasks that share one    *)
(* condition variable, for any pool, any services and any answers; and     *)
(* SipSessions, the sessions their PUBLISHes and all other requests are    *)
(* sent with over Sofia, for any users, memory of operations and handles.  *)
(***************************************************************************)
EXTENDS Publication, SipSessions, FiniteSetTheorems, TLAPS

Woken == {t \in Tasks : phase[t] = "woken"}

\* A woken task is the claim to one entry: what was accepted covers the entries
\* made and the claims still open.
Covered == Cardinality(Woken) + Cardinality(publications) <= accepted + spurious

\* The tasks keep the map, the pool and the dispatcher in their types.
THEOREM TypeCorrect == Spec => []TypeOK
<1>1. Init => TypeOK
  BY PublicationAssumption DEF Init, TypeOK, Phases
<1>2. TypeOK /\ [Next]_vars => TypeOK'
  <2> SUFFICES ASSUME TypeOK, [Next]_vars PROVE TypeOK'
    OBVIOUS
  <2> USE PublicationAssumption DEF TypeOK, Phases, pool, dispatcher
  <2>1. ASSUME NEW s \in Services, Announced(s) PROVE TypeOK'
    BY <2>1 DEF Announced
  <2>2. ASSUME NEW s \in Services, PublishAccepted(s) PROVE TypeOK'
    <3>1. phase' \in [Tasks -> Phases]
      BY <2>2 DEF PublishAccepted, Notify
    <3>2. unanswered' \in [Services -> Nat]
      BY <2>2 DEF PublishAccepted
    <3>3. QED
      BY <2>2, <3>1, <3>2 DEF PublishAccepted
  <2>3. ASSUME NEW s \in Services, PublishRefused(s) PROVE TypeOK'
    BY <2>3 DEF PublishRefused
  <2>4. ASSUME NEW t \in Tasks, ExecuteTask(t) PROVE TypeOK'
    BY <2>4 DEF ExecuteTask, Goto
  <2>5. ASSUME NEW t \in Tasks, TaskGivesUp(t) PROVE TypeOK'
    BY <2>5 DEF TaskGivesUp, Goto
  <2>6. ASSUME NEW t \in Tasks, AlreadyPublished(t) PROVE TypeOK'
    BY <2>6 DEF AlreadyPublished, Goto
  <2>7. ASSUME NEW t \in Tasks, SendPublish(t) PROVE TypeOK'
    BY <2>7 DEF SendPublish, Goto
  <2>8. ASSUME NEW t \in Tasks, EnterWait(t) PROVE TypeOK'
    BY <2>8 DEF EnterWait, Goto
  <2>9. ASSUME NEW t \in Tasks, ReturnOk(t) PROVE TypeOK'
    BY <2>9 DEF ReturnOk, Goto
  <2>10. ASSUME NEW t \in Tasks, ReturnFailed(t) PROVE TypeOK'
    BY <2>10 DEF ReturnFailed, Goto
  <2>11. ASSUME NEW t \in Tasks, SpuriousWakeup(t) PROVE TypeOK'
    BY <2>11 DEF SpuriousWakeup, Goto
  <2>12. CASE UNCHANGED vars
    BY <2>12 DEF vars
  <2>13. QED
    BY <2>1, <2>2, <2>3, <2>4, <2>5, <2>6, <2>7, <2>8, <2>9, <2>10, <2>11, <2>12
    DEF Next, Run
<1>3. QED
  BY <1>1, <1>2, PTL DEF Spec

------------------------------------------------------------------------------
\* Both sets whose sizes are compared are finite.
LEMMA Finite ==
  ASSUME TypeOK
  PROVE  /\ IsFiniteSet(Woken) /\ Cardinality(Woken) \in Nat
         /\ IsFiniteSet(publications) /\ Cardinality(publications) \in Nat
BY PublicationAssumption, FS_Subset, FS_CardinalityType DEF Woken, TypeOK

\* Adding an element makes a finite set larger by one at most.
LEMMA AtMostOneMore ==
  ASSUME NEW S, NEW x, IsFiniteSet(S)
  PROVE  IsFiniteSet(S \cup {x}) /\ Cardinality(S \cup {x}) <= Cardinality(S) + 1
<1>1. Cardinality(S) \in Nat
  BY FS_CardinalityType
<1>2. /\ IsFiniteSet(S \cup {x})
      /\ x \in S => Cardinality(S \cup {x}) = Cardinality(S)
      /\ x \notin S => Cardinality(S \cup {x}) = Cardinality(S) + 1
  BY FS_AddElement, Zenon
<1>3. QED
  BY <1>1, <1>2

\* A wakeup adds one woken task at most, and everything else none.
LEMMA OneWoken ==
  ASSUME TypeOK, NEW t, Woken' \subseteq Woken \cup {t}
  PROVE  Cardinality(Woken') \in Nat /\ Cardinality(Woken') <= Cardinality(Woken) + 1
<1>1. /\ IsFiniteSet(Woken \cup {t})
      /\ Cardinality(Woken \cup {t}) <= Cardinality(Woken) + 1
  BY Finite, AtMostOneMore
<1>2. IsFiniteSet(Woken') /\ Cardinality(Woken') <= Cardinality(Woken \cup {t})
  BY <1>1, FS_Subset
<1>3. Cardinality(Woken') \in Nat /\ Cardinality(Woken \cup {t}) \in Nat
  BY <1>1, <1>2, FS_CardinalityType
<1>4. QED
  BY <1>1, <1>2, <1>3, Finite

LEMMA NoneWoken ==
  ASSUME TypeOK, Woken' \subseteq Woken
  PROVE  Cardinality(Woken') \in Nat /\ Cardinality(Woken') <= Cardinality(Woken)
BY Finite, FS_Subset, FS_CardinalityType

\* A step that wakes nobody and leaves map and counts alone keeps the books.
LEMMA QuietStep ==
  ASSUME TypeOK, Covered, Woken' \subseteq Woken,
         UNCHANGED <<publications, accepted, spurious>>
  PROVE  Covered'
BY NoneWoken, Finite DEF Covered, TypeOK

\* Entering a service uses up the wakeup of its task.
LEMMA EntryIsPaidFor ==
  ASSUME TypeOK, Covered, NEW t \in Tasks, ReturnOk(t)
  PROVE  Covered'
<1>1. t \in Woken /\ Woken' = Woken \ {t}
  BY DEF ReturnOk, Goto, Woken, TypeOK
<1>2. Cardinality(Woken') = Cardinality(Woken) - 1
  BY <1>1, Finite, FS_RemoveElement
<1>3. /\ Cardinality(publications') \in Nat
      /\ Cardinality(publications') <= Cardinality(publications) + 1
  <2>1. publications' = publications \cup {service[t]}
    BY DEF ReturnOk
  <2>2. /\ IsFiniteSet(publications')
        /\ Cardinality(publications') <= Cardinality(publications) + 1
    BY <2>1, Finite, AtMostOneMore
  <2>3. QED
    BY <2>2, FS_CardinalityType
<1>4. UNCHANGED <<accepted, spurious>>
  BY DEF ReturnOk
<1>5. QED
  BY <1>2, <1>3, <1>4, Finite DEF Covered, TypeOK

\* Every answer and every spurious wakeup pays for the task it wakes.
LEMMA WakeupIsCounted ==
  ASSUME TypeOK, Covered, NEW t, Woken' \subseteq Woken \cup {t},
         UNCHANGED publications,
         \/ accepted' = accepted + 1 /\ spurious' = spurious
         \/ accepted' = accepted /\ spurious' = spurious + 1
  PROVE  Covered'
<1>1. Cardinality(Woken') \in Nat /\ Cardinality(Woken') <= Cardinality(Woken) + 1
  BY OneWoken
<1>2. QED
  BY <1>1, Finite DEF Covered, TypeOK

LEMMA NextCovered == TypeOK /\ Covered /\ [Next]_vars => Covered'
<1> SUFFICES ASSUME TypeOK, Covered, [Next]_vars PROVE Covered'
  OBVIOUS
<1>1. ASSUME NEW s \in Services, Announced(s) \/ PublishRefused(s) PROVE Covered'
  BY <1>1, QuietStep DEF Announced, PublishRefused, Woken, pool
<1>2. ASSUME NEW s \in Services, PublishAccepted(s) PROVE Covered'
  <2>1. PICK t : Woken' \subseteq Woken \cup {t}
    BY <1>2 DEF PublishAccepted, Notify, Waiting, Woken, TypeOK
  <2>2. accepted' = accepted + 1 /\ UNCHANGED <<publications, spurious>>
    BY <1>2 DEF PublishAccepted
  <2>3. QED
    BY <2>1, <2>2, WakeupIsCounted
<1>3. ASSUME NEW t \in Tasks, ReturnOk(t) PROVE Covered'
  BY <1>3, EntryIsPaidFor
<1>4. ASSUME NEW t \in Tasks, SpuriousWakeup(t) PROVE Covered'
  <2>1. Woken' \subseteq Woken \cup {t}
    BY <1>4 DEF SpuriousWakeup, Goto, Woken, TypeOK
  <2>2. spurious' = spurious + 1 /\ UNCHANGED <<publications, accepted>>
    BY <1>4 DEF SpuriousWakeup
  <2>3. QED
    BY <2>1, <2>2, WakeupIsCounted
<1>5. ASSUME NEW t \in Tasks,
             \/ ExecuteTask(t) \/ TaskGivesUp(t) \/ AlreadyPublished(t)
             \/ SendPublish(t) \/ EnterWait(t) \/ ReturnFailed(t)
      PROVE  Covered'
  <2>1. /\ \E place \in {"free", "joining", "sent", "waiting"} :
             phase' = [phase EXCEPT ![t] = place]
        /\ UNCHANGED <<publications, accepted, spurious>>
    BY <1>5 DEF ExecuteTask, TaskGivesUp, AlreadyPublished, SendPublish, EnterWait,
                ReturnFailed, Goto
  <2>2. Woken' \subseteq Woken
    BY <2>1 DEF Woken, TypeOK
  <2>3. QED
    BY <2>1, <2>2, QuietStep
<1>6. CASE UNCHANGED vars
  BY <1>6, QuietStep DEF vars, Woken, pool
<1>7. QED
  BY <1>1, <1>2, <1>3, <1>4, <1>5, <1>6 DEF Next, Run

\* However the answers are mixed up, no more services are entered as published
\* than PUBLISHes were accepted, spurious wakeups aside.
THEOREM AnswersCoverEntries == Spec => []NoMoreThanAccepted
<1>1. Init => Covered
  <2>1. ASSUME Init PROVE Woken = {}
    BY <2>1 DEF Init, Woken
  <2>2. QED
    BY <2>1, FS_EmptySet DEF Init, Covered
<1>2. TypeOK /\ Covered => NoMoreThanAccepted
  BY Finite DEF Covered, NoMoreThanAccepted, TypeOK
<1>3. QED
  BY <1>1, <1>2, TypeCorrect, NextCovered, PTL DEF Spec

------------------------------------------------------------------------------
(* SipSessions.  The key is Owned: the operation of a living session, its   *)
(* handle and the handle's bare address of an operation agree, however      *)
(* memory is used again.                                                    *)

Living(u) == stage[u] # "none"
Addressed(u) == stage[u] \in {"addressed", "sent"}

\* A living session owns its operation, and nobody else owns its handle.
Owned == \A u \in Users :
    IF Living(u)
    THEN /\ session[u] \in Ops
         /\ handle[session[u]] = mine[u]
         /\ mine[u] \in Handles
         /\ owner[mine[u]] = u
    ELSE mine[u] = None

\* The handle of an operation that was made for a user knows it; handles of requests
\* that came in, which no user owns, may know another.
Bound == \A o \in Ops : handle[o] # None =>
    /\ magic[handle[o]] # None
    /\ owner[handle[o]] # None => magic[handle[o]] = o

\* A handle that was not made yet has nothing.
Fresh == \A h \in Handles : magic[h] = None =>
    /\ owner[h] = None /\ to[h] = None
    /\ \A r \in open : r.handle # h
    /\ answered # <<>> => answered[1] # h

\* The To of a handle is the peer of its user, if the user sets it there.
ToIsPeer ==
    /\ \A h \in Handles : to[h] # None => owner[h] \in Users \ StackWide
    /\ \A u \in Users : Addressed(u) =>
          IF u \in StackWide THEN stackTo # None ELSE to[mine[u]] = Peer[u]

SessionsInv == SipTypeOK /\ Owned /\ Bound /\ Fresh /\ ToIsPeer /\ ReachesPeer /\ ChallengeFindsRequest

LEMMA InitSessions == SipInit => SessionsInv
  BY SessionsAssumption DEF SipInit, SessionsInv, SipTypeOK, Owned, Bound, Fresh, ToIsPeer, ReachesPeer,
     ChallengeFindsRequest, Living, Addressed

LEMMA CreateKeeps == ASSUME SessionsInv, NEW u \in Users, Create(u) PROVE SessionsInv'
<1> PICK o \in Ops, h \in Handles :
        /\ handle[o] = None /\ magic[h] = None
        /\ session' = [session EXCEPT ![u] = o]
        /\ handle' = [handle EXCEPT ![o] = h]
        /\ magic' = [magic EXCEPT ![h] = o]
        /\ mine' = [mine EXCEPT ![u] = h]
        /\ owner' = [owner EXCEPT ![h] = u]
  BY DEF Create
<1> /\ stage' = [stage EXCEPT ![u] = "made"] /\ stage[u] = "none"
    /\ UNCHANGED <<to, stackTo, open, answered, alive>>
  BY DEF Create
<1>1. SipTypeOK' BY DEF SessionsInv, SipTypeOK
<1>2. Owned' BY SessionsAssumption DEF SessionsInv, SipTypeOK, Owned, Bound, Living
<1>3. Bound' BY SessionsAssumption DEF SessionsInv, SipTypeOK, Bound
<1>4. Fresh' BY SessionsAssumption DEF SessionsInv, SipTypeOK, Fresh
<1>5. ToIsPeer' BY SessionsAssumption DEF SessionsInv, SipTypeOK, ToIsPeer, Addressed, Owned, Living, Fresh
<1>6. ReachesPeer' BY SessionsAssumption DEF SessionsInv, SipTypeOK, ReachesPeer, Fresh
<1>7. ChallengeFindsRequest' BY SessionsAssumption DEF SessionsInv, SipTypeOK, ChallengeFindsRequest, Fresh
<1> QED BY <1>1, <1>2, <1>3, <1>4, <1>5, <1>6, <1>7 DEF SessionsInv

LEMMA SetToUriKeeps == ASSUME SessionsInv, NEW u \in Users, SetToUri(u) PROVE SessionsInv'
<1> USE SessionsAssumption DEF SessionsInv, SetToUri
<1>0. Peer[u] \in Uris /\ Peer[u] # None BY DEF Uris
<1>1. SipTypeOK' BY <1>0 DEF SipTypeOK, Owned, Living
<1>2. Owned' BY DEF SipTypeOK, Owned, Living
<1>3. Bound' BY DEF SipTypeOK, Bound
<1>4. Fresh' BY DEF SipTypeOK, Fresh, Owned, Living
<1>5. ToIsPeer' BY <1>0 DEF SipTypeOK, ToIsPeer, Addressed, Owned, Living
<1>6. ReachesPeer' BY DEF SipTypeOK, ReachesPeer
<1>7. ChallengeFindsRequest' BY DEF SipTypeOK, ChallengeFindsRequest
<1> QED BY <1>1, <1>2, <1>3, <1>4, <1>5, <1>6, <1>7

\* All kinds of requests.
LEMMA RequestKeeps == ASSUME SessionsInv, NEW u \in Users, Addressed(u), Request(u) PROVE SessionsInv'
<1> USE SessionsAssumption DEF SessionsInv, Request
<1> DEFINE h == mine[u]
<1>0. /\ h \in Handles /\ owner[h] = u
      /\ open' = open \cup {[handle |-> h, to |-> To(h)]}
      /\ stage' = [stage EXCEPT ![u] = "sent"]
  BY DEF Owned, Living, Addressed
<1>t. To(h) \in Uris /\ (u \notin StackWide => To(h) = Peer[u])
  BY <1>0 DEF To, ToIsPeer, SipTypeOK, Addressed, Uris
<1> HIDE DEF Request
<1>u. UNCHANGED <<session, handle, magic, mine, owner, to, stackTo, answered, alive>>
  BY DEF Request
<1>1. SipTypeOK' BY <1>0, <1>t, <1>u DEF SipTypeOK
<1>2. Owned' BY <1>0, <1>u DEF SipTypeOK, Owned, Living, Addressed
<1>3. Bound' BY <1>u DEF SipTypeOK, Bound
<1>4. Fresh' BY <1>0, <1>u DEF SipTypeOK, Fresh
<1>5. ToIsPeer' BY <1>0, <1>u DEF SipTypeOK, ToIsPeer, Addressed
<1>6. ReachesPeer' BY <1>0, <1>t, <1>u DEF SipTypeOK, ReachesPeer
<1>7. ChallengeFindsRequest' BY <1>u DEF SipTypeOK, ChallengeFindsRequest
<1> QED BY <1>1, <1>2, <1>3, <1>4, <1>5, <1>6, <1>7

LEMMA DeleteKeeps == ASSUME SessionsInv, NEW u \in Users, Delete(u) PROVE SessionsInv'
<1> USE SessionsAssumption DEF SessionsInv, Delete
<1>1. SipTypeOK' BY DEF SipTypeOK
<1>2. Owned' BY DEF SipTypeOK, Owned, Living
<1>3. Bound' BY DEF SipTypeOK, Bound
<1>4. Fresh' BY DEF SipTypeOK, Fresh
<1>5. ToIsPeer' BY DEF SipTypeOK, ToIsPeer, Addressed
<1>6. ReachesPeer' BY DEF SipTypeOK, ReachesPeer
<1>7. ChallengeFindsRequest' BY DEF SipTypeOK, ChallengeFindsRequest
<1> QED BY <1>1, <1>2, <1>3, <1>4, <1>5, <1>6, <1>7

LEMMA IncomingKeeps ==
    ASSUME SessionsInv, MessageComesIn \/ OptionsComesIn PROVE SessionsInv'
<1> USE SessionsAssumption DEF SessionsInv
<1>0. PICK h \in Handles, o \in Ops, first \in Ops :
        /\ magic[h] = None /\ magic' = [magic EXCEPT ![h] = o]
        /\ handle[first] = None
        /\ handle' = handle \/ handle' = [handle EXCEPT ![first] = h]
        /\ UNCHANGED <<stage, session, mine, owner, to, stackTo, open, answered, alive>>
  BY DEF MessageComesIn, OptionsComesIn
<1>1. SipTypeOK' BY <1>0 DEF SipTypeOK
<1>2. Owned' BY <1>0 DEF SipTypeOK, Owned, Living
<1>3. Bound' BY <1>0 DEF SipTypeOK, Bound, Fresh
<1>4. Fresh' BY <1>0 DEF SipTypeOK, Fresh
<1>5. ToIsPeer' BY <1>0 DEF SipTypeOK, ToIsPeer, Addressed
<1>6. ReachesPeer' BY <1>0 DEF SipTypeOK, ReachesPeer
<1>7. ChallengeFindsRequest' BY <1>0 DEF SipTypeOK, ChallengeFindsRequest
<1> QED BY <1>1, <1>2, <1>3, <1>4, <1>5, <1>6, <1>7

LEMMA AnsweredKeeps == ASSUME SessionsInv, NEW r \in open, Answered(r) PROVE SessionsInv'
<1> USE SessionsAssumption DEF SessionsInv, Answered
<1>1. SipTypeOK' BY DEF SipTypeOK
<1>2. Owned' /\ Bound' BY DEF SipTypeOK, Owned, Living, Bound
<1>3. Fresh' BY DEF SipTypeOK, Fresh
<1>4. ToIsPeer' BY DEF SipTypeOK, ToIsPeer, Addressed
<1>5. ReachesPeer' /\ ChallengeFindsRequest' BY DEF SipTypeOK, ReachesPeer, ChallengeFindsRequest
<1> QED BY <1>1, <1>2, <1>3, <1>4, <1>5

\* A challenge for a request whose session lives finds that request's handle in the
\* operation; what it finds otherwise concerns nobody.
LEMMA ChallengeKeeps ==
    ASSUME SessionsInv, NEW r \in open, Authenticate(r) \/ AuthenticateFreed(r) PROVE SessionsInv'
<1> USE SessionsAssumption DEF SessionsInv
<1>0. /\ UNCHANGED <<stage, session, handle, magic, mine, owner, to, stackTo, open>>
      /\ r.handle \in Handles /\ magic[r.handle] # None /\ magic[r.handle] \in Ops
      /\ \/ UNCHANGED answered /\ alive' = FALSE
         \/ \E h \in Handles :
             /\ answered' = <<r.handle, h>>
             /\ h # handle[magic[r.handle]] => handle[magic[r.handle]] = None
             /\ UNCHANGED alive
  BY DEF SipTypeOK, Fresh, Authenticate, AuthenticateFreed
<1>t. answered' \in {<<>>} \cup (Handles \X Handles) BY <1>0 DEF SipTypeOK
<1>a. alive' \in BOOLEAN BY <1>0 DEF SipTypeOK
<1>1. SipTypeOK' BY <1>0, <1>t, <1>a DEF SipTypeOK
<1>2. Owned' /\ Bound' BY <1>0 DEF SipTypeOK, Owned, Living, Bound
<1>3. Fresh' BY <1>0 DEF SipTypeOK, Fresh
<1>4. ToIsPeer' BY <1>0 DEF SipTypeOK, ToIsPeer, Addressed
<1>5. ReachesPeer' BY <1>0 DEF SipTypeOK, ReachesPeer
<1>6. ChallengeFindsRequest'
  <2>1. CASE UNCHANGED answered BY <2>1, <1>0 DEF ChallengeFindsRequest
  <2>2. CASE ~UNCHANGED answered
    <3>1. PICK h \in Handles : answered' = <<r.handle, h>>
              /\ (h # handle[magic[r.handle]] => handle[magic[r.handle]] = None)
      BY <1>0, <2>2
    <3>2. ASSUME NEW u \in Users, mine[u] = r.handle PROVE h = r.handle
      BY <3>1, <3>2, <1>0 DEF Owned, Living, Bound
    <3> QED BY <3>1, <3>2, <1>0 DEF ChallengeFindsRequest
  <2> QED BY <2>1, <2>2
<1> QED BY <1>1, <1>2, <1>3, <1>4, <1>5, <1>6

LEMMA StepSessions == SessionsInv /\ [SipNext]_sipVars => SessionsInv'
<1> SUFFICES ASSUME SessionsInv, [SipNext]_sipVars PROVE SessionsInv' OBVIOUS
<1> Callers \subseteq Users /\ {Publisher, Registrar, Heart, Subscriber} \subseteq Users
  BY DEF Users
<1>1. ASSUME NEW u \in Users, Create(u) PROVE SessionsInv' BY <1>1, CreateKeeps
<1>2. ASSUME NEW u \in Users, SetToUri(u) PROVE SessionsInv' BY <1>2, SetToUriKeeps
<1>3. ASSUME NEW u \in Users, Delete(u) PROVE SessionsInv' BY <1>3, DeleteKeeps
<1>4. ASSUME NEW u \in Callers, SendMessage(u) PROVE SessionsInv'
  BY <1>4, RequestKeeps DEF SendMessage, Addressed
<1>5. CASE Publish BY <1>5, RequestKeeps DEF Publish, Addressed
<1>6. CASE Register BY <1>6, RequestKeeps DEF Register, Addressed
<1>7. CASE Heartbeat BY <1>7, RequestKeeps DEF Heartbeat, Addressed
<1>8. CASE Subscribe BY <1>8, RequestKeeps DEF Subscribe, Addressed
<1>9. CASE Dispatch BY <1>9, IncomingKeeps, AnsweredKeeps, ChallengeKeeps DEF Dispatch
<1>10. CASE UNCHANGED sipVars
  BY <1>10 DEF sipVars, SessionsInv, SipTypeOK, Owned, Bound, Fresh, ToIsPeer, ReachesPeer,
     ChallengeFindsRequest, Living, Addressed
<1> QED BY <1>1, <1>2, <1>3, <1>4, <1>5, <1>6, <1>7, <1>8, <1>9, <1>10 DEF SipNext

LEMMA SessionsInvariance == SipSpec => []SessionsInv
  BY InitSessions, StepSessions, PTL DEF SipSpec

\* The users, the stack's thread and the memory they share keep the types.
THEOREM SessionsTypeCorrect == SipSpec => []SipTypeOK
<1>1. SessionsInv => SipTypeOK BY DEF SessionsInv
<1> QED BY <1>1, SessionsInvariance, PTL

\* MESSAGE, SUBSCRIBE and PUBLISH reach whom their session was made for, for any
\* number of users and however often memory is used again.
THEOREM RequestsReachPeers == SipSpec => []ReachesPeer
<1>1. SessionsInv => ReachesPeer BY DEF SessionsInv
<1> QED BY <1>1, SessionsInvariance, PTL

\* A challenge for the request of a living session authenticates that request.
THEOREM ChallengesFindRequests == SipSpec => []ChallengeFindsRequest
<1>1. SessionsInv => ChallengeFindsRequest BY DEF SessionsInv
<1> QED BY <1>1, SessionsInvariance, PTL

==============================================================================
