--------------------------- MODULE SyncQueueProofs ---------------------------
(***************************************************************************)
(* Proofs about SyncQueue for every set of readers, every set of values    *)
(* and every bound: the type invariant, that no value is lost, reordered   *)
(* or stranded, that no wakeup is lost, and that every step of the queue   *)
(* is a step of the Mailbox or leaves it alone.                            *)
(***************************************************************************)
EXTENDS SyncQueue, SequenceTheorems, FiniteSetTheorems, TLAPS

\* The type invariant is inductive: every method of SyncQueue leaves the queue,
\* its two flags, the threads and the histories in their types.
THEOREM TypeCorrect == Spec => []TypeOK
<1>1. Init => TypeOK
  <2>1. <<>> \in Seq(Values)
    BY EmptySeq
  <2>2. 0 \in Nat
    OBVIOUS
  <2>3. QED BY <2>1, <2>2 DEF Init, TypeOK, Places
<1>2. TypeOK /\ [Next]_vars => TypeOK'
  <2> SUFFICES ASSUME TypeOK, [Next]_vars
               PROVE  TypeOK'
    OBVIOUS
  <2> USE DEF TypeOK, Places
  <2>1. ASSUME NotifyOne PROVE thread' \in [Consumers -> Places]
    BY <2>1 DEF NotifyOne, At
  <2>2. ASSUME NEW v \in Values, Enqueue(v) PROVE TypeOK'
    <3>1. queue' \in Seq(Values) /\ accepted' \in Seq(Values)
      BY <2>2, AppendProperties DEF Enqueue
    <3>2. thread' \in [Consumers -> Places]
      BY <2>1, <2>2 DEF Enqueue
    <3>3. QED BY <2>2, <3>1, <3>2 DEF Enqueue
  <2>3. ASSUME NEW c \in Consumers, Locked(c),
               UNCHANGED <<requestToEnd, stops, accepted>>
        PROVE  TypeOK'
    <3>1. CASE KeepWaiting(c)
      BY <2>3, <3>1 DEF KeepWaiting
    <3>2. CASE ReturnEnd(c)
      BY <2>3, <3>2, EmptySeq DEF ReturnEnd, DoEndActions
    <3>3. CASE ReturnFront(c)
      <4>1. Head(queue) \in Values /\ Tail(queue) \in Seq(Values)
        BY <3>3, HeadTailProperties DEF ReturnFront
      <4>2. taken' \in Seq(Values)
        BY <3>3, <4>1, AppendProperties DEF ReturnFront
      <4>3. QED BY <2>3, <3>3, <4>1, <4>2 DEF ReturnFront
    <3>4. QED BY <2>3, <3>1, <3>2, <3>3 DEF Locked
  <2>4. ASSUME NEW c \in Consumers, TryDequeue(c) PROVE TypeOK'
    BY <2>3, <2>4 DEF TryDequeue
  <2>5. ASSUME NEW c \in Consumers, ResumeWait(c) PROVE TypeOK'
    BY <2>3, <2>5 DEF ResumeWait
  <2>6. ASSUME NEW c \in Consumers, SpuriousWakeup(c) PROVE TypeOK'
    BY <2>6 DEF SpuriousWakeup
  <2>7. CASE StopQueue
    BY <2>1, <2>7 DEF StopQueue
  <2>8. CASE UNCHANGED vars
    BY <2>8 DEF vars
  <2>9. QED BY <2>2, <2>4, <2>5, <2>6, <2>7, <2>8 DEF Next
<1>3. QED BY <1>1, <1>2, PTL DEF Spec

------------------------------------------------------------------------------
\* Moving the front of one sequence to the end of another keeps the
\* concatenation: what ReturnFront does to taken and queue.
LEMMA MoveFront ==
  ASSUME NEW S, NEW s \in Seq(S), NEW t \in Seq(S), t # <<>>
  PROVE  Append(s, Head(t)) \o Tail(t) = s \o t
<1> DEFINE l == Append(s, Head(t)) \o Tail(t)
           r == s \o t
<1>1. Head(t) \in S /\ Tail(t) \in Seq(S) /\ Len(Tail(t)) = Len(t) - 1
  BY HeadTailProperties
<1>2. Append(s, Head(t)) \in Seq(S) /\ Len(Append(s, Head(t))) = Len(s) + 1
  BY <1>1, AppendProperties
<1>3. l \in Seq(S) /\ r \in Seq(S)
  BY <1>1, <1>2, ConcatProperties
<1>4. Len(l) = Len(r)
  BY <1>1, <1>2, ConcatProperties, LenProperties
<1>5. ASSUME NEW i \in 1 .. Len(l) PROVE l[i] = r[i]
  BY <1>1, <1>2, <1>4, <1>5, ConcatProperties, AppendProperties,
     HeadTailProperties, LenProperties
<1>6. QED BY <1>3, <1>4, <1>5, SeqEqual

\* While the queue is open the readers have got exactly a prefix of what was
\* enqueued, in order, and the rest is queued.
THEOREM NoValueLost == Spec => []NothingLost
<1>1. Init => NothingLost
  BY DEF Init, NothingLost
<1>2. TypeOK /\ NothingLost /\ [Next]_vars => NothingLost'
  <2> SUFFICES ASSUME TypeOK, NothingLost, [Next]_vars
               PROVE  NothingLost'
    OBVIOUS
  <2> USE DEF NothingLost
  <2>1. ASSUME NEW v \in Values, Enqueue(v) PROVE NothingLost'
    <3>1. accepted = taken \o queue
      BY <2>1 DEF Enqueue
    <3>2. Append(taken \o queue, v) = taken \o Append(queue, v)
      <4>1. taken \o queue \in Seq(Values)
        BY ConcatProperties DEF TypeOK
      <4>2. <<v>> \in Seq(Values)
        OBVIOUS
      <4>3. Append(queue, v) = queue \o <<v>>
            /\ Append(taken \o queue, v) = (taken \o queue) \o <<v>>
        BY <4>1, AppendIsConcat DEF TypeOK
      <4>4. QED BY <4>2, <4>3, ConcatAssociative DEF TypeOK
    <3>3. QED BY <2>1, <3>1, <3>2 DEF Enqueue
  <2>2. ASSUME NEW c \in Consumers, Locked(c), UNCHANGED accepted
        PROVE  NothingLost'
    <3>1. CASE KeepWaiting(c)
      BY <2>2, <3>1 DEF KeepWaiting
    <3>2. CASE ReturnEnd(c)
      BY <3>2 DEF ReturnEnd, DoEndActions
    <3>3. CASE ReturnFront(c)
      BY <2>2, <3>3, MoveFront DEF ReturnFront, TypeOK
    <3>4. QED BY <2>2, <3>1, <3>2, <3>3 DEF Locked
  <2>3. ASSUME NEW c \in Consumers, TryDequeue(c) PROVE NothingLost'
    BY <2>2, <2>3 DEF TryDequeue
  <2>4. ASSUME NEW c \in Consumers, ResumeWait(c) PROVE NothingLost'
    BY <2>2, <2>4 DEF ResumeWait
  <2>5. ASSUME NEW c \in Consumers, SpuriousWakeup(c) PROVE NothingLost'
    BY <2>5 DEF SpuriousWakeup
  <2>6. CASE StopQueue
    BY <2>6 DEF StopQueue
  <2>7. CASE UNCHANGED vars
    BY <2>7 DEF vars
  <2>8. QED BY <2>1, <2>3, <2>4, <2>5, <2>6, <2>7 DEF Next
<1>3. QED BY <1>1, <1>2, TypeCorrect, PTL DEF Spec

------------------------------------------------------------------------------
\* The end is carried out as a whole: a reader that left its loop has closed and
\* emptied the queue.
EndedClosed == At("ended") # {} => ~enqueueData /\ queue = <<>>

\* Once a reader has left its loop nothing is queued and nothing will be.
THEOREM NoValueStranded == Spec => []NothingStranded
<1>1. Init => EndedClosed
  BY DEF Init, EndedClosed, At
<1>2. TypeOK /\ EndedClosed /\ [Next]_vars => EndedClosed'
  <2> SUFFICES ASSUME TypeOK, EndedClosed, [Next]_vars
               PROVE  EndedClosed'
    OBVIOUS
  <2> USE DEF EndedClosed, At
  <2>1. ASSUME NotifyOne PROVE At("ended")' \subseteq At("ended")
    BY <2>1 DEF NotifyOne, TypeOK
  <2>2. ASSUME NEW v \in Values, Enqueue(v) PROVE EndedClosed'
    BY <2>1, <2>2 DEF Enqueue
  <2>3. ASSUME NEW c \in Consumers, thread[c] # "ended", Locked(c)
        PROVE  EndedClosed'
    BY <2>3 DEF Locked, KeepWaiting, ReturnEnd, DoEndActions, ReturnFront, TypeOK
  <2>4. ASSUME NEW c \in Consumers, TryDequeue(c) PROVE EndedClosed'
    BY <2>3, <2>4 DEF TryDequeue
  <2>5. ASSUME NEW c \in Consumers, ResumeWait(c) PROVE EndedClosed'
    BY <2>3, <2>5 DEF ResumeWait
  <2>6. ASSUME NEW c \in Consumers, SpuriousWakeup(c) PROVE EndedClosed'
    BY <2>6 DEF SpuriousWakeup, TypeOK
  <2>7. CASE StopQueue
    BY <2>1, <2>7 DEF StopQueue
  <2>8. CASE UNCHANGED vars
    BY <2>8 DEF vars
  <2>9. QED BY <2>2, <2>4, <2>5, <2>6, <2>7, <2>8 DEF Next
<1>3. EndedClosed => NothingStranded
  BY DEF EndedClosed, NothingStranded
<1>4. QED BY <1>1, <1>2, <1>3, TypeCorrect, PTL DEF Spec

------------------------------------------------------------------------------
\* Sets of threads are finite, so they can be counted.
LEMMA AtFinite ==
  ASSUME NEW place
  PROVE  IsFiniteSet(At(place)) /\ Cardinality(At(place)) \in Nat
BY QueueAssumption, FS_Subset, FS_CardinalityType DEF At

\* Waking a blocked thread makes one more notified thread.
LEMMA OneMoreNotified ==
  ASSUME TypeOK, NEW c \in At("blocked"),
         thread' = [thread EXCEPT ![c] = "notified"]
  PROVE  Cardinality(At("notified")') = Cardinality(At("notified")) + 1
<1>1. At("notified")' = At("notified") \cup {c} /\ c \notin At("notified")
  BY DEF At, TypeOK
<1>2. QED BY <1>1, AtFinite, FS_AddElement

\* No wakeup is lost, for any number of readers: with somebody asleep there are
\* at least as many woken threads as queued values.  The invariant is inductive:
\* a thread goes to sleep only on an empty queue, and afterwards every Enqueue
\* wakes one more thread while every value taken costs at most one woken thread.
THEOREM NoWakeupLost == Spec => []EnoughWakeups
<1>1. Init => EnoughWakeups
  BY DEF Init, EnoughWakeups, At
<1>2. TypeOK /\ EnoughWakeups /\ [Next]_vars => EnoughWakeups'
  <2> SUFFICES ASSUME TypeOK, EnoughWakeups, [Next]_vars,
                      At("blocked")' # {}
               PROVE  Len(queue') <= Cardinality(At("notified")')
    BY DEF EnoughWakeups
  <2> DEFINE n == Cardinality(At("notified"))
             goal == Len(queue') <= Cardinality(At("notified")')
  <2>1. n \in Nat /\ Len(queue) \in Nat
    BY AtFinite, LenProperties DEF TypeOK
  <2>2. ASSUME NotifyOne
        PROVE  Cardinality(At("notified")') = n + 1 /\ At("blocked") # {}
    <3>1. At("blocked") # {}
      BY <2>2 DEF NotifyOne, At
    <3>2. QED BY <2>2, <3>1, OneMoreNotified DEF NotifyOne
  <2>3. ASSUME NEW v \in Values, Enqueue(v) PROVE goal
    <3>1. Len(queue') = Len(queue) + 1
      BY <2>3, AppendProperties DEF Enqueue, TypeOK
    <3>2. QED BY <2>1, <2>2, <2>3, <3>1 DEF Enqueue, EnoughWakeups
  <2>4. ASSUME NEW c \in Consumers, Locked(c), queue' = <<>> PROVE goal
    <3>1. Cardinality(At("notified")') \in Nat
      <4>1. IsFiniteSet(At("notified")')
        BY QueueAssumption, FS_Subset DEF At
      <4>2. QED BY <4>1, FS_CardinalityType
    <3>2. QED BY <2>4, <3>1, EmptySeq
  <2>5. ASSUME NEW c \in Consumers, ReturnFront(c),
               thread[c] \in {"outside", "notified"}
        PROVE  goal
    <3>1. Len(queue') = Len(queue) - 1
      BY <2>5, HeadTailProperties DEF ReturnFront, TypeOK
    <3>2. At("blocked")' = At("blocked") /\ At("notified")' = At("notified") \ {c}
      BY <2>5 DEF ReturnFront, At, TypeOK
    <3>3. Cardinality(At("notified")') >= n - 1
      <4>1. Cardinality(At("notified") \ {c}) =
              IF c \in At("notified") THEN n - 1 ELSE n
        BY AtFinite, FS_RemoveElement
      <4>2. Cardinality(At("notified")') = Cardinality(At("notified") \ {c})
        BY <3>2
      <4> HIDE DEF n
      <4>3. QED BY <2>1, <4>1, <4>2
    <3>4. Cardinality(At("notified")') \in Nat
      BY <3>2, AtFinite, FS_RemoveElement, FS_CardinalityType
    <3>5. Len(queue) <= n
      BY <3>2 DEF EnoughWakeups
    <3>6. QED BY <2>1, <3>1, <3>3, <3>4, <3>5
  <2>6. ASSUME NEW c \in Consumers, Locked(c),
               thread[c] \in {"outside", "notified"}
        PROVE  goal
    <3>1. CASE ReturnFront(c)
      BY <2>5, <2>6, <3>1
    <3>2. CASE KeepWaiting(c) \/ ReturnEnd(c)
      BY <2>4, <2>6, <3>2 DEF KeepWaiting, ReturnEnd, DoEndActions
    <3>3. QED BY <2>6, <3>1, <3>2 DEF Locked
  <2>7. ASSUME NEW c \in Consumers, TryDequeue(c) \/ ResumeWait(c) PROVE goal
    BY <2>6, <2>7 DEF TryDequeue, ResumeWait
  <2>8. ASSUME NEW c \in Consumers, SpuriousWakeup(c) PROVE goal
    <3>1. c \in At("blocked")
      BY <2>8 DEF SpuriousWakeup, At
    <3>2. Cardinality(At("notified")') = n + 1
      BY <2>8, <3>1, OneMoreNotified DEF SpuriousWakeup
    <3>3. Len(queue) <= n /\ queue' = queue
      BY <2>8, <3>1 DEF SpuriousWakeup, EnoughWakeups
    <3>4. QED BY <2>1, <3>2, <3>3
  <2>9. CASE StopQueue
    BY <2>1, <2>2, <2>9 DEF StopQueue, EnoughWakeups
  <2>10. CASE UNCHANGED vars
    BY <2>10 DEF vars, EnoughWakeups, At
  <2>11. QED BY <2>3, <2>7, <2>8, <2>9, <2>10 DEF Next
<1>3. QED BY <1>1, <1>2, TypeCorrect, PTL DEF Spec

------------------------------------------------------------------------------
\* The queue is a Mailbox to its users: with the threads forgotten every step
\* puts, takes, closes, discards, or changes nothing.  NothingLost is needed for
\* the bound of Put, which counts what is pending and what was handed over.
THEOREM QueueIsMailbox == Spec => Channel!MInit /\ [][Channel!MNext]_(Channel!mvars)
<1>1. Init => Channel!MInit
  BY DEF Init, Channel!MInit
<1>2. TypeOK /\ NothingLost /\ [Next]_vars => [Channel!MNext]_(Channel!mvars)
  <2> SUFFICES ASSUME TypeOK, NothingLost, [Next]_vars
               PROVE  Channel!MNext \/ UNCHANGED Channel!mvars
    OBVIOUS
  <2> USE DEF Channel!MNext, Channel!mvars
  <2>1. ASSUME NEW v \in Values, Enqueue(v) PROVE Channel!Put(v)
    <3>1. Len(accepted) = Len(taken) + Len(queue)
      BY <2>1, ConcatProperties DEF Enqueue, NothingLost, TypeOK
    <3>2. Len(queue) + Len(taken) < MaxEnqueues
      BY <2>1, <3>1, LenProperties, QueueAssumption DEF Enqueue, TypeOK
    <3>3. QED BY <2>1, <3>2 DEF Enqueue, Channel!Put
  <2>2. ASSUME NEW c \in Consumers, Locked(c), UNCHANGED requestToEnd
        PROVE  Channel!Take \/ Channel!Discard \/ UNCHANGED Channel!mvars
    BY <2>2 DEF Locked, KeepWaiting, ReturnEnd, DoEndActions, ReturnFront,
                Channel!Take, Channel!Discard
  <2>3. ASSUME NEW c \in Consumers, TryDequeue(c) \/ ResumeWait(c)
        PROVE  Channel!MNext \/ UNCHANGED Channel!mvars
    BY <2>2, <2>3 DEF TryDequeue, ResumeWait
  <2>4. ASSUME NEW c \in Consumers, SpuriousWakeup(c)
        PROVE  UNCHANGED Channel!mvars
    BY <2>4 DEF SpuriousWakeup
  <2>5. CASE StopQueue
    BY <2>5 DEF StopQueue, Channel!RequestClose
  <2>6. CASE UNCHANGED vars
    BY <2>6 DEF vars
  <2>7. QED BY <2>1, <2>3, <2>4, <2>5, <2>6 DEF Next
<1>3. QED BY <1>1, <1>2, TypeCorrect, NoValueLost, PTL DEF Spec

==============================================================================
