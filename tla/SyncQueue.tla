------------------------------ MODULE SyncQueue ------------------------------
(***************************************************************************)
(* Inc/Common/SyncQueue.h: a queue guarded by one mutex and one condition  *)
(* variable.  Every method holds m_mutex from its first to its last line,  *)
(* so it is one step, except TryDequeue, which gives the mutex up inside   *)
(* m_cond.wait: a consumer thread is outside the queue, blocked in the     *)
(* wait, notified (it has been woken and will take the mutex again), or it *)
(* has left its loop because TryDequeue returned false.  notify_one wakes  *)
(* any one of the blocked threads, and a thread may wake up on its own.    *)
(* Operators marked "Faulty" are wrong versions of the one that follows    *)
(* them; they serve to show that the properties notice the difference.     *)
(*                                                                         *)
(* The queue is instantiated three times in IMSTransport: regCmdQueue,     *)
(* incomingMsgQueue and incomingNotifyQueue.                               *)
(***************************************************************************)
EXTENDS Naturals, Sequences, FiniteSets

CONSTANTS Consumers,    \* the threads that call TryDequeue in a loop
          Values,       \* the queued data
          MaxEnqueues,  \* bound: number of accepted Enqueue calls
          MaxStops      \* bound: number of StopQueue calls

ASSUME QueueAssumption ==
    /\ IsFiniteSet(Consumers)
    /\ MaxEnqueues \in Nat
    /\ MaxStops \in Nat

VARIABLES queue,         \* m_queue
          requestToEnd,  \* RequestToEnd
          enqueueData,   \* EnqueueData
          thread,        \* where each consumer thread is
          stops,         \* number of StopQueue calls so far
          accepted,      \* history: everything Enqueue pushed
          taken          \* history: everything TryDequeue returned

vars == <<queue, requestToEnd, enqueueData, thread, stops, accepted, taken>>

Places == {"outside", "blocked", "notified", "ended"}
At(place) == {c \in Consumers : thread[c] = place}

Init ==
    /\ queue = <<>>
    /\ requestToEnd = FALSE
    /\ enqueueData = TRUE
    /\ thread = [c \in Consumers |-> "outside"]
    /\ stops = 0
    /\ accepted = <<>>
    /\ taken = <<>>

------------------------------------------------------------------------------
\* m_cond.notify_one(): one blocked thread, if there is one.
NotifyOne ==
    \/ At("blocked") = {} /\ UNCHANGED thread
    \/ \E c \in At("blocked") : thread' = [thread EXCEPT ![c] = "notified"]

\* Faulty: EnqueueData is not looked at.
EnqueueAlways(v) ==
    /\ Len(accepted) < MaxEnqueues
    /\ queue' = Append(queue, v)
    /\ accepted' = Append(accepted, v)
    /\ NotifyOne
    /\ UNCHANGED <<requestToEnd, enqueueData, stops, taken>>

\* Faulty: a stack instead of a queue.
EnqueueInFront(v) ==
    /\ enqueueData
    /\ Len(accepted) < MaxEnqueues
    /\ queue' = <<v>> \o queue
    /\ accepted' = Append(accepted, v)
    /\ NotifyOne
    /\ UNCHANGED <<requestToEnd, enqueueData, stops, taken>>

\* Faulty: signals only when the queue was empty.
EnqueueSignalFirst(v) ==
    /\ enqueueData
    /\ Len(accepted) < MaxEnqueues
    /\ queue' = Append(queue, v)
    /\ accepted' = Append(accepted, v)
    /\ IF queue = <<>> THEN NotifyOne ELSE UNCHANGED thread
    /\ UNCHANGED <<requestToEnd, enqueueData, stops, taken>>

\* Faulty: pushes a reference to the datum.
EnqueueReference(v) ==
    /\ enqueueData
    /\ Len(accepted) < MaxEnqueues
    /\ queue' = Append(queue, <<v>>)
    /\ accepted' = Append(accepted, v)
    /\ NotifyOne
    /\ UNCHANGED <<requestToEnd, enqueueData, stops, taken>>

\* A call that finds EnqueueData false changes nothing, so it is no action.
Enqueue(v) ==
    /\ enqueueData
    /\ Len(accepted) < MaxEnqueues
    /\ queue' = Append(queue, v)
    /\ accepted' = Append(accepted, v)
    /\ NotifyOne
    /\ UNCHANGED <<requestToEnd, enqueueData, stops, taken>>

------------------------------------------------------------------------------
DoEndActions ==
    /\ enqueueData' = FALSE
    /\ queue' = <<>>

\* The loop condition is true: the thread goes back to m_cond.wait.
KeepWaiting(c) ==
    /\ queue = <<>> /\ ~requestToEnd
    /\ thread' = [thread EXCEPT ![c] = "blocked"]
    /\ UNCHANGED <<queue, enqueueData, taken>>

ReturnEnd(c) ==
    /\ requestToEnd
    /\ DoEndActions
    /\ thread' = [thread EXCEPT ![c] = "ended"]
    /\ UNCHANGED taken

\* Faulty: what is pending is handed out although the end is requested.
ReturnFrontFirst(c) ==
    /\ queue # <<>>
    /\ taken' = Append(taken, Head(queue))
    /\ queue' = Tail(queue)
    /\ thread' = [thread EXCEPT ![c] = "outside"]
    /\ UNCHANGED enqueueData

ReturnFront(c) ==
    /\ queue # <<>> /\ ~requestToEnd
    /\ taken' = Append(taken, Head(queue))
    /\ queue' = Tail(queue)
    /\ thread' = [thread EXCEPT ![c] = "outside"]
    /\ UNCHANGED enqueueData

\* The body of TryDequeue from the point where c owns the mutex.
Locked(c) == KeepWaiting(c) \/ ReturnEnd(c) \/ ReturnFront(c)

TryDequeue(c) ==
    /\ thread[c] = "outside"
    /\ Locked(c)
    /\ UNCHANGED <<requestToEnd, stops, accepted>>

ResumeWait(c) ==
    /\ thread[c] = "notified"
    /\ Locked(c)
    /\ UNCHANGED <<requestToEnd, stops, accepted>>

SpuriousWakeup(c) ==
    /\ thread[c] = "blocked"
    /\ thread' = [thread EXCEPT ![c] = "notified"]
    /\ UNCHANGED <<queue, requestToEnd, enqueueData, stops, accepted, taken>>

------------------------------------------------------------------------------
\* Faulty: nobody is told.
StopQueueSilently ==
    /\ stops < MaxStops
    /\ stops' = stops + 1
    /\ requestToEnd' = TRUE
    /\ UNCHANGED <<queue, enqueueData, thread, accepted, taken>>

StopQueue ==
    /\ stops < MaxStops
    /\ stops' = stops + 1
    /\ requestToEnd' = TRUE
    /\ NotifyOne
    /\ UNCHANGED <<queue, enqueueData, accepted, taken>>

Next ==
    \/ \E v \in Values : Enqueue(v)
    \/ \E c \in Consumers : TryDequeue(c) \/ ResumeWait(c) \/ SpuriousWakeup(c)
    \/ StopQueue

\* A consumer thread calls TryDequeue again after each value (the while loops
\* of RegThreadFunc, MessageReceiverThreadFunc and
\* NotificationReceiverThreadFunc), and a woken thread gets the mutex, which is
\* never held across a wait.  Nothing obliges a spurious wakeup to happen.
Fairness == \A c \in Consumers : WF_vars(TryDequeue(c)) /\ WF_vars(ResumeWait(c))

Spec == Init /\ [][Next]_vars /\ Fairness

------------------------------------------------------------------------------
\* Type invariant of the queue's fields, the threads and the histories.
TypeOK ==
    /\ queue \in Seq(Values)
    /\ requestToEnd \in BOOLEAN
    /\ enqueueData \in BOOLEAN
    /\ thread \in [Consumers -> Places]
    /\ stops \in Nat
    /\ accepted \in Seq(Values)
    /\ taken \in Seq(Values)

\* No wakeup is lost, for any number of consumers: as long as some thread sleeps
\* in m_cond.wait there are at least as many threads on their way to the queue
\* as values in it, so no value lies in the queue with everybody asleep.  This
\* is what one notify_one per Enqueue has to give.
EnoughWakeups ==
    At("blocked") # {} => Len(queue) <= Cardinality(At("notified"))

\* Until a reader carries the end out, what was enqueued is exactly what the
\* readers took followed by what is still queued, in the order of Enqueue: no
\* value is lost, duplicated, made up or overtaken, however the threads
\* interleave and wake up.
NothingLost == enqueueData => accepted = taken \o queue

\* Once a reader has carried the end out no value can be stranded in the queue:
\* nobody would ever read it (and the char* of a message would leak).
NothingStranded == At("ended") # {} => queue = <<>>

\* StopQueue ends the threads: called once for each reader of the queue, it makes
\* everybody who reads in a loop leave it, wherever the readers were and whatever
\* was queued.  The gateway's queues have one reader each, and this is what
\* messageReceiverThread.Join() and regThread->join() wait for.
StopEndsEveryConsumer ==
    stops >= Cardinality(Consumers) ~> \A c \in Consumers : thread[c] = "ended"

\* What the queue promises, threads left out; safety and liveness.
Channel == INSTANCE Mailbox
             WITH pending <- queue, got <- taken, closing <- requestToEnd,
                  open <- enqueueData, MaxPuts <- MaxEnqueues
ImplementsMailbox == Channel!MSpec

==============================================================================
