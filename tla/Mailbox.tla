------------------------------- MODULE Mailbox -------------------------------
(***************************************************************************)
(* What the three queues of the gateway (registration commands, incoming   *)
(* messages, incoming notifications) promise to the threads on both ends,  *)
(* without threads, mutexes or condition variables: a FIFO channel that    *)
(* can be closed once.  After the request to close nothing is handed over  *)
(* any more; when the reader notices the request, what is still pending is *)
(* thrown away and nothing is accepted from then on.                       *)
(***************************************************************************)
EXTENDS Naturals, Sequences

CONSTANTS Values,      \* what can be put in the mailbox
          MaxPuts      \* bound: number of values accepted in a behaviour

VARIABLES pending,     \* accepted and not yet handed over
          got,         \* everything handed over, in order
          closing,     \* closing was requested
          open         \* new values are still accepted

mvars == <<pending, got, closing, open>>

MInit ==
    /\ pending = <<>>
    /\ got = <<>>
    /\ closing = FALSE
    /\ open = TRUE

Put(v) ==
    /\ open
    /\ Len(pending) + Len(got) < MaxPuts
    /\ pending' = Append(pending, v)
    /\ UNCHANGED <<got, closing, open>>

Take ==
    /\ ~closing
    /\ pending # <<>>
    /\ got' = Append(got, Head(pending))
    /\ pending' = Tail(pending)
    /\ UNCHANGED <<closing, open>>

RequestClose ==
    /\ closing' = TRUE
    /\ UNCHANGED <<pending, got, open>>

Discard ==
    /\ closing
    /\ pending' = <<>>
    /\ open' = FALSE
    /\ UNCHANGED <<got, closing>>

MNext ==
    \/ \E v \in Values : Put(v)
    \/ Take
    \/ RequestClose
    \/ Discard

\* The reader keeps reading: a pending value is taken unless the mailbox is
\* closed, and a requested close is carried out.
MSpec == MInit /\ [][MNext]_mvars /\ WF_mvars(Take) /\ WF_mvars(Discard)

==============================================================================
