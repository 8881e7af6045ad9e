------------------------------ MODULE SipSessions ------------------------------
(***************************************************************************)
(* Sessions over Sofia-SIP (SipSession.cc, Sofia.cc, SipCallback.cc).  A   *)
(* session owns an operation, memory of the stack's home that holds a      *)
(* handle of the stack.  The handle remembers its operation as a bare      *)
(* address, also when the session has been deleted and the memory given to *)
(* another.  A request is addressed by the To of its handle or, if that    *)
(* has none, by the To of the whole stack.  Each user, a thread with its   *)
(* kind of request, makes a session, addresses it, sends, and keeps it or  *)
(* deletes it; the stack's thread answers challenges.                      *)
(* Operators marked "Faulty" are wrong versions of the one after them.     *)
(***************************************************************************)
EXTENDS Naturals

CONSTANTS Callers,     \* threads in SendCloudMessage: MESSAGE
          Subscriber,  \* the subscription timer: SUBSCRIBE
          Publisher,   \* an announcement task: PUBLISH
          Heart,       \* the heartbeat timer: OPTIONS
          Registrar,   \* the registration thread: REGISTER
          Peer,        \* whom each user addresses
          Ops,         \* the operations there is memory for
          Handles,     \* handles of the stack, of which none is used twice
          None

Users == Callers \cup {Subscriber, Publisher, Heart, Registrar}
Uris == {Peer[u] : u \in Users}

\* Memory and handles are not None, and neither is whom a user addresses.
ASSUME SessionsAssumption == None \notin Ops \cup Handles \cup Users \cup Uris

VARIABLES stage,    \* of each user's session
          session,  \* its m_pOperation
          handle,   \* op_handle of each operation; None while the memory is free
          magic,    \* the operation each handle was made or bound with
          mine,     \* history: the handle made for each user's session
          owner,    \* history: the user for whose session each handle was made
          to,       \* the To of each handle
          stackTo,  \* and that of the stack
          open,     \* requests without a final answer
          answered, \* history: the last handle challenged, and the one authenticated
          alive     \* nobody has used memory that was free

sipVars == <<stage, session, handle, magic, mine, owner, to, stackTo, open, answered, alive>>

SipInit ==
    /\ stage = [u \in Users |-> "none"]
    /\ session = [u \in Users |-> None]
    /\ handle = [o \in Ops |-> None]
    /\ magic = [h \in Handles |-> None]
    /\ mine = [u \in Users |-> None]
    /\ owner = [h \in Handles |-> None]
    /\ to = [h \in Handles |-> None]
    /\ stackTo = None
    /\ open = {}
    /\ answered = <<>>
    /\ alive = TRUE

------------------------------------------------------------------------------
(* Sessions.                                                                *)

\* createOperation: memory that is free, and a new handle that knows it.
Create(u) ==
    /\ stage[u] = "none"
    /\ \E o \in Ops, h \in Handles :
        /\ handle[o] = None /\ magic[h] = None
        /\ session' = [session EXCEPT ![u] = o]
        /\ handle' = [handle EXCEPT ![o] = h]
        /\ magic' = [magic EXCEPT ![h] = o]
        /\ mine' = [mine EXCEPT ![u] = h]
        /\ owner' = [owner EXCEPT ![h] = u]
    /\ stage' = [stage EXCEPT ![u] = "made"]
    /\ UNCHANGED <<to, stackTo, open, answered, alive>>

\* RegistrationSession and OptionsSession have a setToUri of their own.
StackWide == {Heart, Registrar}

\* Faulty: every setToUri sets a parameter of the stack.
SetToUriOfStack(u) ==
    /\ stage[u] = "made"
    /\ stage' = [stage EXCEPT ![u] = "addressed"]
    /\ stackTo' = Peer[u]
    /\ UNCHANGED <<session, handle, magic, mine, owner, to, open, answered, alive>>

SetToUri(u) ==
    /\ stage[u] = "made"
    /\ stage' = [stage EXCEPT ![u] = "addressed"]
    /\ IF u \in StackWide
       THEN stackTo' = Peer[u] /\ UNCHANGED to
       ELSE to' = [to EXCEPT ![handle[session[u]]] = Peer[u]] /\ UNCHANGED stackTo
    /\ UNCHANGED <<session, handle, magic, mine, owner, open, answered, alive>>

To(h) == IF to[h] = None THEN stackTo ELSE to[h]

\* A request of the user's session, which goes on while the session may end.
Request(u) ==
    /\ stage' = [stage EXCEPT ![u] = "sent"]
    /\ LET h == handle[session[u]] IN open' = open \cup {[handle |-> h, to |-> To(h)]}
    /\ UNCHANGED <<session, handle, magic, mine, owner, to, stackTo, answered, alive>>

SendMessage(u) == stage[u] = "addressed" /\ Request(u)
Publish == stage[Publisher] = "addressed" /\ Request(Publisher)
Register == stage[Registrar] = "addressed" /\ Request(Registrar)

\* The timers use their session again.
Heartbeat == stage[Heart] \in {"addressed", "sent"} /\ Request(Heart)
Subscribe == stage[Subscriber] \in {"addressed", "sent"} /\ Request(Subscriber)

\* Faulty: who deletes a session keeps the pointer to it, and deletes it again.
DeleteAndKeep(u) ==
    /\ stage[u] = "sent"
    /\ handle' = [handle EXCEPT ![session[u]] = None]
    /\ UNCHANGED <<stage, session, magic, mine, owner, to, stackTo, open, answered, alive>>

\* ~SipSession: the memory is given back, its handle and request stay.
Delete(u) ==
    /\ stage[u] = "sent"
    /\ handle' = [handle EXCEPT ![session[u]] = None]
    /\ session' = [session EXCEPT ![u] = None]
    /\ stage' = [stage EXCEPT ![u] = "none"]
    /\ mine' = [mine EXCEPT ![u] = None]
    /\ UNCHANGED <<magic, owner, to, stackTo, open, answered, alive>>

------------------------------------------------------------------------------
(* The stack's thread: dispatchEvent and the helpers for each kind.         *)

\* A MESSAGE comes in on a handle of its own.  Nobody deletes the operation that is
\* made for it first; a readable one gets a session with another operation, which
\* the handle knows from then on and which is freed with the session.
MessageComesIn ==
    /\ \E first, second \in Ops, h \in Handles :
        /\ handle[first] = None /\ handle[second] = None /\ magic[h] = None
        /\ handle' = [handle EXCEPT ![first] = h]
        /\ magic' = [magic EXCEPT ![h] = second]
    /\ UNCHANGED <<stage, session, mine, owner, to, stackTo, open, answered, alive>>

\* An OPTIONS has the session only.
OptionsComesIn ==
    /\ \E o \in Ops, h \in Handles :
        /\ handle[o] = None /\ magic[h] = None
        /\ magic' = [magic EXCEPT ![h] = o]
    /\ UNCHANGED <<stage, session, handle, mine, owner, to, stackTo, open, answered, alive>>

\* A final answer.
Answered(r) ==
    /\ r \in open
    /\ open' = open \ {r}
    /\ UNCHANGED <<stage, session, handle, magic, mine, owner, to, stackTo, answered, alive>>

\* Each helper answers 401 and 407 to a request of its kind.
Challenged(r) == r \in open

\* authenticate for a challenge (401, 407): it authenticates the handle of the
\* operation the stack hands over, which is the one the handle was made with.
Authenticate(r) ==
    /\ Challenged(r)
    /\ handle[magic[r.handle]] # None
    /\ answered' = <<r.handle, handle[magic[r.handle]]>>
    /\ UNCHANGED <<stage, session, handle, magic, mine, owner, to, stackTo, open, alive>>

\* The session was deleted and its memory is free: the process ends, or goes on
\* with what is still in it.
AuthenticateFreed(r) ==
    /\ Challenged(r)
    /\ handle[magic[r.handle]] = None
    /\ \/ alive' = FALSE /\ UNCHANGED answered
       \/ \E h \in Handles : answered' = <<r.handle, h>> /\ UNCHANGED alive
    /\ UNCHANGED <<stage, session, handle, magic, mine, owner, to, stackTo, open>>

Dispatch ==
    \/ MessageComesIn \/ OptionsComesIn
    \/ \E r \in open : Answered(r) \/ Authenticate(r) \/ AuthenticateFreed(r)

SipNext == alive /\
    \/ \E u \in Users : Create(u) \/ SetToUri(u) \/ Delete(u)
    \/ \E u \in Callers : SendMessage(u)
    \/ Publish \/ Register \/ Heartbeat \/ Subscribe
    \/ Dispatch

SipSpec == SipInit /\ [][SipNext]_sipVars

------------------------------------------------------------------------------
\* Type invariant.
SipTypeOK ==
    /\ stage \in [Users -> {"none", "made", "addressed", "sent"}]
    /\ session \in [Users -> Ops \cup {None}]
    /\ handle \in [Ops -> Handles \cup {None}]
    /\ magic \in [Handles -> Ops \cup {None}]
    /\ mine \in [Users -> Handles \cup {None}]
    /\ owner \in [Handles -> Users \cup {None}]
    /\ to \in [Handles -> Uris \cup {None}]
    /\ stackTo \in Uris \cup {None}
    /\ open \subseteq [handle : Handles, to : Uris]
    /\ answered \in {<<>>} \cup (Handles \X Handles)
    /\ alive \in BOOLEAN

\* MESSAGE, SUBSCRIBE and PUBLISH go to whom their session was made for, whatever
\* heartbeats and registrations set for the stack in between, and however the memory
\* of operations is used again.
ReachesPeer == \A r \in open :
    owner[r.handle] \notin StackWide => r.to = Peer[owner[r.handle]]

\* While a session lives, a challenge for its request authenticates that request and
\* no other.
ChallengeFindsRequest ==
    answered # <<>> /\ answered[1] # answered[2] => \A u \in Users : mine[u] # answered[1]

==============================================================================
