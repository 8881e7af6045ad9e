----------------------------- MODULE MCSipSessions -----------------------------
\* SipSessions on a small instance.
EXTENDS SipSessions, TLC

CONSTANTS c1, o1, o2, h1, h2, h3

PeerDef == (c1 :> "lyh") @@ ("subscriber" :> "lyh") @@ ("publisher" :> "self")
        @@ ("heart" :> "scscf") @@ ("registrar" :> "self")

\* Operations and handles are interchangeable.
MemorySymmetry == Permutations(Ops) \cup Permutations(Handles)

==============================================================================
