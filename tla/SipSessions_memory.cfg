\* Every user once; memory for two operations, three handles.
SPECIFICATION SipSpec
CONSTANTS
    c1 = c1
    o1 = o1
    o2 = o2
    h1 = h1
    h2 = h2
    h3 = h3
    Callers = {c1}
    Subscriber = "subscriber"
    Publisher = "publisher"
    Heart = "heart"
    Registrar = "registrar"
    Peer <- PeerDef
    Ops = {o1, o2}
    Handles = {h1, h2, h3}
    None = None
SYMMETRY MemorySymmetry
INVARIANTS ReachesPeer ChallengeFindsRequest
CHECK_DEADLOCK FALSE
