CONSTANTS
    Peers = {p1, p2, p3}
    NoPeer = NoPeer
SPECIFICATION FairSpec
CHECK_DEADLOCK FALSE
INVARIANTS
    ListMatches
PROPERTIES
    ImplementsPeerRegistry
    FailedIsClosed
